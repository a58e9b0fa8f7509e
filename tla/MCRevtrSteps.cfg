SPECIFICATION Spec
CONSTANTS
  VP <- MixedVP
  SpooferLists <- MixedList
  AdjacencyLists <- NoAdjacency
  Src = "s"
  Dst = "d"
  Zero = "zero"
  RateLimit = 2
  MaxUnresponsive = 2
  BackoffChoices = {FALSE}
  Cancellable = TRUE
  Addr <- LongAddr
  Cluster <- LongCluster
  RRReplies <- MixedReplies
  AtlasTraces <- MixedAtlas
  ForwardTraces <- MixedTraces
  StrayTraces <- MixedStrays
INVARIANTS
  NoHopTwice
  TokensOnCurrentPath
  Outcome
  ArrivalIsSeen
  PanicsAreExplained
  JoinsAtIntersection
