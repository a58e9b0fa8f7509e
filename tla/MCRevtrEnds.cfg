SPECIFICATION FairSpec
CONSTANTS
  VP <- BudgetVP
  SpooferLists <- BudgetList
  AdjacencyLists <- BudgetAdjacencies
  Src = "s"
  Dst = "d"
  Zero = "zero"
  RateLimit = 2
  MaxUnresponsive = 3
  BackoffChoices = {TRUE, FALSE}
  Cancellable = FALSE
  Addr <- LongAddr
  Cluster <- LongCluster
  RRReplies <- BudgetReplies
  AtlasTraces <- BudgetAtlas
  ForwardTraces <- BudgetTraces
  StrayTraces <- NoTraces
INVARIANTS
  UnresponsiveBudget
PROPERTIES
  Terminates
