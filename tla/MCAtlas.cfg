SPECIFICATION FairSpec
CONSTANTS
  Client = {"c1", "c2"}
  Query = {"q1", "q2"}
  Hop = {"v1", "h"}
  Dest = {"d"}
  Source = {"v1", "v2", "v3"}
  Site = {"A", "B", "C"}
  HopOf <- MCHopOf
  DestOf <- MCDestOf
  SrcOf <- MCSrcOf
  IgnoreSource = {"q2"}
  SiteOf <- MCSiteOf
  Route <- MCRoute
  CacheSize = 2
  Burst = 2
  MaxToken = 2
  MaxStored = 1
  MaxCrashes = 1
  None = none
INVARIANTS
  NoTraceTwice
  OwnPath
PROPERTIES
  SourcesAreReleased
CHECK_DEADLOCK FALSE
