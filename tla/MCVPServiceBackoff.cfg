SPECIFICATION FairSpec
CONSTANTS
  VP = {"a", "b", "b2"}
  Node = {"A", "B"}
  NodeOf <- MCNodeOf
  SiteOf <- MCSiteOf
  TestSize = 2
  None = none
PROPERTY BackoffIsStored
