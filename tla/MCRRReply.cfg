SPECIFICATION Spec
CONSTANTS
  Src = "s"
  Dst = "d"
  Zero = "zero"
  Addr <- MCAddr
  Cluster <- MCCluster
  VP = {"v"}
  MaxSlots = 6
  MaxWire = 3
INVARIANTS
  NoRouterTwice
  WayBackIsComplete
  DecodedIsSent
  StoredIsFound
CHECK_DEADLOCK FALSE
