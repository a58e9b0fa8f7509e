SPECIFICATION FairSpec
CONSTANTS
  r1 = r1
  r2 = r2
  Req <- TwoReqs
  IdSpace = 3
  WriteCap = 1
INVARIANTS
  OwnAnswer
  RoomToSend
  NobodyForgotten
  LockHolderIsServed
PROPERTIES
  Implements
  ClosedReleasesCallers
