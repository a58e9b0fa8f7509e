SPECIFICATION FairSpec
CONSTANTS
  Call = {"ping", "trace"}
  Http = {"ping"}
  Trace = {"trace"}
  Asked <- MCAsked
  Key = {"s1", "t1", "t2"}
  None = none
  KeyOf <- MCKeyOf
  StoredAs <- MCStoredAs
  Spoof = {"s1", "s2"}
  CheckCache = {"s1", "t1", "t2"}
  CheckDb = {"t1", "t2"}
  Recent = {"t1", "t2"}
INVARIANTS
  GroupCanReceive
  EndedInTimeIsAnswered
PROPERTIES
  ContextEndsCall
CHECK_DEADLOCK FALSE
