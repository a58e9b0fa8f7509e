SPECIFICATION FairSpec
CONSTANTS
  Handler = {h1, h2}
  UserMax = 2
  MaxRequest = 2
  Polled = {1}
  MaxId = 4
  MaxCrashes = 1
INVARIANTS
  QuotaBound
  AnswerIsWhole
PROPERTIES
  BatchEnds
CHECK_DEADLOCK FALSE
