SPECIFICATION FairSpec
CONSTANTS
  Key = {1}
  Tab = {t1, t2}
  Free = free
  Cap = 2
  Final = 4
INVARIANTS
  NoChannelPanic
  ShowsTheLast
PROPERTIES
  HangsOnlyByInversion
CHECK_DEADLOCK FALSE
