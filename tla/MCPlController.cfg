SPECIFICATION Spec
CONSTANTS
  VP = {v1}
  Port = 2
  Stream = {{r1, r2}}
  r1 = r1
  r2 = r2
  v1 = v1
INVARIANTS
  TablesAgree
  NoCommandLeft
  AnswerFindsCaller
CHECK_DEADLOCK FALSE
