SPECIFICATION Spec
CONSTANTS
  MAXJOBS = 4
  Pid = {1, 2, 3, 4}
  MaxJid = 5
INVARIANTS
  UniqueJids
CHECK_DEADLOCK FALSE
