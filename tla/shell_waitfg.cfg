SPECIFICATION FairSpec
CONSTANTS
  MAXJOBS = 1
  Pid <- OnePid
  JidBound = 2
  Commands <- RunForeground
  Keys <- None
  Outside <- None
  Faults <- None
PROPERTIES
  WaitfgReturns
CHECK_DEADLOCK FALSE
