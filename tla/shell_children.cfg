SPECIFICATION FairSpec
CONSTANTS
  MAXJOBS = 1
  Pid <- TwoPids
  JidBound = 2
  Commands <- RunJobs
  Keys <- KeysAndDriver
  Outside <- StopAndResume
  Faults <- CallsFail
INVARIANTS
  SettledStates
PROPERTIES
  ForegroundNotDemoted
  ZombiesReaped
CHECK_DEADLOCK FALSE
