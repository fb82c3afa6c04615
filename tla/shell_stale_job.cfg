SPECIFICATION Spec
CONSTANTS
  MAXJOBS = 1
  Pid <- OnePid
  JidBound = 2
  Commands <- ResumeJobs
  Keys <- None
  Outside <- None
  Faults <- None
PROPERTIES
  NoRevivedEntry
CHECK_DEADLOCK FALSE
