\* Scripts of a few commands, two requests and any proxy between them.
CONSTANTS
  NoHandler = 0
  Ids = {"r1", "r2"}
  Handlers = {1, 2}
  Files = {"data1.txt"}
  strict = 2
  SameHost = TRUE
  Cases <- MCCases
  errorLimit = 2
SPECIFICATION FairSpec
INVARIANTS TypeOK WaitMeansDone CheckSound
PROPERTIES DriverFinishes
CHECK_DEADLOCK FALSE
