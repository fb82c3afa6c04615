SPECIFICATION Spec
CONSTANTS
  MAXJOBS = 2
  Pid <- TwoPids
  JidBound = 2
  Commands <- JobControl
  Keys <- Keyboard
  Outside <- SelfStop
  Faults <- None
INVARIANTS
  TypeOK
  NoPhantomJob
  OneEntryPerPid
  ChildrenListed
  ForegroundHeld
