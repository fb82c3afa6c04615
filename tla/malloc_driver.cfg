SPECIFICATION Spec
CONSTANTS
  MAX_HEAP = 128
  CHUNKSIZE = 32
  CLASSNUM = 4
  Libs = {"mm", "right", "list", "blk"}
  Restartable = {"mm", "right", "blk"}
  NumIds = 3
  Sizes = {8, 28}
  MaxOps = 5
  MaxFiles = 2
INVARIANTS TypeOK TagsAgree FreeListsExact DriverSatisfied UtilisationSound
PROPERTY HeapSpec
CHECK_DEADLOCK FALSE
