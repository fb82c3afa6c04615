SPECIFICATION FairSpec
CONSTANTS
  Thread = {t1, t2, t3}
  Url = {u1, u2}
  MaxCache = 2
  NoUrl = NoUrl
  TimeBound = 4
INVARIANTS
  TypeOK
  Exclusion
  HitServesOwnObject
  SleepersHaveWaker
  CopiesBounded
PROPERTIES
  LruSpec
  LookupsProceed
CHECK_DEADLOCK FALSE
