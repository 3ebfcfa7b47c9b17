SPECIFICATION Spec
CONSTANTS
  Tables <- MCTables
  FirstAddr = 3
  LastAddr = 10
  Own <- MCOwn
  MaxTables = 3
INVARIANTS
  TypeOK
  TranslationReachesFile
  RingReachesItsFile
CHECK_DEADLOCK FALSE
