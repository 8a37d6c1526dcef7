CONSTANT
  Changes = 4
SPECIFICATION FairSpec
INVARIANTS
  NoLostWakeup
  CleanCloseFlushes
PROPERTIES
  ImplementsDurableCache
  ChangesReachFile
CHECK_DEADLOCK FALSE
