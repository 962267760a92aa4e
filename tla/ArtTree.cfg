SPECIFICATION Spec
CONSTANTS
  t1 = t1
  t2 = t2
  t3 = t3
  Threads = {t1, t2, t3}
  Ladder <- SmallLadder
  MaxStored = 1
  MayOverflow = FALSE
  Scenarios <- AllScenarios
INVARIANTS
  TypeOK
  GarbageUnused
  HashesAgree
  GraceSuffices
  LeafLockFree
  Accounted
PROPERTIES
  ImplementsMap
CHECK_DEADLOCK FALSE
