SPECIFICATION Spec
CONSTANTS
  t1 = t1
  t2 = t2
  t3 = t3
  b1 = b1
  b2 = b2
  Threads = {t1, t2, t3}
  Buckets = {b1, b2}
  Entries = 2
  Hashes <- AllHashes
  VersionMod = 256
  Object = Object
  Stalled = t1
  MaxAllocs = 3
  MaxFrees = 2
SYMMETRY ThreadSymmetry
INVARIANTS
  TypeOK
  NoDoubleAllocation
  FreeListIntact
  LockDiscipline
  ChoiceConsistent
PROPERTIES
  ObjectsUntouched
