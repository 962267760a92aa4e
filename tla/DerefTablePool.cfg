SPECIFICATION StatSpec
CONSTANTS
  t1 = t1
  t2 = t2
  b1 = b1
  b2 = b2
  Threads = {t1, t2}
  Buckets = {b1, b2}
  Entries = 2
  Hashes <- AllHashes
  VersionMod = 256
  Object = Object
  MaxAllocs = 3
  MaxFrees = 2
SYMMETRY ThreadSymmetry
INVARIANTS
  TableInv
  CountersAgree
  MaxBoundsPeak
PROPERTIES
  ImplementsPool
