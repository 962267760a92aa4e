SPECIFICATION Spec
CONSTANTS
  t1 = t1
  t2 = t2
  b1 = b1
  Threads = {t1, t2}
  Buckets = {b1}
  Entries = 3
  Hashes <- AllHashes
  VersionMod = 256
  Object = Object
  MaxAllocs = 66
  MaxFrees = 64
  Stalled = t1
CONSTRAINT StalledAttempt
INVARIANT
  NoDoubleAllocation
