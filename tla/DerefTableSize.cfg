SPECIFICATION Spec
CONSTANTS
  t1 = t1
  t2 = t2
  b1 = b1
  Threads = {t1, t2}
  Buckets = {b1}
  Entries = 1
  Hashes <- AllHashes
  VersionMod = 256
  Object = Object
  Stalled = t1
  MaxAllocs = 3
  MaxFrees = 1
INVARIANT
  SizeAssertion
