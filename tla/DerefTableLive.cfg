SPECIFICATION FairSpec
CONSTANTS
  t1 = t1
  t2 = t2
  b1 = b1
  b2 = b2
  Threads = {t1, t2}
  Buckets = {b1, b2}
  Entries = 1
  Hashes <- AllHashes
  VersionMod = 256
  Object = Object
  Stalled = t1
  MaxAllocs = 3
  MaxFrees = 2
PROPERTIES
  CallsReturn
