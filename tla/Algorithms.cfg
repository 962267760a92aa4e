CONSTANTS
  SpecialCount = 4
  IndexCount = 32
  BitOr <- OrOfBits
  Buckets = {b1, b2}
  Primes <- SomePrimes
  PowersOfTwo <- SomePowers
  WordMod = 2048
  MaxRequest = 2047
  Codes = {1, 2}
  WordPool <- SomeWords
  MaxWords = 3
  MaxText = 4
  Base = 6
  Full4 = 2
  Full16 = 4
  Under16 = 2
  Under256 = 4
  Room16 = 2
  Room64 = 4
  Least64 = 2
  Least256 = 4
  Leaves = {"leaf"}
  Inner = {"inner"}
SPECIFICATION Spec
INVARIANTS
  ReadsAsMap
  StaysInside
  ReadsBack
  ReservedWords
  CountsRight
  SizedByCounts
  EnoughRoom
  LinksRight
  MatchesRight
CHECK_DEADLOCK FALSE
