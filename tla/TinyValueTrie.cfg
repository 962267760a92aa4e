SPECIFICATION Spec
CONSTANTS
  Chars = {"a"}
  Words <- ShortWords
  Values = {"v"}
  Slots = {1, 2}
INVARIANTS
  SizeCounts
CHECK_DEADLOCK FALSE
