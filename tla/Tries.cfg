SPECIFICATION Spec
CONSTANTS
  Chars = {"a", "b"}
  Words <- SixWords
  PlainWords <- ShortWords
  TrieValues = {"v1", "v2"}
INVARIANTS
  HashesAgree
  Tiny2NoEmptyNode
PROPERTIES
  ImplementsMap
