SPECIFICATION Spec
CONSTANTS
  t1 = t1
  t2 = t2
PROPERTIES
  CallsReturn
  ImplementsMap
CHECK_DEADLOCK FALSE
