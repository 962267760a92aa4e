SPECIFICATION LiveSpec
CONSTANTS
  t1 = t1
  t2 = t2
  n1 = n1
  n2 = n2
  n3 = n3
  l1 = l1
  l2 = l2
  l3 = l3
  Threads = {t1, t2}
  Writers = {t1}
  Nodes = {n1, n2, n3}
  Labels = {l1, l2, l3}
  Nil = Nil
  LabelSize = 1
  Period = 2
  Threshold = 1
  MaxEpoch = 2
PROPERTIES
  CleanupEnds
CHECK_DEADLOCK FALSE
