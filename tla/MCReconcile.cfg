\* Two rows, two nodes with caps of one and of two keys.
CONSTANTS
  a = a  n1 = n1  n2 = n2
  Nodes = {n1, n2}
  NumRows = 2
  Values = {a, b}
  Absent = Absent
  MaxSlot = 2
  MaxKeys = 2
  KeyCap <- MixedCaps
  MaxSlotLag = 1
SPECIFICATION MCFairSpec
INVARIANTS TypeOK FailAtContextIsCorrupt CorruptIsNotExcused
PROPERTIES ReconcileEnds
CHECK_DEADLOCK FALSE
