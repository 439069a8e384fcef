\* A row read in a newer batch than the merged context slot.
CONSTANTS
  a = a  n1 = n1  n2 = n2
  Nodes = {n1, n2}
  NumRows = 2
  Values = {a, b}
  Absent = Absent
  MaxSlot = 2
  MaxKeys = 2
  KeyCap <- MixedCaps
  MaxSlotLag = 1
SPECIFICATION MCSpec
INVARIANT FailIsCorrupt
CHECK_DEADLOCK FALSE
