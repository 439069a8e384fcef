\* Three rows in batches of two or one: a fetch can start over half way.
CONSTANTS
  a = a  n1 = n1  n2 = n2
  Nodes = {n1, n2}
  NumRows = 3
  Values = {a, b}
  Absent = Absent
  MaxSlot = 1
  MaxKeys = 2
  KeyCap <- MixedCaps
  MaxSlotLag = 1
SPECIFICATION MCSpec
INVARIANTS ReadsKeepTheirPlace CapAloneNeverFails
PROPERTIES EveryCallCounts OneLookARow
CHECK_DEADLOCK FALSE
