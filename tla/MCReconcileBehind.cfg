\* One row whose account the answering node does not know yet.
CONSTANTS
  a = a  n1 = n1  n2 = n2
  Nodes = {n1, n2}
  NumRows = 1
  Values = {a, b}
  Absent = Absent
  MaxSlot = 2
  MaxKeys = 2
  KeyCap <- MixedCaps
  MaxSlotLag = 1
SPECIFICATION MCSpec
INVARIANT OlderReadNeverFails
CHECK_DEADLOCK FALSE
