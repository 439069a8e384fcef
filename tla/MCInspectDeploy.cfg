\* A redeploy confirmed but not final when the program is read.
CONSTANTS
  a = a  b = b  odd = odd
  Nodes = {n1}
  NumRows = 1
  Values = {a, b, odd}
  Absent = Absent
  MaxSlot = 2
  MaxKeys = 1
  KeyCap <- OneKey
  MaxSlotLag = 1
  Class <- MCClass
SPECIFICATION MCSpec
INVARIANT OkIsForTheWriter
CHECK_DEADLOCK FALSE
