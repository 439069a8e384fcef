\* One row, two nodes; a redeploy and a write may come anywhere in the call.
CONSTANTS
  a = a  b = b  odd = odd
  Nodes = {n1, n2}
  NumRows = 1
  Values = {a, b, odd}
  Absent = Absent
  MaxSlot = 2
  MaxKeys = 1
  KeyCap <- OneKey
  MaxSlotLag = 1
  Class <- MCClass
SPECIFICATION MCFairSpec
INVARIANTS InspectTypeOK OkSawFinalDeploys StaleIsReal OkFieldsAreTheCopy
PROPERTIES InspectEnds
CHECK_DEADLOCK FALSE
