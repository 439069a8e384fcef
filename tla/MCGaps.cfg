\* gap_slots right after a reconnect, on one node.
CONSTANTS
  Nodes = {n1}
  MaxSlot = 2
  MaxU64 = 3
  MaxRange = 2
  Kinds = {"gaps"}
SYMMETRY NodeSymmetry
SPECIFICATION Spec
INVARIANT GapListIsExact
CHECK_DEADLOCK FALSE
