\* Two nodes behind one URL: getSlot and getBlocks may reach different ones.
CONSTANTS
  Nodes = {n1, n2}
  MaxSlot = 2
  MaxU64 = 3
  MaxRange = 2
  Kinds = {"completeness"}
SYMMETRY NodeSymmetry
SPECIFICATION Spec
INVARIANT PassIsComplete
CHECK_DEADLOCK FALSE
