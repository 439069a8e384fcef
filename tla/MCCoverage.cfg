\* One node behind the endpoint: both reads move forward only.
CONSTANTS
  Nodes = {n1}
  MaxSlot = 4
  MaxU64 = 5
  MaxRange = 2
  Kinds = {"completeness", "orphans", "gaps"}
SPECIFICATION FairSpec
INVARIANTS TypeOK PassIsComplete PassHasNoOrphan MissingIsReal OrphanIsReal SkipHidesNothing SettledIsExact
PROPERTIES OneLook CheckEnds
CHECK_DEADLOCK FALSE
