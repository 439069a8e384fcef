\* Every (start, end, max) of an 8-value slot type: the last windows saturate.
CONSTANT MaxU64 = 7
SPECIFICATION Spec
INVARIANTS TypeOK TilesExactly WalkBounded
CHECK_DEADLOCK FALSE
