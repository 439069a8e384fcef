\* Four accounts, two nodes with different caps, one slot after the first.
CONSTANTS
  good = good  bad = bad  other = other
  n1 = n1  n2 = n2
  Nodes = {n1, n2}
  NumRows = 4
  Values = {good, bad, other}
  Absent = Absent
  MaxSlot = 1
  MaxBatch = 2
  MaxKeys = 2
  KeyCap <- MixedCaps
  MaxSample = 3
  Matching = {good, bad}
  Passing = {good, other}
SPECIFICATION MCFairSpec
INVARIANTS TypeOK SampleIsAsAsked CountsAreOneLook CleanHidesNoFailure FlaggedIsEarned SinceSeesFinalDeploys
PROPERTIES SentinelEnds
CHECK_DEADLOCK FALSE
