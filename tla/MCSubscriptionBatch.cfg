SPECIFICATION Spec
CONSTANTS
  Subs = {s1, s2}
  Names = {n1, n2}
  Plans <- TwoPlans
  Targets <- LastOfFebruary
  Batches = {b1, b2}
  FirstDay <- Feb27
  LastOrdinal <- Mar1Ordinal
  MaxBatches = 3
  MaxEdits = 2
  Null = Null
SYMMETRY Symmetry
INVARIANTS TypeOK ChargedOnce AnnouncedOnce
PROPERTIES CatchesUp
CHECK_DEADLOCK FALSE
