SPECIFICATION ProjectionSpec
CONSTANTS
  o1 = o1
  o2 = o2
  Repairs = {o1, o2}
  MaxRuns = 2
  MaxLog = 3
  MaxEvicted = 1
  MaxGuesses = 1
  BatchLimit = 2
CHECK_DEADLOCK FALSE
SYMMETRY AnyRepair
INVARIANT Repaired
INVARIANT ShownOnce
