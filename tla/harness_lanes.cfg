SPECIFICATION Spec
CONSTANTS
  None = None
  main = main
  review = review
  Lanes = {main, review}
  LaneOf <- TwoLanes
  Runs = {r1, r2}
  first = first
  again = again
  Calls = {c1}
  Ids = {c1}
  IdOf <- OneRepeats
  MaxTurns = 1
  MaxResumes = 0
  MaxFailures = 1
  Reexecute = TRUE
  Reports = {TRUE}
  MaxBlocks = 1
  MaxCrashes = 2
  MaxMessages = 0
  Stoppable = {}
INVARIANT RecoveredBeforeServing
PROPERTY NeverRestarted
CHECK_DEADLOCK FALSE
