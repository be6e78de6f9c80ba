SPECIFICATION Spec
CONSTANTS
  w1 = w1
  w2 = w2
  Workers = {w1, w2}
  MaxRuns = 1
  MaxStarts = 1
  MaxDecisions = 0
  MaxInterrupts = 1
  MaxArchives = 0
  MaxCrashes = 1
  MaxTimeouts = 1
  MaxDeaths = 1
  MaxRestarts = 1
PROPERTY NothingIsStuck
CHECK_DEADLOCK FALSE
