SPECIFICATION Safety
CONSTANTS
  w1 = w1
  w2 = w2
  Workers = {w1, w2}
  MaxRuns = 2
  MaxStarts = 2
  MaxDecisions = 2
  MaxInterrupts = 0
  MaxArchives = 1
  MaxCrashes = 0
  MaxTimeouts = 1
  MaxDeaths = 0
  MaxRestarts = 0
SYMMETRY AnyWorker
INVARIANT StatusIsAnnounced
INVARIANT RejectedNeverKept
PROPERTY ReviewIsRespected
CHECK_DEADLOCK FALSE
