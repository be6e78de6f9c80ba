SPECIFICATION FairSpec
CONSTANTS
  None = None
  main = main
  review = review
  Lanes = {main, review}
  LaneOf <- OneLane
  Runs = {r1}
  first = first
  again = again
  Calls = {first, again, c1}
  Ids = {first, c1}
  IdOf <- OneRepeats
  MaxTurns = 2
  MaxResumes = 1
  MaxFailures = 2
  Reexecute = FALSE
  Reports = {TRUE}
  MaxBlocks = 1
  MaxCrashes = 2
  MaxMessages = 1
  Stoppable = {r1}
INVARIANT StartedUnderMark
INVARIANT EveryCallAnswered
INVARIANT LostToRepeats
PROPERTY TerminalIsFinal
PROPERTY LedgerSpec
PROPERTY EveryRunEnds
CHECK_DEADLOCK FALSE
