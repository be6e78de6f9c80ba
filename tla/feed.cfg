SPECIFICATION Spec
CONSTANTS
  a = a
  b = b
  Sessions = {a, b}
  None = None
  KindOf <- TextThenEnd
  Threads = 2
  MaxDeltas = 1
  MaxViews = 2
  MaxDrops = 1
  MaxFailures = 1
SYMMETRY AnySession
INVARIANT LiveTextIsFresh
INVARIANT GapsAreExplained
CHECK_DEADLOCK FALSE
