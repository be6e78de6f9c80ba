SPECIFICATION Spec
CONSTANTS
  l1 = l1
  l2 = l2
  Lanes = {l1, l2}
  Paths = {"old", "new", "log"}
  Denied = {}
  Tracked = {"old"}
  Ignored = {"log"}
  Equipped = {2}
  MaxRuns = 3
  MaxCalls = 3
CHECK_DEADLOCK FALSE
SYMMETRY AnyLane
INVARIANT CommandsAreStopped
INVARIANT RejectUndoes
INVARIANT ConflictsAreReported
