SPECIFICATION Spec
CONSTANTS
  text = text
  thought = thought
  usage = usage
  StreamOf <- Streams
  Merging = {text, thought}
  MaxBuffer = 2
  QueueLimit = 2
  MaxEvents = 3
  MaxBatch = 1
  MaxFaults = 1
INVARIANT LossIsLogged
INVARIANT RowsInOrder
INVARIANT DeltasInOrder
INVARIANT ShutdownDrains
PROPERTY NothingStays
CHECK_DEADLOCK FALSE
