SPECIFICATION Spec
CONSTANTS
  p1 = p1
  p2 = p2
  Partition = {p1, p2}
  Batches <- Log
  Corrupt = {4}
  DefaultReset = "earliest"
  ReadCommitted = TRUE
  Modes <- AllModes
  MaxRecords = 2
  Targets = {4}
  MaxEpoch = 2
  MaxResets = 1
  MaxFaults = 1
INVARIANTS FetchesTracked RecordsInOrder NotReturnedWhilePaused
CHECK_DEADLOCK FALSE
