CONSTANTS
  p1 = p1
  p2 = p2
  Partition = {p1, p2}
  Node = {1, 2}
  BatchSize = 2
  MaxFaults = 1
  Modes <- AllModes
SPECIFICATION Spec
INVARIANTS BatchesTracked DeliverySound Atomic
CHECK_DEADLOCK FALSE
