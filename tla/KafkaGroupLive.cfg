SPECIFICATION LiveSpec
CONSTANTS
  Consumer = {c1, c2}
  Partition = {p1, p2}
  MaxFaults = 2
  MaxInFlight = 1
PROPERTIES Converges
CHECK_DEADLOCK FALSE
