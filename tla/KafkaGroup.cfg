SPECIFICATION Spec
CONSTANTS
  Consumer = {c1, c2}
  Partition = {p1, p2}
  MaxFaults = 1
  MaxInFlight = 2
SYMMETRY Symmetry
INVARIANTS MembershipSound JoinTravelsAlone
PROPERTIES NoStaleReset
CHECK_DEADLOCK FALSE
