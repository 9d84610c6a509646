CONSTANTS
  Services <- Part
  Needs <- PartNeeds
  Backends <- PartBackends
  Optional <- PartOptional
  Discoverable <- Part
  Desired <- PartDesired
  Breakers <- CircuitBreakers
  Threshold = 3
  MaxUpdates = 1
  MaxBad = 1
  MaxFaults = 1
SPECIFICATION FairSpec
INVARIANTS BackendsResolve StaysInService
PROPERTIES UpdatesEnd Converges
