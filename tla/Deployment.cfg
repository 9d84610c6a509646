CONSTANTS
  Stacks <- Core
  Declared <- CoreDeclared
  Imports <- CoreImports
  Hosts <- PartHosts
  Sessions = {ci, dev}
  None = None
  Parallel = 2
  MaxFaults = 1
  MaxImages = 1
SPECIFICATION Spec
INVARIANT AddressesCurrent
PROPERTY ImplementsRollout
