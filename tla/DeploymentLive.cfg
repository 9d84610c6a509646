CONSTANTS
  Stacks <- Part
  Declared <- PartDeclared
  Imports <- PartImports
  Hosts <- PartHosts
  Sessions = {ci}
  None = None
  Parallel = 2
  MaxFaults = 2
  MaxImages = 0
SPECIFICATION FairSpec
INVARIANT ReadyIsImportable
PROPERTIES SessionsEnd Converges
