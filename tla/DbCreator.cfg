CONSTANTS
  DbNames <- MCDbNames
  SchemaNames <- MCSchemaNames
  Templates <- MCTemplates
  AppDb = "ecomm"
  Slots = {l1, l2}
  None = None
  MaxFaults = 3
SPECIFICATION FairSpec
INVARIANTS LiveProvisioned FaultFreeNeverFails
PROPERTY RetriesConverge
