\* A table created for a type that cannot be ingested.
SPECIFICATION Spec
CONSTANTS
  Shapes <- MixedShapes
  Faults = {}
  MaxBinds = 2
  MaxTables = 2
INVARIANT
  CreatableIsIngestable
CHECK_DEADLOCK FALSE
