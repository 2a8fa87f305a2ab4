\* A statement bound and executed again and again while its table comes and goes.
SPECIFICATION FairSpec
CONSTANTS
  Shapes <- MixedShapes
  Faults = {"refused", "lost", "others"}
  MaxBinds = 2
  MaxTables = 2
INVARIANTS
  BindingsOK
  FirstPart
  
  
  ModeKept
PROPERTY
  ExecuteReturns
CHECK_DEADLOCK FALSE
