SPECIFICATION Spec
CONSTANTS
  Statements <- MCStatements
INVARIANTS
  ScanOK
  
PROPERTIES
  OnlyMarkers
CHECK_DEADLOCK FALSE
