SPECIFICATION Spec
CONSTANTS
  Group = 4
  Width = 9
  MaxAlloc = 31
  Written <- MCWritten
  Served <- MCServed
  Changes = {1, 2, 4, 8, 16, 31}
INVARIANTS
  RoundTrip
  WholeOrRefused
  CountsAgree
  NumbersFit
CHECK_DEADLOCK FALSE
