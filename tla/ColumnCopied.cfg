\* Columns of every type, read in every encoding and ingested again.
SPECIFICATION Spec
CONSTANTS
  NULL = NULL
  Bits <- SmallBits
  Digits <- SmallDigits
  Nanos <- SmallNanos
  WordBits = 2
  Ten = 2
  Types <- AllTypes
  MaxRows = 3
  MaxItems = 2
  Columns <- AllColumns
  ChildEncodings = {"flat", "constant", "dictionary"}
INVARIANTS
  ReadOK
  StoredExact
CHECK_DEADLOCK FALSE
