\* The server may refuse and crash, requests may not reach it; a Send that
\* fails has had no effect.
SPECIFICATION Spec
CONSTANTS
  w1 = w1
  w2 = w2
  w3 = w3
  NoWrite = NoWrite
  Writes <- ThreeWrites
  Faults = {"refused", "unreachable", "crash"}
  MaxBatch = 2
  MaxLost = 0
INVARIANTS
  TypeOK
  TxAgreement
  NoPointlessTxSql
  FateIsTrue
  AllOrNothing
PROPERTIES
  AdbcSpec
  CloseDiscards
CHECK_DEADLOCK FALSE
