\* A COMMIT whose reply is lost leaves txOpen set on a closed transaction.
SPECIFICATION Spec
CONSTANTS
  w1 = w1
  w2 = w2
  w3 = w3
  NoWrite = NoWrite
  Writes <- TwoWrites
  Faults = {"lost"}
  MaxBatch = 2
  MaxLost = 1
INVARIANT
  TxFlagMeansOpen
CHECK_DEADLOCK FALSE
