\* Every fault, requests on the loose included: what still holds.
SPECIFICATION FairSpec
CONSTANTS
  w1 = w1
  w2 = w2
  w3 = w3
  NoWrite = NoWrite
  Writes <- TwoWrites
  Faults = {"refused", "unreachable", "lost", "commitEnds", "crash"}
  MaxBatch = 2
  MaxLost = 1
PROPERTIES
  CallsReturn
  
CHECK_DEADLOCK FALSE
