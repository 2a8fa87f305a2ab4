\* Two results read at a time, every fault, empty batches.
SPECIFICATION FairSpec
CONSTANTS
  r1 = r1
  r2 = r2
  Readers = {r1, r2}
  Results <- SomeResults
  Faults = {"refused", "lost", "resent", "convert", "cancel", "close"}
  MaxRefs = 2
INVARIANTS
  ReaderOK
  InOrder
  EndMeansAll
  OneBatchBuffered
PROPERTIES
  StopsForGood
  NextReturns
CHECK_DEADLOCK FALSE
