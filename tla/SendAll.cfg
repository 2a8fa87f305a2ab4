\* Every way an attempt may end, with and without TLS.
SPECIFICATION FairSpec
CONSTANTS
  a1 = a1
  a2 = a2
  a3 = a3
  Addresses <- ThreeAddresses
  Faults = {"dial", "reset", "timeout", "garbled", "lookup"}
  MaxSends = 2
INVARIANTS
  RepeatsNeedReset
  
PROPERTY
  SendReturns
CHECK_DEADLOCK FALSE
