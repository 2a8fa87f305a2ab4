\* One connection and one statement, a Cancel of the statement at any time, every fault.
SPECIFICATION Spec
CONSTANTS
  c1 = c1
  s1 = s1
  Connections = {c1}
  Statements = {s1}
  Cancelers = {s1}
  Options = {"autocommit"}
  Faults = {"fail", "panic"}
  MaxContexts = 2
INVARIANTS
  CancelReaches
  ContextsOK
  PoisonHasCause
  ObjectsOK
CHECK_DEADLOCK FALSE
