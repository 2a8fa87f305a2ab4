\* The catalog is walked while others change it.
SPECIFICATION Spec
CONSTANTS
  Places <- MCPlaces
  Names = {1, 2}
  Definitions <- MCDefinitions
  Worlds <- MCWorlds
  Calls <- MCCalls
  Faults = {"fail"}
  MaxChanges = 2
INVARIANTS
  WalkOK
  NothingMissed
  TablesOK
