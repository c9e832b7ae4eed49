SPECIFICATION FairSpec
CONSTANTS
  Tables <- MCTables
  FirstTables = {"fewer"}
  Tests <- MCTests
  MaxMakes = 2
  MaxEdits = 1
  MaxFaults = 1
INVARIANTS
  RulegenTypeOK
  SuccessIsWhole
  ReferencesResolve
  DocumentedAttrsWork
  RouteguideWhereLibraries
PROPERTIES
  Finishes
CHECK_DEADLOCK FALSE
