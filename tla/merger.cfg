SPECIFICATION FairSpec
CONSTANTS
  Path <- MCPath
  Manifests <- MCManifests
INVARIANTS
  TypeOK
  FirstWins
  NothingLost
  PanicsExactlyOnConflict
PROPERTIES
  ImplementsMergedTree
  Terminates
CHECK_DEADLOCK FALSE
