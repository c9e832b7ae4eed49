SPECIFICATION Spec
CONSTANTS
  Modules = {"core", "old", "new"}
  ModulesOf <- MCModulesOf
  Versions = {"v1", "v2"}
  MaxRuns = 3
INVARIANTS
  ReleaseTypeOK
  RegistryServesRelease
PROPERTIES
  RegistryOnlyGrows
CHECK_DEADLOCK FALSE
