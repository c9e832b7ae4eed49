SPECIFICATION FairSpec
CONSTANTS
  Rules <- MCRules
  OutputName <- MCOutputName
  Parse <- MCSelf
  Apparent <- MCSelf
  PluginId <- MCSelf
  Star = "*"
  TreeNames <- MCTreeNames
  TreePath <- MCTreePath
INVARIANTS
  ExecTypeOK
PROPERTIES
  ImplementsTargetBuild
  Delivers
CHECK_DEADLOCK FALSE
