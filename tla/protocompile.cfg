SPECIFICATION AnalysisSpec
CONSTANTS
  Rules <- MCRules
  OutputName <- MCOutputName
  Parse <- MCParse
  Apparent <- MCApparent
  PluginId <- MCPluginId
  Star = "*"
  Spelling <- MCSpelling
  Capital <- MCCapital
  Upper <- MCUpper
INVARIANTS
  TypeOK
  InputsHaveOneProducer
  NothingIsLost
  RunsOnIncludedOnce
  OptionsReachNamed
  FailsExactlyOnInvalid
  ConflictsAreClashes
  LibraryFindsCode
CHECK_DEADLOCK FALSE
