SPECIFICATION AnalysisSpec
CONSTANTS
  Rules <- MCRules
  OutputName <- MCOutputName
  Parse <- MCParse
  Apparent <- MCApparent
  PluginId <- MCPluginId
  Star = "*"
  Spelling <- MCSpelling
  Capital <- MCCapital
  Upper <- MCUpper
INVARIANT
  ExclusionIsPrefix
CHECK_DEADLOCK FALSE
