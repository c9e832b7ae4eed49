SPECIFICATION Spec
CONSTANTS
  a1 = a1
  a2 = a2
  b1 = b1
  h = h
  blank = blank
  none = none
  dirA = dirA
  dirB = dirB
  pkgA = pkgA
  pkgB = pkgB
  MaxLines = 3
  Path <- MCPath
  GoPath <- MCGoPath
  Blank <- blank
  Directory <- MCDirectory
  DirOf <- MCDirOf
  Package <- MCPackage
  NoPackage <- none
  DirName <- MCDirName
  Jobs <- MCJobs
INVARIANTS
  TypeOK
  ProducesDeclared
  MatchesGenerated
  DeniedOnlyTwice
CHECK_DEADLOCK FALSE
