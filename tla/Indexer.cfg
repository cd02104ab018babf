CONSTANTS
  Unit <- MCUnit
  NoUnit = NoUnit
  NoDecl = NoDecl
  NoFile = NoFile
  MaxLine = 2
  MaxColumn = 8
  MaxCallbacks = 4
SPECIFICATION Spec
INVARIANTS
  TypeOK
  IndexIsWellFormed
  CachesAgree
  FromProjectMeansDeclared
PROPERTIES
  ReferencesSurviveFinish
  LocationsKeepAPrimary
