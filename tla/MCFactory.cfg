SPECIFICATION FactoryPartsSpec
CONSTANTS
  Texts <- MCTexts
  lowerStr <- MClowerStr
  Files <- MCFiles
  Modes <- MCModes
  Patterns <- MCPatterns
  Expressions <- MCExpressions
  Targets <- MCTargets
  WideSize = TRUE
  ReadBound = 2
  Chars = {"a", "b"}
  matchOneChar = "?"
  matchZeroOrMoreChar = "*"
  KeyTexts = {"", "Shift+space"}
  NoKeys = ""
  ShiftSpace = "Shift+space"
  Unset = "unset"
  EditBound = 1
  Refusable = {"Hfkey"}
  Homes <- MCOneHome
  Instances = {i1, i2}
  NoInstance = NoInstance
  ModeBound = 1
INVARIANTS
  InRange
  Matches
  FindsDeclared
  FindsUnordered
  FoundWasDeclared
  ConfigurationTypeOK
  ChangedTellsEdits
  ShownIsInForce
  PanelShowsModes
PROPERTY
  Ends
CHECK_DEADLOCK FALSE
