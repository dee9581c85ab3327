SPECIFICATION TypingSpec
CONSTANTS
  Words <- MCWords
  Hole = "hole"
  Labels = {"1", "2"}
  Roots <- MCRoots
  SymbolRoot = "w"
  Wildcards = {"?"}
  LabelKeys <- MCLabelKeys
  OtherPrintables = {"A", "C"}
  Keys <- MCKeys
  MaxPreedit = 3
  Phrases <- MCPhrases
  arrayCins <- MCarrayCins
  wildcardWords <- MCwildcardWords
  specialCodes <- MCspecialCodes
  specialChars <- MCspecialChars
  Configurations <- MCThreeOptions
  PanelPageSizes = {}
  PreeditBound = 4
  PressBound = 2
INVARIANT
  PressDroppedWithCode
