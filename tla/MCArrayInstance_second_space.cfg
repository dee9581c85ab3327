SPECIFICATION PhrasesSpec
CONSTANTS
  Words <- MCWords
  Hole = "hole"
  Labels = {"1", "2"}
  Roots <- MCRoots
  SymbolRoot = "w"
  Wildcards = {"?"}
  LabelKeys <- MCLabelKeys
  OtherPrintables = {"A", "C"}
  Keys <- MCPhraseKeys
  MaxPreedit = 3
  Phrases <- MCPhrases
  arrayCins <- MCarrayCins
  wildcardWords <- MCwildcardWords
  specialCodes <- MCspecialCodes
  specialChars <- MCspecialChars
  Configurations <- MCShowOnly
  PanelPageSizes = {1}
  PreeditBound = 3
  PressBound = 4
PROPERTY
  SecondSpaceCommits
