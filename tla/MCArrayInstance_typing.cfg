SPECIFICATION BothSpec
CONSTANTS
  Words <- MCWords
  Hole = "hole"
  Labels = {"1", "2"}
  Roots <- MCRoots
  SymbolRoot = "w"
  Wildcards = {"?"}
  LabelKeys <- MCLabelKeys
  OtherPrintables = {"A", "C"}
  Keys <- MCKeys
  MaxPreedit = 3
  Phrases <- MCPhrases
  arrayCins <- MCarrayCins
  wildcardWords <- MCwildcardWords
  specialCodes <- MCspecialCodes
  specialChars <- MCspecialChars
  Configurations <- MCThreeOptions
  PanelPageSizes = {1}
  PreeditBound = 4
  PressBound = 2
INVARIANTS
  PanelShowsCode
  HiddenOnlyBehindWildcard
  ForwardIdle
  CodeShape
  TypeOK
  PanelShowsTable
  TableOfCode
  PressHasCandidates
  PageInside
  NeverCommitsHole
PROPERTIES
  SpecialCodeConfines
  SpecialCodeNotified
  CommitEndsComposition
  PlainKeysWaitForComposition
  CommitsCandidateOfCode
  DigitSelectsShown
  SpaceTurnsPages
