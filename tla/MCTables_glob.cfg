SPECIFICATION TablesSpec
CONSTANTS
  Texts <- MCTexts
  lowerStr <- MClowerStr
  Files <- MCFiles
  Modes <- MCModes
  Patterns <- MCPatterns
  Expressions <- MCExpressions
  Targets <- MCTargets
  WideSize = TRUE
  ReadBound = 2
  Chars = {"a", "b"}
  matchOneChar = "?"
  matchZeroOrMoreChar = "*"
INVARIANT
  Complete
CHECK_DEADLOCK FALSE
