SPECIFICATION Spec
CONSTANTS
  Names <- MCNames
  AliasPaths <- MCAliasPaths
  Asks = 2
  NoAlias = NoAlias
INVARIANT TriesAllForms
CHECK_DEADLOCK FALSE
