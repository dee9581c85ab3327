SPECIFICATION Spec
CONSTANTS
  Names <- MCNames
  AliasPaths <- MCAliasPaths
  Asks = 2
  NoAlias = NoAlias
INVARIANT ModifierDroppedFirst
CHECK_DEADLOCK FALSE
