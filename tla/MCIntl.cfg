SPECIFICATION IntlSpec
CONSTANTS
  Threads = {1, 2, 3, 4, 5}
  None = 0
  Uses <- MCUses
  MaxDepth = 2
  Comers = {1, 2, 3}
  Nobody = 0
  OnceStyles = {"solaris", "win32", "singlethreaded"}
  Callers = {1, 2}
  Locales = {"C", "aa_X", "aa", "bb", "cc", "d/aa", "alias"}
  Setups <- MCSetups
  DefaultDomain = 2
  DefaultDir = "default"
  Nil = Nil
  Empty = Empty
  Invalid = Invalid
  SEGMENTS_END = SEGMENTS_END
  Undefined = Undefined
  inttypes <- MCinttypes
  Catalogs <- MCCatalogs
  Sought <- MCSought
  SIZE_MAX = 2000
  INT_MAX = 120
  ArgSize = 2
  DirSize = 100
  MB_CUR_MAX = 4
  Memory = 800
  Formats <- MCFormats
  Prints <- MCPrints
  Rooms <- MCRooms
INVARIANTS
  IntlTypeOK
  Consistent
  CalledOnce
  FindsItsMessages
  PluralFormsAsC
  PrintsAsC
PROPERTIES
  Exclusion
  Served
  AnswersCurrent
  LoadedOnce
  CallsReturn
  TriesForms
CHECK_DEADLOCK FALSE
