SPECIFICATION ConfigurationSpec
CONSTANTS
  KeyTexts = {"", "Shift+space"}
  NoKeys = ""
  ShiftSpace = "Shift+space"
  Unset = "unset"
  EditBound = 1
  Refusable = {"Hfkey"}
  Homes <- MCHomes
  Instances = {i1, i2}
  NoInstance = NoInstance
  ModeBound = 1
INVARIANT
  OnlySetSlotsUsed
