\* More children than there are ids: CFH_ID wraps.
SPECIFICATION Spec
CONSTANTS
  Root = r
  Handles = {r, c1}
  NoHandle = none
  FileLen = 2
  RootStart = 0
  PageSize = 1
  Windows <- SmallWindows
  MaxOpens = 5
  IdMod = 4
PROPERTIES
  SeekFlagsLseek
CHECK_DEADLOCK FALSE
