\* The root and one child, opened and closed again and again, on a file of
\* two pages.
SPECIFICATION Spec
CONSTANTS
  Root = r
  Handles = {r, c1}
  NoHandle = none
  FileLen = 4
  RootStart = 0
  PageSize = 2
  Windows <- SeveralWindows
  MaxOpens = 3
  IdMod = 8
INVARIANTS
  TypeOK
  LastOwnsPosition
  BufferIsWindow
PROPERTIES
  ShortReadOnlyAtEnd
  ReadReturns
  PrivateCursors
CHECK_DEADLOCK FALSE
