\* A child of a child.
SPECIFICATION Spec
CONSTANTS
  Root = r
  Handles = {r, c1, c2}
  NoHandle = none
  FileLen = 4
  RootStart = 0
  PageSize = 2
  Windows <- NestedWindows
  MaxOpens = 3
  IdMod = 8
PROPERTIES
  ChildFitsParent
CHECK_DEADLOCK FALSE
