\* What a directory holds after a patch was applied with success.
SPECIFICATION Spec
CONSTANTS
  Trees <- SmallTrees
  NameKey <- TwoNames
  OneFs <- Same
INVARIANTS
  RestWiped
CHECK_DEADLOCK FALSE
