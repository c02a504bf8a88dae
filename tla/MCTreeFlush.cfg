\* What the files hold after all commands were executed with success.
SPECIFICATION Spec
CONSTANTS
  Trees <- SmallTrees
  NameKey <- TwoNames
  OneFs <- Same
INVARIANTS
  ContentOnDisk
CHECK_DEADLOCK FALSE
