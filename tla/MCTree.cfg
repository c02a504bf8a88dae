SPECIFICATION Spec
CONSTANTS
  Trees <- SmallTrees
  NameKey <- TwoNames
  OneFs <- Both
INVARIANTS
  TypeOK
  CountKept
  InStep
  Rebuilt
  Applies
  NeverLost
CHECK_DEADLOCK FALSE
