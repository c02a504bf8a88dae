SPECIFICATION Spec
CONSTANTS
  RefLen = 2
  Chains <- ShortAndLong
INVARIANTS
  TypeOK
  ChainsWellFormed
  EachByteOnce
  CollapseKeepsVersion
  OneOwner
PROPERTIES
  ImplementsPatches
CHECK_DEADLOCK FALSE
