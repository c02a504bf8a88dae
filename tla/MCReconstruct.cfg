SPECIFICATION Spec
CONSTANTS
  NSrc = 3
  Overlays = {2}
  VerLen = 4
  MaxPos = 2
  BufSize = 2
  OutReadable = TRUE
  Inputs <- MCInputs
  Lengths <- MCLengths
INVARIANTS
  TypeOK
  TakenSoFar
  Correct
PROPERTIES
  AddedOnce
  OnePass
  Finishes
CHECK_DEADLOCK FALSE
