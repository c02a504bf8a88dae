SPECIFICATION Spec
CONSTANTS
  NSrc = 3
  Overlays = {2}
  VerLen = 4
  MaxPos = 2
  BufSize = 2
  OutReadable = FALSE
  Inputs <- MCInputs
  Lengths <- MCLengths
INVARIANTS
  OverlaysSupported
CHECK_DEADLOCK FALSE
