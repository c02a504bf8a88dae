SPECIFICATION Spec
CONSTANTS
  Cases <- AllCases
  SampleRates = {1, 2, 4}
  SeedLen = 3
  Multi = 2
  Buckets = 2
  Keys = 4
  DepthWrap = 3
INVARIANTS
  TypeOK
  SeedOfPlace
  CopiesTrue
  FindsHashed
