SPECIFICATION Spec
CONSTANTS
  VerSize = 8
  ArchiveSeed = 2
  FirstSeed = 4
  MinSeed = 1
INVARIANTS
  TypeOK
  ListInOrder
  WindowAtMain
  BuffReachesVs
  NoGapMissed
  TotalIsExact
PROPERTIES
  GapsOnce
  DeltaDone
  KeepsPromise
CHECK_DEADLOCK FALSE
