SPECIFICATION Spec
CONSTANTS
  Kinds <- AllKinds
  Lists <- AllLists
INVARIANTS
  TypeOK
  ReadsBack
  PrefixRead
