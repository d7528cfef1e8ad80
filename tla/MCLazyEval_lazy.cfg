CONSTANTS
  Nodes <- NodeSet
  Null = Null
  Forests <- AllForests
  ResultCap = 2
  DataCap = 1
  N = 4
  LeafTypes = {"CHAR", "INLINE", "LIFT"}
SPECIFICATION FairSpec
INVARIANTS
  TypeOK
  AssertsHold
  NothingUndefined
  EveryLazyFreed
  TreeInv
  HInv
PROPERTIES
  ImplementsTreeValue
