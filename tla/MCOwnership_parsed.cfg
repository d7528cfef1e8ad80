CONSTANTS
  N = 3
  Objects <- ObjectSet
  Null = Null
  Kinds = {"leaf", "unary"}
  FixKinds = {"unary"}
  CountBound = 12
  MaxHandles = 2
SPECIFICATION Spec
INVARIANTS
  NothingFreedIsUsed
CHECK_DEADLOCK FALSE
