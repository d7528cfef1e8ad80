CONSTANTS
  N = 4
  Objects <- ObjectSet
  Null = Null
  Kinds = {"leaf", "variadic", "bind"}
  FixKinds = {"variadic"}
  CountBound = 13
  MaxHandles = 2
SPECIFICATION Spec
INVARIANTS
  TypeOK
  NothingUndefined
  CountsArePrecise
  FreedOnce
  CountsAreExact
CHECK_DEADLOCK FALSE
