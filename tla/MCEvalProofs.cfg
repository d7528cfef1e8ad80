CONSTANTS
  Parsers <- Grammar
  Roots <- StackRoots
  Tidy <- TidyParsers
  Exact <- ExactParsers
  Inputs <- AllInputs
  MaxLen = 3
  UnrollThreshold = 3
  WordSize = 16
  MaxExpected = 2
  CallStackCap = 6
SPECIFICATION Spec
INVARIANTS
  StackInv
  CallInv
  ResultInv
