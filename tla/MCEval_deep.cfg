CONSTANTS
  Parsers <- Grammar
  Roots <- DeepRoot
  Inputs <- AllInputs
  MaxLen = 3
  UnrollThreshold = 3
  WordSize = 16
  MaxExpected = 2
  CallStackCap = 4
SPECIFICATION Spec
INVARIANTS
  AnswerIsPromised
