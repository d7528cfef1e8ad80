CONSTANTS
  Parsers <- Grammar
  Roots <- LeakyRoot
  Inputs <- AllInputs
  MaxLen = 2
  UnrollThreshold = 3
  WordSize = 16
  MaxExpected = 2
  CallStackCap = 128
SPECIFICATION Spec
PROPERTIES
  ReturnsRestoreFlags
