CONSTANTS
  Parsers <- Grammar
  Roots <- SoundRoots
  Inputs <- AllInputs
  MaxLen = 3
  UnrollThreshold = 3
  WordSize = 16
  MaxExpected = 2
  CallStackCap = 128
SPECIFICATION FairSpec
INVARIANTS
  TypeOK
  DataStackSafe
  NoAssertFails
  AnswerIsPromised
  AnswerIsComputed
  NeverRewindsPastCall
  NoNullFold
  FailureIsReported
PROPERTIES
  ReturnsRestoreFlags
  ReturnsRestoreScope
  SilentParsersReportNothing
  Terminates
  ImplementsContract
