CONSTANTS
  Pats <- Pairs
  Grammars = {}
  Texts <- Strings
  Sentences = {}
  PosixClasses <- Classes
  Actions <- ActionTable
  MaxText = 3
SPECIFICATION Spec
INVARIANT VerdictIsThePatterns
CHECK_DEADLOCK FALSE
