CONSTANTS
  Pats <- PatternSet
  Grammars <- GrammarSet
  Texts <- Strings
  Sentences <- Inputs
  PosixClasses <- Classes
  Actions <- ActionTable
  MaxText = 3
SPECIFICATION Spec
INVARIANTS
  TypeOK
  PatternsAreAccepted
  GrammarsAreAccepted
  VerdictIsThePatternsUnpaired
  TextIsTheMatch
  RuleMeansItsText
CHECK_DEADLOCK FALSE
