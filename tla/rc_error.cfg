SPECIFICATION Spec
CONSTANTS
  Calls = {c1, c2, c3}
  MaxVersion = 1
  MaxTime = 30
  MaxQueue = 1
  MinInterval = 20
  MinBackoff = 2
  MaxBackoff = 8
  AnswerKinds <- AllAnswers
  ClockMayGoBack = FALSE
SYMMETRY Symmetry
INVARIANT FailureHasError
