SPECIFICATION Spec
CONSTANTS
  Calls = {c1, c2, c3}
  MaxVersion = 1
  MaxTime = 30
  MaxQueue = 0
  MinInterval = 20
  MinBackoff = 2
  MaxBackoff = 8
  AnswerKinds <- AllAnswers
  ClockMayGoBack = TRUE
SYMMETRY Symmetry
INVARIANTS TypeOK OneFetchInProgress NoCallLost
