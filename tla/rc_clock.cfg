SPECIFICATION Spec
CONSTANTS
  Calls = {c1, c2}
  MaxVersion = 2
  MaxTime = 30
  MaxQueue = 1
  MinInterval = 20
  MinBackoff = 2
  MaxBackoff = 8
  AnswerKinds <- SoundAnswers
  ClockMayGoBack = TRUE
SYMMETRY Symmetry


INVARIANT SkipMeansActive
