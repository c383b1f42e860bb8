SPECIFICATION AppSpec
CONSTANTS
  Calls = {lib, d1, d2}
  LibraryCall = lib
  NoCall = none
  BookIds <- SmallBooks
  BannerIds <- SmallBanners
  MaxVersion = 2
  MaxTime = 30
  MaxQueue = 4
  MinInterval = 20
  MinBackoff = 2
  MaxBackoff = 8
  AnswerKinds <- SoundAnswers
  ClockMayGoBack = FALSE
INVARIANTS AppTypeOK HandlerReadsOneTemplate DefaultsBeforeReads FilledByOwnFetch
PROPERTY ShownNeverGoesBack
CHECK_DEADLOCK FALSE
