SPECIFICATION AppFairSpec
CONSTANTS
  Calls = {lib, d1, d2}
  LibraryCall = lib
  NoCall = none
  BookIds <- SmallBooks
  BannerIds <- SmallBanners
  MaxVersion = 1
  MaxTime = 30
  MaxQueue = 4
  MinInterval = 20
  MinBackoff = 2
  MaxBackoff = 8
  AnswerKinds <- SoundAnswers
  ClockMayGoBack = FALSE

PROPERTIES EveryHandlerFinishes OpenScreenIsFilled
CHECK_DEADLOCK FALSE
