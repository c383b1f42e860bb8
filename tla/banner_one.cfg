SPECIFICATION CarouselSpec
CONSTANTS
  Counts <- OneBanner
  Grain = 3
INVARIANT SecondPageAfterJump
