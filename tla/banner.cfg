SPECIFICATION CarouselFairSpec
CONSTANTS
  Counts <- FewBanners
  Grain = 3
INVARIANTS CarouselTypeOK InsideContent PagesExist AutoscrollArmed
PROPERTIES IsCircularPager EveryBannerShown
