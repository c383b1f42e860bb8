------------------------ MODULE BannerCarouselProofs ------------------------
(***************************************************************************)
(* The banner carousel is a circular pager, for every number of banners    *)
(* and however finely positions are told apart.                            *)
(***************************************************************************)
EXTENDS BannerCarousel, TLAPS

Positions == [page : Int, part : 0 .. Grain - 1]

Inside(p) == fakeCurrentPage(p) \in 1 .. n + 1

\* i and j are the same or neighbours on the circle of n banners.
Neighbours(i, j) == j \in {i, IF i = n - 1 THEN 0 ELSE i + 1, IF i = 0 THEN n - 1 ELSE i - 1}

LEMMA PageType == \A p \in Int : Page(p) \in Positions
BY CarouselAssumption DEF Page, Positions

LEMMA FirstInRange == \A m \in Nat : m > 0 => 1 \in 1 .. m + 1 /\ 0 \in 0 .. m - 1
OBVIOUS

LEMMA ShiftedBy ==
  ASSUME NEW p \in Positions, NEW d \in Steps
  PROVE  /\ Shifted(p, d) \in Positions /\ Shifted(p, -d) \in Positions
         /\ Shifted(p, d).page \in {p.page, p.page + 1}
         /\ Shifted(p, -d).page \in {p.page, p.page - 1}
         /\ CentreRow(Shifted(p, d)) \in {CentreRow(p), CentreRow(p) + 1}
         /\ CentreRow(Shifted(p, -d)) \in {CentreRow(p), CentreRow(p) - 1}
         /\ fakeCurrentPage(Shifted(p, d)) \in {fakeCurrentPage(p), fakeCurrentPage(p) + 1}
         /\ fakeCurrentPage(Shifted(p, -d)) \in {fakeCurrentPage(p), fakeCurrentPage(p) - 1}
BY CarouselAssumption DEF Positions, Shifted, CentreRow, fakeCurrentPage, Steps

\* A movement by less than a page, and the jump that may follow, keep the view
\* inside and change the banner on screen at most to a neighbour.
LEMMA LoopAfterMove ==
  ASSUME n \in Nat \ {0}, NEW p \in Positions, Inside(p), NEW r \in Positions,
         fakeCurrentPage(r) \in fakeCurrentPage(p) - 1 .. fakeCurrentPage(p) + 1,
         CentreRow(r) \in CentreRow(p) - 1 .. CentreRow(p) + 1
  PROVE  /\ loopItems(r) \in Positions /\ Inside(loopItems(r))
         /\ Neighbours(currentPage(p), currentPage(loopItems(r)))
<1>1. CASE fakeCurrentPage(r) = 0
  BY <1>1, CarouselAssumption
  DEF loopItems, Positions, Inside, Page, fakeNumberOfItems, fakeCurrentPage, currentPage,
      getRealIndex, CentreRow, Neighbours
<1>2. CASE fakeCurrentPage(r) = n + 2
  BY <1>2, CarouselAssumption
  DEF loopItems, Positions, Inside, Page, fakeNumberOfItems, fakeCurrentPage, currentPage,
      getRealIndex, CentreRow, Neighbours
<1>3. CASE fakeCurrentPage(r) \in 1 .. n + 1
  <2>1. loopItems(r) = r
    BY <1>3 DEF loopItems, fakeNumberOfItems
  <2>2. CentreRow(p) \in 0 .. n + 1 /\ CentreRow(r) \in 0 .. n + 1
    BY <1>3, CarouselAssumption DEF Positions, Inside, fakeCurrentPage, CentreRow
  <2>3. Neighbours(currentPage(p), currentPage(r))
    BY <2>2 DEF currentPage, getRealIndex, Neighbours
  <2> QED BY <1>3, <2>1, <2>3 DEF Inside
<1> QED BY <1>1, <1>2, <1>3 DEF Inside, fakeCurrentPage, Positions

\* A frame goes toward the target and not past it.
LEMMA TowardBy ==
  ASSUME NEW p \in Positions, NEW t \in Int, NEW d \in Steps, p # Page(t)
  PROVE  /\ Toward(p, t, d) \in Positions
         /\ fakeCurrentPage(Toward(p, t, d)) \in fakeCurrentPage(p) - 1 .. fakeCurrentPage(p) + 1
         /\ CentreRow(Toward(p, t, d)) \in CentreRow(p) - 1 .. CentreRow(p) + 1
         /\ p.page < t => /\ fakeCurrentPage(Toward(p, t, d)) \in fakeCurrentPage(p) .. t
                          /\ \/ Toward(p, t, d) = Page(t) \/ Toward(p, t, d).page < t
<1>1. CASE p.page < t
  <2>1. Toward(p, t, d) = IF Shifted(p, d).page >= t THEN Page(t) ELSE Shifted(p, d)
    BY <1>1 DEF Toward
  <2>2. CASE Shifted(p, d).page >= t
    <3>1. Shifted(p, d).page \in {p.page, p.page + 1} /\ p.page \in Int /\ p.part \in 0 .. Grain - 1
      BY ShiftedBy DEF Positions
    <3>2. p.page = t - 1
      BY <1>1, <2>2, <3>1
    <3>3. fakeCurrentPage(Page(t)) = t /\ CentreRow(Page(t)) = t
      BY CarouselAssumption DEF Page, fakeCurrentPage, CentreRow
    <3>4. fakeCurrentPage(p) \in {t - 1, t} /\ CentreRow(p) \in {t - 1, t}
      BY <3>1, <3>2 DEF fakeCurrentPage, CentreRow
    <3> QED BY <1>1, <2>1, <2>2, <3>3, <3>4, PageType
  <2>3. CASE ~(Shifted(p, d).page >= t)
    <3> DEFINE q == Shifted(p, d)
    <3>1. /\ q \in Positions /\ q.page \in {p.page, p.page + 1} /\ q.page < t
          /\ CentreRow(q) \in {CentreRow(p), CentreRow(p) + 1}
          /\ fakeCurrentPage(q) \in {fakeCurrentPage(p), fakeCurrentPage(p) + 1}
      BY <2>3, ShiftedBy DEF Positions
    <3>2. Toward(p, t, d) = q
      BY <2>1, <2>3
    <3> HIDE DEF q
    <3>3. fakeCurrentPage(p) \in Int /\ CentreRow(p) \in Int /\ fakeCurrentPage(q) <= t
      BY <3>1 DEF Positions, fakeCurrentPage, CentreRow
    <3> QED BY <3>1, <3>2, <3>3
  <2> QED BY <2>2, <2>3
<1>2. CASE ~(p.page < t)
  <2>1. Toward(p, t, d) = IF Shifted(p, -d).page < t THEN Page(t) ELSE Shifted(p, -d)
    BY <1>2 DEF Toward
  <2>2. CASE Shifted(p, -d).page < t
    <3>1. Shifted(p, -d).page \in {p.page, p.page - 1} /\ p.page \in Int /\ p.part \in 0 .. Grain - 1
      BY ShiftedBy DEF Positions
    <3>2. p.page = t
      BY <1>2, <2>2, <3>1
    <3>3. fakeCurrentPage(Page(t)) = t /\ CentreRow(Page(t)) = t
      BY CarouselAssumption DEF Page, fakeCurrentPage, CentreRow
    <3>4. fakeCurrentPage(p) \in {t, t + 1} /\ CentreRow(p) \in {t, t + 1}
      BY <3>1, <3>2 DEF fakeCurrentPage, CentreRow
    <3> QED BY <1>2, <2>1, <2>2, <3>3, <3>4, PageType
  <2>3. CASE ~(Shifted(p, -d).page < t)
    <3> DEFINE q == Shifted(p, -d)
    <3>1. /\ q \in Positions
          /\ CentreRow(q) \in {CentreRow(p), CentreRow(p) - 1}
          /\ fakeCurrentPage(q) \in {fakeCurrentPage(p), fakeCurrentPage(p) - 1}
      BY ShiftedBy
    <3>2. Toward(p, t, d) = q
      BY <2>1, <2>3
    <3> HIDE DEF q
    <3>3. fakeCurrentPage(p) \in Int /\ CentreRow(p) \in Int
      BY DEF Positions, fakeCurrentPage, CentreRow
    <3> QED BY <1>2, <3>1, <3>2, <3>3
  <2> QED BY <2>2, <2>3
<1> QED BY <1>1, <1>2

-----------------------------------------------------------------------------
(* The inductive invariant.  Beyond what the runs check it says that nothing *)
(* moves before the banners are known, that the page control always shows    *)
(* some banner, and that a scroll started by the timer goes forward to the   *)
(* page the page control already shows.                                      *)

NoBanners == n = 0 => mode = "rest" /\ pos = Page(0) /\ indicator = 0

ShowsSome ==
  n > 0 => /\ Inside(pos)
           /\ indicator \in 0 .. n - 1
           /\ timer
           /\ mode = "rest" => pos.part = 0 /\ indicator = currentPage(pos)

Scrolling ==
  /\ mode \in {"auto", "settling"} => target \in 0 .. n + 1
  /\ mode = "auto" => /\ target > 0 /\ indicator = getRealIndex(target)
                      /\ pos = Page(target) \/ pos.page < target

CarouselInv == CarouselTypeOK /\ NoBanners /\ ShowsSome /\ Scrolling

\* What a step of the carousel does to the pager it implements.
PagerStep == [Pager!PagerNext]_<<n, Item, mode = "rest", indicator>>

LEMMA InitInv == CarouselInit => CarouselInv
BY CarouselAssumption
DEF CarouselInit, CarouselInv, CarouselTypeOK, NoBanners, ShowsSome, Scrolling, Page

LEMMA RealIndexInRange ==
  ASSUME n \in Nat \ {0}, NEW p \in Positions, Inside(p)
  PROVE  currentPage(p) \in 0 .. n - 1
BY CarouselAssumption DEF Positions, Inside, fakeCurrentPage, currentPage, getRealIndex, CentreRow

\* A moving view is a Move of the pager.
LEMMA IsMove ==
  ASSUME n \in Nat \ {0}, UNCHANGED n, mode' # "rest", indicator' \in 0 .. n - 1,
         Neighbours(currentPage(pos), currentPage(pos)')
  PROVE  PagerStep
<1>1. Item = currentPage(pos) /\ Item' = currentPage(pos)'
  BY DEF Item
<1>2. Pager!Move
  BY <1>1 DEF Pager!Move, Pager!After, Pager!Before, Neighbours
<1> QED BY <1>2 DEF PagerStep, Pager!PagerNext

-----------------------------------------------------------------------------
(* Each operation keeps the invariant and is a step of the pager. *)

LEMMA ShowBannersStep ==
  ASSUME CarouselInv, ShowBanners
  PROVE  CarouselInv' /\ PagerStep
<1>1. /\ n = 0 /\ n' \in Nat \ {0} /\ n' \in Counts /\ pos' = Page(1) /\ timer' = TRUE
      /\ indicator' = 0 /\ mode' = "rest" /\ mode = "rest" /\ target' = target
  BY CarouselAssumption DEF ShowBanners, CarouselInv, NoBanners
<1>2. pos'.page = 1 /\ pos'.part = 0 /\ pos' \in Positions
  BY <1>1, PageType DEF Page
<1>3. n' \in Nat /\ n' > 0
  BY <1>1
<1>4. Inside(pos)' /\ currentPage(pos)' = 0
  <2>1. fakeCurrentPage(pos') = 1 /\ CentreRow(pos') = 1
    BY <1>2, CarouselAssumption DEF fakeCurrentPage, CentreRow
  <2>2. 1 \in 1 .. n' + 1
    BY <1>3, FirstInRange
  <2>3. getRealIndex(1)' = 0
    BY <1>3 DEF getRealIndex
  <2> QED BY <2>1, <2>2, <2>3 DEF Inside, currentPage, fakeCurrentPage, CentreRow
<1>5. CarouselInv'
  <2>1. CarouselTypeOK'
    BY <1>1, <1>2 DEF CarouselInv, CarouselTypeOK, Positions
  <2>2. NoBanners' /\ Scrolling'
    BY <1>1 DEF NoBanners, Scrolling
  <2>3. ShowsSome'
    <3>1. indicator' \in 0 .. n' - 1
      BY <1>1, <1>3, FirstInRange
    <3> QED BY <1>1, <1>2, <1>4, <3>1 DEF ShowsSome
  <2> QED BY <2>1, <2>2, <2>3 DEF CarouselInv
<1>6. Pager!Fill
  BY <1>1, <1>4 DEF Pager!Fill, Item
<1> QED BY <1>5, <1>6 DEF PagerStep, Pager!PagerNext

LEMMA TimerStep ==
  ASSUME CarouselInv, scrollToNextElement
  PROVE  CarouselInv' /\ PagerStep
<1>1. CASE n = 0
  <2>1. UNCHANGED <<n, pos, mode, target, indicator>> /\ timer' \in BOOLEAN /\ n' = 0
    BY <1>1 DEF scrollToNextElement
  <2>2. CarouselInv'
    BY <2>1 DEF CarouselInv, CarouselTypeOK, NoBanners, ShowsSome, Scrolling
  <2> QED BY <2>1, <2>2 DEF PagerStep, Item, currentPage, getRealIndex, CentreRow
<1>2. CASE n # 0
  <2> DEFINE from == IF fakeCurrentPage(pos) = fakeNumberOfItems - 1 THEN Page(1) ELSE pos
  <2>1. /\ n \in Nat \ {0} /\ pos \in Positions /\ pos.part = 0 /\ pos.page \in 1 .. n + 1
        /\ Inside(pos)
    BY <1>2 DEF CarouselInv, CarouselTypeOK, ShowsSome, Positions, scrollToNextElement, Inside,
       fakeCurrentPage
  <2>2. /\ from = Page(from.page) /\ from.page \in 1 .. n /\ from \in Positions
        /\ currentPage(from) = currentPage(pos)
    <3>1. CASE pos.page = n + 1
      BY <2>1, <3>1, CarouselAssumption
      DEF fakeNumberOfItems, fakeCurrentPage, Page, currentPage, getRealIndex, CentreRow, Positions
    <3>2. CASE pos.page # n + 1
      BY <2>1, <3>2, CarouselAssumption DEF fakeNumberOfItems, fakeCurrentPage, Page, Positions
    <3> QED BY <3>1, <3>2
  <2>3. /\ pos' = from /\ mode' = "auto" /\ target' = NextPageFrom(from) /\ timer' = TRUE
        /\ indicator' = NewPageRealIndex(from) /\ n' = n
    BY <1>2 DEF scrollToNextElement
  <2> HIDE DEF from
  <2>4. target' = from.page + 1 /\ indicator' = (IF from.page < n THEN from.page ELSE 0)
    BY <2>2, <2>3 DEF NextPageFrom, NewPageRealIndex, fakeCurrentPage, Page
  <2>5. indicator' \in 0 .. n - 1 /\ indicator' = getRealIndex(target)'
    BY <2>1, <2>2, <2>3, <2>4 DEF getRealIndex
  <2>6. Inside(pos)'
    BY <2>1, <2>2, <2>3 DEF Inside, fakeCurrentPage, Page
  <2>7. CarouselInv'
    BY <2>1, <2>2, <2>3, <2>4, <2>5, <2>6
    DEF CarouselInv, CarouselTypeOK, NoBanners, ShowsSome, Scrolling, Positions
  <2>8. currentPage(pos)' = currentPage(pos)
    BY <2>2, <2>3 DEF currentPage, getRealIndex, CentreRow
  <2> QED BY <2>1, <2>3, <2>5, <2>7, <2>8, IsMove DEF Neighbours
<1> QED BY <1>1, <1>2

LEMMA TouchStep ==
  ASSUME CarouselInv, Touch
  PROVE  CarouselInv' /\ PagerStep
<1>1. /\ n \in Nat \ {0} /\ mode' = "dragging" /\ UNCHANGED <<n, pos, target, timer, indicator>>
      /\ indicator \in 0 .. n - 1
  BY DEF Touch, CarouselInv, CarouselTypeOK, ShowsSome
<1>2. currentPage(pos)' = currentPage(pos) /\ (Inside(pos)' <=> Inside(pos))
  BY <1>1 DEF currentPage, getRealIndex, CentreRow, Inside, fakeCurrentPage
<1>3. CarouselInv'
  BY <1>1, <1>2 DEF CarouselInv, CarouselTypeOK, NoBanners, ShowsSome, Scrolling
<1> QED BY <1>1, <1>2, <1>3, IsMove DEF Neighbours

LEMMA DragStep ==
  ASSUME CarouselInv, NEW d \in Steps, Drag(d) \/ Drag(-d)
  PROVE  CarouselInv' /\ PagerStep
<1>1. /\ n \in Nat \ {0} /\ pos \in Positions /\ Inside(pos) /\ mode' = "dragging"
      /\ timer' = TRUE /\ UNCHANGED <<n, target, indicator>> /\ indicator \in 0 .. n - 1
  BY DEF Drag, CarouselInv, CarouselTypeOK, NoBanners, ShowsSome, Positions
<1>2. PICK r \in {Shifted(pos, d), Shifted(pos, -d)} : pos' = loopItems(r)
  BY DEF Drag
<1>3. /\ r \in Positions
      /\ fakeCurrentPage(r) \in fakeCurrentPage(pos) - 1 .. fakeCurrentPage(pos) + 1
      /\ CentreRow(r) \in CentreRow(pos) - 1 .. CentreRow(pos) + 1
  BY <1>1, <1>2, ShiftedBy DEF Positions, fakeCurrentPage, CentreRow
<1>4. pos' \in Positions /\ Inside(pos') /\ Neighbours(currentPage(pos), currentPage(pos'))
  BY <1>1, <1>2, <1>3, LoopAfterMove
<1>5. Inside(pos)' /\ currentPage(pos)' = currentPage(pos')
  BY <1>1, <1>4 DEF Inside, fakeCurrentPage, currentPage, getRealIndex, CentreRow
<1>6. CarouselInv'
  BY <1>1, <1>4, <1>5
  DEF CarouselInv, CarouselTypeOK, NoBanners, ShowsSome, Scrolling, Positions
<1> QED BY <1>1, <1>4, <1>5, <1>6, IsMove

LEMMA LiftStep ==
  ASSUME CarouselInv, NEW t \in 0 .. n + 1, Lift(t)
  PROVE  CarouselInv' /\ PagerStep
<1>1. /\ n \in Nat \ {0} /\ pos \in Positions /\ Inside(pos) /\ timer /\ timer' = timer
      /\ UNCHANGED <<n, pos>> /\ target' = t /\ indicator' = currentPage(pos)
      /\ mode' = (IF pos = Page(t) THEN "rest" ELSE "settling") /\ mode = "dragging"
  BY DEF Lift, CarouselInv, CarouselTypeOK, NoBanners, ShowsSome, Positions
<1>2. /\ currentPage(pos)' = currentPage(pos) /\ currentPage(pos) \in 0 .. n - 1
      /\ Inside(pos)'
  BY <1>1, RealIndexInRange DEF currentPage, getRealIndex, CentreRow, Inside, fakeCurrentPage
<1>3. mode' = "rest" => pos'.part = 0
  BY <1>1 DEF Page
<1>4. CarouselInv'
  BY <1>1, <1>2, <1>3 DEF CarouselInv, CarouselTypeOK, NoBanners, ShowsSome, Scrolling, Positions
<1>5. CASE mode' = "rest"
  <2>1. Pager!Rest
    BY <1>1, <1>2, <1>5 DEF Pager!Rest, Item
  <2> QED BY <1>4, <2>1 DEF PagerStep, Pager!PagerNext
<1>6. CASE mode' # "rest"
  BY <1>1, <1>2, <1>4, <1>6, IsMove DEF Neighbours
<1> QED BY <1>5, <1>6

LEMMA FrameStep ==
  ASSUME CarouselInv, NEW d \in Steps, Frame(d)
  PROVE  CarouselInv' /\ PagerStep
<1> DEFINE r == Toward(pos, target, d)
<1>1. /\ n \in Nat \ {0} /\ pos \in Positions /\ Inside(pos) /\ UNCHANGED <<n, mode, indicator>>
      /\ mode \in {"auto", "settling"} /\ timer' = TRUE /\ indicator \in 0 .. n - 1
      /\ pos' = loopItems(r) /\ target \in 0 .. n + 1 /\ pos # Page(target)
      /\ target' = (IF pos' = r THEN target ELSE pos'.page)
  BY DEF Frame, CarouselInv, CarouselTypeOK, NoBanners, ShowsSome, Scrolling, Positions
<1>2. /\ r \in Positions
      /\ fakeCurrentPage(r) \in fakeCurrentPage(pos) - 1 .. fakeCurrentPage(pos) + 1
      /\ CentreRow(r) \in CentreRow(pos) - 1 .. CentreRow(pos) + 1
      /\ pos.page < target => /\ fakeCurrentPage(r) \in fakeCurrentPage(pos) .. target
                              /\ r = Page(target) \/ r.page < target
  BY <1>1, TowardBy
<1> HIDE DEF r
<1>3. pos' \in Positions /\ Inside(pos') /\ Neighbours(currentPage(pos), currentPage(pos'))
  BY <1>1, <1>2, LoopAfterMove
<1>4. Inside(pos)' /\ currentPage(pos)' = currentPage(pos')
  BY <1>1, <1>3 DEF Inside, fakeCurrentPage, currentPage, getRealIndex, CentreRow
<1>5. target' \in 0 .. n + 1
  <2>1. pos'.page \in 0 .. n + 1
    BY <1>1, <1>3 DEF Inside, fakeCurrentPage, Positions
  <2> QED BY <1>1, <2>1
<1>6. ASSUME mode = "auto"
      PROVE  /\ target' = target /\ (pos' = Page(target) \/ pos'.page < target)
             /\ target > 0 /\ indicator = getRealIndex(target)
  <2>1. pos.page < target /\ target > 0 /\ indicator = getRealIndex(target)
    BY <1>1, <1>6 DEF CarouselInv, Scrolling
  <2>2. fakeCurrentPage(r) \in 1 .. n + 1
    BY <1>1, <1>2, <2>1 DEF Inside, Positions, fakeCurrentPage
  <2>3. loopItems(r) = r
    BY <1>1, <2>2 DEF loopItems, fakeNumberOfItems
  <2> QED BY <1>1, <1>2, <2>1, <2>3
<1>7. CarouselTypeOK' /\ NoBanners'
  BY <1>1, <1>3, <1>5 DEF CarouselInv, CarouselTypeOK, NoBanners, Positions
<1>8. ShowsSome'
  BY <1>1, <1>4 DEF ShowsSome
<1>9. Scrolling'
  BY <1>1, <1>5, <1>6 DEF Scrolling, getRealIndex
<1> QED BY <1>1, <1>3, <1>4, <1>7, <1>8, <1>9, IsMove DEF CarouselInv

LEMMA EndStep ==
  ASSUME CarouselInv, scrollViewDidEndDecelerating \/ AnimationEnds
  PROVE  CarouselInv' /\ PagerStep
<1>1. /\ n \in Nat \ {0} /\ pos \in Positions /\ Inside(pos) /\ timer /\ timer' = timer
      /\ pos = Page(target) /\ mode' = "rest" /\ mode # "rest" /\ UNCHANGED <<n, target>>
  BY DEF scrollViewDidEndDecelerating, AnimationEnds, CarouselInv, CarouselTypeOK, NoBanners,
     ShowsSome, Positions
<1>2. pos.page = target /\ pos.part = 0 /\ target \in 1 .. n + 1
  BY <1>1 DEF Page, Inside, fakeCurrentPage
<1>3. loopItems(pos) = pos
  BY <1>1, <1>2 DEF loopItems, fakeNumberOfItems, fakeCurrentPage
<1>4. pos' = pos
  BY <1>3 DEF scrollViewDidEndDecelerating, AnimationEnds
<1>5. currentPage(pos)' = currentPage(pos) /\ Inside(pos)' /\ currentPage(pos) \in 0 .. n - 1
  BY <1>1, <1>4, RealIndexInRange
  DEF currentPage, getRealIndex, CentreRow, Inside, fakeCurrentPage
<1>6. indicator' = currentPage(pos)
  <2>1. CASE scrollViewDidEndDecelerating
    BY <1>3, <2>1 DEF scrollViewDidEndDecelerating
  <2>2. CASE AnimationEnds
    <3>1. indicator' = getRealIndex(target)
      BY <2>2 DEF AnimationEnds, CarouselInv, Scrolling
    <3>2. CentreRow(pos) = target
      BY <1>2, CarouselAssumption DEF CentreRow
    <3> QED BY <3>1, <3>2 DEF currentPage
  <2> QED BY <2>1, <2>2
<1>7. CarouselTypeOK' /\ NoBanners' /\ Scrolling'
  BY <1>1, <1>4, <1>5, <1>6
  DEF CarouselInv, CarouselTypeOK, NoBanners, Scrolling, Positions
<1>8. ShowsSome'
  BY <1>1, <1>2, <1>4, <1>5, <1>6 DEF ShowsSome
<1>9. Pager!Rest
  BY <1>1, <1>5, <1>6 DEF Pager!Rest, Item
<1> QED BY <1>7, <1>8, <1>9 DEF CarouselInv, PagerStep, Pager!PagerNext

LEMMA NextInv == CarouselInv /\ [CarouselNext]_carouselVars => CarouselInv' /\ PagerStep
<1>1. ASSUME CarouselInv, UNCHANGED carouselVars PROVE CarouselInv' /\ PagerStep
  BY <1>1
  DEF carouselVars, CarouselInv, CarouselTypeOK, NoBanners, ShowsSome, Scrolling, Inside,
      fakeCurrentPage, currentPage, getRealIndex, CentreRow, PagerStep, Item
<1> QED
  BY <1>1, ShowBannersStep, TimerStep, TouchStep, DragStep, LiftStep, FrameStep, EndStep
  DEF CarouselNext, FingerStep, SelfStep

\* The variables of the carousel keep their types: whatever jumps and movements
\* come together, the offset is a page and a proper part of one, and the page control
\* is never given a negative page.
THEOREM CarouselTypeCorrect == CarouselSpec => []CarouselTypeOK
<1>1. CarouselInv => CarouselTypeOK
  BY DEF CarouselInv
<1> QED BY <1>1, InitInv, NextInv, PTL DEF CarouselSpec

\* The view always shows a page, loopItems having caught every movement that ran
\* off either side, for every number of banners and every granularity.
THEOREM AlwaysInside == CarouselSpec => []InsideContent
<1>1. ASSUME CarouselInv PROVE InsideContent
  <2>1. /\ pos.page \in Int /\ pos.part \in 0 .. Grain - 1 /\ n \in Nat
        /\ n > 0 => fakeCurrentPage(pos) \in 1 .. n + 1
    BY <1>1 DEF CarouselInv, CarouselTypeOK, ShowsSome, Inside
  <2>2. ASSUME n > 0 PROVE pos.page \in 0 .. n + 1
    BY <2>1, <2>2 DEF fakeCurrentPage
  <2>3. ASSUME n > 0 PROVE CentreRow(pos) \in 0 .. n + 1
    BY <2>1, <2>3, CarouselAssumption DEF fakeCurrentPage, CentreRow
  <2> QED BY <2>1, <2>2, <2>3 DEF InsideContent
<1> QED BY <1>1, InitInv, NextInv, PTL DEF CarouselSpec

\* No scroll is ever under way to a page that does not exist (setFakePage's
\* precondition), and the view rests on whole pages only.
THEOREM PagesAlwaysExist == CarouselSpec => []PagesExist
<1>1. ASSUME CarouselInv PROVE PagesExist
  <2>1. mode = "rest" => pos.part = 0
    <3>1. CASE n = 0
      BY <1>1, <3>1 DEF CarouselInv, NoBanners, Page
    <3>2. CASE n > 0
      BY <1>1, <3>2 DEF CarouselInv, ShowsSome
    <3> QED BY <1>1, <3>1, <3>2 DEF CarouselInv, CarouselTypeOK
  <2> QED BY <1>1, <2>1 DEF CarouselInv, Scrolling, PagesExist
<1> QED BY <1>1, InitInv, NextInv, PTL DEF CarouselSpec

\* Once there are banners the autoscroll timer is armed, also when it had fired
\* before they arrived.
THEOREM TimerAlwaysArmed == CarouselSpec => []AutoscrollArmed
<1>1. CarouselInv => AutoscrollArmed
  BY DEF CarouselInv, CarouselTypeOK, ShowsSome, AutoscrollArmed
<1> QED BY <1>1, InitInv, NextInv, PTL DEF CarouselSpec

\* The carousel with its two copies, jumps, finger and timer implements a circle
\* of banners with a page control that is right whenever the view is at rest.
THEOREM CarouselIsPager == CarouselSpec => IsCircularPager
<1>1. CarouselInit => Pager!PagerInit
  BY DEF CarouselInit, Pager!PagerInit, Item
<1>2. PagerStep => [Pager!PagerNext]_Pager!pagerVars
  BY DEF PagerStep, Pager!pagerVars
<1> QED BY <1>1, <1>2, InitInv, NextInv, PTL DEF CarouselSpec, IsCircularPager, Pager!PagerSpec

=============================================================================
