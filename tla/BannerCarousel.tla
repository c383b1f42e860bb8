--------------------------- MODULE BannerCarousel ---------------------------
(***************************************************************************)
(* The library's banner carousel: CarouselCollectionView (Pods/Infinite-   *)
(* CarouselCollectionView) with LibraryViewController as its data source.  *)
(*                                                                         *)
(* n banners are laid out as n + 2 cells, "fake" pages 0 .. n + 1: a copy  *)
(* of the last banner, the n banners, and a copy of the first.  Whenever   *)
(* the scroll view runs off either side it is moved, without animation, to *)
(* the page showing the same banner.  A one-shot timer, re-armed by every  *)
(* scroll event, turns the page when nobody touches it.                    *)
(*                                                                         *)
(* The content offset is a page and a part of a page, in Grain-ths.        *)
(* UIScrollView is external: it reports every movement to scrollViewDid-   *)
(* Scroll, and with paging enabled a released finger leads to an adjacent  *)
(* page.  A timer of the default run loop mode does not fire while a       *)
(* finger is down or the view decelerates, and scrolling to a page takes   *)
(* less time than its interval.                                            *)
(***************************************************************************)
EXTENDS Integers

CONSTANTS
  Counts,  \* how many banners a template may have
  Grain    \* bound: positions told apart within a page

ASSUME CarouselAssumption == Counts \subseteq Nat /\ Grain \in Nat \ {0, 1}

VARIABLES
  n,          \* numberOfItems: bannerSlides.count
  pos,        \* contentOffset.x
  mode,       \* what moves the scroll view
  target,     \* the page it is moving to by itself
  timer,      \* autoscrollTimer is scheduled
  indicator   \* pageControl.currentPage

carouselVars == <<n, pos, mode, target, timer, indicator>>

Page(p) == [page |-> p, part |-> 0]

CarouselTypeOK ==
  /\ n \in Nat
  /\ pos \in [page : Int, part : 0 .. Grain - 1]
  /\ mode \in {"rest", "dragging", "settling", "auto"}
  /\ target \in Int
  /\ timer \in BOOLEAN
  /\ indicator \in Nat

\* setupCollectionView has enabled autoscrolling; there are no banners yet.
CarouselInit ==
  /\ n = 0 /\ pos = Page(0) /\ mode = "rest" /\ target = 0
  /\ timer = TRUE
  /\ indicator = 0

-----------------------------------------------------------------------------
(* Positions *)

fakeNumberOfItems == IF n > 0 THEN n + 2 ELSE 0

\* fakeCurrentPage rounds up.
fakeCurrentPage(p) == IF p.part = 0 THEN p.page ELSE p.page + 1

\* Mutant: the copy of the last banner is taken for a page of its own.
getRealIndexNoCopy(row) == IF row = n + 1 THEN 0 ELSE row - 1

getRealIndex(row) ==
  IF row = n + 1 THEN 0 ELSE IF row = 0 THEN n - 1 ELSE row - 1

\* The cell under the centre of the view.
CentreRow(p) == IF 2 * p.part < Grain THEN p.page ELSE p.page + 1

currentPage(p) == getRealIndex(CentreRow(p))

Shifted(p, d) ==
  LET s == p.part + d
  IN  IF s < 0 THEN [page |-> p.page - 1, part |-> s + Grain]
      ELSE IF s >= Grain THEN [page |-> p.page + 1, part |-> s - Grain]
      ELSE [p EXCEPT !.part = s]

\* Mutant: running off the right side leads to the copy of the last banner.
loopItemsToCopy(p) ==
  IF fakeCurrentPage(p) = 0 THEN Page(fakeNumberOfItems - 2)
  ELSE IF fakeCurrentPage(p) = fakeNumberOfItems THEN Page(0)
  ELSE p

loopItems(p) ==
  IF fakeCurrentPage(p) = 0 THEN Page(fakeNumberOfItems - 2)
  ELSE IF fakeCurrentPage(p) = fakeNumberOfItems THEN Page(1)
  ELSE p

-----------------------------------------------------------------------------
(* Operations *)

\* Mutant: the first page is set without a scroll event.
ShowBannersUnscrolled ==
  /\ n = 0
  /\ n' \in Counts \ {0}
  /\ pos' = Page(1)
  /\ indicator' = 0
  /\ UNCHANGED <<mode, target, timer>>

\* LibraryViewController.fetchData reloads the carousel, which asks for the
\* number of items, finds some for the first time, and sets page 0: the view
\* scrolls to fake page 1, which arms the timer.
ShowBanners ==
  /\ n = 0
  /\ n' \in Counts \ {0}
  /\ pos' = Page(1)
  /\ timer' = TRUE
  /\ indicator' = 0
  /\ UNCHANGED <<mode, target>>

\* Mutant: a page is skipped.
NextPageFromSkips(p) == fakeCurrentPage(p) + 2

\* scrollToNextElement, from the last page after a jump to the first.  Without
\* banners the timer is not armed again.
NextPageFrom(p) == fakeCurrentPage(p) + 1
NewPageRealIndex(p) == IF fakeCurrentPage(p) < n THEN fakeCurrentPage(p) ELSE 0

\* Mutant: no jump from the last page.
scrollToNextElementStops ==
  /\ timer /\ mode = "rest" /\ n > 0
  /\ fakeCurrentPage(pos) < fakeNumberOfItems - 1
  /\ mode' = "auto" /\ target' = NextPageFrom(pos)
  /\ indicator' = NewPageRealIndex(pos)
  /\ UNCHANGED <<n, pos, timer>>

scrollToNextElement ==
  /\ timer /\ mode = "rest"
  /\ IF n = 0
     THEN timer' = FALSE /\ UNCHANGED <<pos, mode, target, indicator>>
     ELSE LET from == IF fakeCurrentPage(pos) = fakeNumberOfItems - 1 THEN Page(1) ELSE pos
          IN  /\ pos' = from
              /\ mode' = "auto"
              /\ target' = NextPageFrom(from)
              /\ timer' = TRUE
              /\ indicator' = NewPageRealIndex(from)
  /\ UNCHANGED n

\* A finger goes down, also on a moving view, whose movement it stops.
Touch ==
  /\ n > 0 /\ mode # "dragging"
  /\ mode' = "dragging"
  /\ UNCHANGED <<n, pos, target, timer, indicator>>

\* scrollViewDidScroll, for one movement of the finger.
Drag(d) ==
  /\ mode = "dragging"
  /\ pos' = loopItems(Shifted(pos, d))
  /\ timer' = TRUE
  /\ UNCHANGED <<n, mode, target, indicator>>

\* scrollViewWillEndDragging.  A view that is exactly on a page may stay there.
Adjacent(p) ==
  {q \in 0 .. n + 1 : p.page - 1 <= q /\ q <= p.page + 1 /\ (p.part > 0 => q >= p.page)}

Lift(t) ==
  /\ mode = "dragging"
  /\ t \in Adjacent(pos)
  /\ indicator' = currentPage(pos)
  /\ mode' = IF pos = Page(t) THEN "rest" ELSE "settling"
  /\ target' = t
  /\ UNCHANGED <<n, pos, timer>>

\* scrollViewDidScroll, for one frame of a scroll to the target: it does not
\* overshoot, and a jump to the other side ends it.
Toward(p, t, d) ==
  IF p.page < t
  THEN LET q == Shifted(p, d)  IN IF q.page >= t THEN Page(t) ELSE q
  ELSE LET q == Shifted(p, -d) IN IF q.page < t THEN Page(t) ELSE q

Frame(d) ==
  /\ mode \in {"settling", "auto"}
  /\ pos # Page(target)
  /\ pos' = loopItems(Toward(pos, target, d))
  /\ target' = IF pos' = Toward(pos, target, d) THEN target ELSE pos'.page
  /\ timer' = TRUE
  /\ UNCHANGED <<n, mode, indicator>>

\* Mutant: no look at the page the view has come to.
scrollViewDidEndDeceleratingSilent ==
  /\ mode = "settling" /\ pos = Page(target)
  /\ mode' = "rest"
  /\ UNCHANGED <<n, pos, target, timer, indicator>>

scrollViewDidEndDecelerating ==
  /\ mode = "settling" /\ pos = Page(target)
  /\ pos' = loopItems(pos)
  /\ indicator' = currentPage(pos')
  /\ mode' = "rest"
  /\ UNCHANGED <<n, target, timer>>

\* The end of an animated scroll is not observed.
AnimationEnds ==
  /\ mode = "auto" /\ pos = Page(target)
  /\ mode' = "rest"
  /\ UNCHANGED <<n, pos, target, timer, indicator>>

-----------------------------------------------------------------------------
(* Specification *)

Steps == 1 .. Grain - 1

FingerStep == Touch \/ (\E d \in Steps : Drag(d) \/ Drag(-d)) \/ (\E t \in 0 .. n + 1 : Lift(t))
SelfStep == (\E d \in Steps : Frame(d)) \/ scrollViewDidEndDecelerating \/ AnimationEnds

CarouselNext == ShowBanners \/ scrollToNextElement \/ FingerStep \/ SelfStep

\* Armed timers fire, and a scroll the view makes by itself goes on to its end.
CarouselSpec == CarouselInit /\ [][CarouselNext]_carouselVars
CarouselFairSpec ==
  CarouselSpec /\ WF_carouselVars(scrollToNextElement) /\ WF_carouselVars(SelfStep)

-----------------------------------------------------------------------------
(* Properties *)

Item == IF n = 0 THEN 0 ELSE currentPage(pos)

\* Between two events the view is never left on the copy of the last banner or
\* outside the content (currentPage's assertionFailure): loopItems catches every
\* movement, whatever its size and direction.
InsideContent ==
  n > 0 => /\ pos.page \in 0 .. n + 1
           /\ fakeCurrentPage(pos) \in 1 .. n + 1
           /\ CentreRow(pos) \in 0 .. n + 1

\* Autoscrolling is never dead: although a timer that fires before the banners
\* arrive is not armed again, showing them arms it.
AutoscrollArmed == n > 0 => timer

\* scrollToNextElement moves by one page, between pages that exist (the
\* precondition of setFakePage), and only from a whole page.
PagesExist ==
  /\ mode \in {"auto", "settling"} => target \in 0 .. n + 1
  /\ mode = "rest" => pos.part = 0

\* The carousel, with its copies and jumps, is a circle to whoever looks at it:
\* what is on screen only changes to a neighbour, and the page control agrees
\* with it whenever the view is at rest.
Pager == INSTANCE CircularPager WITH
           count <- n, item <- Item, resting <- (mode = "rest"), dot <- indicator
IsCircularPager == Pager!PagerSpec

\* Left alone, the carousel shows every banner again and again.
EveryBannerShown ==
  \A i \in UNION {0 .. k - 1 : k \in Counts} :
    <>[](i < n /\ mode # "dragging") => []<>(Item = i)

\* scrollToNextElement asserts that the page after the jump is the second one.
SecondPageAfterJump ==
  timer /\ mode = "rest" /\ n > 0 /\ fakeCurrentPage(pos) = fakeNumberOfItems - 1
    => NewPageRealIndex(Page(1)) = 1

=============================================================================
