-------------------------- MODULE DetailsCarousel --------------------------
(***************************************************************************)
(* The carousel of the details screen: RecommendedViewController with      *)
(* CollectionViewPagingLayout (Pods/CollectionViewPagingLayout).           *)
(*                                                                         *)
(* Everything runs on the main thread, in turns: the callback of the fetch *)
(* starts an animated scroll to the selected book and takes the touches    *)
(* away; the layout observes the content offset, and when it is the        *)
(* expected one dispatches a block to the main queue, whose completion     *)
(* gives the touches back.  What interleaves are the first layout of the   *)
(* view, that callback, the blocks on the main queue, the frames of a      *)
(* scroll, the finger, and the fade-outs after which the texts change.     *)
(*                                                                         *)
(* The content offset is counted in Grain-ths of a page.  UIKit is         *)
(* external.  Its scroll view reports every movement to the observers of   *)
(* contentOffset, to the layout and to its delegate, in one turn; setting  *)
(* the offset it already has may or may not be reported; setting one       *)
(* without animation stops a scroll that is under way.  A page is dragged  *)
(* past either end by less than its width.  Completions of overlapping     *)
(* animations come in any order.                                           *)
(***************************************************************************)
EXTENDS Integers, Sequences

CONSTANTS
  MaxEntries,  \* bound: the longest carousel of a template
  Grain,       \* bound: positions told apart within a page
  MaxUpdates   \* bound: the finger rests while so many fade-outs of a book run

ASSUME DetailsAssumption ==
  MaxEntries \in Nat \ {0} /\ Grain \in Nat \ {0, 1} /\ MaxUpdates \in Nat \ {0}

VARIABLES
  \* UIKit's view
  laidOut,       \* the view has been laid out for the first time
  offset,        \* contentOffset.x
  mode,          \* what moves the view: "rest", "animated", "drag", "settle"
  target,        \* the offset it is moving to by itself
  interaction,   \* isUserInteractionEnabled
  mainQueue,     \* the layout's blocks on the main queue
  \* CollectionViewPagingLayout
  currentPage,
  isAnimating,
  observed,      \* contentOffsetObservation: the offset and the completion
  \* RecommendedViewController
  loaded,        \* the fetch's callback has come
  crashed,       \* carouselModel was read at an index it does not have
  count,         \* carouselModel.count
  currentCellIndex,
  previousCellIndex,
  isViewShowedFirstly,
  fading,        \* fading[b]: the running fade-outs that will show book b
  text,          \* the book whose texts are shown
  overlapped     \* observation only: the last fade-out started during another

viewVars   == <<laidOut, offset, mode, target, interaction, mainQueue>>
layoutVars == <<currentPage, isAnimating, observed>>
screenVars == <<loaded, crashed, count, currentCellIndex, previousCellIndex,
                isViewShowedFirstly, fading, text, overlapped>>
dvars      == <<viewVars, layoutVars, screenVars>>

Books   == 0 .. MaxEntries - 1
NoBook  == -1

\* An observation waits for an offset and then calls a completion: that of
\* showSelectedPage, or none.
Observation(o, shows) == [at |-> o, shows |-> shows]
NoObservation == Observation(-2 * Grain, FALSE)

\* The blocks: the observed offset was reached; invalidateLayoutInBatchUpdate.
Arrived(obs) == [block |-> "arrived", observation |-> obs]
Batch(nudge) == [block |-> "batch", invalidateOffset |-> nudge]

\* The library has pushed the screen with the id of a book, as an index.
DInit ==
  /\ laidOut = FALSE /\ offset = 0 /\ mode = "rest" /\ target = 0
  /\ interaction = TRUE /\ mainQueue = << >>
  /\ currentPage = 0 /\ isAnimating = FALSE /\ observed = NoObservation
  /\ loaded = FALSE /\ crashed = FALSE
  /\ count = 0 /\ currentCellIndex \in Books /\ previousCellIndex = NoBook
  /\ isViewShowedFirstly = FALSE
  /\ fading = [b \in Books |-> 0] /\ text = NoBook /\ overlapped = FALSE

-----------------------------------------------------------------------------
(* Offsets *)

\* Int(round(offset / pageSize)), halves away from zero.
Rounded(o) ==
  IF o >= 0 THEN (2 * o + Grain) \div (2 * Grain) ELSE -((Grain - 2 * o) \div (2 * Grain))

\* Mutant: the index of the page that is coming from the right.
TruncatedUp(o) == IF o >= 0 THEN (o + Grain - 1) \div Grain ELSE 0

\* Int(contentOffset.x / width)
Truncated(o) == IF o >= 0 THEN o \div Grain ELSE -((-o) \div Grain)

\* The offset of a page among n, not beyond the last page; without any page it
\* is left of the first.
PageOffset(page, n) ==
  LET o == IF page < 0 THEN 0 ELSE page * Grain
  IN  IF o > (n - 1) * Grain THEN (n - 1) * Grain ELSE o

-----------------------------------------------------------------------------
(* What a movement of the view sets off *)

\* Mutant: the observer goes with the first movement, wherever it leads.
NotifyOnce(obs, o, queue) ==
  /\ observed' = NoObservation
  /\ mainQueue' = IF obs.at = o THEN Append(queue, Arrived(obs)) ELSE queue

\* The observer installed by safelySetCurrentPage, called for offset o.
Notify(obs, o, queue) ==
  IF obs.at = o
  THEN observed' = NoObservation /\ mainQueue' = Append(queue, Arrived(obs))
  ELSE observed' = obs /\ mainQueue' = queue

\* updateCurrentPageIfNeeded, from invalidateLayout.
PageAt(o, animating) == IF animating THEN currentPage ELSE Rounded(o)

\* The texts of b are set when the fade-out is over.
updateBookInfo(b) ==
  /\ fading' = [fading EXCEPT ![b] = @ + 1]
  /\ overlapped' = (\E c \in Books : fading[c] > 0)

\* Mutants: the screen follows the view before it has been shown; the index is
\* compared with the one just assigned.
scrollViewDidScrollEarly(o) ==
  IF Truncated(o) # previousCellIndex
  THEN /\ currentCellIndex' = Truncated(o)
       /\ previousCellIndex' = Truncated(o)
       /\ updateBookInfo(Truncated(o))
       /\ UNCHANGED crashed
  ELSE UNCHANGED <<currentCellIndex, previousCellIndex, fading, overlapped, crashed>>

scrollViewDidScrollAssigned(o) ==
  /\ currentCellIndex' = IF isViewShowedFirstly THEN Truncated(o) ELSE currentCellIndex
  /\ UNCHANGED <<previousCellIndex, fading, overlapped, crashed>>

\* carouselModel[i] exists; reading it otherwise ends the process, there and then.
Exists(i) == i \in 0 .. count - 1

scrollViewDidScroll(o) ==
  IF isViewShowedFirstly /\ Truncated(o) # previousCellIndex
  THEN /\ currentCellIndex' = Truncated(o)
       /\ \/ /\ Exists(Truncated(o))
             /\ previousCellIndex' = Truncated(o)
             /\ updateBookInfo(Truncated(o))
             /\ UNCHANGED crashed
          \/ /\ ~Exists(Truncated(o))
             /\ crashed' = TRUE
             /\ UNCHANGED <<previousCellIndex, fading, overlapped>>
  ELSE UNCHANGED <<currentCellIndex, previousCellIndex, fading, overlapped, crashed>>

Move(o, queue) ==
  /\ offset' = o
  /\ Notify(observed, o, queue)
  /\ currentPage' = PageAt(o, isAnimating)
  /\ scrollViewDidScroll(o)

-----------------------------------------------------------------------------
(* The first layout *)

\* layoutAttributesForElements adds the observer of the bounds, which dispatches
\* an update at once.
LayOutSameSize ==
  /\ ~laidOut
  /\ laidOut' = TRUE
  /\ mainQueue' = Append(mainQueue, Batch(TRUE))
  /\ UNCHANGED <<offset, mode, target, interaction, layoutVars, screenVars>>

\* If the view also gets a size other than the storyboard's, invalidateLayout sets
\* the current page anew, without animation: this ends a scroll under way and
\* replaces its observation.  (The delegate hears of a movement only before the
\* screen is shown, when it ignores it.)
LayOutNewSize ==
  /\ ~laidOut
  /\ laidOut' = TRUE
  /\ isAnimating' = FALSE
  /\ mode' = "rest"
  /\ LET o == PageOffset(currentPage, count)
         page == IF o = offset THEN currentPage ELSE Rounded(o)
         invalidate == (IF page = currentPage THEN << >> ELSE <<Batch(FALSE)>>) \o <<Batch(TRUE)>>
         obs == Observation(o, FALSE)
     IN  /\ offset' = o
         /\ currentPage' = page
         /\ \/ observed' = NoObservation /\ mainQueue' = mainQueue \o <<Arrived(obs)>> \o invalidate
            \/ o = offset /\ observed' = obs /\ mainQueue' = mainQueue \o invalidate
  /\ UNCHANGED <<target, interaction, screenVars>>

-----------------------------------------------------------------------------
(* The selected book *)

\* The callback of fetchData, without an error: reloadData, then showSelectedPage.
\* Nothing says that the carousel has the selected book, or any: the view scrolls
\* to the last page instead, or left of the first.  Or it is there already.
DataArrives ==
  /\ ~loaded /\ loaded' = TRUE
  /\ count' \in 0 .. MaxEntries
  /\ interaction' = FALSE
  /\ isAnimating' = TRUE
  /\ target' = PageOffset(currentCellIndex, count')
  /\ LET obs == Observation(target', TRUE)
     IN  \/ /\ offset # target'
            /\ mode' = "animated"
            /\ observed' = obs
            /\ UNCHANGED mainQueue
         \/ /\ offset = target'
            /\ mode' = "rest"
            /\ Notify(obs, target', mainQueue)
         \/ /\ offset = target'
            /\ mode' = "rest"
            /\ observed' = obs
            /\ UNCHANGED mainQueue
  /\ UNCHANGED <<laidOut, offset, currentPage, crashed, currentCellIndex, previousCellIndex,
                 isViewShowedFirstly, fading, text, overlapped>>

\* Mutant: the layout is not updated once the page is reached.
AfterArrivalNothing(queue) == queue

\* The update that the block of a reached offset dispatches first.
AfterArrival(queue) == Append(queue, Batch(FALSE))

\* Mutant: the completion forgets the touches.
completionWithoutTouches ==
  /\ updateBookInfo(currentCellIndex)
  /\ previousCellIndex' = currentCellIndex
  /\ isViewShowedFirstly' = TRUE
  /\ UNCHANGED <<interaction, currentCellIndex, crashed>>

\* The completion of showSelectedPage.
completion ==
  /\ \/ /\ Exists(currentCellIndex)
        /\ updateBookInfo(currentCellIndex)
        /\ previousCellIndex' = currentCellIndex
        /\ isViewShowedFirstly' = TRUE
        /\ interaction' = TRUE
        /\ UNCHANGED crashed
     \/ /\ ~Exists(currentCellIndex)
        /\ crashed' = TRUE
        /\ UNCHANGED <<fading, overlapped, previousCellIndex, isViewShowedFirstly, interaction>>
  /\ UNCHANGED currentCellIndex

\* The block dispatched when an observed offset was reached: one more update, the
\* offset again (which stops whatever scroll was started since), the completion.
\* showSelectedPage's completion finds isViewShowedFirstly unset, so the movement
\* before it sets off nothing in the screen.
ArrivedBlock ==
  /\ mainQueue # << >> /\ Head(mainQueue).block = "arrived"
  /\ LET obs == Head(mainQueue).observation
         queue == AfterArrival(Tail(mainQueue))
     IN  /\ offset' = obs.at
         /\ \/ Notify(observed, obs.at, queue) /\ currentPage' = PageAt(obs.at, isAnimating)
            \/ offset = obs.at /\ mainQueue' = queue /\ UNCHANGED <<observed, currentPage>>
         /\ IF obs.shows
            THEN completion
            ELSE scrollViewDidScroll(obs.at) /\ UNCHANGED <<isViewShowedFirstly, interaction>>
  /\ mode' = IF mode = "drag" THEN "drag" ELSE "rest"
  /\ isAnimating' = FALSE
  /\ UNCHANGED <<laidOut, target, loaded, count, text>>

\* invalidateLayoutInBatchUpdate: the offset is changed by a point and set back,
\* unless a page is being set, then the layout is invalidated.
BatchBlock ==
  /\ mainQueue # << >> /\ Head(mainQueue).block = "batch"
  /\ IF Head(mainQueue).invalidateOffset /\ ~isAnimating
     THEN Notify(observed, offset, Tail(mainQueue))
     ELSE mainQueue' = Tail(mainQueue) /\ UNCHANGED observed
  /\ currentPage' = PageAt(offset, isAnimating)
  /\ UNCHANGED <<laidOut, offset, mode, target, interaction, isAnimating, screenVars>>

-----------------------------------------------------------------------------
(* Scrolling *)

\* A frame of a scroll to the target, once the view is on screen.
Frame(d) ==
  /\ laidOut
  /\ mode \in {"animated", "settle"}
  /\ LET o == IF offset < target
              THEN IF offset + d > target THEN target ELSE offset + d
              ELSE IF offset - d < target THEN target ELSE offset - d
     IN  /\ Move(o, mainQueue)
         /\ mode' = IF o = target THEN "rest" ELSE mode
  /\ UNCHANGED <<laidOut, target, interaction, isAnimating, loaded, count,
                 isViewShowedFirstly, text>>

\* A gesture is recognised over several turns of the run loop, which empty the
\* main queue.  A single page does not scroll.
Touch ==
  /\ laidOut /\ interaction /\ count > 1
  /\ mode \in {"rest", "settle"}
  /\ mainQueue = << >>
  /\ mode' = "drag"
  /\ UNCHANGED <<laidOut, offset, target, interaction, mainQueue, layoutVars, screenVars>>

Drag(d) ==
  /\ mode = "drag"
  /\ -Grain < offset + d /\ offset + d < count * Grain
  /\ \A b \in Books : fading[b] < MaxUpdates
  /\ Move(offset + d, mainQueue)
  /\ UNCHANGED <<laidOut, mode, target, interaction, isAnimating, loaded, count,
                 isViewShowedFirstly, text>>

\* With paging enabled the view goes on to an adjacent page, or is on one.
Lift(page) ==
  /\ mode = "drag"
  /\ page \in 0 .. count - 1
  /\ \/ (page - 1) * Grain < offset /\ offset < (page + 1) * Grain
     \/ page = 0 /\ offset < 0
  /\ target' = page * Grain
  /\ mode' = IF offset = target' THEN "rest" ELSE "settle"
  /\ UNCHANGED <<laidOut, offset, interaction, mainQueue, layoutVars, screenVars>>

\* The completion of a fade-out in updateBookInfo.
FadeOutDone(b) ==
  /\ fading[b] > 0
  /\ fading' = [fading EXCEPT ![b] = @ - 1]
  /\ text' = b
  /\ UNCHANGED <<viewVars, layoutVars, loaded, crashed, count, currentCellIndex,
                 previousCellIndex, isViewShowedFirstly, overlapped>>

\* didTapBackButton: the screen goes, and its layout's blocks find it gone.  The
\* next book is shown by a new screen; after a crash, by that of a new process.
Leave ==
  /\ laidOut' = FALSE /\ offset' = 0 /\ mode' = "rest" /\ target' = 0
  /\ interaction' = TRUE /\ mainQueue' = << >>
  /\ currentPage' = 0 /\ isAnimating' = FALSE /\ observed' = NoObservation
  /\ loaded' = FALSE /\ crashed' = FALSE
  /\ count' = 0 /\ currentCellIndex' \in Books /\ previousCellIndex' = NoBook
  /\ isViewShowedFirstly' = FALSE
  /\ fading' = [b \in Books |-> 0] /\ text' = NoBook /\ overlapped' = FALSE

-----------------------------------------------------------------------------
(* Specification *)

\* A process that has ended takes no step.
AnyFrame == ~crashed /\ \E d \in 1 .. Grain : Frame(d)
MainBlock == ~crashed /\ (ArrivedBlock \/ BatchBlock)
FingerStep == ~crashed /\ (\/ Touch
                          \/ \E d \in 1 .. Grain : Drag(d) \/ Drag(-d)
                          \/ \E p \in Books : Lift(p))
ScreenStep == ~crashed /\ (\/ LayOutSameSize \/ LayOutNewSize \/ DataArrives
                          \/ \E b \in Books : FadeOutDone(b))

DNext == MainBlock \/ AnyFrame \/ FingerStep \/ ScreenStep \/ Leave

\* The main queue is drained, and a scroll the view makes by itself goes on.
DSpec == DInit /\ [][DNext]_dvars /\ WF_dvars(MainBlock) /\ WF_dvars(AnyFrame)

-----------------------------------------------------------------------------
(* Properties *)

\* The types of the variables.
DTypeOK ==
  /\ laidOut \in BOOLEAN /\ interaction \in BOOLEAN /\ isAnimating \in BOOLEAN
  /\ isViewShowedFirstly \in BOOLEAN /\ overlapped \in BOOLEAN
  /\ loaded \in BOOLEAN /\ crashed \in BOOLEAN
  /\ offset \in -Grain .. MaxEntries * Grain /\ target \in -Grain .. MaxEntries * Grain
  /\ mode \in {"rest", "animated", "drag", "settle"}
  /\ currentPage \in -1 .. MaxEntries
  /\ observed \in [at : -2 * Grain .. MaxEntries * Grain, shows : BOOLEAN]
  /\ count \in 0 .. MaxEntries
  /\ fading \in [Books -> 0 .. MaxUpdates + 1]
  /\ currentCellIndex \in Books
  /\ text \in Books \cup {NoBook} /\ previousCellIndex \in Books \cup {NoBook}
  /\ \A i \in DOMAIN mainQueue : mainQueue[i].block \in {"arrived", "batch"}

\* carouselModel is read without a check.  Only one of those reads can end the process:
\* the first, in completion, when the carousel does not have the book that was tapped.
\* Once that book was shown no index is out of range, however far the finger pulls the
\* ends and whichever block of the layout comes late.
BookExists ==
  /\ crashed => ~isViewShowedFirstly /\ currentCellIndex >= count
  /\ isViewShowedFirstly => Exists(currentCellIndex)

\* When the view is at rest the texts are those of the book on screen, whatever
\* pages it has passed and whichever block of the layout ran late; unless the last
\* fade-out was started while another ran, for then the older one may end last.
TextMatchesPage ==
  mode = "rest" /\ isViewShowedFirstly /\ ~overlapped /\ (\A b \in Books : fading[b] = 0)
    => text * Grain = offset

\* When nothing is left to happen by itself the layout's current page is the one on
\* screen, although it is not followed during an animated scroll.
CurrentPageRight ==
  mode = "rest" /\ mainQueue = << >> /\ ~isAnimating => currentPage = Rounded(offset)

\* The completion of showSelectedPage is waiting, for its offset or on the main queue.
CompletionWaits ==
  \/ observed.shows
  \/ \E i \in DOMAIN mainQueue :
       mainQueue[i].block = "arrived" /\ mainQueue[i].observation.shows

\* While the screen is there, a waiting completion is lost only to the first layout of
\* the view, which may replace the observation: no movement of the view, no block of
\* the layout, late or not, and no gesture drops it before it has run.
CompletionNotDropped ==
  [][CompletionWaits /\ loaded' /\ laidOut' = laidOut
       => CompletionWaits' \/ isViewShowedFirstly' \/ crashed']_dvars

\* The touches taken away by showSelectedPage come back, if the carousel has the book,
\* the scroll is under way on a view that was laid out, and no block of an earlier page
\* is waiting.  (They do not if the view has the offset already and UIKit does not
\* report it, if the first layout comes in between with another size, or if such a
\* block runs.)
TouchesComeBack ==
  (/\ laidOut /\ mode = "animated" /\ observed.shows /\ Exists(currentCellIndex)
   /\ \A i \in DOMAIN mainQueue : mainQueue[i].block # "arrived")
  ~> interaction
=============================================================================
