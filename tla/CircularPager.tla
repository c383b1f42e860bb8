---------------------------- MODULE CircularPager ----------------------------
(***************************************************************************)
(* What an endless banner carousel with a page control promises: `count`   *)
(* items on a circle, one of them on screen, which a movement replaces by  *)
(* a neighbour only, and dots that agree with the screen at every rest.    *)
(***************************************************************************)
EXTENDS Integers

CONSTANT Counts   \* the numbers of items there may be

VARIABLES
  count,    \* how many items there are; 0 before they are known
  item,     \* the item on screen
  resting,  \* nothing moves
  dot       \* the page control's current page

pagerVars == <<count, item, resting, dot>>

After(i)  == IF i = count - 1 THEN 0 ELSE i + 1
Before(i) == IF i = 0 THEN count - 1 ELSE i - 1

PagerInit == count = 0 /\ item = 0 /\ resting = TRUE /\ dot = 0

\* The items become known, and the first is shown.
Fill ==
  /\ count = 0
  /\ count' \in Counts
  /\ item' = 0 /\ resting' = TRUE /\ dot' = 0

\* A finger or the timer moves the items, by at most one at a time.
Move ==
  /\ count > 0
  /\ item' \in {item, After(item), Before(item)}
  /\ resting' = FALSE
  /\ dot' \in 0 .. count - 1
  /\ UNCHANGED count

Rest ==
  /\ ~resting
  /\ resting' = TRUE
  /\ dot' = item
  /\ UNCHANGED <<count, item>>

PagerNext == Fill \/ Move \/ Rest
PagerSpec == PagerInit /\ [][PagerNext]_pagerVars

=============================================================================
