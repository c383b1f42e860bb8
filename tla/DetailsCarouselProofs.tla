----------------------- MODULE DetailsCarouselProofs -----------------------
(***************************************************************************)
(* Proofs about DetailsCarousel for any number of books, any resolution of *)
(* the content offset and any number of overlapping fade-outs: the only    *)
(* read of the carousel that can fail is the first, for a book it does not *)
(* have; the texts are those of the page the view rests on; the layout's   *)
(* current page is the one on screen; and the completion of the scroll to  *)
(* the selected book is not dropped.                                       *)
(***************************************************************************)
EXTENDS DetailsCarousel, Functions, SequenceTheorems, TLAPS

-----------------------------------------------------------------------------
(* The inductive invariant *)

Observations == [at : Int, shows : BOOLEAN]
Blocks == [block : {"arrived"}, observation : Observations]
            \cup [block : {"batch"}, invalidateOffset : BOOLEAN]

\* o is the offset of one of n pages.
IsPage(o, n) == \E p \in 0 .. n - 1 : o = p * Grain

IsArrived(b) == b.block = "arrived"
IsShow(b)  == IsArrived(b) /\ b.observation.shows
IsLate(b)  == IsArrived(b) /\ ~b.observation.shows /\ b.observation.at >= 0
IsNudge(b) == b.block = "batch" /\ b.invalidateOffset

\* Before the data, nothing moves and at most the first layout is under way.
EmptyInv ==
  /\ ~crashed
  /\ loaded <=> count # 0
  /\ count = 0 =>
       /\ mode = "rest" /\ observed = NoObservation /\ ~isAnimating
       /\ ~isViewShowedFirstly
       /\ ~laidOut => mainQueue = << >>

\* The blocks that reset the offset all reset it to the first page.
AllAtFirst(q) == \A b \in Range(q) : IsArrived(b) => b.observation.at = 0

\* Before the first layout the view is at its first page.
UnlaidInv ==
  ~laidOut =>
    /\ offset = 0 /\ currentPage = 0 /\ mode \in {"rest", "animated"}
    /\ AllAtFirst(mainQueue)

\* Every offset that is waited for is that of one of n pages.  Only a first layout
\* without data is left of them; its block comes before every other.
PagesOK(q, obs, n, shown) ==
  /\ obs = NoObservation \/ IsPage(obs.at, n)
  /\ \A i \in DOMAIN q :
       IsArrived(q[i]) =>
         \/ i = 1 /\ ~shown /\ q[i].observation = Observation(-Grain, FALSE)
         \/ IsPage(q[i].observation.at, n)

\* The completion of showSelectedPage waits in one place, for the selected page, and
\* is called once.
ShowsOK(q, obs, shown, selected) ==
  /\ obs.shows =>
       /\ obs.at = selected * Grain
       /\ ~shown
       /\ \A i \in DOMAIN q : ~IsShow(q[i])
  /\ \A i \in DOMAIN q :
       IsShow(q[i]) =>
         /\ q[i].observation.at = selected * Grain
         /\ ~shown
         /\ \A j \in DOMAIN q : IsShow(q[j]) => j = i

QueueInv ==
  /\ mainQueue \in Seq(Blocks) /\ observed \in Observations
  /\ PagesOK(mainQueue, observed, count, isViewShowedFirstly)
  /\ ShowsOK(mainQueue, observed, isViewShowedFirstly, currentCellIndex)

\* A scroll that is under way goes to a page, and has not reached it.
MovingInv ==
  /\ mode \in {"animated", "settle"} => IsPage(target, count) /\ offset # target
  /\ mode = "animated" => observed = Observation(target, TRUE)
  /\ mode \in {"drag", "settle"} => isViewShowedFirstly
  /\ mode = "settle" => -Grain < offset - target /\ offset - target < Grain

\* Once the selected book is shown the screen follows the view.
ShownInv ==
  /\ count > 0 => currentCellIndex < count
  /\ isViewShowedFirstly =>
       /\ count > 0 /\ previousCellIndex = currentCellIndex
       /\ currentCellIndex = Truncated(offset)
       /\ -Grain < offset /\ offset < count * Grain
       /\ mode = "rest" => offset = currentCellIndex * Grain
       /\ \A b \in Books : fading[b] > 0 => b < count
  /\ ~isViewShowedFirstly =>
       /\ \A b \in Books : fading[b] = 0
       /\ count > 0 => ~interaction

\* The observation of the first layout, if there was data already: it and its block
\* find the view at its first page, where nothing can have moved it.
LateInv ==
  /\ observed.at >= 0 /\ ~observed.shows =>
       /\ ~isAnimating
       /\ \E b \in Range(mainQueue) : IsNudge(b)
  /\ (\/ observed.at >= 0 /\ ~observed.shows
      \/ \E b \in Range(mainQueue) : IsLate(b)) =>
       /\ laidOut /\ offset = 0 /\ mode = "rest" /\ ~observed.shows
       /\ observed.at >= 0 => observed.at = 0
       /\ AllAtFirst(mainQueue)

\* Only the finger lets fade-outs pile up, and a page is entered without it once.
FadingInv ==
  isViewShowedFirstly /\ offset # currentCellIndex * Grain
    => \A b \in Books : fading[b] <= MaxUpdates

\* A fade-out that runs alone is that of the current book.
TextInv ==
  isViewShowedFirstly /\ ~overlapped =>
    /\ \A b \in Books : b # currentCellIndex => fading[b] = 0
    /\ \/ fading[currentCellIndex] = 1
       \/ fading[currentCellIndex] = 0 /\ text = currentCellIndex

\* A current page that is not the one on screen will be updated.
PageInv ==
  ~isAnimating => \/ currentPage = Rounded(offset)
                  \/ \E b \in Range(mainQueue) : b.block = "batch"

\* The screen before the data, and with a carousel that has the selected book.
FitInv ==
  /\ DTypeOK /\ EmptyInv /\ UnlaidInv /\ QueueInv /\ MovingInv /\ ShownInv /\ LateInv
  /\ FadingInv /\ TextInv /\ PageInv

\* The blocks leave the view no further left than a page.
ArrivedInRange(q) ==
  \A b \in Range(q) : IsArrived(b) => b.observation.at \in -Grain .. MaxEntries * Grain

\* The screen whose carousel does not have it: it never shows a book, and gets no
\* touches, until its process ends.
MissingInv ==
  /\ DTypeOK /\ PageInv
  /\ loaded /\ currentCellIndex >= count
  /\ ~isViewShowedFirstly /\ ~interaction /\ mode \in {"rest", "animated"}
  /\ \A b \in Books : fading[b] = 0
  /\ mainQueue \in Seq(Blocks) /\ observed \in Observations /\ ArrivedInRange(mainQueue)

DetailsInv == FitInv \/ MissingInv

-----------------------------------------------------------------------------
(* Offsets and pages *)

LEMMA DivUnique ==
  ASSUME NEW a \in Int, NEW b \in Nat \ {0}, NEW q \in Int, q * b <= a, a < (q + 1) * b
  PROVE  a \div b = q
OBVIOUS

LEMMA DivBounds ==
  ASSUME NEW a \in Int, NEW b \in Nat \ {0}
  PROVE  a \div b \in Int /\ (a \div b) * b <= a /\ a < ((a \div b) + 1) * b
OBVIOUS

\* A factor can be dropped from a comparison.
LEMMA DropFactor ==
  ASSUME NEW p \in Int, NEW q \in Int, NEW g \in Nat \ {0}, p * g < q * g
  PROVE  p < q
OBVIOUS

LEMMA KeepFactor ==
  ASSUME NEW p \in Int, NEW q \in Int, NEW g \in Nat, p <= q
  PROVE  p * g \in Int /\ q * g \in Int /\ p * g <= q * g
OBVIOUS

LEMMA GrainType == Grain \in Nat \ {0} /\ Grain > 1
BY DetailsAssumption

\* The page an offset is on: the one it has begun, and the first also for an
\* offset pulled to the left.
LEMMA TruncatedOn ==
  ASSUME NEW p \in Nat, NEW o \in Int, p * Grain <= o, o < (p + 1) * Grain
  PROVE  Truncated(o) = p
<1>1. o >= 0
  <2>1. p * Grain >= 0
    BY GrainType, KeepFactor
  <2>2. p * Grain \in Int
    BY GrainType
  <2> QED BY <2>1, <2>2
<1>2. o \div Grain = p
  BY GrainType, DivUnique
<1> QED BY <1>1, <1>2 DEF Truncated

LEMMA TruncatedLeft ==
  ASSUME NEW o \in Int, -Grain < o, o < 0
  PROVE  Truncated(o) = 0
<1>1. 0 * Grain <= -o /\ -o < (0 + 1) * Grain
  BY GrainType
<1>2. (-o) \div Grain = 0
  BY <1>1, GrainType, DivUnique
<1> QED BY <1>2 DEF Truncated

LEMMA TruncatedRange ==
  ASSUME NEW o \in Int, NEW n \in Nat \ {0}, -Grain < o, o < n * Grain
  PROVE  /\ Truncated(o) \in 0 .. n - 1
         /\ o >= 0 => Truncated(o) * Grain <= o /\ o < (Truncated(o) + 1) * Grain
<1>1. CASE o < 0
  BY <1>1, TruncatedLeft
<1>2. CASE o >= 0
  <2>1. PICK q \in Int : q = o \div Grain /\ q * Grain <= o /\ o < (q + 1) * Grain
    BY GrainType, DivBounds
  <2>2. q * Grain < n * Grain /\ 0 * Grain < (q + 1) * Grain
    <3>1. q * Grain \in Int /\ n * Grain \in Int /\ (q + 1) * Grain \in Int /\ 0 * Grain = 0
      BY GrainType
    <3> QED BY <1>2, <2>1, <3>1
  <2>3. q < n /\ 0 < q + 1
    BY <2>2, GrainType, DropFactor
  <2>4. Truncated(o) = q
    BY <1>2, <2>1 DEF Truncated
  <2> QED BY <2>1, <2>3, <2>4
<1> QED BY <1>1, <1>2

LEMMA PageFacts ==
  ASSUME NEW p \in Nat, NEW n \in Nat, p < n
  PROVE  /\ Truncated(p * Grain) = p
         /\ p * Grain \in Nat /\ p * Grain < n * Grain
         /\ IsPage(p * Grain, n)
<1>1. p * Grain \in Nat
  BY GrainType
<1>2. p * Grain < (p + 1) * Grain /\ (p + 1) * Grain <= n * Grain
  <2>1. (p + 1) * Grain = p * Grain + Grain
    BY GrainType
  <2>2. (p + 1) * Grain <= n * Grain
    BY GrainType, KeepFactor
  <2> QED BY <1>1, <2>1, <2>2, GrainType
<1>3. Truncated(p * Grain) = p
  BY <1>1, <1>2, TruncatedOn
<1>4. n * Grain \in Int /\ (p + 1) * Grain \in Int
  BY GrainType
<1>5. p * Grain < n * Grain
  BY <1>1, <1>2, <1>4
<1>6. IsPage(p * Grain, n)
  <2>1. p \in 0 .. n - 1
    OBVIOUS
  <2> QED BY <2>1 DEF IsPage
<1> QED BY <1>1, <1>3, <1>5, <1>6

LEMMA IsPageFacts ==
  ASSUME NEW n \in Nat, NEW o, IsPage(o, n)
  PROVE  /\ o \in Nat /\ o < n * Grain /\ -Grain < o /\ n # 0
         /\ Truncated(o) \in 0 .. n - 1 /\ o = Truncated(o) * Grain
<1>1. PICK p \in 0 .. n - 1 : o = p * Grain
  BY DEF IsPage
<1>2. p \in Nat /\ p < n
  OBVIOUS
<1>3. Truncated(p * Grain) = p /\ p * Grain \in Nat /\ p * Grain < n * Grain
  BY <1>2, PageFacts
<1>4. o \in Nat /\ o < n * Grain /\ Truncated(o) = p
  BY <1>1, <1>3, Zenon
<1>5. -Grain < o /\ n # 0
  BY <1>4, GrainType
<1> QED BY <1>1, <1>4, <1>5

LEMMA RoundedRange ==
  ASSUME NEW o \in Int, NEW m \in Nat, -Grain <= o, o <= m * Grain
  PROVE  Rounded(o) \in -1 .. m
<1>1. 2 * Grain \in Nat \ {0}
  BY GrainType
<1>2. CASE o >= 0
  <2>1. PICK q \in Int : /\ q = (2 * o + Grain) \div (2 * Grain)
                         /\ q * (2 * Grain) <= 2 * o + Grain
                         /\ 2 * o + Grain < (q + 1) * (2 * Grain)
    BY <1>1, GrainType, DivBounds
  <2>2. q * (2 * Grain) < (m + 1) * (2 * Grain) /\ 0 * (2 * Grain) < (q + 1) * (2 * Grain)
    <3>1. (m + 1) * (2 * Grain) = 2 * (m * Grain) + 2 * Grain /\ 0 * (2 * Grain) = 0
      BY GrainType
    <3>2. q * (2 * Grain) \in Int /\ m * Grain \in Int /\ (q + 1) * (2 * Grain) \in Int
      BY GrainType
    <3> QED BY <1>2, <2>1, <3>1, <3>2, GrainType
  <2>3. q < m + 1 /\ 0 < q + 1
    BY <1>1, <2>2, DropFactor
  <2>4. Rounded(o) = q
    BY <1>2, <2>1 DEF Rounded
  <2> QED BY <2>3, <2>4
<1>3. CASE o < 0
  <2>1. PICK q \in Int : /\ q = (Grain - 2 * o) \div (2 * Grain)
                         /\ q * (2 * Grain) <= Grain - 2 * o
                         /\ Grain - 2 * o < (q + 1) * (2 * Grain)
    BY <1>1, GrainType, DivBounds
  <2>2. q * (2 * Grain) < 2 * (2 * Grain) /\ 0 * (2 * Grain) < (q + 1) * (2 * Grain)
    <3>1. q * (2 * Grain) \in Int /\ (q + 1) * (2 * Grain) \in Int /\ 0 * (2 * Grain) = 0
      BY GrainType
    <3> QED BY <1>3, <2>1, <3>1, GrainType
  <2>3. q < 2 /\ 0 < q + 1
    BY <1>1, <2>2, DropFactor
  <2>4. Rounded(o) = -q
    BY <1>3, <2>1 DEF Rounded
  <2> QED BY <2>3, <2>4
<1> QED BY <1>2, <1>3

LEMMA RoundedZero == Rounded(0) = 0
<1>1. (2 * 0 + Grain) \div (2 * Grain) = 0
  <2>1. 0 * (2 * Grain) <= 2 * 0 + Grain /\ 2 * 0 + Grain < (0 + 1) * (2 * Grain)
    BY GrainType
  <2>2. 2 * Grain \in Nat \ {0} /\ 2 * 0 + Grain \in Int
    BY GrainType
  <2> QED BY <2>1, <2>2, DivUnique
<1> QED BY <1>1 DEF Rounded

\* safelySetCurrentPage asks for a page that exists, or with no page at all for the
\* place left of the first.
LEMMA PageOffsetFacts ==
  /\ PageOffset(0, 0) = -Grain
  /\ \A n \in Nat \ {0} : PageOffset(0, n) = 0
  /\ \A n \in Nat, p \in Nat : p < n => PageOffset(p, n) = p * Grain
<1>1. PageOffset(0, 0) = -Grain
  BY GrainType DEF PageOffset
<1>2. ASSUME NEW n \in Nat, NEW p \in Nat, p < n PROVE PageOffset(p, n) = p * Grain
  <2>1. p * Grain <= (n - 1) * Grain /\ p * Grain \in Int /\ (n - 1) * Grain \in Int
    BY <1>2, GrainType, KeepFactor
  <2>2. ~(p * Grain > (n - 1) * Grain) /\ ~(p < 0)
    BY <2>1
  <2> QED BY <2>2 DEF PageOffset
<1>3. 0 * Grain = 0
  BY GrainType
<1> QED BY <1>1, <1>2, <1>3

\* A frame of a settling scroll that does not reach the page stays on its page.
LEMMA SettleStays ==
  ASSUME NEW n \in Nat, NEW t, IsPage(t, n), NEW o \in Int, NEW x \in Int,
         -Grain < o - t, o - t < Grain,
         (o < x /\ x < t) \/ (t < x /\ x < o)
  PROVE  Truncated(x) = Truncated(o)
<1>1. PICK p \in 0 .. n - 1 : t = p * Grain
  BY DEF IsPage
<1>2. t \in Nat /\ (p + 1) * Grain = t + Grain /\ (p - 1) * Grain = t - Grain
  BY <1>1, GrainType
<1>3. CASE t < x /\ x < o
  <2>1. p * Grain <= o /\ o < (p + 1) * Grain /\ p * Grain <= x /\ x < (p + 1) * Grain
    BY <1>1, <1>2, <1>3, GrainType
  <2> QED BY <2>1, TruncatedOn
<1>4. CASE o < x /\ x < t
  <2>1. CASE p = 0
    <3>1. t = 0
      BY <1>1, <2>1, GrainType
    <3>2. -Grain < o /\ o < 0 /\ -Grain < x /\ x < 0
      BY <1>4, <3>1, GrainType
    <3> QED BY <3>2, TruncatedLeft
  <2>2. CASE p # 0
    <3>1. p - 1 \in Nat /\ (p - 1) + 1 = p
      BY <2>2
    <3>2. (p - 1) * Grain <= o /\ o < ((p - 1) + 1) * Grain
      BY <1>1, <1>2, <1>4, <3>1, GrainType
    <3>3. (p - 1) * Grain <= x /\ x < ((p - 1) + 1) * Grain
      BY <1>1, <1>2, <1>4, <3>1, GrainType
    <3> QED BY <3>1, <3>2, <3>3, TruncatedOn
  <2> QED BY <2>1, <2>2
<1> QED BY <1>3, <1>4

-----------------------------------------------------------------------------
(* The main queue *)

LEMMA BlockTypes ==
  /\ \A obs \in Observations : /\ Arrived(obs) \in Blocks /\ IsArrived(Arrived(obs))
                               /\ Arrived(obs).observation = obs
                               /\ Arrived(obs).block # "batch"
  /\ \A nudge \in BOOLEAN : /\ Batch(nudge) \in Blocks /\ ~IsArrived(Batch(nudge))
                            /\ Batch(nudge).block = "batch"
                            /\ IsNudge(Batch(nudge)) <=> nudge
BY DEF Blocks, Arrived, Batch, IsArrived, IsNudge

LEMMA ObservationTypes ==
  /\ NoObservation \in Observations /\ NoObservation.at = -2 * Grain /\ ~NoObservation.shows
  /\ \A o \in Int, shows \in BOOLEAN : /\ Observation(o, shows) \in Observations
                                       /\ Observation(o, shows).at = o
                                       /\ Observation(o, shows).shows = shows
<1>1. -2 * Grain \in Int
  BY GrainType
<1> QED BY <1>1 DEF Observations, NoObservation, Observation

\* The indices and the elements of a queue with one more block, or one less.
LEMMA AppendFacts ==
  ASSUME NEW q \in Seq(Blocks), NEW b \in Blocks
  PROVE  /\ Append(q, b) \in Seq(Blocks) /\ Append(q, b) # << >>
         /\ Range(Append(q, b)) = Range(q) \cup {b}
         /\ \A i \in DOMAIN Append(q, b) :
              (i \in DOMAIN q /\ Append(q, b)[i] = q[i]) \/ (i \notin DOMAIN q /\ Append(q, b)[i] = b)
         /\ \A i, j \in DOMAIN Append(q, b) : i \notin DOMAIN q /\ j \notin DOMAIN q => i = j
         /\ \A i \in DOMAIN q : i \in DOMAIN Append(q, b) /\ Append(q, b)[i] = q[i]
<1>1. PICK n \in Nat : n = Len(q)
  OBVIOUS
<1> DEFINE s == Append(q, b)
<1>2. /\ DOMAIN q = 1 .. n /\ DOMAIN s = 1 .. n + 1
      /\ s \in Seq(Blocks) /\ s # << >> /\ s[n + 1] = b
      /\ \A i \in 1 .. n : s[i] = q[i]
  BY <1>1
<1> HIDE DEF s
<1>3. /\ \A i \in DOMAIN s : (i \in DOMAIN q /\ s[i] = q[i]) \/ (i \notin DOMAIN q /\ s[i] = b)
      /\ \A i, j \in DOMAIN s : i \notin DOMAIN q /\ j \notin DOMAIN q => i = j
      /\ \A i \in DOMAIN q : i \in DOMAIN s /\ s[i] = q[i]
  BY <1>2
<1>4. n + 1 \in DOMAIN s
  BY <1>2
<1>5. Range(s) = Range(q) \cup {b}
  BY <1>2, <1>3, <1>4 DEF Range
<1>6. /\ s \in Seq(Blocks) /\ s # << >>
      /\ Range(s) = Range(q) \cup {b}
      /\ \A i \in DOMAIN s : (i \in DOMAIN q /\ s[i] = q[i]) \/ (i \notin DOMAIN q /\ s[i] = b)
      /\ \A i, j \in DOMAIN s : i \notin DOMAIN q /\ j \notin DOMAIN q => i = j
      /\ \A i \in DOMAIN q : i \in DOMAIN s /\ s[i] = q[i]
  BY <1>2, <1>3, <1>5
<1> QED BY <1>6, Zenon DEF s

LEMMA TailFacts ==
  ASSUME NEW q \in Seq(Blocks), q # << >>
  PROVE  /\ Tail(q) \in Seq(Blocks) /\ Head(q) \in Blocks
         /\ Range(q) = {Head(q)} \cup Range(Tail(q))
         /\ 1 \in DOMAIN q /\ Head(q) = q[1]
         /\ \A i \in DOMAIN Tail(q) :
              i \in Nat /\ i + 1 \in DOMAIN q /\ i + 1 # 1 /\ Tail(q)[i] = q[i + 1]
<1>1. PICK n \in Nat : Len(q) = n + 1
  <2>1. Len(q) \in Nat /\ Len(q) >= 1
    OBVIOUS
  <2>2. Len(q) - 1 \in Nat /\ Len(q) = (Len(q) - 1) + 1
    BY <2>1
  <2> QED BY <2>2
<1> DEFINE s == Tail(q)
<1>2. /\ DOMAIN q = 1 .. n + 1 /\ DOMAIN s = 1 .. n /\ s \in Seq(Blocks)
      /\ Head(q) = q[1] /\ q[1] \in Blocks
      /\ \A i \in 1 .. n : s[i] = q[i + 1]
  <2>1. s \in Seq(Blocks) /\ Len(s) = n
    BY <1>1
  <2> QED BY <1>1, <2>1
<1> HIDE DEF s
<1>3. \A i \in DOMAIN s : i \in Nat /\ i + 1 \in DOMAIN q /\ i + 1 # 1 /\ s[i] = q[i + 1]
  BY <1>2
<1>4. \A j \in DOMAIN q : j = 1 \/ (j - 1 \in DOMAIN s /\ s[j - 1] = q[j])
  BY <1>2
<1>5. 1 \in DOMAIN q
  BY <1>2
<1>6. Range(q) = {q[1]} \cup Range(s)
  BY <1>3, <1>4, <1>5 DEF Range
<1>7. /\ s \in Seq(Blocks) /\ Head(q) \in Blocks
      /\ Range(q) = {Head(q)} \cup Range(s)
      /\ 1 \in DOMAIN q /\ Head(q) = q[1]
      /\ \A i \in DOMAIN s : i \in Nat /\ i + 1 \in DOMAIN q /\ i + 1 # 1 /\ s[i] = q[i + 1]
  BY <1>2, <1>3, <1>5, <1>6
<1> QED BY <1>7, Zenon DEF s

\* Running the block at the head.  If it is the completion's, no other is.
LEMMA QueueTail ==
  ASSUME NEW q \in Seq(Blocks), q # << >>, NEW obs, NEW n, NEW shown, NEW selected,
         PagesOK(q, obs, n, shown), ShowsOK(q, obs, shown, selected)
  PROVE  /\ \A sh : PagesOK(Tail(q), obs, n, sh)
         /\ ShowsOK(Tail(q), obs, shown, selected)
         /\ IsShow(Head(q)) => \A sh : ShowsOK(Tail(q), obs, sh, selected)
<1> DEFINE s == Tail(q)
<1>1. /\ 1 \in DOMAIN q /\ Head(q) = q[1]
      /\ \A i \in DOMAIN s :
           i \in Nat /\ i + 1 \in DOMAIN q /\ i + 1 # 1 /\ s[i] = q[i + 1]
  BY TailFacts
<1> HIDE DEF s
<1>2. ASSUME NEW sh PROVE PagesOK(s, obs, n, sh)
  BY <1>1 DEF PagesOK
<1>3. ShowsOK(s, obs, shown, selected)
  <2>1. obs.shows => obs.at = selected * Grain /\ ~shown /\ \A i \in DOMAIN s : ~IsShow(s[i])
    BY <1>1 DEF ShowsOK
  <2>2. ASSUME NEW i \in DOMAIN s, IsShow(s[i])
        PROVE  s[i].observation.at = selected * Grain /\ ~shown
    BY <1>1, <2>2 DEF ShowsOK
  <2>3. ASSUME NEW i \in DOMAIN s, IsShow(s[i]), NEW j \in DOMAIN s, IsShow(s[j])
        PROVE  j = i
    <3>1. i + 1 \in DOMAIN q /\ j + 1 \in DOMAIN q /\ IsShow(q[i + 1]) /\ IsShow(q[j + 1])
          /\ i \in Nat /\ j \in Nat
      BY <1>1, <2>3
    <3>2. j + 1 = i + 1
      BY <3>1 DEF ShowsOK
    <3> QED BY <3>1, <3>2
  <2> QED BY <2>1, <2>2, <2>3 DEF ShowsOK
<1>4. ASSUME IsShow(Head(q)), NEW sh PROVE ShowsOK(s, obs, sh, selected)
  <2>1. ~obs.shows
    BY <1>1, <1>4 DEF ShowsOK
  <2>2. \A i \in DOMAIN s : ~IsShow(s[i])
    <3> SUFFICES ASSUME NEW i \in DOMAIN s, IsShow(s[i]) PROVE FALSE
      OBVIOUS
    <3>1. i + 1 \in DOMAIN q /\ i + 1 # 1 /\ IsShow(q[i + 1])
      BY <1>1
    <3> QED BY <1>1, <1>4, <3>1 DEF ShowsOK
  <2> QED BY <2>1, <2>2 DEF ShowsOK
<1> QED BY <1>2, <1>3, <1>4 DEF s

\* Dispatching an update,
LEMMA QueueBatch ==
  ASSUME NEW q \in Seq(Blocks), NEW obs, NEW n, NEW shown, NEW selected,
         PagesOK(q, obs, n, shown), ShowsOK(q, obs, shown, selected),
         NEW nudge \in BOOLEAN
  PROVE  /\ PagesOK(Append(q, Batch(nudge)), obs, n, shown)
         /\ ShowsOK(Append(q, Batch(nudge)), obs, shown, selected)
<1>1. PICK b \in Blocks : b = Batch(nudge) /\ ~IsArrived(b)
  BY BlockTypes
<1> DEFINE s == Append(q, b)
<1>2. /\ \A i \in DOMAIN s : (i \in DOMAIN q /\ s[i] = q[i]) \/ (i \notin DOMAIN q /\ s[i] = b)
      /\ \A i \in DOMAIN q : i \in DOMAIN s /\ s[i] = q[i]
  BY AppendFacts
<1> HIDE DEF s
<1>3. PagesOK(s, obs, n, shown)
  BY <1>1, <1>2 DEF PagesOK
<1>4. ShowsOK(s, obs, shown, selected)
  BY <1>1, <1>2 DEF ShowsOK, IsShow
<1> QED BY <1>1, <1>3, <1>4 DEF s

\* and the block of an observation whose offset is reached.
LEMMA QueueArrived ==
  ASSUME NEW q \in Seq(Blocks), NEW obs \in Observations, NEW n, NEW shown, NEW selected,
         PagesOK(q, obs, n, shown), ShowsOK(q, obs, shown, selected), IsPage(obs.at, n)
  PROVE  /\ PagesOK(Append(q, Arrived(obs)), NoObservation, n, shown)
         /\ ShowsOK(Append(q, Arrived(obs)), NoObservation, shown, selected)
<1>1. PICK b \in Blocks : b = Arrived(obs) /\ IsArrived(b) /\ b.observation = obs
  BY BlockTypes
<1> DEFINE s == Append(q, b)
<1>2. /\ \A i \in DOMAIN s : (i \in DOMAIN q /\ s[i] = q[i]) \/ (i \notin DOMAIN q /\ s[i] = b)
      /\ \A i, j \in DOMAIN s : i \notin DOMAIN q /\ j \notin DOMAIN q => i = j
      /\ \A i \in DOMAIN q : i \in DOMAIN s /\ s[i] = q[i]
  BY AppendFacts
<1> HIDE DEF s
<1>3. PagesOK(s, NoObservation, n, shown)
  BY <1>1, <1>2 DEF PagesOK
<1>4. ShowsOK(s, NoObservation, shown, selected)
  <2>1. ~NoObservation.shows
    BY ObservationTypes
  <2>2. IsShow(b) <=> obs.shows
    BY <1>1 DEF IsShow
  <2>3. ASSUME NEW i \in DOMAIN s, IsShow(s[i])
        PROVE  s[i].observation.at = selected * Grain /\ ~shown
    BY <1>1, <1>2, <2>2, <2>3 DEF ShowsOK
  <2>4. ASSUME NEW i \in DOMAIN s, IsShow(s[i]), NEW j \in DOMAIN s, IsShow(s[j])
        PROVE  j = i
    BY <1>1, <1>2, <2>2, <2>4 DEF ShowsOK
  <2> QED BY <2>1, <2>3, <2>4 DEF ShowsOK
<1> QED BY <1>1, <1>3, <1>4 DEF s

\* The observer: it goes on waiting, or its block is dispatched.
LEMMA NotifyFacts ==
  ASSUME NEW q \in Seq(Blocks), NEW obs \in Observations, NEW n \in Nat, NEW shown, NEW selected,
         PagesOK(q, obs, n, shown), ShowsOK(q, obs, shown, selected),
         NEW o \in Int, o >= -Grain, Notify(obs, o, q)
  PROVE  /\ mainQueue' \in Seq(Blocks) /\ observed' \in Observations
         /\ PagesOK(mainQueue', observed', n, shown)
         /\ ShowsOK(mainQueue', observed', shown, selected)
         /\ \/ obs.at # o /\ observed' = obs /\ mainQueue' = q
            \/ /\ obs.at = o /\ observed' = NoObservation /\ IsPage(o, n)
               /\ mainQueue' = Append(q, Arrived(obs))
               /\ Range(mainQueue') = Range(q) \cup {Arrived(obs)}
<1>1. CASE obs.at # o
  <2>1. observed' = obs /\ mainQueue' = q
    BY <1>1 DEF Notify
  <2> QED BY <1>1, <2>1
<1>2. CASE obs.at = o
  <2>1. observed' = NoObservation /\ mainQueue' = Append(q, Arrived(obs))
    BY <1>2 DEF Notify
  <2>2. IsPage(o, n)
    <3>1. obs # NoObservation
      BY <1>2, ObservationTypes, GrainType
    <3> QED BY <1>2, <3>1 DEF PagesOK
  <2>3. /\ PagesOK(Append(q, Arrived(obs)), NoObservation, n, shown)
        /\ ShowsOK(Append(q, Arrived(obs)), NoObservation, shown, selected)
    BY <1>2, <2>2, QueueArrived
  <2>4. Arrived(obs) \in Blocks
    BY BlockTypes
  <2>5. /\ Append(q, Arrived(obs)) \in Seq(Blocks)
        /\ Range(Append(q, Arrived(obs))) = Range(q) \cup {Arrived(obs)}
    BY <2>4, AppendFacts
  <2>6. NoObservation \in Observations
    BY ObservationTypes
  <2> QED BY <1>2, <2>1, <2>2, <2>3, <2>5, <2>6, Zenon
<1> QED BY <1>1, <1>2

\* What is waited for is within the carousel.
LEMMA ObservedRange ==
  ASSUME NEW q, NEW obs \in Observations, NEW n \in 0 .. MaxEntries, NEW shown,
         PagesOK(q, obs, n, shown)
  PROVE  obs \in [at : -2 * Grain .. MaxEntries * Grain, shows : BOOLEAN]
<1>1. obs.at \in -2 * Grain .. MaxEntries * Grain
  <2>1. n * Grain <= MaxEntries * Grain /\ n * Grain \in Int /\ MaxEntries * Grain \in Nat
    BY DetailsAssumption, GrainType, KeepFactor
  <2>2. CASE obs = NoObservation
    BY <2>1, <2>2, GrainType, ObservationTypes
  <2>3. CASE IsPage(obs.at, n)
    <3>1. obs.at \in Nat /\ obs.at < n * Grain
      BY <2>3, IsPageFacts
    <3> QED BY <2>1, <3>1, GrainType
  <2> QED BY <2>2, <2>3 DEF PagesOK
<1> QED BY <1>1 DEF Observations

LEMMA BlocksTyped ==
  ASSUME NEW q \in Seq(Blocks)
  PROVE  \A i \in DOMAIN q : q[i].block \in {"arrived", "batch"}
BY DEF Blocks

-----------------------------------------------------------------------------
(* The fade-outs *)

LEMMA UpdateFacts ==
  ASSUME fading \in [Books -> 0 .. MaxUpdates + 1], NEW c \in Books, fading[c] <= MaxUpdates,
         updateBookInfo(c)
  PROVE  /\ fading' \in [Books -> 0 .. MaxUpdates + 1] /\ overlapped' \in BOOLEAN
         /\ fading'[c] = fading[c] + 1
         /\ \A b \in Books : b # c => fading'[b] = fading[b]
         /\ ~overlapped' => fading'[c] = 1 /\ \A b \in Books : b # c => fading'[b] = 0
<1>1. MaxUpdates \in Nat
  BY DetailsAssumption
<1>2. fading' = [fading EXCEPT ![c] = fading[c] + 1]
  BY DEF updateBookInfo
<1>3. overlapped' = (\E b \in Books : fading[b] > 0)
  BY DEF updateBookInfo
<1>4. fading[c] + 1 \in 0 .. MaxUpdates + 1
  BY <1>1
<1>5. /\ fading' \in [Books -> 0 .. MaxUpdates + 1]
      /\ fading'[c] = fading[c] + 1
      /\ \A b \in Books : b # c => fading'[b] = fading[b]
  BY <1>2, <1>4, Zenon
<1>6. overlapped' \in BOOLEAN
  BY <1>3, Zenon
<1>7. ~overlapped' => \A b \in Books : ~(fading[b] > 0)
  BY <1>3, Zenon
<1>8. \A b \in Books : ~(fading[b] > 0) => fading[b] = 0
  BY <1>1
<1>9. ~overlapped' => fading[c] = 0 /\ \A b \in Books : b # c => fading'[b] = 0
  BY <1>5, <1>7, <1>8, Zenon
<1>10. ~overlapped' => fading'[c] = 1
  <2>1. fading[c] = 0 => fading'[c] = 1
    BY <1>5
  <2> QED BY <1>9, <2>1, Zenon
<1> QED BY <1>5, <1>6, <1>9, <1>10, Zenon

\* The screen does not follow the view before the completion of showSelectedPage.
LEMMA ScrollUnshown ==
  ASSUME NEW o, scrollViewDidScroll(o), ~isViewShowedFirstly
  PROVE  UNCHANGED <<currentCellIndex, previousCellIndex, fading, overlapped, crashed>>
BY DEF scrollViewDidScroll

\* Afterwards it does: a page that is entered starts a fade-out, unless the view
\* has not left the page.
LEMMA ScrollShown ==
  ASSUME isViewShowedFirstly, count \in 1 .. MaxEntries,
         previousCellIndex = currentCellIndex,
         fading \in [Books -> 0 .. MaxUpdates + 1], overlapped \in BOOLEAN,
         NEW o \in Int, -Grain < o, o < count * Grain, scrollViewDidScroll(o),
         Truncated(o) # currentCellIndex => fading[Truncated(o)] <= MaxUpdates
  PROVE  /\ Truncated(o) \in 0 .. count - 1 /\ Truncated(o) \in Books
         /\ currentCellIndex' = Truncated(o) /\ previousCellIndex' = Truncated(o)
         /\ crashed' = crashed
         /\ fading' \in [Books -> 0 .. MaxUpdates + 1] /\ overlapped' \in BOOLEAN
         /\ \A b \in Books : b # Truncated(o) => fading'[b] = fading[b]
         /\ \/ /\ Truncated(o) = currentCellIndex
               /\ fading' = fading /\ overlapped' = overlapped
            \/ /\ Truncated(o) # currentCellIndex
               /\ fading'[Truncated(o)] = fading[Truncated(o)] + 1
               /\ ~overlapped' => /\ fading'[Truncated(o)] = 1
                                  /\ \A b \in Books : b # Truncated(o) => fading'[b] = 0
<1>1. PICK p \in 0 .. count - 1 : p = Truncated(o)
  BY TruncatedRange
<1>2. p \in Books
  BY DetailsAssumption DEF Books
<1>3. CASE p = currentCellIndex
  <2>1. UNCHANGED <<currentCellIndex, previousCellIndex, fading, overlapped, crashed>>
    BY <1>1, <1>3 DEF scrollViewDidScroll
  <2> QED BY <1>1, <1>2, <1>3, <2>1
<1>4. CASE p # currentCellIndex
  <2>1. /\ currentCellIndex' = p /\ previousCellIndex' = p /\ updateBookInfo(p)
        /\ crashed' = crashed
    BY <1>1, <1>4 DEF scrollViewDidScroll, Exists
  <2>2. fading[p] <= MaxUpdates
    BY <1>1, <1>4
  <2>3. /\ fading' \in [Books -> 0 .. MaxUpdates + 1] /\ overlapped' \in BOOLEAN
        /\ fading'[p] = fading[p] + 1
        /\ \A b \in Books : b # p => fading'[b] = fading[b]
        /\ ~overlapped' => fading'[p] = 1 /\ \A b \in Books : b # p => fading'[b] = 0
    BY <1>2, <2>1, <2>2, UpdateFacts
  <2> QED BY <1>1, <1>2, <1>4, <2>1, <2>3, Zenon
<1> QED BY <1>3, <1>4

-----------------------------------------------------------------------------
(* The movements: a frame of a scroll, or of the finger *)

\* No offset is waited for, and no block is waiting, but that of showSelectedPage.
LEMMA NothingLate ==
  ASSUME LateInv, mode # "rest"
  PROVE  /\ observed.at >= 0 => observed.shows
         /\ \A b \in Range(mainQueue) : ~IsLate(b)
BY DEF LateInv

\* What Move does to the queue, while something moves the view.
LEMMA MoveQueue ==
  ASSUME FitInv, mode # "rest", NEW o \in Int, o >= -Grain, Notify(observed, o, mainQueue),
         isViewShowedFirstly' = isViewShowedFirstly, count' = count
  PROVE  /\ mainQueue' \in Seq(Blocks) /\ observed' \in Observations
         /\ PagesOK(mainQueue', observed', count', isViewShowedFirstly')
         /\ ShowsOK(mainQueue', observed', isViewShowedFirstly', currentCellIndex)
         /\ observed.at # o => observed' = observed
         /\ ~(observed'.at >= 0 /\ ~observed'.shows)
         /\ \A b \in Range(mainQueue') : ~IsLate(b)
<1>1. /\ mainQueue \in Seq(Blocks) /\ observed \in Observations
      /\ PagesOK(mainQueue, observed, count, isViewShowedFirstly)
      /\ ShowsOK(mainQueue, observed, isViewShowedFirstly, currentCellIndex)
      /\ count \in Nat
  BY DEF FitInv, QueueInv, DTypeOK
<1>2. /\ mainQueue' \in Seq(Blocks) /\ observed' \in Observations
      /\ PagesOK(mainQueue', observed', count, isViewShowedFirstly)
      /\ ShowsOK(mainQueue', observed', isViewShowedFirstly, currentCellIndex)
      /\ \/ observed.at # o /\ observed' = observed /\ mainQueue' = mainQueue
         \/ /\ observed.at = o /\ observed' = NoObservation /\ IsPage(o, count)
            /\ mainQueue' = Append(mainQueue, Arrived(observed))
            /\ Range(mainQueue') = Range(mainQueue) \cup {Arrived(observed)}
  BY <1>1, NotifyFacts
<1>3. /\ observed.at >= 0 => observed.shows
      /\ \A b \in Range(mainQueue) : ~IsLate(b)
  BY NothingLate DEF FitInv
<1>4. /\ ~(observed'.at >= 0 /\ ~observed'.shows)
      /\ \A b \in Range(mainQueue') : ~IsLate(b)
  <2>1. CASE observed' = observed /\ mainQueue' = mainQueue
    BY <1>3, <2>1
  <2>2. CASE /\ observed.at = o /\ observed' = NoObservation /\ IsPage(o, count)
             /\ Range(mainQueue') = Range(mainQueue) \cup {Arrived(observed)}
    <3>1. o >= 0
      BY <1>1, <2>2, IsPageFacts
    <3>2. observed.shows
      BY <1>3, <2>2, <3>1
    <3>3. ~IsLate(Arrived(observed))
      BY <1>1, <3>2, BlockTypes DEF IsLate
    <3>4. ~(NoObservation.at >= 0)
      BY ObservationTypes, GrainType
    <3> QED BY <1>3, <2>2, <3>3, <3>4
  <2> QED BY <1>2, <2>1, <2>2
<1> QED BY <1>2, <1>4

\* Once the book is shown no completion is left, whatever book is current.
LEMMA ShowsOver ==
  ASSUME NEW q, NEW obs, NEW shown, shown, NEW c, NEW d, ShowsOK(q, obs, shown, c)
  PROVE  ShowsOK(q, obs, shown, d)
BY DEF ShowsOK

LEMMA MovePreserves ==
  ASSUME FitInv, laidOut, mode # "rest",
         NEW o \in Int, o >= -Grain, o <= MaxEntries * Grain, Move(o, mainQueue),
         UNCHANGED <<laidOut, target, interaction, isAnimating, loaded, count,
                     isViewShowedFirstly, text>>,
         isViewShowedFirstly =>
           /\ -Grain < o /\ o < count * Grain
           /\ Truncated(o) # currentCellIndex => fading[Truncated(o)] <= MaxUpdates
           /\ \/ IsPage(o, count)
              \/ \A b \in Books : fading[b] < MaxUpdates
              \/ Truncated(o) = currentCellIndex /\ \A b \in Books : fading[b] <= MaxUpdates,
         mode' \in {"rest", "animated", "drag", "settle"}, MovingInv',
         mode' = "rest" => IsPage(o, count)
  PROVE  FitInv'
<1>1. /\ offset' = o /\ Notify(observed, o, mainQueue)
      /\ currentPage' = PageAt(o, isAnimating) /\ scrollViewDidScroll(o)
  BY DEF Move
<1>2. /\ mainQueue' \in Seq(Blocks) /\ observed' \in Observations
      /\ PagesOK(mainQueue', observed', count', isViewShowedFirstly')
      /\ ShowsOK(mainQueue', observed', isViewShowedFirstly', currentCellIndex)
      /\ ~(observed'.at >= 0 /\ ~observed'.shows)
      /\ \A b \in Range(mainQueue') : ~IsLate(b)
  BY <1>1, MoveQueue
<1>3. /\ DTypeOK /\ EmptyInv /\ ShownInv /\ FadingInv /\ TextInv
  BY DEF FitInv
<1>4. count \in 1 .. MaxEntries /\ count' = count
  <2>1. count # 0
    BY <1>3 DEF EmptyInv
  <2> QED BY <1>3, <2>1, DetailsAssumption DEF DTypeOK
<1>5. /\ currentCellIndex' \in Books /\ previousCellIndex' \in Books \cup {NoBook}
      /\ fading' \in [Books -> 0 .. MaxUpdates + 1] /\ overlapped' \in BOOLEAN
      /\ ShowsOK(mainQueue', observed', isViewShowedFirstly', currentCellIndex')
      /\ crashed' = crashed /\ ShownInv' /\ FadingInv' /\ TextInv'
  <2>1. CASE ~isViewShowedFirstly
    <3>1. UNCHANGED <<currentCellIndex, previousCellIndex, fading, overlapped, crashed>>
      BY <1>1, <2>1, ScrollUnshown
    <3>2. /\ currentCellIndex' \in Books /\ previousCellIndex' \in Books \cup {NoBook}
          /\ fading' \in [Books -> 0 .. MaxUpdates + 1] /\ overlapped' \in BOOLEAN
      BY <1>3, <3>1 DEF DTypeOK
    <3>3. ShowsOK(mainQueue', observed', isViewShowedFirstly', currentCellIndex')
      BY <1>2, <3>1
    <3>4. ~isViewShowedFirstly'
      BY <2>1
    <3>5. ShownInv'
      BY <1>3, <2>1, <3>1, <3>4 DEF ShownInv
    <3>6. FadingInv' /\ TextInv'
      BY <3>4 DEF FadingInv, TextInv
    <3> QED BY <3>1, <3>2, <3>3, <3>5, <3>6
  <2>2. CASE isViewShowedFirstly
    <3>1. /\ previousCellIndex = currentCellIndex
          /\ fading \in [Books -> 0 .. MaxUpdates + 1] /\ overlapped \in BOOLEAN
      BY <1>3, <2>2 DEF ShownInv, DTypeOK
    <3>2. PICK p : p = Truncated(o)
      OBVIOUS
    <3>3. /\ p \in 0 .. count - 1 /\ p \in Books
          /\ currentCellIndex' = p /\ previousCellIndex' = p /\ crashed' = crashed
          /\ fading' \in [Books -> 0 .. MaxUpdates + 1] /\ overlapped' \in BOOLEAN
          /\ \A b \in Books : b # p => fading'[b] = fading[b]
          /\ \/ p = currentCellIndex /\ fading' = fading /\ overlapped' = overlapped
             \/ /\ p # currentCellIndex
                /\ fading'[p] = fading[p] + 1
                /\ ~overlapped' => fading'[p] = 1 /\ \A b \in Books : b # p => fading'[b] = 0
      BY <1>1, <1>4, <2>2, <3>1, <3>2, ScrollShown
    <3>4. ShowsOK(mainQueue', observed', isViewShowedFirstly', currentCellIndex')
      <4>1. isViewShowedFirstly'
        BY <2>2
      <4> QED BY <1>2, <4>1, ShowsOver
    <3>5. ShownInv'
      <4>1. isViewShowedFirstly' /\ p < count'
        BY <1>4, <2>2, <3>3
      <4>2. mode' = "rest" => o = p * Grain
        BY <1>4, <3>2, IsPageFacts
      <4>3. -Grain < o /\ o < count' * Grain
        BY <1>4, <2>2
      <4>4. count' > 0
        BY <1>4
      <4>5. \A b \in Books : fading'[b] > 0 => b < count'
        <5>1. \A b \in Books : fading[b] > 0 => b < count
          BY <1>3, <2>2 DEF ShownInv
        <5> QED BY <1>4, <3>3, <4>1, <5>1
      <4> QED BY <1>1, <3>2, <3>3, <4>1, <4>2, <4>3, <4>4, <4>5 DEF ShownInv
    <3>6. FadingInv'
      <4>1. CASE IsPage(o, count)
        <5>1. o = p * Grain
          BY <1>4, <3>2, <4>1, IsPageFacts
        <5> QED BY <1>1, <3>3, <5>1 DEF FadingInv
      <4>2. CASE \A b \in Books : fading[b] < MaxUpdates
        <5>1. \A b \in Books : fading'[b] = fading[b] \/ fading'[b] = fading[b] + 1
          BY <3>3
        <5>2. \A b \in Books : fading'[b] <= MaxUpdates
          BY <3>1, <4>2, <5>1, DetailsAssumption
        <5> QED BY <5>2 DEF FadingInv
      <4>3. CASE p = currentCellIndex /\ \A b \in Books : fading[b] <= MaxUpdates
        <5>1. fading' = fading
          BY <3>3, <4>3
        <5> QED BY <4>3, <5>1 DEF FadingInv
      <4> QED BY <2>2, <3>2, <4>1, <4>2, <4>3
    <3>7. TextInv'
      <4>1. CASE p = currentCellIndex /\ fading' = fading /\ overlapped' = overlapped
        BY <1>3, <2>2, <3>3, <4>1 DEF TextInv
      <4>2. CASE ~overlapped' => fading'[p] = 1 /\ \A b \in Books : b # p => fading'[b] = 0
        BY <3>3, <4>2 DEF TextInv
      <4> QED BY <3>3, <4>1, <4>2
    <3> QED BY <3>3, <3>4, <3>5, <3>6, <3>7
  <2> QED BY <2>1, <2>2
<1>6. DTypeOK'
  <2>1. offset' \in -Grain .. MaxEntries * Grain /\ target' \in -Grain .. MaxEntries * Grain
    BY <1>1, <1>3, DetailsAssumption DEF DTypeOK
  <2>2. /\ laidOut' \in BOOLEAN /\ interaction' \in BOOLEAN /\ isAnimating' \in BOOLEAN
        /\ isViewShowedFirstly' \in BOOLEAN /\ text' \in Books \cup {NoBook}
        /\ count' \in 0 .. MaxEntries /\ loaded' \in BOOLEAN /\ crashed' \in BOOLEAN
    BY <1>3, <1>5 DEF DTypeOK
  <2>3. currentPage' \in -1 .. MaxEntries
    <3>1. Rounded(o) \in -1 .. MaxEntries
      BY DetailsAssumption, RoundedRange
    <3> QED BY <1>1, <1>3, <3>1 DEF PageAt, DTypeOK
  <2>4. observed' \in [at : -2 * Grain .. MaxEntries * Grain, shows : BOOLEAN]
    BY <1>2, <2>2, ObservedRange
  <2>5. \A i \in DOMAIN mainQueue' : mainQueue'[i].block \in {"arrived", "batch"}
    BY <1>2, BlocksTyped
  <2> QED BY <1>5, <2>1, <2>2, <2>3, <2>4, <2>5 DEF DTypeOK
<1>7. EmptyInv' /\ UnlaidInv'
  BY <1>3, <1>4, <1>5 DEF EmptyInv, UnlaidInv
<1>8. QueueInv'
  BY <1>2, <1>5 DEF QueueInv
<1>9. LateInv'
  BY <1>2 DEF LateInv
<1>10. PageInv'
  BY <1>1 DEF PageInv, PageAt
<1> QED BY <1>5, <1>6, <1>7, <1>8, <1>9, <1>10 DEF FitInv

\* Less than a page from a page, there is no other.
LEMMA NotOtherPage ==
  ASSUME NEW n \in Nat, NEW t, IsPage(t, n), NEW o \in Int, NEW c \in Nat,
         -Grain < o - t, o - t < Grain, o = c * Grain
  PROVE  o = t
<1>1. PICK p \in 0 .. n - 1 : t = p * Grain
  BY DEF IsPage
<1>2. t \in Int /\ (p + 1) * Grain = t + Grain /\ (c + 1) * Grain = o + Grain
  BY <1>1, GrainType
<1>3. c * Grain < (p + 1) * Grain /\ p * Grain < (c + 1) * Grain
  BY <1>1, <1>2, GrainType
<1>4. c < p + 1 /\ p < c + 1
  BY <1>3, GrainType, DropFactor
<1>5. c = p
  BY <1>4
<1> QED BY <1>1, <1>5

LEMMA FramePreserves ==
  ASSUME FitInv, NEW d \in 1 .. Grain, Frame(d)
  PROVE  FitInv'
<1> DEFINE x == IF offset < target
                THEN IF offset + d > target THEN target ELSE offset + d
                ELSE IF offset - d < target THEN target ELSE offset - d
<1>1. PICK o : o = x
  OBVIOUS
<1>2. /\ laidOut /\ mode \in {"animated", "settle"} /\ mode # "rest"
      /\ Move(o, mainQueue) /\ mode' = IF o = target THEN "rest" ELSE mode
      /\ UNCHANGED <<laidOut, target, interaction, isAnimating, loaded, count,
                     isViewShowedFirstly, text>>
  BY <1>1 DEF Frame
<1>3. /\ offset \in Int /\ -Grain <= offset /\ offset <= MaxEntries * Grain
      /\ target \in Int /\ -Grain <= target /\ target <= MaxEntries * Grain
      /\ count \in Nat /\ Grain \in Nat \ {0} /\ MaxEntries * Grain \in Int
      /\ currentCellIndex \in Nat
  BY DetailsAssumption, GrainType DEF FitInv, DTypeOK, Books
<1>4. /\ MovingInv /\ IsPage(target, count) /\ offset # target
  BY <1>2 DEF FitInv, MovingInv
<1>5. /\ o \in Int
      /\ o = target \/ (offset < o /\ o < target) \/ (target < o /\ o < offset)
  BY <1>1, <1>3, <1>4
<1> HIDE DEF x
<1>6. o >= -Grain /\ o <= MaxEntries * Grain
  BY <1>3, <1>5
<1>7. observed.at # o => observed' = observed
  <2>1. Notify(observed, o, mainQueue)
    BY <1>2 DEF Move
  <2> QED BY <2>1 DEF Notify
<1>8. offset' = o
  BY <1>2 DEF Move
<1>9. MovingInv'
  <2>1. CASE o = target
    BY <1>2, <2>1 DEF MovingInv
  <2>2. CASE o # target
    <3>1. mode' = mode
      BY <1>2, <2>2
    <3>2. mode = "animated" => observed' = observed
      <4>1. mode = "animated" => observed.at = target
        BY <1>3, <1>4, ObservationTypes DEF MovingInv
      <4> QED BY <1>7, <2>2, <4>1
    <3>3. mode = "settle" => -Grain < o - target /\ o - target < Grain
      BY <1>3, <1>4, <1>5 DEF MovingInv
    <3> QED BY <1>2, <1>4, <1>8, <2>2, <3>1, <3>2, <3>3 DEF MovingInv
  <2> QED BY <2>1, <2>2
<1>10. mode' = "rest" => IsPage(o, count)
  BY <1>2, <1>4
<1>11. ASSUME isViewShowedFirstly
       PROVE  /\ -Grain < o /\ o < count * Grain
              /\ Truncated(o) # currentCellIndex => fading[Truncated(o)] <= MaxUpdates
              /\ \/ IsPage(o, count)
                 \/ \A b \in Books : fading[b] < MaxUpdates
                 \/ Truncated(o) = currentCellIndex /\ \A b \in Books : fading[b] <= MaxUpdates
  <2>1. mode = "settle"
    <3>1. ~observed.shows
      BY <1>11 DEF FitInv, QueueInv, ShowsOK
    <3>2. mode = "animated" => observed.shows
      BY <1>3, <1>4, ObservationTypes DEF MovingInv
    <3> QED BY <1>2, <3>1, <3>2
  <2>2. -Grain < offset - target /\ offset - target < Grain
    BY <1>4, <2>1 DEF MovingInv
  <2>3. offset # currentCellIndex * Grain
    BY <1>3, <1>4, <2>2, NotOtherPage
  <2>4. \A b \in Books : fading[b] <= MaxUpdates
    BY <1>11, <2>3 DEF FitInv, FadingInv
  <2>5. /\ -Grain < offset /\ offset < count * Grain /\ currentCellIndex = Truncated(offset)
        /\ count \in 1 .. MaxEntries
    BY <1>11, DetailsAssumption DEF FitInv, ShownInv, DTypeOK
  <2>6. target \in Nat /\ target < count * Grain /\ -Grain < target
    BY <1>3, <1>4, IsPageFacts
  <2>7. -Grain < o /\ o < count * Grain
    <3>1. count * Grain \in Int
      BY <1>3
    <3> QED BY <1>3, <1>5, <2>5, <2>6, <3>1
  <2>8. Truncated(o) \in Books
    <3>1. Truncated(o) \in 0 .. count - 1
      BY <1>5, <2>5, <2>7, TruncatedRange
    <3> QED BY <2>5, <3>1, DetailsAssumption DEF Books
  <2>9. o # target => Truncated(o) = currentCellIndex
    BY <1>3, <1>4, <1>5, <2>2, <2>5, SettleStays
  <2> QED BY <1>4, <2>4, <2>7, <2>8, <2>9
<1>12. mode' \in {"rest", "animated", "drag", "settle"}
  BY <1>2
<1> QED BY <1>2, <1>5, <1>6, <1>9, <1>10, <1>11, <1>12, MovePreserves

\* The finger moves a view whose book is shown.
LEMMA DragPreserves ==
  ASSUME FitInv, NEW d \in Int, Drag(d)
  PROVE  FitInv'
<1>1. PICK o : o = offset + d
  OBVIOUS
<1>2. /\ mode = "drag" /\ mode' = "drag" /\ Move(o, mainQueue)
      /\ -Grain < o /\ o < count * Grain
      /\ \A b \in Books : fading[b] < MaxUpdates
      /\ UNCHANGED <<laidOut, target, interaction, isAnimating, loaded, count,
                     isViewShowedFirstly, text>>
  BY <1>1 DEF Drag
<1>3. offset \in Int /\ count \in Nat /\ count <= MaxEntries
  BY DetailsAssumption, GrainType DEF FitInv, DTypeOK
<1>4. isViewShowedFirstly /\ laidOut
  BY <1>2 DEF FitInv, MovingInv, UnlaidInv
<1>5. MovingInv'
  BY <1>2, <1>4 DEF MovingInv
<1>6. count * Grain <= MaxEntries * Grain /\ count * Grain \in Int /\ MaxEntries * Grain \in Int
  BY <1>3, DetailsAssumption, GrainType, KeepFactor
<1>7. o \in Int /\ o >= -Grain /\ o <= MaxEntries * Grain
  BY <1>1, <1>2, <1>3, <1>6, GrainType
<1>8. Truncated(o) \in Books
  <2>1. count \in Nat \ {0}
    BY <1>3, <1>4 DEF FitInv, ShownInv
  <2>2. Truncated(o) \in 0 .. count - 1
    BY <1>2, <1>7, <2>1, TruncatedRange
  <2> QED BY <1>3, <2>2, DetailsAssumption DEF Books
<1>9. fading[Truncated(o)] <= MaxUpdates
  <2>1. fading[Truncated(o)] \in Nat
    BY <1>8, DetailsAssumption DEF FitInv, DTypeOK
  <2> QED BY <1>2, <1>8, <2>1, DetailsAssumption
<1> QED BY <1>2, <1>4, <1>5, <1>7, <1>9, MovePreserves

-----------------------------------------------------------------------------
(* The finger, and the fade-outs *)

\* With data the touches are given only to a screen whose book is shown.
LEMMA TouchPreserves ==
  ASSUME FitInv, Touch
  PROVE  FitInv'
<1>1. /\ laidOut /\ interaction /\ count > 1 /\ mainQueue = << >> /\ mode' = "drag"
      /\ UNCHANGED <<laidOut, offset, target, interaction, mainQueue, layoutVars, screenVars>>
  BY DEF Touch
<1>2. /\ UNCHANGED <<laidOut, offset, target, interaction, mainQueue>>
      /\ UNCHANGED <<currentPage, isAnimating, observed>>
      /\ UNCHANGED <<loaded, crashed, count, currentCellIndex, previousCellIndex,
                     isViewShowedFirstly, fading, text, overlapped>>
  BY <1>1 DEF layoutVars, screenVars
<1>3. isViewShowedFirstly
  <2>1. count > 0
    BY <1>1 DEF FitInv, DTypeOK
  <2> QED BY <1>1, <2>1, Zenon DEF FitInv, ShownInv
<1>4. DTypeOK'
  BY <1>1, <1>2 DEF FitInv, DTypeOK
<1>5. EmptyInv' /\ UnlaidInv' /\ QueueInv'
  <2>1. count # 0
    BY <1>1
  <2> QED BY <1>1, <1>2, <2>1 DEF FitInv, EmptyInv, UnlaidInv, QueueInv
<1>6. MovingInv' /\ ShownInv'
  BY <1>1, <1>2, <1>3 DEF FitInv, MovingInv, ShownInv
<1>7. LateInv'
  <2>1. Range(mainQueue) = {}
    BY <1>1 DEF Range
  <2> QED BY <1>1, <1>2, <2>1 DEF FitInv, LateInv
<1>8. FadingInv' /\ TextInv' /\ PageInv'
  BY <1>2 DEF FitInv, FadingInv, TextInv, PageInv
<1> QED BY <1>4, <1>5, <1>6, <1>7, <1>8 DEF FitInv

LEMMA LiftPreserves ==
  ASSUME FitInv, NEW page \in Books, Lift(page)
  PROVE  FitInv'
<1>1. /\ mode = "drag" /\ page \in 0 .. count - 1
      /\ \/ (page - 1) * Grain < offset /\ offset < (page + 1) * Grain
         \/ page = 0 /\ offset < 0
      /\ target' = page * Grain
      /\ mode' = IF offset = target' THEN "rest" ELSE "settle"
      /\ UNCHANGED <<laidOut, offset, interaction, mainQueue, layoutVars, screenVars>>
  BY DEF Lift
<1>2. /\ UNCHANGED <<laidOut, offset, interaction, mainQueue>>
      /\ UNCHANGED <<currentPage, isAnimating, observed>>
      /\ UNCHANGED <<loaded, crashed, count, currentCellIndex, previousCellIndex,
                     isViewShowedFirstly, fading, text, overlapped>>
  BY <1>1 DEF layoutVars, screenVars
<1>3. DTypeOK /\ ShownInv /\ isViewShowedFirstly /\ laidOut
  BY <1>1 DEF FitInv, MovingInv, UnlaidInv
<1>4. /\ count \in 1 .. MaxEntries /\ offset \in Int
      /\ -Grain < offset /\ currentCellIndex = Truncated(offset)
  BY <1>3, DetailsAssumption, GrainType DEF DTypeOK, ShownInv
<1>5. PICK t \in Nat : /\ t = page * Grain /\ t < count * Grain /\ IsPage(t, count)
                       /\ Truncated(t) = page
  BY <1>1, <1>4, PageFacts
<1>6. -Grain < offset - t /\ offset - t < Grain
  <2>1. (page - 1) * Grain = t - Grain /\ (page + 1) * Grain = t + Grain
    BY <1>1, <1>5, GrainType
  <2>2. page = 0 => t = 0
    BY <1>5, GrainType
  <2> QED BY <1>1, <1>4, <2>1, <2>2, GrainType
<1>7. MovingInv'
  BY <1>1, <1>2, <1>3, <1>5, <1>6 DEF MovingInv
<1>8. DTypeOK'
  <2>1. count * Grain <= MaxEntries * Grain /\ count * Grain \in Int /\ MaxEntries * Grain \in Int
    BY <1>4, DetailsAssumption, GrainType, KeepFactor
  <2>2. target' \in -Grain .. MaxEntries * Grain
    BY <1>1, <1>5, <2>1, GrainType
  <2>3. mode' \in {"rest", "animated", "drag", "settle"}
    BY <1>1
  <2> QED BY <1>2, <1>3, <2>2, <2>3 DEF DTypeOK
<1>9. EmptyInv' /\ UnlaidInv' /\ QueueInv'
  BY <1>2, <1>3, <1>4 DEF FitInv, EmptyInv, UnlaidInv, QueueInv
<1>10. ShownInv'
  <2>1. mode' = "rest" => offset = currentCellIndex * Grain
    BY <1>1, <1>4, <1>5
  <2> QED BY <1>2, <1>3, <2>1 DEF ShownInv
<1>11. LateInv'
  <2>1. /\ observed.at >= 0 => observed.shows
        /\ \A b \in Range(mainQueue) : ~IsLate(b)
    BY <1>1, NothingLate DEF FitInv
  <2> QED BY <1>2, <2>1 DEF LateInv
<1>12. FadingInv' /\ TextInv' /\ PageInv'
  BY <1>2 DEF FitInv, FadingInv, TextInv, PageInv
<1> QED BY <1>7, <1>8, <1>9, <1>10, <1>11, <1>12 DEF FitInv

LEMMA FadeOutDonePreserves ==
  ASSUME FitInv, NEW b \in Books, FadeOutDone(b)
  PROVE  FitInv'
<1>1. /\ fading[b] > 0 /\ fading' = [fading EXCEPT ![b] = fading[b] - 1] /\ text' = b
      /\ UNCHANGED <<viewVars, layoutVars, loaded, crashed, count, currentCellIndex,
                     previousCellIndex, isViewShowedFirstly, overlapped>>
  BY DEF FadeOutDone
<1>2. /\ UNCHANGED <<laidOut, offset, mode, target, interaction, mainQueue>>
      /\ UNCHANGED <<currentPage, isAnimating, observed>>
      /\ UNCHANGED <<loaded, crashed, count, currentCellIndex, previousCellIndex,
                     isViewShowedFirstly, overlapped>>
  BY <1>1 DEF viewVars, layoutVars
<1>3. DTypeOK /\ ShownInv /\ FadingInv /\ TextInv
  BY DEF FitInv
<1>4. fading \in [Books -> 0 .. MaxUpdates + 1] /\ MaxUpdates \in Nat
  BY <1>3, DetailsAssumption DEF DTypeOK
<1>5. fading[b] - 1 \in 0 .. MaxUpdates + 1
  BY <1>1, <1>4
<1>6. /\ fading' \in [Books -> 0 .. MaxUpdates + 1] /\ fading'[b] = fading[b] - 1
      /\ \A c \in Books : c # b => fading'[c] = fading[c]
  BY <1>1, <1>4, <1>5, Zenon
<1>7. isViewShowedFirstly
  BY <1>1, <1>3 DEF ShownInv
<1>8. DTypeOK'
  BY <1>1, <1>2, <1>3, <1>6 DEF DTypeOK
<1>9. EmptyInv' /\ UnlaidInv' /\ QueueInv' /\ MovingInv'
  BY <1>2 DEF FitInv, EmptyInv, UnlaidInv, QueueInv, MovingInv
<1>10. ShownInv'
  <2>1. \A c \in Books : fading'[c] > 0 => c < count
    BY <1>1, <1>3, <1>6, <1>7 DEF ShownInv
  <2> QED BY <1>2, <1>3, <1>7, <2>1 DEF ShownInv
<1>11. LateInv' /\ PageInv'
  BY <1>2 DEF FitInv, LateInv, PageInv
<1>12. FadingInv'
  <2>1. ASSUME \A c \in Books : fading[c] <= MaxUpdates
        PROVE  \A c \in Books : fading'[c] <= MaxUpdates
    <3>1. \A c \in Books : fading'[c] = fading[c] \/ fading'[c] = fading[c] - 1
      BY <1>6
    <3> QED BY <1>4, <2>1, <3>1
  <2> QED BY <1>2, <1>3, <2>1 DEF FadingInv
<1>13. TextInv'
  <2> SUFFICES ASSUME ~overlapped
               PROVE  /\ \A c \in Books : c # currentCellIndex => fading'[c] = 0
                      /\ \/ fading'[currentCellIndex] = 1
                         \/ fading'[currentCellIndex] = 0 /\ text' = currentCellIndex
    BY <1>2 DEF TextInv
  <2>1. /\ \A c \in Books : c # currentCellIndex => fading[c] = 0
        /\ fading[currentCellIndex] \in {0, 1}
    BY <1>3, <1>7 DEF TextInv
  <2>2. b = currentCellIndex
    BY <1>1, <2>1
  <2> QED BY <1>1, <1>4, <1>6, <2>1, <2>2
<1> QED BY <1>8, <1>9, <1>10, <1>11, <1>12, <1>13 DEF FitInv

-----------------------------------------------------------------------------
(* The blocks of the main queue *)

\* An update: the observer may hear of the offset the view has.
LEMMA BatchPreserves ==
  ASSUME FitInv, BatchBlock
  PROVE  FitInv'
<1>1. /\ mainQueue # << >> /\ Head(mainQueue).block = "batch"
      /\ IF Head(mainQueue).invalidateOffset /\ ~isAnimating
         THEN Notify(observed, offset, Tail(mainQueue))
         ELSE mainQueue' = Tail(mainQueue) /\ UNCHANGED observed
      /\ currentPage' = PageAt(offset, isAnimating)
  BY DEF BatchBlock
<1>2. /\ UNCHANGED <<laidOut, offset, mode, target, interaction, isAnimating>>
      /\ UNCHANGED <<loaded, crashed, count, currentCellIndex, previousCellIndex,
                     isViewShowedFirstly, fading, text, overlapped>>
  BY DEF BatchBlock, screenVars
<1>3. /\ DTypeOK /\ EmptyInv /\ UnlaidInv /\ MovingInv /\ LateInv
      /\ mainQueue \in Seq(Blocks) /\ observed \in Observations
      /\ PagesOK(mainQueue, observed, count, isViewShowedFirstly)
      /\ ShowsOK(mainQueue, observed, isViewShowedFirstly, currentCellIndex)
  BY DEF FitInv, QueueInv
<1>4. count \in Nat /\ count \in 0 .. MaxEntries /\ offset \in Int /\ offset >= -Grain
      /\ offset <= MaxEntries * Grain
  BY <1>3, DetailsAssumption, GrainType DEF DTypeOK
<1>5. PICK h, s : h = Head(mainQueue) /\ s = Tail(mainQueue)
  OBVIOUS
<1>6. s \in Seq(Blocks) /\ h \in Blocks /\ Range(mainQueue) = {h} \cup Range(s)
  BY <1>1, <1>3, <1>5, TailFacts
<1>7. /\ PagesOK(s, observed, count, isViewShowedFirstly)
      /\ ShowsOK(s, observed, isViewShowedFirstly, currentCellIndex)
  BY <1>1, <1>3, <1>5, QueueTail
<1>8. /\ mainQueue' \in Seq(Blocks) /\ observed' \in Observations
      /\ PagesOK(mainQueue', observed', count, isViewShowedFirstly)
      /\ ShowsOK(mainQueue', observed', isViewShowedFirstly, currentCellIndex)
      /\ \/ /\ observed' = observed /\ mainQueue' = s
            /\ h.invalidateOffset /\ ~isAnimating => observed.at # offset
         \/ /\ observed.at = offset /\ observed' = NoObservation
            /\ Range(mainQueue') = Range(s) \cup {Arrived(observed)}
  <2>1. CASE h.invalidateOffset /\ ~isAnimating
    <3>1. Notify(observed, offset, s)
      BY <1>1, <1>5, <2>1
    <3>2. /\ mainQueue' \in Seq(Blocks) /\ observed' \in Observations
          /\ PagesOK(mainQueue', observed', count, isViewShowedFirstly)
          /\ ShowsOK(mainQueue', observed', isViewShowedFirstly, currentCellIndex)
          /\ \/ observed.at # offset /\ observed' = observed /\ mainQueue' = s
             \/ /\ observed.at = offset /\ observed' = NoObservation /\ IsPage(offset, count)
                /\ mainQueue' = Append(s, Arrived(observed))
                /\ Range(mainQueue') = Range(s) \cup {Arrived(observed)}
      BY <1>3, <1>4, <1>6, <1>7, <3>1, NotifyFacts
    <3> QED BY <3>2, Zenon
  <2>2. CASE ~(h.invalidateOffset /\ ~isAnimating)
    <3>1. mainQueue' = s /\ observed' = observed
      BY <1>1, <1>5, <2>2
    <3> QED BY <1>3, <1>6, <1>7, <2>2, <3>1, Zenon
  <2> QED BY <2>1, <2>2
<1> DEFINE Unmatched == /\ observed' = observed /\ mainQueue' = s
                        /\ h.invalidateOffset /\ ~isAnimating => observed.at # offset
           Matched   == /\ observed.at = offset /\ observed' = NoObservation
                        /\ Range(mainQueue') = Range(s) \cup {Arrived(observed)}
<1>9. Unmatched \/ Matched
  BY <1>8, Zenon
<1>10. /\ IsArrived(Arrived(observed)) /\ Arrived(observed).observation = observed
       /\ IsLate(Arrived(observed)) => ~observed.shows /\ observed.at >= 0
  BY <1>3, BlockTypes DEF IsLate
<1>11. NoObservation.at = -2 * Grain /\ ~NoObservation.shows /\ ~(NoObservation.at >= 0)
  BY ObservationTypes, GrainType
<1>12. DTypeOK'
  <2>1. currentPage' \in -1 .. MaxEntries
    <3>1. Rounded(offset) \in -1 .. MaxEntries
      BY <1>4, DetailsAssumption, RoundedRange
    <3> QED BY <1>1, <1>3, <3>1 DEF PageAt, DTypeOK
  <2>2. observed' \in [at : -2 * Grain .. MaxEntries * Grain, shows : BOOLEAN]
    BY <1>4, <1>8, ObservedRange
  <2>3. \A i \in DOMAIN mainQueue' : mainQueue'[i].block \in {"arrived", "batch"}
    BY <1>8, BlocksTyped
  <2> QED BY <1>2, <1>3, <2>1, <2>2, <2>3 DEF DTypeOK
<1>13. EmptyInv'
  <2>1. count = 0 => laidOut /\ observed' = NoObservation
    BY <1>1, <1>3, <1>9 DEF EmptyInv
  <2> QED BY <1>2, <1>3, <2>1 DEF EmptyInv
<1>14. UnlaidInv'
  <2> SUFFICES ASSUME ~laidOut PROVE /\ offset' = 0 /\ currentPage' = 0 /\ mode' \in {"rest", "animated"}
                                     /\ AllAtFirst(mainQueue')
    BY <1>2 DEF UnlaidInv
  <2>1. offset = 0 /\ currentPage = 0 /\ mode \in {"rest", "animated"} /\ AllAtFirst(mainQueue)
    BY <1>3 DEF UnlaidInv
  <2>2. currentPage' = 0
    BY <1>1, <2>1, RoundedZero DEF PageAt
  <2>3. AllAtFirst(mainQueue')
    <3>1. CASE Unmatched
      BY <1>6, <2>1, <3>1 DEF AllAtFirst
    <3>2. CASE Matched
      BY <1>6, <1>10, <2>1, <3>2 DEF AllAtFirst
    <3> QED BY <1>9, <3>1, <3>2
  <2> QED BY <1>2, <2>1, <2>2, <2>3
<1>15. QueueInv'
  BY <1>2, <1>8 DEF QueueInv
<1>16. MovingInv'
  <2>1. mode = "animated" => observed' = observed
    <3>1. target \in Int
      BY <1>3, DetailsAssumption, GrainType DEF DTypeOK
    <3>2. mode = "animated" => observed.at # offset
      BY <1>3, <3>1, ObservationTypes DEF MovingInv
    <3> QED BY <1>9, <3>2
  <2> QED BY <1>2, <1>3, <2>1 DEF MovingInv
<1>17. LateInv'
  <2>1. CASE Unmatched
    <3>1. ASSUME observed.at >= 0, ~observed.shows
          PROVE  \E b \in Range(s) : IsNudge(b)
      <4>1. ~isAnimating /\ offset = 0 /\ observed.at = 0
        BY <1>3, <3>1 DEF LateInv
      <4>2. ~IsNudge(h)
        BY <2>1, <4>1 DEF IsNudge
      <4>3. \E b \in Range(mainQueue) : IsNudge(b)
        BY <1>3, <3>1 DEF LateInv
      <4> QED BY <1>6, <4>2, <4>3
    <3>2. (\E b \in Range(s) : IsLate(b)) => \E b \in Range(mainQueue) : IsLate(b)
      BY <1>6
    <3>3. AllAtFirst(mainQueue) => AllAtFirst(s)
      BY <1>6 DEF AllAtFirst
    <3> QED BY <1>2, <1>3, <2>1, <3>1, <3>2, <3>3 DEF LateInv
  <2>2. CASE Matched
    <3>1. ASSUME \E b \in Range(mainQueue') : IsLate(b)
          PROVE  /\ laidOut /\ offset = 0 /\ mode = "rest"
                 /\ AllAtFirst(mainQueue')
      <4>1. \/ observed.at >= 0 /\ ~observed.shows
            \/ \E b \in Range(mainQueue) : IsLate(b)
        BY <1>6, <1>10, <2>2, <3>1
      <4>2. laidOut /\ offset = 0 /\ mode = "rest" /\ AllAtFirst(mainQueue)
        BY <1>3, <4>1 DEF LateInv
      <4>3. AllAtFirst(mainQueue')
        BY <1>6, <1>10, <2>2, <4>2 DEF AllAtFirst
      <4> QED BY <4>2, <4>3
    <3> QED BY <1>2, <1>11, <2>2, <3>1 DEF LateInv
  <2> QED BY <1>9, <2>1, <2>2
<1>18. ShownInv' /\ FadingInv' /\ TextInv'
  BY <1>2 DEF FitInv, ShownInv, FadingInv, TextInv
<1>19. PageInv'
  BY <1>1, <1>2 DEF PageInv, PageAt
<1> QED BY <1>12, <1>13, <1>14, <1>15, <1>16, <1>17, <1>18, <1>19 DEF FitInv

\* The block of a reached offset is one of three: that of a first layout without
\* data, showSelectedPage's, or that of a first layout with data, which finds the
\* view at its first page.  The view comes to rest; who waits for its offset is another
\* first layout with data.
LEMMA ArrivedFacts ==
  ASSUME FitInv, ArrivedBlock, NEW obs, obs = Head(mainQueue).observation
  PROVE  /\ obs \in Observations /\ mode' = "rest" /\ offset' = obs.at
         /\ obs.at \in -Grain .. MaxEntries * Grain
         /\ \/ observed' = observed /\ mainQueue' = Append(Tail(mainQueue), Batch(FALSE))
            \/ /\ observed.at = obs.at /\ observed.at >= 0 /\ ~observed.shows
               /\ observed' = NoObservation
               /\ mainQueue' = Append(Append(Tail(mainQueue), Batch(FALSE)), Arrived(observed))
         /\ currentPage' = currentPage \/ currentPage' = Rounded(obs.at)
         /\ ~laidOut => obs.at = 0 /\ currentPage' = 0
         /\ \/ ~obs.shows /\ ~isViewShowedFirstly /\ obs.at = -Grain
            \/ /\ obs.shows /\ ~isViewShowedFirstly /\ IsPage(obs.at, count)
               /\ obs.at = currentCellIndex * Grain
            \/ ~obs.shows /\ obs.at = 0 /\ offset = 0 /\ mode = "rest" /\ count > 0
<1>1. /\ mainQueue # << >> /\ Head(mainQueue).block = "arrived"
      /\ mode' = IF mode = "drag" THEN "drag" ELSE "rest"
      /\ offset' = obs.at
      /\ \/ /\ Notify(observed, obs.at, Append(Tail(mainQueue), Batch(FALSE)))
            /\ currentPage' = PageAt(obs.at, isAnimating)
         \/ /\ mainQueue' = Append(Tail(mainQueue), Batch(FALSE))
            /\ UNCHANGED <<observed, currentPage>>
  BY DEF ArrivedBlock, AfterArrival
<1>2. /\ DTypeOK /\ UnlaidInv /\ MovingInv /\ LateInv
      /\ mainQueue \in Seq(Blocks) /\ observed \in Observations
      /\ PagesOK(mainQueue, observed, count, isViewShowedFirstly)
      /\ ShowsOK(mainQueue, observed, isViewShowedFirstly, currentCellIndex)
  BY DEF FitInv, QueueInv
<1>3. /\ count \in Nat /\ count \in 0 .. MaxEntries /\ Grain \in Nat \ {0}
  BY <1>2, DetailsAssumption, GrainType DEF DTypeOK
<1>4. PICK h : h = Head(mainQueue)
  OBVIOUS
<1>5. /\ h \in Blocks /\ h \in Range(mainQueue) /\ 1 \in DOMAIN mainQueue /\ h = mainQueue[1]
  BY <1>1, <1>2, <1>4, TailFacts
<1>6. IsArrived(h) /\ h.observation = obs /\ obs \in Observations
  BY <1>1, <1>4, <1>5 DEF IsArrived, Blocks
<1>7. \/ ~isViewShowedFirstly /\ obs = Observation(-Grain, FALSE)
      \/ IsPage(obs.at, count)
  BY <1>2, <1>5, <1>6 DEF PagesOK
<1>8. obs.shows => /\ obs.at = currentCellIndex * Grain /\ ~isViewShowedFirstly
                   /\ ~observed.shows
  <2>1. obs.shows => IsShow(h)
    BY <1>6 DEF IsShow
  <2> QED BY <1>2, <1>5, <1>6, <2>1 DEF ShowsOK
<1>9. IsPage(obs.at, count) => obs.at \in Nat /\ obs.at < count * Grain /\ count # 0
  BY <1>3, IsPageFacts
<1>10. -Grain \in Int /\ Observation(-Grain, FALSE).at = -Grain /\ ~Observation(-Grain, FALSE).shows
  <2>1. -Grain \in Int /\ FALSE \in BOOLEAN
    BY <1>3
  <2>2. Observation(-Grain, FALSE).at = -Grain
    BY <2>1, ObservationTypes, Zenon
  <2>3. Observation(-Grain, FALSE).shows = FALSE
    BY <2>1, ObservationTypes, Zenon
  <2> QED BY <2>1, <2>2, <2>3
<1>11. ~obs.shows /\ IsPage(obs.at, count) =>
         obs.at = 0 /\ offset = 0 /\ mode = "rest"
  <2> SUFFICES ASSUME ~obs.shows, IsPage(obs.at, count) PROVE obs.at = 0 /\ offset = 0 /\ mode = "rest"
    OBVIOUS
  <2>1. IsLate(h)
    BY <1>6, <1>9 DEF IsLate
  <2>2. offset = 0 /\ mode = "rest" /\ AllAtFirst(mainQueue)
    BY <1>2, <1>5, <2>1 DEF LateInv
  <2> QED BY <1>5, <1>6, <2>2 DEF AllAtFirst
<1>12. \/ ~obs.shows /\ ~isViewShowedFirstly /\ obs.at = -Grain
       \/ /\ obs.shows /\ ~isViewShowedFirstly /\ IsPage(obs.at, count)
          /\ obs.at = currentCellIndex * Grain
       \/ ~obs.shows /\ obs.at = 0 /\ offset = 0 /\ mode = "rest" /\ count > 0
  <2>1. count # 0 => count > 0
    BY <1>3
  <2> QED BY <1>7, <1>8, <1>9, <1>10, <1>11, <2>1
<1>13. mode' = "rest"
  <2>1. mode = "drag" => isViewShowedFirstly
    BY <1>2 DEF MovingInv
  <2> QED BY <1>1, <1>12, <2>1
<1>14. obs.at \in -Grain .. MaxEntries * Grain
  <2>1. count * Grain <= MaxEntries * Grain /\ count * Grain \in Int /\ MaxEntries * Grain \in Nat
    BY <1>3, DetailsAssumption, KeepFactor
  <2>2. CASE obs = Observation(-Grain, FALSE)
    <3>1. obs.at = -Grain
      BY <1>10, <2>2
    <3> QED BY <1>3, <2>1, <3>1
  <2>3. CASE IsPage(obs.at, count)
    <3>1. obs.at \in Nat /\ obs.at < count * Grain
      BY <1>9, <2>3
    <3> QED BY <1>3, <2>1, <3>1
  <2> QED BY <1>7, <2>2, <2>3
<1>15. observed.at = obs.at => observed.at >= 0 /\ ~observed.shows
  <2> SUFFICES ASSUME observed.at = obs.at PROVE observed.at >= 0 /\ ~observed.shows
    OBVIOUS
  <2>1. obs.at # -2 * Grain
    BY <1>3, <1>14
  <2>2. IsPage(observed.at, count)
    BY <1>2, <2>1, ObservationTypes DEF PagesOK
  <2>3. observed.at >= 0 /\ obs.at # -Grain
    BY <1>3, <1>9, <2>2
  <2>4. CASE obs.shows
    BY <1>8, <2>3, <2>4
  <2>5. CASE ~obs.shows
    <3>1. IsLate(h)
      BY <1>6, <2>3, <2>5 DEF IsLate
    <3>2. ~observed.shows
      BY <1>2, <1>5, <3>1 DEF LateInv
    <3> QED BY <2>3, <3>2
  <2> QED BY <2>4, <2>5
<1>16. /\ \/ observed' = observed /\ mainQueue' = Append(Tail(mainQueue), Batch(FALSE))
          \/ /\ observed.at = obs.at /\ observed' = NoObservation
             /\ mainQueue' = Append(Append(Tail(mainQueue), Batch(FALSE)), Arrived(observed))
       /\ currentPage' = currentPage \/ currentPage' = Rounded(obs.at)
  BY <1>1 DEF Notify, PageAt
<1>17. ~laidOut => obs.at = 0 /\ currentPage' = 0
  BY <1>2, <1>5, <1>6, <1>16, RoundedZero DEF UnlaidInv, AllAtFirst
<1> QED BY <1>1, <1>6, <1>12, <1>13, <1>14, <1>15, <1>16, <1>17

\* What the block does to the screen: nothing, or the completion.
LEMMA ArrivedScreen ==
  ASSUME FitInv, ArrivedBlock, NEW obs, obs = Head(mainQueue).observation
  PROVE  /\ currentCellIndex' = currentCellIndex
         /\ ~obs.shows => UNCHANGED <<previousCellIndex, fading, overlapped, isViewShowedFirstly,
                                      interaction, crashed>>
         /\ obs.shows => completion
<1>1. IF obs.shows
      THEN completion
      ELSE scrollViewDidScroll(obs.at) /\ UNCHANGED <<isViewShowedFirstly, interaction>>
  BY DEF ArrivedBlock
<1>2. CASE obs.shows
  <2>1. completion
    BY <1>1, <1>2
  <2>2. currentCellIndex' = currentCellIndex
    BY <2>1 DEF completion
  <2> QED BY <1>2, <2>1, <2>2
<1>3. CASE ~obs.shows
  <2>1. scrollViewDidScroll(obs.at) /\ UNCHANGED <<isViewShowedFirstly, interaction>>
    BY <1>1, <1>3
  <2>2. CASE ~isViewShowedFirstly
    BY <1>3, <2>1, <2>2, ScrollUnshown
  <2>3. CASE isViewShowedFirstly
    <3>1. obs.at = offset
      BY <1>3, <2>3, ArrivedFacts
    <3>2. Truncated(obs.at) = previousCellIndex
      BY <2>3, <3>1 DEF FitInv, ShownInv
    <3>3. UNCHANGED <<currentCellIndex, previousCellIndex, fading, overlapped, crashed>>
      BY <2>1, <3>2 DEF scrollViewDidScroll
    <3> QED BY <1>3, <2>1, <3>3
  <2> QED BY <2>2, <2>3
<1> QED BY <1>2, <1>3

\* The completion shows the selected book, on whose page the view is.
LEMMA CompletionFacts ==
  ASSUME FitInv, completion, ~isViewShowedFirstly, count > 0
  PROVE  /\ fading' \in [Books -> 0 .. MaxUpdates + 1] /\ overlapped' \in BOOLEAN
         /\ previousCellIndex' = currentCellIndex /\ isViewShowedFirstly' = TRUE
         /\ interaction' = TRUE /\ crashed' = crashed
         /\ fading'[currentCellIndex] = 1
         /\ \A b \in Books : b # currentCellIndex => fading'[b] = 0
<1>0. Exists(currentCellIndex)
  BY DetailsAssumption DEF FitInv, DTypeOK, ShownInv, Exists, Books
<1>1. /\ updateBookInfo(currentCellIndex) /\ previousCellIndex' = currentCellIndex
      /\ isViewShowedFirstly' = TRUE /\ interaction' = TRUE /\ crashed' = crashed
  BY <1>0 DEF completion
<1>2. /\ fading \in [Books -> 0 .. MaxUpdates + 1] /\ currentCellIndex \in Books
      /\ \A b \in Books : fading[b] = 0
  BY DEF FitInv, DTypeOK, ShownInv
<1>3. fading[currentCellIndex] = 0 /\ fading[currentCellIndex] <= MaxUpdates
  BY <1>2, DetailsAssumption
<1>4. /\ fading' \in [Books -> 0 .. MaxUpdates + 1] /\ overlapped' \in BOOLEAN
      /\ fading'[currentCellIndex] = fading[currentCellIndex] + 1
      /\ \A b \in Books : b # currentCellIndex => fading'[b] = fading[b]
  BY <1>1, <1>2, <1>3, UpdateFacts
<1>5. fading'[currentCellIndex] = 1
  BY <1>3, <1>4
<1>6. \A b \in Books : b # currentCellIndex => fading'[b] = 0
  BY <1>2, <1>4
<1> QED BY <1>1, <1>4, <1>5, <1>6

LEMMA ArrivedPreserves ==
  ASSUME FitInv, ArrivedBlock
  PROVE  FitInv'
<1>1. PICK obs : obs = Head(mainQueue).observation
  OBVIOUS
<1>2. /\ obs \in Observations /\ mode' = "rest" /\ offset' = obs.at
      /\ obs.at \in -Grain .. MaxEntries * Grain
      /\ \/ observed' = observed /\ mainQueue' = Append(Tail(mainQueue), Batch(FALSE))
         \/ /\ observed.at = obs.at /\ observed.at >= 0 /\ ~observed.shows
            /\ observed' = NoObservation
            /\ mainQueue' = Append(Append(Tail(mainQueue), Batch(FALSE)), Arrived(observed))
      /\ currentPage' = currentPage \/ currentPage' = Rounded(obs.at)
      /\ ~laidOut => obs.at = 0 /\ currentPage' = 0
      /\ \/ ~obs.shows /\ ~isViewShowedFirstly /\ obs.at = -Grain
         \/ /\ obs.shows /\ ~isViewShowedFirstly /\ IsPage(obs.at, count)
            /\ obs.at = currentCellIndex * Grain
         \/ ~obs.shows /\ obs.at = 0 /\ offset = 0 /\ mode = "rest" /\ count > 0
  BY <1>1, ArrivedFacts
<1>3. /\ currentCellIndex' = currentCellIndex
      /\ ~obs.shows => UNCHANGED <<previousCellIndex, fading, overlapped, isViewShowedFirstly,
                                   interaction, crashed>>
      /\ obs.shows => completion
  BY <1>1, ArrivedScreen
<1>4. /\ mainQueue # << >> /\ Head(mainQueue).block = "arrived"
      /\ isAnimating' = FALSE /\ UNCHANGED <<laidOut, target, loaded, count, text>>
  BY DEF ArrivedBlock
<1>5. /\ DTypeOK /\ EmptyInv /\ UnlaidInv /\ ShownInv /\ LateInv /\ FadingInv /\ TextInv
      /\ mainQueue \in Seq(Blocks) /\ observed \in Observations
      /\ PagesOK(mainQueue, observed, count, isViewShowedFirstly)
      /\ ShowsOK(mainQueue, observed, isViewShowedFirstly, currentCellIndex)
  BY DEF FitInv, QueueInv
<1>6. count \in Nat /\ count \in 0 .. MaxEntries /\ Grain \in Nat \ {0}
  BY <1>5, DetailsAssumption, GrainType DEF DTypeOK
<1>7. PICK h, s : h = Head(mainQueue) /\ s = Tail(mainQueue)
  OBVIOUS
<1>8. /\ s \in Seq(Blocks) /\ Range(mainQueue) = {h} \cup Range(s)
      /\ IsArrived(h) /\ h.observation = obs /\ ~IsNudge(h)
      /\ IsShow(h) <=> obs.shows
  BY <1>1, <1>4, <1>5, <1>7, TailFacts DEF IsArrived, IsNudge, IsShow
<1>9. PICK b \in Blocks : /\ b = Batch(FALSE) /\ ~IsArrived(b) /\ b.block = "batch"
  BY BlockTypes
<1>10. PICK q0 \in Seq(Blocks) : q0 = Append(s, b) /\ Range(q0) = Range(s) \cup {b}
  <2>1. Append(s, b) \in Seq(Blocks) /\ Range(Append(s, b)) = Range(s) \cup {b}
    BY <1>8, AppendFacts
  <2> QED BY <2>1
<1>11. /\ PagesOK(q0, observed, count, isViewShowedFirstly')
       /\ ShowsOK(q0, observed, isViewShowedFirstly', currentCellIndex)
  <2>1. /\ \A sh : PagesOK(s, observed, count, sh)
        /\ ShowsOK(s, observed, isViewShowedFirstly, currentCellIndex)
        /\ IsShow(h) => \A sh : ShowsOK(s, observed, sh, currentCellIndex)
    BY <1>4, <1>5, <1>7, QueueTail
  <2>2. ShowsOK(s, observed, isViewShowedFirstly', currentCellIndex)
    BY <1>3, <1>8, <2>1
  <2>3. PagesOK(s, observed, count, isViewShowedFirstly')
    BY <2>1
  <2>4. FALSE \in BOOLEAN
    OBVIOUS
  <2> QED BY <1>8, <1>9, <1>10, <2>2, <2>3, <2>4, QueueBatch
<1>20. PICK a \in Blocks : a = Arrived(observed) /\ a.observation = observed /\ a.block # "batch"
  BY <1>5, BlockTypes
<1> DEFINE Waits == observed' = observed /\ mainQueue' = q0
           Heard == /\ observed.at = obs.at /\ observed.at >= 0 /\ ~observed.shows
                    /\ observed' = NoObservation /\ mainQueue' = Append(q0, a)
<1>21. Waits \/ Heard
  BY <1>2, <1>7, <1>9, <1>10, <1>20
<1>22. NoObservation \in Observations /\ ~(NoObservation.at >= 0) /\ ~NoObservation.shows
  BY ObservationTypes, GrainType
<1>23. /\ mainQueue' \in Seq(Blocks) /\ observed' \in Observations
       /\ PagesOK(mainQueue', observed', count, isViewShowedFirstly')
       /\ ShowsOK(mainQueue', observed', isViewShowedFirstly', currentCellIndex)
       /\ Range(q0) \subseteq Range(mainQueue') /\ Range(mainQueue') \subseteq Range(q0) \cup {a}
  <2>1. CASE Waits
    BY <1>5, <1>10, <1>11, <2>1
  <2>2. CASE Heard
    <3>1. IsPage(observed.at, count)
      BY <1>11, <1>22, <2>2 DEF PagesOK
    <3>2. /\ PagesOK(Append(q0, Arrived(observed)), NoObservation, count, isViewShowedFirstly')
          /\ ShowsOK(Append(q0, Arrived(observed)), NoObservation, isViewShowedFirstly',
                     currentCellIndex)
      BY <1>5, <1>10, <1>11, <3>1, QueueArrived
    <3>3. Append(q0, a) \in Seq(Blocks) /\ Range(Append(q0, a)) = Range(q0) \cup {a}
      BY <1>10, <1>20, AppendFacts
    <3> QED BY <1>20, <1>22, <2>2, <3>2, <3>3
  <2> QED BY <1>21, <2>1, <2>2
<1>12. QueueInv'
  <2>1. count' = count /\ currentCellIndex' = currentCellIndex
    BY <1>3, <1>4
  <2> QED BY <1>23, <2>1 DEF QueueInv
<1>24. crashed' = crashed
  <2>1. obs.shows => count > 0
    <3>1. obs.shows => count # 0
      BY <1>2, <1>6, IsPageFacts
    <3> QED BY <1>6, <3>1
  <2>2. obs.shows => ~isViewShowedFirstly
    BY <1>2
  <2> QED BY <1>3, <2>1, <2>2, CompletionFacts
<1>13. EmptyInv'
  <2>2. ASSUME count = 0
        PROVE  observed' = NoObservation /\ ~isViewShowedFirstly' /\ laidOut'
    <3>1. ~obs.shows
      BY <1>2, <1>6, <2>2, IsPageFacts
    <3>2. observed = NoObservation /\ ~isViewShowedFirstly /\ laidOut
      BY <1>4, <1>5, <2>2 DEF EmptyInv
    <3> QED BY <1>3, <1>4, <1>21, <3>1, <3>2
  <2> QED BY <1>2, <1>4, <1>5, <1>24, <2>2 DEF EmptyInv
<1>14. UnlaidInv'
  <2> SUFFICES ASSUME ~laidOut
               PROVE  offset' = 0 /\ currentPage' = 0 /\ AllAtFirst(mainQueue')
    BY <1>2, <1>4 DEF UnlaidInv
  <2>1. offset' = 0 /\ currentPage' = 0 /\ obs.at = 0
    BY <1>2
  <2>2. AllAtFirst(mainQueue)
    BY <1>5 DEF UnlaidInv
  <2>3. AllAtFirst(q0)
    BY <1>8, <1>9, <1>10, <2>2 DEF AllAtFirst
  <2>4. CASE Waits
    BY <2>1, <2>3, <2>4
  <2>5. CASE Heard
    BY <1>20, <1>23, <2>1, <2>3, <2>5 DEF AllAtFirst
  <2> QED BY <1>21, <2>4, <2>5
<1>15. MovingInv'
  BY <1>2 DEF MovingInv
<1>16. LateInv'
  <2>1. ASSUME observed.at >= 0, ~observed.shows
        PROVE  \E c \in Range(q0) : IsNudge(c)
    <3>1. \E c \in Range(mainQueue) : IsNudge(c)
      BY <1>5, <2>1 DEF LateInv
    <3>2. \A c \in Range(mainQueue) : c = h \/ c \in Range(q0)
      BY <1>8, <1>10
    <3> QED BY <1>8, <3>1, <3>2, Zenon
  <2>2. ASSUME \/ observed.at >= 0 /\ ~observed.shows
               \/ \E c \in Range(q0) : IsLate(c)
        PROVE  /\ laidOut /\ obs.at = 0 /\ ~observed.shows
               /\ observed.at >= 0 => observed.at = 0
               /\ AllAtFirst(q0)
    <3>1. \/ observed.at >= 0 /\ ~observed.shows
          \/ \E c \in Range(mainQueue) : IsLate(c)
      BY <1>8, <1>9, <1>10, <2>2 DEF IsLate
    <3>2. /\ laidOut /\ ~observed.shows /\ AllAtFirst(mainQueue)
          /\ observed.at >= 0 => observed.at = 0
      BY <1>5, <3>1 DEF LateInv
    <3>3. /\ h \in Range(mainQueue)
          /\ \A c \in Range(q0) : c = b \/ c \in Range(mainQueue)
      BY <1>8, <1>10
    <3>4. obs.at = 0 /\ AllAtFirst(q0)
      BY <1>8, <1>9, <3>2, <3>3, Zenon DEF AllAtFirst
    <3> QED BY <3>2, <3>4
  <2>3. CASE Waits
    BY <1>2, <1>4, <2>1, <2>2, <2>3 DEF LateInv
  <2>4. CASE Heard
    <3>1. laidOut /\ obs.at = 0 /\ AllAtFirst(q0)
      BY <2>2, <2>4
    <3>2. AllAtFirst(mainQueue')
      BY <1>20, <1>23, <2>4, <3>1 DEF AllAtFirst
    <3> QED BY <1>2, <1>4, <1>22, <2>4, <3>1, <3>2 DEF LateInv
  <2> QED BY <1>21, <2>3, <2>4
<1>17. PageInv'
  <2>1. b \in Range(mainQueue')
    BY <1>10, <1>23
  <2> QED BY <1>9, <2>1 DEF PageInv
<1>18. /\ previousCellIndex' \in Books \cup {NoBook}
       /\ fading' \in [Books -> 0 .. MaxUpdates + 1] /\ overlapped' \in BOOLEAN
       /\ isViewShowedFirstly' \in BOOLEAN /\ interaction' \in BOOLEAN
       /\ ShownInv' /\ FadingInv' /\ TextInv'
  <2>1. CASE ~obs.shows
    <3>1. UNCHANGED <<currentCellIndex, previousCellIndex, fading, overlapped, isViewShowedFirstly,
                      interaction, crashed, count, text>>
      BY <1>3, <1>4, <2>1
    <3>2. /\ previousCellIndex' \in Books \cup {NoBook}
          /\ fading' \in [Books -> 0 .. MaxUpdates + 1] /\ overlapped' \in BOOLEAN
          /\ isViewShowedFirstly' \in BOOLEAN /\ interaction' \in BOOLEAN
      BY <1>5, <3>1 DEF DTypeOK
    <3>3. CASE ~isViewShowedFirstly
      <4>1. ~isViewShowedFirstly'
        BY <3>1, <3>3
      <4>2. ShownInv'
        BY <1>5, <3>1, <3>3, <4>1 DEF ShownInv
      <4>3. FadingInv' /\ TextInv'
        BY <4>1 DEF FadingInv, TextInv
      <4> QED BY <3>2, <4>2, <4>3
    <3>4. CASE isViewShowedFirstly
      <4>1. offset' = offset /\ mode' = mode
        BY <1>2, <2>1, <3>4
      <4>2. ShownInv' /\ FadingInv' /\ TextInv'
        BY <1>5, <3>1, <4>1 DEF ShownInv, FadingInv, TextInv
      <4> QED BY <3>2, <4>2
    <3> QED BY <3>3, <3>4
  <2>2. CASE obs.shows
    <3>1. /\ IsPage(obs.at, count) /\ obs.at = currentCellIndex * Grain
          /\ ~isViewShowedFirstly /\ completion
      BY <1>2, <1>3, <2>2
    <3>3. currentCellIndex \in Books
      BY <1>5 DEF DTypeOK
    <3>4. /\ count # 0 /\ -Grain < obs.at /\ obs.at < count * Grain
      BY <1>6, <3>1, IsPageFacts
    <3>5. count > 0 /\ currentCellIndex < count
      BY <1>5, <1>6, <3>4 DEF ShownInv
    <3>2. /\ fading' \in [Books -> 0 .. MaxUpdates + 1] /\ overlapped' \in BOOLEAN
          /\ previousCellIndex' = currentCellIndex /\ isViewShowedFirstly' = TRUE
          /\ interaction' = TRUE
          /\ fading'[currentCellIndex] = 1
          /\ \A c \in Books : c # currentCellIndex => fading'[c] = 0
      BY <3>1, <3>5, CompletionFacts
    <3>6. Truncated(obs.at) = currentCellIndex
      <4>1. currentCellIndex \in Nat
        BY <3>3, DetailsAssumption DEF Books
      <4> QED BY <1>6, <3>1, <3>5, <4>1, PageFacts
    <3>7. ShownInv'
      <4>1. \A c \in Books : fading'[c] > 0 => c < count
        BY <3>2, <3>5
      <4> QED BY <1>2, <1>3, <1>4, <3>1, <3>2, <3>4, <3>5, <3>6, <4>1 DEF ShownInv
    <3>8. FadingInv'
      BY <1>2, <1>3, <3>1 DEF FadingInv
    <3>9. TextInv'
      BY <1>3, <3>2 DEF TextInv
    <3>10. TRUE \in BOOLEAN
      OBVIOUS
    <3> QED BY <3>2, <3>3, <3>7, <3>8, <3>9, <3>10
  <2> QED BY <2>1, <2>2
<1>19. DTypeOK'
  <2>1. currentPage' \in -1 .. MaxEntries
    <3>1. Rounded(obs.at) \in -1 .. MaxEntries
      <4>1. obs.at \in Int /\ -Grain <= obs.at /\ obs.at <= MaxEntries * Grain
        BY <1>2, <1>6, DetailsAssumption
      <4> QED BY <4>1, DetailsAssumption, RoundedRange
    <3> QED BY <1>2, <1>5, <3>1 DEF DTypeOK
  <2>2. observed' \in [at : -2 * Grain .. MaxEntries * Grain, shows : BOOLEAN]
    BY <1>6, <1>23, ObservedRange
  <2>3. \A i \in DOMAIN mainQueue' : mainQueue'[i].block \in {"arrived", "batch"}
    BY <1>23, BlocksTyped
  <2>4. /\ laidOut' \in BOOLEAN /\ isAnimating' \in BOOLEAN /\ loaded' \in BOOLEAN
        /\ target' \in -Grain .. MaxEntries * Grain /\ count' \in 0 .. MaxEntries
        /\ currentCellIndex' \in Books /\ text' \in Books \cup {NoBook}
    BY <1>3, <1>4, <1>5 DEF DTypeOK
  <2>6. crashed' \in BOOLEAN
    BY <1>5, <1>24 DEF DTypeOK
  <2>5. offset' \in -Grain .. MaxEntries * Grain /\ mode' \in {"rest", "animated", "drag", "settle"}
    BY <1>2
  <2> QED BY <1>18, <2>1, <2>2, <2>3, <2>4, <2>5, <2>6 DEF DTypeOK
<1> QED BY <1>12, <1>13, <1>14, <1>15, <1>16, <1>17, <1>18, <1>19 DEF FitInv

-----------------------------------------------------------------------------
(* The first layout and the data *)

LEMMA EmptyQueue ==
  << >> \in Seq(Blocks) /\ DOMAIN << >> = {} /\ Range(<< >>) = {}
<1>1. << >> \in Seq(Blocks) /\ DOMAIN << >> = {}
  OBVIOUS
<1> QED BY <1>1 DEF Range

LEMMA InitDetails == DInit => FitInv
<1> SUFFICES ASSUME DInit PROVE FitInv
  OBVIOUS
<1>1. /\ laidOut = FALSE /\ offset = 0 /\ mode = "rest" /\ target = 0
      /\ interaction = TRUE /\ mainQueue = << >>
      /\ currentPage = 0 /\ isAnimating = FALSE /\ observed = NoObservation
      /\ loaded = FALSE /\ crashed = FALSE
      /\ count = 0 /\ currentCellIndex \in Books /\ previousCellIndex = NoBook
      /\ isViewShowedFirstly = FALSE
      /\ fading = [b \in Books |-> 0] /\ text = NoBook /\ overlapped = FALSE
  BY DEF DInit
<1>2. /\ NoObservation \in Observations /\ NoObservation.at = -2 * Grain /\ ~NoObservation.shows
      /\ ~(NoObservation.at >= 0)
  BY ObservationTypes, GrainType
<1>3. /\ PagesOK(mainQueue, observed, count, isViewShowedFirstly)
      /\ ShowsOK(mainQueue, observed, isViewShowedFirstly, currentCellIndex)
  BY <1>1, <1>2, EmptyQueue DEF PagesOK, ShowsOK
<1>4. DTypeOK
  <2>1. /\ offset \in -Grain .. MaxEntries * Grain /\ target \in -Grain .. MaxEntries * Grain
        /\ currentPage \in -1 .. MaxEntries /\ count \in 0 .. MaxEntries
    <3>1. MaxEntries * Grain \in Nat /\ MaxEntries \in Nat
      BY DetailsAssumption
    <3> QED BY <1>1, <3>1, GrainType
  <2>2. observed \in [at : -2 * Grain .. MaxEntries * Grain, shows : BOOLEAN]
    BY <1>1, <1>2, <1>3, <2>1, ObservedRange
  <2>3. fading \in [Books -> 0 .. MaxUpdates + 1]
    <3>1. 0 \in 0 .. MaxUpdates + 1
      BY DetailsAssumption
    <3> QED BY <1>1, <3>1
  <2> QED BY <1>1, <2>1, <2>2, <2>3, EmptyQueue DEF DTypeOK
<1>5. EmptyInv /\ UnlaidInv
  BY <1>1, EmptyQueue DEF EmptyInv, UnlaidInv, AllAtFirst
<1>6. QueueInv /\ MovingInv /\ ShownInv
  BY <1>1, <1>2, <1>3, EmptyQueue DEF QueueInv, MovingInv, ShownInv
<1>7. LateInv
  BY <1>1, <1>2, EmptyQueue DEF LateInv
<1>8. FadingInv /\ TextInv /\ PageInv
  BY <1>1, RoundedZero DEF FadingInv, TextInv, PageInv
<1> QED BY <1>4, <1>5, <1>6, <1>7, <1>8 DEF FitInv

LEMMA LeavePreserves == Leave => FitInv'
<1>1. Leave => DInit'
  BY DEF Leave, DInit
<1>2. DInit' => FitInv'
  BY InitDetails, PTL
<1> QED BY <1>1, <1>2

LEMMA NothingLateYet ==
  ASSUME LateInv, ~laidOut
  PROVE  /\ observed.at >= 0 => observed.shows
         /\ \A b \in Range(mainQueue) : ~IsLate(b)
BY DEF LateInv

LEMMA LayOutSamePreserves ==
  ASSUME FitInv, LayOutSameSize
  PROVE  FitInv'
<1>1. /\ ~laidOut /\ laidOut' = TRUE /\ mainQueue' = Append(mainQueue, Batch(TRUE))
      /\ UNCHANGED <<offset, mode, target, interaction>>
      /\ UNCHANGED <<currentPage, isAnimating, observed>>
      /\ UNCHANGED <<loaded, crashed, count, currentCellIndex, previousCellIndex,
                     isViewShowedFirstly, fading, text, overlapped>>
  BY DEF LayOutSameSize, layoutVars, screenVars
<1>2. /\ DTypeOK /\ EmptyInv /\ MovingInv /\ LateInv
      /\ mainQueue \in Seq(Blocks) /\ observed \in Observations
      /\ PagesOK(mainQueue, observed, count, isViewShowedFirstly)
      /\ ShowsOK(mainQueue, observed, isViewShowedFirstly, currentCellIndex)
  BY DEF FitInv, QueueInv
<1>3. TRUE \in BOOLEAN
  OBVIOUS
<1>4. /\ PagesOK(Append(mainQueue, Batch(TRUE)), observed, count, isViewShowedFirstly)
      /\ ShowsOK(Append(mainQueue, Batch(TRUE)), observed, isViewShowedFirstly, currentCellIndex)
  BY <1>2, <1>3, QueueBatch
<1>5. Batch(TRUE) \in Blocks /\ ~IsArrived(Batch(TRUE)) /\ Batch(TRUE).block = "batch"
  BY <1>3, BlockTypes
<1>6. mainQueue' \in Seq(Blocks) /\ Range(mainQueue') = Range(mainQueue) \cup {Batch(TRUE)}
  BY <1>1, <1>2, <1>5, AppendFacts
<1>7. DTypeOK'
  <2>1. \A i \in DOMAIN mainQueue' : mainQueue'[i].block \in {"arrived", "batch"}
    BY <1>6, BlocksTyped
  <2> QED BY <1>1, <1>2, <2>1 DEF DTypeOK
<1>8. EmptyInv' /\ UnlaidInv' /\ MovingInv'
  BY <1>1, <1>2 DEF EmptyInv, UnlaidInv, MovingInv
<1>9. QueueInv'
  BY <1>1, <1>2, <1>4, <1>6 DEF QueueInv
<1>10. ShownInv' /\ FadingInv' /\ TextInv'
  BY <1>1 DEF FitInv, ShownInv, FadingInv, TextInv
<1>11. LateInv'
  <2>1. /\ observed.at >= 0 => observed.shows
        /\ \A b \in Range(mainQueue) : ~IsLate(b)
    BY <1>1, <1>2, NothingLateYet
  <2>2. \A b \in Range(mainQueue') : ~IsLate(b)
    BY <1>5, <1>6, <2>1 DEF IsLate
  <2> QED BY <1>1, <2>1, <2>2 DEF LateInv
<1>12. PageInv'
  <2>1. Batch(TRUE) \in Range(mainQueue')
    BY <1>6
  <2> QED BY <1>5, <2>1 DEF PageInv
<1> QED BY <1>7, <1>8, <1>9, <1>10, <1>11, <1>12 DEF FitInv

\* showSelectedPage is called for a screen that has had at most its first layout.
LEMMA DataPreserves ==
  ASSUME FitInv, DataArrives, currentCellIndex < count'
  PROVE  FitInv'
<1>1. /\ count = 0 /\ count' \in 0 .. MaxEntries /\ loaded' = TRUE
      /\ interaction' = FALSE /\ isAnimating' = TRUE
      /\ target' = PageOffset(currentCellIndex, count')
      /\ UNCHANGED <<laidOut, offset, currentPage, crashed, currentCellIndex, previousCellIndex,
                     isViewShowedFirstly, fading, text, overlapped>>
  BY DEF DataArrives, FitInv, EmptyInv
<1>2. /\ DTypeOK /\ EmptyInv /\ UnlaidInv /\ ShownInv
      /\ mainQueue \in Seq(Blocks)
      /\ PagesOK(mainQueue, observed, 0, isViewShowedFirstly)
  BY <1>1 DEF FitInv, QueueInv
<1>3. PICK c \in Nat, n \in Nat : /\ c = currentCellIndex /\ n = count'
                                  /\ c < n /\ n <= MaxEntries /\ n > 0
  BY <1>1, <1>2, DetailsAssumption DEF DTypeOK, Books
<1>4. PICK t \in Nat : /\ t = target' /\ t = c * Grain /\ t < n * Grain /\ IsPage(t, n)
  <2>1. PageOffset(c, n) = c * Grain
    BY <1>3, PageOffsetFacts
  <2> QED BY <1>1, <1>3, <2>1, PageFacts
<1>6. ~isViewShowedFirstly /\ ~isViewShowedFirstly'
  BY <1>1, <1>2 DEF EmptyInv
<1>7. PICK obs \in Observations : obs = Observation(t, TRUE) /\ obs.at = t /\ obs.shows
  <2>1. t \in Int /\ TRUE \in BOOLEAN
    OBVIOUS
  <2>2. Observation(t, TRUE) \in Observations /\ Observation(t, TRUE).at = t
        /\ Observation(t, TRUE).shows = TRUE
    BY <2>1, ObservationTypes, Zenon
  <2> QED BY <2>2
<1>8. \/ mode' = "animated" /\ offset # t /\ observed' = obs /\ mainQueue' = mainQueue
      \/ /\ mode' = "rest" /\ offset = t /\ observed' = NoObservation
         /\ mainQueue' = Append(mainQueue, Arrived(obs))
      \/ mode' = "rest" /\ offset = t /\ observed' = obs /\ mainQueue' = mainQueue
  BY <1>4, <1>7 DEF DataArrives, Notify
<1>9. \A i \in DOMAIN mainQueue :
        IsArrived(mainQueue[i]) => /\ i = 1
                                   /\ mainQueue[i].observation = Observation(-Grain, FALSE)
  <2>1. \A o : ~IsPage(o, 0)
    BY DEF IsPage
  <2> QED BY <1>2, <2>1 DEF PagesOK
<1>10. PICK first : /\ first = Observation(-Grain, FALSE)
                    /\ first.at = -Grain /\ ~first.shows /\ ~(first.at >= 0)
  <2>1. -Grain \in Int /\ FALSE \in BOOLEAN /\ ~(-Grain >= 0)
    BY GrainType
  <2>2. Observation(-Grain, FALSE).at = -Grain /\ Observation(-Grain, FALSE).shows = FALSE
    BY <2>1, ObservationTypes, Zenon
  <2> QED BY <2>1, <2>2
<1>11. /\ PagesOK(mainQueue, obs, n, FALSE) /\ ShowsOK(mainQueue, obs, FALSE, c)
       /\ \A b \in Range(mainQueue) : ~IsLate(b)
  <2>1. PagesOK(mainQueue, obs, n, FALSE)
    BY <1>4, <1>7, <1>9 DEF PagesOK
  <2>2. \A i \in DOMAIN mainQueue : ~IsShow(mainQueue[i]) /\ ~IsLate(mainQueue[i])
    BY <1>9, <1>10 DEF IsShow, IsLate
  <2>3. ShowsOK(mainQueue, obs, FALSE, c)
    BY <1>4, <1>7, <2>2 DEF ShowsOK
  <2>4. \A b \in Range(mainQueue) : ~IsLate(b)
    BY <2>2 DEF Range
  <2> QED BY <2>1, <2>3, <2>4
<1>12. /\ PagesOK(Append(mainQueue, Arrived(obs)), NoObservation, n, FALSE)
       /\ ShowsOK(Append(mainQueue, Arrived(obs)), NoObservation, FALSE, c)
  BY <1>2, <1>4, <1>7, <1>11, QueueArrived
<1>13. /\ Arrived(obs) \in Blocks /\ Arrived(obs).observation = obs /\ ~IsLate(Arrived(obs))
  BY <1>7, BlockTypes DEF IsLate
<1>14. /\ Append(mainQueue, Arrived(obs)) \in Seq(Blocks)
       /\ Range(Append(mainQueue, Arrived(obs))) = Range(mainQueue) \cup {Arrived(obs)}
  BY <1>2, <1>13, AppendFacts
<1>15. /\ NoObservation \in Observations /\ ~(NoObservation.at >= 0) /\ ~NoObservation.shows
  BY ObservationTypes, GrainType
<1>16. /\ mainQueue' \in Seq(Blocks) /\ observed' \in Observations
       /\ PagesOK(mainQueue', observed', n, FALSE) /\ ShowsOK(mainQueue', observed', FALSE, c)
       /\ \A b \in Range(mainQueue') : ~IsLate(b)
       /\ observed'.at >= 0 => observed'.shows
  <2>1. CASE observed' = obs /\ mainQueue' = mainQueue
    BY <1>2, <1>7, <1>11, <2>1
  <2>2. CASE observed' = NoObservation /\ mainQueue' = Append(mainQueue, Arrived(obs))
    <3>1. \A b \in Range(mainQueue') : ~IsLate(b)
      BY <1>11, <1>13, <1>14, <2>2
    <3> QED BY <1>12, <1>14, <1>15, <2>2, <3>1, Zenon
  <2> QED BY <1>8, <2>1, <2>2
<1>17. DTypeOK'
  <2>1. n * Grain <= MaxEntries * Grain /\ n * Grain \in Int /\ MaxEntries * Grain \in Int
    <3>1. n \in Int /\ MaxEntries \in Int /\ Grain \in Nat /\ n <= MaxEntries
      BY <1>3, DetailsAssumption
    <3> QED BY <3>1, KeepFactor
  <2>2. target' \in -Grain .. MaxEntries * Grain /\ count' \in 0 .. MaxEntries
    BY <1>3, <1>4, <2>1, DetailsAssumption, GrainType
  <2>3. observed' \in [at : -2 * Grain .. MaxEntries * Grain, shows : BOOLEAN]
    BY <1>3, <1>16, <2>2, ObservedRange
  <2>4. \A i \in DOMAIN mainQueue' : mainQueue'[i].block \in {"arrived", "batch"}
    BY <1>16, BlocksTyped
  <2>5. mode' \in {"rest", "animated", "drag", "settle"}
    BY <1>8
  <2> QED BY <1>1, <1>2, <2>2, <2>3, <2>4, <2>5 DEF DTypeOK
<1>18. EmptyInv'
  BY <1>1, <1>2, <1>3 DEF EmptyInv
<1>19. UnlaidInv'
  <2> SUFFICES ASSUME ~laidOut
               PROVE  /\ offset = 0 /\ currentPage = 0 /\ mode' \in {"rest", "animated"}
                      /\ AllAtFirst(mainQueue')
    BY <1>1 DEF UnlaidInv
  <2>1. offset = 0 /\ currentPage = 0 /\ mainQueue = << >>
    BY <1>1, <1>2 DEF EmptyInv, UnlaidInv
  <2>2. Range(mainQueue) = {}
    BY <2>1, EmptyQueue
  <2>3. AllAtFirst(mainQueue')
    <3>1. \A b \in Range(mainQueue') : b = Arrived(obs) /\ offset = t
      BY <1>8, <1>14, <2>2
    <3> QED BY <1>7, <1>13, <2>1, <3>1 DEF AllAtFirst
  <2> QED BY <1>8, <2>1, <2>3
<1>20. QueueInv'
  <2>1. isViewShowedFirstly' = FALSE
    BY <1>1, <1>2, <1>6 DEF DTypeOK
  <2> QED BY <1>1, <1>3, <1>16, <2>1 DEF QueueInv
<1>21. MovingInv'
  BY <1>1, <1>3, <1>4, <1>7, <1>8 DEF MovingInv
<1>22. ShownInv'
  BY <1>1, <1>2, <1>3, <1>6 DEF ShownInv
<1>23. LateInv'
  BY <1>16 DEF LateInv
<1>24. FadingInv' /\ TextInv' /\ PageInv'
  BY <1>1, <1>6 DEF FadingInv, TextInv, PageInv
<1> QED BY <1>17, <1>18, <1>19, <1>20, <1>21, <1>22, <1>23, <1>24 DEF FitInv

\* The blocks a first layout with another size dispatches.
LEMMA ConcatFacts ==
  ASSUME NEW q \in Seq(Blocks), NEW a \in Blocks, NEW b \in Blocks
  PROVE  /\ q \o << a >> = Append(q, a)
         /\ q \o (<< >> \o << a >>) = Append(q, a)
         /\ q \o (<< a >> \o << b >>) = Append(Append(q, a), b)
<1>1. q \o << a >> = Append(q, a)
  OBVIOUS
<1>2. << >> \o << a >> = << a >>
  OBVIOUS
<1>3. q \o (<< a >> \o << b >>) = Append(Append(q, a), b)
  <2>1. << a >> \in Seq(Blocks) /\ << b >> \in Seq(Blocks)
    OBVIOUS
  <2>2. q \o (<< a >> \o << b >>) = (q \o << a >>) \o << b >>
    BY <2>1, ConcatAssociative
  <2>3. PICK q1 \in Seq(Blocks) : q1 = Append(q, a)
    BY AppendFacts
  <2>4. q1 \o << b >> = Append(q1, b)
    OBVIOUS
  <2> QED BY <1>1, <2>2, <2>3, <2>4
<1> QED BY <1>1, <1>2, <1>3

\* Before the data the layout puts the view left of its first page.
LEMMA LayOutEmpty ==
  ASSUME FitInv, LayOutNewSize, count = 0
  PROVE  /\ offset' = -Grain /\ observed' = NoObservation
         /\ currentPage' = Rounded(-Grain)
         /\ mainQueue' \in Seq(Blocks)
         /\ PagesOK(mainQueue', NoObservation, 0, FALSE)
         /\ \A c : ShowsOK(mainQueue', NoObservation, FALSE, c)
         /\ \A b \in Range(mainQueue') : ~IsLate(b)
<1>1. /\ offset = 0 /\ currentPage = 0 /\ mainQueue = << >>
  BY DEF FitInv, EmptyInv, UnlaidInv, LayOutNewSize
<1>2. PICK o \in Int : o = PageOffset(currentPage, count) /\ o = -Grain /\ o # offset /\ ~(o >= 0)
  BY <1>1, PageOffsetFacts, GrainType
<1>3. PICK obs \in Observations : /\ obs = Observation(o, FALSE) /\ obs = Observation(-Grain, FALSE)
                                  /\ obs.at = o /\ ~obs.shows
  <2>1. FALSE \in BOOLEAN
    OBVIOUS
  <2>2. /\ Observation(o, FALSE) \in Observations /\ Observation(o, FALSE).at = o
        /\ Observation(o, FALSE).shows = FALSE
    BY <2>1, ObservationTypes, Zenon
  <2> QED BY <1>2, <2>2
<1>4. PICK b0, b1 \in Blocks : /\ b0 = Batch(FALSE) /\ b1 = Batch(TRUE)
                               /\ ~IsArrived(b0) /\ ~IsArrived(b1)
  <2>1. FALSE \in BOOLEAN /\ TRUE \in BOOLEAN
    OBVIOUS
  <2> QED BY <2>1, BlockTypes
<1>5. PICK a \in Blocks : a = Arrived(obs) /\ a.observation = obs
  BY BlockTypes
<1>6. /\ offset' = o /\ currentPage' = Rounded(o) /\ observed' = NoObservation
      /\ \/ mainQueue' = << >> \o << a >> \o (<< >> \o << b1 >>)
         \/ mainQueue' = << >> \o << a >> \o (<< b0 >> \o << b1 >>)
  BY <1>1, <1>2, <1>3, <1>4, <1>5 DEF LayOutNewSize
<1>7. /\ mainQueue' \in Seq(Blocks)
      /\ \A i \in DOMAIN mainQueue' : \/ i = 1 /\ mainQueue'[i] = a
                                      \/ mainQueue'[i] = b0 \/ mainQueue'[i] = b1
  <2>1. PICK q1 : q1 = Append(<< >>, a)
    OBVIOUS
  <2>2. q1 \in Seq(Blocks) /\ << >> \o << a >> = q1
    BY <2>1, EmptyQueue, ConcatFacts, AppendFacts
  <2>3. \A i \in DOMAIN q1 : i = 1 /\ q1[i] = a
    BY <2>1
  <2>4. CASE mainQueue' = << >> \o << a >> \o (<< >> \o << b1 >>)
    <3>1. mainQueue' = Append(q1, b1)
      BY <2>2, <2>4, ConcatFacts
    <3>2. /\ Append(q1, b1) \in Seq(Blocks)
          /\ \A i \in DOMAIN Append(q1, b1) :
               \/ i \in DOMAIN q1 /\ Append(q1, b1)[i] = q1[i]
               \/ i \notin DOMAIN q1 /\ Append(q1, b1)[i] = b1
      BY <2>2, AppendFacts
    <3> QED BY <2>3, <3>1, <3>2, Zenon
  <2>5. CASE mainQueue' = << >> \o << a >> \o (<< b0 >> \o << b1 >>)
    <3>1. PICK q2 : q2 = Append(q1, b0)
      OBVIOUS
    <3>2. mainQueue' = Append(q2, b1)
      BY <2>2, <2>5, <3>1, ConcatFacts
    <3>3. /\ q2 \in Seq(Blocks)
          /\ \A i \in DOMAIN q2 :
               (i \in DOMAIN q1 /\ q2[i] = q1[i]) \/ (i \notin DOMAIN q1 /\ q2[i] = b0)
      BY <2>2, <3>1, AppendFacts
    <3>4. /\ Append(q2, b1) \in Seq(Blocks)
          /\ \A i \in DOMAIN Append(q2, b1) :
               \/ i \in DOMAIN q2 /\ Append(q2, b1)[i] = q2[i]
               \/ i \notin DOMAIN q2 /\ Append(q2, b1)[i] = b1
      BY <3>3, AppendFacts
    <3> QED BY <2>3, <3>2, <3>3, <3>4, Zenon
  <2> QED BY <1>6, <2>4, <2>5
<1>8. PagesOK(mainQueue', NoObservation, 0, FALSE)
  BY <1>3, <1>4, <1>5, <1>7 DEF PagesOK
<1>9. \A i \in DOMAIN mainQueue' : ~IsShow(mainQueue'[i]) /\ ~IsLate(mainQueue'[i])
  BY <1>2, <1>3, <1>4, <1>5, <1>7 DEF IsShow, IsLate
<1>10. \A c : ShowsOK(mainQueue', NoObservation, FALSE, c)
  BY <1>9, ObservationTypes DEF ShowsOK
<1>11. \A b \in Range(mainQueue') : ~IsLate(b)
  BY <1>9 DEF Range
<1> QED BY <1>2, <1>6, <1>7, <1>8, <1>10, <1>11

\* With data it leaves the view at its first page.
LEMMA LayOutFull ==
  ASSUME FitInv, LayOutNewSize, count # 0
  PROVE  /\ offset = 0 /\ offset' = 0 /\ currentPage' = 0
         /\ mainQueue' \in Seq(Blocks) /\ observed' \in Observations
         /\ PagesOK(mainQueue', observed', count, isViewShowedFirstly)
         /\ ShowsOK(mainQueue', observed', isViewShowedFirstly, currentCellIndex)
         /\ ~observed'.shows /\ (observed'.at >= 0 => observed'.at = 0)
         /\ \E b \in Range(mainQueue') : IsNudge(b)
         /\ AllAtFirst(mainQueue')
<1>1. /\ offset = 0 /\ currentPage = 0 /\ AllAtFirst(mainQueue)
      /\ mainQueue \in Seq(Blocks) /\ count \in Nat \ {0}
      /\ PagesOK(mainQueue, observed, count, isViewShowedFirstly)
      /\ ShowsOK(mainQueue, observed, isViewShowedFirstly, currentCellIndex)
  BY DetailsAssumption DEF FitInv, UnlaidInv, QueueInv, DTypeOK, LayOutNewSize
<1>2. PageOffset(currentPage, count) = 0
  BY <1>1, PageOffsetFacts
<1>3. PICK obs \in Observations : obs = Observation(0, FALSE) /\ obs.at = 0 /\ ~obs.shows
  <2>1. 0 \in Int /\ FALSE \in BOOLEAN
    OBVIOUS
  <2>2. /\ Observation(0, FALSE) \in Observations /\ Observation(0, FALSE).at = 0
        /\ Observation(0, FALSE).shows = FALSE
    BY <2>1, ObservationTypes, Zenon
  <2> QED BY <2>2
<1>4. PICK b1 \in Blocks : b1 = Batch(TRUE) /\ ~IsArrived(b1) /\ IsNudge(b1)
  <2>1. TRUE \in BOOLEAN
    OBVIOUS
  <2> QED BY <2>1, BlockTypes
<1>5. PICK a \in Blocks : a = Arrived(obs) /\ a.observation = obs
  BY BlockTypes
<1>6. /\ offset' = 0 /\ currentPage' = 0
      /\ \/ observed' = NoObservation /\ mainQueue' = (mainQueue \o << a >>) \o (<< >> \o << b1 >>)
         \/ observed' = obs /\ mainQueue' = mainQueue \o (<< >> \o << b1 >>)
  BY <1>1, <1>2, <1>3, <1>4, <1>5 DEF LayOutNewSize
<1>7. IsPage(0, count)
  <2>1. 0 \in Nat /\ count \in Nat /\ 0 < count /\ 0 * Grain = 0
    BY <1>1, GrainType
  <2> QED BY <2>1, PageFacts
<1>8. /\ PagesOK(mainQueue, obs, count, isViewShowedFirstly)
      /\ ShowsOK(mainQueue, obs, isViewShowedFirstly, currentCellIndex)
  BY <1>1, <1>3, <1>7 DEF PagesOK, ShowsOK
<1>9. PICK q1 : q1 = Append(mainQueue, a)
  OBVIOUS
<1>10. /\ q1 \in Seq(Blocks) /\ Range(q1) = Range(mainQueue) \cup {a}
       /\ PagesOK(q1, NoObservation, count, isViewShowedFirstly)
       /\ ShowsOK(q1, NoObservation, isViewShowedFirstly, currentCellIndex)
  <2>1. q1 \in Seq(Blocks) /\ Range(q1) = Range(mainQueue) \cup {a}
    BY <1>1, <1>9, AppendFacts
  <2>2. /\ PagesOK(Append(mainQueue, Arrived(obs)), NoObservation, count, isViewShowedFirstly)
        /\ ShowsOK(Append(mainQueue, Arrived(obs)), NoObservation, isViewShowedFirstly,
                   currentCellIndex)
    BY <1>1, <1>3, <1>7, <1>8, QueueArrived
  <2> QED BY <1>5, <1>9, <2>1, <2>2
<1>11. TRUE \in BOOLEAN
  OBVIOUS
<1>12. CASE observed' = obs /\ mainQueue' = mainQueue \o (<< >> \o << b1 >>)
  <2>1. mainQueue' = Append(mainQueue, b1)
    BY <1>1, <1>12, ConcatFacts
  <2>2. mainQueue' \in Seq(Blocks) /\ Range(mainQueue') = Range(mainQueue) \cup {b1}
    BY <1>1, <2>1, AppendFacts
  <2>3. /\ PagesOK(mainQueue', observed', count, isViewShowedFirstly)
        /\ ShowsOK(mainQueue', observed', isViewShowedFirstly, currentCellIndex)
    BY <1>1, <1>4, <1>8, <1>11, <1>12, <2>1, QueueBatch
  <2>4. AllAtFirst(mainQueue') /\ \E b \in Range(mainQueue') : IsNudge(b)
    BY <1>1, <1>4, <2>2 DEF AllAtFirst
  <2> QED BY <1>1, <1>3, <1>6, <1>12, <2>2, <2>3, <2>4
<1>13. CASE observed' = NoObservation
            /\ mainQueue' = (mainQueue \o << a >>) \o (<< >> \o << b1 >>)
  <2>1. mainQueue' = Append(q1, b1)
    <3>1. mainQueue \o << a >> = q1
      BY <1>1, <1>9, ConcatFacts
    <3>2. q1 \o (<< >> \o << b1 >>) = Append(q1, b1)
      BY <1>10, ConcatFacts
    <3> QED BY <1>13, <3>1, <3>2
  <2>2. mainQueue' \in Seq(Blocks) /\ Range(mainQueue') = Range(q1) \cup {b1}
    BY <1>10, <2>1, AppendFacts
  <2>3. /\ PagesOK(mainQueue', observed', count, isViewShowedFirstly)
        /\ ShowsOK(mainQueue', observed', isViewShowedFirstly, currentCellIndex)
    BY <1>4, <1>10, <1>11, <1>13, <2>1, QueueBatch
  <2>4. AllAtFirst(mainQueue') /\ \E b \in Range(mainQueue') : IsNudge(b)
    BY <1>1, <1>3, <1>4, <1>5, <1>10, <2>2 DEF AllAtFirst
  <2>5. observed' \in Observations /\ ~observed'.shows /\ ~(observed'.at >= 0)
    BY <1>13, ObservationTypes, GrainType
  <2> QED BY <1>1, <1>6, <2>2, <2>3, <2>4, <2>5
<1> QED BY <1>6, <1>12, <1>13

LEMMA LayOutNewPreserves ==
  ASSUME FitInv, LayOutNewSize
  PROVE  FitInv'
<1>1. /\ ~laidOut /\ laidOut' = TRUE /\ isAnimating' = FALSE /\ mode' = "rest"
      /\ UNCHANGED <<target, interaction>>
      /\ UNCHANGED <<loaded, crashed, count, currentCellIndex, previousCellIndex,
                     isViewShowedFirstly, fading, text, overlapped>>
  BY DEF LayOutNewSize, screenVars
<1>2. DTypeOK /\ EmptyInv /\ UnlaidInv /\ MovingInv /\ ShownInv /\ QueueInv
  BY DEF FitInv
<1>3. count \in 0 .. MaxEntries /\ Grain \in Nat \ {0} /\ MaxEntries \in Nat
  BY <1>2, DetailsAssumption DEF DTypeOK
<1>4. UnlaidInv' /\ MovingInv'
  BY <1>1 DEF UnlaidInv, MovingInv
<1>5. ASSUME offset' \in -Grain .. MaxEntries * Grain, currentPage' \in -1 .. MaxEntries,
             mainQueue' \in Seq(Blocks), observed' \in Observations,
             PagesOK(mainQueue', observed', count, isViewShowedFirstly)
      PROVE  DTypeOK'
  <2>1. observed' \in [at : -2 * Grain .. MaxEntries * Grain, shows : BOOLEAN]
    BY <1>3, <1>5, ObservedRange
  <2>2. \A i \in DOMAIN mainQueue' : mainQueue'[i].block \in {"arrived", "batch"}
    BY <1>5, BlocksTyped
  <2>3. mode' \in {"rest", "animated", "drag", "settle"} /\ laidOut' \in BOOLEAN
        /\ isAnimating' \in BOOLEAN
    BY <1>1
  <2> QED BY <1>1, <1>2, <1>5, <2>1, <2>2, <2>3 DEF DTypeOK
<1>6. CASE count = 0
  <2>1. isViewShowedFirstly = FALSE
    BY <1>2, <1>6 DEF EmptyInv, DTypeOK
  <2>2. /\ offset' = -Grain /\ observed' = NoObservation /\ currentPage' = Rounded(-Grain)
        /\ mainQueue' \in Seq(Blocks)
        /\ PagesOK(mainQueue', NoObservation, 0, FALSE)
        /\ \A c : ShowsOK(mainQueue', NoObservation, FALSE, c)
        /\ \A b \in Range(mainQueue') : ~IsLate(b)
    BY <1>6, LayOutEmpty
  <2>3. /\ NoObservation \in Observations /\ ~(NoObservation.at >= 0)
    BY ObservationTypes, GrainType
  <2>4. QueueInv'
    BY <1>1, <1>6, <2>1, <2>2, <2>3 DEF QueueInv
  <2>5. DTypeOK'
    <3>1. -Grain \in -Grain .. MaxEntries * Grain /\ -Grain \in Int /\ -Grain <= MaxEntries * Grain
      <4>1. MaxEntries * Grain \in Nat
        BY <1>3
      <4> QED BY <1>3, <4>1
    <3>2. Rounded(-Grain) \in -1 .. MaxEntries
      BY <1>3, <3>1, RoundedRange
    <3> QED BY <1>5, <1>6, <2>1, <2>2, <2>3, <3>1, <3>2
  <2>6. EmptyInv'
    BY <1>1, <1>2, <2>1, <2>2 DEF EmptyInv
  <2>7. ShownInv'
    BY <1>1, <1>2, <2>1 DEF ShownInv
  <2>8. LateInv'
    BY <2>2, <2>3 DEF LateInv
  <2>9. FadingInv' /\ TextInv' /\ PageInv'
    BY <1>1, <2>1, <2>2 DEF FadingInv, TextInv, PageInv
  <2> QED BY <1>4, <2>4, <2>5, <2>6, <2>7, <2>8, <2>9 DEF FitInv
<1>7. CASE count # 0
  <2>1. /\ offset = 0 /\ offset' = 0 /\ currentPage' = 0
        /\ mainQueue' \in Seq(Blocks) /\ observed' \in Observations
        /\ PagesOK(mainQueue', observed', count, isViewShowedFirstly)
        /\ ShowsOK(mainQueue', observed', isViewShowedFirstly, currentCellIndex)
        /\ ~observed'.shows /\ (observed'.at >= 0 => observed'.at = 0)
        /\ \E b \in Range(mainQueue') : IsNudge(b)
        /\ AllAtFirst(mainQueue')
    BY <1>7, LayOutFull
  <2>2. QueueInv'
    BY <1>1, <2>1 DEF QueueInv
  <2>3. DTypeOK'
    <3>1. 0 \in -Grain .. MaxEntries * Grain /\ 0 \in -1 .. MaxEntries
      <4>1. MaxEntries * Grain \in Nat
        BY <1>3
      <4> QED BY <1>3, <4>1
    <3> QED BY <1>5, <2>1, <3>1
  <2>4. EmptyInv'
    BY <1>1, <1>2, <1>7 DEF EmptyInv
  <2>5. isViewShowedFirstly => mode = "rest"
    <3>1. mode = "animated" => observed.shows
      <4>1. target \in Int
        BY <1>2, <1>3 DEF DTypeOK
      <4> QED BY <1>2, <4>1, ObservationTypes DEF MovingInv
    <3>2. isViewShowedFirstly => ~observed.shows
      BY <1>2 DEF QueueInv, ShowsOK
    <3> QED BY <1>1, <1>2, <3>1, <3>2 DEF UnlaidInv
  <2>6. ShownInv'
    BY <1>1, <1>2, <2>1, <2>5 DEF ShownInv
  <2>7. LateInv'
    BY <1>1, <2>1 DEF LateInv
  <2>8. FadingInv' /\ TextInv'
    BY <1>1, <2>1 DEF FitInv, FadingInv, TextInv
  <2>9. PageInv'
    BY <2>1, RoundedZero DEF PageInv
  <2> QED BY <1>4, <2>2, <2>3, <2>4, <2>6, <2>7, <2>8, <2>9 DEF FitInv
<1> QED BY <1>6, <1>7

-----------------------------------------------------------------------------
(* A carousel without the selected book *)

\* safelySetCurrentPage never asks for more than a page before the first.
LEMMA PageOffsetRange ==
  ASSUME NEW p \in Int, NEW n \in 0 .. MaxEntries
  PROVE  PageOffset(p, n) \in -Grain .. MaxEntries * Grain
<1>1. MaxEntries \in Nat /\ Grain \in Nat /\ n \in Nat /\ n - 1 \in Int
  BY DetailsAssumption
<1>2. (n - 1) * Grain = n * Grain - Grain /\ n * Grain \in Nat
  BY <1>1
<1>3. n * Grain <= MaxEntries * Grain /\ MaxEntries * Grain \in Int
  BY <1>1, KeepFactor
<1>4. p < 0 \/ p * Grain \in Nat
  BY <1>1
<1>5. PICK m \in Int : m = (n - 1) * Grain /\ -Grain <= m /\ m <= MaxEntries * Grain
  BY <1>1, <1>2, <1>3
<1>6. PICK o \in Nat : o = IF p < 0 THEN 0 ELSE p * Grain
  BY <1>4
<1>7. PageOffset(p, n) = IF o > m THEN m ELSE o
  BY <1>5, <1>6 DEF PageOffset
<1> QED BY <1>1, <1>3, <1>5, <1>6, <1>7

\* The observer, whoever waits.
LEMMA NotifyInRange ==
  ASSUME NEW q \in Seq(Blocks), ArrivedInRange(q), NEW obs \in Observations,
         obs \in [at : -2 * Grain .. MaxEntries * Grain, shows : BOOLEAN],
         NEW o \in -Grain .. MaxEntries * Grain, Notify(obs, o, q)
  PROVE  /\ mainQueue' \in Seq(Blocks) /\ observed' \in Observations
         /\ observed' \in [at : -2 * Grain .. MaxEntries * Grain, shows : BOOLEAN]
         /\ ArrivedInRange(mainQueue') /\ Range(q) \subseteq Range(mainQueue')
<1>1. CASE obs.at # o
  <2>1. observed' = obs /\ mainQueue' = q
    BY <1>1 DEF Notify
  <2> QED BY <2>1
<1>2. CASE obs.at = o
  <2>1. observed' = NoObservation /\ mainQueue' = Append(q, Arrived(obs))
    BY <1>2 DEF Notify
  <2>2. PICK a \in Blocks : a = Arrived(obs) /\ a.observation = obs
    BY BlockTypes
  <2>3. Append(q, a) \in Seq(Blocks) /\ Range(Append(q, a)) = Range(q) \cup {a}
    BY AppendFacts
  <2>4. a.observation.at \in -Grain .. MaxEntries * Grain
    BY <1>2, <2>2
  <2>5. ArrivedInRange(Append(q, a))
    BY <2>3, <2>4 DEF ArrivedInRange
  <2>6. NoObservation \in Observations
        /\ NoObservation \in [at : -2 * Grain .. MaxEntries * Grain, shows : BOOLEAN]
    <3>1. -2 * Grain \in -2 * Grain .. MaxEntries * Grain
      <4>1. MaxEntries * Grain \in Nat
        BY DetailsAssumption
      <4> QED BY <4>1, GrainType
    <3> QED BY <3>1, ObservationTypes DEF Observations, NoObservation, Observation
  <2> QED BY <2>1, <2>2, <2>3, <2>5, <2>6
<1> QED BY <1>1, <1>2

\* What MissingInv says of the screen stays when the step leaves the screen alone, apart
\* from the crash.
LEMMA MissingStays ==
  ASSUME MissingInv,
         UNCHANGED <<target, interaction, loaded, count, currentCellIndex, previousCellIndex,
                     isViewShowedFirstly, fading, text, overlapped>>,
         crashed' \in BOOLEAN, laidOut' \in BOOLEAN, isAnimating' \in BOOLEAN,
         mode' \in {"rest", "animated"}, offset' \in -Grain .. MaxEntries * Grain,
         currentPage' \in -1 .. MaxEntries, mainQueue' \in Seq(Blocks),
         observed' \in Observations,
         observed' \in [at : -2 * Grain .. MaxEntries * Grain, shows : BOOLEAN],
         ArrivedInRange(mainQueue'), PageInv'
  PROVE  MissingInv'
<1>1. \A i \in DOMAIN mainQueue' : mainQueue'[i].block \in {"arrived", "batch"}
  BY BlocksTyped
<1>2. DTypeOK /\ interaction = FALSE /\ isViewShowedFirstly = FALSE
  BY DEF MissingInv, DTypeOK
<1>3. DTypeOK'
  BY <1>1, <1>2 DEF DTypeOK
<1>4. /\ loaded' /\ currentCellIndex' >= count' /\ \A b \in Books : fading'[b] = 0
      /\ ~isViewShowedFirstly' /\ ~interaction'
  BY <1>2 DEF MissingInv
<1> QED BY <1>3, <1>4 DEF MissingInv

\* The page an update sets is on the screen, or that update is not the last.
LEMMA MissingPage ==
  ASSUME MissingInv, NEW o \in -Grain .. MaxEntries * Grain
  PROVE  Rounded(o) \in -1 .. MaxEntries /\ PageAt(o, isAnimating) \in -1 .. MaxEntries
<1>1. o \in Int /\ -Grain <= o /\ o <= MaxEntries * Grain /\ MaxEntries \in Nat
  BY DetailsAssumption
<1>2. Rounded(o) \in -1 .. MaxEntries
  BY <1>1, RoundedRange
<1> QED BY <1>2 DEF PageAt, MissingInv, DTypeOK

\* One more update keeps the blocks in range.
LEMMA BatchInRange ==
  ASSUME NEW q \in Seq(Blocks), ArrivedInRange(q), NEW nudge \in BOOLEAN
  PROVE  /\ Append(q, Batch(nudge)) \in Seq(Blocks) /\ ArrivedInRange(Append(q, Batch(nudge)))
         /\ \E b \in Range(Append(q, Batch(nudge))) : b.block = "batch"
<1>1. PICK b \in Blocks : b = Batch(nudge) /\ ~IsArrived(b) /\ b.block = "batch"
  BY BlockTypes
<1>2. Append(q, b) \in Seq(Blocks) /\ Range(Append(q, b)) = Range(q) \cup {b}
  BY AppendFacts
<1>3. ArrivedInRange(Append(q, b)) /\ b \in Range(Append(q, b))
  BY <1>1, <1>2 DEF ArrivedInRange
<1> QED BY <1>1, <1>2, <1>3

\* An arrived block keeps them so, if its offset is in range.
LEMMA ArrivedAppended ==
  ASSUME NEW q \in Seq(Blocks), ArrivedInRange(q), NEW obs \in Observations,
         obs.at \in -Grain .. MaxEntries * Grain
  PROVE  Append(q, Arrived(obs)) \in Seq(Blocks) /\ ArrivedInRange(Append(q, Arrived(obs)))
<1>1. PICK a \in Blocks : a = Arrived(obs) /\ a.observation = obs
  BY BlockTypes
<1>2. Append(q, a) \in Seq(Blocks) /\ Range(Append(q, a)) = Range(q) \cup {a}
  BY AppendFacts
<1>3. ArrivedInRange(Append(q, a))
  BY <1>1, <1>2 DEF ArrivedInRange
<1> QED BY <1>1, <1>2, <1>3

LEMMA ObservationInRange ==
  ASSUME NEW o \in -Grain .. MaxEntries * Grain, NEW shows \in BOOLEAN
  PROVE  /\ Observation(o, shows) \in Observations /\ Observation(o, shows).at = o
         /\ Observation(o, shows) \in [at : -2 * Grain .. MaxEntries * Grain, shows : BOOLEAN]
         /\ NoObservation \in Observations
         /\ NoObservation \in [at : -2 * Grain .. MaxEntries * Grain, shows : BOOLEAN]
<1>1. MaxEntries * Grain \in Nat /\ Grain \in Nat
  BY DetailsAssumption
<1>2. o \in Int /\ o \in -2 * Grain .. MaxEntries * Grain
      /\ -2 * Grain \in -2 * Grain .. MaxEntries * Grain
  BY <1>1
<1> QED BY <1>2, ObservationTypes DEF Observations, NoObservation, Observation

\* The data: showSelectedPage is called all the same.
LEMMA DataMissing ==
  ASSUME FitInv, DataArrives, ~(currentCellIndex < count')
  PROVE  MissingInv'
<1>1. /\ ~loaded /\ count' \in 0 .. MaxEntries /\ loaded' = TRUE
      /\ interaction' = FALSE /\ isAnimating' = TRUE
      /\ target' = PageOffset(currentCellIndex, count')
      /\ UNCHANGED <<laidOut, offset, currentPage, crashed, currentCellIndex, previousCellIndex,
                     isViewShowedFirstly, fading, text, overlapped>>
  BY DEF DataArrives
<1>2. /\ DTypeOK /\ EmptyInv /\ ShownInv /\ mainQueue \in Seq(Blocks)
      /\ PagesOK(mainQueue, observed, count, isViewShowedFirstly)
  BY DEF FitInv, QueueInv
<1>3. count = 0 /\ ~isViewShowedFirstly
  BY <1>1, <1>2 DEF EmptyInv
<1>4. currentCellIndex \in Int
  BY <1>2, DetailsAssumption DEF DTypeOK, Books
<1>5. PICK t \in -Grain .. MaxEntries * Grain : t = target'
  BY <1>1, <1>4, PageOffsetRange
<1>6. PICK obs : obs = Observation(t, TRUE)
  OBVIOUS
<1>7. /\ obs \in Observations /\ obs.at = t
      /\ obs \in [at : -2 * Grain .. MaxEntries * Grain, shows : BOOLEAN]
      /\ NoObservation \in Observations
      /\ NoObservation \in [at : -2 * Grain .. MaxEntries * Grain, shows : BOOLEAN]
  <2>1. TRUE \in BOOLEAN
    OBVIOUS
  <2> QED BY <1>6, <2>1, ObservationInRange
<1>8. ArrivedInRange(mainQueue)
  <2>1. \A o : ~IsPage(o, 0)
    BY DEF IsPage
  <2>2. FALSE \in BOOLEAN /\ -Grain \in -Grain .. MaxEntries * Grain
    <3>1. MaxEntries * Grain \in Nat
      BY DetailsAssumption
    <3> QED BY <3>1, GrainType
  <2>3. Observation(-Grain, FALSE).at \in -Grain .. MaxEntries * Grain
    BY <2>2, ObservationInRange
  <2>4. \A i \in DOMAIN mainQueue :
          IsArrived(mainQueue[i]) => mainQueue[i].observation.at \in -Grain .. MaxEntries * Grain
    BY <1>2, <1>3, <2>1, <2>3 DEF PagesOK
  <2> QED BY <2>4 DEF ArrivedInRange, Range
<1>9. /\ mode' \in {"rest", "animated"}
      /\ \/ observed' = obs /\ mainQueue' = mainQueue
         \/ observed' = NoObservation /\ mainQueue' = Append(mainQueue, Arrived(obs))
  BY <1>5, <1>6 DEF DataArrives, Notify
<1>10. /\ mainQueue' \in Seq(Blocks) /\ ArrivedInRange(mainQueue') /\ observed' \in Observations
       /\ observed' \in [at : -2 * Grain .. MaxEntries * Grain, shows : BOOLEAN]
  <2>1. /\ Append(mainQueue, Arrived(obs)) \in Seq(Blocks)
        /\ ArrivedInRange(Append(mainQueue, Arrived(obs)))
    BY <1>2, <1>7, <1>8, ArrivedAppended
  <2>2. CASE observed' = obs /\ mainQueue' = mainQueue
    BY <1>2, <1>7, <1>8, <2>2
  <2>3. CASE observed' = NoObservation /\ mainQueue' = Append(mainQueue, Arrived(obs))
    BY <1>7, <2>1, <2>3
  <2> QED BY <1>9, <2>2, <2>3
<1>11. DTypeOK'
  <2>1. \A i \in DOMAIN mainQueue' : mainQueue'[i].block \in {"arrived", "batch"}
    BY <1>10, BlocksTyped
  <2>2. interaction' \in BOOLEAN /\ isAnimating' \in BOOLEAN /\ loaded' \in BOOLEAN
        /\ mode' \in {"rest", "animated", "drag", "settle"}
    BY <1>1, <1>9
  <2> QED BY <1>1, <1>2, <1>5, <1>10, <2>1, <2>2 DEF DTypeOK
<1>12. PageInv'
  BY <1>1 DEF PageInv
<1>13. \A b \in Books : fading'[b] = 0
  BY <1>1, <1>2, <1>3 DEF ShownInv
<1>14. currentCellIndex' >= count'
  <2>1. count' \in Int
    BY <1>1
  <2> QED BY <1>1, <1>4, <2>1
<1>15. ~isViewShowedFirstly' /\ ~interaction' /\ loaded'
  BY <1>1, <1>3
<1> QED BY <1>9, <1>10, <1>11, <1>12, <1>13, <1>14, <1>15 DEF MissingInv

LEMMA MissingArrived ==
  ASSUME MissingInv, ArrivedBlock
  PROVE  MissingInv'
<1>1. PICK obs, s, q0 : /\ obs = Head(mainQueue).observation /\ s = Tail(mainQueue)
                        /\ q0 = Append(s, Batch(FALSE))
  OBVIOUS
<1>2. /\ mainQueue # << >> /\ Head(mainQueue).block = "arrived" /\ offset' = obs.at
      /\ \/ Notify(observed, obs.at, q0) /\ currentPage' = PageAt(obs.at, isAnimating)
         \/ mainQueue' = q0 /\ UNCHANGED <<observed, currentPage>>
      /\ IF obs.shows
         THEN completion
         ELSE scrollViewDidScroll(obs.at) /\ UNCHANGED <<isViewShowedFirstly, interaction>>
      /\ mode' = IF mode = "drag" THEN "drag" ELSE "rest"
      /\ isAnimating' = FALSE
      /\ UNCHANGED <<laidOut, target, loaded, count, text>>
  BY <1>1 DEF ArrivedBlock, AfterArrival
<1>3. /\ DTypeOK /\ mainQueue \in Seq(Blocks) /\ ArrivedInRange(mainQueue)
      /\ observed \in Observations /\ ~isViewShowedFirstly /\ currentCellIndex >= count
      /\ mode \in {"rest", "animated"}
  BY DEF MissingInv
<1>4. /\ s \in Seq(Blocks) /\ Head(mainQueue) \in Range(mainQueue)
      /\ Range(s) \subseteq Range(mainQueue)
  BY <1>1, <1>2, <1>3, TailFacts
<1>5. obs.at \in -Grain .. MaxEntries * Grain
  BY <1>1, <1>2, <1>3, <1>4 DEF ArrivedInRange, IsArrived
<1>6. /\ q0 \in Seq(Blocks) /\ ArrivedInRange(q0) /\ \E b \in Range(q0) : b.block = "batch"
  <2>1. ArrivedInRange(s) /\ FALSE \in BOOLEAN
    BY <1>3, <1>4 DEF ArrivedInRange
  <2> QED BY <1>1, <1>4, <2>1, BatchInRange
<1>7. /\ observed \in [at : -2 * Grain .. MaxEntries * Grain, shows : BOOLEAN]
      /\ currentPage \in -1 .. MaxEntries /\ laidOut \in BOOLEAN
  BY <1>3 DEF DTypeOK
<1>8. /\ mainQueue' \in Seq(Blocks) /\ observed' \in Observations
      /\ observed' \in [at : -2 * Grain .. MaxEntries * Grain, shows : BOOLEAN]
      /\ ArrivedInRange(mainQueue') /\ Range(q0) \subseteq Range(mainQueue')
  <2>1. CASE Notify(observed, obs.at, q0)
    BY <1>3, <1>5, <1>6, <1>7, <2>1, NotifyInRange
  <2>2. CASE mainQueue' = q0 /\ observed' = observed
    BY <1>3, <1>6, <1>7, <2>2
  <2> QED BY <1>2, <2>1, <2>2
<1>9. currentPage' \in -1 .. MaxEntries
  <2>1. PageAt(obs.at, isAnimating) \in -1 .. MaxEntries
    BY <1>5, MissingPage
  <2> QED BY <1>2, <1>7, <2>1
<1>10. PageInv'
  BY <1>6, <1>8 DEF PageInv
<1>11. /\ UNCHANGED <<currentCellIndex, previousCellIndex, isViewShowedFirstly, interaction,
                      fading, overlapped>>
       /\ crashed' \in BOOLEAN
  <2>1. CASE obs.shows
    <3>1. ~Exists(currentCellIndex)
      BY <1>3, DetailsAssumption DEF Exists, DTypeOK, Books
    <3>2. TRUE \in BOOLEAN
      OBVIOUS
    <3> QED BY <1>2, <2>1, <3>1, <3>2 DEF completion
  <2>2. CASE ~obs.shows
    <3>1. UNCHANGED <<currentCellIndex, previousCellIndex, fading, overlapped, crashed>>
      BY <1>2, <1>3, <2>2, ScrollUnshown
    <3> QED BY <1>2, <1>3, <2>2, <3>1 DEF DTypeOK
  <2> QED BY <2>1, <2>2
<1>12. mode' \in {"rest", "animated"} /\ laidOut' \in BOOLEAN /\ isAnimating' \in BOOLEAN
  BY <1>2, <1>3, <1>7
<1>13. offset' \in -Grain .. MaxEntries * Grain
  BY <1>2, <1>5
<1>14. UNCHANGED <<target, interaction, loaded, count, currentCellIndex, previousCellIndex,
                   isViewShowedFirstly, fading, text, overlapped>>
  BY <1>2, <1>11
<1> QED BY <1>8, <1>9, <1>10, <1>11, <1>12, <1>13, <1>14, MissingStays

LEMMA MissingBatch ==
  ASSUME MissingInv, BatchBlock
  PROVE  MissingInv'
<1>1. PICK s : s = Tail(mainQueue)
  OBVIOUS
<1>2. /\ mainQueue # << >>
      /\ Notify(observed, offset, s) \/ (mainQueue' = s /\ observed' = observed)
      /\ currentPage' = PageAt(offset, isAnimating)
  BY <1>1 DEF BatchBlock
<1>3. /\ UNCHANGED <<laidOut, offset, mode, target, interaction, isAnimating>>
      /\ UNCHANGED <<loaded, crashed, count, currentCellIndex, previousCellIndex,
                     isViewShowedFirstly, fading, text, overlapped>>
  BY DEF BatchBlock, screenVars
<1>4. /\ DTypeOK /\ mainQueue \in Seq(Blocks) /\ ArrivedInRange(mainQueue)
      /\ observed \in Observations /\ mode \in {"rest", "animated"}
  BY DEF MissingInv
<1>5. s \in Seq(Blocks) /\ Range(s) \subseteq Range(mainQueue)
  BY <1>1, <1>2, <1>4, TailFacts
<1>6. ArrivedInRange(s)
  BY <1>4, <1>5 DEF ArrivedInRange
<1>7. /\ observed \in [at : -2 * Grain .. MaxEntries * Grain, shows : BOOLEAN]
      /\ offset \in -Grain .. MaxEntries * Grain
      /\ crashed \in BOOLEAN /\ laidOut \in BOOLEAN /\ isAnimating \in BOOLEAN
  BY <1>4 DEF DTypeOK
<1>8. /\ mainQueue' \in Seq(Blocks) /\ observed' \in Observations
      /\ observed' \in [at : -2 * Grain .. MaxEntries * Grain, shows : BOOLEAN]
      /\ ArrivedInRange(mainQueue')
  <2>1. CASE Notify(observed, offset, s)
    BY <1>4, <1>5, <1>6, <1>7, <2>1, NotifyInRange
  <2>2. CASE mainQueue' = s /\ observed' = observed
    BY <1>4, <1>5, <1>6, <1>7, <2>2
  <2> QED BY <1>2, <2>1, <2>2
<1>9. currentPage' \in -1 .. MaxEntries
  BY <1>2, <1>7, MissingPage
<1>10. PageInv'
  BY <1>2, <1>3 DEF PageInv, PageAt
<1> QED BY <1>3, <1>4, <1>7, <1>8, <1>9, <1>10, MissingStays

LEMMA MissingFrame ==
  ASSUME MissingInv, NEW d \in 1 .. Grain, Frame(d)
  PROVE  MissingInv'
<1> DEFINE x == IF offset < target
                THEN IF offset + d > target THEN target ELSE offset + d
                ELSE IF offset - d < target THEN target ELSE offset - d
<1>1. /\ Move(x, mainQueue) /\ mode' = IF x = target THEN "rest" ELSE mode
      /\ UNCHANGED <<laidOut, target, interaction, isAnimating, loaded, count,
                     isViewShowedFirstly, text>>
  BY DEF Frame
<1>2. /\ DTypeOK /\ mainQueue \in Seq(Blocks) /\ ArrivedInRange(mainQueue)
      /\ observed \in Observations /\ ~isViewShowedFirstly /\ mode \in {"rest", "animated"}
  BY DEF MissingInv
<1>3. /\ offset \in -Grain .. MaxEntries * Grain /\ target \in -Grain .. MaxEntries * Grain
      /\ observed \in [at : -2 * Grain .. MaxEntries * Grain, shows : BOOLEAN]
      /\ crashed \in BOOLEAN /\ laidOut \in BOOLEAN /\ isAnimating \in BOOLEAN
  BY <1>2 DEF DTypeOK
<1>4. x \in -Grain .. MaxEntries * Grain
  <2>1. MaxEntries * Grain \in Int /\ Grain \in Nat /\ -Grain \in Int
    BY DetailsAssumption
  <2> QED BY <1>3, <2>1
<1> HIDE DEF x
<1>5. /\ offset' = x /\ Notify(observed, x, mainQueue)
      /\ currentPage' = PageAt(x, isAnimating) /\ scrollViewDidScroll(x)
  BY <1>1 DEF Move
<1>6. /\ mainQueue' \in Seq(Blocks) /\ observed' \in Observations
      /\ observed' \in [at : -2 * Grain .. MaxEntries * Grain, shows : BOOLEAN]
      /\ ArrivedInRange(mainQueue')
  BY <1>2, <1>3, <1>4, <1>5, NotifyInRange
<1>7. UNCHANGED <<currentCellIndex, previousCellIndex, fading, overlapped, crashed>>
  BY <1>2, <1>5, ScrollUnshown
<1>8. currentPage' \in -1 .. MaxEntries
  BY <1>4, <1>5, MissingPage
<1>9. PageInv'
  BY <1>1, <1>5 DEF PageInv, PageAt
<1>10. mode' \in {"rest", "animated"} /\ offset' \in -Grain .. MaxEntries * Grain
  BY <1>1, <1>2, <1>4, <1>5
<1>11. UNCHANGED <<target, interaction, loaded, count, currentCellIndex, previousCellIndex,
                   isViewShowedFirstly, fading, text, overlapped>>
  BY <1>1, <1>7
<1>12. crashed' \in BOOLEAN /\ laidOut' \in BOOLEAN /\ isAnimating' \in BOOLEAN
  BY <1>1, <1>3, <1>7
<1> QED BY <1>6, <1>8, <1>9, <1>10, <1>11, <1>12, MissingStays

LEMMA MissingLayOut ==
  ASSUME MissingInv, LayOutSameSize \/ LayOutNewSize
  PROVE  MissingInv'
<1>1. /\ DTypeOK /\ mainQueue \in Seq(Blocks) /\ ArrivedInRange(mainQueue)
      /\ observed \in Observations /\ mode \in {"rest", "animated"}
  BY DEF MissingInv
<1>2. /\ offset \in -Grain .. MaxEntries * Grain /\ currentPage \in -1 .. MaxEntries
      /\ observed \in [at : -2 * Grain .. MaxEntries * Grain, shows : BOOLEAN]
      /\ crashed \in BOOLEAN /\ isAnimating \in BOOLEAN /\ count \in 0 .. MaxEntries
  BY <1>1 DEF DTypeOK
<1>3. TRUE \in BOOLEAN /\ FALSE \in BOOLEAN
  OBVIOUS
<1>4. CASE LayOutSameSize
  <2>1. /\ laidOut' = TRUE /\ mainQueue' = Append(mainQueue, Batch(TRUE))
        /\ UNCHANGED <<offset, mode, target, interaction>>
        /\ UNCHANGED <<currentPage, isAnimating, observed>>
        /\ UNCHANGED <<loaded, crashed, count, currentCellIndex, previousCellIndex,
                       isViewShowedFirstly, fading, text, overlapped>>
    BY <1>4 DEF LayOutSameSize, layoutVars, screenVars
  <2>2. /\ mainQueue' \in Seq(Blocks) /\ ArrivedInRange(mainQueue')
        /\ \E b \in Range(mainQueue') : b.block = "batch"
    BY <1>1, <1>3, <2>1, BatchInRange
  <2>3. PageInv'
    BY <2>2 DEF PageInv
  <2> QED BY <1>1, <1>2, <1>3, <2>1, <2>2, <2>3, MissingStays
<1>5. CASE LayOutNewSize
  <2>1. PICK o \in -Grain .. MaxEntries * Grain : o = PageOffset(currentPage, count)
    <3>1. currentPage \in Int
      BY <1>2, DetailsAssumption
    <3> QED BY <1>2, <3>1, PageOffsetRange
  <2>2. PICK obs : obs = Observation(o, FALSE)
    OBVIOUS
  <2>3. /\ obs \in Observations /\ obs.at = o
        /\ obs \in [at : -2 * Grain .. MaxEntries * Grain, shows : BOOLEAN]
        /\ NoObservation \in Observations
        /\ NoObservation \in [at : -2 * Grain .. MaxEntries * Grain, shows : BOOLEAN]
    BY <1>3, <2>1, <2>2, ObservationInRange
  <2>4. PICK a, b0, b1 \in Blocks : a = Arrived(obs) /\ b0 = Batch(FALSE) /\ b1 = Batch(TRUE)
    BY <1>3, <2>3, BlockTypes
  <2>5. PICK q1 \in Seq(Blocks) : q1 = Append(mainQueue, a) /\ ArrivedInRange(q1)
    BY <1>1, <2>1, <2>3, <2>4, ArrivedAppended
  <2>6. /\ laidOut' = TRUE /\ isAnimating' = FALSE /\ mode' = "rest" /\ offset' = o
        /\ currentPage' = currentPage \/ currentPage' = Rounded(o)
        /\ UNCHANGED <<target, interaction>>
        /\ UNCHANGED <<loaded, crashed, count, currentCellIndex, previousCellIndex,
                       isViewShowedFirstly, fading, text, overlapped>>
    BY <1>5, <2>1 DEF LayOutNewSize, screenVars
  <2>7. \E q \in {mainQueue, q1} :
          /\ observed' \in {NoObservation, obs}
          /\ mainQueue' = q \o (<< >> \o << b1 >>) \/ mainQueue' = q \o (<< b0 >> \o << b1 >>)
    <3>1. mainQueue \o << a >> = q1
      BY <1>1, <2>4, <2>5, ConcatFacts
    <3>2. \/ /\ observed' = NoObservation
             /\ \/ mainQueue' = mainQueue \o << a >> \o (<< >> \o << b1 >>)
                \/ mainQueue' = mainQueue \o << a >> \o (<< b0 >> \o << b1 >>)
          \/ /\ observed' = obs
             /\ \/ mainQueue' = mainQueue \o (<< >> \o << b1 >>)
                \/ mainQueue' = mainQueue \o (<< b0 >> \o << b1 >>)
      BY <1>5, <2>1, <2>2, <2>4 DEF LayOutNewSize
    <3> QED BY <3>1, <3>2
  <2>8. PICK q \in Seq(Blocks) : /\ ArrivedInRange(q)
                                 /\ \/ mainQueue' = Append(q, b1)
                                    \/ mainQueue' = Append(Append(q, b0), b1)
    <3>1. PICK q \in {mainQueue, q1} :
            mainQueue' = q \o (<< >> \o << b1 >>) \/ mainQueue' = q \o (<< b0 >> \o << b1 >>)
      BY <2>7
    <3>2. q \in Seq(Blocks) /\ ArrivedInRange(q)
      BY <1>1, <2>5
    <3>3. /\ q \o (<< >> \o << b1 >>) = Append(q, b1)
          /\ q \o (<< b0 >> \o << b1 >>) = Append(Append(q, b0), b1)
      BY <3>2, ConcatFacts
    <3> QED BY <3>1, <3>2, <3>3
  <2>9. /\ mainQueue' \in Seq(Blocks) /\ ArrivedInRange(mainQueue')
        /\ \E b \in Range(mainQueue') : b.block = "batch"
    <3>1. Append(q, b0) \in Seq(Blocks) /\ ArrivedInRange(Append(q, b0))
      BY <1>3, <2>4, <2>8, BatchInRange
    <3>2. CASE mainQueue' = Append(q, b1)
      BY <1>3, <2>4, <2>8, <3>2, BatchInRange
    <3>3. CASE mainQueue' = Append(Append(q, b0), b1)
      BY <1>3, <2>4, <3>1, <3>3, BatchInRange
    <3> QED BY <2>8, <3>2, <3>3
  <2>10. currentPage' \in -1 .. MaxEntries
    BY <1>2, <2>1, <2>6, MissingPage
  <2>11. PageInv'
    BY <2>9 DEF PageInv
  <2>12. /\ observed' \in Observations
         /\ observed' \in [at : -2 * Grain .. MaxEntries * Grain, shows : BOOLEAN]
    BY <2>3, <2>7
  <2>13. /\ crashed' \in BOOLEAN /\ laidOut' \in BOOLEAN /\ isAnimating' \in BOOLEAN
         /\ mode' \in {"rest", "animated"} /\ offset' \in -Grain .. MaxEntries * Grain
    BY <1>2, <1>3, <2>6
  <2> QED BY <2>6, <2>9, <2>10, <2>11, <2>12, <2>13, MissingStays
<1> QED BY <1>4, <1>5

-----------------------------------------------------------------------------
(* Every step *)

LEMMA StutterPreserves == DetailsInv /\ UNCHANGED dvars => DetailsInv'
<1> SUFFICES ASSUME DetailsInv, UNCHANGED dvars PROVE DetailsInv'
  OBVIOUS
<1>1. /\ UNCHANGED <<laidOut, offset, mode, target, interaction, mainQueue>>
      /\ UNCHANGED <<currentPage, isAnimating, observed>>
      /\ UNCHANGED <<loaded, crashed, count, currentCellIndex, previousCellIndex,
                     isViewShowedFirstly, fading, text, overlapped>>
  BY DEF dvars, viewVars, layoutVars, screenVars
<1>2. CASE FitInv
  <2>1. DTypeOK' /\ EmptyInv' /\ UnlaidInv' /\ QueueInv' /\ MovingInv'
    BY <1>1, <1>2 DEF FitInv, DTypeOK, EmptyInv, UnlaidInv, QueueInv, MovingInv
  <2>2. ShownInv' /\ LateInv' /\ FadingInv' /\ TextInv' /\ PageInv'
    BY <1>1, <1>2 DEF FitInv, ShownInv, LateInv, FadingInv, TextInv, PageInv
  <2> QED BY <2>1, <2>2 DEF FitInv, DetailsInv
<1>3. CASE MissingInv
  <2>1. DTypeOK' /\ PageInv'
    BY <1>1, <1>3 DEF MissingInv, DTypeOK, PageInv
  <2> QED BY <1>1, <1>3, <2>1 DEF MissingInv, DetailsInv
<1> QED BY <1>2, <1>3 DEF DetailsInv

LEMMA FitNext == FitInv /\ DNext => DetailsInv'
<1> SUFFICES ASSUME FitInv, DNext PROVE DetailsInv'
  OBVIOUS
<1>1. CASE LayOutSameSize \/ LayOutNewSize
  BY <1>1, LayOutSamePreserves, LayOutNewPreserves DEF DetailsInv
<1>2. CASE DataArrives
  BY <1>2, DataPreserves, DataMissing DEF DetailsInv
<1>3. CASE MainBlock
  BY <1>3, ArrivedPreserves, BatchPreserves DEF MainBlock, DetailsInv
<1>4. CASE AnyFrame
  BY <1>4, FramePreserves DEF AnyFrame, DetailsInv
<1>5. CASE Touch
  BY <1>5, TouchPreserves DEF DetailsInv
<1>6. CASE \E d \in 1 .. Grain : Drag(d) \/ Drag(-d)
  <2>1. PICK d \in 1 .. Grain : Drag(d) \/ Drag(-d)
    BY <1>6
  <2>2. d \in Int /\ -d \in Int
    BY GrainType
  <2> QED BY <2>1, <2>2, DragPreserves DEF DetailsInv
<1>7. CASE \E p \in Books : Lift(p)
  BY <1>7, LiftPreserves DEF DetailsInv
<1>8. CASE \E b \in Books : FadeOutDone(b)
  BY <1>8, FadeOutDonePreserves DEF DetailsInv
<1>9. CASE Leave
  BY <1>9, LeavePreserves DEF DetailsInv
<1> QED BY <1>1, <1>2, <1>3, <1>4, <1>5, <1>6, <1>7, <1>8, <1>9 DEF DNext, FingerStep, ScreenStep

LEMMA MissingNext == MissingInv /\ DNext => DetailsInv'
<1> SUFFICES ASSUME MissingInv, DNext PROVE DetailsInv'
  OBVIOUS
<1>1. CASE LayOutSameSize \/ LayOutNewSize
  BY <1>1, MissingLayOut DEF DetailsInv
<1>2. CASE DataArrives
  BY <1>2 DEF MissingInv, DataArrives
<1>3. CASE MainBlock
  BY <1>3, MissingArrived, MissingBatch DEF MainBlock, DetailsInv
<1>4. CASE AnyFrame
  BY <1>4, MissingFrame DEF AnyFrame, DetailsInv
<1>5. CASE FingerStep
  BY <1>5 DEF FingerStep, Touch, Drag, Lift, MissingInv
<1>6. CASE \E b \in Books : FadeOutDone(b)
  BY <1>6 DEF FadeOutDone, MissingInv
<1>7. CASE Leave
  BY <1>7, LeavePreserves DEF DetailsInv
<1> QED BY <1>1, <1>2, <1>3, <1>4, <1>5, <1>6, <1>7 DEF DNext, ScreenStep

LEMMA DetailsInvariance == DSpec => []DetailsInv
<1>1. DInit => DetailsInv
  BY InitDetails DEF DetailsInv
<1>2. DetailsInv /\ DNext => DetailsInv'
  BY FitNext, MissingNext DEF DetailsInv
<1> QED BY <1>1, <1>2, StutterPreserves, PTL DEF DSpec

-----------------------------------------------------------------------------
(* The completion *)

LEMMA WaitsInQueue ==
  CompletionWaits <=> (observed.shows \/ \E b \in Range(mainQueue) : IsShow(b))
BY DEF CompletionWaits, Range, IsShow, IsArrived

LEMMA WaitsInQueueNext ==
  observed'.shows \/ (\E b \in Range(mainQueue') : IsShow(b)) => CompletionWaits'
BY DEF CompletionWaits, Range, IsShow, IsArrived

\* The observer hands the completion on, or keeps it.
LEMMA NotifyKeeps ==
  ASSUME NEW q \in Seq(Blocks), NEW obs \in Observations, NEW o, Notify(obs, o, q),
         obs.shows \/ \E b \in Range(q) : IsShow(b)
  PROVE  CompletionWaits'
<1>1. CASE obs.at # o
  <2>1. observed' = obs /\ mainQueue' = q
    BY <1>1 DEF Notify
  <2> QED BY <2>1, WaitsInQueueNext
<1>2. CASE obs.at = o
  <2>1. PICK a \in Blocks : a = Arrived(obs) /\ IsArrived(a) /\ a.observation = obs
    BY BlockTypes
  <2>2. mainQueue' = Append(q, a)
    BY <1>2, <2>1 DEF Notify
  <2>3. Range(mainQueue') = Range(q) \cup {a}
    BY <2>2, AppendFacts
  <2>4. obs.shows => IsShow(a)
    BY <2>1 DEF IsShow
  <2>5. \E b \in Range(mainQueue') : IsShow(b)
    BY <2>3, <2>4
  <2> QED BY <2>5, WaitsInQueueNext
<1> QED BY <1>1, <1>2

LEMMA StepKeepsCompletion ==
  ASSUME DetailsInv, DNext, CompletionWaits, loaded', laidOut' = laidOut
  PROVE  CompletionWaits' \/ isViewShowedFirstly' \/ crashed'
<1>1. mainQueue \in Seq(Blocks) /\ observed \in Observations
  BY DEF DetailsInv, FitInv, QueueInv, MissingInv
<1>2. observed.shows \/ \E b \in Range(mainQueue) : IsShow(b)
  BY WaitsInQueue
<1>3. PICK h, s : h = Head(mainQueue) /\ s = Tail(mainQueue)
  OBVIOUS
<1>4. mainQueue # << >> => s \in Seq(Blocks) /\ Range(mainQueue) = {h} \cup Range(s)
  BY <1>1, <1>3, TailFacts
<1>5. CASE ArrivedBlock
  <2>1. PICK obs, q0 : obs = h.observation /\ q0 = Append(s, Batch(FALSE))
    OBVIOUS
  <2>2. /\ mainQueue # << >> /\ h.block = "arrived"
        /\ Notify(observed, obs.at, q0) \/ (mainQueue' = q0 /\ observed' = observed)
        /\ obs.shows => completion
    BY <1>3, <1>5, <2>1 DEF ArrivedBlock, AfterArrival
  <2>3. CASE obs.shows
    BY <2>2, <2>3 DEF completion
  <2>4. CASE ~obs.shows
    <3>1. ~IsShow(h)
      BY <2>1, <2>4 DEF IsShow
    <3>2. PICK b \in Blocks : b = Batch(FALSE)
      <4>1. FALSE \in BOOLEAN
        OBVIOUS
      <4> QED BY <4>1, BlockTypes
    <3>3. q0 \in Seq(Blocks) /\ Range(q0) = Range(s) \cup {b}
      BY <1>4, <2>1, <2>2, <3>2, AppendFacts
    <3>4. observed.shows \/ \E c \in Range(q0) : IsShow(c)
      BY <1>2, <1>4, <2>2, <3>1, <3>3
    <3>5. CASE Notify(observed, obs.at, q0)
      BY <1>1, <3>3, <3>4, <3>5, NotifyKeeps
    <3>6. CASE mainQueue' = q0 /\ observed' = observed
      BY <3>4, <3>6, WaitsInQueueNext
    <3> QED BY <2>2, <3>5, <3>6
  <2> QED BY <2>3, <2>4
<1>6. CASE BatchBlock
  <2>1. /\ mainQueue # << >> /\ h.block = "batch"
        /\ Notify(observed, offset, s) \/ (mainQueue' = s /\ observed' = observed)
    BY <1>3, <1>6 DEF BatchBlock
  <2>2. ~IsShow(h)
    BY <2>1 DEF IsShow, IsArrived
  <2>3. observed.shows \/ \E c \in Range(s) : IsShow(c)
    BY <1>2, <1>4, <2>1, <2>2
  <2>4. CASE Notify(observed, offset, s)
    BY <1>1, <1>4, <2>1, <2>3, <2>4, NotifyKeeps
  <2>5. CASE mainQueue' = s /\ observed' = observed
    BY <2>3, <2>5, WaitsInQueueNext
  <2> QED BY <2>1, <2>4, <2>5
<1>7. ASSUME NEW o, Move(o, mainQueue)
      PROVE  CompletionWaits'
  <2>1. Notify(observed, o, mainQueue)
    BY <1>7 DEF Move
  <2> QED BY <1>1, <1>2, <2>1, NotifyKeeps
<1>8. CASE AnyFrame
  BY <1>7, <1>8 DEF AnyFrame, Frame
<1>9. CASE FingerStep
  <2>1. CASE \E d \in 1 .. Grain : Drag(d) \/ Drag(-d)
    BY <1>7, <2>1 DEF Drag
  <2>2. CASE Touch \/ \E p \in Books : Lift(p)
    <3>1. UNCHANGED <<mainQueue, observed>>
      BY <2>2 DEF Touch, Lift, layoutVars
    <3> QED BY <1>2, <3>1, WaitsInQueueNext
  <2> QED BY <1>9, <2>1, <2>2 DEF FingerStep
<1>10. CASE ScreenStep
  <2>1. ~LayOutSameSize /\ ~LayOutNewSize
    BY DEF LayOutSameSize, LayOutNewSize
  <2>2. CASE \E b \in Books : FadeOutDone(b)
    <3>1. UNCHANGED <<mainQueue, observed>>
      BY <2>2 DEF FadeOutDone, viewVars, layoutVars
    <3> QED BY <1>2, <3>1, WaitsInQueueNext
  <2>3. CASE DataArrives
    <3>1. CASE observed'.shows
      BY <3>1, WaitsInQueueNext
    <3>2. CASE ~observed'.shows
      <4>1. PICK obs : obs = Observation(target', TRUE)
        OBVIOUS
      <4>2. obs.shows = TRUE
        BY <4>1 DEF Observation
      <4>3. mainQueue' = Append(mainQueue, Arrived(obs))
        BY <2>3, <3>2, <4>1, <4>2 DEF DataArrives, Notify
      <4>4. PICK n \in Nat : n = Len(mainQueue)
        BY <1>1
      <4>5. n + 1 \in DOMAIN mainQueue' /\ mainQueue'[n + 1] = Arrived(obs)
        BY <1>1, <4>3, <4>4
      <4>6. IsShow(Arrived(obs))
        BY <4>2 DEF IsShow, IsArrived, Arrived
      <4> QED BY <4>5, <4>6, WaitsInQueueNext DEF Range
    <3> QED BY <3>1, <3>2
  <2> QED BY <1>10, <2>1, <2>2, <2>3 DEF ScreenStep
<1>11. ~Leave
  BY DEF Leave
<1> QED BY <1>5, <1>6, <1>8, <1>9, <1>10, <1>11 DEF DNext, MainBlock

-----------------------------------------------------------------------------
(* The theorems *)

\* The variables keep their types: in particular the view is never pulled further
\* than a page past its ends, and a book's fade-outs stay within their bound although
\* the settling of the view starts some that the finger does not.
THEOREM DetailsTypeCorrect == DSpec => []DTypeOK
<1>1. DetailsInv => DTypeOK
  BY DEF DetailsInv, FitInv, MissingInv
<1> QED BY <1>1, DetailsInvariance, PTL

\* For any carousel, empty or without the tapped book included, the only read of
\* carouselModel that can fail is the first, in the completion of showSelectedPage, and
\* it fails only without that book.  scrollViewDidScroll's reads exist: also when the
\* finger pulls an end, where Int(contentOffset.x / width) rounds towards the page that
\* is there.
THEOREM IndexExists == DSpec => []BookExists
<1>1. ASSUME FitInv PROVE BookExists
  <2>1. ~crashed
    BY <1>1 DEF FitInv, EmptyInv
  <2>2. isViewShowedFirstly => count > 0 /\ currentCellIndex < count
    BY <1>1 DEF FitInv, ShownInv
  <2>3. currentCellIndex \in Nat /\ count \in Nat
    BY <1>1, DetailsAssumption DEF FitInv, DTypeOK, Books
  <2>4. isViewShowedFirstly => Exists(currentCellIndex)
    BY <2>2, <2>3 DEF Exists
  <2> QED BY <2>1, <2>4 DEF BookExists
<1>2. ASSUME MissingInv PROVE BookExists
  BY <1>2 DEF MissingInv, BookExists
<1>3. DetailsInv => BookExists
  BY <1>1, <1>2 DEF DetailsInv
<1> QED BY <1>3, DetailsInvariance, PTL

\* Whatever pages were passed and however the callbacks interleave, a view at rest
\* whose fade-outs are over shows the texts of the book it rests on, unless the last
\* of them was started during another: updateBookInfo's captured book is current.
THEOREM TextsFollowPage == DSpec => []TextMatchesPage
<1>1. DetailsInv => TextMatchesPage
  <2> SUFFICES ASSUME DetailsInv, mode = "rest", isViewShowedFirstly, ~overlapped,
                      \A b \in Books : fading[b] = 0
               PROVE  text * Grain = offset
    BY DEF TextMatchesPage
  <2>1. FitInv
    BY DEF DetailsInv, MissingInv
  <2>2. currentCellIndex \in Books
    BY <2>1 DEF FitInv, DTypeOK
  <2>3. text = currentCellIndex
    BY <2>1, <2>2 DEF FitInv, TextInv
  <2>4. offset = currentCellIndex * Grain
    BY <2>1 DEF FitInv, ShownInv
  <2> QED BY <2>3, <2>4
<1> QED BY <1>1, DetailsInvariance, PTL

\* When the main queue is empty the layout's currentPage is the page on screen,
\* although updateCurrentPageIfNeeded does nothing during an animated scroll.
THEOREM PageFollowsOffset == DSpec => []CurrentPageRight
<1>1. DetailsInv => PageInv
  BY DEF DetailsInv, FitInv, MissingInv
<1>2. PageInv => CurrentPageRight
  BY EmptyQueue DEF PageInv, CurrentPageRight
<1> QED BY <1>1, <1>2, DetailsInvariance, PTL

\* The completion of showSelectedPage is lost to nothing but the first layout, which
\* replaces the observation, and the end of the screen: no movement, late block or
\* gesture drops it before it has run.
THEOREM CompletionKept == DSpec => CompletionNotDropped
<1>1. DetailsInv /\ [DNext]_dvars =>
        [CompletionWaits /\ loaded' /\ laidOut' = laidOut
           => CompletionWaits' \/ isViewShowedFirstly' \/ crashed']_dvars
  BY StepKeepsCompletion
<1> QED BY <1>1, DetailsInvariance, PTL DEF DSpec, CompletionNotDropped

=============================================================================
