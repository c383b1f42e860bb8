-------------------------- MODULE AppSessionProofs --------------------------
(***************************************************************************)
(* The app is a client of the Remote Config library: what is proved of the *)
(* library for arbitrary clients holds in the app, for any number of       *)
(* screens.  The rest is about what its handlers read and its screens show.*)
(***************************************************************************)
EXTENDS AppSession, RemoteConfigOrderProofs

\* Each step of the app is one call of the library, one step the library takes
\* by itself, or invisible to it.
LEMMA AppStep == [AppNext]_allVars => [Next]_vars
<1> SUFFICES ASSUME [AppNext]_allVars PROVE [Next]_vars
  OBVIOUS
<1>1. CASE ShowLibrary
  BY <1>1, CatalogueAssumption DEF ShowLibrary, Next, ClientStep
<1>2. ASSUME NEW c \in Calls, NEW id, OpenBook(c, id) PROVE [Next]_vars
  BY <1>2 DEF OpenBook, Next, ClientStep
<1>3. CASE Back \/ SaveFiles \/ HandlerDone \/ UNCHANGED allVars
  BY <1>3 DEF Back, SaveFiles, HandlerDone, allVars
<1>4. ASSUME NEW c \in Calls, HandleCompletion(c) PROVE [Next]_vars
  BY <1>4 DEF HandleCompletion, Next, Completion
<1>5. CASE CallActivate \/ CallRead
  BY <1>5 DEF CallActivate, CallRead, Next, ClientStep
<1>6. CASE ReturnRead
  BY <1>6 DEF ReturnRead, Next
<1>7. CASE Background
  BY <1>7 DEF Background, Next
<1> QED
  BY <1>1, <1>2, <1>3, <1>4, <1>5, <1>6, <1>7 DEF AppNext, UserStep, HandlerStep

\* So what is proved of the client for arbitrary callers holds in the app.
LEMMA AppUsesClient == AppSpec => Spec
<1>1. AppInit => Init
  BY DEF AppInit
<1> QED BY <1>1, AppStep, PTL DEF AppSpec, Spec

\* In the app, too, no screen's fetch is lost and no two requests overlap.
THEOREM AppFetches == AppSpec => [](NoCallLost /\ OneFetchInProgress)
BY AppUsesClient, CallsNeverLost, OneFetchAtATime, PTL


-----------------------------------------------------------------------------
(* The inductive invariant of the app, part by part *)

Queued(task) == ~Absent(queue, task)

\* In q every x stands before every y.
Ahead(q, x, y) == \A i, j \in DOMAIN q : q[i] = x /\ q[j] = y => i < j

\* The main thread waits in dispatch_sync exactly while one read is queued, and
\* then it is in a handler that has activated and still has a value to read.
ReadsBlock ==
  /\ Placed(queue, "sync", blocked)
  /\ blocked => ~MainFree /\ main.todo # << >> /\ ~main.activate /\ ~SaveDue

\* What a handler has read and has still to read: nothing, the two values of the
\* files, those of a view model, or both.
HandlerShape ==
  /\ MainFree => main = Idle
  /\ main.activate => main.save /\ main.got = << >>
  /\ Len(main.got) + Len(main.todo) \in {0, 2, 4}
  /\ main.save => Len(main.got) <= 2 /\ Len(main.got) + Len(main.todo) # 0

\* Nothing is read before the block that sets the defaults, the first on the
\* queue, has run.
DefaultsFirst ==
  ~defaultsSet => queue # << >> /\ Head(queue) = "setDefaults" /\ main.got = << >>

\* An activate on the queue belongs to the handler the main thread is in, which
\* has read nothing yet and whose reads are behind it.
ActivateFirst ==
  /\ Queued("activate") => main.save /\ ~main.activate /\ main.got = << >>
  /\ Ahead(queue, "activate", "sync")

\* So the active config stays the same from the first read of a handler on.
ReadsActive == \A i \in DOMAIN main.got : main.got[i] = active

\* Once its activate has run, the active config is not older than what was
\* fetched when the handler began.
FloorReached ==
  /\ main.floor <= fetched
  /\ ~main.activate /\ ~Queued("activate") => main.floor <= active

\* What is shown and saved is not newer than the active config, which is not
\* newer than the fetched one.
ShownBehind ==
  /\ active <= fetched
  /\ library.books <= active /\ library.banners <= active
  /\ \A k \in Keys : files[k] <= active

\* The library's handler has ended before it shows anything or a book is opened.
LibraryFinished ==
  /\ ~MainFree => stage[main.call] = "done"
  /\ library.books # 0 \/ library.banners # 0 \/ top # NoCall =>
       stage[LibraryCall] = "done" /\ main.call # LibraryCall

\* A filled details screen is not older than the library it was opened from.
DetailsNewer == details.loaded => library.books <= details.carousel


-----------------------------------------------------------------------------
(* What operations on the queue do to those parts *)

LEMMA AheadPop ==
  ASSUME NEW S, NEW q \in Seq(S), q # << >>, NEW x, NEW y, Ahead(q, x, y)
  PROVE  Ahead(Tail(q), x, y)
<1> SUFFICES ASSUME NEW i \in DOMAIN Tail(q), NEW j \in DOMAIN Tail(q),
                    Tail(q)[i] = x, Tail(q)[j] = y
             PROVE  i < j
  BY DEF Ahead
<1>1. /\ i \in Int /\ j \in Int /\ i + 1 \in DOMAIN q /\ j + 1 \in DOMAIN q
      /\ q[i + 1] = x /\ q[j + 1] = y
  BY PopFacts
<1>2. i + 1 < j + 1
  BY <1>1 DEF Ahead
<1> QED BY <1>1, <1>2

LEMMA AheadPush ==
  ASSUME NEW S, NEW q \in Seq(S), NEW z \in S, NEW x, NEW y, x # y, Ahead(q, x, y),
         z # x \/ Absent(q, y)
  PROVE  Ahead(Append(q, z), x, y)
<1> SUFFICES ASSUME NEW i \in DOMAIN Append(q, z), NEW j \in DOMAIN Append(q, z),
                    Append(q, z)[i] = x, Append(q, z)[j] = y
             PROVE  i < j
  BY DEF Ahead
<1>1. /\ Len(q) \in Nat /\ DOMAIN q = 1 .. Len(q)
      /\ i \in 1 .. Len(q) + 1 /\ j \in 1 .. Len(q) + 1
      /\ i = Len(q) + 1 => z = x
      /\ j = Len(q) + 1 => z = y
      /\ i \in 1 .. Len(q) => q[i] = x
      /\ j \in 1 .. Len(q) => q[j] = y
  BY PushFacts
<1>2. CASE j = Len(q) + 1
  BY <1>1, <1>2
<1>3. CASE j # Len(q) + 1
  <2>1. j \in DOMAIN q /\ q[j] = y /\ z # x
    BY <1>1, <1>3 DEF Absent
  <2>2. i \in DOMAIN q /\ q[i] = x
    BY <1>1, <2>1
  <2> QED BY <2>1, <2>2 DEF Ahead
<1> QED BY <1>2, <1>3

\* When a y is at the head, no x is left.
LEMMA AheadHead ==
  ASSUME NEW S, NEW q \in Seq(S), q # << >>, NEW x, Ahead(q, x, Head(q))
  PROVE  Absent(q, x)
<1> SUFFICES ASSUME NEW i \in DOMAIN q, q[i] = x PROVE FALSE
  BY DEF Absent
<1>1. Head(q) = q[1] /\ 1 \in DOMAIN q /\ i \in Nat /\ 1 <= i
  BY PopFacts
<1> QED BY <1>1 DEF Ahead

LEMMA PresentPop ==
  ASSUME NEW S, NEW q \in Seq(S), q # << >>, NEW x, Head(q) # x
  PROVE  Absent(Tail(q), x) <=> Absent(q, x)
<1>1. Absent(q, x) => Absent(Tail(q), x)
  BY PopOther
<1>2. ASSUME Absent(Tail(q), x), NEW i \in DOMAIN q, q[i] = x PROVE FALSE
  <2>1. i # 1 /\ i \in 1 .. Len(q)
    BY <1>2, PopFacts
  <2>2. i - 1 \in 1 .. Len(q) - 1 /\ DOMAIN Tail(q) = 1 .. Len(q) - 1 /\ i - 1 + 1 = i
    BY <2>1, PopFacts
  <2>3. Tail(q)[i - 1] = q[i]
    BY <2>2, PopFacts
  <2> QED BY <1>2, <2>2, <2>3 DEF Absent
<1> QED BY <1>1, <1>2 DEF Absent

LEMMA PresentPush ==
  ASSUME NEW S, NEW q \in Seq(S), NEW z \in S, NEW x
  PROVE  Absent(Append(q, z), x) <=> Absent(q, x) /\ z # x
<1>1. /\ Len(q) \in Nat /\ DOMAIN q = 1 .. Len(q) /\ DOMAIN Append(q, z) = 1 .. Len(q) + 1
      /\ Append(q, z)[Len(q) + 1] = z
      /\ \A j \in 1 .. Len(q) : Append(q, z)[j] = q[j]
  BY PushFacts
<1>2. Len(q) + 1 \in DOMAIN Append(q, z)
  BY <1>1
<1> QED BY <1>1, <1>2 DEF Absent

LEMMA PushHead ==
  ASSUME NEW S, NEW q \in Seq(S), q # << >>, NEW z \in S
  PROVE  Append(q, z) # << >> /\ Head(Append(q, z)) = Head(q)
OBVIOUS

\* What the client's own steps, and the fetch calls and completions of the
\* screens, do to the serial queue: they dispatch blocks of fetches only, and
\* only an activate block changes the active config.
LibraryMove ==
  /\ blocked' = blocked
  /\ defaultsSet => defaultsSet'
  /\ \/ queue' = queue
     \/ \E c \in Calls : queue' = Append(queue, c)
     \/ \E t \in Tasks \ {"sync"} :
          /\ Running(t) /\ queue' = Tail(queue)
          /\ t = "setDefaults" => defaultsSet'
          /\ t = "activate" => active' = fetched \/ AlreadyActivated(settings)
     \/ \E c \in Calls : Running(c) /\ queue' = Append(Tail(queue), c)
  /\ active' = active \/ (Running("activate") /\ queue' = Tail(queue) /\ active' = fetched)

LEMMA BlockMoves ==
  ASSUME TypeOK, NEW c \in Calls, FetchBlock(c)
  PROVE  LibraryMove
<1>1. c \in Tasks \ {"sync"} /\ c # "setDefaults" /\ c # "activate"
  BY ConstantsAssumption DEF Tasks
<1>2. /\ UNCHANGED <<blocked, active, defaultsSet>>
      /\ Running(c) /\ (queue' = Tail(queue) \/ queue' = Append(Tail(queue), c))
  <2>1. CASE RunFetch(c) \/ RunToken(c) \/ RunSend(c) \/ CheckStep(c)
    BY <2>1 DEF RunFetch, RunToken, RunSend, CheckStep, ReturnCached, ReturnInProgress,
       ThrottleOrStart, Checking, contentVars
  <2>2. CASE RunTokenOrSendFails(c)
    BY <2>2 DEF RunTokenOrSendFails, FailFetch, contentVars
  <2>3. CASE ResponseStep(c)
    BY <2>3 DEF ResponseStep, RunFailedResponse, RunEmptyResponse, RunConfigResponse, Responding,
       contentVars
  <2> QED BY <2>1, <2>2, <2>3 DEF FetchBlock
<1> QED BY <1>1, <1>2 DEF LibraryMove

LEMMA NetworkMoves ==
  ASSUME NEW c \in Calls, TokenStep(c) \/ Answer(c) \/ CallbackStep(c)
  PROVE  LibraryMove
<1>1. UNCHANGED <<blocked, active, defaultsSet>>
  BY DEF TokenStep, TokenFails, TokenArrives, FailFetch, Answer, CallbackStep,
     ClearFetchInProgress, DispatchResponse, queueVars, contentVars
<1>2. queue' = queue \/ queue' = Append(queue, c)
  BY DEF TokenStep, TokenFails, TokenArrives, FailFetch, Answer, CallbackStep,
     ClearFetchInProgress, DispatchResponse, queueVars
<1> QED BY <1>1, <1>2 DEF LibraryMove

LEMMA LibraryMoves ==
  ASSUME TypeOK, LibraryStep \/ EnvironmentStep
  PROVE  LibraryMove
<1>1. {"setDefaults", "activate"} \subseteq Tasks \ {"sync"}
  BY DEF Tasks
<1>2. CASE RunSetDefaults \/ SkipActivate \/ ApplyActivate
  <2>1. PICK t \in {"setDefaults", "activate"} :
          /\ Running(t) /\ queue' = Tail(queue)
          /\ t = "setDefaults" => defaultsSet'
          /\ t = "activate" => active' = fetched \/ AlreadyActivated(settings)
    BY <1>2 DEF RunSetDefaults, SkipActivate, ApplyActivate
  <2>2. blocked' = blocked /\ (defaultsSet => defaultsSet')
    BY <1>2 DEF RunSetDefaults, SkipActivate, ApplyActivate, contentVars
  <2>3. active' = active \/ (Running("activate") /\ queue' = Tail(queue) /\ active' = fetched)
    BY <1>2 DEF RunSetDefaults, SkipActivate, ApplyActivate, contentVars
  <2> QED BY <1>1, <2>1, <2>2, <2>3 DEF LibraryMove
<1>3. CASE EnvironmentStep
  BY <1>3 DEF EnvironmentStep, Publish, TimePasses, ClockSetBack, DeviceContextChanges,
     queueVars, contentVars, LibraryMove
<1> QED BY <1>2, <1>3, BlockMoves, NetworkMoves DEF LibraryStep, QueueStep

\* The screens' fetch calls, the completions and steps the client does not see.
LEMMA ScreenMoves ==
  ASSUME \/ \E c \in Calls : fetchWithCompletionHandler(c) \/ RunCompletion(c)
         \/ UNCHANGED vars
  PROVE  LibraryMove
BY DEF fetchWithCompletionHandler, RunCompletion, vars, queueVars, contentVars, LibraryMove


LEMMA MoveKeepsQueue ==
  ASSUME TypeOK, LibraryMove
  PROVE  /\ Placed(queue, "sync", blocked) => Placed(queue', "sync", blocked')
         /\ Ahead(queue, "activate", "sync") => Ahead(queue', "activate", "sync")
         /\ Queued("activate")' => Queued("activate")
         /\ Queued("activate") => Queued("activate")' \/ active' = fetched \/ AlreadyActivated(settings)
         /\ active' = active \/ Queued("activate")
         /\ ~defaultsSet' /\ Running("setDefaults") => Running("setDefaults")'
<1>1. queue \in Seq(Tasks) /\ Calls \subseteq Tasks /\ blocked' = blocked
  BY DEF TypeOK, Tasks, LibraryMove
<1>2. \A c \in Calls : c # "sync" /\ c # "activate" /\ c # "setDefaults"
  BY ConstantsAssumption
<1>3. CASE queue' = queue
  BY <1>1, <1>3, PopSelf DEF LibraryMove, Queued, Running, Absent
<1>4. ASSUME NEW c \in Calls, queue' = Append(queue, c)
      PROVE  /\ Placed(queue, "sync", blocked) => Placed(queue', "sync", blocked)
             /\ Ahead(queue, "activate", "sync") => Ahead(queue', "activate", "sync")
             /\ Absent(queue', "activate") <=> Absent(queue, "activate")
             /\ Running("setDefaults") => Running("setDefaults")'
  <2>1. Placed(queue, "sync", blocked) => Placed(queue', "sync", blocked)
    BY <1>1, <1>2, <1>4, PushOther DEF Placed
  <2>2. Ahead(queue, "activate", "sync") => Ahead(queue', "activate", "sync")
    BY <1>1, <1>2, <1>4, AheadPush
  <2>3. Absent(queue', "activate") <=> Absent(queue, "activate")
    BY <1>1, <1>2, <1>4, PresentPush
  <2>4. Running("setDefaults") => Running("setDefaults")'
    BY <1>1, <1>4, PushHead DEF Running
  <2> QED BY <2>1, <2>2, <2>3, <2>4
<1>5. ASSUME NEW t \in Tasks \ {"sync"}, Running(t)
      PROVE  /\ Tail(queue) \in Seq(Tasks)
             /\ Placed(queue, "sync", blocked) => Placed(Tail(queue), "sync", blocked)
             /\ Ahead(queue, "activate", "sync") => Ahead(Tail(queue), "activate", "sync")
             /\ Absent(queue, "activate") => Absent(Tail(queue), "activate")
             /\ t # "activate" => (Absent(Tail(queue), "activate") => Absent(queue, "activate"))
  <2>1. queue # << >> /\ Head(queue) = t /\ Tail(queue) \in Seq(Tasks)
    BY <1>1, <1>5, TailType DEF Running
  <2>2. Placed(queue, "sync", blocked) => Placed(Tail(queue), "sync", blocked)
    BY <1>1, <2>1, PopOther DEF Placed
  <2>3. Ahead(queue, "activate", "sync") => Ahead(Tail(queue), "activate", "sync")
    BY <1>1, <2>1, AheadPop
  <2>4. Absent(queue, "activate") => Absent(Tail(queue), "activate")
    BY <1>1, <2>1, PopSelf, PresentPop
  <2>5. t # "activate" => (Absent(Tail(queue), "activate") => Absent(queue, "activate"))
    BY <1>1, <2>1, PresentPop
  <2> QED BY <2>1, <2>2, <2>3, <2>4, <2>5
<1>6. ASSUME NEW c \in Calls, Running(c), queue' = Append(Tail(queue), c)
      PROVE  /\ Placed(queue, "sync", blocked) => Placed(queue', "sync", blocked)
             /\ Ahead(queue, "activate", "sync") => Ahead(queue', "activate", "sync")
             /\ Absent(queue', "activate") <=> Absent(queue, "activate")
             /\ ~Running("setDefaults")
  <2>1. /\ c \in Tasks \ {"sync"} /\ Tail(queue) \in Seq(Tasks)
        /\ Placed(queue, "sync", blocked) => Placed(Tail(queue), "sync", blocked)
        /\ Ahead(queue, "activate", "sync") => Ahead(Tail(queue), "activate", "sync")
        /\ Absent(Tail(queue), "activate") <=> Absent(queue, "activate")
    BY <1>1, <1>2, <1>5, <1>6
  <2>2. Placed(queue, "sync", blocked) => Placed(queue', "sync", blocked)
    BY <1>1, <1>2, <1>6, <2>1, PushOther DEF Placed
  <2>3. Ahead(queue, "activate", "sync") => Ahead(queue', "activate", "sync")
    BY <1>1, <1>2, <1>6, <2>1, AheadPush
  <2>4. Absent(queue', "activate") <=> Absent(queue, "activate")
    BY <1>1, <1>2, <1>6, <2>1, PresentPush
  <2> QED BY <1>2, <1>6, <2>2, <2>3, <2>4 DEF Running
<1>7. active' = active \/ Queued("activate")
  BY <1>1, PopSelf DEF LibraryMove, Running, Queued
<1> QED
  <2>1. ASSUME NEW t \in Tasks \ {"sync"}, Running(t), queue' = Tail(queue),
               t = "setDefaults" => defaultsSet',
               t = "activate" => active' = fetched \/ AlreadyActivated(settings)
        PROVE  /\ Placed(queue, "sync", blocked) => Placed(queue', "sync", blocked)
               /\ Ahead(queue, "activate", "sync") => Ahead(queue', "activate", "sync")
               /\ Absent(queue, "activate") => Absent(queue', "activate")
               /\ \/ Absent(queue', "activate") => Absent(queue, "activate")
                  \/ active' = fetched \/ AlreadyActivated(settings)
               /\ defaultsSet' \/ ~Running("setDefaults")
    BY <1>5, <2>1 DEF Running
  <2>2. Queued("activate")' <=> ~Absent(queue', "activate")
    BY DEF Queued, Absent
  <2> QED BY <1>1, <1>3, <1>4, <1>6, <1>7, <2>1, <2>2 DEF LibraryMove, Queued


-----------------------------------------------------------------------------
(* The handler on the main thread *)

HandlerInv == ReadsBlock /\ HandlerShape /\ DefaultsFirst /\ ActivateFirst /\ ReadsActive

LEMMA ReadFacts ==
  ASSUME NEW S, NEW q \in Seq(S), q # << >>
  PROVE  Tail(q) \in Seq(S) /\ Len(q) \in Nat \ {0} /\ Len(Tail(q)) = Len(q) - 1
OBVIOUS

LEMMA AppendFacts ==
  ASSUME NEW S, NEW q \in Seq(S), NEW x \in S
  PROVE  /\ Append(q, x) \in Seq(S) /\ Len(q) \in Nat /\ Len(Append(q, x)) = Len(q) + 1
         /\ Append(q, x) # << >>
OBVIOUS

LEMMA ConcatFacts ==
  ASSUME NEW S, NEW q \in Seq(S), NEW r \in Seq(S)
  PROVE  /\ q \o r \in Seq(S) /\ Len(q) \in Nat /\ Len(r) \in Nat
         /\ Len(q \o r) = Len(q) + Len(r)
OBVIOUS

\* What a handler is to read: the values of the files, of a view model, or both.
LEMMA ReadsType ==
  ASSUME NEW c
  PROVE  /\ ViewModelReads(c) \in Seq(Keys) /\ Len(ViewModelReads(c)) \in {0, 2}
         /\ SaveReads \o ViewModelReads(c) \in Seq(Keys)
         /\ Len(SaveReads \o ViewModelReads(c)) \in {2, 4}
<1>1. ViewModelReads(c) \in Seq(Keys) /\ Len(ViewModelReads(c)) \in {0, 2}
  BY DEF ViewModelReads, LibraryReads, DetailsReads, Keys
<1>2. SaveReads \in Seq(Keys) /\ Len(SaveReads) = 2
  BY DEF SaveReads, Keys
<1>3. /\ SaveReads \o ViewModelReads(c) \in Seq(Keys)
      /\ Len(SaveReads \o ViewModelReads(c)) = 2 + Len(ViewModelReads(c))
  BY <1>1, <1>2, ConcatFacts
<1> QED BY <1>1, <1>3

\* The fields of the handler's record have their types.
LEMMA MainFields ==
  ASSUME AppTypeOK
  PROVE  /\ main.todo \in Seq(Keys) /\ main.got \in Seq(Versions)
         /\ Len(main.todo) \in Nat /\ Len(main.got) \in Nat
         /\ main.activate \in BOOLEAN /\ main.save \in BOOLEAN /\ main.floor \in Versions
         /\ DOMAIN main.got = 1 .. Len(main.got)
         /\ main.call \in Calls \cup {NoCall}
BY DEF AppTypeOK

\* A step of the client, or of a screen, that leaves the handler alone.
LEMMA MainKept ==
  ASSUME TypeOK, AppTypeOK, HandlerInv, LibraryMove, main' = main
  PROVE  HandlerInv'
<1>1. /\ Placed(queue', "sync", blocked')
      /\ Ahead(queue', "activate", "sync")
      /\ Queued("activate")' => Queued("activate")
      /\ active' = active \/ Queued("activate")
      /\ ~defaultsSet' /\ Running("setDefaults") => Running("setDefaults")'
      /\ blocked' = blocked /\ (defaultsSet => defaultsSet')
  BY MoveKeepsQueue DEF HandlerInv, ReadsBlock, ActivateFirst, LibraryMove
<1>2. ReadsBlock'
  BY <1>1 DEF HandlerInv, ReadsBlock, MainFree, SaveDue, Placed, Once, Absent
<1>3. HandlerShape'
  BY DEF HandlerInv, HandlerShape, MainFree
<1>4. DefaultsFirst'
  BY <1>1 DEF HandlerInv, DefaultsFirst, Running
<1>5. ActivateFirst'
  BY <1>1 DEF HandlerInv, ActivateFirst, Ahead
<1>6. ReadsActive'
  BY <1>1 DEF HandlerInv, ReadsActive, ActivateFirst
<1> QED BY <1>2, <1>3, <1>4, <1>5, <1>6 DEF HandlerInv

LEMMA CompletionKeepsHandler ==
  ASSUME TypeOK, AppTypeOK, HandlerInv, NEW c \in Calls, HandleCompletion(c)
  PROVE  HandlerInv' /\ AppTypeOK'
<1>1. MainFree /\ main = Idle /\ RunCompletion(c) /\ ~blocked
  BY DEF HandleCompletion, RunCompletion, HandlerInv, HandlerShape
<1>2. PICK reads \in Seq(Keys), success \in BOOLEAN, floor \in Versions :
        /\ main' = [call |-> c, todo |-> reads, got |-> << >>, activate |-> success,
                    save |-> success, floor |-> floor]
        /\ Len(reads) \in {0, 2, 4} /\ (success => Len(reads) # 0)
  <2> DEFINE ok == result[c].status = "Success"
             r  == IF ok THEN SaveReads \o ViewModelReads(c)
                   ELSE IF result[c].error THEN << >> ELSE ViewModelReads(c)
             fl == IF ok THEN fetched ELSE 0
  <2>1. fl \in Versions
    BY ConstantsAssumption DEF TypeOK, Versions
  <2>2. r \in Seq(Keys) /\ Len(r) \in {0, 2, 4} /\ (ok => Len(r) # 0)
    <3>1. << >> \in Seq(Keys) /\ Len(<< >>) = 0
      OBVIOUS
    <3> QED BY <3>1, ReadsType
  <2>3. main' = [call |-> c, todo |-> r, got |-> << >>, activate |-> ok, save |-> ok,
                 floor |-> fl]
    BY DEF HandleCompletion
  <2>4. ok \in BOOLEAN
    OBVIOUS
  <2> HIDE DEF ok, r, fl
  <2> QED BY <2>1, <2>2, <2>3, <2>4
<1>3. LibraryMove
  BY <1>1, ScreenMoves
<1>4. /\ Placed(queue', "sync", blocked')
      /\ Ahead(queue', "activate", "sync")
      /\ Queued("activate")' => Queued("activate")
      /\ ~defaultsSet' /\ Running("setDefaults") => Running("setDefaults")'
      /\ ~blocked' /\ (defaultsSet => defaultsSet')
  BY <1>1, <1>3, MoveKeepsQueue DEF HandlerInv, ReadsBlock, ActivateFirst, LibraryMove
<1>5. ReadsBlock'
  BY <1>4 DEF ReadsBlock, Placed, Once, Absent
<1>6. HandlerShape'
  BY <1>2, CatalogueAssumption DEF HandlerShape, MainFree
<1>7. DefaultsFirst'
  BY <1>2, <1>4 DEF HandlerInv, DefaultsFirst, Running
<1>8. ActivateFirst'
  <2>1. ~Queued("activate")
    BY <1>1 DEF HandlerInv, ActivateFirst, Idle
  <2> QED BY <1>4, <2>1 DEF ActivateFirst, Ahead
<1>9. ReadsActive'
  BY <1>2 DEF ReadsActive
<1>10. AppTypeOK'
  <2>1. << >> \in Seq(Versions)
    OBVIOUS
  <2>2. UNCHANGED <<library, top, details, files>>
    BY DEF HandleCompletion
  <2>3. main' \in [call : Calls \cup {NoCall}, todo : Seq(Keys), got : Seq(Versions),
                   activate : BOOLEAN, save : BOOLEAN, floor : Versions]
    BY <1>2, <2>1
  <2> QED BY <2>2, <2>3 DEF AppTypeOK
<1> QED BY <1>5, <1>6, <1>7, <1>8, <1>9, <1>10 DEF HandlerInv

LEMMA ActivateKeepsHandler ==
  ASSUME TypeOK, AppTypeOK, HandlerInv, CallActivate
  PROVE  HandlerInv' /\ AppTypeOK'
<1>1. /\ main.activate /\ ~blocked /\ blocked' = blocked
      /\ queue \in Seq(Tasks) /\ "activate" \in Tasks /\ queue' = Append(queue, "activate")
      /\ UNCHANGED <<active, defaultsSet, library, top, details, files>>
  BY DEF CallActivate, activateWithCompletion, contentVars, TypeOK, Tasks
<1>2. /\ main' = [main EXCEPT !.activate = FALSE]
      /\ main'.call = main.call /\ main'.todo = main.todo /\ main'.got = main.got
      /\ main'.save = main.save /\ main'.activate = FALSE
  BY DEF CallActivate, AppTypeOK
<1>3. AppTypeOK'
  BY <1>1, <1>2 DEF AppTypeOK
<1>4. main.save /\ main.got = << >> /\ Absent(queue, "sync") /\ ~Queued("activate")
  BY <1>1 DEF HandlerInv, HandlerShape, ReadsBlock, Placed, ActivateFirst
<1>5. ReadsBlock'
  <2>1. Absent(queue', "sync")
    BY <1>1, <1>4, PresentPush
  <2> QED BY <1>1, <2>1 DEF ReadsBlock, Placed, Absent
<1>6. HandlerShape'
  <2>1. main'.call # NoCall
    BY <1>1, <1>2 DEF HandlerInv, HandlerShape, MainFree, Idle
  <2> QED BY <1>2, <2>1 DEF HandlerInv, HandlerShape, MainFree
<1>7. DefaultsFirst'
  BY <1>1, <1>2, PushHead DEF HandlerInv, DefaultsFirst
<1>8. ActivateFirst'
  <2>1. Ahead(queue', "activate", "sync")
    BY <1>1, <1>4, AheadPush DEF HandlerInv, ActivateFirst
  <2> QED BY <1>2, <1>4, <2>1 DEF ActivateFirst, Ahead
<1>9. ReadsActive'
  BY <1>2, <1>4 DEF ReadsActive
<1> QED BY <1>3, <1>5, <1>6, <1>7, <1>8, <1>9 DEF HandlerInv

LEMMA CallReadKeepsHandler ==
  ASSUME TypeOK, AppTypeOK, HandlerInv, CallRead
  PROVE  HandlerInv' /\ AppTypeOK'
<1>1. /\ main.todo # << >> /\ ~main.activate /\ ~SaveDue /\ ~blocked /\ blocked' = TRUE
      /\ queue \in Seq(Tasks) /\ "sync" \in Tasks /\ queue' = Append(queue, "sync")
      /\ UNCHANGED <<active, defaultsSet, main, library, top, details, files>>
  BY DEF CallRead, configValueForKey, contentVars, appVars, TypeOK, Tasks
<1>2. AppTypeOK'
  BY <1>1 DEF AppTypeOK
<1>3. ReadsBlock'
  <2>1. Once(queue', "sync")
    BY <1>1, PushSelf DEF HandlerInv, ReadsBlock, Placed
  <2>2. ~MainFree
    BY <1>1 DEF HandlerInv, HandlerShape, Idle
  <2> QED BY <1>1, <2>1, <2>2 DEF ReadsBlock, Placed, Once, MainFree, SaveDue
<1>4. HandlerShape'
  BY <1>1 DEF HandlerInv, HandlerShape, MainFree
<1>5. DefaultsFirst'
  BY <1>1, PushHead DEF HandlerInv, DefaultsFirst
<1>6. ActivateFirst'
  <2>1. Ahead(queue', "activate", "sync")
    BY <1>1, AheadPush DEF HandlerInv, ActivateFirst
  <2>2. Queued("activate")' => Queued("activate")
    <3>1. Absent(queue, "activate") => Absent(queue', "activate")
      BY <1>1, PresentPush
    <3> QED BY <3>1 DEF Queued, Absent
  <2> QED BY <1>1, <2>1, <2>2 DEF HandlerInv, ActivateFirst, Ahead
<1>7. ReadsActive'
  BY <1>1 DEF HandlerInv, ReadsActive
<1> QED BY <1>2, <1>3, <1>4, <1>5, <1>6, <1>7 DEF HandlerInv

LEMMA ReturnReadKeepsHandler ==
  ASSUME TypeOK, AppTypeOK, HandlerInv, ReturnRead
  PROVE  HandlerInv' /\ AppTypeOK'
<1>1. /\ queue \in Seq(Tasks) /\ queue # << >> /\ Head(queue) = "sync" /\ queue' = Tail(queue)
      /\ blocked' = FALSE /\ active \in Versions
      /\ UNCHANGED <<active, defaultsSet, library, top, details, files>>
  BY DEF ReturnRead, RunRead, Running, contentVars, TypeOK
<1>2. blocked /\ Once(queue, "sync")
  <2>1. ~Absent(queue, "sync")
    BY <1>1, PopSelf
  <2> QED BY <2>1 DEF HandlerInv, ReadsBlock, Placed
<1>3. ~MainFree /\ main.todo # << >> /\ ~main.activate /\ ~SaveDue
  BY <1>2 DEF HandlerInv, ReadsBlock
<1>4. /\ main'.call = main.call /\ main'.todo = Tail(main.todo)
      /\ main'.got = Append(main.got, active)
      /\ main'.save = main.save /\ main'.activate = main.activate
  BY DEF ReturnRead, AppTypeOK
<1>5. /\ main.todo \in Seq(Keys) /\ main.got \in Seq(Versions)
      /\ Len(main.todo) \in Nat /\ Len(main.got) \in Nat
  BY MainFields
<1>6. /\ Tail(main.todo) \in Seq(Keys) /\ Append(main.got, active) \in Seq(Versions)
      /\ Len(Tail(main.todo)) = Len(main.todo) - 1 /\ Len(main.todo) # 0
      /\ Len(Append(main.got, active)) = Len(main.got) + 1
      /\ Append(main.got, active) # << >>
  BY <1>1, <1>3, <1>5, ReadFacts, AppendFacts
<1>7. AppTypeOK'
  <2>1. main' = [main EXCEPT !.todo = Tail(main.todo), !.got = Append(main.got, active)]
    BY DEF ReturnRead, AppTypeOK
  <2> QED BY <1>1, <1>6, <2>1 DEF AppTypeOK
<1>8. Absent(queue, "activate") /\ Absent(queue', "activate") /\ Absent(queue', "sync")
  <2>1. Absent(queue, "activate")
    BY <1>1, AheadHead DEF HandlerInv, ActivateFirst
  <2> QED BY <1>1, <1>2, <2>1, PresentPop, PopSelf
<1>9. ReadsBlock'
  BY <1>1, <1>8 DEF ReadsBlock, Placed, Absent
<1>10. HandlerShape'
  <2>1. main.save => Len(main.got) # 2
    BY <1>3 DEF SaveDue, SaveReads
  <2>2. main'.call # NoCall /\ main'.activate = FALSE
    BY <1>3, <1>4, MainFields DEF MainFree
  <2>3. PICK read \in Nat, left \in Nat : read = Len(main.got) /\ left = Len(main.todo)
    BY <1>5, Zenon
  <2>4. Len(main'.got) = read + 1 /\ Len(main'.todo) = left - 1
    BY <1>4, <1>6, <2>3, Zenon
  <2>5. Len(main'.got) + Len(main'.todo) = read + left
    BY <2>4
  <2>6. read + left \in {0, 2, 4} /\ (main.save => read <= 2 /\ read + left # 0 /\ read # 2)
    BY <2>1, <2>3 DEF HandlerInv, HandlerShape
  <2>7. main.save => read + 1 <= 2
    BY <2>6
  <2>8. main'.save => Len(main'.got) <= 2 /\ Len(main'.got) + Len(main'.todo) # 0
    BY <1>4, <2>4, <2>5, <2>6, <2>7, Zenon
  <2>9. Len(main'.got) + Len(main'.todo) \in {0, 2, 4}
    BY <2>5, <2>6, Zenon
  <2> QED BY <2>2, <2>8, <2>9, Zenon DEF HandlerShape, MainFree
<1>11. DefaultsFirst'
  BY <1>1 DEF HandlerInv, DefaultsFirst
<1>12. ActivateFirst'
  BY <1>8 DEF ActivateFirst, Queued, Ahead, Absent
<1>13. ReadsActive'
  <2>1. \A i \in DOMAIN Append(main.got, active) : Append(main.got, active)[i] = active
    BY <1>1, <1>5, PushFacts DEF HandlerInv, ReadsActive
  <2> QED BY <1>1, <1>4, <2>1 DEF ReadsActive
<1> QED BY <1>7, <1>9, <1>10, <1>11, <1>12, <1>13 DEF HandlerInv


\* The files are written from two values of the active config.
LEMMA SaveWrites ==
  ASSUME TypeOK, AppTypeOK, HandlerInv, SaveFiles
  PROVE  files' \in [Keys -> Versions] /\ \A k \in Keys : files'[k] \in {files[k], active}
<1>1. main.got[1] = active /\ main.got[2] = active
  <2>1. Len(main.got) = 2 /\ DOMAIN main.got = 1 .. Len(main.got)
    BY MainFields DEF SaveFiles, SaveDue, SaveReads
  <2>2. 1 \in DOMAIN main.got /\ 2 \in DOMAIN main.got
    BY <2>1
  <2> QED BY <2>2 DEF HandlerInv, ReadsActive
<1>2. PICK written \in SUBSET Keys :
        files' = [k \in Keys |-> IF k \notin written THEN files[k]
                                 ELSE IF k = "json_data" THEN main.got[1] ELSE main.got[2]]
  BY DEF SaveFiles
<1>3. files \in [Keys -> Versions] /\ active \in Versions
  BY DEF AppTypeOK, TypeOK
<1>4. files' = [k \in Keys |-> IF k \notin written THEN files[k] ELSE active]
  BY <1>1, <1>2
<1> QED BY <1>3, <1>4

LEMMA SaveKeepsHandler ==
  ASSUME TypeOK, AppTypeOK, HandlerInv, SaveFiles
  PROVE  HandlerInv' /\ AppTypeOK'
<1>1. main.save /\ Len(main.got) = 2 /\ ~blocked /\ UNCHANGED <<vars, library, top, details>>
  BY DEF SaveFiles, SaveDue, SaveReads
<1>2. UNCHANGED <<queue, blocked, active, defaultsSet>>
  BY <1>1 DEF vars, queueVars, contentVars
<1>3. /\ main' = [main EXCEPT !.save = FALSE]
      /\ main'.call = main.call /\ main'.todo = main.todo /\ main'.got = main.got
      /\ main'.save = FALSE /\ main'.activate = main.activate
  BY DEF SaveFiles, AppTypeOK
<1>4. AppTypeOK'
  BY <1>1, <1>3, SaveWrites DEF AppTypeOK
<1>5. main.got # << >>
  BY <1>1
<1>6. ~MainFree /\ ~main.activate /\ ~Queued("activate")
  BY <1>1, <1>5 DEF HandlerInv, HandlerShape, Idle, ActivateFirst
<1>7. ReadsBlock'
  BY <1>1, <1>2 DEF HandlerInv, ReadsBlock, Placed, Absent
<1>8. HandlerShape'
  BY <1>3, <1>6 DEF HandlerInv, HandlerShape, MainFree
<1>9. DefaultsFirst' /\ ReadsActive'
  BY <1>2, <1>3 DEF HandlerInv, DefaultsFirst, ReadsActive
<1>10. ActivateFirst'
  BY <1>2, <1>6 DEF HandlerInv, ActivateFirst, Queued, Absent, Ahead
<1> QED BY <1>4, <1>7, <1>8, <1>9, <1>10 DEF HandlerInv

\* What a handler shows in the end are two values of the active config.
LEMMA DoneShows ==
  ASSUME TypeOK, AppTypeOK, HandlerInv, HandlerDone
  PROVE  \/ UNCHANGED <<library, details>>
         \/ /\ main.call = LibraryCall
            /\ library' = [library EXCEPT !.books = active, !.banners = active]
            /\ details' = details
         \/ /\ main.call = top /\ top # NoCall /\ main.call # LibraryCall
            /\ details' = [details EXCEPT !.loaded = TRUE, !.carousel = active,
                                          !.recommended = active]
            /\ library' = library
<1>1. CASE main.got = << >> \/ ~Alive(main.call)
  BY <1>1 DEF HandlerDone
<1>2. CASE main.got # << >> /\ Alive(main.call)
  <2>1. main.got \in Seq(Versions) /\ main.todo = << >> /\ Len(main.todo) = 0
    BY MainFields DEF HandlerDone
  <2>2. PICK read \in Nat : read = Len(main.got) /\ read # 0
    BY <1>2, <2>1
  <2>3. read + 0 \in {0, 2, 4}
    BY <2>1, <2>2 DEF HandlerInv, HandlerShape
  <2>4. read - 1 \in 1 .. read /\ read \in 1 .. read /\ DOMAIN main.got = 1 .. read
    <3>1. DOMAIN main.got = 1 .. read
      BY <2>2, MainFields, Zenon
    <3>2. \A n \in Nat : n # 0 /\ n + 0 \in {0, 2, 4} => n - 1 \in 1 .. n /\ n \in 1 .. n
      OBVIOUS
    <3> QED BY <2>2, <2>3, <3>1, <3>2, Zenon
  <2>5. main.got[Len(main.got) - 1] = active /\ main.got[Len(main.got)] = active
    BY <2>2, <2>4 DEF HandlerInv, ReadsActive
  <2>6. IF main.call = LibraryCall THEN ShowBooks(active, active) ELSE ShowCarousel(active, active)
    BY <1>2, <2>5 DEF HandlerDone
  <2>7. CASE main.call = LibraryCall
    BY <2>6, <2>7 DEF ShowBooks
  <2>8. CASE main.call # LibraryCall
    BY <1>2, <2>6, <2>8 DEF ShowCarousel, Alive, HandlerDone, MainFree
  <2> QED BY <2>7, <2>8
<1> QED BY <1>1, <1>2

LEMMA DoneKeepsHandler ==
  ASSUME TypeOK, AppTypeOK, HandlerInv, HandlerDone
  PROVE  HandlerInv' /\ AppTypeOK'
<1>1. ~blocked /\ ~main.save /\ main' = Idle /\ UNCHANGED <<vars, top, files>>
  BY DEF HandlerDone
<1>2. UNCHANGED <<queue, blocked, active, defaultsSet>>
  BY <1>1 DEF vars, queueVars, contentVars
<1>3. /\ library' \in [shown : BOOLEAN, books : Versions, banners : Versions]
      /\ details' \in [index : Nat, loaded : BOOLEAN, carousel : Versions, recommended : Versions]
  BY DoneShows DEF AppTypeOK, TypeOK
<1>4. main' \in [call : Calls \cup {NoCall}, todo : Seq(Keys), got : Seq(Versions),
                 activate : BOOLEAN, save : BOOLEAN, floor : Versions]
  <2>1. << >> \in Seq(Keys) /\ << >> \in Seq(Versions) /\ 0 \in Versions
    BY ConstantsAssumption DEF Versions
  <2> QED BY <1>1, <2>1 DEF Idle
<1>5. AppTypeOK'
  BY <1>1, <1>3, <1>4 DEF AppTypeOK
<1>6. ReadsBlock'
  BY <1>1, <1>2 DEF HandlerInv, ReadsBlock, Placed, Absent
<1>7. HandlerShape'
  <2>1. main'.got = << >> /\ main'.todo = << >> /\ ~main'.activate /\ ~main'.save /\ main' = Idle
    BY <1>1 DEF Idle
  <2>2. Len(<< >>) + Len(<< >>) = 0
    OBVIOUS
  <2> QED BY <2>1, <2>2 DEF HandlerShape
<1>8. DefaultsFirst' /\ ReadsActive'
  BY <1>1, <1>2 DEF HandlerInv, DefaultsFirst, ReadsActive, Idle
<1>9. ActivateFirst'
  <2>1. ~Queued("activate")
    BY <1>1 DEF HandlerInv, ActivateFirst
  <2> QED BY <1>2, <2>1 DEF HandlerInv, ActivateFirst, Queued, Absent, Ahead
<1> QED BY <1>5, <1>6, <1>7, <1>8, <1>9 DEF HandlerInv

\* Screens come and go without touching the handler.
LEMMA UserKeepsHandler ==
  ASSUME TypeOK, AppTypeOK, HandlerInv, UserStep
  PROVE  HandlerInv' /\ AppTypeOK'
<1>1. main' = main /\ files' = files
  BY DEF UserStep, ShowLibrary, Back, OpenBook
<1>2. LibraryMove
  BY ScreenMoves, CatalogueAssumption DEF UserStep, ShowLibrary, Back, OpenBook
<1>3. NoDetails \in [index : Nat, loaded : BOOLEAN, carousel : Versions, recommended : Versions]
  BY ConstantsAssumption DEF NoDetails, Versions
<1>4. AppTypeOK'
  <2>1. CASE ShowLibrary
    BY <1>1, <2>1 DEF ShowLibrary, AppTypeOK
  <2>2. CASE Back
    BY <1>1, <1>3, <2>2 DEF Back, AppTypeOK
  <2>3. ASSUME NEW c \in Calls, NEW v \in Versions, NEW id \in BookIds[v] \cup BannerIds[v],
               OpenBook(c, id)
        PROVE  AppTypeOK'
    <3>1. id \in Nat
      BY CatalogueAssumption
    <3>2. details' = [NoDetails EXCEPT !.index = id] /\ top' = c /\ library' = library
      BY <2>3 DEF OpenBook
    <3>3. details' \in [index : Nat, loaded : BOOLEAN, carousel : Versions, recommended : Versions]
      BY <1>3, <3>1, <3>2
    <3> QED BY <1>1, <3>2, <3>3 DEF AppTypeOK
  <2> QED BY <2>1, <2>2, <2>3 DEF UserStep
<1> QED BY <1>1, <1>2, <1>4, MainKept

LEMMA NextHandler ==
  TypeOK /\ AppTypeOK /\ HandlerInv /\ [AppNext]_allVars => HandlerInv' /\ AppTypeOK'
<1> SUFFICES ASSUME TypeOK, AppTypeOK, HandlerInv, [AppNext]_allVars
             PROVE  HandlerInv' /\ AppTypeOK'
  OBVIOUS
<1>1. CASE Background
  <2>1. LibraryMove /\ UNCHANGED <<main, library, top, details, files>>
    BY <1>1, LibraryMoves DEF Background, appVars
  <2>2. AppTypeOK'
    BY <2>1 DEF AppTypeOK
  <2> QED BY <2>1, <2>2, MainKept
<1>2. CASE UNCHANGED allVars
  <2>1. LibraryMove /\ UNCHANGED <<main, library, top, details, files>>
    BY <1>2, ScreenMoves DEF allVars, appVars
  <2>2. AppTypeOK'
    BY <2>1 DEF AppTypeOK
  <2> QED BY <2>1, <2>2, MainKept
<1> QED
  BY <1>1, <1>2, UserKeepsHandler, CompletionKeepsHandler, ActivateKeepsHandler,
     CallReadKeepsHandler, ReturnReadKeepsHandler, SaveKeepsHandler, DoneKeepsHandler
  DEF AppNext, HandlerStep

LEMMA InitHandler == AppInit => HandlerInv /\ AppTypeOK
<1> SUFFICES ASSUME AppInit PROVE HandlerInv /\ AppTypeOK
  OBVIOUS
<1>1. queue = <<"setDefaults">> /\ blocked = FALSE /\ main = Idle
  BY DEF AppInit, Init
<1>2. Absent(queue, "sync") /\ Absent(queue, "activate") /\ queue # << >>
      /\ Head(queue) = "setDefaults"
  BY <1>1 DEF Absent
<1>3. main.got = << >> /\ main.todo = << >> /\ ~main.activate /\ ~main.save
  BY <1>1 DEF Idle
<1>4. Len(<< >>) + Len(<< >>) = 0
  OBVIOUS
<1>5. ReadsBlock
  BY <1>1, <1>2 DEF ReadsBlock, Placed
<1>6. HandlerShape
  BY <1>1, <1>3, <1>4 DEF HandlerShape
<1>7. DefaultsFirst /\ ReadsActive
  BY <1>2, <1>3 DEF DefaultsFirst, ReadsActive
<1>8. ActivateFirst
  BY <1>2 DEF ActivateFirst, Queued, Ahead, Absent
<1>9. AppTypeOK
  <2>1. << >> \in Seq(Keys) /\ << >> \in Seq(Versions) /\ 0 \in Versions
    BY ConstantsAssumption DEF Versions
  <2>2. main \in [call : Calls \cup {NoCall}, todo : Seq(Keys), got : Seq(Versions),
                  activate : BOOLEAN, save : BOOLEAN, floor : Versions]
    BY <1>1, <2>1 DEF Idle
  <2> QED BY <2>1, <2>2 DEF AppInit, AppTypeOK, NoDetails
<1> QED BY <1>5, <1>6, <1>7, <1>8, <1>9 DEF HandlerInv


LEMMA AppInvariant ==
  AppSpec => [](TypeOK /\ NoCallLost /\ OrderInv /\ AppTypeOK /\ HandlerInv)
<1> DEFINE Inv == AppTypeOK /\ HandlerInv
<1>1. AppSpec => [](TypeOK /\ NoCallLost /\ OrderInv)
  BY AppUsesClient, OrderInvariant, PTL
<1>2. AppInit => Inv
  BY InitHandler
<1>3. TypeOK /\ Inv /\ [AppNext]_allVars => Inv'
  BY NextHandler
<1> QED BY <1>1, <1>2, <1>3, PTL DEF AppSpec

\* The screens, the handler and the files keep their types: a read only ever
\* returns to a handler that waits for one, and a handler always ends with the
\* two values its view model takes.
THEOREM AppTypeCorrect == AppSpec => []AppTypeOK
BY AppInvariant, PTL

\* The defaults are registered before the first read returns, because the block
\* that registers them is dispatched first and the queue is serial, whatever the
\* screens fetch and the network answers.
THEOREM DefaultsRegistered == AppSpec => []DefaultsBeforeReads
<1>1. HandlerInv => DefaultsBeforeReads
  BY DEF HandlerInv, DefaultsFirst, DefaultsBeforeReads
<1> QED BY <1>1, AppInvariant, PTL

\* The values one handler reads all come from one template, with any answers and
\* any clock: no activate can run between two reads of a handler, since only
\* handlers dispatch activates and each reads only after its own has run.
THEOREM ReadsOneTemplate ==
  AppSpec => [](\A i, j \in DOMAIN main.got : main.got[i] = main.got[j])
<1>1. HandlerInv => \A i, j \in DOMAIN main.got : main.got[i] = main.got[j]
  BY DEF HandlerInv, ReadsActive
<1> QED BY <1>1, AppInvariant, PTL

-----------------------------------------------------------------------------
(* A successful handler reads what its fetch brought *)

LEMMA FloorKept ==
  ASSUME TypeOK, SkipMeansActive, AppTypeOK, FloorReached, LibraryMove,
         main'.floor = main.floor, main'.activate = main.activate,
         fetched' \in Int, fetched <= fetched'
  PROVE  FloorReached'
<1>1. fetched \in Int /\ active \in Int /\ main.floor \in Int
  BY MainFields DEF TypeOK, Versions
<1>2. main.floor <= fetched'
  BY <1>1 DEF FloorReached
<1>3. ASSUME ~main.activate, ~Queued("activate")' PROVE main.floor <= active'
  <2>1. CASE ~Queued("activate")
    BY <1>3, <2>1, MoveKeepsQueue DEF FloorReached
  <2>2. CASE Queued("activate")
    <3>1. active' = fetched
      BY <1>3, <2>2, MoveKeepsQueue DEF SkipMeansActive, LibraryMove
    <3> QED BY <3>1 DEF FloorReached
  <2> QED BY <2>1, <2>2
<1> QED BY <1>2, <1>3 DEF FloorReached

LEMMA NextFloor ==
  ASSUME TypeOK, NoCallLost, OrderInv, SkipMeansActive, AppTypeOK, HandlerInv, FloorReached,
         [AppNext]_allVars
  PROVE  FloorReached'
<1>1. fetched' \in Int /\ fetched <= fetched' /\ fetched \in Int /\ active \in Nat /\ fetched \in Nat
  BY AppStep, NextOrder, NextType DEF TypeOK, Versions
<1>2. CASE UserStep \/ Background \/ UNCHANGED allVars
  <2>1. main' = main
    BY <1>2 DEF UserStep, ShowLibrary, Back, OpenBook, Background, allVars, appVars
  <2>2. LibraryMove
    BY <1>2, ScreenMoves, LibraryMoves, CatalogueAssumption
    DEF UserStep, ShowLibrary, Back, OpenBook, Background, allVars
  <2> QED BY <1>1, <2>1, <2>2, FloorKept
<1>3. ASSUME NEW c \in Calls, HandleCompletion(c) PROVE FloorReached'
  <2>1. UNCHANGED <<fetched, active>>
    BY <1>3 DEF HandleCompletion, RunCompletion, contentVars
  <2>2. \/ main'.floor = fetched /\ main'.activate = TRUE
        \/ main'.floor = 0 /\ main'.activate = FALSE
    BY <1>3 DEF HandleCompletion
  <2> QED BY <1>1, <2>1, <2>2 DEF FloorReached
<1>4. CASE CallActivate
  <2>1. /\ main'.floor = main.floor /\ fetched' = fetched
        /\ queue \in Seq(Tasks) /\ "activate" \in Tasks /\ queue' = Append(queue, "activate")
    BY <1>4 DEF CallActivate, activateWithCompletion, contentVars, AppTypeOK, TypeOK, Tasks
  <2>2. ~Absent(queue', "activate")
    BY <2>1, PresentPush
  <2> QED BY <2>1, <2>2 DEF FloorReached, Queued, Absent
<1>5. CASE CallRead
  <2>1. /\ main' = main /\ UNCHANGED <<fetched, active>>
        /\ queue \in Seq(Tasks) /\ "sync" \in Tasks /\ queue' = Append(queue, "sync")
    BY <1>5 DEF CallRead, configValueForKey, contentVars, appVars, TypeOK, Tasks
  <2>2. Absent(queue', "activate") <=> Absent(queue, "activate")
    BY <2>1, PresentPush
  <2> QED BY <2>1, <2>2 DEF FloorReached, Queued, Absent
<1>6. CASE ReturnRead
  <2>1. /\ main'.floor = main.floor /\ main'.activate = main.activate
        /\ UNCHANGED <<fetched, active>>
        /\ queue \in Seq(Tasks) /\ queue # << >> /\ Head(queue) = "sync"
    BY <1>6 DEF ReturnRead, RunRead, Running, contentVars, AppTypeOK, TypeOK
  <2>2. Absent(queue, "activate")
    BY <2>1, AheadHead DEF HandlerInv, ActivateFirst
  <2> QED BY <2>1, <2>2 DEF FloorReached, Queued
<1>7. CASE SaveFiles
  <2>1. LibraryMove /\ main'.floor = main.floor /\ main'.activate = main.activate
    BY <1>7, ScreenMoves DEF SaveFiles, AppTypeOK
  <2> QED BY <1>1, <2>1, FloorKept
<1>8. CASE HandlerDone
  <2>1. main'.floor = 0 /\ UNCHANGED <<fetched, active>>
    BY <1>8 DEF HandlerDone, Idle, vars, contentVars
  <2> QED BY <1>1, <2>1 DEF FloorReached
<1> QED BY <1>2, <1>3, <1>4, <1>5, <1>6, <1>7, <1>8 DEF AppNext, HandlerStep

\* When bodies can be used and the clock is not set back, the values a handler
\* reads come from one template that is not older than what was fetched when the
\* handler began: the activate it dispatches without waiting is ahead of its reads
\* on the serial queue, and is skipped only if there is nothing to activate.
THEOREM HandlerReads ==
  ASSUME "damaged" \notin AnswerKinds, ~ClockMayGoBack
  PROVE  AppSpec => []HandlerReadsOneTemplate
<1> DEFINE Inv == TypeOK /\ NoCallLost /\ OrderInv /\ AppTypeOK /\ HandlerInv
<1>1. AppSpec => []SkipMeansActive
  BY AppUsesClient, SkipIsSafe, PTL
<1>2. AppInit => FloorReached
  BY DEF AppInit, Init, Idle, FloorReached
<1>3. Inv /\ SkipMeansActive /\ FloorReached /\ [AppNext]_allVars => FloorReached'
  BY NextFloor
<1>4. ASSUME Inv, FloorReached PROVE HandlerReadsOneTemplate
  <2> SUFFICES ASSUME NEW i \in DOMAIN main.got, NEW j \in DOMAIN main.got
               PROVE  main.got[i] = main.got[j] /\ main.got[i] >= main.floor
    BY DEF HandlerReadsOneTemplate
  <2>1. main.got[i] = active /\ main.got[j] = active
    BY <1>4 DEF HandlerInv, ReadsActive
  <2>2. main.got # << >>
    OBVIOUS
  <2>3. ~main.activate /\ ~Queued("activate")
    BY <1>4, <2>2 DEF HandlerInv, HandlerShape, ActivateFirst
  <2>4. main.floor <= active /\ main.floor \in Int /\ active \in Int
    BY <1>4, <2>3, MainFields DEF FloorReached, TypeOK, Versions
  <2> QED BY <2>1, <2>4
<1> QED BY <1>1, <1>2, <1>3, <1>4, AppInvariant, PTL DEF AppSpec


-----------------------------------------------------------------------------
(* The screens *)

\* A finished call stays finished: a screen fetches once.
LEMMA DoneStays ==
  ASSUME TypeOK, NoCallLost, [Next]_vars, NEW d \in Calls, stage[d] = "done"
  PROVE  stage'[d] = "done"
<1>1. ASSUME NEW c \in Calls, NEW st, MoveTo(c, st), stage[c] # "done"
      PROVE  stage'[d] = "done"
  BY <1>1 DEF MoveTo, TypeOK
<1>2. ASSUME NEW c \in Calls, fetchWithCompletionHandler(c) \/ RunCompletion(c)
      PROVE  stage'[d] = "done"
  <2>1. CASE fetchWithCompletionHandler(c)
    BY <1>1, <2>1 DEF fetchWithCompletionHandler
  <2>2. CASE RunCompletion(c)
    BY <1>1, <2>2, CompletionReported DEF RunCompletion
  <2> QED BY <1>2, <2>1, <2>2
<1>3. ASSUME NEW c \in Calls, FetchBlock(c)
      PROVE  stage'[d] = "done"
  <2>1. CASE RunFetch(c) \/ RunToken(c) \/ RunSend(c)
    BY <1>1, <2>1 DEF RunFetch, RunToken, RunSend
  <2>2. CASE CheckStep(c)
    BY <1>1, <2>2 DEF CheckStep, ReturnCached, ReturnInProgress, ThrottleOrStart, Checking, Report
  <2>3. CASE RunTokenOrSendFails(c)
    BY <1>1, <2>3 DEF RunTokenOrSendFails, FailFetch, Report
  <2>4. CASE ResponseStep(c)
    BY <1>1, <2>4, ResponseKeepsFlag
  <2> QED BY <1>3, <2>1, <2>2, <2>3, <2>4 DEF FetchBlock
<1>4. ASSUME NEW c \in Calls, TokenStep(c) \/ Answer(c) \/ CallbackStep(c)
      PROVE  stage'[d] = "done"
  <2>1. CASE TokenStep(c)
    BY <1>1, <2>1 DEF TokenStep, TokenFails, TokenArrives, FailFetch, Report
  <2>2. CASE Answer(c)
    BY <1>1, <2>2 DEF Answer
  <2>3. CASE CallbackStep(c)
    BY <1>1, <2>3 DEF CallbackStep, ClearFetchInProgress, DispatchResponse
  <2> QED BY <1>4, <2>1, <2>2, <2>3
<1>5. CASE \/ activateWithCompletion \/ configValueForKey \/ RunRead \/ RunSetDefaults
           \/ SkipActivate \/ ApplyActivate \/ EnvironmentStep \/ UNCHANGED vars
  BY <1>5 DEF activateWithCompletion, configValueForKey, RunRead, RunSetDefaults, SkipActivate,
     ApplyActivate, EnvironmentStep, Publish, TimePasses, ClockSetBack, DeviceContextChanges,
     vars, callVars
<1> QED BY <1>2, <1>3, <1>4, <1>5 DEF Next, ClientStep, Completion, LibraryStep, QueueStep

ScreensInv == ShownBehind /\ LibraryFinished /\ DetailsNewer /\ FilledByOwnFetch

\* The active config only moves on, to the fetched one.
LEMMA ActiveGrows ==
  ASSUME TypeOK, NoCallLost, OrderInv, active <= fetched, [AppNext]_allVars
  PROVE  /\ active \in Int /\ active' \in Int /\ active <= active' /\ active' <= fetched'
         /\ \A c \in Calls : stage[c] = "done" => stage'[c] = "done"
<1>1. [Next]_vars /\ fetched \in Int /\ fetched' \in Int /\ active \in Int /\ fetched <= fetched'
  BY AppStep, NextOrder, NextType DEF TypeOK, Versions
<1>2. active' = active \/ active' = fetched
  <2>1. CASE ApplyActivate
    BY <2>1 DEF ApplyActivate
  <2>2. ASSUME NEW c \in Calls, RunConfigResponse(c) PROVE active' = active
    BY <2>2 DEF RunConfigResponse
  <2> QED BY <1>1, <2>1, <2>2, OtherStepsKeepContent DEF ContentKept
<1>3. \A c \in Calls : stage[c] = "done" => stage'[c] = "done"
  BY <1>1, DoneStays
<1> QED BY <1>1, <1>2, <1>3

\* The fields of the screens' records have their types.
LEMMA ScreenFields ==
  ASSUME AppTypeOK
  PROVE  /\ library.books \in Versions /\ library.banners \in Versions
         /\ details.loaded \in BOOLEAN /\ details.carousel \in Versions /\ details.index \in Nat
         /\ files \in [Keys -> Versions]
         /\ Versions \subseteq Nat
BY DEF AppTypeOK, Versions

\* A step that leaves the screens alone, except that it may write files.
LEMMA ScreensKept ==
  ASSUME AppTypeOK, ScreensInv, main'.call = main.call,
         library'.books = library.books, library'.banners = library.banners,
         top' = top, details' = details,
         \A k \in Keys : files'[k] \in {files[k], active},
         active \in Int, active' \in Int, active <= active', active' <= fetched',
         \A c \in Calls : stage[c] = "done" => stage'[c] = "done"
  PROVE  ScreensInv'
<1>1. ShownBehind'
  <2>1. library.books <= active' /\ library.banners <= active'
    BY ScreenFields DEF ScreensInv, ShownBehind
  <2>2. ASSUME NEW k \in Keys PROVE files'[k] <= active'
    <3>1. files[k] \in Int /\ files[k] <= active
      BY ScreenFields DEF ScreensInv, ShownBehind
    <3> QED BY <3>1
  <2> QED BY <2>1, <2>2 DEF ShownBehind
<1>2. LibraryFinished'
  <2>1. main.call # NoCall => main.call \in Calls
    BY MainFields
  <2> QED BY <2>1, CatalogueAssumption DEF ScreensInv, LibraryFinished, MainFree
<1>3. DetailsNewer'
  BY DEF ScreensInv, DetailsNewer
<1>4. FilledByOwnFetch'
  <2>1. top # NoCall => top \in Calls
    BY DEF AppTypeOK
  <2> QED BY <2>1 DEF ScreensInv, FilledByOwnFetch
<1> QED BY <1>1, <1>2, <1>3, <1>4 DEF ScreensInv

\* A book can be tapped only after the library's handler has shown it.
LEMMA OpenKeepsScreens ==
  ASSUME TypeOK, NoCallLost, OrderInv, AppTypeOK, ScreensInv, [AppNext]_allVars,
         NEW c \in Calls, NEW id, OpenBook(c, id)
  PROVE  ScreensInv'
<1>1. /\ active \in Int /\ active' \in Int /\ active <= active' /\ active' <= fetched'
      /\ \A d \in Calls : stage[d] = "done" => stage'[d] = "done"
  BY ActiveGrows DEF ScreensInv, ShownBehind
<1>2. /\ main' = main /\ library' = library /\ files' = files /\ top' = c
      /\ MainFree /\ id \in SelectableIds
      /\ details'.loaded = FALSE
  BY DEF OpenBook, NoDetails
<1>3. PICK v \in Versions : /\ v = library.books \/ v = library.banners
                            /\ id \in BookIds[v] \cup BannerIds[v]
  BY <1>2, ScreenFields DEF SelectableIds
<1>4. v # 0 /\ v <= active /\ v \in Int
  BY <1>3, CatalogueAssumption DEF ScreensInv, ShownBehind, Versions
<1>5. ShownBehind'
  <2>1. \A k \in Keys : files[k] \in Int /\ files[k] <= active
    BY ScreenFields DEF ScreensInv, ShownBehind
  <2>2. /\ library.books \in Int /\ library.books <= active
        /\ library.banners \in Int /\ library.banners <= active
    BY ScreenFields DEF ScreensInv, ShownBehind
  <2> QED BY <1>1, <1>2, <2>1, <2>2 DEF ShownBehind
<1>6. LibraryFinished'
  BY <1>1, <1>2, <1>3, <1>4, CatalogueAssumption DEF ScreensInv, LibraryFinished, MainFree
<1>7. DetailsNewer' /\ FilledByOwnFetch'
  BY <1>2 DEF DetailsNewer, FilledByOwnFetch
<1> QED BY <1>5, <1>6, <1>7 DEF ScreensInv

LEMMA DoneKeepsScreens ==
  ASSUME TypeOK, NoCallLost, OrderInv, AppTypeOK, HandlerInv, ScreensInv, [AppNext]_allVars,
         HandlerDone
  PROVE  ScreensInv'
<1>1. /\ ~MainFree /\ main' = Idle /\ main'.call = NoCall
      /\ UNCHANGED <<top, files, active, fetched, stage>>
  BY DEF HandlerDone, Idle, vars, contentVars, callVars
<1>2. active \in Versions /\ active <= fetched /\ active \in Int
  BY DEF TypeOK, ScreensInv, ShownBehind, Versions
<1>3. CASE UNCHANGED <<library, details>>
  BY <1>1, <1>3, CatalogueAssumption
  DEF ScreensInv, ShownBehind, LibraryFinished, DetailsNewer, FilledByOwnFetch, MainFree
<1>4. CASE /\ main.call = LibraryCall
           /\ library' = [library EXCEPT !.books = active, !.banners = active]
           /\ details' = details
  <2>1. library'.books = active /\ library'.banners = active
    BY <1>4 DEF AppTypeOK
  <2>2. top = NoCall /\ ~details.loaded /\ stage[LibraryCall] = "done"
    BY <1>1, <1>4 DEF ScreensInv, LibraryFinished, FilledByOwnFetch
  <2>3. ShownBehind'
    BY <1>1, <1>2, <2>1 DEF ScreensInv, ShownBehind
  <2>4. LibraryFinished'
    BY <1>1, <2>2, CatalogueAssumption DEF LibraryFinished, MainFree
  <2>5. DetailsNewer' /\ FilledByOwnFetch'
    BY <1>1, <1>4, <2>2 DEF DetailsNewer, FilledByOwnFetch
  <2> QED BY <2>3, <2>4, <2>5 DEF ScreensInv
<1>5. CASE /\ main.call = top /\ top # NoCall /\ main.call # LibraryCall
           /\ details' = [details EXCEPT !.loaded = TRUE, !.carousel = active,
                                         !.recommended = active]
           /\ library' = library
  <2>1. details'.loaded /\ details'.carousel = active /\ details'.recommended = active
    BY <1>5 DEF AppTypeOK
  <2>2. stage[top] = "done"
    BY <1>1, <1>5 DEF ScreensInv, LibraryFinished
  <2>3. ShownBehind' /\ LibraryFinished'
    BY <1>1, <1>5, CatalogueAssumption DEF ScreensInv, ShownBehind, LibraryFinished, MainFree
  <2>4. DetailsNewer'
    BY <1>1, <1>5, <2>1 DEF ScreensInv, DetailsNewer, ShownBehind
  <2>5. FilledByOwnFetch'
    BY <1>1, <1>5, <2>1, <2>2 DEF FilledByOwnFetch
  <2> QED BY <2>3, <2>4, <2>5 DEF ScreensInv
<1> QED BY <1>3, <1>4, <1>5, DoneShows


LEMMA NextScreens ==
  ASSUME TypeOK, NoCallLost, OrderInv, AppTypeOK, HandlerInv, ScreensInv, [AppNext]_allVars
  PROVE  ScreensInv'
<1>1. /\ active \in Int /\ active' \in Int /\ active <= active' /\ active' <= fetched'
      /\ \A c \in Calls : stage[c] = "done" => stage'[c] = "done"
  BY ActiveGrows DEF ScreensInv, ShownBehind
<1>2. CASE \/ CallActivate \/ CallRead \/ ReturnRead \/ SaveFiles \/ Background
           \/ UNCHANGED allVars
  <2>1. main'.call = main.call
    BY <1>2 DEF CallActivate, CallRead, ReturnRead, SaveFiles, Background, allVars, appVars,
       AppTypeOK
  <2>2. UNCHANGED <<library, top, details>>
    BY <1>2 DEF CallActivate, CallRead, ReturnRead, SaveFiles, Background, allVars, appVars
  <2>3. \A k \in Keys : files'[k] \in {files[k], active}
    <3>1. CASE SaveFiles
      BY <3>1, SaveWrites
    <3>2. CASE ~SaveFiles
      BY <1>2, <3>2 DEF CallActivate, CallRead, ReturnRead, Background, allVars, appVars
    <3> QED BY <3>1, <3>2
  <2> QED BY <1>1, <2>1, <2>2, <2>3, ScreensKept
<1>3. CASE ShowLibrary
  <2>1. library'.books = library.books /\ library'.banners = library.banners
    BY <1>3 DEF ShowLibrary, AppTypeOK
  <2> QED BY <1>1, <1>3, <2>1, ScreensKept DEF ShowLibrary
<1>4. CASE Back
  <2>1. /\ main' = main /\ library' = library /\ files' = files /\ top' = NoCall
        /\ UNCHANGED <<active, fetched, stage>> /\ details'.loaded = FALSE
    BY <1>4 DEF Back, NoDetails, vars, contentVars, callVars
  <2> QED BY <2>1 DEF ScreensInv, ShownBehind, LibraryFinished, DetailsNewer,
             FilledByOwnFetch, MainFree
<1>5. ASSUME NEW c \in Calls, HandleCompletion(c) PROVE ScreensInv'
  <2>1. stage[c] = "reported" /\ stage'[c] = "done"
    BY <1>5, CompletionReported DEF HandleCompletion, RunCompletion, MoveTo, TypeOK
  <2>2. /\ main'.call = c /\ UNCHANGED <<library, top, details, files, active, fetched>>
    BY <1>5 DEF HandleCompletion, RunCompletion, contentVars
  <2>3. LibraryFinished'
    BY <1>1, <2>1, <2>2, CatalogueAssumption DEF ScreensInv, LibraryFinished, MainFree
  <2>4. FilledByOwnFetch'
    <3>1. top # NoCall => top \in Calls
      BY DEF AppTypeOK
    <3> QED BY <1>1, <2>1, <2>2, <3>1 DEF ScreensInv, FilledByOwnFetch
  <2> QED BY <2>2, <2>3, <2>4 DEF ScreensInv, ShownBehind, DetailsNewer
<1> QED
  BY <1>2, <1>3, <1>4, <1>5, OpenKeepsScreens, DoneKeepsScreens
  DEF AppNext, UserStep, HandlerStep

LEMMA InitScreens == AppInit => ScreensInv
<1> SUFFICES ASSUME AppInit PROVE ScreensInv
  OBVIOUS
<1>1. /\ active = 0 /\ fetched = 0 /\ library.books = 0 /\ library.banners = 0
      /\ top = NoCall /\ details.loaded = FALSE /\ main.call = NoCall
      /\ \A k \in Keys : files[k] = 0
  BY DEF AppInit, Init, NoDetails, Idle
<1> QED BY <1>1 DEF ScreensInv, ShownBehind, LibraryFinished, DetailsNewer,
           FilledByOwnFetch, MainFree

LEMMA ScreensInvariant ==
  AppSpec => [](TypeOK /\ NoCallLost /\ OrderInv /\ AppTypeOK /\ HandlerInv /\ ScreensInv)
<1> DEFINE Inv == TypeOK /\ NoCallLost /\ OrderInv /\ AppTypeOK /\ HandlerInv
<1>1. Inv /\ ScreensInv /\ [AppNext]_allVars => ScreensInv'
  BY NextScreens
<1> QED BY <1>1, InitScreens, AppInvariant, PTL DEF AppSpec

\* For any number of details screens, opened and popped at any time, an open one is
\* filled by the handler of its own fetch only, once that has ended, and from one
\* template: the client calls each handler once, a handler that runs belongs to a
\* fetch that is done, and it finds only the view model of the screen on top.
THEOREM ScreenFilledByItself == AppSpec => []FilledByOwnFetch
<1>1. ScreensInv => FilledByOwnFetch
  BY DEF ScreensInv
<1> QED BY <1>1, ScreensInvariant, PTL

\* No handler shows or saves values older than those shown or saved before, and a
\* details screen never shows a carousel older than the library it was opened
\* from, although each screen fetches and activates for itself.
THEOREM NeverShowsOlder == AppSpec => ShownNeverGoesBack
<1> DEFINE Inv == TypeOK /\ NoCallLost /\ OrderInv /\ AppTypeOK /\ HandlerInv /\ ScreensInv
           Step == /\ library'.books >= library.books /\ library'.banners >= library.banners
                   /\ \A k \in Keys : files'[k] >= files[k]
                   /\ details'.loaded => details'.carousel >= library.books
<1>1. ASSUME Inv, Inv', [AppNext]_allVars PROVE Step
  <2>1. /\ active \in Int
        /\ library.books \in Int /\ library.books <= active
        /\ library.banners \in Int /\ library.banners <= active
        /\ \A k \in Keys : files[k] \in Int /\ files[k] <= active
    BY <1>1, ScreenFields DEF ScreensInv, ShownBehind, TypeOK, Versions
  <2>2. /\ library'.books \in {library.books, active}
        /\ library'.banners \in {library.banners, active}
    <3>1. CASE HandlerDone
      BY <1>1, <3>1, DoneShows DEF AppTypeOK
    <3>2. CASE ~HandlerDone
      BY <1>1, <3>2 DEF AppNext, UserStep, HandlerStep, ShowLibrary, Back, OpenBook,
         HandleCompletion, CallActivate, CallRead, ReturnRead, SaveFiles, Background, allVars,
         appVars, AppTypeOK
    <3> QED BY <3>1, <3>2
  <2>3. \A k \in Keys : files'[k] \in {files[k], active}
    <3>1. CASE SaveFiles
      BY <1>1, <3>1, SaveWrites
    <3>2. CASE ~SaveFiles
      BY <1>1, <3>2 DEF AppNext, UserStep, HandlerStep, ShowLibrary, Back, OpenBook,
         HandleCompletion, CallActivate, CallRead, ReturnRead, HandlerDone, Background, allVars,
         appVars
    <3> QED BY <3>1, <3>2
  <2>4. library'.books >= library.books /\ library'.banners >= library.banners
    BY <2>1, <2>2
  <2>5. \A k \in Keys : files'[k] >= files[k]
    BY <2>1, <2>3
  <2>6. ASSUME details'.loaded PROVE details'.carousel >= library.books
    <3>1. library'.books <= details'.carousel
      BY <1>1, <2>6 DEF ScreensInv, DetailsNewer
    <3>2. library'.books \in Int /\ details'.carousel \in Int
      BY <1>1 DEF AppTypeOK, Versions
    <3> QED BY <2>1, <2>4, <3>1, <3>2
  <2> QED BY <2>4, <2>5, <2>6
<1>2. Inv /\ Inv' /\ [AppNext]_allVars => [Step]_allVars
  BY <1>1
<1> QED BY <1>2, ScreensInvariant, PTL DEF AppSpec, ShownNeverGoesBack

=============================================================================
