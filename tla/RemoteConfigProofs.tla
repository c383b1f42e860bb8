------------------------- MODULE RemoteConfigProofs -------------------------
(***************************************************************************)
(* Proofs about RemoteConfig for any number of calls, versions and clock   *)
(* readings: the types, the single fetch in progress, and that no queue    *)
(* hop loses or doubles a call.                                            *)
(***************************************************************************)
EXTENDS RemoteConfig, TLAPS

-----------------------------------------------------------------------------
(* Types *)

\* Running the head of a queue leaves a queue of the same kind.
LEMMA TailType ==
  ASSUME NEW S, NEW q \in Seq(S), q # << >>
  PROVE  Tail(q) \in Seq(S) /\ Head(q) \in S
OBVIOUS

\* Reporting a completion keeps the types of what it changes.
LEMMA ReportType ==
  ASSUME TypeOK, NEW c \in Calls, NEW status \in Statuses, NEW error \in BOOLEAN,
         Report(c, status, error)
  PROVE  /\ stage' \in [Calls -> Stages]
         /\ result' \in [Calls -> Results]
         /\ mainQueue' \in Seq(Calls)
BY DEF TypeOK, Report, MoveTo, Stages, Results

LEMMA InitType == Init => TypeOK
<1> SUFFICES ASSUME Init PROVE TypeOK
  OBVIOUS
<1>1. 0 \in Versions /\ NoTag \in Tags
  BY ConstantsAssumption DEF Versions, Tags, NoTag
<1>2. /\ queue \in Seq(Tasks)
      /\ delegateQueue \in Seq(Calls) /\ mainQueue \in Seq(Calls) /\ blocked \in BOOLEAN
  <2>1. queue = <<"setDefaults">> /\ "setDefaults" \in Tasks
    BY DEF Init, Tasks
  <2>2. delegateQueue = << >> /\ mainQueue = << >> /\ blocked = FALSE
    BY DEF Init
  <2>3. queue \in Seq(Tasks)
    BY <2>1
  <2>4. << >> \in Seq(Calls)
    OBVIOUS
  <2> QED BY <2>2, <2>3, <2>4, Zenon
<1>3. stage \in [Calls -> Stages] /\ changed \in [Calls -> BOOLEAN]
  BY DEF Init, Stages
<1>4. /\ sentTag \in [Calls -> Tags]
      /\ answer \in [Calls -> Answers \cup {NoAnswer}]
      /\ result \in [Calls -> Results]
  BY <1>1 DEF Init, NoResult, Results, Statuses
<1>5. settings \in Settings
  BY <1>1 DEF Init, InitialSettings, Settings, Statuses
<1>6. fetched \in Versions /\ active \in Versions /\ defaultsSet \in BOOLEAN
      /\ published \in Versions /\ now \in Nat
  BY <1>1 DEF Init
<1> QED BY <1>2, <1>3, <1>4, <1>5, <1>6 DEF TypeOK

\* The functions that update the settings return settings.
LEMMA SettingsTypes ==
  ASSUME NEW s \in Settings, NEW t \in Nat, NEW tag \in Tags, NEW sign \in {-1, 1}
  PROVE  /\ updateMetadataWithFetchFailure(s) \in Settings
         /\ updateMetadataWithFetchSuccess(s, t) \in Settings
         /\ setLastETag(s, tag, t) \in Settings
         /\ updateExponentialBackoffTime(s, t, sign) \in Settings
<1>1. NextInterval(s) \in Nat
  BY ConstantsAssumption DEF NextInterval, Settings
<1>2. t + NextInterval(s) + sign * (NextInterval(s) \div 2) \in Int
  BY <1>1
<1>3. updateExponentialBackoffTime(s, t, sign) \in Settings
  BY <1>1, <1>2 DEF updateExponentialBackoffTime, Settings
<1>4. updateMetadataWithFetchFailure(s) \in Settings
  BY DEF updateMetadataWithFetchFailure, Settings, Statuses
<1>5. updateMetadataWithFetchSuccess(s, t) \in Settings
  BY DEF updateMetadataWithFetchSuccess, Settings, Statuses
<1>6. setLastETag(s, tag, t) \in Settings
  BY DEF setLastETag, Settings
<1> QED BY <1>3, <1>4, <1>5, <1>6

LEMMA ClientType == TypeOK /\ (ClientStep \/ Completion \/ RunRead) => TypeOK'
<1> SUFFICES ASSUME TypeOK, ClientStep \/ Completion \/ RunRead PROVE TypeOK'
  OBVIOUS
<1>1. ASSUME NEW c \in Calls, fetchWithCompletionHandler(c) PROVE TypeOK'
  BY <1>1 DEF TypeOK, fetchWithCompletionHandler, MoveTo, Stages, QueuedStages, Tasks, contentVars
<1>2. CASE activateWithCompletion
  BY <1>2 DEF TypeOK, activateWithCompletion, Tasks, callVars, contentVars
<1>3. CASE configValueForKey
  BY <1>3 DEF TypeOK, configValueForKey, Tasks, callVars, contentVars
<1>4. ASSUME NEW c \in Calls, RunCompletion(c) PROVE TypeOK'
  BY <1>4, TailType DEF TypeOK, RunCompletion, MoveTo, Stages, Tags, NoResult, Results, Statuses,
     contentVars
<1>5. CASE RunRead
  BY <1>5, TailType DEF TypeOK, RunRead, Running, callVars, contentVars
<1> QED BY <1>1, <1>2, <1>3, <1>4, <1>5 DEF ClientStep, Completion

LEMMA QueueStepType == TypeOK /\ QueueStep => TypeOK'
<1> SUFFICES ASSUME TypeOK, QueueStep PROVE TypeOK'
  OBVIOUS
<1>1. CASE RunSetDefaults
  BY <1>1, TailType DEF TypeOK, RunSetDefaults, Running, callVars
<1>2. CASE SkipActivate
  BY <1>2, TailType DEF TypeOK, SkipActivate, Running, callVars, contentVars
<1>3. CASE ApplyActivate
  <2>1. now' \in Nat
    BY <1>3 DEF ApplyActivate, TypeOK
  <2>2. settings' \in Settings
    BY <1>3, <2>1 DEF ApplyActivate, TypeOK, Settings
  <2> QED BY <1>3, <2>1, <2>2, TailType DEF TypeOK, ApplyActivate, Running, callVars
<1>4. ASSUME NEW c \in Calls, RunFetch(c) PROVE TypeOK'
  <2>1. queue' \in Seq(Tasks)
    BY <1>4, TailType DEF TypeOK, RunFetch, Running
  <2>2. changed' \in [Calls -> BOOLEAN]
    BY <1>4 DEF TypeOK, RunFetch, Settings
  <2> QED BY <1>4, <2>1, <2>2 DEF TypeOK, RunFetch, MoveTo, Stages, QueuedStages, contentVars
<1>5. ASSUME NEW c \in Calls, ReturnCached(c) PROVE TypeOK'
  <2>1. queue' \in Seq(Tasks)
    BY <1>5, TailType DEF TypeOK, ReturnCached, Checking, Running
  <2>2. Report(c, "Success", FALSE)
    BY <1>5 DEF ReturnCached
  <2> QED BY <1>5, <2>1, <2>2, ReportType DEF TypeOK, ReturnCached, Statuses, contentVars
<1>6. ASSUME NEW c \in Calls, ReturnInProgress(c) PROVE TypeOK'
  <2>1. queue' \in Seq(Tasks)
    BY <1>6, TailType DEF TypeOK, ReturnInProgress, Checking, Running
  <2>2. PICK st \in Statuses : Report(c, st, FALSE)
    BY <1>6 DEF ReturnInProgress, TypeOK, Settings, Statuses
  <2> QED BY <1>6, <2>1, <2>2, ReportType DEF TypeOK, ReturnInProgress, contentVars
<1>7. ASSUME NEW c \in Calls, ThrottleOrStart(c) PROVE TypeOK'
  <2>1. queue' \in Seq(Tasks)
    BY <1>7, TailType DEF TypeOK, ThrottleOrStart, Checking, Running
  <2>2. settings' \in Settings
    BY <1>7 DEF ThrottleOrStart, TypeOK, Settings, Statuses
  <2>3. /\ stage' \in [Calls -> Stages]
        /\ result' \in [Calls -> Results]
        /\ mainQueue' \in Seq(Calls)
    <3>1. CASE Throttle(c)
      BY <1>7, <3>1, ReportType DEF ThrottleOrStart, Statuses
    <3>2. CASE ~Throttle(c)
      BY <1>7, <3>2 DEF ThrottleOrStart, TypeOK, MoveTo, Stages, InFlightStages
    <3> QED BY <3>1, <3>2
  <2> QED BY <1>7, <2>1, <2>2, <2>3 DEF TypeOK, ThrottleOrStart, contentVars
<1>8. ASSUME NEW c \in Calls, RunToken(c) \/ RunSend(c) PROVE TypeOK'
  <2>1. queue' \in Seq(Tasks)
    <3>1. Tail(queue) \in Seq(Tasks) /\ c \in Tasks
      BY <1>8, TailType DEF TypeOK, RunToken, RunSend, Running, Tasks
    <3> QED BY <1>8, <3>1 DEF RunToken, RunSend
  <2>2. sentTag' \in [Calls -> Tags]
    BY <1>8 DEF TypeOK, RunToken, RunSend, Settings
  <2> QED BY <1>8, <2>1, <2>2 DEF TypeOK, RunToken, RunSend, MoveTo, Stages, QueuedStages,
             InFlightStages, contentVars
<1>9. ASSUME NEW c \in Calls, RunTokenOrSendFails(c) PROVE TypeOK'
  <2>1. queue' \in Seq(Tasks)
    BY <1>9, TailType DEF TypeOK, RunTokenOrSendFails, Running
  <2>2. settings' \in Settings
    BY <1>9 DEF RunTokenOrSendFails, FailFetch, TypeOK, Settings
  <2> QED BY <1>9, <2>1, <2>2, ReportType
          DEF TypeOK, RunTokenOrSendFails, FailFetch, Statuses, contentVars
<1>10. ASSUME NEW c \in Calls, RunFailedResponse(c) PROVE TypeOK'
  <2>1. queue' \in Seq(Tasks)
    BY <1>10, TailType DEF TypeOK, RunFailedResponse, Responding, Running
  <2>2. now' \in Nat
    BY <1>10 DEF RunFailedResponse, TypeOK
  <2>3. PICK sign \in {-1, 1}, s \in Settings, st \in Statuses :
          settings' = [s EXCEPT !.lastFetchStatus = st] /\ Report(c, st, TRUE)
    BY <1>10, <2>2, SettingsTypes DEF RunFailedResponse, TypeOK, Statuses
  <2>4. settings' \in Settings
    BY <2>3 DEF Settings
  <2> QED BY <1>10, <2>1, <2>2, <2>3, <2>4, ReportType
          DEF TypeOK, RunFailedResponse, contentVars
<1>11. ASSUME NEW c \in Calls, RunEmptyResponse(c) PROVE TypeOK'
  <2>1. queue' \in Seq(Tasks)
    BY <1>11, TailType DEF TypeOK, RunEmptyResponse, Responding, Running
  <2>2. PICK st \in Statuses, e \in BOOLEAN : Report(c, st, e)
    BY <1>11 DEF RunEmptyResponse, Statuses
  <2> QED BY <1>11, <2>1, <2>2, ReportType DEF TypeOK, RunEmptyResponse, contentVars
<1>12. ASSUME NEW c \in Calls, RunConfigResponse(c) PROVE TypeOK'
  <2>1. queue' \in Seq(Tasks)
    BY <1>12, TailType DEF TypeOK, RunConfigResponse, Responding, Running
  <2>2. now' \in Nat
    BY <1>12 DEF RunConfigResponse, TypeOK
  <2>3. answer[c].version \in Versions /\ answer[c].tag \in Tags
    BY ConstantsAssumption DEF TypeOK, Answers, NoAnswer, Tags, Versions, NoTag
  <2>4. settings' \in Settings
    BY <1>12, <2>2, <2>3, SettingsTypes DEF RunConfigResponse, TypeOK
  <2>5. fetched' \in Versions
    BY <1>12, <2>3 DEF RunConfigResponse, TypeOK
  <2> QED BY <1>12, <2>1, <2>2, <2>4, <2>5, ReportType DEF TypeOK, RunConfigResponse, Statuses
<1> QED
  BY <1>1, <1>2, <1>3, <1>4, <1>5, <1>6, <1>7, <1>8, <1>9, <1>10, <1>11, <1>12
  DEF QueueStep, FetchBlock, CheckStep, ResponseStep

LEMMA NetworkType ==
  ASSUME TypeOK, NEW c \in Calls, TokenStep(c) \/ Answer(c) \/ CallbackStep(c)
  PROVE  TypeOK'
<1>1. CASE TokenFails(c)
  <2>1. settings' \in Settings
    BY <1>1 DEF TokenFails, FailFetch, TypeOK, Settings
  <2> QED BY <1>1, <2>1, ReportType DEF TypeOK, TokenFails, FailFetch, Statuses, contentVars
<1>2. CASE TokenArrives(c)
  BY <1>2 DEF TypeOK, TokenArrives, MoveTo, Stages, QueuedStages, Tasks, contentVars
<1>3. CASE Answer(c)
  <2>1. PICK a \in Answers : answer' = [answer EXCEPT ![c] = a]
    BY <1>3 DEF Answer, PossibleAnswers
  <2>2. answer' \in [Calls -> Answers \cup {NoAnswer}]
    BY <2>1 DEF TypeOK
  <2> QED BY <1>3, <2>2 DEF TypeOK, Answer, MoveTo, Stages, DelegateStages, contentVars
<1>4. CASE ClearFetchInProgress(c)
  <2>1. settings' \in Settings
    BY <1>4 DEF ClearFetchInProgress, TypeOK, Settings
  <2> QED BY <1>4, <2>1 DEF TypeOK, ClearFetchInProgress, MoveTo, Stages, DelegateStages,
             queueVars, contentVars
<1>5. CASE DispatchResponse(c)
  <2>1. queue' \in Seq(Tasks)
    BY <1>5 DEF DispatchResponse, TypeOK, Tasks
  <2>2. delegateQueue' \in Seq(Calls)
    BY <1>5, TailType DEF DispatchResponse, CallingBack, TypeOK
  <2> QED BY <1>5, <2>1, <2>2 DEF TypeOK, DispatchResponse, MoveTo, Stages, QueuedStages,
             contentVars
<1> QED BY <1>1, <1>2, <1>3, <1>4, <1>5 DEF TokenStep, CallbackStep

LEMMA EnvironmentType == TypeOK /\ EnvironmentStep => TypeOK'
<1> SUFFICES ASSUME TypeOK, EnvironmentStep PROVE TypeOK'
  OBVIOUS
<1>1. CASE Publish
  BY <1>1, ConstantsAssumption
  DEF TypeOK, Publish, Versions, queueVars, callVars, contentVars
<1>2. CASE TimePasses \/ ClockSetBack
  BY <1>2, ConstantsAssumption
  DEF TypeOK, TimePasses, ClockSetBack, queueVars, callVars, contentVars
<1>3. CASE DeviceContextChanges
  <2>1. settings' \in Settings
    BY <1>3 DEF DeviceContextChanges, TypeOK, Settings
  <2> QED BY <1>3, <2>1 DEF TypeOK, DeviceContextChanges, queueVars, callVars, contentVars
<1> QED BY <1>1, <1>2, <1>3 DEF EnvironmentStep

LEMMA StutterType == TypeOK /\ UNCHANGED vars => TypeOK'
BY DEF TypeOK, vars, queueVars, callVars, contentVars

LEMMA NextType == TypeOK /\ [Next]_vars => TypeOK'
BY ClientType, QueueStepType, NetworkType, EnvironmentType, StutterType
DEF Next, LibraryStep

\* The client's state keeps its types: in particular every queue only ever holds
\* blocks of known kinds, whatever the app calls and the network answers.
THEOREM TypeCorrect == Spec => []TypeOK
BY InitType, NextType, PTL DEF Spec

-----------------------------------------------------------------------------
(* No call is lost.  What running the head of a queue and dispatching to its *)
(* end do to the place of a call:                                            *)

LEMMA PopFacts ==
  ASSUME NEW S, NEW q \in Seq(S), q # << >>
  PROVE  /\ Len(q) \in Nat \ {0} /\ DOMAIN q = 1 .. Len(q) /\ 1 \in DOMAIN q /\ Head(q) = q[1]
         /\ DOMAIN Tail(q) = 1 .. Len(q) - 1
         /\ \A j \in 1 .. Len(q) - 1 : j + 1 \in DOMAIN q /\ Tail(q)[j] = q[j + 1]
OBVIOUS

LEMMA PopSelf ==
  ASSUME NEW S, NEW q \in Seq(S), q # << >>, NEW x, Head(q) = x
  PROVE  ~Absent(q, x) /\ (Once(q, x) => Absent(Tail(q), x))
<1>1. ~Absent(q, x)
  BY PopFacts DEF Absent
<1>2. ASSUME Once(q, x), NEW j \in DOMAIN Tail(q) PROVE Tail(q)[j] # x
  <2>1. PICK i \in DOMAIN q : \A k \in DOMAIN q : q[k] = x <=> k = i
    BY <1>2 DEF Once
  <2>2. i = 1
    BY <2>1, PopFacts
  <2>3. j \in 1 .. Len(q) - 1 /\ j + 1 \in DOMAIN q /\ Tail(q)[j] = q[j + 1] /\ j + 1 # 1
    BY PopFacts
  <2> QED BY <2>1, <2>2, <2>3
<1> QED BY <1>1, <1>2 DEF Absent

LEMMA PopOther ==
  ASSUME NEW S, NEW q \in Seq(S), q # << >>, NEW x, Head(q) # x
  PROVE  (Once(q, x) => Once(Tail(q), x)) /\ (Absent(q, x) => Absent(Tail(q), x))
<1>1. ASSUME Once(q, x) PROVE Once(Tail(q), x)
  <2>1. PICK i \in DOMAIN q : \A k \in DOMAIN q : q[k] = x <=> k = i
    BY <1>1 DEF Once
  <2>2. i # 1 /\ i \in 1 .. Len(q)
    BY <2>1, PopFacts
  <2>3. i - 1 \in DOMAIN Tail(q)
    BY <2>2, PopFacts
  <2>4. ASSUME NEW j \in DOMAIN Tail(q) PROVE Tail(q)[j] = x <=> j = i - 1
    <3>1. j \in Int /\ j + 1 \in DOMAIN q /\ Tail(q)[j] = q[j + 1]
      BY PopFacts
    <3>2. q[j + 1] = x <=> j + 1 = i
      BY <2>1, <3>1
    <3> QED BY <2>2, <3>1, <3>2
  <2> QED BY <2>3, <2>4 DEF Once
<1>2. ASSUME Absent(q, x) PROVE Absent(Tail(q), x)
  BY <1>2, PopFacts DEF Absent
<1> QED BY <1>1, <1>2

LEMMA PushFacts ==
  ASSUME NEW S, NEW q \in Seq(S), NEW y \in S
  PROVE  /\ Len(q) \in Nat /\ DOMAIN q = 1 .. Len(q)
         /\ DOMAIN Append(q, y) = 1 .. Len(q) + 1
         /\ Append(q, y)[Len(q) + 1] = y
         /\ \A j \in 1 .. Len(q) : Append(q, y)[j] = q[j]
OBVIOUS

LEMMA PushSelf ==
  ASSUME NEW S, NEW q \in Seq(S), NEW x \in S, Absent(q, x)
  PROVE  Once(Append(q, x), x)
<1>1. Len(q) + 1 \in DOMAIN Append(q, x)
  BY PushFacts
<1>2. ASSUME NEW j \in DOMAIN Append(q, x) PROVE Append(q, x)[j] = x <=> j = Len(q) + 1
  BY PushFacts DEF Absent
<1> QED BY <1>1, <1>2 DEF Once

LEMMA PushOther ==
  ASSUME NEW S, NEW q \in Seq(S), NEW y \in S, NEW x, x # y
  PROVE  (Once(q, x) => Once(Append(q, y), x)) /\ (Absent(q, x) => Absent(Append(q, y), x))
<1>1. ASSUME Once(q, x) PROVE Once(Append(q, y), x)
  <2>1. PICK i \in DOMAIN q : \A k \in DOMAIN q : q[k] = x <=> k = i
    BY <1>1 DEF Once
  <2>2. i \in DOMAIN Append(q, y)
    BY <2>1, PushFacts
  <2>3. ASSUME NEW j \in DOMAIN Append(q, y) PROVE Append(q, y)[j] = x <=> j = i
    BY <2>1, PushFacts
  <2> QED BY <2>2, <2>3 DEF Once
<1>2. ASSUME Absent(q, x) PROVE Absent(Append(q, y), x)
  BY <1>2, PushFacts DEF Absent
<1> QED BY <1>1, <1>2

\* One hop of call x: q becomes q2, and x had or had not a block there before,
\* has or has not one after.
Hop(q, q2, x, before, after) ==
  \/ q2 = q /\ (before <=> after)
  \/ q2 = Append(q, x) /\ ~before /\ after
  \/ q # << >> /\ Head(q) = x /\ q2 = Tail(q) /\ ~after
  \/ q # << >> /\ Head(q) = x /\ q2 = Append(Tail(q), x) /\ after

\* What any hop of x does to the place of x and of the others.
LEMMA HopPlaces ==
  ASSUME NEW S, NEW q \in Seq(S), NEW x \in S, NEW q2
  PROVE  /\ q2 = Append(q, x) /\ Absent(q, x) => Once(q2, x)
         /\ q # << >> /\ Head(q) = x /\ Absent(q, x) => FALSE
         /\ q # << >> /\ Head(q) = x /\ q2 = Tail(q) /\ Once(q, x) => Absent(q2, x)
         /\ q # << >> /\ Head(q) = x /\ q2 = Append(Tail(q), x) /\ Once(q, x) => Once(q2, x)
         /\ \A y : /\ y # x
                   /\ \/ q2 = q \/ q2 = Append(q, x)
                      \/ q # << >> /\ Head(q) = x /\ (q2 = Tail(q) \/ q2 = Append(Tail(q), x))
                   => (Once(q, y) => Once(q2, y)) /\ (Absent(q, y) => Absent(q2, y))
<1>1. q # << >> => Tail(q) \in Seq(S)
  BY TailType
<1>2. q2 = Append(q, x) /\ Absent(q, x) => Once(q2, x)
  BY PushSelf
<1>3. ASSUME q # << >>, Head(q) = x PROVE ~Absent(q, x) /\ (Once(q, x) => Absent(Tail(q), x))
  BY <1>3, PopSelf
<1>4. ASSUME q # << >>, Head(q) = x, Once(q, x) PROVE Once(Append(Tail(q), x), x)
  BY <1>1, <1>3, <1>4, PushSelf
<1>5. ASSUME NEW y, y # x,
             \/ q2 = q \/ q2 = Append(q, x)
             \/ q # << >> /\ Head(q) = x /\ (q2 = Tail(q) \/ q2 = Append(Tail(q), x))
      PROVE  (Once(q, y) => Once(q2, y)) /\ (Absent(q, y) => Absent(q2, y))
  <2>1. CASE q2 = q
    BY <2>1
  <2>2. CASE q2 = Append(q, x)
    BY <1>5, <2>2, PushOther
  <2>3. CASE q # << >> /\ Head(q) = x /\ q2 = Tail(q)
    BY <1>5, <2>3, PopOther
  <2>4. CASE q # << >> /\ Head(q) = x /\ q2 = Append(Tail(q), x)
    <3>1. (Once(q, y) => Once(Tail(q), y)) /\ (Absent(q, y) => Absent(Tail(q), y))
      BY <1>5, <2>4, PopOther
    <3> QED BY <1>1, <1>5, <2>4, <3>1, PushOther
  <2> QED BY <1>5, <2>1, <2>2, <2>3, <2>4
<1> QED BY <1>2, <1>3, <1>4, <1>5

\* A step that moves one call keeps NoCallLost if it makes the three hops that
\* the old and the new stage call for.
LEMMA HopStep ==
  ASSUME TypeOK, NoCallLost, NEW c \in Calls, NEW st, MoveTo(c, st),
         Hop(queue, queue', c, stage[c] \in QueuedStages, st \in QueuedStages),
         Hop(delegateQueue, delegateQueue', c, stage[c] \in DelegateStages, st \in DelegateStages),
         Hop(mainQueue, mainQueue', c, stage[c] = "reported", st = "reported")
  PROVE  NoCallLost'
<1> SUFFICES ASSUME NEW d \in Calls
             PROVE  /\ Placed(queue', d, stage'[d] \in QueuedStages)
                    /\ Placed(delegateQueue', d, stage'[d] \in DelegateStages)
                    /\ Placed(mainQueue', d, stage'[d] = "reported")
  BY DEF NoCallLost, Placed, Once, Absent
<1>1. /\ queue \in Seq(Tasks) /\ delegateQueue \in Seq(Calls) /\ mainQueue \in Seq(Calls)
      /\ c \in Tasks
      /\ Placed(queue, d, stage[d] \in QueuedStages)
      /\ Placed(delegateQueue, d, stage[d] \in DelegateStages)
      /\ Placed(mainQueue, d, stage[d] = "reported")
  BY DEF TypeOK, Tasks, NoCallLost
<1>2. CASE d = c
  <2>1. stage'[d] = st
    BY <1>2 DEF MoveTo, TypeOK
  <2>2. Placed(queue', d, st \in QueuedStages)
    BY <1>1, <1>2, HopPlaces DEF Hop, Placed
  <2>3. Placed(delegateQueue', d, st \in DelegateStages)
    BY <1>1, <1>2, HopPlaces DEF Hop, Placed
  <2>4. Placed(mainQueue', d, st = "reported")
    BY <1>1, <1>2, HopPlaces DEF Hop, Placed
  <2> QED BY <2>1, <2>2, <2>3, <2>4
<1>3. CASE d # c
  <2>1. stage'[d] = stage[d]
    BY <1>3 DEF MoveTo, TypeOK
  <2>2. Placed(queue', d, stage[d] \in QueuedStages)
    BY <1>1, <1>3, HopPlaces DEF Hop, Placed
  <2>3. Placed(delegateQueue', d, stage[d] \in DelegateStages)
    BY <1>1, <1>3, HopPlaces DEF Hop, Placed
  <2>4. Placed(mainQueue', d, stage[d] = "reported")
    BY <1>1, <1>3, HopPlaces DEF Hop, Placed
  <2> QED BY <2>1, <2>2, <2>3, <2>4
<1> QED BY <1>2, <1>3

\* A step on a block of the serial queue that belongs to no call.
LEMMA OtherTaskStep ==
  ASSUME TypeOK, NoCallLost, NEW t \in Tasks \ Calls,
         UNCHANGED <<stage, delegateQueue, mainQueue>>,
         queue' = Append(queue, t) \/ (Running(t) /\ queue' = Tail(queue))
  PROVE  NoCallLost'
<1>1. ASSUME NEW d \in Calls PROVE Placed(queue', d, stage[d] \in QueuedStages)
  <2>1. queue \in Seq(Tasks) /\ Placed(queue, d, stage[d] \in QueuedStages) /\ d # t
    BY DEF TypeOK, NoCallLost
  <2> QED BY <2>1, HopPlaces DEF Running, Placed
<1> QED BY <1>1 DEF NoCallLost, Placed, Once, Absent

LEMMA InitNoCallLost == Init => NoCallLost
<1> SUFFICES ASSUME Init, NEW c \in Calls
             PROVE  /\ Placed(queue, c, stage[c] \in QueuedStages)
                    /\ Placed(delegateQueue, c, stage[c] \in DelegateStages)
                    /\ Placed(mainQueue, c, stage[c] = "reported")
  BY DEF NoCallLost
<1>1. stage[c] = "idle"
  BY DEF Init
<1>2. Absent(queue, c)
  BY ConstantsAssumption DEF Init, Absent
<1>3. Absent(delegateQueue, c) /\ Absent(mainQueue, c)
  BY DEF Init, Absent
<1> QED BY <1>1, <1>2, <1>3 DEF Placed, QueuedStages, DelegateStages

LEMMA BlockKeepsCalls ==
  ASSUME TypeOK, NoCallLost, NEW c \in Calls, FetchBlock(c)
  PROVE  NoCallLost'
<1> USE DEF Hop, QueuedStages, DelegateStages, Running
<1>1. CASE RunFetch(c)
  BY <1>1, HopStep DEF RunFetch
<1>2. CASE ReturnCached(c) \/ ReturnInProgress(c)
  BY <1>2, HopStep DEF ReturnCached, ReturnInProgress, Checking, Report
<1>3. CASE ThrottleOrStart(c)
  BY <1>3, HopStep DEF ThrottleOrStart, Checking, Report
<1>4. CASE RunToken(c) \/ RunSend(c)
  BY <1>4, HopStep DEF RunToken, RunSend
<1>5. CASE RunTokenOrSendFails(c)
  BY <1>5, HopStep DEF RunTokenOrSendFails, FailFetch, Report
<1>6. CASE RunFailedResponse(c)
  BY <1>6, HopStep DEF RunFailedResponse, Responding, Report
<1>7. CASE RunEmptyResponse(c) \/ RunConfigResponse(c)
  BY <1>7, HopStep DEF RunEmptyResponse, RunConfigResponse, Responding, Report
<1> QED BY <1>1, <1>2, <1>3, <1>4, <1>5, <1>6, <1>7 DEF FetchBlock, CheckStep, ResponseStep

LEMMA NetworkKeepsCalls ==
  ASSUME TypeOK, NoCallLost, NEW c \in Calls, TokenStep(c) \/ Answer(c) \/ CallbackStep(c)
  PROVE  NoCallLost'
<1> USE DEF Hop, QueuedStages, DelegateStages
<1>1. CASE TokenFails(c) \/ TokenArrives(c)
  BY <1>1, HopStep DEF TokenFails, TokenArrives, FailFetch, Report
<1>2. CASE Answer(c)
  BY <1>2, HopStep DEF Answer
<1>3. CASE ClearFetchInProgress(c) \/ DispatchResponse(c)
  BY <1>3, HopStep DEF ClearFetchInProgress, DispatchResponse, CallingBack, queueVars
<1> QED BY <1>1, <1>2, <1>3 DEF TokenStep, CallbackStep

\* A call whose completion is on the main queue has been reported.
LEMMA CompletionReported ==
  ASSUME TypeOK, NoCallLost, NEW c \in Calls, RunCompletion(c)
  PROVE  stage[c] = "reported"
<1>1. mainQueue \in Seq(Calls) /\ mainQueue # << >> /\ Head(mainQueue) = c
  BY DEF TypeOK, RunCompletion
<1>2. ~Absent(mainQueue, c)
  BY <1>1, HopPlaces
<1> QED BY <1>2 DEF NoCallLost, Placed

LEMMA NextNoCallLost == TypeOK /\ NoCallLost /\ [Next]_vars => NoCallLost'
<1> SUFFICES ASSUME TypeOK, NoCallLost, [Next]_vars PROVE NoCallLost'
  OBVIOUS
<1>1. ASSUME NEW c \in Calls, fetchWithCompletionHandler(c) \/ RunCompletion(c)
      PROVE  NoCallLost'
  <2>1. CASE fetchWithCompletionHandler(c)
    BY <2>1, HopStep DEF fetchWithCompletionHandler, Hop, QueuedStages, DelegateStages
  <2>2. CASE RunCompletion(c)
    BY <2>2, CompletionReported, HopStep DEF RunCompletion, Hop, QueuedStages, DelegateStages
  <2> QED BY <1>1, <2>1, <2>2
<1>2. {"setDefaults", "activate", "sync"} \subseteq Tasks \ Calls
  BY ConstantsAssumption DEF Tasks
<1>3. CASE activateWithCompletion \/ configValueForKey
  BY <1>2, <1>3, OtherTaskStep DEF activateWithCompletion, configValueForKey, callVars
<1>4. CASE RunRead \/ RunSetDefaults \/ SkipActivate \/ ApplyActivate
  BY <1>2, <1>4, OtherTaskStep DEF RunRead, RunSetDefaults, SkipActivate, ApplyActivate, callVars
<1>5. CASE EnvironmentStep \/ UNCHANGED vars
  <2>1. UNCHANGED <<queue, delegateQueue, mainQueue, stage>>
    BY <1>5 DEF EnvironmentStep, Publish, TimePasses, ClockSetBack, DeviceContextChanges, vars,
       queueVars, callVars
  <2> QED BY <2>1 DEF NoCallLost, Placed, Once, Absent
<1> QED
  BY <1>1, <1>3, <1>4, <1>5, BlockKeepsCalls, NetworkKeepsCalls
  DEF Next, ClientStep, Completion, LibraryStep, QueueStep

\* No hop of a fetch between the serial queue, the URL session's queue and the
\* main queue (RCNConfigFetch.m) drops or doubles its completion, for any number
\* of calls: each call always is in exactly the queue its stage names.
THEOREM CallsNeverLost == Spec => []NoCallLost
<1>1. Init => TypeOK /\ NoCallLost
  BY InitType, InitNoCallLost
<1>2. TypeOK /\ NoCallLost /\ [Next]_vars => (TypeOK /\ NoCallLost)'
  BY NextType, NextNoCallLost
<1> QED BY <1>1, <1>2, PTL DEF Spec

-----------------------------------------------------------------------------
(* One fetch in progress.  A step moves at most one call, and with respect  *)
(* to InFlightStages it keeps the call's side, enters or leaves.            *)

LEMMA StageKept ==
  ASSUME OneFetchInProgress, UNCHANGED stage,
         settings'.isFetchInProgress = settings.isFetchInProgress
  PROVE  OneFetchInProgress'
BY DEF OneFetchInProgress, InFlight

LEMMA SideKept ==
  ASSUME TypeOK, OneFetchInProgress, NEW c \in Calls, NEW st, MoveTo(c, st),
         stage[c] \in InFlightStages <=> st \in InFlightStages,
         settings'.isFetchInProgress = settings.isFetchInProgress
  PROVE  OneFetchInProgress'
<1>1. \A d \in Calls : stage'[d] \in InFlightStages <=> stage[d] \in InFlightStages
  BY DEF TypeOK, MoveTo
<1>2. InFlight' = InFlight
  BY <1>1 DEF InFlight
<1> QED BY <1>2 DEF OneFetchInProgress

LEMMA Entered ==
  ASSUME TypeOK, OneFetchInProgress, NEW c \in Calls, NEW st, MoveTo(c, st),
         ~settings.isFetchInProgress, st \in InFlightStages, settings'.isFetchInProgress
  PROVE  OneFetchInProgress'
<1>1. InFlight' = {c}
  BY DEF OneFetchInProgress, InFlight, TypeOK, MoveTo
<1> QED BY <1>1 DEF OneFetchInProgress

LEMMA Left ==
  ASSUME TypeOK, OneFetchInProgress, NEW c \in Calls, NEW st, MoveTo(c, st),
         stage[c] \in InFlightStages, st \notin InFlightStages,
         ~settings'.isFetchInProgress
  PROVE  OneFetchInProgress'
<1>1. InFlight = {c}
  BY DEF OneFetchInProgress, InFlight
<1>2. InFlight' = {}
  BY <1>1 DEF InFlight, TypeOK, MoveTo
<1> QED BY <1>2 DEF OneFetchInProgress

\* Processing an answer does not touch the flag, which its callback cleared.
LEMMA ResponseKeepsFlag ==
  ASSUME TypeOK, NEW c \in Calls, ResponseStep(c)
  PROVE  /\ settings'.isFetchInProgress = settings.isFetchInProgress
         /\ stage[c] = "responseQueued" /\ MoveTo(c, "reported")
<1>1. CASE RunFailedResponse(c)
  BY <1>1 DEF RunFailedResponse, Responding, Report, TypeOK, Settings,
     updateMetadataWithFetchFailure, updateExponentialBackoffTime
<1>2. CASE RunEmptyResponse(c)
  BY <1>2 DEF RunEmptyResponse, Responding, Report
<1>3. CASE RunConfigResponse(c)
  BY <1>3 DEF RunConfigResponse, Responding, Report, TypeOK, Settings,
     updateMetadataWithFetchSuccess, setLastETag
<1> QED BY <1>1, <1>2, <1>3 DEF ResponseStep

LEMMA BlockKeepsOneFetch ==
  ASSUME TypeOK, OneFetchInProgress, NEW c \in Calls, FetchBlock(c)
  PROVE  OneFetchInProgress'
<1>1. CASE RunFetch(c)
  BY <1>1, SideKept DEF RunFetch, InFlightStages
<1>2. CASE ReturnCached(c) \/ ReturnInProgress(c)
  BY <1>2, SideKept DEF ReturnCached, ReturnInProgress, Checking, Report, InFlightStages
<1>3. CASE ThrottleOrStart(c)
  <2>1. CASE Throttle(c)
    BY <1>3, <2>1, SideKept
    DEF ThrottleOrStart, Checking, Report, InFlightStages, TypeOK, Settings
  <2>2. CASE ~Throttle(c)
    BY <1>3, <2>2, Entered DEF ThrottleOrStart, InFlightStages, TypeOK, Settings
  <2> QED BY <2>1, <2>2
<1>4. CASE RunToken(c) \/ RunSend(c)
  BY <1>4, SideKept DEF RunToken, RunSend, InFlightStages
<1>5. CASE RunTokenOrSendFails(c)
  BY <1>5, Left DEF RunTokenOrSendFails, FailFetch, Report, InFlightStages, TypeOK, Settings
<1>6. CASE ResponseStep(c)
  BY <1>6, ResponseKeepsFlag, SideKept DEF InFlightStages
<1> QED BY <1>1, <1>2, <1>3, <1>4, <1>5, <1>6 DEF FetchBlock, CheckStep

LEMMA NetworkKeepsOneFetch ==
  ASSUME TypeOK, OneFetchInProgress, NEW c \in Calls,
         TokenStep(c) \/ Answer(c) \/ CallbackStep(c)
  PROVE  OneFetchInProgress'
<1>1. CASE TokenFails(c)
  BY <1>1, Left DEF TokenFails, FailFetch, Report, InFlightStages, TypeOK, Settings
<1>2. CASE TokenArrives(c) \/ Answer(c) \/ DispatchResponse(c)
  BY <1>2, SideKept DEF TokenArrives, Answer, DispatchResponse, InFlightStages
<1>3. CASE ClearFetchInProgress(c)
  BY <1>3, Left DEF ClearFetchInProgress, InFlightStages, TypeOK, Settings
<1> QED BY <1>1, <1>2, <1>3 DEF TokenStep, CallbackStep

LEMMA NextOneFetch ==
  TypeOK /\ NoCallLost /\ OneFetchInProgress /\ [Next]_vars => OneFetchInProgress'
<1> SUFFICES ASSUME TypeOK, NoCallLost, OneFetchInProgress, [Next]_vars PROVE OneFetchInProgress'
  OBVIOUS
<1>1. ASSUME NEW c \in Calls, fetchWithCompletionHandler(c) \/ RunCompletion(c)
      PROVE  OneFetchInProgress'
  <2>1. CASE fetchWithCompletionHandler(c)
    BY <2>1, SideKept DEF fetchWithCompletionHandler, InFlightStages
  <2>2. CASE RunCompletion(c)
    BY <2>2, CompletionReported, SideKept DEF RunCompletion, InFlightStages
  <2> QED BY <1>1, <2>1, <2>2
<1>2. CASE activateWithCompletion \/ configValueForKey \/ RunRead \/ RunSetDefaults \/ SkipActivate
  BY <1>2, StageKept
  DEF activateWithCompletion, configValueForKey, RunRead, RunSetDefaults, SkipActivate, callVars
<1>3. CASE ApplyActivate
  BY <1>3, StageKept DEF ApplyActivate, callVars, TypeOK, Settings
<1>4. CASE EnvironmentStep \/ UNCHANGED vars
  BY <1>4, StageKept
  DEF EnvironmentStep, Publish, TimePasses, ClockSetBack, DeviceContextChanges, vars, callVars,
      TypeOK, Settings
<1> QED
  BY <1>1, <1>2, <1>3, <1>4, BlockKeepsOneFetch, NetworkKeepsOneFetch
  DEF Next, ClientStep, Completion, LibraryStep, QueueStep

LEMMA InitOneFetch == Init => OneFetchInProgress
BY DEF Init, InitialSettings, OneFetchInProgress, InFlight, InFlightStages

\* isFetchInProgress, set on one thread and cleared on others, is YES exactly
\* while one fetch waits for its token or answer: for any number of calls no two
\* requests overlap, and the flag is never left set by a failure.  NoCallLost is
\* needed for one case: only a finished call has a completion on the main queue.
THEOREM OneFetchAtATime == Spec => []OneFetchInProgress
<1> DEFINE Inv == TypeOK /\ NoCallLost /\ OneFetchInProgress
<1>1. Init => Inv
  BY InitType, InitNoCallLost, InitOneFetch
<1>2. Inv /\ [Next]_vars => Inv'
  BY NextType, NextNoCallLost, NextOneFetch
<1> QED BY <1>1, <1>2, PTL DEF Spec

=============================================================================
