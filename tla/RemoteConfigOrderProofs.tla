----------------------- MODULE RemoteConfigOrderProofs -----------------------
(***************************************************************************)
(* Proofs about the order in which the client applies the server's answers *)
(* and about what its tag and its clock readings then say of the contents, *)
(* for any number of overlapping fetches and published templates.          *)
(***************************************************************************)
EXTENDS RemoteConfigProofs

-----------------------------------------------------------------------------
(* The answers on their way to the fetched config, from the server through *)
(* the delegate queue and the serial queue, carry versions in order.       *)

Usable(c) == answer[c].kind \in {"config", "noChange"}
Waiting   == {c \in Calls : stage[c] = "responseQueued" /\ Usable(c)}
Returning == {c \in Calls : stage[c] \in DelegateStages /\ Usable(c)}

\* Calls of S stand in q in the order of the versions v.
InOrder(q, S, v) ==
  \A i, j \in DOMAIN q : i < j /\ q[i] \in S /\ q[j] \in S => v[q[i]].version <= v[q[j]].version

\* A usable answer carries the published template of the moment it was given,
\* which is not older than the entries the client holds.
AnswersCurrent ==
  /\ fetched <= published
  /\ \A c \in Waiting \cup Returning :
       /\ fetched <= answer[c].version /\ answer[c].version <= published
       /\ answer[c].tag = answer[c].version

\* Answers are dispatched to the serial queue in the order they were given.
AnswersInOrder ==
  /\ InOrder(queue, Waiting, answer)
  /\ InOrder(delegateQueue, Returning, answer)
  /\ \A c \in Waiting, d \in Returning : answer[c].version <= answer[d].version

OrderInv == AnswersCurrent /\ AnswersInOrder

-----------------------------------------------------------------------------
(* What the operations on queues do to the order *)

\* Fewer calls, with the same versions, are still in order.
LEMMA OrderSubset ==
  ASSUME NEW q, NEW S, NEW v, NEW T, NEW w, InOrder(q, S, v), T \subseteq S,
         \A c \in T : w[c] = v[c]
  PROVE  InOrder(q, T, w)
BY DEF InOrder

LEMMA OrderPop ==
  ASSUME NEW Q, NEW q \in Seq(Q), q # << >>, NEW S, NEW v, InOrder(q, S, v)
  PROVE  InOrder(Tail(q), S, v)
<1> SUFFICES ASSUME NEW i \in DOMAIN Tail(q), NEW j \in DOMAIN Tail(q), i < j,
                    Tail(q)[i] \in S, Tail(q)[j] \in S
             PROVE  v[Tail(q)[i]].version <= v[Tail(q)[j]].version
  BY DEF InOrder
<1>1. /\ i \in Int /\ j \in Int /\ i + 1 \in DOMAIN q /\ j + 1 \in DOMAIN q
      /\ Tail(q)[i] = q[i + 1] /\ Tail(q)[j] = q[j + 1]
  BY PopFacts
<1> QED BY <1>1 DEF InOrder

LEMMA OrderPushOther ==
  ASSUME NEW Q, NEW q \in Seq(Q), NEW y \in Q, NEW S, NEW v, InOrder(q, S, v), y \notin S
  PROVE  InOrder(Append(q, y), S, v)
<1> SUFFICES ASSUME NEW i \in DOMAIN Append(q, y), NEW j \in DOMAIN Append(q, y), i < j,
                    Append(q, y)[i] \in S, Append(q, y)[j] \in S
             PROVE  v[Append(q, y)[i]].version <= v[Append(q, y)[j]].version
  BY DEF InOrder
<1>1. i \in 1 .. Len(q) /\ j \in 1 .. Len(q) /\ DOMAIN q = 1 .. Len(q)
  BY PushFacts
<1>2. Append(q, y)[i] = q[i] /\ Append(q, y)[j] = q[j]
  BY <1>1, PushFacts
<1> QED BY <1>1, <1>2 DEF InOrder

\* A call whose version is no less than that of every other one may join at the end.
LEMMA OrderPushLast ==
  ASSUME NEW Q, NEW q \in Seq(Q), NEW y \in Q, NEW S, NEW v, InOrder(q, S \ {y}, v),
         Absent(q, y), \A x \in S \ {y} : v[x].version <= v[y].version
  PROVE  InOrder(Append(q, y), S, v)
<1> SUFFICES ASSUME NEW i \in DOMAIN Append(q, y), NEW j \in DOMAIN Append(q, y), i < j,
                    Append(q, y)[i] \in S, Append(q, y)[j] \in S
             PROVE  v[Append(q, y)[i]].version <= v[Append(q, y)[j]].version
  BY DEF InOrder
<1>1. i \in 1 .. Len(q) /\ j \in 1 .. Len(q) + 1 /\ DOMAIN q = 1 .. Len(q) /\ Len(q) \in Nat
  BY PushFacts
<1>2. Append(q, y)[i] = q[i] /\ q[i] # y
  BY <1>1, PushFacts DEF Absent
<1>3. CASE j = Len(q) + 1
  BY <1>2, <1>3, PushFacts
<1>4. CASE j \in 1 .. Len(q)
  <2>1. Append(q, y)[j] = q[j] /\ q[j] # y
    BY <1>1, <1>4, PushFacts DEF Absent
  <2> QED BY <1>1, <1>2, <1>4, <2>1 DEF InOrder
<1> QED BY <1>1, <1>3, <1>4

\* The call at the head carries the least version.
LEMMA OrderHead ==
  ASSUME NEW Q, NEW q \in Seq(Q), q # << >>, NEW S, NEW v, InOrder(q, S, v), Head(q) \in S,
         NEW d \in S, d # Head(q), ~Absent(q, d)
  PROVE  v[Head(q)].version <= v[d].version
<1>1. PICK j \in DOMAIN q : q[j] = d
  BY DEF Absent
<1>2. Head(q) = q[1] /\ 1 \in DOMAIN q /\ j \in Nat /\ 1 < j
  BY <1>1, PopFacts
<1> QED BY <1>1, <1>2 DEF InOrder


-----------------------------------------------------------------------------
(* No step disturbs the order *)

\* The serial queue after the step that runs or dispatches block t.
QueueMoved(t) ==
  \/ queue' = queue
  \/ queue' = Append(queue, t)
  \/ queue # << >> /\ (queue' = Tail(queue) \/ queue' = Append(Tail(queue), t))

\* A step that brings no answer closer and leaves the fetched config alone.
LEMMA QuietStep ==
  ASSUME TypeOK, OrderInv, NEW t \in Tasks, QueueMoved(t), t \notin Waiting',
         Waiting' \subseteq Waiting, Returning' \subseteq Returning,
         \A d \in Waiting' \cup Returning' : answer'[d] = answer[d],
         delegateQueue' = delegateQueue, fetched' = fetched,
         published' \in Int, published <= published'
  PROVE  OrderInv'
<1>1. AnswersCurrent'
  <2>1. fetched \in Int /\ published \in Int
    BY DEF TypeOK, Versions
  <2>2. ASSUME NEW d \in Waiting' \cup Returning'
        PROVE  /\ fetched <= answer'[d].version /\ answer'[d].version <= published'
               /\ answer'[d].tag = answer'[d].version
    <3>1. d \in Waiting \cup Returning /\ answer'[d] = answer[d] /\ d \in Calls
      BY DEF Waiting, Returning
    <3>2. answer[d].version \in Int
      BY <3>1 DEF TypeOK, Answers, NoAnswer, Versions
    <3> QED BY <2>1, <3>1, <3>2 DEF OrderInv, AnswersCurrent
  <2> QED BY <2>1, <2>2 DEF OrderInv, AnswersCurrent
<1>2. InOrder(queue', Waiting', answer')
  <2>1. InOrder(queue, Waiting', answer') /\ queue \in Seq(Tasks)
    BY OrderSubset DEF OrderInv, AnswersInOrder, TypeOK
  <2>2. queue # << >> => Tail(queue) \in Seq(Tasks) /\ InOrder(Tail(queue), Waiting', answer')
    BY <2>1, OrderPop, TailType
  <2> QED BY <2>1, <2>2, OrderPushOther DEF QueueMoved
<1>3. InOrder(delegateQueue', Returning', answer')
  BY OrderSubset DEF OrderInv, AnswersInOrder
<1>4. \A c \in Waiting', d \in Returning' : answer'[c].version <= answer'[d].version
  BY DEF OrderInv, AnswersInOrder
<1> QED BY <1>1, <1>2, <1>3, <1>4 DEF OrderInv, AnswersInOrder

\* A call moved to a stage without a pending answer is dropped from both sets.
LEMMA MovedAway ==
  ASSUME TypeOK, NEW c \in Calls, NEW st, MoveTo(c, st),
         st \notin DelegateStages \cup {"responseQueued"},
         \A d \in Calls \ {c} : answer'[d] = answer[d]
  PROVE  /\ Waiting' = Waiting \ {c} /\ Returning' = Returning \ {c}
         /\ \A d \in Waiting' \cup Returning' : answer'[d] = answer[d]
BY DEF TypeOK, MoveTo, Waiting, Returning, Usable

LEMMA QuietMove ==
  ASSUME TypeOK, OrderInv, NEW c \in Calls, NEW st, MoveTo(c, st),
         st \notin DelegateStages \cup {"responseQueued"},
         \A d \in Calls \ {c} : answer'[d] = answer[d],
         QueueMoved(c), UNCHANGED <<delegateQueue, fetched, published>>
  PROVE  OrderInv'
<1>1. c \in Tasks /\ published' \in Int /\ published <= published'
  BY DEF TypeOK, Tasks, Versions
<1>2. /\ Waiting' = Waiting \ {c} /\ Returning' = Returning \ {c}
      /\ \A d \in Waiting' \cup Returning' : answer'[d] = answer[d]
  BY MovedAway
<1> QED BY <1>1, <1>2, QuietStep

LEMMA QuietTask ==
  ASSUME TypeOK, OrderInv, NEW t \in Tasks \ Calls, QueueMoved(t),
         UNCHANGED <<stage, answer, delegateQueue, fetched>>,
         published' \in Int, published <= published'
  PROVE  OrderInv'
<1>1. Waiting' = Waiting /\ Returning' = Returning /\ t \notin Waiting'
  BY DEF Waiting, Returning, Usable
<1> QED BY <1>1, QuietStep

\* Applying the answer at the head of the serial queue: no other answer that is
\* on its way is older.
LEMMA ConfigResponseKeepsOrder ==
  ASSUME TypeOK, NoCallLost, OrderInv, NEW c \in Calls, RunConfigResponse(c)
  PROVE  OrderInv' /\ fetched <= fetched'
<1>1. /\ queue \in Seq(Tasks) /\ queue # << >> /\ Head(queue) = c /\ queue' = Tail(queue)
      /\ stage[c] = "responseQueued" /\ MoveTo(c, "reported")
      /\ UNCHANGED <<answer, delegateQueue, published>>
  BY DEF TypeOK, RunConfigResponse, Responding, Running, Report
<1>2. CASE answer[c].kind # "config"
  <2>1. fetched' = fetched /\ fetched \in Int
    BY <1>2 DEF RunConfigResponse, TypeOK, Versions
  <2> QED BY <1>1, <2>1, QuietMove DEF QueueMoved, DelegateStages
<1>3. CASE answer[c].kind = "config"
  <2>1. c \in Waiting /\ fetched' = answer[c].version /\ fetched <= fetched'
    BY <1>1, <1>3 DEF RunConfigResponse, Waiting, Usable, OrderInv, AnswersCurrent
  <2>2. /\ Waiting' = Waiting \ {c} /\ Returning' = Returning \ {c}
        /\ \A d \in Waiting' \cup Returning' : answer'[d] = answer[d]
    BY <1>1, MovedAway DEF DelegateStages
  <2>3. ASSUME NEW d \in Waiting' \cup Returning' PROVE answer[c].version <= answer[d].version
    <3>1. CASE d \in Waiting
      <4>1. ~Absent(queue, d)
        <5>1. Once(queue, d)
          BY <3>1 DEF NoCallLost, Placed, Waiting, QueuedStages
        <5> QED BY <5>1 DEF Once, Absent
      <4> QED BY <1>1, <2>1, <2>2, <2>3, <3>1, <4>1, OrderHead DEF OrderInv, AnswersInOrder, Returning,
                 Waiting, DelegateStages
    <3>2. CASE d \in Returning
      BY <2>1, <3>2 DEF OrderInv, AnswersInOrder
    <3> QED BY <2>2, <2>3, <3>1, <3>2
  <2>4. AnswersCurrent'
    BY <1>1, <2>1, <2>2, <2>3 DEF OrderInv, AnswersCurrent
  <2>5. InOrder(queue', Waiting', answer') /\ InOrder(delegateQueue', Returning', answer')
    <3>1. InOrder(Tail(queue), Waiting, answer)
      BY <1>1, OrderPop DEF OrderInv, AnswersInOrder
    <3> QED BY <1>1, <2>2, <3>1, OrderSubset DEF OrderInv, AnswersInOrder
  <2>6. \A w \in Waiting', d \in Returning' : answer'[w].version <= answer'[d].version
    BY <2>2 DEF OrderInv, AnswersInOrder
  <2> QED BY <2>1, <2>4, <2>5, <2>6 DEF OrderInv, AnswersInOrder
<1> QED BY <1>2, <1>3


\* A new answer joins the end of the delegate queue with the newest version.
LEMMA AnswerKeepsOrder ==
  ASSUME TypeOK, NoCallLost, OrderInv, NEW c \in Calls, Answer(c)
  PROVE  OrderInv'
<1>1. /\ stage[c] = "http" /\ MoveTo(c, "answered")
      /\ delegateQueue \in Seq(Calls) /\ delegateQueue' = Append(delegateQueue, c)
      /\ UNCHANGED <<queue, fetched, published>>
      /\ fetched \in Int /\ published \in Int
  BY DEF TypeOK, Answer, contentVars, Versions
<1>2. PICK a \in PossibleAnswers(c) : answer' = [answer EXCEPT ![c] = a]
  BY DEF Answer
<1>3. a.kind \in {"config", "noChange"} => a.version = published /\ a.tag = published
  BY <1>2 DEF PossibleAnswers
<1>4. /\ Waiting' = Waiting /\ Returning \subseteq Calls
      /\ c \notin Waiting /\ c \notin Returning
      /\ Returning' \ {c} = Returning
      /\ c \in Returning' => answer'[c].version = published /\ answer'[c].tag = published
      /\ \A d \in Waiting \cup Returning : answer'[d] = answer[d]
  BY <1>1, <1>2, <1>3 DEF TypeOK, MoveTo, Waiting, Returning, Usable, DelegateStages
<1>5. \A d \in Waiting \cup Returning :
        answer'[d] = answer[d] /\ fetched <= answer[d].version /\ answer[d].version <= published
  BY <1>4 DEF OrderInv, AnswersCurrent
<1>6. AnswersCurrent'
  <2> SUFFICES ASSUME NEW d \in Waiting' \cup Returning'
               PROVE  /\ fetched <= answer'[d].version /\ answer'[d].version <= published
                      /\ answer'[d].tag = answer'[d].version
    BY <1>1 DEF OrderInv, AnswersCurrent
  <2>1. CASE d = c
    BY <1>1, <1>4, <2>1 DEF OrderInv, AnswersCurrent
  <2>2. CASE d # c
    BY <1>4, <2>2 DEF OrderInv, AnswersCurrent
  <2> QED BY <2>1, <2>2
<1>7. InOrder(queue', Waiting', answer')
  BY <1>1, <1>4, OrderSubset DEF OrderInv, AnswersInOrder
<1>8. InOrder(delegateQueue', Returning', answer')
  <2>1. InOrder(delegateQueue, Returning' \ {c}, answer')
    BY <1>4, OrderSubset DEF OrderInv, AnswersInOrder
  <2>2. Absent(delegateQueue, c)
    BY <1>1 DEF NoCallLost, Placed, DelegateStages
  <2>3. CASE c \in Returning'
    BY <1>1, <1>4, <1>5, <2>1, <2>2, <2>3, OrderPushLast
  <2>4. CASE c \notin Returning'
    <3>1. Returning' \ {c} = Returning'
      BY <2>4
    <3> QED BY <1>1, <2>1, <2>4, <3>1, OrderPushOther
  <2> QED BY <2>3, <2>4
<1>9. \A w \in Waiting', d \in Returning' : answer'[w].version <= answer'[d].version
  <2> SUFFICES ASSUME NEW w \in Waiting', NEW d \in Returning'
               PROVE  answer'[w].version <= answer'[d].version
    OBVIOUS
  <2>1. CASE d = c
    BY <1>4, <1>5, <2>1
  <2>2. CASE d # c
    BY <1>4, <2>2 DEF OrderInv, AnswersInOrder
  <2> QED BY <2>1, <2>2
<1> QED BY <1>6, <1>7, <1>8, <1>9 DEF OrderInv, AnswersInOrder

\* The callback hands the oldest answer of the delegate queue to the end of the
\* serial queue.
LEMMA DispatchKeepsOrder ==
  ASSUME TypeOK, NoCallLost, OrderInv, NEW c \in Calls, DispatchResponse(c)
  PROVE  OrderInv'
<1>1. /\ stage[c] = "cleared" /\ MoveTo(c, "responseQueued")
      /\ queue \in Seq(Tasks) /\ c \in Tasks /\ queue' = Append(queue, c)
      /\ delegateQueue \in Seq(Calls) /\ delegateQueue # << >> /\ Head(delegateQueue) = c
      /\ delegateQueue' = Tail(delegateQueue)
      /\ UNCHANGED <<answer, fetched, published>>
  BY DEF TypeOK, Tasks, DispatchResponse, CallingBack, contentVars
<1>2. /\ Returning' = Returning \ {c} /\ c \notin Waiting
      /\ Waiting' \ {c} = Waiting /\ Waiting' \subseteq Waiting \cup {c}
      /\ c \in Waiting' => c \in Returning
  BY <1>1 DEF TypeOK, MoveTo, Waiting, Returning, Usable, DelegateStages
<1>3. AnswersCurrent'
  BY <1>1, <1>2 DEF OrderInv, AnswersCurrent
<1>4. InOrder(delegateQueue', Returning', answer')
  <2>1. InOrder(Tail(delegateQueue), Returning, answer)
    BY <1>1, OrderPop DEF OrderInv, AnswersInOrder
  <2> QED BY <1>1, <1>2, <2>1, OrderSubset
<1>5. InOrder(queue', Waiting', answer')
  <2>1. InOrder(queue, Waiting' \ {c}, answer)
    BY <1>2 DEF OrderInv, AnswersInOrder
  <2>2. Absent(queue, c)
    BY <1>1 DEF NoCallLost, Placed, QueuedStages
  <2>3. CASE c \in Waiting'
    <3>1. \A x \in Waiting' \ {c} : answer[x].version <= answer[c].version
      BY <1>2, <2>3 DEF OrderInv, AnswersInOrder
    <3> QED BY <1>1, <2>1, <2>2, <3>1, OrderPushLast
  <2>4. CASE c \notin Waiting'
    <3>1. Waiting' \ {c} = Waiting'
      BY <2>4
    <3> QED BY <1>1, <2>1, <2>4, <3>1, OrderPushOther
  <2> QED BY <2>3, <2>4
<1>6. \A w \in Waiting', d \in Returning' : answer'[w].version <= answer'[d].version
  <2> SUFFICES ASSUME NEW w \in Waiting', NEW d \in Returning'
               PROVE  answer[w].version <= answer[d].version
    BY <1>1
  <2>1. CASE w = c
    <3>1. Once(delegateQueue, d)
      BY <1>2 DEF NoCallLost, Placed, Returning
    <3>2. ~Absent(delegateQueue, d)
      BY <3>1 DEF Once, Absent
    <3> QED BY <1>1, <1>2, <2>1, <3>2, OrderHead DEF OrderInv, AnswersInOrder
  <2>2. CASE w # c
    BY <1>2, <2>2 DEF OrderInv, AnswersInOrder
  <2> QED BY <2>1, <2>2
<1> QED BY <1>3, <1>4, <1>5, <1>6 DEF OrderInv, AnswersInOrder

LEMMA ClearKeepsOrder ==
  ASSUME TypeOK, OrderInv, NEW c \in Calls, ClearFetchInProgress(c)
  PROVE  OrderInv'
<1>1. Waiting' = Waiting /\ Returning' = Returning
  BY DEF ClearFetchInProgress, MoveTo, TypeOK, Waiting, Returning, Usable, DelegateStages
<1>2. UNCHANGED <<queue, delegateQueue, answer, fetched, published>>
  BY DEF ClearFetchInProgress, queueVars, contentVars
<1> QED BY <1>1, <1>2 DEF OrderInv, AnswersCurrent, AnswersInOrder

\* The blocks of a fetch other than the one that applies an answer.
LEMMA BlockKeepsOrder ==
  ASSUME TypeOK, NoCallLost, OrderInv, NEW c \in Calls, FetchBlock(c)
  PROVE  OrderInv' /\ fetched <= fetched'
<1> USE DEF QueueMoved, DelegateStages, Running
<1>0. fetched \in Int
  BY DEF TypeOK, Versions
<1>1. CASE RunFetch(c)
  BY <1>0, <1>1, QuietMove DEF RunFetch, contentVars
<1>2. CASE ReturnCached(c) \/ ReturnInProgress(c)
  BY <1>0, <1>2, QuietMove DEF ReturnCached, ReturnInProgress, Checking, Report, contentVars
<1>3. CASE ThrottleOrStart(c)
  BY <1>0, <1>3, QuietMove DEF ThrottleOrStart, Checking, Report, contentVars
<1>4. CASE RunToken(c) \/ RunSend(c)
  BY <1>0, <1>4, QuietMove DEF RunToken, RunSend, contentVars
<1>5. CASE RunTokenOrSendFails(c)
  BY <1>0, <1>5, QuietMove DEF RunTokenOrSendFails, FailFetch, Report, contentVars
<1>6. CASE RunFailedResponse(c)
  BY <1>0, <1>6, QuietMove DEF RunFailedResponse, Responding, Report, contentVars
<1>7. CASE RunEmptyResponse(c)
  BY <1>0, <1>7, QuietMove DEF RunEmptyResponse, Responding, Report, contentVars
<1>8. CASE RunConfigResponse(c)
  BY <1>8, ConfigResponseKeepsOrder
<1> QED BY <1>1, <1>2, <1>3, <1>4, <1>5, <1>6, <1>7, <1>8 DEF FetchBlock, CheckStep, ResponseStep

LEMMA NetworkKeepsOrder ==
  ASSUME TypeOK, NoCallLost, OrderInv, NEW c \in Calls,
         TokenStep(c) \/ Answer(c) \/ CallbackStep(c)
  PROVE  OrderInv' /\ fetched <= fetched'
<1>0. fetched \in Int
  BY DEF TypeOK, Versions
<1>1. CASE TokenFails(c) \/ TokenArrives(c)
  BY <1>0, <1>1, QuietMove
  DEF TokenFails, TokenArrives, FailFetch, Report, contentVars, QueueMoved, DelegateStages
<1>2. CASE Answer(c)
  <2>1. fetched' = fetched
    BY <1>2 DEF Answer, contentVars
  <2> QED BY <1>0, <1>2, <2>1, AnswerKeepsOrder
<1>3. CASE ClearFetchInProgress(c)
  BY <1>0, <1>3, ClearKeepsOrder DEF ClearFetchInProgress, contentVars
<1>4. CASE DispatchResponse(c)
  BY <1>0, <1>4, DispatchKeepsOrder DEF DispatchResponse, contentVars
<1> QED BY <1>1, <1>2, <1>3, <1>4 DEF TokenStep, CallbackStep

LEMMA NextOrder ==
  TypeOK /\ NoCallLost /\ OrderInv /\ [Next]_vars => OrderInv' /\ fetched <= fetched'
<1> SUFFICES ASSUME TypeOK, NoCallLost, OrderInv, [Next]_vars
             PROVE  OrderInv' /\ fetched <= fetched'
  OBVIOUS
<1>0. fetched \in Int /\ published \in Int
  BY DEF TypeOK, Versions
<1>1. ASSUME NEW c \in Calls, fetchWithCompletionHandler(c) \/ RunCompletion(c)
      PROVE  OrderInv' /\ fetched <= fetched'
  <2>1. CASE fetchWithCompletionHandler(c)
    BY <1>0, <2>1, QuietMove
    DEF fetchWithCompletionHandler, contentVars, QueueMoved, DelegateStages
  <2>2. CASE RunCompletion(c)
    <3>1. \A d \in Calls \ {c} : answer'[d] = answer[d]
      BY <2>2 DEF RunCompletion, TypeOK
    <3> QED BY <1>0, <2>2, <3>1, QuietMove
            DEF RunCompletion, contentVars, QueueMoved, DelegateStages
  <2> QED BY <1>1, <2>1, <2>2
<1>2. {"setDefaults", "activate", "sync"} \subseteq Tasks \ Calls
  BY ConstantsAssumption DEF Tasks
<1>3. CASE activateWithCompletion \/ configValueForKey
  BY <1>0, <1>2, <1>3, QuietTask
  DEF activateWithCompletion, configValueForKey, callVars, contentVars, QueueMoved
<1>4. CASE RunRead \/ RunSetDefaults \/ SkipActivate \/ ApplyActivate
  BY <1>0, <1>2, <1>4, QuietTask
  DEF RunRead, RunSetDefaults, SkipActivate, ApplyActivate, callVars, contentVars, QueueMoved,
      Running
<1>5. CASE EnvironmentStep \/ UNCHANGED vars
  <2>1. /\ UNCHANGED <<queue, delegateQueue, stage, answer, fetched>>
        /\ published' \in Int /\ published <= published'
    BY <1>0, <1>5 DEF EnvironmentStep, Publish, TimePasses, ClockSetBack, DeviceContextChanges, vars,
       queueVars, callVars, contentVars
  <2> QED BY <1>0, <1>2, <2>1, QuietTask DEF QueueMoved
<1> QED
  BY <1>1, <1>3, <1>4, <1>5, BlockKeepsOrder, NetworkKeepsOrder
  DEF Next, ClientStep, Completion, LibraryStep, QueueStep

LEMMA InitOrder == Init => OrderInv
<1> SUFFICES ASSUME Init PROVE OrderInv
  OBVIOUS
<1>1. Waiting = {} /\ Returning = {}
  BY DEF Init, Waiting, Returning, DelegateStages
<1>2. fetched <= published
  BY DEF Init, Versions
<1> QED BY <1>1, <1>2 DEF OrderInv, AnswersCurrent, AnswersInOrder, InOrder

\* The invariant of the client's order: what the answers on their way carry.
LEMMA OrderInvariant == Spec => [](TypeOK /\ NoCallLost /\ OrderInv)
<1>1. Init => TypeOK /\ NoCallLost /\ OrderInv
  BY InitType, InitNoCallLost, InitOrder
<1>2. TypeOK /\ NoCallLost /\ OrderInv /\ [Next]_vars => (TypeOK /\ NoCallLost /\ OrderInv)'
  BY NextType, NextNoCallLost, NextOrder
<1> QED BY <1>1, <1>2, PTL DEF Spec

\* However many fetches overlap, a later one never replaces the fetched config by
\* an older template: a fetch may start between the callback that clears
\* isFetchInProgress and the block that applies the answer, but both queues keep
\* the answers in the order in which the server gave them.  This holds for every
\* kind of answer and for a clock that is set back.
THEOREM NeverGoesBack == Spec => FetchedNeverGoesBack
<1>1. TypeOK /\ NoCallLost /\ OrderInv /\ [Next]_vars => [fetched' >= fetched]_vars
  <2> SUFFICES ASSUME TypeOK, NoCallLost, OrderInv, [Next]_vars PROVE fetched' >= fetched
    OBVIOUS
  <2>1. fetched \in Int /\ fetched' \in Int /\ fetched <= fetched'
    BY NextOrder, NextType DEF TypeOK, Versions
  <2> QED BY <2>1
<1> QED BY <1>1, OrderInvariant, PTL DEF Spec, FetchedNeverGoesBack


-----------------------------------------------------------------------------
(* The tag and the two clock readings.  Only the block that applies an answer *)
(* and the one that activates touch what they are compared with.              *)

ContentKept ==
  /\ fetched' = fetched /\ active' = active
  /\ settings'.lastETag = settings.lastETag
  /\ settings'.lastETagUpdateTime = settings.lastETagUpdateTime
  /\ settings'.lastApplyTime = settings.lastApplyTime

LEMMA BlockKeepsContent ==
  ASSUME TypeOK, NEW c \in Calls, FetchBlock(c), ~RunConfigResponse(c)
  PROVE  ContentKept /\ now' \in Nat /\ now <= now'
<1>0. now \in Nat
  BY DEF TypeOK
<1>1. CASE \/ RunFetch(c) \/ ReturnCached(c) \/ ReturnInProgress(c) \/ RunToken(c) \/ RunSend(c)
           \/ RunEmptyResponse(c)
  <2>1. UNCHANGED <<settings, contentVars, now>>
    BY <1>1 DEF RunFetch, ReturnCached, ReturnInProgress, RunToken, RunSend, RunEmptyResponse
  <2> QED BY <1>0, <2>1 DEF contentVars, ContentKept
<1>2. CASE ThrottleOrStart(c)
  <2>1. \/ settings' = [settings EXCEPT !.lastFetchStatus = "Throttled"]
        \/ settings' = [settings EXCEPT !.isFetchInProgress = TRUE]
    BY <1>2 DEF ThrottleOrStart
  <2>2. UNCHANGED <<contentVars, now>>
    BY <1>2 DEF ThrottleOrStart
  <2> QED BY <1>0, <2>1, <2>2 DEF contentVars, ContentKept, TypeOK, Settings
<1>3. CASE RunTokenOrSendFails(c)
  BY <1>0, <1>3 DEF RunTokenOrSendFails, FailFetch, contentVars, ContentKept, TypeOK, Settings
<1>4. CASE RunFailedResponse(c)
  BY <1>0, <1>4 DEF RunFailedResponse, contentVars, ContentKept, TypeOK, Settings,
     updateMetadataWithFetchFailure, updateExponentialBackoffTime
<1> QED BY <1>1, <1>2, <1>3, <1>4 DEF FetchBlock, CheckStep, ResponseStep

LEMMA NetworkKeepsContent ==
  ASSUME TypeOK, NEW c \in Calls, TokenStep(c) \/ Answer(c) \/ CallbackStep(c)
  PROVE  ContentKept /\ now' = now
<1>1. CASE TokenFails(c)
  BY <1>1 DEF TokenFails, FailFetch, contentVars, ContentKept, TypeOK, Settings
<1>2. CASE TokenArrives(c) \/ Answer(c) \/ DispatchResponse(c)
  BY <1>2 DEF TokenArrives, Answer, DispatchResponse, contentVars, ContentKept
<1>3. CASE ClearFetchInProgress(c)
  BY <1>3 DEF ClearFetchInProgress, contentVars, ContentKept, TypeOK, Settings
<1> QED BY <1>1, <1>2, <1>3 DEF TokenStep, CallbackStep

\* Every other step keeps the contents and what is recorded of them, and only
\* the user or NTP can set the clock back.
LEMMA OtherStepsKeepContent ==
  ASSUME TypeOK, [Next]_vars, ~ApplyActivate, \A c \in Calls : ~RunConfigResponse(c)
  PROVE  ContentKept /\ now' \in Nat /\ (now <= now' \/ ClockMayGoBack)
<1>0. now \in Nat
  BY DEF TypeOK
<1>1. CASE ClientStep \/ Completion \/ RunRead
  BY <1>0, <1>1 DEF ClientStep, Completion, fetchWithCompletionHandler, activateWithCompletion,
     configValueForKey, RunCompletion, RunRead, contentVars, ContentKept
<1>2. CASE RunSetDefaults \/ SkipActivate
  BY <1>0, <1>2 DEF RunSetDefaults, SkipActivate, contentVars, ContentKept
<1>3. CASE Publish \/ TimePasses \/ ClockSetBack
  BY <1>0, <1>3, ConstantsAssumption DEF Publish, TimePasses, ClockSetBack, contentVars, ContentKept
<1>4. CASE DeviceContextChanges
  BY <1>0, <1>4 DEF DeviceContextChanges, contentVars, ContentKept, TypeOK, Settings
<1>5. CASE UNCHANGED vars
  BY <1>0, <1>5 DEF vars, contentVars, ContentKept
<1>6. ASSUME NEW c \in Calls, FetchBlock(c)
      PROVE  ContentKept /\ now' \in Nat /\ (now <= now' \/ ClockMayGoBack)
  BY <1>6, BlockKeepsContent
<1>7. ASSUME NEW c \in Calls, TokenStep(c) \/ Answer(c) \/ CallbackStep(c)
      PROVE  ContentKept /\ now' \in Nat /\ (now <= now' \/ ClockMayGoBack)
  BY <1>0, <1>7, NetworkKeepsContent
<1> QED BY <1>1, <1>2, <1>3, <1>4, <1>5, <1>6, <1>7
        DEF Next, LibraryStep, QueueStep, EnvironmentStep

\* The calls whose request has been sent and not applied.
OnTheWay == {c \in Calls : stage[c] = "http"} \cup Waiting \cup Returning

\* A request carries the tag of entries that are not newer than those held, and
\* only a request with the tag of the published template is answered "noChange".
SentTagsOld ==
  /\ \A c \in OnTheWay : sentTag[c] <= fetched
  /\ \A c \in Waiting \cup Returning :
       answer[c].kind = "noChange" => sentTag[c] = answer[c].version

LEMMA SentTagsKept ==
  ASSUME TypeOK, SentTagsOld, NEW c \in Calls, NEW st, MoveTo(c, st),
         st \notin DelegateStages \cup {"responseQueued", "http"},
         \A d \in Calls \ {c} : answer'[d] = answer[d] /\ sentTag'[d] = sentTag[d],
         fetched' \in Int, fetched <= fetched'
  PROVE  SentTagsOld'
<1>1. /\ Waiting' = Waiting \ {c} /\ Returning' = Returning \ {c}
      /\ \A d \in Waiting' \cup Returning' : answer'[d] = answer[d]
  BY MovedAway
<1>2. OnTheWay' = OnTheWay \ {c} /\ OnTheWay \subseteq Calls
  BY <1>1 DEF OnTheWay, MoveTo, TypeOK, Waiting, Returning
<1>3. \A d \in Calls : sentTag[d] \in Int
  BY DEF TypeOK, Tags, Versions, NoTag
<1>4. fetched \in Int
  BY DEF TypeOK, Versions
<1>5. \A d \in OnTheWay' : sentTag'[d] <= fetched'
  <2> SUFFICES ASSUME NEW d \in OnTheWay' PROVE sentTag'[d] <= fetched'
    OBVIOUS
  <2>1. d \in OnTheWay /\ d \in Calls \ {c} /\ sentTag[d] \in Int
    BY <1>2, <1>3
  <2>2. sentTag'[d] = sentTag[d] /\ sentTag[d] <= fetched
    BY <2>1 DEF SentTagsOld
  <2> QED BY <1>4, <2>1, <2>2
<1>6. ASSUME NEW d \in Waiting' \cup Returning', answer'[d].kind = "noChange"
      PROVE  sentTag'[d] = answer'[d].version
  <2>1. d \in Calls \ {c} /\ d \in Waiting \cup Returning
    BY <1>1 DEF Waiting, Returning
  <2> QED BY <1>6, <2>1 DEF SentTagsOld
<1> QED BY <1>5, <1>6 DEF SentTagsOld

LEMMA SentTagsUnmoved ==
  ASSUME SentTagsOld, stage' = stage, answer' = answer, sentTag' = sentTag, fetched' = fetched
  PROVE  SentTagsOld'
BY DEF SentTagsOld, OnTheWay, Waiting, Returning, Usable

LEMMA SendKeepsTags ==
  ASSUME TypeOK, SentTagsOld, TagMatchesFetched, NEW c \in Calls, RunSend(c)
  PROVE  SentTagsOld'
<1>1. /\ stage[c] = "sendQueued" /\ MoveTo(c, "http")
      /\ sentTag' = [sentTag EXCEPT ![c] = settings.lastETag]
      /\ UNCHANGED <<answer, fetched>>
  BY DEF RunSend, contentVars
<1>2. settings.lastETag <= fetched
  BY DEF TagMatchesFetched, NoTag, TypeOK, Versions
<1>3. Waiting' = Waiting /\ Returning' = Returning /\ c \notin Waiting \cup Returning
  BY <1>1 DEF Waiting, Returning, Usable, TypeOK, MoveTo, DelegateStages
<1>4. OnTheWay' = OnTheWay \cup {c} /\ OnTheWay \subseteq Calls
  BY <1>1, <1>3 DEF OnTheWay, MoveTo, TypeOK, Waiting, Returning
<1> QED BY <1>1, <1>2, <1>3, <1>4 DEF SentTagsOld, TypeOK, OnTheWay

LEMMA AnswerKeepsTags ==
  ASSUME TypeOK, SentTagsOld, NEW c \in Calls, Answer(c)
  PROVE  SentTagsOld'
<1>1. stage[c] = "http" /\ MoveTo(c, "answered") /\ UNCHANGED <<sentTag, fetched>>
  BY DEF Answer, contentVars
<1>2. PICK a \in PossibleAnswers(c) : answer' = [answer EXCEPT ![c] = a]
  BY DEF Answer
<1>3. a.kind = "noChange" => sentTag[c] = a.version
  BY <1>2 DEF PossibleAnswers
<1>4. /\ c \in OnTheWay /\ OnTheWay' \subseteq OnTheWay
      /\ (Waiting \cup Returning)' \ {c} \subseteq Waiting \cup Returning
      /\ \A d \in Calls \ {c} : answer'[d] = answer[d]
      /\ answer'[c] = a
  BY <1>1, <1>2 DEF OnTheWay, Waiting, Returning, Usable, TypeOK, MoveTo, DelegateStages
<1>5. \A d \in OnTheWay' : sentTag'[d] <= fetched'
  BY <1>1, <1>4 DEF SentTagsOld
<1>6. ASSUME NEW d \in (Waiting \cup Returning)', answer'[d].kind = "noChange"
      PROVE  sentTag'[d] = answer'[d].version
  <2>1. CASE d = c
    BY <1>1, <1>3, <1>4, <1>6, <2>1
  <2>2. CASE d # c
    <3>1. d \in Waiting \cup Returning /\ d \in Calls \ {c}
      BY <1>4, <2>2 DEF Waiting, Returning
    <3> QED BY <1>1, <1>4, <1>6, <3>1 DEF SentTagsOld
  <2> QED BY <2>1, <2>2
<1> QED BY <1>5, <1>6 DEF SentTagsOld

LEMMA CallbackKeepsTags ==
  ASSUME TypeOK, SentTagsOld, NEW c \in Calls, CallbackStep(c)
  PROVE  SentTagsOld'
<1>1. /\ UNCHANGED <<sentTag, fetched, answer>>
      /\ stage[c] \in DelegateStages
      /\ \E st \in DelegateStages \cup {"responseQueued"} : MoveTo(c, st)
  BY DEF CallbackStep, ClearFetchInProgress, DispatchResponse, contentVars, DelegateStages
<1>2. (Waiting \cup Returning)' = Waiting \cup Returning
  BY <1>1 DEF Waiting, Returning, Usable, TypeOK, MoveTo, DelegateStages
<1>3. OnTheWay' = OnTheWay
  BY <1>1, <1>2 DEF OnTheWay, TypeOK, MoveTo, DelegateStages
<1> QED BY <1>1, <1>2, <1>3 DEF SentTagsOld


\* Without damaged bodies, the answer applied carries the tag of the entries that
\* are held afterwards: a "noChange" is not older than the entries because answers
\* come in order, and not newer because its request carried their tag.
LEMMA AppliedTag ==
  ASSUME "damaged" \notin AnswerKinds, TypeOK, OrderInv, SentTagsOld, NEW c \in Calls,
         RunConfigResponse(c)
  PROVE  c \in Waiting /\ answer[c].tag = fetched' /\ fetched' # NoTag
<1>1. stage[c] = "responseQueued" /\ answer[c].kind \in {"config", "noChange", "damaged"}
  BY DEF RunConfigResponse, Responding
<1>2. answer[c] \in Answers
  BY <1>1 DEF TypeOK, NoAnswer
<1>3. answer[c].kind \in {"config", "noChange"} /\ c \in Waiting /\ c \in OnTheWay
  BY <1>1, <1>2 DEF Answers, Waiting, Usable, OnTheWay
<1>4. /\ fetched <= answer[c].version /\ answer[c].tag = answer[c].version
      /\ sentTag[c] <= fetched
      /\ answer[c].kind = "noChange" => sentTag[c] = answer[c].version
  BY <1>3 DEF OrderInv, AnswersCurrent, SentTagsOld
<1>5. fetched \in Nat /\ answer[c].version \in Nat /\ sentTag[c] \in Int
  BY <1>2 DEF TypeOK, Answers, Versions, Tags, NoTag
<1>6. fetched' = IF answer[c].kind = "config" THEN answer[c].version ELSE fetched
  BY DEF RunConfigResponse
<1> QED BY <1>3, <1>4, <1>5, <1>6 DEF NoTag

LEMMA ConfigResponseKeepsTags ==
  ASSUME "damaged" \notin AnswerKinds, TypeOK, NoCallLost, OrderInv, SentTagsOld,
         TagMatchesFetched, NEW c \in Calls, RunConfigResponse(c)
  PROVE  SentTagsOld' /\ TagMatchesFetched'
<1>1. answer[c].tag = fetched' /\ fetched' # NoTag
  BY AppliedTag
<1>2. fetched <= fetched' /\ fetched' \in Int
  <2>1. fetched' \in Int
    BY DEF RunConfigResponse, TypeOK, Answers, NoAnswer, Versions
  <2> QED BY <2>1, ConfigResponseKeepsOrder
<1>3. MoveTo(c, "reported") /\ UNCHANGED <<answer, sentTag>>
  BY DEF RunConfigResponse, Report
<1>4. SentTagsOld'
  BY <1>2, <1>3, SentTagsKept DEF DelegateStages
<1>5. settings'.lastETag = fetched'
  BY <1>1 DEF RunConfigResponse, updateMetadataWithFetchSuccess, setLastETag, TypeOK, Settings
<1> QED BY <1>4, <1>5 DEF TagMatchesFetched

LEMMA BlockKeepsTags ==
  ASSUME "damaged" \notin AnswerKinds, TypeOK, NoCallLost, OrderInv, SentTagsOld,
         TagMatchesFetched, NEW c \in Calls, FetchBlock(c)
  PROVE  SentTagsOld'
<1>0. fetched \in Int
  BY DEF TypeOK, Versions
<1> USE <1>0 DEF DelegateStages
<1>1. CASE RunFetch(c)
  BY <1>1, SentTagsKept DEF RunFetch, contentVars
<1>2. CASE ReturnCached(c) \/ ReturnInProgress(c)
  BY <1>2, SentTagsKept DEF ReturnCached, ReturnInProgress, Report, contentVars
<1>3. CASE ThrottleOrStart(c)
  <2>1. (MoveTo(c, "reported") \/ MoveTo(c, "token")) /\ UNCHANGED <<answer, sentTag, fetched>>
    BY <1>3 DEF ThrottleOrStart, Report, contentVars
  <2> QED BY <2>1, SentTagsKept
<1>4. CASE RunToken(c)
  BY <1>4, SentTagsKept DEF RunToken, contentVars
<1>5. CASE RunSend(c)
  BY <1>5, SendKeepsTags
<1>6. CASE RunTokenOrSendFails(c)
  BY <1>6, SentTagsKept DEF RunTokenOrSendFails, FailFetch, Report, contentVars
<1>7. CASE RunFailedResponse(c)
  <2>1. MoveTo(c, "reported") /\ UNCHANGED <<answer, sentTag, fetched>>
    BY <1>7 DEF RunFailedResponse, Report, contentVars
  <2> QED BY <2>1, SentTagsKept
<1>8. CASE RunEmptyResponse(c)
  <2>1. MoveTo(c, "reported") /\ UNCHANGED <<answer, sentTag, fetched>>
    BY <1>8 DEF RunEmptyResponse, Report, contentVars
  <2> QED BY <2>1, SentTagsKept
<1>9. CASE RunConfigResponse(c)
  BY <1>9, ConfigResponseKeepsTags
<1> QED BY <1>1, <1>2, <1>3, <1>4, <1>5, <1>6, <1>7, <1>8, <1>9
        DEF FetchBlock, CheckStep, ResponseStep

LEMMA NextTags ==
  ASSUME "damaged" \notin AnswerKinds, TypeOK, NoCallLost, OrderInv, SentTagsOld,
         TagMatchesFetched, [Next]_vars
  PROVE  SentTagsOld' /\ TagMatchesFetched'
<1>0. fetched \in Int
  BY DEF TypeOK, Versions
<1>1. TagMatchesFetched'
  <2>1. CASE ApplyActivate
    BY <2>1 DEF ApplyActivate, TagMatchesFetched, TypeOK, Settings
  <2>2. ASSUME NEW c \in Calls, RunConfigResponse(c) PROVE TagMatchesFetched'
    BY <2>2, ConfigResponseKeepsTags
  <2>3. CASE ~ApplyActivate /\ \A c \in Calls : ~RunConfigResponse(c)
    BY <2>3, OtherStepsKeepContent DEF ContentKept, TagMatchesFetched
  <2> QED BY <2>1, <2>2, <2>3
<1>2. ASSUME NEW c \in Calls, fetchWithCompletionHandler(c) \/ RunCompletion(c)
      PROVE  SentTagsOld'
  <2>1. CASE fetchWithCompletionHandler(c)
    BY <1>0, <2>1, SentTagsKept DEF fetchWithCompletionHandler, contentVars, DelegateStages
  <2>2. CASE RunCompletion(c)
    <3>1. \A d \in Calls \ {c} : answer'[d] = answer[d] /\ sentTag'[d] = sentTag[d]
      BY <2>2 DEF RunCompletion, TypeOK
    <3> QED BY <1>0, <2>2, <3>1, SentTagsKept DEF RunCompletion, contentVars, DelegateStages
  <2> QED BY <1>2, <2>1, <2>2
<1>3. ASSUME NEW c \in Calls, TokenStep(c) \/ Answer(c) \/ CallbackStep(c)
      PROVE  SentTagsOld'
  <2>1. CASE TokenStep(c)
    <3>1. (MoveTo(c, "reported") \/ MoveTo(c, "tokenQueued")) /\ UNCHANGED <<answer, sentTag, fetched>>
      BY <2>1 DEF TokenStep, TokenFails, TokenArrives, FailFetch, Report, contentVars
    <3> QED BY <1>0, <3>1, SentTagsKept DEF DelegateStages
  <2> QED BY <1>3, <2>1, AnswerKeepsTags, CallbackKeepsTags
<1>4. CASE \/ activateWithCompletion \/ configValueForKey \/ RunRead \/ RunSetDefaults
           \/ SkipActivate \/ ApplyActivate \/ EnvironmentStep \/ UNCHANGED vars
  <2>1. UNCHANGED <<stage, answer, sentTag, fetched>>
    BY <1>4 DEF activateWithCompletion, configValueForKey, RunRead, RunSetDefaults, SkipActivate,
       ApplyActivate, EnvironmentStep, Publish, TimePasses, ClockSetBack, DeviceContextChanges,
       vars, callVars, contentVars
  <2> QED BY <1>1, <2>1, SentTagsUnmoved
<1> QED BY <1>1, <1>2, <1>3, <1>4, BlockKeepsTags
        DEF Next, ClientStep, Completion, LibraryStep, QueueStep

LEMMA InitTags == Init => SentTagsOld /\ TagMatchesFetched
BY DEF Init, InitialSettings, SentTagsOld, TagMatchesFetched, OnTheWay, Waiting, Returning,
   DelegateStages

LEMMA TagInvariant ==
  ASSUME "damaged" \notin AnswerKinds
  PROVE  Spec => [](TypeOK /\ NoCallLost /\ OrderInv /\ SentTagsOld /\ TagMatchesFetched)
<1> DEFINE Inv == TypeOK /\ NoCallLost /\ OrderInv /\ SentTagsOld /\ TagMatchesFetched
<1>1. Init => Inv
  BY InitType, InitNoCallLost, InitOrder, InitTags
<1>2. Inv /\ [Next]_vars => Inv'
  BY NextType, NextNoCallLost, NextOrder, NextTags
<1> QED BY <1>1, <1>2, PTL DEF Spec

\* When every body the server sends can be used, the tag the client will send with
\* its next request is that of the entries it holds, however many fetches overlap
\* and templates are published meanwhile: a NO_CHANGE answer never leaves the
\* client without the entries the server believes it has.
THEOREM TagIsThatOfContent ==
  ASSUME "damaged" \notin AnswerKinds
  PROVE  Spec => []TagMatchesFetched
BY TagInvariant, PTL

-----------------------------------------------------------------------------
(* Activation compares the two clock readings *)

\* No recorded time is ahead of the clock.
TimesPast ==
  /\ settings.lastApplyTime <= now /\ settings.lastETagUpdateTime <= now
  /\ 0 < now

\* A recorded tag changes the time if and only if it changes the entries.
LEMMA ConfigResponseUnskips ==
  ASSUME "damaged" \notin AnswerKinds, TypeOK, OrderInv, SentTagsOld, TagMatchesFetched,
         TimesPast, SkipMeansActive, NEW c \in Calls, RunConfigResponse(c)
  PROVE  TimesPast' /\ SkipMeansActive'
<1>1. answer[c].tag = fetched' /\ fetched' # NoTag
  BY AppliedTag
<1>2. now' = now + 1 /\ now \in Nat /\ active' = active
  BY DEF RunConfigResponse, TypeOK
<1>3. /\ settings.lastApplyTime \in Nat /\ settings.lastETagUpdateTime \in Nat
      /\ settings'.lastApplyTime = settings.lastApplyTime
  BY DEF RunConfigResponse, updateMetadataWithFetchSuccess, setLastETag, TypeOK, Settings
<1>4. CASE settings.lastETag = fetched'
  <2>1. fetched' = fetched /\ settings'.lastETagUpdateTime = settings.lastETagUpdateTime
    BY <1>1, <1>4 DEF RunConfigResponse, updateMetadataWithFetchSuccess, setLastETag, TypeOK,
       Settings, TagMatchesFetched
  <2> QED BY <1>2, <1>3, <2>1 DEF TimesPast, SkipMeansActive, AlreadyActivated
<1>5. CASE settings.lastETag # fetched'
  <2>1. settings'.lastETagUpdateTime = now'
    BY <1>1, <1>5 DEF RunConfigResponse, updateMetadataWithFetchSuccess, setLastETag, TypeOK,
       Settings
  <2> QED BY <1>2, <1>3, <2>1 DEF TimesPast, SkipMeansActive, AlreadyActivated
<1> QED BY <1>4, <1>5

LEMMA NextSkip ==
  ASSUME "damaged" \notin AnswerKinds, ~ClockMayGoBack, TypeOK, OrderInv, SentTagsOld,
         TagMatchesFetched, TimesPast, SkipMeansActive, [Next]_vars
  PROVE  TimesPast' /\ SkipMeansActive'
<1>1. CASE ApplyActivate
  <2>1. /\ now \in Nat /\ now' = now + 1 /\ active' = fetched /\ fetched' = fetched
        /\ settings.lastETagUpdateTime \in Nat
        /\ settings'.lastApplyTime = now'
        /\ settings'.lastETagUpdateTime = settings.lastETagUpdateTime
    BY <1>1 DEF ApplyActivate, TypeOK, Settings
  <2> QED BY <2>1 DEF TimesPast, SkipMeansActive
<1>2. ASSUME NEW c \in Calls, RunConfigResponse(c) PROVE TimesPast' /\ SkipMeansActive'
  BY <1>2, ConfigResponseUnskips
<1>3. CASE ~ApplyActivate /\ \A c \in Calls : ~RunConfigResponse(c)
  <2>1. ContentKept /\ now' \in Nat /\ now <= now'
    BY <1>3, OtherStepsKeepContent
  <2>2. now \in Nat /\ settings.lastApplyTime \in Nat /\ settings.lastETagUpdateTime \in Nat
    BY DEF TypeOK, Settings
  <2> QED BY <2>1, <2>2 DEF ContentKept, TimesPast, SkipMeansActive, AlreadyActivated
<1> QED BY <1>1, <1>2, <1>3

\* When bodies can be used and nobody sets the clock back, activateWithCompletion
\* skips the copy only if the active config already is the fetched one: comparing
\* the times of the last tag and of the last activation says what comparing the
\* contents would.  Run rc_clock shows that the second hypothesis is needed.
THEOREM SkipIsSafe ==
  ASSUME "damaged" \notin AnswerKinds, ~ClockMayGoBack
  PROVE  Spec => []SkipMeansActive
<1> DEFINE Inv == TypeOK /\ NoCallLost /\ OrderInv /\ SentTagsOld /\ TagMatchesFetched
<1>1. Init => TimesPast /\ SkipMeansActive
  BY DEF Init, InitialSettings, TimesPast, SkipMeansActive
<1>2. Inv /\ TimesPast /\ SkipMeansActive /\ [Next]_vars => TimesPast' /\ SkipMeansActive'
  BY NextSkip
<1>3. Spec => []Inv
  BY TagInvariant
<1> QED BY <1>1, <1>2, <1>3, PTL DEF Spec

=============================================================================
