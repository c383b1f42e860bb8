---------------------------- MODULE RemoteConfig ----------------------------
(***************************************************************************)
(* The Remote Config client the app is built on (Pods/FirebaseRemoteConfig)*)
(* as the app uses it: fetch, activate, setDefaults and reads by key.      *)
(*                                                                         *)
(* Three threads of control share its state:                               *)
(*  - the main thread, which calls the API, runs the completion handlers   *)
(*    and is blocked while it reads a value (dispatch_sync);               *)
(*  - the serial queue all calls are dispatched to (FIRRemoteConfig._queue *)
(*    and RCNConfigFetch._lockQueue are the same queue);                   *)
(*  - the delegate queue of the URL session, on which the network          *)
(*    callbacks run one after the other.                                   *)
(*                                                                         *)
(* A fetch hops between them many times.  At any moment it has at most one *)
(* block somewhere, so a queue holds the calls themselves and stage[c]     *)
(* says which block of call c is meant.                                    *)
(*                                                                         *)
(* Contents are abstracted to the version of the server's template they    *)
(* were taken from.  Version 0 is "no template": nothing is stored under   *)
(* the namespace, and reads fall through to the defaults.                  *)
(***************************************************************************)
EXTENDS Integers, Sequences

CONSTANTS
  Calls,          \* the fetch calls a session makes, each made at most once
  MaxVersion,     \* bound: the last template version the server publishes
  MaxTime,        \* bound: the wall clock is not advanced past this time
  MaxQueue,       \* bound: no activate is dispatched when this many blocks wait
  MinInterval,    \* minimumFetchInterval (12 hours in the app)
  MinBackoff,     \* kRCNExponentialBackoffMinimumInterval (2 minutes)
  MaxBackoff,     \* kRCNExponentialBackoffMaximumInterval (4 hours)
  AnswerKinds,    \* the kinds of answer the network may give in this instance
  ClockMayGoBack  \* TRUE if the user or NTP may set the wall clock back

ASSUME ConstantsAssumption ==
  /\ Calls \cap {"setDefaults", "activate", "sync"} = {}
  /\ MaxVersion \in Nat
  /\ MaxTime \in Nat
  /\ MaxQueue \in Nat
  /\ MinInterval \in Nat \ {0}
  /\ MinBackoff \in Nat \ {0}
  /\ MaxBackoff \in Nat
  /\ AnswerKinds \subseteq
       {"config", "noChange", "damaged", "noData", "errorBody", "error", "backoff"}
  /\ ClockMayGoBack \in BOOLEAN

VARIABLES
  queue,          \* blocks waiting on the serial queue
  delegateQueue,  \* calls whose network callback has not finished
  mainQueue,      \* calls whose completion waits for the main thread
  blocked,        \* the main thread is inside dispatch_sync
  stage,          \* stage[c]: where call c is
  changed,        \* changed[c]: hasDeviceContextChanged, read before the hop
  sentTag,        \* sentTag[c]: the If-None-Match header of c's request
  answer,         \* answer[c]: what the network answered
  result,         \* result[c]: what c's completion handler is told
  settings,       \* RCNConfigSettings
  fetched,        \* RCNConfigContent.fetchedConfig
  active,         \* RCNConfigContent.activeConfig
  defaultsSet,    \* RCNConfigContent.defaultConfig holds the app's defaults
  published,      \* the server's current template
  now             \* the wall clock

callVars    == <<stage, changed, sentTag, answer, result>>
queueVars   == <<queue, delegateQueue, mainQueue, blocked>>
contentVars == <<fetched, active, defaultsSet>>
vars == <<queueVars, callVars, settings, contentVars, published, now>>

-----------------------------------------------------------------------------
(* Types *)

Versions == 0 .. MaxVersion
NoTag    == -1
Tags     == Versions \cup {NoTag}

\* The server gives every template version one ETag, so the tag is the version.
\* "config" stands for the states UPDATE, EMPTY_CONFIG and NO_TEMPLATE, which
\* all replace the fetched entries by those of the template; "damaged" is a body
\* that does not parse or has no state field, sent with or without an ETag.
NoAnswer == [kind |-> "none", version |-> 0, tag |-> NoTag]
Answers  == [kind : AnswerKinds, version : Versions, tag : Tags]

Statuses == {"NoFetchYet", "Success", "Failure", "Throttled"}
NoResult == [status |-> "NoFetchYet", error |-> FALSE]
Results  == [status : Statuses, error : BOOLEAN]

\* Stages with a block on the serial queue.
QueuedStages == {"fetchQueued", "checkQueued", "tokenQueued", "sendQueued", "responseQueued"}
\* Stages between isFetchInProgress = YES and the network callback.
InFlightStages == {"token", "tokenQueued", "sendQueued", "http", "answered"}
\* Stages with an entry on the URL session's delegate queue.
DelegateStages == {"answered", "cleared"}
Stages == QueuedStages \cup InFlightStages \cup DelegateStages
            \cup {"idle", "reported", "done"}

Tasks == Calls \cup {"setDefaults", "activate", "sync"}

Settings == [isFetchInProgress : BOOLEAN, lastFetchTime : Nat, lastFetchStatus : Statuses,
             lastETag : Tags, lastETagUpdateTime : Nat, lastApplyTime : Nat,
             backoffInterval : Nat, backoffEnd : Int, contextCurrent : BOOLEAN]

TypeOK ==
  /\ queue \in Seq(Tasks)
  /\ delegateQueue \in Seq(Calls)
  /\ mainQueue \in Seq(Calls)
  /\ blocked \in BOOLEAN
  /\ stage \in [Calls -> Stages]
  /\ changed \in [Calls -> BOOLEAN]
  /\ sentTag \in [Calls -> Tags]
  /\ answer \in [Calls -> Answers \cup {NoAnswer}]
  /\ result \in [Calls -> Results]
  /\ settings \in Settings
  /\ fetched \in Versions
  /\ active \in Versions
  /\ defaultsSet \in BOOLEAN
  /\ published \in Versions
  /\ now \in Nat

-----------------------------------------------------------------------------
(* Initial state: a first launch.  Creating FirebaseRemoteConfigManager has  *)
(* dispatched setDefaults before any fetch can be made.                      *)

InitialSettings ==
  [isFetchInProgress |-> FALSE, lastFetchTime |-> 0, lastFetchStatus |-> "NoFetchYet",
   lastETag |-> NoTag, lastETagUpdateTime |-> 0, lastApplyTime |-> 0,
   backoffInterval |-> 0, backoffEnd |-> 0, contextCurrent |-> FALSE]

Init ==
  /\ queue = <<"setDefaults">>
  /\ delegateQueue = << >>
  /\ mainQueue = << >>
  /\ blocked = FALSE
  /\ stage = [c \in Calls |-> "idle"]
  /\ changed = [c \in Calls |-> FALSE]
  /\ sentTag = [c \in Calls |-> NoTag]
  /\ answer = [c \in Calls |-> NoAnswer]
  /\ result = [c \in Calls |-> NoResult]
  /\ settings = InitialSettings
  /\ fetched = 0
  /\ active = 0
  /\ defaultsSet = FALSE
  /\ published \in Versions
  /\ now = 1

-----------------------------------------------------------------------------
(* Settings: the decisions of RCNConfigSettings *)

hasMinimumFetchIntervalElapsed ==
  \/ settings.lastFetchTime = 0
  \/ now - settings.lastFetchTime > MinInterval

shouldThrottle(s, t) ==
  /\ s.lastFetchTime > 0
  /\ s.lastFetchStatus # "Success"
  /\ s.backoffEnd - t > 0

\* Mutant: the interval shrinks on every retry.
NextIntervalShrinks(s) ==
  IF s.lastFetchStatus = "Success" THEN MinBackoff ELSE s.backoffInterval - MinBackoff

\* The next retry interval: the minimum on entering backoff, then doubled up to
\* the maximum.
NextInterval(s) ==
  IF s.lastFetchStatus = "Success" THEN MinBackoff
  ELSE IF s.backoffInterval * 2 < MaxBackoff THEN s.backoffInterval * 2
  ELSE s.backoffInterval

\* sign is the coin toss that lengthens or shortens the interval by half.
updateExponentialBackoffTime(s, t, sign) ==
  LET i == NextInterval(s)
  IN  [s EXCEPT !.backoffInterval = i, !.backoffEnd = t + i + sign * (i \div 2)]

updateMetadataWithFetchFailure(s) == [s EXCEPT !.lastFetchStatus = "Failure"]

updateMetadataWithFetchSuccess(s, t) ==
  [s EXCEPT !.lastFetchStatus = "Success", !.lastFetchTime = t, !.contextCurrent = TRUE]

\* Mutants: a tag once set is kept; the time of a new tag is not recorded.
setLastETagOnce(s, tag, t) ==
  IF s.lastETag # NoTag THEN s ELSE [s EXCEPT !.lastETagUpdateTime = t, !.lastETag = tag]

setLastETagWithoutTime(s, tag, t) == [s EXCEPT !.lastETag = IF tag = NoTag THEN @ ELSE tag]

\* setLastETag records the time even when the header is missing, but then keeps
\* the old tag.
setLastETag(s, tag, t) ==
  IF s.lastETag # NoTag /\ s.lastETag = tag
  THEN s
  ELSE [s EXCEPT !.lastETagUpdateTime = t,
                 !.lastETag = IF tag = NoTag THEN @ ELSE tag]

\* activateWithCompletion's test that there is nothing new to activate.
AlreadyActivated(s) ==
  s.lastETagUpdateTime = 0 \/ s.lastETagUpdateTime <= s.lastApplyTime

-----------------------------------------------------------------------------
(* Moving a call between the queues *)

\* The serial queue runs its blocks one at a time, in order.
Running(task) == queue # << >> /\ Head(queue) = task

MoveTo(c, st) == stage' = [stage EXCEPT ![c] = st]

\* reportCompletionOnHandler: dispatch_async of the handler to the main queue.
Report(c, status, error) ==
  /\ MoveTo(c, "reported")
  /\ result' = [result EXCEPT ![c] = [status |-> status, error |-> error]]
  /\ mainQueue' = Append(mainQueue, c)

-----------------------------------------------------------------------------
(* The main thread calls the API.  A blocked main thread runs nothing else. *)

fetchWithCompletionHandler(c) ==
  /\ ~blocked
  /\ stage[c] = "idle"
  /\ MoveTo(c, "fetchQueued")
  /\ queue' = Append(queue, c)
  /\ UNCHANGED <<delegateQueue, mainQueue, blocked, changed, sentTag, answer, result,
                 settings, contentVars, published, now>>

activateWithCompletion ==
  /\ ~blocked
  /\ Len(queue) < MaxQueue
  /\ queue' = Append(queue, "activate")
  /\ UNCHANGED <<delegateQueue, mainQueue, blocked, callVars, settings, contentVars,
                 published, now>>

\* configValueForKey: the read is a block on the serial queue too, and the main
\* thread waits for it.
configValueForKey ==
  /\ ~blocked
  /\ blocked' = TRUE
  /\ queue' = Append(queue, "sync")
  /\ UNCHANGED <<delegateQueue, mainQueue, callVars, settings, contentVars, published, now>>

\* The main thread runs the completion handler of the call at the head of its
\* queue; what the handler does is up to the app.
RunCompletion(c) ==
  /\ ~blocked
  /\ mainQueue # << >> /\ Head(mainQueue) = c
  /\ mainQueue' = Tail(mainQueue)
  /\ MoveTo(c, "done")
  /\ changed' = [changed EXCEPT ![c] = FALSE]
  /\ sentTag' = [sentTag EXCEPT ![c] = NoTag]
  /\ answer' = [answer EXCEPT ![c] = NoAnswer]
  /\ result' = [result EXCEPT ![c] = NoResult]
  /\ UNCHANGED <<queue, delegateQueue, blocked, settings, contentVars, published, now>>

-----------------------------------------------------------------------------
(* Blocks of the serial queue that do not belong to a fetch *)

\* Mutant: the defaults are stored under a namespace nobody reads.
RunSetDefaultsElsewhere ==
  /\ Running("setDefaults")
  /\ queue' = Tail(queue)
  /\ UNCHANGED <<delegateQueue, mainQueue, blocked, callVars, settings, contentVars, published, now>>

RunSetDefaults ==
  /\ Running("setDefaults")
  /\ queue' = Tail(queue)
  /\ defaultsSet' = TRUE
  /\ UNCHANGED <<delegateQueue, mainQueue, blocked, callVars, settings, fetched, active,
                 published, now>>

\* Mutant: the caller is not woken up.
RunReadNotSignalled ==
  /\ Running("sync")
  /\ queue' = Tail(queue)
  /\ UNCHANGED <<delegateQueue, mainQueue, blocked, callVars, settings, contentVars, published, now>>

\* The value read is that of `active`, or the default, at this moment.
RunRead ==
  /\ Running("sync")
  /\ queue' = Tail(queue)
  /\ blocked' = FALSE
  /\ UNCHANGED <<delegateQueue, mainQueue, callVars, settings, contentVars, published, now>>

SkipActivate ==
  /\ Running("activate")
  /\ AlreadyActivated(settings)
  /\ queue' = Tail(queue)
  /\ UNCHANGED <<delegateQueue, mainQueue, blocked, callVars, settings, contentVars,
                 published, now>>

ApplyActivate ==
  /\ Running("activate")
  /\ ~AlreadyActivated(settings)
  /\ queue' = Tail(queue)
  /\ active' = fetched
  /\ now' = now + 1
  /\ settings' = [settings EXCEPT !.lastApplyTime = now']
  /\ UNCHANGED <<delegateQueue, mainQueue, blocked, callVars, fetched, defaultsSet, published>>

-----------------------------------------------------------------------------
(* Blocks of a fetch, in the order it goes through them *)

\* fetchWithExpirationDuration: compares the device context now, and dispatches
\* the decision to a second block.
RunFetch(c) ==
  /\ Running(c) /\ stage[c] = "fetchQueued"
  /\ changed' = [changed EXCEPT ![c] = ~settings.contextCurrent]
  /\ MoveTo(c, "checkQueued")
  /\ queue' = Append(Tail(queue), c)
  /\ UNCHANGED <<delegateQueue, mainQueue, blocked, sentTag, answer, result, settings,
                 contentVars, published, now>>

Checking(c) == Running(c) /\ stage[c] = "checkQueued"
UseCache(c) == ~hasMinimumFetchIntervalElapsed /\ ~changed[c]
Throttle(c) == shouldThrottle(settings, now) /\ ~changed[c]

ReturnCached(c) ==
  /\ Checking(c) /\ UseCache(c)
  /\ Report(c, "Success", FALSE)
  /\ queue' = Tail(queue)
  /\ UNCHANGED <<delegateQueue, blocked, changed, sentTag, answer, settings, contentVars,
                 published, now>>

\* Mutant: the duplicate of a running fetch is dropped.
ReturnInProgressSilently(c) ==
  /\ Checking(c) /\ ~UseCache(c) /\ settings.isFetchInProgress
  /\ queue' = Tail(queue)
  /\ UNCHANGED <<delegateQueue, mainQueue, blocked, callVars, settings, contentVars,
                 published, now>>

\* The duplicate of a running fetch is answered at once, without an error.
ReturnInProgress(c) ==
  /\ Checking(c) /\ ~UseCache(c) /\ settings.isFetchInProgress
  /\ Report(c, IF settings.lastFetchTime > 0 THEN settings.lastFetchStatus ELSE "Failure", FALSE)
  /\ queue' = Tail(queue)
  /\ UNCHANGED <<delegateQueue, blocked, changed, sentTag, answer, settings, contentVars,
                 published, now>>

\* Otherwise the call fails while throttled, or asks for an installations token.
ThrottleOrStart(c) ==
  /\ Checking(c) /\ ~UseCache(c) /\ ~settings.isFetchInProgress
  /\ IF Throttle(c)
     THEN /\ settings' = [settings EXCEPT !.lastFetchStatus = "Throttled"]
          /\ Report(c, "Throttled", TRUE)
     ELSE /\ settings' = [settings EXCEPT !.isFetchInProgress = TRUE]
          /\ MoveTo(c, "token")
          /\ UNCHANGED <<mainQueue, result>>
  /\ queue' = Tail(queue)
  /\ UNCHANGED <<delegateQueue, blocked, changed, sentTag, answer, contentVars, published, now>>

\* Every way a fetch can fail before its request is sent ends alike.
FailFetch(c) ==
  /\ settings' = [settings EXCEPT !.isFetchInProgress = FALSE]
  /\ Report(c, "Failure", TRUE)
  /\ UNCHANGED <<delegateQueue, blocked, changed, sentTag, answer, contentVars, published, now>>

\* Mutant: this error path leaves the flag set.
TokenFailsKeepsFlag(c) ==
  /\ stage[c] = "token"
  /\ Report(c, "Failure", TRUE)
  /\ UNCHANGED <<queue, delegateQueue, blocked, changed, sentTag, answer, settings, contentVars,
                 published, now>>

\* On the thread of the installations callback (or at once, when the app has no
\* sender ID).
TokenFails(c) ==
  /\ stage[c] = "token"
  /\ FailFetch(c)
  /\ UNCHANGED queue

TokenArrives(c) ==
  /\ stage[c] = "token"
  /\ MoveTo(c, "tokenQueued")
  /\ queue' = Append(queue, c)
  /\ UNCHANGED <<delegateQueue, mainQueue, blocked, changed, sentTag, answer, result,
                 settings, contentVars, published, now>>

\* Mutant: no return after the error is reported, so the fetch goes on.
RunTokenOrSendFailsGoesOn(c) ==
  /\ Running(c) /\ stage[c] \in {"tokenQueued", "sendQueued"}
  /\ FailFetch(c)
  /\ queue' = Append(Tail(queue), c)

\* No installation ID, or the request could not be compressed.
RunTokenOrSendFails(c) ==
  /\ Running(c) /\ stage[c] \in {"tokenQueued", "sendQueued"}
  /\ FailFetch(c)
  /\ queue' = Tail(queue)

\* doFetchCall: the user properties arrive, and the rest is dispatched again.
RunToken(c) ==
  /\ Running(c) /\ stage[c] = "tokenQueued"
  /\ MoveTo(c, "sendQueued")
  /\ queue' = Append(Tail(queue), c)
  /\ UNCHANGED <<delegateQueue, mainQueue, blocked, changed, sentTag, answer, result,
                 settings, contentVars, published, now>>

\* fetchWithUserProperties sends the request with the ETag of the last answer.
RunSend(c) ==
  /\ Running(c) /\ stage[c] = "sendQueued"
  /\ MoveTo(c, "http")
  /\ sentTag' = [sentTag EXCEPT ![c] = settings.lastETag]
  /\ queue' = Tail(queue)
  /\ UNCHANGED <<delegateQueue, mainQueue, blocked, changed, answer, result, settings,
                 contentVars, published, now>>

-----------------------------------------------------------------------------
(* The network *)

\* What the server, or a network that fails or times out, can answer to c.
PossibleAnswers(c) ==
  {a \in Answers :
     CASE a.kind = "config"   -> /\ sentTag[c] # published
                                 /\ a.version = published /\ a.tag = published
       [] a.kind = "noChange" -> /\ sentTag[c] = published
                                 /\ a.version = published /\ a.tag = published
       [] a.kind = "damaged"  -> a.version = 0 /\ a.tag \in {published, NoTag}
       [] OTHER               -> a.version = 0 /\ a.tag = NoTag}

Answer(c) ==
  /\ stage[c] = "http"
  /\ \E a \in PossibleAnswers(c) : answer' = [answer EXCEPT ![c] = a]
  /\ MoveTo(c, "answered")
  /\ delegateQueue' = Append(delegateQueue, c)
  /\ UNCHANGED <<queue, mainQueue, blocked, changed, sentTag, result, settings, contentVars,
                 published, now>>

CallingBack(c) == delegateQueue # << >> /\ Head(delegateQueue) = c

\* The callback clears the flag on its own thread ...
ClearFetchInProgress(c) ==
  /\ CallingBack(c) /\ stage[c] = "answered"
  /\ settings' = [settings EXCEPT !.isFetchInProgress = FALSE]
  /\ MoveTo(c, "cleared")
  /\ UNCHANGED <<queueVars, changed, sentTag, answer, result, contentVars, published, now>>

\* Mutant: the answer overtakes the blocks that wait on the serial queue.
DispatchResponseFirst(c) ==
  /\ CallingBack(c) /\ stage[c] = "cleared"
  /\ MoveTo(c, "responseQueued")
  /\ delegateQueue' = Tail(delegateQueue)
  /\ queue' = <<c>> \o queue
  /\ UNCHANGED <<mainQueue, blocked, changed, sentTag, answer, result, settings, contentVars,
                 published, now>>

\* ... and only then hands the answer to the serial queue.  A new fetch may
\* start in between.
DispatchResponse(c) ==
  /\ CallingBack(c) /\ stage[c] = "cleared"
  /\ MoveTo(c, "responseQueued")
  /\ delegateQueue' = Tail(delegateQueue)
  /\ queue' = Append(queue, c)
  /\ UNCHANGED <<mainQueue, blocked, changed, sentTag, answer, result, settings, contentVars,
                 published, now>>
-----------------------------------------------------------------------------
(* The serial queue processes an answer *)

Responding(c, kinds) ==
  Running(c) /\ stage[c] = "responseQueued" /\ answer[c].kind \in kinds

\* A transport error or a status other than 200.  The metadata is updated first,
\* then 429, 500, 503 and 504 ("backoff") compute the next retry time.
RunFailedResponse(c) ==
  /\ Responding(c, {"error", "backoff"})
  /\ queue' = Tail(queue)
  /\ now' = now + 1
  /\ \E sign \in {-1, 1} :
       LET backoff == answer[c].kind = "backoff"
           failed  == updateMetadataWithFetchFailure(settings)
           s       == IF backoff THEN updateExponentialBackoffTime(failed, now', sign) ELSE failed
           status  == IF backoff /\ shouldThrottle(s, now') THEN "Throttled" ELSE "Failure"
       IN  /\ settings' = [s EXCEPT !.lastFetchStatus = status]
           /\ Report(c, status, TRUE)
  /\ UNCHANGED <<delegateQueue, blocked, changed, sentTag, answer, contentVars, published>>

\* 200 without a body, or whose body is an error: nothing is recorded.
RunEmptyResponse(c) ==
  /\ Responding(c, {"noData", "errorBody"})
  /\ queue' = Tail(queue)
  /\ IF answer[c].kind = "noData"
     THEN Report(c, "Success", FALSE)
     ELSE Report(c, "Failure", TRUE)
  /\ UNCHANGED <<delegateQueue, blocked, changed, sentTag, answer, settings, contentVars,
                 published, now>>

\* 200 with a body.  The tag and the time are recorded even if the body could
\* not be used.
RunConfigResponse(c) ==
  /\ Responding(c, {"config", "noChange", "damaged"})
  /\ queue' = Tail(queue)
  /\ now' = now + 1
  /\ fetched' = IF answer[c].kind = "config" THEN answer[c].version ELSE fetched
  /\ settings' = updateMetadataWithFetchSuccess(setLastETag(settings, answer[c].tag, now'), now')
  /\ Report(c, "Success", FALSE)
  /\ UNCHANGED <<delegateQueue, blocked, changed, sentTag, answer, active, defaultsSet, published>>

-----------------------------------------------------------------------------
(* The environment *)

Publish ==
  /\ published < MaxVersion
  /\ published' = published + 1
  /\ UNCHANGED <<queueVars, callVars, settings, contentVars, now>>

\* Long enough for the minimum fetch interval to elapse.
TimePasses ==
  /\ now + MinInterval + 1 <= MaxTime
  /\ now' = now + MinInterval + 1
  /\ UNCHANGED <<queueVars, callVars, settings, contentVars, published>>

ClockSetBack ==
  /\ ClockMayGoBack
  /\ now > 1
  /\ now' = 1
  /\ UNCHANGED <<queueVars, callVars, settings, contentVars, published>>

\* The app's or the system's version or the locale differs from the last fetch.
DeviceContextChanges ==
  /\ settings.contextCurrent
  /\ settings' = [settings EXCEPT !.contextCurrent = FALSE]
  /\ UNCHANGED <<queueVars, callVars, contentVars, published, now>>

-----------------------------------------------------------------------------
(* Specification *)

ClientStep ==
  \/ \E c \in Calls : fetchWithCompletionHandler(c)
  \/ activateWithCompletion
  \/ configValueForKey

Completion == \E c \in Calls : RunCompletion(c)

CheckStep(c) ==
  ReturnCached(c) \/ ReturnInProgress(c) \/ ThrottleOrStart(c)

ResponseStep(c) == RunFailedResponse(c) \/ RunEmptyResponse(c) \/ RunConfigResponse(c)

FetchBlock(c) ==
  \/ RunFetch(c) \/ CheckStep(c)
  \/ RunToken(c) \/ RunSend(c) \/ RunTokenOrSendFails(c)
  \/ ResponseStep(c)

QueueStep ==
  \/ RunSetDefaults \/ SkipActivate \/ ApplyActivate
  \/ \E c \in Calls : FetchBlock(c)

TokenStep(c)    == TokenFails(c) \/ TokenArrives(c)
CallbackStep(c) == ClearFetchInProgress(c) \/ DispatchResponse(c)

EnvironmentStep == Publish \/ TimePasses \/ ClockSetBack \/ DeviceContextChanges

\* The steps the client library takes by itself; a read returns to its caller.
LibraryStep ==
  \/ QueueStep
  \/ \E c \in Calls : TokenStep(c) \/ Answer(c) \/ CallbackStep(c)

Next == ClientStep \/ Completion \/ RunRead \/ LibraryStep \/ EnvironmentStep

\* The queues run their blocks, the installations service calls back, and a
\* request is answered or times out.  The main thread may be blocked again and
\* again by reads, so its turn to run a completion comes only infinitely often.
Fairness ==
  /\ WF_vars(RunRead \/ QueueStep)
  /\ SF_vars(Completion)
  /\ \A c \in Calls : WF_vars(TokenStep(c)) /\ WF_vars(Answer(c)) /\ WF_vars(CallbackStep(c))

Spec     == Init /\ [][Next]_vars
FairSpec == Spec /\ Fairness

-----------------------------------------------------------------------------
(* Properties *)

InFlight == {c \in Calls : stage[c] \in InFlightStages}

\* isFetchInProgress, which is set on the serial queue and cleared on callback
\* threads, is YES exactly while one fetch waits for its token or its answer:
\* no two requests run at once, and the flag never stays set with none running.
OneFetchInProgress ==
  /\ settings.isFetchInProgress <=> InFlight # {}
  /\ \A c, d \in InFlight : c = d

\* x is in queue q once if `here`, and not at all otherwise.
Once(q, x)   == \E i \in DOMAIN q : \A j \in DOMAIN q : q[j] = x <=> j = i
Absent(q, x) == \A j \in DOMAIN q : q[j] # x
Placed(q, x, here) == IF here THEN Once(q, x) ELSE Absent(q, x)

\* Every call is in exactly the queue its stage says, once: no hop between the
\* queues (RCNConfigFetch.m) drops or doubles a completion handler.
NoCallLost ==
  \A c \in Calls : /\ Placed(queue, c, stage[c] \in QueuedStages)
                   /\ Placed(delegateQueue, c, stage[c] \in DelegateStages)
                   /\ Placed(mainQueue, c, stage[c] = "reported")

\* activateWithCompletion skips the copy only when the active config already is
\* the fetched one, although it compares two clock readings, not contents.
SkipMeansActive == AlreadyActivated(settings) => active = fetched

\* The ETag the next request will send is that of the entries really held: the
\* server's NO_CHANGE answer would otherwise leave the client without them.
TagMatchesFetched == settings.lastETag # NoTag => settings.lastETag = fetched

\* A later fetch never replaces the fetched config by an older template, even
\* when it starts before the previous answer has been processed.
FetchedNeverGoesBack == [][fetched' >= fetched]_vars

\* Every fetch call gets its completion handler called.
EveryFetchCompletes == \A c \in Calls : stage[c] = "fetchQueued" ~> stage[c] = "done"

\* FIRRemoteConfig.h: the completion handler's error is the "Error message on
\* failure".
FailureHasError ==
  \A c \in Calls : stage[c] = "reported" /\ result[c].status # "Success" => result[c].error

\* RCNConfigFetch.m: "Response error code 429, 500, 503 will trigger exponential
\* backoff mode", once some fetch has succeeded.
BackoffEngages ==
  [][\A c \in Calls :
       /\ answer[c].kind = "backoff" /\ stage[c] = "responseQueued" /\ stage'[c] = "reported"
       /\ settings.lastFetchTime > 0
       => shouldThrottle(settings', now')]_vars

=============================================================================
