# Verification of HolyWater-Test

HolyWater-Test is a small iOS book catalogue. All its content comes from one
Firebase Remote Config template: a library screen with books and a banner
carousel, and a details screen with a second carousel. The app's own code is a
few view controllers and a configuration manager. What is hard about it lies in
what these run on: the Remote Config client, whose fetches hop between three
threads, and a carousel that pretends to be endless. Both are vendored under
`Pods/`, and the app's correctness depends on their interplay, so both are
modelled from their source.

Paths below are relative to `src/HolyWater-Test/`; `RC/` is short for
`Pods/FirebaseRemoteConfig/FirebaseRemoteConfig/Sources/`.

## Inventory

| Component | State | Operations | Modelled |
|---|---|---|---|
| Remote Config client (`RC/FIRRemoteConfig.m`, `RC/RCNConfigFetch.m`) | serial queue, `isFetchInProgress`, blocks under way | fetch, activate, setDefaults, read by key | `RemoteConfig` |
| Its settings and content (`RC/RCNConfigSettings.m`, `RC/RCNUserDefaultsManager.m`, `RC/RCNConfigContent.m`, `RC/RCNDevice.m`) | last fetch time and status, ETag and its time, apply time, backoff, device context; fetched, active and default content | throttling decision, backoff, metadata updates, ETag update, initial load | `RemoteConfig` (in memory), `ConfigPersistence` (across restarts) |
| Its database (`RC/RCNConfigDBManager.m`) | SQLite tables | create or open, asynchronous insert, delete, update, load | `ConfigPersistence` |
| Configuration manager (`HolyWater-Test/Networking/FirebaseRemoteConfigManager.swift`) | two files in the documents directory | fetchRemoteConfig, getConfigValue, saveConfigValuesToLocalFiles | `AppSession` |
| Library screen (`UI/Library/`) | books, banners | load, open a book or a banner | `AppSession`, `BannerCarousel` |
| Details screen (`UI/Recommended/`) | index, carousel, recommended books | load, show the selected page, follow the scrolling, close | `AppSession` (loading), `DetailsCarousel` (carousel) |
| Splash and navigation (`UI/Splash/`) | navigation stack | push, pop | `AppSession` |
| Banner carousel (`Pods/InfiniteCarouselCollectionView/.../CarouselCollectionView.swift`) | content offset, timer, page control | scroll events, autoscroll, jumps between copies | `BannerCarousel` |
| Paging layout of the details carousel (`Pods/CollectionViewPagingLayout/`) | current page, observation of the offset, blocks on the main queue | setCurrentPage and its completion, deferred updates | `DetailsCarousel` |
| Cells, models, constants, delegates, view extensions | none of their own | | no |
| Firestore, gRPC, BoringSSL, abseil, leveldb, nanopb, SDWebImage, Firebase core and utilities | | | no: third party, not called by the app or below the interfaces used |

How they interact. A screen's `viewDidLoad` asks its view model to load; the view
model asks the manager; the manager calls `fetch` on the client with a closure.
The client moves the call through its serial queue, the installations service,
the serial queue again (twice), the network, the URL session's delegate queue,
the serial queue and finally the main queue, where the closure runs. On success
the closure dispatches `activate` (asynchronous) and then reads values one at a
time, each by a `dispatch_sync` onto the same serial queue; it writes two files
and calls the view model, which reads again and fills the screen.

What is hard here, and hence what the properties are about (each hazard has its
line in `PROJECT.json`):

- the in-progress flag is set on one thread and cleared on three others, before
  the answer is queued, so answers and new requests overlap;
- a handler can be lost or called twice at any of the hops and error returns;
- "nothing new to activate" is a comparison of two wall-clock readings;
- a handler's reads are separate trips to a queue that other fetches use too;
- a screen can be popped, and another pushed, while its fetch is under way;
- the ETag and the entries it names are in two stores, one written at once and one
  by statements that a crash can lose;
- the details carousel takes the touches away until a completion that depends on
  being told of a change of offset, and there is only one observer to tell;
- the banner carousel's jumps depend on rounded offsets around both ends, while the
  finger and the timer compete and the banners arrive late.

## Modules

`RemoteConfig`: the client. A call has at most one block anywhere at any time, so
a queue holds calls, and `stage[c]` says which block is meant:

    idle -> fetchQueued -> checkQueued -> token -> tokenQueued -> sendQueued
         -> http -> answered -> cleared -> responseQueued -> reported -> done

with exits to `reported` from `checkQueued` (cached, duplicate, throttled),
`token`, `tokenQueued` and `sendQueued` (errors). There is one action per block;
the network callback is two actions, because it clears the flag (line 436) before
it dispatches the answer. `FIRRemoteConfig._queue` and
`RCNConfigFetch._lockQueue` are the same queue object. Contents are abstracted to
the template version they came from, an ETag to the version it names. Network
answers keep every case the code tells apart: a config, NO_CHANGE, a body that
cannot be used, no body, an error body, a transport error or status, and the
statuses meant to start backoff. The URL session (serial delegate queue, answer or
timeout), the installations service and the server are external and modelled from
how the client uses them.

The wall clock moves on by one wherever the code records a time (two readings of
the same instant are not modelled: times are doubles of `NSDate`), by more than the
fetch interval in `TimePasses`, and back in `ClockSetBack` where an instance
allows it.

`AppSession` EXTENDS `RemoteConfig` and adds the main thread: navigation and the
manager's closure, cut at each call that dispatches or blocks. `main` is what is
left of the running closure. The closures hold their screen weakly, so
a popped details screen reads and shows nothing (`Alive`). Each of the app's
actions conjoins a client action or leaves the client unchanged. What the details
screen does with its carousel, and whether it has the tapped book at all, is left to
`DetailsCarousel`.

`ConfigPersistence` is about what survives a restart, and is independent of
`RemoteConfig`: there, calls are told apart and everything is in memory; here, the
blocks that change content or settings come in any order, one at a time. Its state
is the device (the file, the three main tables, the apply time in the metadata row,
the ETag and its time in the user defaults) and the process (the launch phase, the
statements waiting on the database's operation queue, the content in memory, the block
that is running). A block that writes the user defaults is cut at each write
(`StoreAnswer`, `RecordTagTime`, `RecordTag`, `RecordFetch`), and `Crash` may fall anywhere.
A launch is `OpenDatabase` (or its failure), `LoadMain`, `InitSettings` and, at some time after
`LoadMain`, `LoadHandler` on a global queue. `DatabaseLost` stands for a restore from
a backup, which has the user defaults and not the database, or for a corrupt file.
`lostWork` is an observation only: it becomes true when a step of the code or a fault throws away
a change, and false when an answer has been stored that replaces what was lost.

`CircularPager` is the abstract specification of an endless carousel with a page
control: n items on a circle, a movement replaces the one on screen by a neighbour
only, and the dot is right at every rest. `BannerCarousel` is the code: n + 2
cells, an offset in fractions of a page, rounding up, `loopItems`, the one-shot timer and
the calls of the data source and the delegate. `UIScrollView` is external: it
reports each movement, moves by less than a page between two reports, settles on
an adjacent page, and timers of the default run-loop mode do not fire while a
finger tracks. The header comment of `CarouselCollectionView.swift` (lines 28-29)
describes the jumps at either copy; by lines 143-150 the right-hand jump
happens only past the copy of the first banner, so the view may rest on that copy.
The model follows the code.

`DetailsCarousel` is the details screen's carousel with its paging layout. The offset counts
fractions of a page. A movement (`Move`) sets off, in one turn of the main thread,
the layout's observer, its current page and the screen's `scrollViewDidScroll`. The layout's
dispatched blocks are a FIFO queue; the callback with the data, the first layout, frames, finger and
fade-outs come at any time. Two things about UIKit are left open because nothing in the code settles
them: whether setting the offset the view already has is reported, and in which order overlapping
fade-outs end. The app runs on iPhones in portrait only, so the only change of size is
the first layout, which comes with or without one. A layout without data computes an offset one page
left of the first (`CollectionViewPagingLayout.swift:273-276`), and the model starts from there too.
The carousel that arrives has any length. The id of the tapped book is used as an index into it
without a check (`RecommendedViewController.swift:78`, and the truncated offset at line 185 likewise);
a read out of range ends the process, which the model keeps as the outcome `crashed`, after
which nothing happens until a new process shows a screen (`Leave`).

`MC*` modules hold the constants for TLC, `*Proofs` modules the theorems.
Operators whose comment begins "Mutant" are broken variants of the definition
that follows them, used to make sure that each property can fail.

## Runs

| Run | Instance | Checks |
|---|---|---|
| `rc_protocol` | 3 calls, every answer, no activations, clock may go back | `TypeOK`, `OneFetchInProgress`, `NoCallLost` |
| `rc_content` | 2 calls, 3 templates, usable answers and errors, clock forward only, fair | `TagMatchesFetched`, `SkipMeansActive`, `FetchedNeverGoesBack`, `EveryFetchCompletes` |
| `rc_error`, `rc_backoff`, `rc_clock` | as above | violations, see Findings |
| `app_session` | library and two details screens, 3 templates | `AppTypeOK`, `HandlerReadsOneTemplate`, `DefaultsBeforeReads`, `FilledByOwnFetch`, `ShownNeverGoesBack` |
| `app_progress` | library and two details screens, 2 templates, fair | `EveryHandlerFinishes`, `OpenScreenIsFilled` |
| `banner` | 0 to 4 banners, thirds of a page, fair | `CarouselTypeOK`, `InsideContent`, `PagesExist`, `AutoscrollArmed`, `IsCircularPager`, `EveryBannerShown` |
| `banner_one` | one banner | violation, see Findings |
| `persistence` | 2 keys, 3 templates, crashes, database lost or not opened, late load | `PTypeOK`, `OneTemplatePerTable`, `WriteBehind`, `TagMatchesContent` |
| `persistence_crash` | the same without late loads | violation, see Findings |
| `details` | a carousel of 0 to 4 books, any of 4 tapped, quarters of a page, fair | `DTypeOK`, `BookExists`, `TextMatchesPage`, `CurrentPageRight`, `CompletionNotDropped`, `TouchesComeBack` |

Bounds. Two calls suffice for an answer that overlaps a new request, and three
for a duplicate that meets the second request while the first one's answer waits;
the client's safety is proved for any number. Each call is made once, which
is what a screen does. Three templates (0 to 2) let a request be answered by an
older template than the one after it. `MinInterval` 20 and `MaxTime` 30 let the
fetch interval elapse once and leave every other clock step inside it. `MinBackoff`
and `MaxBackoff` bound the type of the backoff interval only: by the finding
`rc_backoff` the interval stays 0, so doubling, cap and throttling are in the
model as in the code, and neither reaches them. `MaxQueue` bounds only how
many blocks may wait when an activation is dispatched: 0 in `rc_protocol` (activations
touch neither flag nor calls), 1 in the other client runs, and 4 in the app, where the
guard is never the one that blocks because at most three calls and one activation
exist. Four banners include a page that is neither the first nor the last nor next
to both; thirds of a page tell "nearer to", "at" and "past" a page apart. The
carousel is proved for any count and grain. Calls are symmetric in the client's
safety runs; no liveness property is checked under symmetry.
For persistence, the three templates have two entries, one, and none, so a table grows,
shrinks and empties, and the one default shares a key with them; `MaxPending` 3 lets the statements of
an answer and of an activation wait together; `MaxTime` 5 leaves room for two answers and two
activations, in any order and across restarts. In the details carousel quarters of a page include the half at which
rounding changes, and `MaxUpdates` 2 lets a book's text be pending twice. The safety of
the app, of persistence and of the details carousel is proved for all constants, too.
The app's runs disable the deadlock check: when every screen has been opened and
closed and the server publishes no more, the app is at rest for good. All other
runs check for deadlock.

Fairness. Dispatch queues run their blocks (weak fairness of the serial queue, the
delegate queue and, in the app, the main thread's handler); the installations service
calls back; a request is answered or fails by its timeout. In the
client alone the caller may block the main thread with one read after another, so the
main queue's turn is strongly, not weakly, fair; in the app, reads are finite per handler
and weak fairness is enough. `OpenScreenIsFilled` needs nothing more: it starts where the
client has reported to the main queue, and asks nothing of the user. In the carousel an armed timer fires and a scroll the view
makes itself goes on. In the details carousel the main queue is drained
and a scroll goes on; nothing is assumed of the data, the first layout, the finger or the fade-outs.
`EveryBannerShown` is conditional on the finger staying off
eventually; without banners, or under a finger, it promises nothing.

What the properties rest on. `TagMatchesFetched` and `SkipMeansActive` are checked for
answers whose body can be used: the code records the ETag of a body that does not parse
(`RCNConfigFetch.m:588`), after which the tag need not match. `SkipMeansActive`
also needs a clock that does not go back. `FilledByOwnFetch` and `ShownNeverGoesBack` need
neither.

Nothing in the code or the data makes a book's id an index of `details_carousel`, least of all
of a later template's, so nothing of the kind is assumed. A missing book ends the process, and
`BookExists` says that this is the only way: the crash happens at the first read
(`RecommendedViewController.swift:78`) for a carousel without the tapped book, and once that book was
shown no later read is out of range. No document says what a missing book should lead to, so this
is not listed as a finding.

`TagMatchesContent` holds while no work was lost; the violation run shows what happens when
it was, and the passing run shows that the next stored answer repairs it. Losing the whole database
is not lost work, because the user defaults are reset with it, unless the process that recreated the file
ended before it did so (`RCNConfigSettings.m:106`). `TagMatchesContent` also exempts
what a load that comes late has overwritten, until the next answer; that the late load is of one template is
`OneTemplatePerTable`.

The properties of the details carousel leave out what UIKit or the code leave open. `TextMatchesPage` exempts overlapping
fade-outs, whose order UIKit does not promise: there the older text may stay. `CompletionNotDropped` says what can lose the
completion of `showSelectedPage` and with it the touches: only the first layout, if it changes the size after the
scroll was started (the observation is replaced). A completion that is not lost may still wait for good: if the
page is already on screen and UIKit reports no change, or if a block of the first layout's page runs after the scroll was
started and stops it. `TouchesComeBack` is therefore about the undisturbed path only, a scroll that is under way on a
laid-out view with the book there and no such block waiting. In the exempted cases the carousel stays locked until the screen is
left. The repository does not say what should happen then, so they are stated here and not as findings.

## Findings

- `rc_backoff`: answers 429, 500, 503 and 504 never start exponential backoff. The comment
  at `RCNConfigFetch.m:461` says they do, but the metadata update at line 448 has already
  overwritten the status `updateExponentialBackoffTime` looks at, so the interval stays 0.
- `rc_error`: a duplicate of a running fetch may be reported as a failure with a nil error
  (`RCNConfigFetch.m:155-171`), although the header documents an error on failure. The
  manager passes the nil on, and the view model takes it for success.
- `rc_clock`: `activate` compares wall-clock readings; after the clock was set back a newly
  fetched config is taken for one already active (`FIRRemoteConfig.m:312-316`).
- `banner_one`: with a single banner the assertion at `CarouselCollectionView.swift:177`
  fails at the second automatic page turn (in builds with assertions).

- `persistence_crash`: the header says that the client caches fetched values until they are activated
  (`FIRRemoteConfig.h:199-202`). The ETag is in the user defaults as soon as the answer was handled, the entries only
  when the database queue has run; a process that ends in between comes back with the tag and
  without the values, and the server has no reason to send them again.

## Proofs

All theorems hold for every value of the constants that satisfies the named
assumptions (`ConstantsAssumption`, `CatalogueAssumption`, `CarouselAssumption`,
`PersistenceAssumption`, `DetailsAssumption`). Every invariant and action property of a passing run
is proved; some need a hypothesis, stated below.

`RemoteConfigProofs`: `TypeCorrect`, `CallsNeverLost` and `OneFetchAtATime` (`Spec => []` of
`TypeOK`, `NoCallLost` and `OneFetchInProgress`). The inductive
invariant is the conjunction of the three. `NoCallLost` is needed by the others: only because
a call at a stage of the serial queue occurs there exactly once does running its block leave
none of it behind. Every action is a hop, that is, a removal from the head of at most one
queue, an append to at most one, and a change of one call's stage; the lemmas on
`Placed` say what a removal and an append do, and one lemma derives
`NoCallLost'` from any hop whose removal and append agree with the change of stage.
`OneFetchInProgress` then
follows action by action: the flag is set only when it was clear, hence with nothing in flight, and
every action that takes a call out of flight clears it.

`RemoteConfigOrderProofs`: what the order of the answers guarantees. A fetch can be answered while the
answer of the one before still waits for the serial queue, so "one fetch in progress" is not enough.
`OrderInv` says that the usable answers on the delegate queue and on the serial queue carry versions in order, those
on the delegate queue no less than those ahead of them on the serial queue, and all between the fetched and the published
version.
- `NeverGoesBack` (`FetchedNeverGoesBack`) holds for all answers and any clock.
- `TagIsThatOfContent` (`TagMatchesFetched`) assumes `"damaged" \notin AnswerKinds`: the code records
  the tag of a body it cannot use, so without it the property is false. It needs, beyond `OrderInv`, that the tag of
  a request under way is no younger than the fetched entries (`SentTagsOld`).
- `SkipIsSafe` (`SkipMeansActive`) assumes also `~ClockMayGoBack`; `rc_clock` shows that this is needed.

`AppSessionProofs`: every step of the app is by construction a step of the client or leaves it unchanged; the
lemma `AppUsesClient` (`AppSpec => Spec`) only serves to carry the theorems about the client over (`AppFetches`).
`HandlerInv` describes the running handler: its activate is ahead of its reads on the serial queue and no other activate is
anywhere, its reads so far returned the active version, and the defaults come before any of it. From it:
`AppTypeCorrect`, `DefaultsRegistered`, `ReadsOneTemplate` (all reads of a handler agree,
unconditionally) and `HandlerReads` (they are also not older than what was fetched; under the two hypotheses of
`SkipIsSafe`). `ScreensInv` bounds what the screens and the files show by the active version, which only moves on;
from it `NeverShowsOlder`. It also says that a filled details screen is that of a fetch which is done and whose
handler has ended, which is `ScreenFilledByItself` (`FilledByOwnFetch`); this rests on the client calling each handler once,
so that no handler of the open screen is still to come.

`ConfigPersistenceProofs`: `PersistenceTypeCorrect`, `TablesAreOfOneTemplate`, `DatabaseCatchesUp` and `RestoredContentIsTagged`, with
crashes, lost files, failed opens and late loads, and without further hypotheses. The invariant `PersistenceInv`
has one part per question. `TemplatesInv`: waiting inserts into a table with no delete between them have the same template, and those
before any delete go on with the rows that are there. `MemoryInv`: the last waiting writer of a row writes what is in
memory, and a row without a writer has it already; this is `WriteBehind` made inductive for one row.
`LaunchInv`: nothing is written before the load is installed or overtaken. `TimesInv` and `AnswerInv`: no
time lies ahead of the clock, and a stored answer is younger than the last activation. `RestoredInv`: where
the agreement of tables and tag lies in each phase of a process, unless work was lost.

`BannerCarouselProofs`: `CarouselTypeCorrect`, `AlwaysInside`, `PagesAlwaysExist`, `TimerAlwaysArmed`, and `CarouselIsPager`
(`CarouselSpec => IsCircularPager`). The inductive invariant `CarouselInv` ties the offset to
the target and the mode (the view is never further than a page from its target, rests on whole pages,
and the page control is right or about to be right). The refinement is shown step by step: each
action maps to `Fill`, `Move`, `Rest` or a stutter, and a jump of `loopItems` maps to no change of item at all.

`DetailsCarouselProofs`: `DetailsTypeCorrect`, `IndexExists` (`BookExists`), `TextsFollowPage`, `PageFollowsOffset` and `CompletionKept`
(`CompletionNotDropped`). The invariant `DetailsInv` is a disjunction. `MissingInv` is about a carousel without the tapped book: it shows
no book and takes no touch until its process ends or the screen is left. `FitInv` is about all other screens, and what makes it inductive is the queue:
`PagesOK` and `ShowsOK` say that every observed offset is that of a page (but for a first layout without data) and
that the completion of `showSelectedPage` waits in one place, for the selected page, and is called once. `LateInv`
says that the block of a first layout which had data finds the view at its first page, so no late block moves a view
whose book is shown. `MovingInv` keeps a settling view within a page of its target; hence it enters at most one page
by itself, which bounds the fade-outs (`FadingInv`). `TextInv` says that a fade-out which runs alone is that of the current book.

Only model-checked: everything that
needs fairness (`EveryFetchCompletes`, `EveryHandlerFinishes`, `OpenScreenIsFilled`, `EveryBannerShown`, `TouchesComeBack`), which is
out of the prover's reach, and the violations, which are counterexamples.

## Not modelled

- Of the client: realtime updates, experiments and personalization (the app uses none of them),
  `fetchAndActivate`, `ensureInitialized` and the accessors the app does not call, the migration of
  old database files, and statements that fail one by one (the code logs them and goes on).
- Of the app: JSON decoding (a section that does not decode counts as empty), drawing, layout
  of cells and images.
- Every other pod. Most of the repository's lines are C and C++ under `Pods/` (Firestore, gRPC, BoringSSL, abseil,
  leveldb, nanopb). They are linked, but no code of the app calls them and nothing of what
  the app shows depends on them: a model of them would say nothing about this program. The code that
  decides what the app does is Swift and Objective-C, and its parts with state are modelled.

## Plan

The parts of the system that keep state are modelled, and every safety property a passing run checks is
proved. What is left:

1. An abstract specification of what a stored config promises across restarts (a template, a tag, and
   an activation that takes effect as a whole), and `ConfigPersistence` shown to implement it between crashes.
2. What holds without the hypotheses on bodies and clock: after a body that cannot be used, that the next
   usable answer restores `TagMatchesFetched`.
