----------------------------- MODULE AppSession -----------------------------
(***************************************************************************)
(* One run of the app on top of the Remote Config client: the splash       *)
(* screen gives way to the library, which fetches once; opening a book or  *)
(* a banner pushes a details (Recommended) screen, which fetches once too. *)
(* All of it is main-thread code, driven by user events and by the         *)
(* completion handlers the client queues.                                  *)
(*                                                                         *)
(* FirebaseRemoteConfigManager's handler is not atomic: it dispatches      *)
(* activate and then reads values one by one, each read blocking the main  *)
(* thread on the serial queue.  `main` is what is left of the handler.     *)
(***************************************************************************)
EXTENDS RemoteConfig

CONSTANTS
  LibraryCall,   \* the library's fetch; every other call is a details screen's
  NoCall,        \* no handler is running, or no details screen is open
  BookIds,       \* BookIds[v]: ids of the books in json_data of template v
  BannerIds      \* BannerIds[v]: ids of the books its banners lead to

\* A section that is missing or does not decode counts as empty: a view model
\* fetches once, so keeping its old value means keeping the initial [].
\* Template 0 has no entries, and the registered default, the text "JSON data",
\* is not JSON.
ASSUME CatalogueAssumption ==
  /\ LibraryCall \in Calls
  /\ NoCall \notin Calls
  /\ BookIds \in [Versions -> SUBSET Nat] /\ BookIds[0] = {}
  /\ BannerIds \in [Versions -> SUBSET Nat] /\ BannerIds[0] = {}

VARIABLES
  main,     \* the completion handler the main thread is in
  library,  \* LibraryViewController: booksModel and bannerSlides, by version
  top,      \* the details screen on top of the library, by its fetch call
  details,  \* RecommendedViewController: currentCellIndex, carouselModel, recommendedModel
  files     \* json_data.json and details_carousel.json in the documents directory

appVars == <<main, library, top, details, files>>
allVars == <<vars, appVars>>

Keys == {"json_data", "details_carousel"}

\* todo: keys still to be read; got: versions read so far; activate, save: the
\* manager has still to call activate, to write the files; floor: what `fetched`
\* was when a successful handler began (history only).
Idle == [call |-> NoCall, todo |-> << >>, got |-> << >>,
         activate |-> FALSE, save |-> FALSE, floor |-> 0]
NoDetails == [index |-> 0, loaded |-> FALSE, carousel |-> 0, recommended |-> 0]

AppTypeOK ==
  /\ main \in [call : Calls \cup {NoCall}, todo : Seq(Keys), got : Seq(Versions),
               activate : BOOLEAN, save : BOOLEAN, floor : Versions]
  /\ library \in [shown : BOOLEAN, books : Versions, banners : Versions]
  /\ top \in Calls \cup {NoCall}
  /\ details \in [index : Nat, loaded : BOOLEAN, carousel : Versions, recommended : Versions]
  /\ files \in [Keys -> Versions]

AppInit ==
  /\ Init
  /\ main = Idle
  /\ library = [shown |-> FALSE, books |-> 0, banners |-> 0]
  /\ top = NoCall
  /\ details = NoDetails
  /\ files = [k \in Keys |-> 0]

-----------------------------------------------------------------------------
(* User events.  They run on the main thread, between two handlers. *)

MainFree == main.call = NoCall

\* SplashViewController pushes the library, whose viewDidLoad fetches.
ShowLibrary ==
  /\ MainFree /\ ~library.shown
  /\ library' = [library EXCEPT !.shown = TRUE]
  /\ fetchWithCompletionHandler(LibraryCall)
  /\ UNCHANGED <<main, top, details, files>>

\* The ids behind the books and the banners that can be tapped.
SelectableIds == BookIds[library.books] \cup BannerIds[library.banners]

\* Mutant: the book before the tapped one is asked for.
OpenBookBefore(c, id) ==
  /\ MainFree /\ library.shown /\ top = NoCall /\ c # LibraryCall
  /\ id \in SelectableIds
  /\ top' = c /\ details' = [NoDetails EXCEPT !.index = id - 1]
  /\ fetchWithCompletionHandler(c)
  /\ UNCHANGED <<main, library, files>>

\* A tap on a book or a banner pushes a new details screen, whose viewDidLoad
\* fetches.  The screen is told the book's id, which it uses as an index into its
\* carousel whether or not the carousel is that long (see DetailsCarousel).
OpenBook(c, id) ==
  /\ MainFree /\ library.shown /\ top = NoCall
  /\ c # LibraryCall
  /\ id \in SelectableIds
  /\ top' = c
  /\ details' = [NoDetails EXCEPT !.index = id]
  /\ fetchWithCompletionHandler(c)
  /\ UNCHANGED <<main, library, files>>

\* The back button or a swipe pops the screen and frees it with its view model.
Back ==
  /\ MainFree /\ ~blocked /\ top # NoCall
  /\ top' = NoCall
  /\ details' = NoDetails
  /\ UNCHANGED <<vars, main, library, files>>

-----------------------------------------------------------------------------
(* The completion handler *)

\* Mutants: one view model serves all the screens; a view model goes with the call
\* that starts the fetch.
AliveShared(c) == TRUE
AliveForTheCall(c) == c = LibraryCall

\* The handlers hold their screen weakly: a popped screen's view model is gone.
Alive(c) == c = LibraryCall \/ c = top

\* The reads of updateBooks and updateBanners.
LibraryReads == <<"json_data", "json_data">>

\* The reads of updateCarousel and updateRecommended.
DetailsReads == <<"details_carousel", "json_data">>

ViewModelReads(c) ==
  IF ~Alive(c) THEN << >> ELSE IF c = LibraryCall THEN LibraryReads ELSE DetailsReads

\* saveConfigValuesToLocalFiles
SaveReads == <<"json_data", "details_carousel">>

\* FirebaseRemoteConfigManager.fetchRemoteConfig's closure: on success it
\* activates, saves and goes on as without error; otherwise it passes the error
\* on, and the view models go on as if all were well when there is none.
HandleCompletion(c) ==
  /\ MainFree
  /\ RunCompletion(c)
  /\ LET success == result[c].status = "Success"
         reads   == IF success THEN SaveReads \o ViewModelReads(c)
                    ELSE IF result[c].error THEN << >> ELSE ViewModelReads(c)
     IN  main' = [call |-> c, todo |-> reads, got |-> << >>, activate |-> success,
                  save |-> success, floor |-> IF success THEN fetched ELSE 0]
  /\ UNCHANGED <<library, top, details, files>>

\* Mutant: the values are read before the fetched config is activated.
CallActivateForgotten ==
  /\ main.activate /\ ~blocked
  /\ main' = [main EXCEPT !.activate = FALSE]
  /\ UNCHANGED <<vars, library, top, details, files>>

CallActivate ==
  /\ main.activate
  /\ activateWithCompletion
  /\ main' = [main EXCEPT !.activate = FALSE]
  /\ UNCHANGED <<library, top, details, files>>

\* The files are written once both values have been read.
SaveDue == main.save /\ Len(main.got) = Len(SaveReads)

\* getConfigValue: blocks on the serial queue ...
CallRead ==
  /\ main.todo # << >> /\ ~main.activate /\ ~SaveDue
  /\ configValueForKey
  /\ UNCHANGED appVars

\* ... until the block has run there.
ReturnRead ==
  /\ RunRead
  /\ main' = [main EXCEPT !.todo = Tail(@), !.got = Append(@, active)]
  /\ UNCHANGED <<library, top, details, files>>

\* Mutant: a failed write leaves an empty file.
SaveFilesTruncates ==
  /\ SaveDue /\ ~blocked
  /\ \E written \in SUBSET Keys :
       files' = [k \in Keys |-> IF k \notin written THEN 0
                                ELSE IF k = "json_data" THEN main.got[1] ELSE main.got[2]]
  /\ main' = [main EXCEPT !.save = FALSE]
  /\ UNCHANGED <<vars, library, top, details>>

\* saveDataToFile, twice: a failed write is only logged.
SaveFiles ==
  /\ SaveDue /\ ~blocked
  /\ \E written \in SUBSET Keys :
       files' = [k \in Keys |-> IF k \notin written THEN files[k]
                                ELSE IF k = "json_data" THEN main.got[1] ELSE main.got[2]]
  /\ main' = [main EXCEPT !.save = FALSE]
  /\ UNCHANGED <<vars, library, top, details>>

\* The view controllers' fetchData: what was decoded becomes what is shown.
ShowBooks(first, second) ==
  /\ library' = [library EXCEPT !.books = first, !.banners = second]
  /\ UNCHANGED details

ShowCarousel(first, second) ==
  /\ details' = [details EXCEPT !.loaded = TRUE, !.carousel = first, !.recommended = second]
  /\ UNCHANGED library

HandlerDone ==
  /\ ~MainFree /\ ~blocked
  /\ main.todo = << >> /\ ~main.activate /\ ~main.save
  /\ main' = Idle
  /\ IF main.got = << >> \/ ~Alive(main.call)
     THEN UNCHANGED <<library, details>>
     ELSE LET first  == main.got[Len(main.got) - 1]
              second == main.got[Len(main.got)]
          IN  IF main.call = LibraryCall THEN ShowBooks(first, second)
              ELSE ShowCarousel(first, second)
  /\ UNCHANGED <<vars, top, files>>

-----------------------------------------------------------------------------
(* Specification *)

UserStep == ShowLibrary \/ Back \/ \E c \in Calls, v \in Versions :
              \E id \in BookIds[v] \cup BannerIds[v] : OpenBook(c, id)

HandlerStep ==
  \/ \E c \in Calls : HandleCompletion(c)
  \/ CallActivate \/ CallRead \/ SaveFiles \/ HandlerDone

Background == (LibraryStep \/ EnvironmentStep) /\ UNCHANGED appVars

AppNext == UserStep \/ HandlerStep \/ ReturnRead \/ Background

\* The client's fairness, and a main thread that finishes the handler it is in.
AppFairness ==
  /\ WF_allVars(ReturnRead \/ (QueueStep /\ UNCHANGED appVars))
  /\ WF_allVars(HandlerStep)
  /\ \A c \in Calls : /\ WF_allVars(TokenStep(c) /\ UNCHANGED appVars)
                       /\ WF_allVars(Answer(c) /\ UNCHANGED appVars)
                       /\ WF_allVars(CallbackStep(c) /\ UNCHANGED appVars)

AppSpec     == AppInit /\ [][AppNext]_allVars
AppFairSpec == AppSpec /\ AppFairness

-----------------------------------------------------------------------------
(* Properties *)

\* The values one completion handler reads (two for the files, two for the view
\* model, each a separate trip to the serial queue) come from one template, and
\* not from one older than what was fetched when the handler began.
HandlerReadsOneTemplate ==
  \A i, j \in DOMAIN main.got : main.got[i] = main.got[j] /\ main.got[i] >= main.floor

\* The defaults are registered before the first read: getConfigValue never
\* falls through to the empty static value.
DefaultsBeforeReads == main.got # << >> => defaultsSet

\* A details screen is filled by its own fetch and no other, with two lists of one
\* template: the completion of a screen that was popped while its fetch was under
\* way comes after the next screen was opened, and finds its own view model gone.
FilledByOwnFetch ==
  details.loaded => /\ top # NoCall /\ stage[top] = "done" /\ main.call # top
                    /\ details.carousel = details.recommended

\* The screens and the saved files never go back to an older template.
ShownNeverGoesBack ==
  [][/\ library'.books >= library.books /\ library'.banners >= library.banners
     /\ \A k \in Keys : files'[k] >= files[k]
     /\ details'.loaded => details'.carousel >= library.books]_allVars

\* Every fetch a screen makes ends with its handler run to completion.
EveryHandlerFinishes ==
  \A c \in Calls : stage[c] = "fetchQueued" ~> (stage[c] = "done" /\ main.call # c)

\* A details screen that is told of no error, and stays open, is filled: also when its
\* fetch was turned away because another one was under way, or failed to bring anything.
OpenScreenIsFilled ==
  \A c \in Calls : top = c /\ stage[c] = "reported" /\ ~result[c].error
                    ~> (details.loaded \/ top # c)

=============================================================================
