------------------------- MODULE ConfigPersistence -------------------------
(***************************************************************************)
(* What the Remote Config client keeps across a restart of the app         *)
(* (Pods/FirebaseRemoteConfig: RCNConfigDBManager, RCNUserDefaultsManager, *)
(* RCNConfigContent, RCNConfigSettings).                                   *)
(*                                                                         *)
(* There are two stores.  The entries and the apply time are in an SQLite  *)
(* database, written behind: a block of the client's serial queue changes  *)
(* the dictionaries in memory and dispatches one statement per row to the  *)
(* database's own serial queue.  The ETag and its time are in the user     *)
(* defaults, written at once.  A crash loses the memory and every          *)
(* statement that has not run, but nothing that has.                       *)
(*                                                                         *)
(* How calls reach the serial queue is the subject of RemoteConfig; here   *)
(* its blocks simply come one after the other.  A block that writes the    *)
(* user defaults is cut at each write, because a crash may fall between.   *)
(*                                                                         *)
(* An entry's value is abstracted to the version of the template it came   *)
(* from.  A table is a function from keys to versions, 0 for no row.  A    *)
(* load keeps the last row of a key, so an insert overwrites.              *)
(*                                                                         *)
(* Not modelled: statements that fail (the code logs them), the tables of  *)
(* experiments and personalization, the other columns of the metadata row, *)
(* and the user defaults that only realtime updates and throttling read.   *)
(***************************************************************************)
EXTENDS Integers, Sequences, FiniteSets

CONSTANTS
  Keys,            \* parameter keys
  MaxVersion,      \* bound: the last template the server publishes
  Entries,         \* Entries[v]: the keys that template v gives a value
  DefaultKeys,     \* the keys the app sets defaults for
  MaxTime,         \* bound: the wall clock is not advanced past this time
  MaxPending,      \* bound: no block starts when more statements wait
  LoadMayTimeOut   \* TRUE if the wait for the initial load may time out

ASSUME PersistenceAssumption ==
  /\ IsFiniteSet(Keys)
  /\ MaxVersion \in Nat \ {0}
  /\ Entries \in [1 .. MaxVersion -> SUBSET Keys]
  /\ DefaultKeys \subseteq Keys
  /\ MaxTime \in Nat
  /\ MaxPending \in Nat
  /\ LoadMayTimeOut \in BOOLEAN

VARIABLES
  \* the device: what survives a crash
  file,         \* the database file: "ok", "missing" or "corrupt"
  stored,       \* the main tables
  storedApply,  \* last_apply_time of the metadata row, NoRow if there is none
  tag,          \* user defaults: lastETag, 0 if unset
  tagTime,      \* user defaults: lastETagUpdateTime
  \* the process
  phase,        \* "down", "opened", "rowsRead", "ready"
  isOpen,       \* the database handle can be used
  isNew,        \* gIsNewDatabase
  statements,   \* the blocks waiting on the database's operation queue
  rows,         \* what loadMain read, until its handler runs
  load,         \* the initial load: "pending", "overtaken", "done", "late"
  content,      \* RCNConfigContent's three dictionaries
  applyTime,    \* RCNConfigSettings.lastApplyTimeInterval
  block,        \* what is left of the running block of the serial queue
  received,     \* the template that block stores
  \* the rest of the world
  published,    \* the server's template
  now,          \* the wall clock
  \* observation only
  lostWork      \* a crash, a failed open or a late load has lost a change
                \* that no answer has restored since

deviceVars  == <<file, stored, storedApply, tag, tagTime>>
processVars == <<phase, isOpen, isNew, statements, rows, load, content, applyTime,
                 block, received>>
pvars       == <<deviceVars, processVars, published, now, lostWork>>

-----------------------------------------------------------------------------
(* Types *)

Tables   == {"fetched", "active", "default"}
Versions == 0 .. MaxVersion
NoRow    == -1
Rows     == [Keys -> Versions]
NoRows   == [k \in Keys |-> 0]
NoTables == [t \in Tables |-> NoRows]

\* The rows of template v, or none if v is 0.  A template without entries is
\* answered by EMPTY_CONFIG or NO_TEMPLATE, which store nothing.
TemplateRows(v) == [k \in Keys |-> IF v # 0 /\ k \in Entries[v] THEN v ELSE 0]

DefaultRows == [k \in Keys |-> IF k \in DefaultKeys THEN 1 ELSE 0]

KeysOf(r) == {k \in Keys : r[k] # 0}

DeleteRows(t)      == [op |-> "delete", table |-> t]
InsertRow(t, k, v) == [op |-> "insert", table |-> t, key |-> k, value |-> v]
DeleteMetadata     == [op |-> "deleteMetadata"]
InsertMetadata(a)  == [op |-> "insertMetadata", time |-> a]
UpdateApplyTime(a) == [op |-> "updateApplyTime", time |-> a]

Statements ==
  [op : {"delete"}, table : Tables]
    \cup [op : {"insert"}, table : Tables, key : Keys, value : Versions \ {0}]
    \cup [op : {"deleteMetadata"}]
    \cup [op : {"insertMetadata", "updateApplyTime"}, time : Nat]

PInit ==
  /\ file = "missing" /\ stored = NoTables /\ storedApply = NoRow
  /\ tag = 0 /\ tagTime = 0
  /\ phase = "down" /\ isOpen = FALSE /\ isNew = FALSE /\ statements = << >>
  /\ rows = NoTables /\ load = "pending" /\ content = NoTables /\ applyTime = 0
  /\ block = "none" /\ received = 0
  /\ published = 1 /\ now = 1 /\ lostWork = FALSE

-----------------------------------------------------------------------------
(* The database *)

\* The order in which a dictionary hands out its keys.
Orders(S) == {o \in [1 .. Cardinality(S) -> S] : \A i, j \in DOMAIN o : o[i] = o[j] => i = j}

\* Mutant: the old rows are not deleted first.
ReplaceRowsKeepingOld(t, r, o) == [i \in 1 .. Len(o) |-> InsertRow(t, o[i], r[o[i]])]

\* The statements that make r the rows of table t: delete all, insert one by one.
ReplaceRows(t, r, o) ==
  <<DeleteRows(t)>> \o [i \in 1 .. Len(o) |-> InsertRow(t, o[i], r[o[i]])]

\* updateMetadataTable replaces the whole row.
ReplaceMetadata == <<DeleteMetadata, InsertMetadata(applyTime)>>

\* What a statement does to the main tables.
Execute(tables, s) ==
  CASE s.op = "delete" -> [tables EXCEPT ![s.table] = NoRows]
    [] s.op = "insert" -> [tables EXCEPT ![s.table] = [@ EXCEPT ![s.key] = s.value]]
    [] OTHER           -> tables

\* What a statement does to the metadata row.  An UPDATE of a missing row does
\* nothing.
ExecuteMetadata(row, s) ==
  CASE s.op = "deleteMetadata"                    -> NoRow
    [] s.op = "insertMetadata"                    -> s.time
    [] s.op = "updateApplyTime" /\ row # NoRow    -> s.time
    [] OTHER                                      -> row

\* The operation queue runs the block at its head.  Without a usable handle the
\* statement cannot be prepared and nothing happens.
RunStatement ==
  /\ statements # << >>
  /\ statements' = Tail(statements)
  /\ stored' = IF isOpen THEN Execute(stored, Head(statements)) ELSE stored
  /\ storedApply' = IF isOpen THEN ExecuteMetadata(storedApply, Head(statements))
                              ELSE storedApply
  /\ UNCHANGED <<file, tag, tagTime, phase, isOpen, isNew, rows, load, content,
                 applyTime, block, received, published, now, lostWork>>

-----------------------------------------------------------------------------
(* Launch *)

\* createOrOpenDatabase, the first block of the operation queue.  A file that is
\* missing is created; one whose tables cannot be created is removed and made
\* anew.  Either way the database counts as new in this process.
OpenDatabase ==
  /\ phase = "down"
  /\ phase' = "opened"
  /\ isOpen' = TRUE
  /\ isNew' = (file # "ok")
  /\ file' = "ok"
  /\ stored' = IF file = "ok" THEN stored ELSE NoTables
  /\ storedApply' = IF file = "ok" THEN storedApply ELSE NoRow
  /\ UNCHANGED <<tag, tagTime, statements, rows, load, content, applyTime, block,
                 received, published, now, lostWork>>

\* The database cannot be opened, or not be made anew after a corrupt file was
\* removed: the error is logged and the process goes on without.
OpenDatabaseFails ==
  /\ phase = "down"
  /\ phase' = "opened"
  /\ \/ isNew' = (file = "missing") /\ UNCHANGED file
     \/ file = "corrupt" /\ isNew' = TRUE /\ file' = "missing"
  /\ lostWork' = TRUE
  /\ UNCHANGED <<stored, storedApply, tag, tagTime, isOpen, statements, rows, load, content,
                 applyTime, block, received, published, now>>

\* loadMainWithBundleIdentifier, dispatched by RCNConfigContent's initializer:
\* the block reads the three tables and dispatches the handler.
LoadMain ==
  /\ phase = "opened"
  /\ phase' = "rowsRead"
  /\ rows' = IF isOpen THEN stored ELSE NoTables
  /\ UNCHANGED <<deviceVars, isOpen, isNew, statements, load, content, applyTime, block,
                 received, published, now, lostWork>>

\* The handler, on a global queue, installs what was read.
LoadHandler ==
  /\ phase \in {"rowsRead", "ready"}
  /\ load \in {"pending", "overtaken"}
  /\ content' = rows
  /\ rows' = NoTables
  /\ load' = IF load = "pending" THEN "done" ELSE "late"
  /\ UNCHANGED <<deviceVars, phase, isOpen, isNew, statements, applyTime, block,
                 received, published, now, lostWork>>

\* Mutants: a missing metadata row is not checked for; the user defaults are
\* kept when the database is new.
InitSettingsUncheckedRow ==
  /\ phase = "rowsRead"
  /\ phase' = "ready"
  /\ tag' = IF isNew THEN 0 ELSE tag
  /\ tagTime' = IF isNew THEN 0 ELSE tagTime
  /\ applyTime' = storedApply
  /\ block' = "setDefaults"
  /\ UNCHANGED <<file, stored, storedApply, isOpen, isNew, statements, rows, load,
                 content, received, published, now, lostWork>>

InitSettingsKeepingDefaults ==
  /\ phase = "rowsRead"
  /\ phase' = "ready"
  /\ applyTime' = IF isOpen /\ storedApply # NoRow THEN storedApply ELSE 0
  /\ block' = "setDefaults"
  /\ UNCHANGED <<deviceVars, isOpen, isNew, statements, rows, load, content, received,
                 published, now, lostWork>>

\* RCNConfigSettings' initializer waits for the operation queue (dispatch_sync),
\* resets the user defaults if the database is new, and loads the metadata row.
\* The app's manager then dispatches setDefaults.
InitSettings ==
  /\ phase = "rowsRead"
  /\ phase' = "ready"
  /\ tag' = IF isNew THEN 0 ELSE tag
  /\ tagTime' = IF isNew THEN 0 ELSE tagTime
  /\ applyTime' = IF isOpen /\ storedApply # NoRow THEN storedApply ELSE 0
  /\ block' = "setDefaults"
  /\ UNCHANGED <<file, stored, storedApply, isOpen, isNew, statements, rows, load,
                 content, received, published, now, lostWork>>

-----------------------------------------------------------------------------
(* Blocks of the client's serial queue *)

\* checkAndWaitForInitialDatabaseLoad: after 30 seconds the caller goes on
\* without the load.
LoadOver == load \in {"done", "late"} \/ LoadMayTimeOut

\* The block starts and goes past the wait.
StartBlock(b) ==
  /\ phase = "ready"
  /\ block = b
  /\ Len(statements) <= MaxPending
  /\ LoadOver

\* The block changes the content; if the load is still under way it will be
\* overtaken by this change.
ChangeContent(t, r) ==
  /\ content' = [content EXCEPT ![t] = r]
  /\ load' = IF load = "pending" THEN "overtaken" ELSE load
  /\ lostWork' = (lostWork \/ load \in {"pending", "overtaken"})

\* setDefaults: copyFromDictionary to the default config.
SetDefaults ==
  /\ StartBlock("setDefaults")
  /\ ChangeContent("default", DefaultRows)
  /\ \E o \in Orders(KeysOf(DefaultRows)) :
       statements' = statements \o ReplaceRows("default", DefaultRows, o)
  /\ block' = "idle"
  /\ UNCHANGED <<deviceVars, phase, isOpen, isNew, rows, applyTime, received, published, now>>

\* Mutant: entries the new template no longer has stay in memory.
FetchedAfterMerge(old, v) == [k \in Keys |-> IF k \in Entries[v] THEN v ELSE old[k]]

\* handleUpdateState and the two states without entries: the dictionary of the
\* namespace is emptied, then filled with the answer's entries.
FetchedAfter(old, v) == TemplateRows(v)

\* updateConfigContentWithResponse, the first part of the block that handles an
\* answer with a new template.
StoreAnswer ==
  /\ StartBlock("idle")
  /\ published # tag
  /\ now < MaxTime
  /\ LET r == FetchedAfter(content["fetched"], published)
     IN  /\ ChangeContent("fetched", r)
         /\ \E o \in Orders(Entries[published]) :
              statements' = statements \o ReplaceRows("fetched", TemplateRows(published), o)
  /\ block' = "tagTime"
  /\ received' = published
  /\ UNCHANGED <<deviceVars, phase, isOpen, isNew, rows, applyTime, published, now>>

\* setLastETag: the time first,
RecordTagTime ==
  /\ block = "tagTime"
  /\ tagTime' = now + 1
  /\ now' = now + 1
  /\ block' = "tag"
  /\ UNCHANGED <<file, stored, storedApply, tag, phase, isOpen, isNew, statements, rows,
                 load, content, applyTime, received, published, lostWork>>

\* then the tag.  From here on the answer has replaced whatever was lost, if
\* its rows can reach the database and no late load can overwrite them.
RecordTag ==
  /\ block = "tag"
  /\ tag' = received
  /\ block' = "metadata"
  /\ lostWork' = (lostWork /\ ~(load = "done" /\ isOpen))
  /\ UNCHANGED <<file, stored, storedApply, tagTime, phase, isOpen, isNew, statements,
                 rows, load, content, applyTime, received, published, now>>

\* updateMetadataWithFetchSuccessStatus, the last part of the block.
RecordFetch ==
  /\ block = "metadata"
  /\ statements' = statements \o ReplaceMetadata
  /\ block' = "idle"
  /\ received' = 0
  /\ UNCHANGED <<deviceVars, phase, isOpen, isNew, rows, load, content, applyTime,
                 published, now, lostWork>>

\* An answer without a template: NO_CHANGE, which leaves content and tag alone,
\* or a failed fetch.  Both update the metadata row.
AnswerWithoutTemplate ==
  /\ StartBlock("idle")
  /\ statements' = statements \o ReplaceMetadata
  /\ UNCHANGED <<deviceVars, phase, isOpen, isNew, rows, load, content, applyTime, block,
                 received, published, now, lostWork>>

\* activateWithCompletion, unless it finds the fetched config already activated.
Activate ==
  /\ StartBlock("idle")
  /\ tagTime # 0 /\ tagTime > applyTime
  /\ now < MaxTime
  /\ ChangeContent("active", content["fetched"])
  /\ now' = now + 1
  /\ applyTime' = now + 1
  /\ \E o \in Orders(KeysOf(content["fetched"])) :
       statements' = statements \o ReplaceRows("active", content["fetched"], o)
                                \o <<UpdateApplyTime(now + 1)>>
  /\ UNCHANGED <<deviceVars, phase, isOpen, isNew, rows, block, received, published>>

-----------------------------------------------------------------------------
(* Faults and the server *)

\* The process ends: iOS kills it, or it crashes.  What it had not stored yet,
\* or had not reset yet, is lost.
Crash ==
  /\ phase # "down"
  /\ phase' = "down" /\ isOpen' = FALSE /\ isNew' = FALSE /\ statements' = << >>
  /\ rows' = NoTables /\ load' = "pending" /\ content' = NoTables /\ applyTime' = 0
  /\ block' = "none" /\ received' = 0
  /\ lostWork' = (\/ lostWork
                  \/ statements # << >>
                  \/ block \notin {"none", "setDefaults", "idle"}
                  \/ isNew /\ phase # "ready"
                  \/ ~isOpen)
  /\ UNCHANGED <<deviceVars, published, now>>

\* While the app is not running the database file disappears (it is excluded
\* from backups, the user defaults are not) or becomes unreadable.
DatabaseLost ==
  /\ phase = "down"
  /\ file = "ok"
  /\ file' \in {"missing", "corrupt"}
  /\ UNCHANGED <<stored, storedApply, tag, tagTime, processVars, published, now, lostWork>>

Publish ==
  /\ published < MaxVersion
  /\ published' = published + 1
  /\ UNCHANGED <<deviceVars, processVars, now, lostWork>>

PNext ==
  \/ OpenDatabase \/ OpenDatabaseFails \/ LoadMain \/ LoadHandler \/ InitSettings
  \/ SetDefaults \/ StoreAnswer \/ RecordTagTime \/ RecordTag \/ RecordFetch
  \/ AnswerWithoutTemplate \/ Activate
  \/ RunStatement
  \/ Crash \/ DatabaseLost \/ Publish

PSpec == PInit /\ [][PNext]_pvars
-----------------------------------------------------------------------------
(* Properties *)

\* The types of the variables.
PTypeOK ==
  /\ file \in {"ok", "missing", "corrupt"}
  /\ stored \in [Tables -> Rows] /\ content \in [Tables -> Rows] /\ rows \in [Tables -> Rows]
  /\ storedApply \in Nat \cup {NoRow}
  /\ tag \in Versions /\ received \in Versions /\ published \in Versions \ {0}
  /\ tagTime \in Nat /\ applyTime \in Nat /\ now \in Nat
  /\ phase \in {"down", "opened", "rowsRead", "ready"}
  /\ isOpen \in BOOLEAN /\ isNew \in BOOLEAN /\ lostWork \in BOOLEAN
  /\ statements \in Seq(Statements)
  /\ load \in {"pending", "overtaken", "done", "late"}
  /\ block \in {"none", "setDefaults", "idle", "tagTime", "tag", "metadata"}

SameTemplate(r) == \A k, l \in Keys : r[k] # 0 /\ r[l] # 0 => r[k] = r[l]

\* No table, on disk or in memory, ever mixes the entries of two templates,
\* whenever the process was killed and whatever was waiting then: a half-written
\* table is a part of one template.  (The rows are written one statement at a
\* time, without a transaction.)
OneTemplatePerTable ==
  \A t \in Tables : SameTemplate(stored[t]) /\ SameTemplate(content[t])

Writes(s, t, k) == s.op \in {"delete", "insert"} /\ s.table = t /\ (s.op = "insert" => s.key = k)
Written(s) == IF s.op = "insert" THEN s.value ELSE 0
WritesMetadata(s) == s.op \in {"deleteMetadata", "insertMetadata", "updateApplyTime"}

\* i is the last waiting statement for which Is holds.
IsLast(i, Is(_)) ==
  /\ i \in DOMAIN statements /\ Is(statements[i])
  /\ \A j \in DOMAIN statements : j > i => ~Is(statements[j])

\* Once the waiting statements have run, table t will hold for k what is in memory.
RowCatchesUp(t, k) ==
  LET W(s) == Writes(s, t, k)
  IN  /\ (\A i \in DOMAIN statements : ~W(statements[i])) => stored[t][k] = content[t][k]
      /\ \A i \in DOMAIN statements :
           IsLast(i, W) => Written(statements[i]) = content[t][k]

\* Likewise for the apply time, if there is a metadata row at all.
ApplyTimeCatchesUp ==
  /\ (\A i \in DOMAIN statements : ~WritesMetadata(statements[i]))
       => storedApply \in {NoRow, applyTime}
  /\ \A i \in DOMAIN statements :
       IsLast(i, WritesMetadata)
         => statements[i].op # "deleteMetadata" /\ statements[i].time = applyTime

\* The database is written behind and catches up: running the waiting statements
\* would leave exactly the content and the apply time that are in memory.
WriteBehind ==
  phase = "ready" /\ isOpen =>
    /\ load = "done" => \A t \in Tables, k \in Keys : RowCatchesUp(t, k)
    /\ ApplyTimeCatchesUp

\* Between two blocks, with the initial load over.
AtRest == phase = "ready" /\ block \in {"setDefaults", "idle"} /\ load = "done"

\* Unless work was lost, a restart brings back fetched content that is complete and
\* is what the stored ETag names (so NO_CHANGE answers are right), and an activation
\* that is skipped as already done has been done.  A lost or corrupt database does
\* not count as lost work: the user defaults are reset with it.  After lost work the
\* next answer with a template makes the property true again.
TagMatchesContent ==
  AtRest /\ ~lostWork =>
    /\ content["fetched"] = TemplateRows(tag)
    /\ tagTime # 0 /\ tagTime <= applyTime => content["active"] = content["fetched"]

\* What the client's header promises of the shared instance: it caches the values
\* fetched from the server until they are activated.  The ETag says which they are.
CachesFetchedValues == AtRest /\ tag # 0 => content["fetched"] = TemplateRows(tag)
=============================================================================
