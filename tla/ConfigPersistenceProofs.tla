---------------------- MODULE ConfigPersistenceProofs ----------------------
(***************************************************************************)
(* Proofs about ConfigPersistence for any set of keys, templates, times    *)
(* and queue length, with crashes, lost files, failed opens and timed out  *)
(* loads: no table mixes two templates, the database catches up with the   *)
(* memory, and what a restart brings back is what the stored ETag names.   *)
(***************************************************************************)
EXTENDS ConfigPersistence, FiniteSetTheorems, TLAPS

-----------------------------------------------------------------------------
(* The inductive invariant *)

Deletes(s, t) == s.op = "delete" /\ s.table = t
Inserts(s, t) == s.op = "insert" /\ s.table = t

\* Two waiting inserts into a table with no delete of it between them have the
\* same template.
RunsOfInserts(q, t) ==
  \A i, j \in DOMAIN q :
    /\ i < j
    /\ Inserts(q[i], t) /\ Inserts(q[j], t)
    /\ \A m \in i .. j : ~Deletes(q[m], t)
    => q[i].value = q[j].value

\* A waiting insert that no delete precedes goes on with the rows d of the table.
InsertsContinue(q, d, t) ==
  \A i \in DOMAIN q :
    Inserts(q[i], t) /\ (\A m \in 1 .. i : ~Deletes(q[m], t))
    => \A k \in Keys : d[k] # 0 => d[k] = q[i].value

\* Why a table has the rows of one template at every moment.  (Without a usable
\* handle the deletes are dropped with the inserts.)
TemplatesInv ==
  \A t \in Tables :
    /\ SameTemplate(stored[t]) /\ SameTemplate(content[t]) /\ SameTemplate(rows[t])
    /\ RunsOfInserts(statements, t)
    /\ isOpen => InsertsContinue(statements, stored[t], t)

\* The row d of the database, once the statements q have run, is m.
CatchesUp(q, d, m, t, k) ==
  /\ (\A i \in DOMAIN q : ~Writes(q[i], t, k)) => d = m
  /\ \A i \in DOMAIN q :
       Writes(q[i], t, k) /\ (\A j \in DOMAIN q : j > i => ~Writes(q[j], t, k))
       => Written(q[i]) = m

\* The same of the apply time m.
TimeCatchesUp(q, d, m) ==
  /\ (\A i \in DOMAIN q : ~WritesMetadata(q[i])) => d \in {NoRow, m}
  /\ \A i \in DOMAIN q :
       WritesMetadata(q[i]) /\ (\A j \in DOMAIN q : j > i => ~WritesMetadata(q[j]))
       => q[i].op # "deleteMetadata" /\ q[i].time = m

\* The order of a launch: nothing is written before the defaults are set, and that
\* overtakes a load that is still pending.
LaunchInv ==
  /\ phase = "ready" <=> block # "none"
  /\ phase # "ready" => load \in {"pending", "done"}
  /\ phase \in {"down", "opened"} => load = "pending"
  /\ phase = "ready" /\ load = "pending" => block = "setDefaults"
  /\ phase # "ready" \/ load = "pending" => statements = << >>
  /\ phase = "down" => ~isOpen
  /\ isOpen => file = "ok"

\* What was read is what is stored, until the handler installs it; then the
\* database follows the memory.
MemoryInv ==
  isOpen =>
    /\ phase \in {"rowsRead", "ready"} /\ load = "pending" => rows = stored
    /\ load = "done" =>
         \A t \in Tables, k \in Keys :
           CatchesUp(statements, stored[t][k], content[t][k], t, k)
    /\ phase = "ready" => TimeCatchesUp(statements, storedApply, applyTime)

\* The waiting statements record no time after n.
TimesUpTo(q, n) ==
  \A i \in DOMAIN q :
    WritesMetadata(q[i]) /\ q[i].op # "deleteMetadata" => q[i].time <= n

\* No time lies ahead of the clock.
TimesInv == applyTime <= now /\ storedApply <= now /\ TimesUpTo(statements, now)

\* The tables and the apply time agree with an ETag g and its time.
Agrees(tables, apply, g, time) ==
  /\ tables["fetched"] = TemplateRows(g)
  /\ time # 0 /\ time <= apply => tables["active"] = tables["fetched"]

\* A block that stores an answer: its template is in memory, and from the second
\* write on the answer is younger than the last activation.
AnswerInv ==
  /\ block \in {"tagTime", "tag", "metadata"} /\ load = "done"
       => content["fetched"] = TemplateRows(received)
  /\ block \in {"tag", "metadata"} => tagTime > applyTime
  /\ block = "metadata" => tag = received

\* What is known while no work is lost: of the file between launches, of the tables
\* until the load is installed, and of the memory from then on.
RestoredInv ==
  /\ load \in {"overtaken", "late"} => lostWork
  /\ phase # "down" /\ ~isOpen => lostWork
  /\ ~lostWork =>
       /\ phase = "down" /\ file = "ok" => Agrees(stored, storedApply, tag, tagTime)
       /\ phase \in {"opened", "rowsRead"} =>
            IF isNew THEN stored = NoTables /\ storedApply = NoRow
                     ELSE Agrees(stored, storedApply, tag, tagTime)
       /\ phase = "ready" /\ load = "pending" =>
            Agrees(stored, applyTime, tag, tagTime)
       /\ phase = "ready" /\ load = "done" /\ block \in {"setDefaults", "idle", "metadata"} =>
            Agrees(content, applyTime, tag, tagTime)

PersistenceInv ==
  PTypeOK /\ LaunchInv /\ TemplatesInv /\ MemoryInv /\ TimesInv /\ AnswerInv /\ RestoredInv

-----------------------------------------------------------------------------
(* Statements and what they do *)

LEMMA StatementKinds ==
  ASSUME NEW s \in Statements
  PROVE  \/ s.op = "delete" /\ s.table \in Tables
         \/ s.op = "insert" /\ s.table \in Tables /\ s.key \in Keys
              /\ s.value \in Versions \ {0}
         \/ s.op = "deleteMetadata"
         \/ s.op = "insertMetadata" /\ s.time \in Nat
         \/ s.op = "updateApplyTime" /\ s.time \in Nat
BY DEF Statements

LEMMA StatementTypes ==
  /\ \A t \in Tables : DeleteRows(t) \in Statements
  /\ \A t \in Tables, k \in Keys, v \in Versions \ {0} : InsertRow(t, k, v) \in Statements
  /\ DeleteMetadata \in Statements
  /\ \A a \in Nat : InsertMetadata(a) \in Statements /\ UpdateApplyTime(a) \in Statements
BY DEF Statements, DeleteRows, InsertRow, DeleteMetadata, InsertMetadata, UpdateApplyTime

LEMMA RowTypes ==
  /\ NoRows \in Rows /\ NoTables \in [Tables -> Rows]
  /\ DefaultRows \in Rows
  /\ \A v \in Versions : TemplateRows(v) \in Rows
<1>1. 0 \in Versions /\ 1 \in Versions
  BY PersistenceAssumption DEF Versions
<1> QED BY <1>1 DEF NoRows, NoTables, Rows, DefaultRows, TemplateRows

\* A statement changes the rows it writes and no others.
LEMMA ExecuteEffect ==
  ASSUME NEW tables \in [Tables -> Rows], NEW s \in Statements
  PROVE  /\ Execute(tables, s) \in [Tables -> Rows]
         /\ \A t \in Tables, k \in Keys :
              Execute(tables, s)[t][k] = IF Writes(s, t, k) THEN Written(s) ELSE tables[t][k]
<1>1. CASE s.op = "delete"
  <2>1. s.table \in Tables
    BY <1>1, StatementKinds
  <2>2. Execute(tables, s) = [tables EXCEPT ![s.table] = NoRows]
    BY <1>1 DEF Execute
  <2>3. \A t \in Tables, k \in Keys : Writes(s, t, k) <=> s.table = t
    BY <1>1 DEF Writes
  <2>4. Written(s) = 0
    BY <1>1 DEF Written
  <2> QED BY <2>1, <2>2, <2>3, <2>4, RowTypes DEF NoRows, Rows
<1>2. CASE s.op = "insert"
  <2>1. s.table \in Tables /\ s.key \in Keys /\ s.value \in Versions
    BY <1>2, StatementKinds
  <2>2. Execute(tables, s) = [tables EXCEPT ![s.table] = [@ EXCEPT ![s.key] = s.value]]
    BY <1>2 DEF Execute
  <2>3. \A t \in Tables, k \in Keys : Writes(s, t, k) <=> s.table = t /\ s.key = k
    BY <1>2 DEF Writes
  <2>4. Written(s) = s.value
    BY <1>2 DEF Written
  <2> QED BY <2>1, <2>2, <2>3, <2>4 DEF Rows
<1>3. CASE s.op \notin {"delete", "insert"}
  BY <1>3 DEF Execute, Writes
<1> QED BY <1>1, <1>2, <1>3

LEMMA ExecuteMetadataEffect ==
  ASSUME NEW row \in Nat \cup {NoRow}, NEW s \in Statements
  PROVE  /\ ExecuteMetadata(row, s) \in Nat \cup {NoRow}
         /\ ~WritesMetadata(s) => ExecuteMetadata(row, s) = row
         /\ WritesMetadata(s) /\ s.op # "deleteMetadata"
              => ExecuteMetadata(row, s) \in {NoRow, s.time} /\ s.time \in Nat
         /\ s.op = "deleteMetadata" => ExecuteMetadata(row, s) = NoRow
<1>1. CASE s.op = "deleteMetadata"
  BY <1>1 DEF ExecuteMetadata, WritesMetadata
<1>2. CASE s.op = "insertMetadata"
  <2>1. s.time \in Nat
    BY <1>2, StatementKinds
  <2> QED BY <1>2, <2>1 DEF ExecuteMetadata, WritesMetadata
<1>3. CASE s.op = "updateApplyTime"
  <2>1. s.time \in Nat
    BY <1>3, StatementKinds
  <2>2. CASE row = NoRow
    BY <1>3, <2>1, <2>2 DEF ExecuteMetadata, WritesMetadata
  <2>3. CASE row # NoRow
    BY <1>3, <2>1, <2>3 DEF ExecuteMetadata, WritesMetadata
  <2> QED BY <2>2, <2>3
<1>4. CASE s.op \in {"delete", "insert"}
  BY <1>4 DEF ExecuteMetadata, WritesMetadata
<1> QED BY <1>1, <1>2, <1>3, <1>4, StatementKinds

-----------------------------------------------------------------------------
(* Replacing the rows of a table *)

\* An order of a set of keys is a sequence in which every key comes once.
LEMMA OrderOf ==
  ASSUME NEW S \in SUBSET Keys, NEW o \in Orders(S)
  PROVE  /\ o \in Seq(Keys)
         /\ \A i \in 1 .. Len(o) : o[i] \in S
         /\ \A i, j \in 1 .. Len(o) : o[i] = o[j] => i = j
         /\ \A k \in S : \E i \in 1 .. Len(o) : o[i] = k
<1> DEFINE n == Cardinality(S)
<1>1. IsFiniteSet(S)
  BY FS_Subset, PersistenceAssumption
<1>2. n \in Nat
  BY <1>1, FS_CardinalityType
<1>3. o \in [1 .. n -> S] /\ \A i, j \in DOMAIN o : o[i] = o[j] => i = j
  BY DEF Orders
<1>4. IsFiniteSet(1 .. n) /\ Cardinality(1 .. n) = n
  BY <1>2, FS_Interval
<1>5. o \in Injection(1 .. n, S)
  BY <1>3 DEF Injection, IsInjective
<1>6. o \in Surjection(1 .. n, S)
  BY <1>1, <1>4, <1>5, FS_Injection
<1>7. \A k \in S : \E i \in 1 .. n : o[i] = k
  BY <1>6 DEF Surjection
<1> HIDE DEF n
<1>8. o \in Seq(S) /\ Len(o) = n
  BY <1>2, <1>3
<1>9. o \in Seq(Keys)
  BY <1>8
<1> QED BY <1>3, <1>7, <1>8, <1>9

\* The statements of ReplaceRows, one by one.
LEMMA ReplaceRowsShape ==
  ASSUME NEW t \in Tables, NEW r \in Rows, NEW o \in Orders(KeysOf(r))
  PROVE  /\ ReplaceRows(t, r, o) \in Seq(Statements)
         /\ Len(o) \in Nat /\ Len(ReplaceRows(t, r, o)) = Len(o) + 1
         /\ ReplaceRows(t, r, o)[1] = DeleteRows(t)
         /\ \A i \in 1 .. Len(o) : /\ ReplaceRows(t, r, o)[i + 1] = InsertRow(t, o[i], r[o[i]])
                                   /\ o[i] \in Keys /\ r[o[i]] # 0
<1>1. KeysOf(r) \in SUBSET Keys
  BY DEF KeysOf
<1>2. o \in Seq(Keys) /\ \A i \in 1 .. Len(o) : o[i] \in Keys /\ r[o[i]] # 0
  BY <1>1, OrderOf DEF KeysOf
<1>3. PICK n \in Nat : n = Len(o)
  BY <1>2
<1> DEFINE tail == [i \in 1 .. n |-> InsertRow(t, o[i], r[o[i]])]
<1>4. \A i \in 1 .. n : InsertRow(t, o[i], r[o[i]]) \in Statements
  <2> SUFFICES ASSUME NEW i \in 1 .. n
               PROVE  InsertRow(t, o[i], r[o[i]]) \in Statements
    OBVIOUS
  <2>1. o[i] \in Keys /\ r[o[i]] \in Versions \ {0}
    BY <1>2, <1>3 DEF Rows
  <2> QED BY <2>1, StatementTypes
<1>5. tail \in Seq(Statements) /\ Len(tail) = n
  BY <1>4
<1>6. \A i \in 1 .. n : tail[i] = InsertRow(t, o[i], r[o[i]])
  OBVIOUS
<1>7. ReplaceRows(t, r, o) = <<DeleteRows(t)>> \o tail
  BY <1>3 DEF ReplaceRows
<1> HIDE DEF tail
<1>8. <<DeleteRows(t)>> \in Seq(Statements) /\ Len(<<DeleteRows(t)>>) = 1
  BY StatementTypes
<1> DEFINE p == <<DeleteRows(t)>> \o tail
<1>9. p \in Seq(Statements) /\ Len(p) = n + 1 /\ p[1] = DeleteRows(t)
      /\ \A i \in 1 .. n : p[i + 1] = tail[i]
  BY <1>5, <1>8
<1> HIDE DEF p
<1>10. ReplaceRows(t, r, o) = p
  BY <1>7 DEF p
<1> QED BY <1>2, <1>3, <1>6, <1>9, <1>10

\* The last of them that writes a row of the table writes the row of r.
LEMMA ReplaceRowsLast ==
  ASSUME NEW t \in Tables, NEW r \in Rows, NEW o \in Orders(KeysOf(r)), NEW k \in Keys,
         NEW p \in Seq(Statements), p = ReplaceRows(t, r, o)
  PROVE  \E i \in 1 .. Len(p) : /\ Writes(p[i], t, k) /\ Written(p[i]) = r[k]
                                /\ \A j \in 1 .. Len(p) : j > i => ~Writes(p[j], t, k)
<1>1. PICK n \in Nat : n = Len(o) /\ Len(p) = n + 1
  BY ReplaceRowsShape
<1>2. p[1] = DeleteRows(t)
  BY ReplaceRowsShape
<1>3. \A i \in 1 .. n : p[i + 1] = InsertRow(t, o[i], r[o[i]]) /\ r[o[i]] # 0
  BY <1>1, ReplaceRowsShape
<1>4. \A i \in 1 .. n : /\ Writes(p[i + 1], t, k) <=> o[i] = k
                        /\ Written(p[i + 1]) = r[o[i]]
  <2> SUFFICES ASSUME NEW i \in 1 .. n
               PROVE  /\ Writes(p[i + 1], t, k) <=> o[i] = k
                      /\ Written(p[i + 1]) = r[o[i]]
    OBVIOUS
  <2>1. \A l, v : /\ Writes(InsertRow(t, l, v), t, k) <=> l = k
                  /\ Written(InsertRow(t, l, v)) = v
    BY DEF Writes, Written, InsertRow
  <2> QED BY <1>3, <2>1
<1>5. Writes(p[1], t, k) /\ Written(p[1]) = 0
  BY <1>2 DEF Writes, Written, DeleteRows
<1>6. KeysOf(r) \in SUBSET Keys
  BY DEF KeysOf
<1>7. CASE r[k] = 0
  <2>1. \A j \in 1 .. n + 1 : j > 1 => ~Writes(p[j], t, k)
    <3> SUFFICES ASSUME NEW j \in 1 .. n + 1, j > 1 PROVE ~Writes(p[j], t, k)
      OBVIOUS
    <3>1. j - 1 \in 1 .. n /\ j = (j - 1) + 1
      OBVIOUS
    <3>2. o[j - 1] # k
      BY <1>3, <1>7, <3>1
    <3> QED BY <1>4, <3>1, <3>2
  <2> QED BY <1>1, <1>5, <1>7, <2>1
<1>8. CASE r[k] # 0
  <2>1. k \in KeysOf(r)
    BY <1>8 DEF KeysOf
  <2>2. PICK i \in 1 .. n : o[i] = k
    BY <1>1, <1>6, <2>1, OrderOf
  <2>3. \A j \in 1 .. n : o[j] = k => j = i
    BY <1>1, <1>6, <2>2, OrderOf
  <2>4. \A j \in 1 .. n + 1 : j > i + 1 => ~Writes(p[j], t, k)
    <3> SUFFICES ASSUME NEW j \in 1 .. n + 1, j > i + 1 PROVE ~Writes(p[j], t, k)
      OBVIOUS
    <3>1. j - 1 \in 1 .. n /\ j = (j - 1) + 1 /\ j - 1 # i
      OBVIOUS
    <3> QED BY <1>4, <2>3, <3>1
  <2>5. i + 1 \in 1 .. Len(p)
    BY <1>1
  <2> QED BY <1>1, <1>4, <2>2, <2>4, <2>5
<1> QED BY <1>7, <1>8

\* None of them writes another table or the metadata.
LEMMA ReplaceRowsOnly ==
  ASSUME NEW t \in Tables, NEW r \in Rows, NEW o \in Orders(KeysOf(r)),
         NEW p \in Seq(Statements), p = ReplaceRows(t, r, o), NEW i \in 1 .. Len(p)
  PROVE  /\ ~WritesMetadata(p[i])
         /\ \A u \in Tables : u # t => /\ ~Inserts(p[i], u) /\ ~Deletes(p[i], u)
                                       /\ \A k \in Keys : ~Writes(p[i], u, k)
<1>1. PICK n \in Nat : n = Len(o) /\ Len(p) = n + 1
  BY ReplaceRowsShape
<1>2. CASE i = 1
  <2>1. p[i] = DeleteRows(t)
    BY <1>2, ReplaceRowsShape
  <2> QED BY <2>1 DEF WritesMetadata, Inserts, Deletes, Writes, DeleteRows
<1>3. CASE i # 1
  <2>1. i - 1 \in 1 .. n /\ i = (i - 1) + 1
    BY <1>1, <1>3
  <2>2. p[i] = InsertRow(t, o[i - 1], r[o[i - 1]])
    BY <1>1, <2>1, ReplaceRowsShape
  <2> QED BY <2>2 DEF WritesMetadata, Inserts, Deletes, Writes, InsertRow
<1> QED BY <1>2, <1>3

-----------------------------------------------------------------------------
(* The queue of statements *)

LEMMA QueueTail ==
  ASSUME NEW q \in Seq(Statements), q # << >>
  PROVE  \E n \in Nat :
           /\ DOMAIN q = 1 .. n + 1 /\ DOMAIN Tail(q) = 1 .. n
           /\ Tail(q) \in Seq(Statements) /\ Head(q) = q[1] /\ q[1] \in Statements
           /\ \A i \in 1 .. n : Tail(q)[i] = q[i + 1]
<1>1. Len(q) \in Nat /\ Len(q) >= 1 /\ DOMAIN q = 1 .. Len(q)
  OBVIOUS
<1>2. PICK n \in Nat : Len(q) = n + 1
  <2>1. Len(q) - 1 \in Nat /\ Len(q) = (Len(q) - 1) + 1
    BY <1>1
  <2> QED BY <2>1
<1>3. Tail(q) \in Seq(Statements) /\ Len(Tail(q)) = n
  BY <1>2
<1>4. DOMAIN Tail(q) = 1 .. n
  BY <1>3
<1>5. Head(q) = q[1] /\ q[1] \in Statements
  OBVIOUS
<1>6. \A i \in 1 .. n : Tail(q)[i] = q[i + 1]
  BY <1>2
<1> QED BY <1>1, <1>2, <1>3, <1>4, <1>5, <1>6

\* s is the queue q with the statements p behind.
Extended(s, q, p) ==
  /\ s \in Seq(Statements)
  /\ \E a, b \in Nat :
       /\ DOMAIN q = 1 .. a /\ Len(p) = b /\ DOMAIN s = 1 .. a + b
       /\ \A i \in 1 .. a : s[i] = q[i]
       /\ \A i \in 1 .. b : s[a + i] = p[i]

LEMMA QueueConcat ==
  ASSUME NEW q \in Seq(Statements), NEW p \in Seq(Statements)
  PROVE  Extended(q \o p, q, p)
<1> DEFINE s == q \o p
<1>1. PICK a \in Nat : a = Len(q)
  OBVIOUS
<1>2. PICK b \in Nat : b = Len(p)
  OBVIOUS
<1>3. DOMAIN q = 1 .. a
  BY <1>1
<1>4. s \in Seq(Statements) /\ Len(s) = a + b
  BY <1>1, <1>2
<1>5. DOMAIN s = 1 .. a + b
  BY <1>4
<1>6. \A i \in 1 .. a : s[i] = q[i]
  BY <1>1
<1>7. \A i \in 1 .. b : s[a + i] = p[i]
  BY <1>1, <1>2
<1> HIDE DEF s
<1>8. Extended(s, q, p)
  BY <1>2, <1>3, <1>4, <1>5, <1>6, <1>7 DEF Extended
<1> QED BY <1>8 DEF s

\* Running a statement keeps the promise that the database catches up.
LEMMA CatchesUpTail ==
  ASSUME NEW q \in Seq(Statements), q # << >>, NEW d, NEW m, NEW t, NEW k, NEW e,
         CatchesUp(q, d, m, t, k),
         e = IF Writes(Head(q), t, k) THEN Written(Head(q)) ELSE d
  PROVE  CatchesUp(Tail(q), e, m, t, k)
<1>1. PICK n \in Nat :
        /\ DOMAIN q = 1 .. n + 1 /\ DOMAIN Tail(q) = 1 .. n /\ Head(q) = q[1]
        /\ \A i \in 1 .. n : Tail(q)[i] = q[i + 1]
  BY QueueTail
<1>2. ASSUME \A i \in 1 .. n : ~Writes(q[i + 1], t, k)
      PROVE  e = m
  <2>1. \A j \in 1 .. n + 1 : j > 1 => ~Writes(q[j], t, k)
    <3> SUFFICES ASSUME NEW j \in 1 .. n + 1, j > 1 PROVE ~Writes(q[j], t, k)
      OBVIOUS
    <3>1. j - 1 \in 1 .. n /\ (j - 1) + 1 = j
      OBVIOUS
    <3> QED BY <1>2, <3>1
  <2>2. 1 \in 1 .. n + 1
    OBVIOUS
  <2>3. CASE Writes(q[1], t, k)
    BY <1>1, <2>1, <2>2, <2>3 DEF CatchesUp
  <2>4. CASE ~Writes(q[1], t, k)
    <3>1. \A j \in 1 .. n + 1 : ~Writes(q[j], t, k)
      BY <2>1, <2>4
    <3> QED BY <1>1, <2>4, <3>1 DEF CatchesUp
  <2> QED BY <2>3, <2>4
<1>3. ASSUME NEW i \in 1 .. n, Writes(q[i + 1], t, k),
             \A j \in 1 .. n : j > i => ~Writes(q[j + 1], t, k)
      PROVE  Written(q[i + 1]) = m
  <2>1. \A j \in 1 .. n + 1 : j > i + 1 => ~Writes(q[j], t, k)
    <3> SUFFICES ASSUME NEW j \in 1 .. n + 1, j > i + 1 PROVE ~Writes(q[j], t, k)
      OBVIOUS
    <3>1. j - 1 \in 1 .. n /\ (j - 1) + 1 = j /\ j - 1 > i
      OBVIOUS
    <3> QED BY <1>3, <3>1
  <2>2. i + 1 \in 1 .. n + 1
    OBVIOUS
  <2> QED BY <1>1, <1>3, <2>1, <2>2 DEF CatchesUp
<1>4. (\A i \in 1 .. n : ~Writes(Tail(q)[i], t, k)) => e = m
  BY <1>1, <1>2
<1>5. \A i \in 1 .. n :
        Writes(Tail(q)[i], t, k) /\ (\A j \in 1 .. n : j > i => ~Writes(Tail(q)[j], t, k))
        => Written(Tail(q)[i]) = m
  BY <1>1, <1>3
<1> QED BY <1>1, <1>4, <1>5 DEF CatchesUp

\* New statements that do not write a row leave its promise alone.
LEMMA CatchesUpOther ==
  ASSUME NEW q \in Seq(Statements), NEW p \in Seq(Statements), NEW s,
         Extended(s, q, p), NEW d, NEW m, NEW t, NEW k,
         CatchesUp(q, d, m, t, k), \A i \in 1 .. Len(p) : ~Writes(p[i], t, k)
  PROVE  CatchesUp(s, d, m, t, k)
<1>1. PICK a, b \in Nat :
        /\ DOMAIN q = 1 .. a /\ Len(p) = b /\ DOMAIN s = 1 .. a + b
        /\ \A i \in 1 .. a : s[i] = q[i]
        /\ \A i \in 1 .. b : s[a + i] = p[i]
  BY DEF Extended
<1>2. \A i \in 1 .. a + b : i > a => ~Writes(s[i], t, k)
  <2> SUFFICES ASSUME NEW i \in 1 .. a + b, i > a PROVE ~Writes(s[i], t, k)
    OBVIOUS
  <2>1. i - a \in 1 .. b /\ a + (i - a) = i
    OBVIOUS
  <2> QED BY <1>1, <2>1
<1>3. \A i \in 1 .. a : i \in 1 .. a + b
  OBVIOUS
<1>4. (\A i \in 1 .. a + b : ~Writes(s[i], t, k)) => d = m
  BY <1>1, <1>3 DEF CatchesUp
<1>5. ASSUME NEW i \in 1 .. a + b, Writes(s[i], t, k),
             \A j \in 1 .. a + b : j > i => ~Writes(s[j], t, k)
      PROVE  Written(s[i]) = m
  <2>1. i \in 1 .. a
    BY <1>2, <1>5
  <2>2. Writes(q[i], t, k) /\ \A j \in 1 .. a : j > i => ~Writes(q[j], t, k)
    BY <1>1, <1>3, <1>5, <2>1
  <2> QED BY <1>1, <2>1, <2>2 DEF CatchesUp
<1>6. CatchesUp(s, d, m, t, k)
  BY <1>1, <1>4, <1>5 DEF CatchesUp
<1> QED BY <1>6

\* New statements the last of which writes m promise m.
LEMMA CatchesUpNew ==
  ASSUME NEW q \in Seq(Statements), NEW p \in Seq(Statements), NEW s,
         Extended(s, q, p), NEW d, NEW m, NEW t, NEW k,
         NEW l \in 1 .. Len(p), Writes(p[l], t, k), Written(p[l]) = m,
         \A j \in 1 .. Len(p) : j > l => ~Writes(p[j], t, k)
  PROVE  CatchesUp(s, d, m, t, k)
<1>1. PICK a, b \in Nat :
        /\ DOMAIN q = 1 .. a /\ Len(p) = b /\ DOMAIN s = 1 .. a + b
        /\ \A i \in 1 .. a : s[i] = q[i]
        /\ \A i \in 1 .. b : s[a + i] = p[i]
  BY DEF Extended
<1>2. l \in 1 .. b /\ a + l \in 1 .. a + b /\ Writes(s[a + l], t, k) /\ Written(s[a + l]) = m
  BY <1>1
<1>3. ASSUME NEW i \in 1 .. a + b, i > a + l PROVE ~Writes(s[i], t, k)
  <2>1. i - a \in 1 .. b /\ a + (i - a) = i /\ i - a > l
    BY <1>2, <1>3
  <2> QED BY <1>1, <2>1
<1>4. ASSUME NEW i \in 1 .. a + b, Writes(s[i], t, k),
             \A j \in 1 .. a + b : j > i => ~Writes(s[j], t, k)
      PROVE  Written(s[i]) = m
  <2>1. i = a + l
    BY <1>2, <1>3, <1>4
  <2> QED BY <1>2, <2>1
<1>5. CatchesUp(s, d, m, t, k)
  BY <1>1, <1>2, <1>4 DEF CatchesUp
<1> QED BY <1>5

\* The same three facts of the apply time.
LEMMA TimeCatchesUpTail ==
  ASSUME NEW q \in Seq(Statements), q # << >>, NEW d \in Nat \cup {NoRow}, NEW m, NEW e,
         TimeCatchesUp(q, d, m), e = ExecuteMetadata(d, Head(q))
  PROVE  TimeCatchesUp(Tail(q), e, m)
<1>1. PICK n \in Nat :
        /\ DOMAIN q = 1 .. n + 1 /\ DOMAIN Tail(q) = 1 .. n
        /\ Head(q) = q[1] /\ q[1] \in Statements
        /\ \A i \in 1 .. n : Tail(q)[i] = q[i + 1]
  BY QueueTail
<1>2. ASSUME \A i \in 1 .. n : ~WritesMetadata(q[i + 1])
      PROVE  e \in {NoRow, m}
  <2>1. \A j \in 1 .. n + 1 : j > 1 => ~WritesMetadata(q[j])
    <3> SUFFICES ASSUME NEW j \in 1 .. n + 1, j > 1 PROVE ~WritesMetadata(q[j])
      OBVIOUS
    <3>1. j - 1 \in 1 .. n /\ (j - 1) + 1 = j
      OBVIOUS
    <3> QED BY <1>2, <3>1
  <2>2. 1 \in 1 .. n + 1
    OBVIOUS
  <2>3. CASE WritesMetadata(q[1])
    <3>1. q[1].op # "deleteMetadata" /\ q[1].time = m
      BY <1>1, <2>1, <2>2, <2>3 DEF TimeCatchesUp
    <3> QED BY <1>1, <2>3, <3>1, ExecuteMetadataEffect
  <2>4. CASE ~WritesMetadata(q[1])
    <3>1. \A j \in 1 .. n + 1 : ~WritesMetadata(q[j])
      BY <2>1, <2>4
    <3>2. d \in {NoRow, m}
      BY <1>1, <3>1 DEF TimeCatchesUp
    <3> QED BY <1>1, <2>4, <3>2, ExecuteMetadataEffect
  <2> QED BY <2>3, <2>4
<1>3. ASSUME NEW i \in 1 .. n, WritesMetadata(q[i + 1]),
             \A j \in 1 .. n : j > i => ~WritesMetadata(q[j + 1])
      PROVE  q[i + 1].op # "deleteMetadata" /\ q[i + 1].time = m
  <2>1. \A j \in 1 .. n + 1 : j > i + 1 => ~WritesMetadata(q[j])
    <3> SUFFICES ASSUME NEW j \in 1 .. n + 1, j > i + 1 PROVE ~WritesMetadata(q[j])
      OBVIOUS
    <3>1. j - 1 \in 1 .. n /\ (j - 1) + 1 = j /\ j - 1 > i
      OBVIOUS
    <3> QED BY <1>3, <3>1
  <2>2. i + 1 \in 1 .. n + 1
    OBVIOUS
  <2> QED BY <1>1, <1>3, <2>1, <2>2 DEF TimeCatchesUp
<1>4. (\A i \in 1 .. n : ~WritesMetadata(Tail(q)[i])) => e \in {NoRow, m}
  BY <1>1, <1>2
<1>5. \A i \in 1 .. n :
        WritesMetadata(Tail(q)[i]) /\ (\A j \in 1 .. n : j > i => ~WritesMetadata(Tail(q)[j]))
        => Tail(q)[i].op # "deleteMetadata" /\ Tail(q)[i].time = m
  BY <1>1, <1>3
<1> QED BY <1>1, <1>4, <1>5 DEF TimeCatchesUp

LEMMA TimeCatchesUpOther ==
  ASSUME NEW q \in Seq(Statements), NEW p \in Seq(Statements), NEW s,
         Extended(s, q, p), NEW d, NEW m,
         TimeCatchesUp(q, d, m), \A i \in 1 .. Len(p) : ~WritesMetadata(p[i])
  PROVE  TimeCatchesUp(s, d, m)
<1>1. PICK a, b \in Nat :
        /\ DOMAIN q = 1 .. a /\ Len(p) = b /\ DOMAIN s = 1 .. a + b
        /\ \A i \in 1 .. a : s[i] = q[i]
        /\ \A i \in 1 .. b : s[a + i] = p[i]
  BY DEF Extended
<1>2. \A i \in 1 .. a + b : i > a => ~WritesMetadata(s[i])
  <2> SUFFICES ASSUME NEW i \in 1 .. a + b, i > a PROVE ~WritesMetadata(s[i])
    OBVIOUS
  <2>1. i - a \in 1 .. b /\ a + (i - a) = i
    OBVIOUS
  <2> QED BY <1>1, <2>1
<1>3. \A i \in 1 .. a : i \in 1 .. a + b
  OBVIOUS
<1>4. (\A i \in 1 .. a + b : ~WritesMetadata(s[i])) => d \in {NoRow, m}
  BY <1>1, <1>3 DEF TimeCatchesUp
<1>5. ASSUME NEW i \in 1 .. a + b, WritesMetadata(s[i]),
             \A j \in 1 .. a + b : j > i => ~WritesMetadata(s[j])
      PROVE  s[i].op # "deleteMetadata" /\ s[i].time = m
  <2>1. i \in 1 .. a
    BY <1>2, <1>5
  <2>2. WritesMetadata(q[i]) /\ \A j \in 1 .. a : j > i => ~WritesMetadata(q[j])
    BY <1>1, <1>3, <1>5, <2>1
  <2> QED BY <1>1, <2>1, <2>2 DEF TimeCatchesUp
<1> QED BY <1>1, <1>4, <1>5 DEF TimeCatchesUp

LEMMA TimeCatchesUpNew ==
  ASSUME NEW q \in Seq(Statements), NEW p \in Seq(Statements), NEW s,
         Extended(s, q, p), NEW d, NEW m, NEW l \in 1 .. Len(p), l = Len(p),
         WritesMetadata(p[l]), p[l].op # "deleteMetadata", p[l].time = m
  PROVE  TimeCatchesUp(s, d, m)
<1>1. PICK a, b \in Nat :
        /\ DOMAIN q = 1 .. a /\ Len(p) = b /\ DOMAIN s = 1 .. a + b
        /\ \A i \in 1 .. a : s[i] = q[i]
        /\ \A i \in 1 .. b : s[a + i] = p[i]
  BY DEF Extended
<1>2. l = b /\ b \in 1 .. b /\ a + b \in 1 .. a + b /\ s[a + b] = p[l]
  BY <1>1
<1>3. ASSUME NEW i \in 1 .. a + b, WritesMetadata(s[i]),
             \A j \in 1 .. a + b : j > i => ~WritesMetadata(s[j])
      PROVE  s[i].op # "deleteMetadata" /\ s[i].time = m
  <2>1. i = a + b
    BY <1>2, <1>3
  <2> QED BY <1>2, <2>1
<1> QED BY <1>1, <1>2, <1>3 DEF TimeCatchesUp

\* Running a statement leaves runs of inserts of one template each.
LEMMA RunsTail ==
  ASSUME NEW q \in Seq(Statements), q # << >>, NEW t, RunsOfInserts(q, t)
  PROVE  RunsOfInserts(Tail(q), t)
<1>1. PICK n \in Nat :
        /\ DOMAIN q = 1 .. n + 1 /\ DOMAIN Tail(q) = 1 .. n
        /\ \A i \in 1 .. n : Tail(q)[i] = q[i + 1]
  BY QueueTail
<1>2. ASSUME NEW i \in 1 .. n, NEW j \in 1 .. n, i < j,
             Inserts(q[i + 1], t), Inserts(q[j + 1], t),
             \A m \in i .. j : ~Deletes(Tail(q)[m], t)
      PROVE  q[i + 1].value = q[j + 1].value
  <2>1. i + 1 \in 1 .. n + 1 /\ j + 1 \in 1 .. n + 1 /\ i + 1 < j + 1
    BY <1>2
  <2>2. ASSUME NEW m \in i + 1 .. j + 1 PROVE ~Deletes(q[m], t)
    <3>1. m - 1 \in i .. j /\ m - 1 \in 1 .. n /\ (m - 1) + 1 = m
      OBVIOUS
    <3> QED BY <1>1, <1>2, <3>1
  <2> QED BY <1>1, <1>2, <2>1, <2>2 DEF RunsOfInserts
<1>3. ASSUME NEW i \in 1 .. n, NEW j \in 1 .. n, i < j,
             Inserts(Tail(q)[i], t), Inserts(Tail(q)[j], t),
             \A m \in i .. j : ~Deletes(Tail(q)[m], t)
      PROVE  Tail(q)[i].value = Tail(q)[j].value
  BY <1>1, <1>2, <1>3
<1> QED BY <1>1, <1>3 DEF RunsOfInserts

\* Running a statement leaves a table of one template, and the next inserts go on
\* with it.
LEMMA ContinueTail ==
  ASSUME NEW q \in Seq(Statements), q # << >>, NEW t \in Tables,
         NEW d \in Rows, NEW e \in Rows,
         SameTemplate(d), RunsOfInserts(q, t), InsertsContinue(q, d, t),
         \A k \in Keys : e[k] = IF Writes(Head(q), t, k) THEN Written(Head(q)) ELSE d[k]
  PROVE  SameTemplate(e) /\ InsertsContinue(Tail(q), e, t)
<1>1. PICK n \in Nat :
        /\ DOMAIN q = 1 .. n + 1 /\ DOMAIN Tail(q) = 1 .. n
        /\ Head(q) = q[1] /\ q[1] \in Statements
        /\ \A i \in 1 .. n : Tail(q)[i] = q[i + 1]
  BY QueueTail
<1>2. 1 \in 1 .. n + 1
  OBVIOUS
<1>3. ASSUME NEW i \in 1 .. n, \A m \in 1 .. i : ~Deletes(Tail(q)[m], t), ~Deletes(q[1], t)
      PROVE  \A m \in 1 .. i + 1 : ~Deletes(q[m], t)
  <2> SUFFICES ASSUME NEW m \in 1 .. i + 1, m # 1 PROVE ~Deletes(q[m], t)
    BY <1>3
  <2>1. m - 1 \in 1 .. i /\ m - 1 \in 1 .. n /\ (m - 1) + 1 = m
    OBVIOUS
  <2> QED BY <1>1, <1>3, <2>1
<1>4. CASE Deletes(q[1], t)
  <2>1. \A k \in Keys : e[k] = 0
    BY <1>1, <1>4 DEF Deletes, Writes, Written
  <2> QED BY <2>1 DEF SameTemplate, InsertsContinue
<1>5. CASE Inserts(q[1], t)
  <2>1. ~Deletes(q[1], t)
    BY <1>5 DEF Deletes, Inserts
  <2>2. \A k \in Keys : e[k] # 0 => e[k] = q[1].value
    <3>1. \A m \in 1 .. 1 : ~Deletes(q[m], t)
      BY <2>1
    <3>2. \A k \in Keys : d[k] # 0 => d[k] = q[1].value
      BY <1>1, <1>2, <1>5, <3>1 DEF InsertsContinue
    <3> QED BY <1>1, <1>5, <3>2 DEF Inserts, Written
  <2>3. SameTemplate(e)
    BY <2>2 DEF SameTemplate
  <2>4. ASSUME NEW i \in 1 .. n, Inserts(Tail(q)[i], t),
               \A m \in 1 .. i : ~Deletes(Tail(q)[m], t)
        PROVE  \A k \in Keys : e[k] # 0 => e[k] = Tail(q)[i].value
    <3>1. \A m \in 1 .. i + 1 : ~Deletes(q[m], t)
      BY <1>3, <2>1, <2>4
    <3>2. i + 1 \in 1 .. n + 1 /\ 1 < i + 1 /\ Inserts(q[i + 1], t)
      BY <1>1, <2>4
    <3>3. q[1].value = q[i + 1].value
      BY <1>1, <1>2, <1>5, <3>1, <3>2 DEF RunsOfInserts
    <3> QED BY <1>1, <2>2, <3>3
  <2> QED BY <1>1, <2>3, <2>4 DEF InsertsContinue
<1>6. CASE ~Deletes(q[1], t) /\ ~Inserts(q[1], t)
  <2>1. \A k \in Keys : e[k] = d[k]
    BY <1>1, <1>6 DEF Deletes, Inserts, Writes
  <2>2. SameTemplate(e)
    BY <2>1 DEF SameTemplate
  <2>3. ASSUME NEW i \in 1 .. n, Inserts(Tail(q)[i], t),
               \A m \in 1 .. i : ~Deletes(Tail(q)[m], t)
        PROVE  \A k \in Keys : e[k] # 0 => e[k] = Tail(q)[i].value
    <3>1. \A m \in 1 .. i + 1 : ~Deletes(q[m], t)
      BY <1>3, <1>6, <2>3
    <3>2. i + 1 \in 1 .. n + 1 /\ Inserts(q[i + 1], t)
      BY <1>1, <2>3
    <3>3. \A k \in Keys : d[k] # 0 => d[k] = q[i + 1].value
      BY <1>1, <3>1, <3>2 DEF InsertsContinue
    <3> QED BY <1>1, <2>1, <3>3
  <2> QED BY <1>1, <2>2, <2>3 DEF InsertsContinue
<1> QED BY <1>4, <1>5, <1>6

\* New statements that leave the table alone, or that delete it before they insert
\* the rows of one template, keep both facts.
LEMMA RunsExtended ==
  ASSUME NEW q \in Seq(Statements), NEW p \in Seq(Statements), NEW s,
         Extended(s, q, p), NEW t, RunsOfInserts(q, t), NEW v,
         \A i \in 1 .. Len(p) : Inserts(p[i], t) => Deletes(p[1], t) /\ p[i].value = v
  PROVE  /\ RunsOfInserts(s, t)
         /\ \A d \in Rows : InsertsContinue(q, d, t) => InsertsContinue(s, d, t)
<1>1. PICK a, b \in Nat :
        /\ DOMAIN q = 1 .. a /\ Len(p) = b /\ DOMAIN s = 1 .. a + b
        /\ \A i \in 1 .. a : s[i] = q[i]
        /\ \A i \in 1 .. b : s[a + i] = p[i]
  BY DEF Extended
<1>2. ASSUME NEW i \in 1 .. a + b, i > a, Inserts(s[i], t)
      PROVE  s[i].value = v /\ a + 1 <= i /\ Deletes(s[a + 1], t)
  <2>1. i - a \in 1 .. b /\ a + (i - a) = i /\ 1 \in 1 .. b
    BY <1>2
  <2>2. s[i] = p[i - a] /\ s[a + 1] = p[1]
    BY <1>1, <2>1
  <2>3. p[i - a].value = v /\ Deletes(p[1], t)
    BY <1>1, <1>2, <2>1, <2>2
  <2>4. a + 1 <= i
    BY <1>2
  <2> QED BY <2>2, <2>3, <2>4
<1>3. ASSUME NEW i \in 1 .. a + b, NEW j \in 1 .. a + b, i < j,
             Inserts(s[i], t), Inserts(s[j], t), \A m \in i .. j : ~Deletes(s[m], t)
      PROVE  s[i].value = s[j].value
  <2>1. CASE j <= a
    <3>1. i \in 1 .. a /\ j \in 1 .. a /\ \A m \in i .. j : m \in 1 .. a
      BY <1>3, <2>1
    <3>2. s[i] = q[i] /\ s[j] = q[j] /\ \A m \in i .. j : s[m] = q[m]
      BY <1>1, <3>1
    <3> QED BY <1>1, <1>3, <3>1, <3>2 DEF RunsOfInserts
  <2>2. CASE i <= a /\ j > a
    <3>1. a + 1 <= j /\ Deletes(s[a + 1], t)
      BY <1>2, <1>3, <2>2
    <3>2. a + 1 \in i .. j
      BY <2>2, <3>1
    <3> QED BY <1>3, <3>1, <3>2
  <2>3. CASE i > a
    <3>1. j > a
      BY <1>3, <2>3
    <3> QED BY <1>2, <1>3, <2>3, <3>1
  <2> QED BY <2>1, <2>2, <2>3
<1>4. ASSUME NEW d \in Rows, InsertsContinue(q, d, t), NEW i \in 1 .. a + b,
             Inserts(s[i], t), \A m \in 1 .. i : ~Deletes(s[m], t)
      PROVE  \A k \in Keys : d[k] # 0 => d[k] = s[i].value
  <2>1. CASE i <= a
    <3>1. i \in 1 .. a /\ \A m \in 1 .. i : m \in 1 .. a
      BY <2>1
    <3>2. s[i] = q[i] /\ \A m \in 1 .. i : s[m] = q[m]
      BY <1>1, <3>1
    <3> QED BY <1>1, <1>4, <3>1, <3>2 DEF InsertsContinue
  <2>2. CASE i > a
    <3>1. a + 1 <= i /\ Deletes(s[a + 1], t)
      BY <1>2, <1>4, <2>2
    <3>2. a + 1 \in 1 .. i
      BY <3>1
    <3> QED BY <1>4, <3>1, <3>2
  <2> QED BY <2>1, <2>2
<1>5. RunsOfInserts(s, t)
  BY <1>1, <1>3 DEF RunsOfInserts
<1>6. ASSUME NEW d \in Rows, InsertsContinue(q, d, t) PROVE InsertsContinue(s, d, t)
  <2>1. DOMAIN s = 1 .. a + b
    BY <1>1
  <2> QED BY <1>4, <1>6, <2>1 DEF InsertsContinue
<1> QED BY <1>5, <1>6

\* The inserts of ReplaceRows, when the rows are of one template.
LEMMA ReplaceRowsTemplate ==
  ASSUME NEW t \in Tables, NEW r \in Rows, SameTemplate(r), NEW o \in Orders(KeysOf(r)),
         NEW p \in Seq(Statements), p = ReplaceRows(t, r, o)
  PROVE  \E v : \A i \in 1 .. Len(p) : Inserts(p[i], t) => Deletes(p[1], t) /\ p[i].value = v
<1>1. PICK n \in Nat : n = Len(o) /\ Len(p) = n + 1
  BY ReplaceRowsShape
<1>2. p[1] = DeleteRows(t)
  BY ReplaceRowsShape
<1>3. Deletes(p[1], t) /\ ~Inserts(p[1], t)
  BY <1>2 DEF Deletes, Inserts, DeleteRows
<1>4. \A i \in 1 .. n : /\ p[i + 1] = InsertRow(t, o[i], r[o[i]])
                        /\ o[i] \in Keys /\ r[o[i]] # 0
  BY <1>1, ReplaceRowsShape
<1>5. \A l, v : InsertRow(t, l, v).value = v
  BY DEF InsertRow
<1>6. PICK v : \A i \in 1 .. n : r[o[i]] = v
  <2>1. CASE n = 0
    BY <2>1
  <2>2. CASE n # 0
    <3>1. 1 \in 1 .. n
      BY <2>2
    <3>2. \A i \in 1 .. n : r[o[i]] = r[o[1]]
      BY <1>4, <3>1 DEF SameTemplate
    <3> QED BY <3>2
  <2> QED BY <2>1, <2>2
<1>7. ASSUME NEW i \in 1 .. n + 1, Inserts(p[i], t)
      PROVE  p[i].value = v
  <2>1. i # 1
    BY <1>3, <1>7
  <2>2. i - 1 \in 1 .. n /\ (i - 1) + 1 = i
    BY <2>1
  <2>3. p[i] = InsertRow(t, o[i - 1], r[o[i - 1]]) /\ r[o[i - 1]] = v
    BY <1>4, <1>6, <2>2
  <2> QED BY <1>5, <2>3
<1> QED BY <1>1, <1>3, <1>7

LEMMA TimesTail ==
  ASSUME NEW q \in Seq(Statements), q # << >>, NEW d \in Nat \cup {NoRow}, NEW n \in Nat,
         d <= n, TimesUpTo(q, n)
  PROVE  TimesUpTo(Tail(q), n) /\ ExecuteMetadata(d, Head(q)) <= n
<1>1. PICK l \in Nat :
        /\ DOMAIN q = 1 .. l + 1 /\ DOMAIN Tail(q) = 1 .. l
        /\ Head(q) = q[1] /\ q[1] \in Statements
        /\ \A i \in 1 .. l : Tail(q)[i] = q[i + 1]
  BY QueueTail
<1>2. TimesUpTo(Tail(q), n)
  <2> SUFFICES ASSUME NEW i \in 1 .. l, WritesMetadata(Tail(q)[i]),
                      Tail(q)[i].op # "deleteMetadata"
               PROVE  Tail(q)[i].time <= n
    BY <1>1 DEF TimesUpTo
  <2>1. i + 1 \in 1 .. l + 1 /\ Tail(q)[i] = q[i + 1]
    BY <1>1
  <2> QED BY <1>1, <2>1 DEF TimesUpTo
<1>3. ExecuteMetadata(d, q[1]) <= n
  <2>1. 1 \in DOMAIN q
    BY <1>1
  <2>2. CASE WritesMetadata(q[1]) /\ q[1].op # "deleteMetadata"
    <3>1. q[1].time <= n
      BY <2>1, <2>2 DEF TimesUpTo
    <3>2. ExecuteMetadata(d, q[1]) \in {NoRow, q[1].time}
      BY <1>1, <2>2, ExecuteMetadataEffect
    <3> QED BY <3>1, <3>2 DEF NoRow
  <2>3. CASE ~WritesMetadata(q[1])
    <3>1. ExecuteMetadata(d, q[1]) = d
      BY <1>1, <2>3, ExecuteMetadataEffect
    <3> QED BY <3>1
  <2>4. CASE q[1].op = "deleteMetadata"
    <3>1. ExecuteMetadata(d, q[1]) = NoRow
      BY <1>1, <2>4, ExecuteMetadataEffect
    <3> QED BY <3>1 DEF NoRow
  <2> QED BY <2>2, <2>3, <2>4
<1> QED BY <1>1, <1>2, <1>3

LEMMA TimesExtended ==
  ASSUME NEW q \in Seq(Statements), NEW p \in Seq(Statements), NEW s, Extended(s, q, p),
         NEW n, TimesUpTo(q, n),
         \A i \in 1 .. Len(p) :
           WritesMetadata(p[i]) /\ p[i].op # "deleteMetadata" => p[i].time <= n
  PROVE  TimesUpTo(s, n)
<1>1. PICK a, b \in Nat :
        /\ DOMAIN q = 1 .. a /\ Len(p) = b /\ DOMAIN s = 1 .. a + b
        /\ \A i \in 1 .. a : s[i] = q[i]
        /\ \A i \in 1 .. b : s[a + i] = p[i]
  BY DEF Extended
<1> SUFFICES ASSUME NEW i \in 1 .. a + b, WritesMetadata(s[i]), s[i].op # "deleteMetadata"
             PROVE  s[i].time <= n
  BY <1>1 DEF TimesUpTo
<1>2. CASE i <= a
  <2>1. i \in 1 .. a
    BY <1>2
  <2>2. s[i] = q[i]
    BY <1>1, <2>1
  <2> QED BY <1>1, <2>1, <2>2 DEF TimesUpTo
<1>3. CASE i > a
  <2>1. i - a \in 1 .. b /\ a + (i - a) = i
    BY <1>3
  <2>2. s[i] = p[i - a]
    BY <1>1, <2>1
  <2> QED BY <1>1, <2>1, <2>2
<1> QED BY <1>2, <1>3

\* What a longer queue s keeps of q for table u, and for the metadata.
KeepsTemplates(q, s, u) ==
  RunsOfInserts(q, u) =>
    /\ RunsOfInserts(s, u)
    /\ \A d \in Rows : InsertsContinue(q, d, u) => InsertsContinue(s, d, u)

KeepsRows(q, s, u) ==
  \A k \in Keys : \A d, m : CatchesUp(q, d, m, u, k) => CatchesUp(s, d, m, u, k)

\* The queue s after the rows of a table are replaced,
RowsReplaced(q, s, t, r) ==
  /\ s \in Seq(Statements)
  /\ \A u \in Tables : KeepsTemplates(q, s, u)
  /\ \A u \in Tables \ {t} : KeepsRows(q, s, u)
  /\ \A k \in Keys : \A d : CatchesUp(s, d, r[k], t, k)
  /\ \A d, m : TimeCatchesUp(q, d, m) => TimeCatchesUp(s, d, m)
  /\ \A n : TimesUpTo(q, n) => TimesUpTo(s, n)

\* and after statements on the metadata row, the last of which writes time a.
MetadataReplaced(q, s, a) ==
  /\ s \in Seq(Statements)
  /\ \A u \in Tables : KeepsTemplates(q, s, u) /\ KeepsRows(q, s, u)
  /\ \A d : TimeCatchesUp(s, d, a)
  /\ \A n : TimesUpTo(q, n) /\ a <= n => TimesUpTo(s, n)

LEMMA ReplaceRowsEffect ==
  ASSUME NEW q \in Seq(Statements), NEW t \in Tables, NEW r \in Rows, SameTemplate(r),
         NEW o \in Orders(KeysOf(r))
  PROVE  RowsReplaced(q, q \o ReplaceRows(t, r, o), t, r)
<1> DEFINE s == q \o ReplaceRows(t, r, o)
<1>1. PICK p \in Seq(Statements) : p = ReplaceRows(t, r, o)
  BY ReplaceRowsShape
<1>2. Extended(s, q, p)
  <2>1. Extended(q \o p, q, p)
    BY QueueConcat
  <2> QED BY <1>1, <2>1
<1> HIDE DEF s
<1>3. s \in Seq(Statements)
  BY <1>2 DEF Extended
<1>4. PICK v : \A i \in 1 .. Len(p) : Inserts(p[i], t) => Deletes(p[1], t) /\ p[i].value = v
  BY <1>1, ReplaceRowsTemplate
<1>5. \A i \in 1 .. Len(p) :
         /\ ~WritesMetadata(p[i])
         /\ \A u \in Tables : u # t => /\ ~Inserts(p[i], u) /\ ~Deletes(p[i], u)
                                       /\ \A k \in Keys : ~Writes(p[i], u, k)
  BY <1>1, ReplaceRowsOnly
<1>6. ASSUME NEW u \in Tables PROVE KeepsTemplates(q, s, u)
  <2>1. \A i \in 1 .. Len(p) : Inserts(p[i], u) => Deletes(p[1], u) /\ p[i].value = v
    BY <1>4, <1>5
  <2> QED BY <1>2, <2>1, RunsExtended DEF KeepsTemplates
<1>7. ASSUME NEW u \in Tables \ {t} PROVE KeepsRows(q, s, u)
  <2> SUFFICES ASSUME NEW k \in Keys, NEW d, NEW m, CatchesUp(q, d, m, u, k)
               PROVE  CatchesUp(s, d, m, u, k)
    BY DEF KeepsRows
  <2>1. \A i \in 1 .. Len(p) : ~Writes(p[i], u, k)
    BY <1>5, <1>7
  <2> QED BY <1>2, <2>1, CatchesUpOther
<1>8. ASSUME NEW k \in Keys, NEW d PROVE CatchesUp(s, d, r[k], t, k)
  <2>1. PICK l \in 1 .. Len(p) : /\ Writes(p[l], t, k) /\ Written(p[l]) = r[k]
                                 /\ \A j \in 1 .. Len(p) : j > l => ~Writes(p[j], t, k)
    BY <1>1, ReplaceRowsLast
  <2> QED BY <1>2, <2>1, CatchesUpNew
<1>9. \A d, m : TimeCatchesUp(q, d, m) => TimeCatchesUp(s, d, m)
  BY <1>2, <1>5, TimeCatchesUpOther
<1>10. \A n : TimesUpTo(q, n) => TimesUpTo(s, n)
  BY <1>2, <1>5, TimesExtended
<1>11. RowsReplaced(q, s, t, r)
  BY <1>3, <1>6, <1>7, <1>8, <1>9, <1>10, Zenon DEF RowsReplaced
<1> QED BY <1>11 DEF s

LEMMA MetadataEffect ==
  ASSUME NEW q \in Seq(Statements), NEW a \in Nat, NEW p,
         p \in {<<UpdateApplyTime(a)>>, <<DeleteMetadata, InsertMetadata(a)>>}
  PROVE  MetadataReplaced(q, q \o p, a)
<1> DEFINE s == q \o p
<1>1. /\ p \in Seq(Statements)
      /\ Len(p) \in 1 .. Len(p)
      /\ p[Len(p)] \in {UpdateApplyTime(a), InsertMetadata(a)}
      /\ \A i \in 1 .. Len(p) : p[i] \in {UpdateApplyTime(a), DeleteMetadata, InsertMetadata(a)}
  <2>1. /\ UpdateApplyTime(a) \in Statements /\ DeleteMetadata \in Statements
        /\ InsertMetadata(a) \in Statements
    BY StatementTypes
  <2>2. CASE p = <<UpdateApplyTime(a)>>
    BY <2>1, <2>2
  <2>3. CASE p = <<DeleteMetadata, InsertMetadata(a)>>
    BY <2>1, <2>3
  <2> QED BY <2>2, <2>3
<1>2. Extended(s, q, p)
  <2>1. Extended(q \o p, q, p)
    BY <1>1, QueueConcat
  <2> QED BY <2>1
<1> HIDE DEF s
<1>3. s \in Seq(Statements)
  BY <1>2 DEF Extended
<1>4. \A x \in {UpdateApplyTime(a), DeleteMetadata, InsertMetadata(a)} :
        /\ \A u, k : ~Inserts(x, u) /\ ~Writes(x, u, k)
        /\ x.op # "deleteMetadata" => x.time = a
        /\ WritesMetadata(x)
        /\ x # DeleteMetadata => x.op # "deleteMetadata"
  BY DEF UpdateApplyTime, DeleteMetadata, InsertMetadata, Inserts, Writes, WritesMetadata
<1>5. UpdateApplyTime(a).op # "deleteMetadata" /\ InsertMetadata(a).op # "deleteMetadata"
  BY DEF UpdateApplyTime, InsertMetadata
<1>6. ASSUME NEW u \in Tables PROVE KeepsTemplates(q, s, u)
  <2>1. \A i \in 1 .. Len(p) : ~Inserts(p[i], u)
    BY <1>1, <1>4
  <2> QED BY <1>1, <1>2, <2>1, RunsExtended DEF KeepsTemplates
<1>7. ASSUME NEW u \in Tables PROVE KeepsRows(q, s, u)
  <2>1. \A k \in Keys, i \in 1 .. Len(p) : ~Writes(p[i], u, k)
    BY <1>1, <1>4
  <2> QED BY <1>1, <1>2, <2>1, CatchesUpOther DEF KeepsRows
<1>8. ASSUME NEW d PROVE TimeCatchesUp(s, d, a)
  <2> DEFINE l == Len(p)
  <2>1. /\ l \in 1 .. Len(p) /\ WritesMetadata(p[l])
        /\ p[l].op # "deleteMetadata" /\ p[l].time = a
    BY <1>1, <1>4, <1>5
  <2> QED BY <1>1, <1>2, <2>1, TimeCatchesUpNew
<1>9. ASSUME NEW n, TimesUpTo(q, n), a <= n PROVE TimesUpTo(s, n)
  <2>1. \A i \in 1 .. Len(p) :
          WritesMetadata(p[i]) /\ p[i].op # "deleteMetadata" => p[i].time <= n
    BY <1>1, <1>4, <1>9
  <2> QED BY <1>1, <1>2, <1>9, <2>1, TimesExtended
<1>10. MetadataReplaced(q, s, a)
  BY <1>3, <1>6, <1>7, <1>8, <1>9, Zenon DEF MetadataReplaced
<1> QED BY <1>10 DEF s

-----------------------------------------------------------------------------
(* The blocks that write the database *)

\* The block replaces the rows of table t by r, in memory and on the queue.
TableWritten(t, r) ==
  /\ t \in Tables /\ r \in Rows /\ SameTemplate(r)
  /\ content' = [content EXCEPT ![t] = r]
  /\ statements' \in Seq(Statements)
  /\ \A u \in Tables : KeepsTemplates(statements, statements', u)
  /\ \A u \in Tables \ {t} : KeepsRows(statements, statements', u)
  /\ \A k \in Keys : \A d : CatchesUp(statements', d, r[k], t, k)

\* The queue as far as the metadata row is concerned.
TimesKept ==
  /\ \A d, m : TimeCatchesUp(statements, d, m) => TimeCatchesUp(statements', d, m)
  /\ \A n : TimesUpTo(statements, n) => TimesUpTo(statements', n)

LEMMA TemplateRowsFacts ==
  /\ SameTemplate(NoRows) /\ SameTemplate(DefaultRows)
  /\ \A v \in Versions : SameTemplate(TemplateRows(v))
  /\ \A v \in Versions \ {0} : KeysOf(TemplateRows(v)) = Entries[v]
  /\ TemplateRows(0) = NoRows
<1>1. SameTemplate(NoRows) /\ SameTemplate(DefaultRows)
  BY DEF SameTemplate, NoRows, DefaultRows
<1>2. \A v \in Versions : SameTemplate(TemplateRows(v))
  BY DEF SameTemplate, TemplateRows
<1>3. ASSUME NEW v \in Versions \ {0} PROVE KeysOf(TemplateRows(v)) = Entries[v]
  <2>1. Entries[v] \in SUBSET Keys
    BY <1>3, PersistenceAssumption DEF Versions
  <2>2. \A k \in Keys : TemplateRows(v)[k] # 0 <=> k \in Entries[v]
    BY <1>3 DEF TemplateRows
  <2> QED BY <2>1, <2>2 DEF KeysOf
<1>4. TemplateRows(0) = NoRows
  BY DEF TemplateRows, NoRows
<1> QED BY <1>1, <1>2, <1>3, <1>4

LEMMA SetDefaultsWrites ==
  ASSUME PTypeOK, SetDefaults
  PROVE  TableWritten("default", DefaultRows) /\ TimesKept
<1>1. PICK o \in Orders(KeysOf(DefaultRows)) :
        statements' = statements \o ReplaceRows("default", DefaultRows, o)
  BY DEF SetDefaults
<1>2. content' = [content EXCEPT !["default"] = DefaultRows]
  BY DEF SetDefaults, ChangeContent
<1>3. statements \in Seq(Statements) /\ "default" \in Tables
  BY DEF PTypeOK, Tables
<1>4. DefaultRows \in Rows /\ SameTemplate(DefaultRows)
  BY RowTypes, TemplateRowsFacts
<1>5. RowsReplaced(statements, statements', "default", DefaultRows)
  BY <1>1, <1>3, <1>4, ReplaceRowsEffect
<1> QED BY <1>2, <1>3, <1>4, <1>5, Zenon DEF TableWritten, TimesKept, RowsReplaced

LEMMA StoreAnswerWrites ==
  ASSUME PTypeOK, StoreAnswer
  PROVE  TableWritten("fetched", TemplateRows(published)) /\ TimesKept
<1> DEFINE r == TemplateRows(published)
<1>1. published \in Versions \ {0} /\ statements \in Seq(Statements) /\ "fetched" \in Tables
  BY DEF PTypeOK, Tables
<1>2. KeysOf(r) = Entries[published]
  BY <1>1, TemplateRowsFacts
<1>3. r \in Rows /\ SameTemplate(r)
  BY <1>1, RowTypes, TemplateRowsFacts
<1>4. PICK o \in Orders(Entries[published]) :
        statements' = statements \o ReplaceRows("fetched", r, o)
  BY DEF StoreAnswer
<1>5. content' = [content EXCEPT !["fetched"] = r]
  BY DEF StoreAnswer, ChangeContent, FetchedAfter
<1> HIDE DEF r
<1>6. o \in Orders(KeysOf(r))
  BY <1>2
<1>7. RowsReplaced(statements, statements', "fetched", r)
  BY <1>1, <1>3, <1>4, <1>6, ReplaceRowsEffect
<1>8. TableWritten("fetched", r) /\ TimesKept
  BY <1>1, <1>3, <1>5, <1>7, Zenon DEF TableWritten, TimesKept, RowsReplaced
<1> QED BY <1>8 DEF r

LEMMA ActivateWrites ==
  ASSUME PTypeOK, TemplatesInv, Activate
  PROVE  /\ TableWritten("active", content["fetched"])
         /\ \A d : TimeCatchesUp(statements', d, applyTime')
         /\ \A n : TimesUpTo(statements, n) /\ applyTime' <= n => TimesUpTo(statements', n)
<1> DEFINE r == content["fetched"]
           t == "active"
<1>1. statements \in Seq(Statements) /\ t \in Tables /\ r \in Rows /\ now + 1 \in Nat
  BY DEF PTypeOK, Tables
<1>2. SameTemplate(r)
  BY DEF TemplatesInv, Tables
<1>3. PICK o \in Orders(KeysOf(r)) :
        statements' = statements \o ReplaceRows(t, r, o) \o <<UpdateApplyTime(now + 1)>>
  BY DEF Activate
<1>4. content' = [content EXCEPT ![t] = r] /\ applyTime' = now + 1
  BY DEF Activate, ChangeContent
<1> HIDE DEF r, t
<1> DEFINE mid == statements \o ReplaceRows(t, r, o)
<1>5. statements' = mid \o <<UpdateApplyTime(now + 1)>>
  BY <1>3
<1>6. RowsReplaced(statements, mid, t, r)
  BY <1>1, <1>2, ReplaceRowsEffect
<1> HIDE DEF mid
<1>7. MetadataReplaced(mid, statements', now + 1)
  <2>1. mid \in Seq(Statements)
    BY <1>6 DEF RowsReplaced
  <2>2. MetadataReplaced(mid, mid \o <<UpdateApplyTime(now + 1)>>, now + 1)
    BY <1>1, <2>1, MetadataEffect
  <2> QED BY <1>5, <2>2
<1>8. \A u \in Tables : KeepsTemplates(statements, statements', u)
  BY <1>6, <1>7 DEF KeepsTemplates, RowsReplaced, MetadataReplaced
<1>9. \A u \in Tables \ {t} : KeepsRows(statements, statements', u)
  BY <1>6, <1>7 DEF KeepsRows, RowsReplaced, MetadataReplaced
<1>10. \A k \in Keys : \A d : CatchesUp(statements', d, r[k], t, k)
  BY <1>1, <1>6, <1>7 DEF KeepsRows, RowsReplaced, MetadataReplaced
<1>11. TableWritten(t, r)
  BY <1>1, <1>2, <1>4, <1>7, <1>8, <1>9, <1>10, Zenon DEF TableWritten, MetadataReplaced
<1>12. \A n : TimesUpTo(statements, n) /\ now + 1 <= n => TimesUpTo(statements', n)
  BY <1>6, <1>7 DEF RowsReplaced, MetadataReplaced
<1> QED BY <1>4, <1>7, <1>11, <1>12 DEF r, t, MetadataReplaced

LEMMA MetadataWrites ==
  ASSUME PTypeOK, RecordFetch \/ AnswerWithoutTemplate
  PROVE  MetadataReplaced(statements, statements', applyTime)
<1>1. statements' = statements \o <<DeleteMetadata, InsertMetadata(applyTime)>>
  BY DEF RecordFetch, AnswerWithoutTemplate, ReplaceMetadata
<1>2. statements \in Seq(Statements) /\ applyTime \in Nat
  BY DEF PTypeOK
<1> QED BY <1>1, <1>2, MetadataEffect

\* Apart from the table and the queue these blocks change, from block b to c: whether
\* the load is overtaken and the work lost, and what the last four give.
BlockFrame(b, c, received1, tagTime1, applyTime1, now1) ==
  /\ phase = "ready" /\ block = b /\ block' = c
  /\ load' = (IF load = "pending" THEN "overtaken" ELSE load)
  /\ lostWork' = (lostWork \/ load \in {"pending", "overtaken"})
  /\ file' = file /\ stored' = stored /\ storedApply' = storedApply /\ tag' = tag
  /\ phase' = phase /\ isOpen' = isOpen /\ isNew' = isNew /\ rows' = rows
  /\ published' = published
  /\ received' = received1 /\ tagTime' = tagTime1 /\ applyTime' = applyTime1 /\ now' = now1

LEMMA BlockFrames ==
  /\ SetDefaults => BlockFrame("setDefaults", "idle", received, tagTime, applyTime, now)
  /\ StoreAnswer => BlockFrame("idle", "tagTime", published, tagTime, applyTime, now)
  /\ Activate => /\ BlockFrame("idle", "idle", received, tagTime, now + 1, now + 1)
                 /\ content' = [content EXCEPT !["active"] = content["fetched"]]
<1>1. ASSUME SetDefaults
      PROVE  BlockFrame("setDefaults", "idle", received, tagTime, applyTime, now)
  BY <1>1 DEF SetDefaults, BlockFrame, StartBlock, ChangeContent, deviceVars
<1>2. ASSUME StoreAnswer
      PROVE  BlockFrame("idle", "tagTime", published, tagTime, applyTime, now)
  BY <1>2 DEF StoreAnswer, BlockFrame, StartBlock, ChangeContent, deviceVars
<1>3. ASSUME Activate
      PROVE  /\ BlockFrame("idle", "idle", received, tagTime, now + 1, now + 1)
             /\ content' = [content EXCEPT !["active"] = content["fetched"]]
  BY <1>3 DEF Activate, BlockFrame, StartBlock, ChangeContent, deviceVars
<1> QED BY <1>1, <1>2, <1>3

\* A crash: the process is as it was before the launch, the device as it is.
LEMMA CrashFrame ==
  ASSUME Crash
  PROVE  /\ phase # "down"
         /\ phase' = "down" /\ isOpen' = FALSE /\ isNew' = FALSE /\ statements' = << >>
         /\ rows' = NoTables /\ load' = "pending" /\ content' = NoTables /\ applyTime' = 0
         /\ block' = "none" /\ received' = 0
         /\ file' = file /\ stored' = stored /\ storedApply' = storedApply
         /\ tag' = tag /\ tagTime' = tagTime /\ published' = published /\ now' = now
         /\ lostWork' \in BOOLEAN
         /\ ~lostWork' => /\ ~lostWork /\ statements = << >>
                          /\ block \in {"none", "setDefaults", "idle"}
                          /\ isNew => phase = "ready"
                          /\ isOpen
BY Zenon DEF Crash, deviceVars

-----------------------------------------------------------------------------
(* Types *)

LEMMA PInitType == PInit => PTypeOK
<1> SUFFICES ASSUME PInit PROVE PTypeOK
  OBVIOUS
<1>1. 0 \in Versions /\ 1 \in Versions \ {0}
  BY PersistenceAssumption DEF Versions
<1>2. statements \in Seq(Statements)
  <2>1. << >> \in Seq(Statements)
    OBVIOUS
  <2> QED BY <2>1 DEF PInit
<1> QED BY <1>1, <1>2, RowTypes DEF PInit, PTypeOK, NoRow

\* What only one kind of step changes keeps its type.
LEMMA PTypeStep ==
  ASSUME PTypeOK, TemplatesInv, PNext
  PROVE  PTypeOK'
<1>1. << >> \in Seq(Statements) /\ 0 \in Versions
  BY PersistenceAssumption DEF Versions
<1>2. stored' \in [Tables -> Rows]
  <2>1. CASE RunStatement
    <3>1. Head(statements) \in Statements
      BY <2>1 DEF RunStatement, PTypeOK
    <3>2. stored' \in {stored, Execute(stored, Head(statements))}
      BY <2>1 DEF RunStatement
    <3> QED BY <3>1, <3>2, ExecuteEffect DEF PTypeOK
  <2>2. CASE OpenDatabase
    BY <2>2, RowTypes DEF OpenDatabase, PTypeOK
  <2>3. CASE ~RunStatement /\ ~OpenDatabase
    <3>1. stored' = stored
      BY <2>3 DEF PNext, OpenDatabaseFails, LoadMain, LoadHandler, InitSettings, SetDefaults,
         StoreAnswer, RecordTagTime, RecordTag, RecordFetch, AnswerWithoutTemplate, Activate,
         Crash, DatabaseLost, Publish, deviceVars
    <3> QED BY <3>1 DEF PTypeOK
  <2> QED BY <2>1, <2>2, <2>3
<1>3. storedApply' \in Nat \cup {NoRow}
  <2>1. CASE RunStatement
    <3>1. Head(statements) \in Statements
      BY <2>1 DEF RunStatement, PTypeOK
    <3>2. storedApply' \in {storedApply, ExecuteMetadata(storedApply, Head(statements))}
      BY <2>1 DEF RunStatement
    <3> QED BY <3>1, <3>2, ExecuteMetadataEffect DEF PTypeOK
  <2>2. CASE ~RunStatement
    <3>1. storedApply' \in {storedApply, NoRow}
      BY <2>2 DEF PNext, OpenDatabase, OpenDatabaseFails, LoadMain, LoadHandler, InitSettings,
         SetDefaults, StoreAnswer, RecordTagTime, RecordTag, RecordFetch, AnswerWithoutTemplate,
         Activate, Crash, DatabaseLost, Publish, deviceVars
    <3> QED BY <3>1 DEF PTypeOK
  <2> QED BY <2>1, <2>2
<1>4. content' \in [Tables -> Rows] /\ statements' \in Seq(Statements)
  <2>1. CASE SetDefaults
    BY <2>1, SetDefaultsWrites DEF TableWritten, PTypeOK
  <2>2. CASE StoreAnswer
    BY <2>2, StoreAnswerWrites DEF TableWritten, PTypeOK
  <2>3. CASE Activate
    BY <2>3, ActivateWrites DEF TableWritten, PTypeOK
  <2>4. CASE RecordFetch \/ AnswerWithoutTemplate
    <3>1. content' = content
      BY <2>4 DEF RecordFetch, AnswerWithoutTemplate
    <3> QED BY <2>4, <3>1, MetadataWrites DEF MetadataReplaced, PTypeOK
  <2>5. CASE RunStatement
    <3>1. statements # << >> /\ statements' = Tail(statements) /\ content' = content
      BY <2>5 DEF RunStatement
    <3> QED BY <3>1 DEF PTypeOK
  <2>6. CASE \/ OpenDatabase \/ OpenDatabaseFails \/ LoadMain \/ InitSettings \/ RecordTagTime
             \/ RecordTag \/ DatabaseLost \/ Publish
    <3>1. content' = content /\ statements' = statements
      BY <2>6 DEF OpenDatabase, OpenDatabaseFails, LoadMain, InitSettings, RecordTagTime,
         RecordTag, DatabaseLost, Publish, processVars
    <3> QED BY <3>1 DEF PTypeOK
  <2>7. CASE LoadHandler
    <3>1. content' = rows /\ statements' = statements
      BY <2>7 DEF LoadHandler
    <3> QED BY <3>1 DEF PTypeOK
  <2>8. CASE Crash
    <3>1. content' = NoTables /\ statements' = << >>
      BY <2>8 DEF Crash
    <3> QED BY <1>1, <3>1, RowTypes
  <2> QED BY <2>1, <2>2, <2>3, <2>4, <2>5, <2>6, <2>7, <2>8 DEF PNext
<1>5. rows' \in [Tables -> Rows]
  <2>1. rows' \in {rows, stored, NoTables}
    BY DEF PNext, OpenDatabase, OpenDatabaseFails, LoadMain, LoadHandler, InitSettings,
       SetDefaults, StoreAnswer, RecordTagTime, RecordTag, RecordFetch, AnswerWithoutTemplate,
       Activate, RunStatement, Crash, DatabaseLost, Publish, processVars
  <2> QED BY <2>1, RowTypes DEF PTypeOK
<1>6. /\ tag' \in Versions /\ received' \in Versions /\ published' \in Versions \ {0}
      /\ now' \in Nat /\ tagTime' \in Nat /\ applyTime' \in Nat
      /\ file' \in {"ok", "missing", "corrupt"}
      /\ phase' \in {"down", "opened", "rowsRead", "ready"}
      /\ load' \in {"pending", "overtaken", "done", "late"}
      /\ block' \in {"none", "setDefaults", "idle", "tagTime", "tag", "metadata"}
  <2>1. CASE OpenDatabase \/ OpenDatabaseFails \/ LoadMain \/ LoadHandler \/ InitSettings
    BY <1>1, <2>1 DEF PTypeOK, OpenDatabase, OpenDatabaseFails, LoadMain, LoadHandler,
       InitSettings, deviceVars
  <2>2. CASE SetDefaults \/ StoreAnswer \/ Activate
    BY <2>2, BlockFrames DEF PTypeOK, BlockFrame
  <2>3. CASE RecordTagTime \/ RecordTag \/ RecordFetch \/ AnswerWithoutTemplate
    BY <1>1, <2>3 DEF PTypeOK, RecordTagTime, RecordTag, RecordFetch, AnswerWithoutTemplate,
       deviceVars
  <2>4. CASE RunStatement
    BY <2>4 DEF PTypeOK, RunStatement
  <2>5. CASE Crash \/ DatabaseLost
    <3>1. CASE Crash
      BY <1>1, <3>1, CrashFrame DEF PTypeOK
    <3>2. CASE DatabaseLost
      BY <3>2 DEF PTypeOK, DatabaseLost, processVars
    <3> QED BY <2>5, <3>1, <3>2
  <2>6. CASE Publish
    <3>1. published' \in Versions \ {0}
      BY <2>6, PersistenceAssumption DEF Publish, PTypeOK, Versions
    <3> QED BY <2>6, <3>1 DEF PTypeOK, Publish, deviceVars, processVars
  <2> QED BY <2>1, <2>2, <2>3, <2>4, <2>5, <2>6 DEF PNext
<1>7. isOpen' \in BOOLEAN /\ isNew' \in BOOLEAN /\ lostWork' \in BOOLEAN
  <2>1. CASE OpenDatabase \/ OpenDatabaseFails
    BY <2>1, Zenon DEF PTypeOK, OpenDatabase, OpenDatabaseFails
  <2>2. CASE LoadMain \/ LoadHandler \/ InitSettings
    BY <2>2, Zenon DEF PTypeOK, LoadMain, LoadHandler, InitSettings
  <2>3. CASE SetDefaults \/ StoreAnswer \/ Activate
    BY <2>3, BlockFrames, Zenon DEF PTypeOK, BlockFrame
  <2>4. CASE RecordTagTime \/ RecordTag \/ RecordFetch \/ AnswerWithoutTemplate
    BY <2>4, Zenon DEF PTypeOK, RecordTagTime, RecordTag, RecordFetch, AnswerWithoutTemplate
  <2>5. CASE RunStatement \/ Crash \/ DatabaseLost \/ Publish
    BY <2>5, Zenon DEF PTypeOK, RunStatement, Crash, DatabaseLost, Publish, processVars
  <2> QED BY <2>1, <2>2, <2>3, <2>4, <2>5 DEF PNext
<1> QED BY <1>2, <1>3, <1>4, <1>5, <1>6, <1>7 DEF PTypeOK

-----------------------------------------------------------------------------
(* The parts of the invariant, step by step *)

LEMMA LaunchStep ==
  ASSUME PTypeOK, LaunchInv, PNext
  PROVE  LaunchInv'
<1>1. CASE RunStatement
  <2>1. phase = "ready" /\ load # "pending"
    BY <1>1 DEF RunStatement, LaunchInv
  <2> QED BY <1>1, <2>1 DEF RunStatement, LaunchInv
<1>2. CASE OpenDatabase \/ OpenDatabaseFails \/ LoadMain \/ LoadHandler \/ InitSettings
  BY <1>2 DEF OpenDatabase, OpenDatabaseFails, LoadMain, LoadHandler, InitSettings, LaunchInv,
     PTypeOK, deviceVars
<1>3. CASE SetDefaults \/ StoreAnswer \/ Activate
  BY <1>3, BlockFrames DEF BlockFrame, LaunchInv, PTypeOK
<1>4. CASE RecordTagTime \/ RecordTag \/ RecordFetch \/ AnswerWithoutTemplate
  BY <1>4 DEF RecordTagTime, RecordTag, RecordFetch, AnswerWithoutTemplate, StartBlock, LaunchInv,
     PTypeOK, deviceVars
<1>5. CASE Crash
  BY <1>5, CrashFrame DEF LaunchInv
<1>6. CASE DatabaseLost \/ Publish
  BY <1>6 DEF DatabaseLost, Publish, LaunchInv, PTypeOK, deviceVars, processVars
<1> QED BY <1>1, <1>2, <1>3, <1>4, <1>5, <1>6 DEF PNext

\* Nothing waits: there is nothing to prove of the queue.
LEMMA EmptyQueue ==
  /\ \A t : RunsOfInserts(<< >>, t)
  /\ \A t, d : InsertsContinue(<< >>, d, t)
  /\ \A d, t, k : CatchesUp(<< >>, d, d, t, k)
  /\ \A d, m, t, k : CatchesUp(<< >>, d, m, t, k) => d = m
  /\ \A d, m : TimeCatchesUp(<< >>, d, m) <=> d \in {NoRow, m}
  /\ \A n : TimesUpTo(<< >>, n)
BY DEF RunsOfInserts, InsertsContinue, CatchesUp, TimeCatchesUp, TimesUpTo

\* A table is written in memory and on the queue.
LEMMA TemplatesWritten ==
  ASSUME PTypeOK, TemplatesInv, NEW t, NEW r, TableWritten(t, r),
         stored' = stored, rows' = rows, isOpen' = isOpen
  PROVE  TemplatesInv'
<1> SUFFICES ASSUME NEW u \in Tables
             PROVE  /\ SameTemplate(stored'[u]) /\ SameTemplate(content'[u])
                    /\ SameTemplate(rows'[u])
                    /\ RunsOfInserts(statements', u)
                    /\ isOpen' => InsertsContinue(statements', stored'[u], u)
  BY DEF TemplatesInv
<1>1. SameTemplate(stored'[u]) /\ SameTemplate(rows'[u])
  BY DEF TemplatesInv
<1>2. SameTemplate(content'[u])
  BY DEF TemplatesInv, TableWritten, PTypeOK
<1>3. KeepsTemplates(statements, statements', u) /\ RunsOfInserts(statements, u)
  BY DEF TableWritten, TemplatesInv
<1>4. stored[u] \in Rows
  BY DEF PTypeOK
<1>5. isOpen => InsertsContinue(statements, stored[u], u)
  BY DEF TemplatesInv
<1> QED BY <1>1, <1>2, <1>3, <1>4, <1>5 DEF KeepsTemplates

LEMMA TemplatesStep ==
  ASSUME PTypeOK, LaunchInv, TemplatesInv, PNext
  PROVE  TemplatesInv'
<1>1. CASE SetDefaults \/ StoreAnswer \/ Activate
  <2>1. stored' = stored /\ rows' = rows /\ isOpen' = isOpen
    BY <1>1, BlockFrames DEF BlockFrame
  <2>2. \E t, r : TableWritten(t, r)
    BY <1>1, SetDefaultsWrites, StoreAnswerWrites, ActivateWrites
  <2> QED BY <2>1, <2>2, TemplatesWritten
<1>2. CASE RecordFetch \/ AnswerWithoutTemplate
  <2>1. stored' = stored /\ rows' = rows /\ isOpen' = isOpen /\ content' = content
    BY <1>2 DEF RecordFetch, AnswerWithoutTemplate, deviceVars
  <2> SUFFICES ASSUME NEW u \in Tables
               PROVE  /\ RunsOfInserts(statements', u)
                      /\ isOpen => InsertsContinue(statements', stored[u], u)
    BY <2>1 DEF TemplatesInv
  <2>2. KeepsTemplates(statements, statements', u)
    BY <1>2, MetadataWrites DEF MetadataReplaced
  <2>3. stored[u] \in Rows
    BY DEF PTypeOK
  <2>4. RunsOfInserts(statements, u) /\ (isOpen => InsertsContinue(statements, stored[u], u))
    BY DEF TemplatesInv
  <2> QED BY <2>2, <2>3, <2>4 DEF KeepsTemplates
<1>3. CASE RunStatement
  <2>1. /\ statements # << >> /\ statements' = Tail(statements)
        /\ rows' = rows /\ isOpen' = isOpen /\ content' = content
        /\ stored' = IF isOpen THEN Execute(stored, Head(statements)) ELSE stored
    BY <1>3 DEF RunStatement
  <2>2. statements \in Seq(Statements) /\ Head(statements) \in Statements
        /\ stored \in [Tables -> Rows]
    BY <2>1 DEF PTypeOK
  <2> SUFFICES ASSUME NEW u \in Tables
               PROVE  /\ SameTemplate(stored'[u])
                      /\ RunsOfInserts(statements', u)
                      /\ isOpen => InsertsContinue(statements', stored'[u], u)
    BY <2>1 DEF TemplatesInv
  <2>3. /\ SameTemplate(stored[u]) /\ RunsOfInserts(statements, u)
        /\ isOpen => InsertsContinue(statements, stored[u], u)
    BY DEF TemplatesInv
  <2>4. RunsOfInserts(statements', u)
    BY <2>1, <2>2, <2>3, RunsTail
  <2>5. CASE ~isOpen
    BY <2>1, <2>3, <2>4, <2>5
  <2>6. CASE isOpen
    <3>1. stored' = Execute(stored, Head(statements))
      BY <2>1, <2>6
    <3>2. /\ stored' \in [Tables -> Rows]
          /\ \A k \in Keys : stored'[u][k] =
               IF Writes(Head(statements), u, k) THEN Written(Head(statements))
                                                 ELSE stored[u][k]
      BY <2>2, <3>1, ExecuteEffect
    <3>3. stored[u] \in Rows /\ stored'[u] \in Rows
      BY <2>2, <3>2
    <3>4. SameTemplate(stored'[u]) /\ InsertsContinue(Tail(statements), stored'[u], u)
      BY <2>1, <2>2, <2>3, <2>6, <3>2, <3>3, ContinueTail
    <3> QED BY <2>1, <2>4, <3>4
  <2> QED BY <2>5, <2>6
<1>4. CASE OpenDatabase \/ Crash
  <2>1. statements' = << >>
    BY <1>4, CrashFrame DEF OpenDatabase, LaunchInv
  <2>2. /\ stored' \in {stored, NoTables} /\ content' \in {content, NoTables}
        /\ rows' \in {rows, NoTables}
    BY <1>4, CrashFrame DEF OpenDatabase
  <2>3. \A t \in Tables : SameTemplate(NoTables[t])
    BY TemplateRowsFacts DEF NoTables
  <2>4. \A t \in Tables : SameTemplate(stored'[t]) /\ SameTemplate(content'[t])
                          /\ SameTemplate(rows'[t])
    BY <2>2, <2>3 DEF TemplatesInv
  <2> QED BY <2>1, <2>4, EmptyQueue DEF TemplatesInv
<1>5. CASE LoadMain \/ LoadHandler
  <2>1. statements' = statements /\ isOpen' = isOpen /\ stored' = stored
    BY <1>5 DEF LoadMain, LoadHandler, deviceVars
  <2>2. content' \in {content, rows} /\ rows' \in {rows, stored, NoTables}
    BY <1>5 DEF LoadMain, LoadHandler
  <2>3. \A t \in Tables : SameTemplate(NoTables[t])
    BY TemplateRowsFacts DEF NoTables
  <2>4. \A t \in Tables : SameTemplate(content'[t]) /\ SameTemplate(rows'[t])
    BY <2>2, <2>3 DEF TemplatesInv
  <2> QED BY <2>1, <2>4 DEF TemplatesInv
<1>6. CASE \/ OpenDatabaseFails \/ InitSettings \/ RecordTagTime \/ RecordTag \/ DatabaseLost
           \/ Publish
  <2>1. /\ statements' = statements /\ isOpen' = isOpen /\ stored' = stored
        /\ content' = content /\ rows' = rows
    BY <1>6 DEF OpenDatabaseFails, InitSettings, RecordTagTime, RecordTag, DatabaseLost, Publish,
       deviceVars, processVars
  <2> QED BY <2>1 DEF TemplatesInv
<1> QED BY <1>1, <1>2, <1>3, <1>4, <1>5, <1>6 DEF PNext

LEMMA TimesStep ==
  ASSUME PTypeOK, LaunchInv, TemplatesInv, TimesInv, PNext
  PROVE  TimesInv'
<1>1. now \in Nat /\ applyTime \in Nat /\ storedApply \in Nat \cup {NoRow}
      /\ statements \in Seq(Statements)
  BY DEF PTypeOK
<1>2. TimesUpTo(statements, now) => TimesUpTo(statements, now + 1)
  <2> SUFFICES ASSUME TimesUpTo(statements, now) PROVE TimesUpTo(statements, now + 1)
    OBVIOUS
  <2> SUFFICES ASSUME NEW i \in DOMAIN statements, WritesMetadata(statements[i]),
                      statements[i].op # "deleteMetadata"
               PROVE  statements[i].time <= now + 1
    BY DEF TimesUpTo
  <2>1. statements[i].time <= now
    BY DEF TimesUpTo
  <2>2. statements[i] \in Statements
    BY <1>1
  <2>3. statements[i].time \in Nat
    BY <2>2, ExecuteMetadataEffect
  <2> QED BY <1>1, <2>1, <2>3
<1>3. CASE SetDefaults \/ StoreAnswer
  <2>1. applyTime' = applyTime /\ storedApply' = storedApply /\ now' = now
    BY <1>3, BlockFrames DEF BlockFrame
  <2>2. TimesKept
    BY <1>3, SetDefaultsWrites, StoreAnswerWrites
  <2> QED BY <2>1, <2>2 DEF TimesKept, TimesInv
<1>4. CASE Activate
  <2>1. applyTime' = now + 1 /\ storedApply' = storedApply /\ now' = now + 1
    BY <1>4, BlockFrames DEF BlockFrame
  <2>2. TimesUpTo(statements, now + 1)
    BY <1>1, <1>2 DEF TimesInv
  <2>3. \A n : TimesUpTo(statements, n) /\ applyTime' <= n => TimesUpTo(statements', n)
    BY <1>4, ActivateWrites
  <2>4. now + 1 <= now + 1 /\ storedApply <= now + 1
    BY <1>1 DEF TimesInv, NoRow
  <2>5. TimesUpTo(statements', now + 1)
    BY <2>1, <2>2, <2>3, <2>4
  <2> QED BY <2>1, <2>4, <2>5 DEF TimesInv
<1>5. CASE RecordFetch \/ AnswerWithoutTemplate
  <2>1. applyTime' = applyTime /\ storedApply' = storedApply /\ now' = now
    BY <1>5 DEF RecordFetch, AnswerWithoutTemplate, deviceVars
  <2>2. \A n : TimesUpTo(statements, n) /\ applyTime <= n => TimesUpTo(statements', n)
    BY <1>5, MetadataWrites DEF MetadataReplaced
  <2> QED BY <2>1, <2>2 DEF TimesInv
<1>6. CASE RunStatement
  <2>1. /\ statements # << >> /\ statements' = Tail(statements)
        /\ applyTime' = applyTime /\ now' = now
        /\ storedApply' \in {storedApply, ExecuteMetadata(storedApply, Head(statements))}
    BY <1>6 DEF RunStatement
  <2>2. /\ TimesUpTo(Tail(statements), now)
        /\ ExecuteMetadata(storedApply, Head(statements)) <= now
    BY <1>1, <2>1, TimesTail DEF TimesInv
  <2> QED BY <2>1, <2>2 DEF TimesInv
<1>7. CASE RecordTagTime
  <2>1. /\ applyTime' = applyTime /\ storedApply' = storedApply /\ now' = now + 1
        /\ statements' = statements
    BY <1>7 DEF RecordTagTime
  <2>2. TimesUpTo(statements, now + 1)
    BY <1>1, <1>2 DEF TimesInv
  <2>3. applyTime <= now + 1 /\ storedApply <= now + 1
    BY <1>1 DEF TimesInv, NoRow
  <2> QED BY <2>1, <2>2, <2>3 DEF TimesInv
<1>8. CASE OpenDatabase \/ Crash
  <2>1. statements' = << >>
    BY <1>8, CrashFrame DEF OpenDatabase, LaunchInv
  <2>2. applyTime' \in {0, applyTime} /\ storedApply' \in {NoRow, storedApply} /\ now' = now
    BY <1>8, CrashFrame DEF OpenDatabase
  <2>3. 0 <= now /\ NoRow <= now
    BY <1>1 DEF NoRow
  <2> QED BY <2>1, <2>2, <2>3, EmptyQueue DEF TimesInv
<1>9. CASE InitSettings
  <2>1. applyTime' \in {0, storedApply} /\ storedApply' = storedApply /\ now' = now
        /\ statements' = statements
    BY <1>9 DEF InitSettings
  <2> QED BY <1>1, <2>1 DEF TimesInv
<1>10. CASE \/ OpenDatabaseFails \/ LoadMain \/ LoadHandler \/ RecordTag \/ DatabaseLost
            \/ Publish
  <2>1. /\ applyTime' = applyTime /\ storedApply' = storedApply /\ now' = now
        /\ statements' = statements
    BY <1>10 DEF OpenDatabaseFails, LoadMain, LoadHandler, RecordTag, DatabaseLost, Publish,
       deviceVars, processVars
  <2> QED BY <2>1 DEF TimesInv
<1> QED BY <1>3, <1>4, <1>5, <1>6, <1>7, <1>8, <1>9, <1>10 DEF PNext

LEMMA MemoryStep ==
  ASSUME PTypeOK, LaunchInv, TemplatesInv, MemoryInv, PNext
  PROVE  MemoryInv'
<1> SUFFICES ASSUME isOpen'
             PROVE  /\ phase' \in {"rowsRead", "ready"} /\ load' = "pending" => rows' = stored'
                    /\ load' = "done" =>
                         \A t \in Tables, k \in Keys :
                           CatchesUp(statements', stored'[t][k], content'[t][k], t, k)
                    /\ phase' = "ready" => TimeCatchesUp(statements', storedApply', applyTime')
  BY DEF MemoryInv
<1>1. CASE SetDefaults \/ StoreAnswer \/ Activate
  <2>1. /\ stored' = stored /\ storedApply' = storedApply /\ isOpen' = isOpen
        /\ phase = "ready" /\ phase' = "ready"
        /\ load' = (IF load = "pending" THEN "overtaken" ELSE load)
    BY <1>1, BlockFrames DEF BlockFrame
  <2>2. load' # "pending" /\ (load' = "done" => load = "done")
    BY <2>1
  <2>3. PICK t, r : TableWritten(t, r)
    BY <1>1, SetDefaultsWrites, StoreAnswerWrites, ActivateWrites
  <2>4. ASSUME load' = "done", NEW u \in Tables, NEW k \in Keys
        PROVE  CatchesUp(statements', stored'[u][k], content'[u][k], u, k)
    <3>1. CASE u = t
      <4>1. content'[u] = r
        BY <2>3, <3>1 DEF TableWritten, PTypeOK
      <4>2. CatchesUp(statements', stored'[u][k], r[k], u, k)
        BY <2>3, <3>1 DEF TableWritten
      <4> QED BY <4>1, <4>2
    <3>2. CASE u # t
      <4>1. content'[u] = content[u]
        BY <2>3, <3>2 DEF TableWritten, PTypeOK
      <4>2. CatchesUp(statements, stored[u][k], content[u][k], u, k)
        BY <2>1, <2>2, <2>4 DEF MemoryInv
      <4>3. KeepsRows(statements, statements', u)
        BY <2>3, <3>2 DEF TableWritten
      <4> QED BY <2>1, <4>1, <4>2, <4>3 DEF KeepsRows
    <3> QED BY <3>1, <3>2
  <2>5. TimeCatchesUp(statements', storedApply', applyTime')
    <3>1. CASE Activate
      BY <3>1, ActivateWrites
    <3>2. CASE SetDefaults \/ StoreAnswer
      <4>1. applyTime' = applyTime
        BY <3>2, BlockFrames DEF BlockFrame
      <4>2. TimesKept
        BY <3>2, SetDefaultsWrites, StoreAnswerWrites
      <4>3. TimeCatchesUp(statements, storedApply, applyTime)
        BY <2>1 DEF MemoryInv
      <4> QED BY <2>1, <4>1, <4>2, <4>3 DEF TimesKept
    <3> QED BY <1>1, <3>1, <3>2
  <2> QED BY <2>2, <2>4, <2>5
<1>2. CASE RecordFetch \/ AnswerWithoutTemplate
  <2>1. /\ stored' = stored /\ storedApply' = storedApply /\ isOpen' = isOpen
        /\ phase' = phase /\ load' = load /\ rows' = rows /\ content' = content
        /\ applyTime' = applyTime
    BY <1>2 DEF RecordFetch, AnswerWithoutTemplate, deviceVars
  <2>2. MetadataReplaced(statements, statements', applyTime)
    BY <1>2, MetadataWrites
  <2>3. \A t \in Tables : KeepsRows(statements, statements', t)
    BY <2>2 DEF MetadataReplaced
  <2>4. TimeCatchesUp(statements', storedApply, applyTime)
    BY <2>2 DEF MetadataReplaced
  <2>5. ASSUME load = "done", NEW u \in Tables, NEW k \in Keys
        PROVE  CatchesUp(statements', stored[u][k], content[u][k], u, k)
    BY <2>1, <2>3, <2>5 DEF MemoryInv, KeepsRows
  <2>6. phase \in {"rowsRead", "ready"} /\ load = "pending" => rows = stored
    BY <2>1 DEF MemoryInv
  <2> QED BY <2>1, <2>4, <2>5, <2>6
<1>3. CASE RunStatement
  <2>1. /\ statements # << >> /\ statements' = Tail(statements)
        /\ isOpen' = isOpen /\ content' = content /\ load' = load
        /\ phase' = phase /\ applyTime' = applyTime
    BY <1>3 DEF RunStatement
  <2>2. /\ stored' = Execute(stored, Head(statements))
        /\ storedApply' = ExecuteMetadata(storedApply, Head(statements))
    BY <1>3, <2>1 DEF RunStatement
  <2>3. phase = "ready" /\ load # "pending"
    BY <2>1 DEF LaunchInv
  <2>4. /\ statements \in Seq(Statements) /\ Head(statements) \in Statements
        /\ stored \in [Tables -> Rows] /\ storedApply \in Nat \cup {NoRow}
    BY <2>1 DEF PTypeOK
  <2>5. ASSUME load = "done", NEW t \in Tables, NEW k \in Keys
        PROVE  CatchesUp(Tail(statements), stored'[t][k], content[t][k], t, k)
    <3>1. CatchesUp(statements, stored[t][k], content[t][k], t, k)
      BY <2>1, <2>5 DEF MemoryInv
    <3>2. stored'[t][k] = IF Writes(Head(statements), t, k) THEN Written(Head(statements))
                                                            ELSE stored[t][k]
      BY <2>2, <2>4, ExecuteEffect
    <3> QED BY <2>1, <2>4, <3>1, <3>2, CatchesUpTail
  <2>6. TimeCatchesUp(Tail(statements), storedApply', applyTime)
    <3>1. TimeCatchesUp(statements, storedApply, applyTime)
      BY <2>1, <2>3 DEF MemoryInv
    <3> QED BY <2>1, <2>2, <2>4, <3>1, TimeCatchesUpTail
  <2> QED BY <2>1, <2>3, <2>5, <2>6
<1>4. CASE OpenDatabase
  BY <1>4 DEF OpenDatabase, LaunchInv
<1>5. CASE LoadMain
  <2>1. /\ isOpen' = isOpen /\ stored' = stored /\ load' = load /\ load = "pending"
        /\ phase' = "rowsRead"
    BY <1>5 DEF LoadMain, LaunchInv, deviceVars
  <2>2. rows' = stored
    BY <1>5, <2>1 DEF LoadMain
  <2> QED BY <2>1, <2>2
<1>6. CASE LoadHandler
  <2>1. /\ isOpen' = isOpen /\ stored' = stored /\ statements' = statements /\ phase' = phase
        /\ content' = rows /\ storedApply' = storedApply /\ applyTime' = applyTime
        /\ load' # "pending" /\ (load' = "done" => load = "pending")
        /\ phase \in {"rowsRead", "ready"}
    BY <1>6 DEF LoadHandler, deviceVars
  <2>2. load' = "done" => rows = stored /\ statements = << >>
    BY <2>1 DEF MemoryInv, LaunchInv
  <2>3. phase = "ready" => TimeCatchesUp(statements, storedApply, applyTime)
    BY <2>1 DEF MemoryInv
  <2>4. ASSUME load' = "done", NEW t \in Tables, NEW k \in Keys
        PROVE  CatchesUp(statements', stored'[t][k], content'[t][k], t, k)
    <3>1. CatchesUp(<< >>, stored[t][k], stored[t][k], t, k)
      BY EmptyQueue, Zenon
    <3> QED BY <2>1, <2>2, <2>4, <3>1
  <2> QED BY <2>1, <2>3, <2>4
<1>7. CASE InitSettings
  <2>1. /\ isOpen' = isOpen /\ stored' = stored /\ statements' = statements /\ rows' = rows
        /\ content' = content /\ storedApply' = storedApply /\ load' = load
        /\ phase = "rowsRead" /\ statements = << >>
    BY <1>7 DEF InitSettings, LaunchInv
  <2>2. storedApply \in {NoRow, applyTime'}
    BY <1>7, <2>1 DEF InitSettings
  <2>3. TimeCatchesUp(<< >>, storedApply, applyTime')
    BY <2>2, EmptyQueue, Zenon
  <2>4. load = "pending" => rows = stored
    BY <2>1 DEF MemoryInv
  <2>5. load = "done" => \A t \in Tables, k \in Keys :
                           CatchesUp(statements, stored[t][k], content[t][k], t, k)
    BY <2>1 DEF MemoryInv
  <2> QED BY <2>1, <2>3, <2>4, <2>5
<1>8. CASE Crash
  BY <1>8, CrashFrame
<1>9. CASE \/ OpenDatabaseFails \/ RecordTagTime \/ RecordTag \/ DatabaseLost \/ Publish
  <2>1. /\ isOpen' = isOpen /\ stored' = stored /\ statements' = statements /\ rows' = rows
        /\ content' = content /\ storedApply' = storedApply /\ load' = load
        /\ applyTime' = applyTime /\ (phase' = phase \/ phase' = "opened")
    BY <1>9 DEF OpenDatabaseFails, RecordTagTime, RecordTag, DatabaseLost, Publish, deviceVars,
       processVars
  <2> QED BY <2>1 DEF MemoryInv
<1> QED BY <1>1, <1>2, <1>3, <1>4, <1>5, <1>6, <1>7, <1>8, <1>9 DEF PNext

LEMMA AnswerStep ==
  ASSUME PTypeOK, LaunchInv, TimesInv, AnswerInv, PNext
  PROVE  AnswerInv'
<1>1. CASE SetDefaults \/ Activate
  <2>1. block' = "idle"
    BY <1>1, BlockFrames DEF BlockFrame
  <2> QED BY <2>1 DEF AnswerInv
<1>2. CASE StoreAnswer
  <2>1. block' = "tagTime" /\ received' = published
    BY <1>2, BlockFrames DEF BlockFrame
  <2>2. content'["fetched"] = TemplateRows(published)
    BY <1>2, StoreAnswerWrites DEF TableWritten, PTypeOK
  <2> QED BY <2>1, <2>2 DEF AnswerInv
<1>3. CASE RecordTagTime
  <2>1. /\ block = "tagTime" /\ block' = "tag" /\ tagTime' = now + 1 /\ applyTime' = applyTime
        /\ load' = load /\ content' = content /\ received' = received
    BY <1>3 DEF RecordTagTime
  <2>2. now + 1 > applyTime
    BY DEF TimesInv, PTypeOK
  <2> QED BY <2>1, <2>2 DEF AnswerInv
<1>4. CASE RecordTag
  BY <1>4 DEF RecordTag, AnswerInv
<1>5. CASE RecordFetch
  BY <1>5 DEF RecordFetch, AnswerInv
<1>6. CASE RunStatement \/ AnswerWithoutTemplate \/ Publish
  <2>1. /\ block' = block /\ load' = load /\ content' = content /\ received' = received
        /\ tagTime' = tagTime /\ applyTime' = applyTime /\ tag' = tag
    BY <1>6 DEF RunStatement, AnswerWithoutTemplate, Publish, deviceVars, processVars
  <2> QED BY <2>1 DEF AnswerInv
<1>7. CASE LoadHandler
  <2>1. /\ block' = block /\ received' = received /\ tagTime' = tagTime
        /\ applyTime' = applyTime /\ tag' = tag
        /\ (load' = "done" => load = "pending") /\ phase \in {"rowsRead", "ready"}
    BY <1>7 DEF LoadHandler, deviceVars
  <2>2. load' = "done" => block \in {"none", "setDefaults"}
    BY <2>1 DEF LaunchInv
  <2> QED BY <2>1, <2>2 DEF AnswerInv
<1>8. CASE OpenDatabase \/ OpenDatabaseFails \/ LoadMain \/ DatabaseLost
  <2>1. block' = block /\ phase # "ready"
    BY <1>8 DEF OpenDatabase, OpenDatabaseFails, LoadMain, DatabaseLost, processVars
  <2>2. block' = "none"
    BY <2>1 DEF LaunchInv
  <2> QED BY <2>2 DEF AnswerInv
<1>9. CASE InitSettings \/ Crash
  <2>1. block' \in {"none", "setDefaults"}
    BY <1>9, CrashFrame DEF InitSettings
  <2> QED BY <2>1 DEF AnswerInv
<1> QED BY <1>1, <1>2, <1>3, <1>4, <1>5, <1>6, <1>7, <1>8, <1>9 DEF PNext

\* With nothing waiting the database holds what is in memory.
LEMMA NothingWaiting ==
  ASSUME PTypeOK, MemoryInv, isOpen, statements = << >>
  PROVE  /\ load = "done" => stored = content
         /\ phase = "ready" => storedApply \in {NoRow, applyTime}
<1>1. ASSUME load = "done" PROVE stored = content
  <2>1. \A t \in Tables, k \in Keys : CatchesUp(<< >>, stored[t][k], content[t][k], t, k)
    BY <1>1 DEF MemoryInv
  <2>2. \A t \in Tables, k \in Keys : stored[t][k] = content[t][k]
    BY <2>1, EmptyQueue, Zenon
  <2> QED BY <2>2 DEF PTypeOK, Rows
<1>2. ASSUME phase = "ready" PROVE storedApply \in {NoRow, applyTime}
  <2>1. TimeCatchesUp(<< >>, storedApply, applyTime)
    BY <1>2 DEF MemoryInv
  <2> QED BY <2>1, EmptyQueue, Zenon
<1> QED BY <1>1, <1>2

\* A missing apply time counts as one before every answer.
LEMMA AgreesWithoutRow ==
  ASSUME NEW tables, NEW g, NEW time \in Nat, NEW a, NEW b,
         Agrees(tables, a, g, time), b \in {a, 0, NoRow}
  PROVE  Agrees(tables, b, g, time)
<1>1. time # 0 => ~(time <= 0) /\ ~(time <= NoRow)
  BY DEF NoRow
<1> QED BY <1>1 DEF Agrees

LEMMA RestoredStep ==
  ASSUME PTypeOK, LaunchInv, MemoryInv, AnswerInv, RestoredInv, PNext
  PROVE  RestoredInv'
<1>1. ~lostWork => /\ load \in {"pending", "done"}
                   /\ phase # "down" => isOpen
  BY DEF RestoredInv, PTypeOK
<1>2. CASE SetDefaults \/ StoreAnswer \/ Activate
  <2>1. /\ phase = "ready" /\ phase' = "ready" /\ isOpen' = isOpen /\ tag' = tag
        /\ tagTime' = tagTime
        /\ load' = (IF load = "pending" THEN "overtaken" ELSE load)
        /\ lostWork' = (lostWork \/ load \in {"pending", "overtaken"})
    BY <1>2, BlockFrames DEF BlockFrame
  <2>2. ~lostWork' => ~lostWork /\ load = "done" /\ load' = "done" /\ isOpen'
    BY <1>1, <2>1
  <2>3. load' \in {"overtaken", "late"} => lostWork'
    BY <2>1 DEF RestoredInv
  <2>4. ASSUME ~lostWork', block' \in {"setDefaults", "idle", "metadata"}
        PROVE  Agrees(content', applyTime', tag', tagTime')
    <3>1. block \in {"setDefaults", "idle"} /\ (SetDefaults \/ Activate)
      BY <1>2, <2>4, BlockFrames DEF BlockFrame
    <3>2. Agrees(content, applyTime, tag, tagTime)
      BY <2>1, <2>2, <2>4, <3>1 DEF RestoredInv
    <3>3. CASE SetDefaults
      <4>1. applyTime' = applyTime /\ content' = [content EXCEPT !["default"] = DefaultRows]
        BY <3>3, BlockFrames, SetDefaultsWrites DEF BlockFrame, TableWritten
      <4>2. content'["fetched"] = content["fetched"] /\ content'["active"] = content["active"]
        BY <4>1 DEF PTypeOK, Tables
      <4> QED BY <2>1, <3>2, <4>1, <4>2 DEF Agrees
    <3>4. CASE Activate
      <4>1. content' = [content EXCEPT !["active"] = content["fetched"]]
        BY <3>4, BlockFrames
      <4>2. content'["fetched"] = content["fetched"] /\ content'["active"] = content["fetched"]
        BY <4>1 DEF PTypeOK, Tables
      <4> QED BY <2>1, <3>2, <4>2 DEF Agrees
    <3> QED BY <3>1, <3>3, <3>4
  <2> QED BY <2>1, <2>2, <2>3, <2>4 DEF RestoredInv
<1>3. CASE RecordTagTime
  <2>1. /\ block = "tagTime" /\ block' = "tag" /\ phase' = phase /\ isOpen' = isOpen
        /\ load' = load /\ lostWork' = lostWork
    BY <1>3 DEF RecordTagTime
  <2>2. phase = "ready" /\ load # "pending"
    BY <2>1 DEF LaunchInv
  <2> QED BY <2>1, <2>2 DEF RestoredInv
<1>4. CASE RecordTag
  <2>1. /\ block = "tag" /\ block' = "metadata" /\ phase' = phase /\ isOpen' = isOpen
        /\ load' = load /\ tag' = received /\ tagTime' = tagTime /\ content' = content
        /\ applyTime' = applyTime
    BY <1>4 DEF RecordTag
  <2>2. phase = "ready" /\ load # "pending"
    BY <2>1 DEF LaunchInv
  <2>3. ~lostWork' => load = "done" /\ isOpen
    <3>1. lostWork' = (lostWork /\ ~(load = "done" /\ isOpen))
      BY <1>4 DEF RecordTag
    <3> QED BY <1>1, <2>2, <3>1
  <2>4. lostWork' \in BOOLEAN
    BY <1>4 DEF RecordTag, PTypeOK
  <2>5. load = "done" => Agrees(content', applyTime', tag', tagTime')
    <3>1. tagTime > applyTime /\ tagTime \in Nat /\ applyTime \in Nat
      BY <2>1 DEF AnswerInv, PTypeOK
    <3>2. ~(tagTime <= applyTime)
      BY <3>1
    <3>3. load = "done" => content["fetched"] = TemplateRows(received)
      BY <2>1 DEF AnswerInv
    <3> QED BY <2>1, <3>2, <3>3 DEF Agrees
  <2> QED BY <2>1, <2>2, <2>3, <2>4, <2>5 DEF RestoredInv
<1>5. CASE RecordFetch \/ AnswerWithoutTemplate \/ RunStatement
  <2>1. /\ phase' = phase /\ isOpen' = isOpen /\ load' = load /\ tag' = tag
        /\ tagTime' = tagTime /\ content' = content /\ applyTime' = applyTime
        /\ lostWork' = lostWork
        /\ block' = block \/ (block = "metadata" /\ block' = "idle")
    BY <1>5 DEF RecordFetch, AnswerWithoutTemplate, RunStatement, deviceVars
  <2>2. phase = "ready" /\ (load = "pending" => block = "setDefaults" /\ statements = << >>)
    BY <1>5 DEF RecordFetch, AnswerWithoutTemplate, StartBlock, RunStatement, LaunchInv
  <2>3. load # "pending"
    BY <1>5, <2>2 DEF RecordFetch, AnswerWithoutTemplate, StartBlock, RunStatement
  <2>4. ~lostWork /\ load = "done" /\ block' \in {"setDefaults", "idle", "metadata"}
          => Agrees(content, applyTime, tag, tagTime)
    BY <2>1, <2>2 DEF RestoredInv
  <2> QED BY <1>1, <2>1, <2>2, <2>3, <2>4 DEF RestoredInv
<1>6. CASE OpenDatabase
  <2>1. /\ phase = "down" /\ phase' = "opened" /\ isOpen' = TRUE /\ lostWork' = lostWork
        /\ load' = load /\ tag' = tag /\ tagTime' = tagTime
    BY <1>6 DEF OpenDatabase
  <2>2. load = "pending"
    BY <2>1 DEF LaunchInv
  <2>3. CASE file = "ok"
    <3>1. stored' = stored /\ storedApply' = storedApply /\ ~isNew'
      BY <1>6, <2>3 DEF OpenDatabase
    <3>2. ~lostWork => Agrees(stored, storedApply, tag, tagTime)
      BY <2>1, <2>3 DEF RestoredInv
    <3> QED BY <2>1, <2>2, <3>1, <3>2 DEF RestoredInv
  <2>4. CASE file # "ok"
    <3>1. stored' = NoTables /\ storedApply' = NoRow /\ isNew'
      BY <1>6, <2>4 DEF OpenDatabase
    <3> QED BY <2>1, <2>2, <3>1 DEF RestoredInv
  <2> QED BY <2>3, <2>4
<1>7. CASE OpenDatabaseFails
  BY <1>7 DEF OpenDatabaseFails, RestoredInv
<1>8. CASE LoadMain
  <2>1. /\ phase = "opened" /\ phase' = "rowsRead" /\ isOpen' = isOpen /\ lostWork' = lostWork
        /\ load' = load /\ tag' = tag /\ tagTime' = tagTime /\ isNew' = isNew
        /\ stored' = stored /\ storedApply' = storedApply
    BY <1>8 DEF LoadMain, deviceVars
  <2> QED BY <2>1 DEF RestoredInv
<1>9. CASE LoadHandler
  <2>1. /\ phase' = phase /\ isOpen' = isOpen /\ lostWork' = lostWork /\ tag' = tag
        /\ tagTime' = tagTime /\ isNew' = isNew /\ stored' = stored /\ content' = rows
        /\ storedApply' = storedApply /\ applyTime' = applyTime /\ block' = block
        /\ phase \in {"rowsRead", "ready"} /\ load \in {"pending", "overtaken"}
        /\ load' = IF load = "pending" THEN "done" ELSE "late"
    BY <1>9 DEF LoadHandler, deviceVars
  <2>2. ~lostWork => load = "pending" /\ isOpen /\ load' = "done"
    BY <1>1, <2>1
  <2>3. ~lostWork => rows = stored
    BY <2>1, <2>2 DEF MemoryInv
  <2>4. ~lostWork /\ phase = "ready" => Agrees(stored, applyTime, tag, tagTime)
    BY <2>2 DEF RestoredInv
  <2>5. ~lostWork /\ phase = "rowsRead" =>
            IF isNew THEN stored = NoTables /\ storedApply = NoRow
                     ELSE Agrees(stored, storedApply, tag, tagTime)
    BY DEF RestoredInv
  <2>6. load' # "pending" /\ (load' \in {"overtaken", "late"} => lostWork)
        /\ (phase # "down" /\ ~isOpen => lostWork)
    BY <1>1, <2>1, <2>2
  <2> QED BY <2>1, <2>3, <2>4, <2>5, <2>6 DEF RestoredInv
<1>10. CASE InitSettings
  <2>1. /\ phase = "rowsRead" /\ phase' = "ready" /\ isOpen' = isOpen /\ lostWork' = lostWork
        /\ load' = load /\ stored' = stored /\ content' = content
        /\ statements = << >>
    BY <1>10 DEF InitSettings, LaunchInv
  <2>2. ~lostWork => Agrees(stored, applyTime', tag', tagTime')
    <3>1. CASE isNew
      <4>1. tag' = 0 /\ tagTime' = 0
        BY <1>10, <3>1 DEF InitSettings
      <4>2. ~lostWork => stored = NoTables
        BY <2>1, <3>1 DEF RestoredInv
      <4>3. NoTables["fetched"] = TemplateRows(0)
        BY TemplateRowsFacts DEF NoTables, Tables
      <4> QED BY <4>1, <4>2, <4>3 DEF Agrees
    <3>2. CASE ~isNew
      <4>1. tag' = tag /\ tagTime' = tagTime /\ applyTime' \in {storedApply, 0}
        BY <1>10, <3>2 DEF InitSettings
      <4>2. ~lostWork => Agrees(stored, storedApply, tag, tagTime)
        BY <2>1, <3>2 DEF RestoredInv
      <4>3. tagTime \in Nat
        BY DEF PTypeOK
      <4> QED BY <4>1, <4>2, <4>3, AgreesWithoutRow
    <3> QED BY <3>1, <3>2
  <2>3. ~lostWork /\ load = "done" => stored = content
    BY <1>1, <2>1, NothingWaiting
  <2>4. load \in {"pending", "done"}
    BY <2>1 DEF LaunchInv
  <2>5. ~isOpen => lostWork
    BY <1>1, <2>1
  <2> QED BY <2>1, <2>2, <2>3, <2>4, <2>5 DEF RestoredInv
<1>11. CASE Crash
  <2>1. /\ phase' = "down" /\ isOpen' = FALSE /\ load' = "pending" /\ file' = file
        /\ stored' = stored /\ storedApply' = storedApply /\ tag' = tag /\ tagTime' = tagTime
        /\ phase # "down"
        /\ ~lostWork' => /\ ~lostWork /\ statements = << >>
                         /\ block \in {"none", "setDefaults", "idle"}
                         /\ isNew => phase = "ready"
                         /\ isOpen
    BY <1>11, CrashFrame
  <2>2. ASSUME ~lostWork' PROVE Agrees(stored, storedApply, tag, tagTime)
    <3>1. ~lostWork /\ statements = << >> /\ isOpen
      BY <2>1, <2>2
    <3>2. CASE phase # "ready"
      <4>1. phase \in {"opened", "rowsRead"} /\ ~isNew
        BY <2>1, <2>2, <3>2 DEF PTypeOK
      <4> QED BY <3>1, <4>1 DEF RestoredInv
    <3>3. CASE phase = "ready"
      <4>1. storedApply \in {NoRow, applyTime} /\ (load = "done" => stored = content)
        BY <3>1, <3>3, NothingWaiting
      <4>2. block \in {"setDefaults", "idle"}
        BY <2>1, <2>2, <3>3 DEF LaunchInv
      <4>3. Agrees(stored, applyTime, tag, tagTime)
        BY <1>1, <3>1, <3>3, <4>1, <4>2 DEF RestoredInv
      <4>4. tagTime \in Nat
        BY DEF PTypeOK
      <4> QED BY <4>1, <4>3, <4>4, AgreesWithoutRow
    <3> QED BY <3>2, <3>3
  <2> QED BY <2>1, <2>2 DEF RestoredInv
<1>12. CASE DatabaseLost
  <2>1. /\ phase' = "down" /\ file' # "ok" /\ load' = load /\ lostWork' = lostWork
    BY <1>12 DEF DatabaseLost, processVars
  <2> QED BY <1>1, <2>1 DEF RestoredInv
<1>13. CASE Publish
  BY <1>13 DEF Publish, RestoredInv, deviceVars, processVars
<1> QED BY <1>2, <1>3, <1>4, <1>5, <1>6, <1>7, <1>8, <1>9, <1>10, <1>11, <1>12, <1>13 DEF PNext

-----------------------------------------------------------------------------
(* The theorems *)

LEMMA PersistenceInit == PInit => PersistenceInv
<1> SUFFICES ASSUME PInit PROVE PersistenceInv
  OBVIOUS
<1>1. PTypeOK
  BY PInitType
<1>2. LaunchInv
  BY DEF PInit, LaunchInv
<1>3. TemplatesInv
  <2>1. \A t \in Tables : SameTemplate(NoTables[t])
    BY TemplateRowsFacts DEF NoTables
  <2> QED BY <2>1, EmptyQueue DEF PInit, TemplatesInv
<1>4. MemoryInv
  BY DEF PInit, MemoryInv
<1>5. TimesInv
  BY EmptyQueue DEF PInit, TimesInv, NoRow
<1>6. AnswerInv
  BY DEF PInit, AnswerInv
<1>7. RestoredInv
  BY DEF PInit, RestoredInv
<1> QED BY <1>1, <1>2, <1>3, <1>4, <1>5, <1>6, <1>7 DEF PersistenceInv

LEMMA PersistenceStep == PersistenceInv /\ [PNext]_pvars => PersistenceInv'
<1> SUFFICES ASSUME PersistenceInv, [PNext]_pvars PROVE PersistenceInv'
  OBVIOUS
<1>1. CASE PNext
  BY <1>1, PTypeStep, LaunchStep, TemplatesStep, MemoryStep, TimesStep, AnswerStep, RestoredStep
     DEF PersistenceInv
<1>2. CASE UNCHANGED pvars
  <2>1. PTypeOK'
    BY <1>2 DEF PersistenceInv, PTypeOK, pvars, deviceVars, processVars
  <2>2. LaunchInv' /\ AnswerInv' /\ TimesInv'
    BY <1>2 DEF PersistenceInv, LaunchInv, AnswerInv, TimesInv, pvars, deviceVars, processVars
  <2>3. TemplatesInv'
    BY <1>2 DEF PersistenceInv, TemplatesInv, pvars, deviceVars, processVars
  <2>4. MemoryInv'
    BY <1>2 DEF PersistenceInv, MemoryInv, pvars, deviceVars, processVars
  <2>5. RestoredInv'
    BY <1>2 DEF PersistenceInv, RestoredInv, pvars, deviceVars, processVars
  <2> QED BY <2>1, <2>2, <2>3, <2>4, <2>5 DEF PersistenceInv
<1> QED BY <1>1, <1>2

LEMMA PersistenceAlways == PSpec => []PersistenceInv
BY PersistenceInit, PersistenceStep, PTL DEF PSpec

\* The types of the two stores, the queue and the process.
THEOREM PersistenceTypeCorrect == PSpec => []PTypeOK
<1>1. PersistenceInv => PTypeOK
  BY DEF PersistenceInv
<1> QED BY <1>1, PersistenceAlways, PTL

\* No table, on disk or in memory, ever mixes the entries of two templates, although
\* its rows are written one by one and the process may die between any two.
THEOREM TablesAreOfOneTemplate == PSpec => []OneTemplatePerTable
<1>1. PersistenceInv => OneTemplatePerTable
  BY DEF PersistenceInv, TemplatesInv, OneTemplatePerTable
<1> QED BY <1>1, PersistenceAlways, PTL

\* Once the waiting statements have run the database holds what is in memory, for
\* every table, every key and the apply time.
THEOREM DatabaseCatchesUp == PSpec => []WriteBehind
<1>1. ASSUME PersistenceInv, phase = "ready", isOpen, load = "done",
             NEW t \in Tables, NEW k \in Keys
      PROVE  RowCatchesUp(t, k)
  <2>1. CatchesUp(statements, stored[t][k], content[t][k], t, k)
    BY <1>1 DEF PersistenceInv, MemoryInv
  <2> QED BY <2>1 DEF CatchesUp, RowCatchesUp, IsLast
<1>2. ASSUME PersistenceInv, phase = "ready", isOpen PROVE ApplyTimeCatchesUp
  <2>1. TimeCatchesUp(statements, storedApply, applyTime)
    BY <1>2 DEF PersistenceInv, MemoryInv
  <2> QED BY <2>1 DEF TimeCatchesUp, ApplyTimeCatchesUp, IsLast
<1>3. PersistenceInv => WriteBehind
  BY <1>1, <1>2 DEF WriteBehind
<1> QED BY <1>3, PersistenceAlways, PTL

\* Unless work was lost, what a restart brings back is complete and is what the stored
\* ETag names, and an activation that is skipped as done has been done.
THEOREM RestoredContentIsTagged == PSpec => []TagMatchesContent
<1>1. ASSUME PersistenceInv, AtRest, ~lostWork
      PROVE  Agrees(content, applyTime, tag, tagTime)
  BY <1>1 DEF PersistenceInv, RestoredInv, AtRest
<1>2. PersistenceInv => TagMatchesContent
  BY <1>1 DEF TagMatchesContent, Agrees
<1> QED BY <1>2, PersistenceAlways, PTL

=============================================================================
