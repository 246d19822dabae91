--------------------- MODULE MessageStoreMigrationProofs ---------------------
(***************************************************************************)
(* Proofs about MessageStoreMigration: for any messages, batch size and    *)
(* number of workers that run beside each other, with any number of        *)
(* failures and live writes.                                               *)
(***************************************************************************)
EXTENDS MessageStoreMigration, FiniteSetTheorems, TLAPS

-----------------------------------------------------------------------------
(* The inductive invariant.                                                *)

All == Range(Columns)

RowSets == UNION {[S -> Row] : S \in SUBSET Hashes}

Database == [
    cols: SUBSET All, record: BOOLEAN, rows: RowSets, state: State \cup {NoState},
    source: BOOLEAN, media: MediaState, entries: SUBSET (1..MediaRows), keys: SUBSET (1..MediaRows),
    recalled: SUBSET PrivateIds]

WorkerRec == [
    pc: Pcs, cancelled: BOOLEAN, todo: SUBSET (1..4), current: BOOLEAN, media: MediaState,
    st: State \cup {NoState}, new: State \cup {NoState}, batch: RowSets]

Task == [cur: Slots \cup {None}, store: BOOLEAN, done: BOOLEAN]

\* What a classified row says is true.
Content(h, r) ==
    /\ r.sa = r.real
    /\ h \in PrivateIds /\ r.data # "null" => r.dir

\* A row is classified, or its content still tells what it is.
RowSound(h, r) == IF r.ver = 1 THEN Content(h, r) ELSE r.real = Truth(h, r)

Versioned(d) == "classification_version" \in d.cols

\* No row is left to classify.
Finished(d) == Versioned(d) /\ Pending(d.rows) = {}

\* As far as a cursor says that the legacy media were copied, they were.
Copied(d, md) ==
    d.source =>
        /\ md.phase = "entries" => 1..md.cursor \subseteq d.entries
        /\ md.phase \in {"keys", "complete"} => 1..MediaRows \subseteq d.entries
        /\ md.phase = "keys" => 1..md.cursor \subseteq d.keys
        /\ md.phase = "complete" => 1..MediaRows \subseteq d.keys

\* The database can be used.
Prepared(d) ==
    /\ d.cols = All
    /\ d.source => d.entries = 1..MediaRows /\ d.keys = 1..MediaRows

\* A database.  Before rows have versions, all are legacy rows, and right if a
\* record says that they were classified.
DbSound(d) ==
    /\ d \in Database
    /\ \A h \in DOMAIN d.rows : RowSound(h, d.rows[h])
    /\ ~Versioned(d) => \A h \in DOMAIN d.rows :
                            d.rows[h].ver = 0 /\ (d.record => Content(h, d.rows[h]))
    /\ Copied(d, d.media)
    /\ d.state.phase = "complete" => Finished(d)

Migrating == {"insert", "loop", "read", "commit", "count", "persist"}

\* A worker: what it remembers of the database has not been undone.
WorkerSound(d, v) ==
    /\ v \in WorkerRec
    /\ v.current => d.record
    /\ v.pc = "alter" => \A i \in 1..4 : Columns[i] \in d.cols \/ i \in v.todo
    /\ v.pc = "copy" => d.cols = All /\ Copied(d, v.media)
    /\ v.pc \in {"ready", "load"} \cup Migrating => Prepared(d)
    /\ v.pc \in Migrating => v.st \in State
    /\ v.pc = "persist" => v.new \in State
    /\ v.pc = "commit" => DOMAIN v.batch # {}
    /\ v.st.phase = "complete" \/ v.new.phase = "complete" => Finished(d)

TaskSound(d, t) ==
    /\ t \in Task
    /\ t.store => Prepared(d)
    /\ t.done => Finished(d)

Bounded == faults \in 0..Faults /\ writes \in 0..Writes

WorkersSound(d, ww) == ww \in [Slots -> WorkerRec] /\ \A k \in Slots : WorkerSound(d, ww[k])

IInv == DbSound(db) /\ WorkersSound(db, w) /\ TaskSound(db, task) /\ Bounded

-----------------------------------------------------------------------------
(* Sets and rows.                                                          *)

\* A finite set of numbers has a greatest element: take the number with the
\* fewest above it.
LEMMA MaxExists ==
    ASSUME NEW S \in SUBSET Nat, IsFiniteSet(S), S # {}
    PROVE  Max(S) \in S
<1> DEFINE Above(x) == {y \in S : y > x}
           T == {Above(x) : x \in S}
<1>1. T \subseteq FiniteSubsetsOf(S) /\ T # {}
  <2>1. ASSUME NEW x \in S PROVE Above(x) \in FiniteSubsetsOf(S)
    <3>1. Above(x) \in SUBSET S
      OBVIOUS
    <3>2. IsFiniteSet(Above(x))
      BY <3>1, FS_Subset
    <3> QED BY <3>1, <3>2 DEF FiniteSubsetsOf
  <2> QED BY <2>1
<1>2. IsWellFoundedOn(StrictSubsetOrdering(S), FiniteSubsetsOf(S))
  BY FS_StrictSubsetOrderingWellFounded
<1>3. PICK A \in T : \A B \in T : ~(<<B, A>> \in StrictSubsetOrdering(S))
  <2> HIDE DEF T
  <2> QED BY <1>1, <1>2, WFMin
<1>4. PICK x \in S : A = Above(x)
  OBVIOUS
<1>5. \A y \in S : x >= y
  <2> SUFFICES ASSUME NEW y \in S, y > x PROVE FALSE
    OBVIOUS
  <2>1. x \in Nat /\ y \in Nat
    OBVIOUS
  <2>2. \A z \in S : z > y => z > x
    BY <2>1
  <2>3. Above(y) \subseteq Above(x) /\ Above(y) \in SUBSET S /\ Above(x) \in SUBSET S
    BY <2>2
  <2>4. y \in Above(x) /\ y \notin Above(y)
    BY <2>1
  <2>5. PICK P : P = <<Above(y), A>>
    OBVIOUS
  <2>6. P[1] = Above(y) /\ P[2] = A /\ P \in (SUBSET S) \X (SUBSET S)
    BY <1>4, <2>3, <2>5
  <2>7. P \in StrictSubsetOrdering(S)
    <3> HIDE DEF Above
    <3> QED BY <1>4, <2>3, <2>4, <2>6 DEF StrictSubsetOrdering
  <2> QED BY <1>3, <2>5, <2>7
<1> QED BY <1>5 DEF Max

\* The first of the columns that are missing.
LEMMA MinColumn ==
    ASSUME NEW S \in SUBSET (1..4), S # {}
    PROVE  Min(S) \in S
<1>1. \E x \in S : \A y \in S : x <= y
  <2>1. CASE 1 \in S
    BY <2>1
  <2>2. CASE 1 \notin S /\ 2 \in S
    BY <2>2
  <2>3. CASE 1 \notin S /\ 2 \notin S /\ 3 \in S
    BY <2>3
  <2>4. CASE 1 \notin S /\ 2 \notin S /\ 3 \notin S
    <3>1. \A y \in S : y = 4
      BY <2>4
    <3>2. PICK x : x \in S
      OBVIOUS
    <3>3. \A y \in S : x <= y
      BY <3>1, <3>2
    <3> QED BY <3>2, <3>3
  <2> QED BY <2>1, <2>2, <2>3, <2>4
<1> QED BY <1>1 DEF Min

\* The columns.
LEMMA ColumnNames ==
    /\ DOMAIN Columns = 1..4 /\ \A i \in 1..4 : Columns[i] \in All
    /\ \A c \in All : \E i \in 1..4 : Columns[i] = c
    /\ All = {"media_data", "sequence_authoritative", "private_direction", "classification_version"}
<1>1. DOMAIN Columns = 1..4
  BY DEF Columns
<1>2. /\ Columns[1] = "media_data" /\ Columns[2] = "sequence_authoritative"
      /\ Columns[3] = "private_direction" /\ Columns[4] = "classification_version"
  BY DEF Columns
<1>3. All = {Columns[i] : i \in 1..4}
  BY <1>1 DEF All, Range
<1>4. \A i \in 1..4 : i = 1 \/ i = 2 \/ i = 3 \/ i = 4
  OBVIOUS
<1> QED BY <1>1, <1>2, <1>3, <1>4

\* The rows are a function of some of the hashes.
LEMMA RowSetsAre ==
    ASSUME NEW f
    PROVE  /\ f \in RowSets => DOMAIN f \subseteq Hashes /\ \A h \in DOMAIN f : f[h] \in Row
           /\ f \in RowSets => IsFiniteSet(DOMAIN f) /\ DOMAIN f \subseteq Nat
<1>1. f \in RowSets => DOMAIN f \subseteq Hashes /\ \A h \in DOMAIN f : f[h] \in Row
  BY DEF RowSets
<1> QED BY <1>1, HashesAssumption, FS_Subset

\* And any such function is.
LEMMA RowSet ==
    ASSUME NEW S \in SUBSET Hashes, NEW f \in [S -> Row]
    PROVE  f \in RowSets /\ DOMAIN f = S
BY DEF RowSets

\* No rows.
LEMMA NoRows == <<>> \in RowSets /\ DOMAIN <<>> = {}
<1>1. <<>> \in [{} -> Row]
  OBVIOUS
<1> QED BY <1>1, RowSet

-----------------------------------------------------------------------------
(* What a step may do to the database: nothing that was known is undone.   *)

Grows(d, e) ==
    /\ e.record = d.record /\ e.source = d.source
    /\ d.cols \subseteq e.cols /\ d.entries \subseteq e.entries /\ d.keys \subseteq e.keys
    /\ Versioned(d) => Pending(e.rows) \subseteq Pending(d.rows)

\* A database that stays the same.
LEMMA GrowsSame == \A d : Grows(d, d)
BY DEF Grows

\* What is finished or prepared stays so.
LEMMA Lasts ==
    ASSUME NEW d, NEW e, d \in Database, e \in Database, Grows(d, e)
    PROVE  /\ Finished(d) => Finished(e)
           /\ Prepared(d) => Prepared(e)
           /\ d.cols = All => e.cols = All
           /\ \A md : Copied(d, md) => Copied(e, md)
<1>1. /\ e.cols \subseteq All /\ e.entries \subseteq 1..MediaRows /\ e.keys \subseteq 1..MediaRows
  BY DEF Database
<1>2. Finished(d) => Finished(e)
  BY DEF Finished, Versioned, Grows
<1>3. (Prepared(d) => Prepared(e)) /\ (d.cols = All => e.cols = All)
  BY <1>1 DEF Prepared, Grows
<1>4. \A md : Copied(d, md) => Copied(e, md)
  BY DEF Copied, Grows
<1> QED BY <1>2, <1>3, <1>4

\* A worker that does not move.
LEMMA WorkerLasts ==
    ASSUME NEW d, NEW e, d \in Database, e \in Database, Grows(d, e), NEW v, WorkerSound(d, v)
    PROVE  WorkerSound(e, v)
<1>1. /\ Finished(d) => Finished(e)
      /\ Prepared(d) => Prepared(e)
      /\ d.cols = All => e.cols = All
      /\ \A md : Copied(d, md) => Copied(e, md)
  BY Lasts
<1>2. e.record = d.record /\ d.cols \subseteq e.cols
  BY DEF Grows
<1> QED BY <1>1, <1>2 DEF WorkerSound

\* The manager's side, when it does not change.
LEMMA TaskLasts ==
    ASSUME NEW d, NEW e, d \in Database, e \in Database, Grows(d, e), NEW t, TaskSound(d, t)
    PROVE  TaskSound(e, t)
BY Lasts DEF TaskSound

\* One worker moves.
LEMMA WorkersLast ==
    ASSUME NEW d, NEW e, d \in Database, e \in Database, Grows(d, e), NEW ww, WorkersSound(d, ww)
    PROVE  /\ WorkersSound(e, ww)
           /\ \A k \in Slots : \A v : WorkerSound(e, v) => WorkersSound(e, [ww EXCEPT ![k] = v])
<1>1. WorkersSound(e, ww)
  BY WorkerLasts DEF WorkersSound
<1>2. ASSUME NEW k \in Slots, NEW v, WorkerSound(e, v)
      PROVE  WorkersSound(e, [ww EXCEPT ![k] = v])
  BY <1>1, <1>2 DEF WorkersSound, WorkerSound
<1> QED BY <1>1, <1>2

\* The invariant of the next state.
LEMMA SoundNext ==
    ASSUME DbSound(db'), WorkersSound(db', w'), TaskSound(db', task'),
           faults' \in 0..Faults, writes' \in 0..Writes
    PROVE  IInv'
BY DEF IInv, DbSound, WorkersSound, TaskSound, Bounded, WorkerSound, Finished, Versioned, Prepared, Copied

\* A step of worker k that leaves the database alone.
LEMMA WorkerMoves ==
    ASSUME IInv, NEW k \in Slots, NEW v, WorkerSound(db, v), w' = [w EXCEPT ![k] = v],
           UNCHANGED <<db, task, faults, writes>>
    PROVE  IInv'
<1>1. db \in Database /\ WorkersSound(db, w) /\ TaskSound(db, task) /\ DbSound(db) /\ Bounded
  BY DEF IInv, DbSound
<1>2. WorkersSound(db, [w EXCEPT ![k] = v])
  BY <1>1, GrowsSame, WorkersLast
<1> QED BY <1>1, <1>2, SoundNext DEF Bounded

\* A worker that is not running.
LEMMA NoWorkerSound == \A d : WorkerSound(d, NoWorker)
<1>1. NoWorker \in WorkerRec
  <2>1. NoState \in State \cup {NoState} /\ <<>> \in RowSets
    BY NoRows
  <2>2. PICK md \in MediaState : md = [phase |-> "entries", cursor |-> 0]
    <3>1. PICK z \in 0..MediaRows : z = 0
      BY BoundsAssumption
    <3>2. [phase |-> "entries", cursor |-> z] \in MediaState
      BY DEF MediaState
    <3> QED BY <3>1, <3>2
  <2>3. "off" \in Pcs
    BY DEF Pcs
  <2> QED BY <2>1, <2>2, <2>3 DEF NoWorker, WorkerRec
<1>2. /\ NoWorker.pc = "off" /\ NoWorker.current = FALSE /\ NoWorker.st = NoState /\ NoWorker.new = NoState
      /\ NoState.phase = "none"
  BY DEF NoWorker, NoState
<1> QED BY <1>1, <1>2 DEF WorkerSound, Migrating

-----------------------------------------------------------------------------
(* The manager and the task.                                               *)

\* The worker is gone.
LEMMA GoneSound ==
    ASSUME IInv, NEW k \in Slots, Gone(k), UNCHANGED <<db, writes>>, faults' \in 0..Faults
    PROVE  IInv'
<1>1. db \in Database /\ WorkersSound(db, w) /\ TaskSound(db, task) /\ DbSound(db) /\ Bounded
  BY DEF IInv, DbSound
<1>2. WorkersSound(db, [w EXCEPT ![k] = NoWorker])
  BY <1>1, GrowsSame, WorkersLast, NoWorkerSound
<1>3. TaskSound(db, task')
  <2>1. TaskSound(db, [task EXCEPT !.cur = None])
    BY <1>1 DEF TaskSound, Task
  <2> QED BY <1>1, <2>1 DEF Gone
<1>4. w' = [w EXCEPT ![k] = NoWorker]
  BY DEF Gone
<1> QED BY <1>1, <1>2, <1>3, <1>4, SoundNext DEF Bounded

\* prepareDatabase.
LEMMA StartStep ==
    ASSUME IInv, NEW k \in Slots, Start(k)
    PROVE  IInv'
<1>1. db \in Database /\ WorkersSound(db, w) /\ TaskSound(db, task) /\ DbSound(db) /\ Bounded
  BY DEF IInv, DbSound
<1> DEFINE v == [NoWorker EXCEPT !.pc = "columns"]
<1>2. WorkerSound(db, v)
  <2>1. WorkerSound(db, NoWorker)
    BY NoWorkerSound
  <2>2. NoWorker \in WorkerRec
    BY <2>1 DEF WorkerSound
  <2>3. /\ v \in WorkerRec /\ v.pc = "columns" /\ v.current = NoWorker.current
        /\ v.st = NoWorker.st /\ v.new = NoWorker.new
    BY <2>2 DEF WorkerRec, Pcs
  <2> HIDE DEF v
  <2> QED BY <2>1, <2>3 DEF WorkerSound, Migrating
<1>3. w' = [w EXCEPT ![k] = v] /\ task' = [task EXCEPT !.cur = k] /\ UNCHANGED <<db, faults, writes>>
  BY DEF Start
<1>4. TaskSound(db, task')
  BY <1>1, <1>3 DEF TaskSound, Task
<1> HIDE DEF v
<1>5. WorkersSound(db, w')
  BY <1>1, <1>2, <1>3, GrowsSame, WorkersLast
<1> QED BY <1>1, <1>3, <1>4, <1>5, SoundNext DEF Bounded

\* onReady.
LEMMA OnReadyStep ==
    ASSUME IInv, NEW k \in Slots, OnReady(k)
    PROVE  IInv'
<1>1. db \in Database /\ WorkersSound(db, w) /\ TaskSound(db, task) /\ DbSound(db) /\ Bounded
  BY DEF IInv, DbSound
<1>2. /\ WorkerSound(db, w[k]) /\ w[k] \in WorkerRec /\ w \in [Slots -> WorkerRec]
      /\ w[k].pc = "ready" /\ Prepared(db)
  BY <1>1 DEF WorkersSound, WorkerSound, OnReady
<1> DEFINE v == [w[k] EXCEPT !.pc = "load"]
<1>3. /\ v \in WorkerRec /\ v.pc = "load" /\ v.current = w[k].current /\ v.st = w[k].st /\ v.new = w[k].new
  BY <1>2 DEF WorkerRec, Pcs
<1>4. w' = [w EXCEPT ![k] = v] /\ task' = [task EXCEPT !.store = TRUE] /\ UNCHANGED <<db, faults, writes>>
  BY <1>2 DEF OnReady
<1> HIDE DEF v
<1>5. WorkerSound(db, v)
  BY <1>2, <1>3 DEF WorkerSound, Migrating
<1>6. TaskSound(db, task')
  BY <1>1, <1>2, <1>4 DEF TaskSound, Task
<1>7. WorkersSound(db, w')
  BY <1>1, <1>4, <1>5, GrowsSame, WorkersLast
<1> QED BY <1>1, <1>4, <1>6, <1>7, SoundNext DEF Bounded

\* No task, and no instance.
LEMMA NoTaskSound == \A d : TaskSound(d, [cur |-> None, store |-> FALSE, done |-> FALSE])
BY DEF TaskSound, Task

\* A number that is below a bound.
LEMMA FaultsCount ==
    ASSUME faults \in 0..Faults, faults < Faults, faults' = faults + 1
    PROVE  faults' \in 0..Faults
BY BoundsAssumption

\* The session closes.
LEMMA CloseStep ==
    ASSUME IInv, Close
    PROVE  IInv'
<1>1. db \in Database /\ WorkersSound(db, w) /\ DbSound(db) /\ Bounded
  BY DEF IInv, DbSound
<1>2. faults' \in 0..Faults /\ UNCHANGED <<db, writes>>
  BY <1>1, FaultsCount DEF Close, Bounded
<1>3. ASSUME NEW k \in Slots
      PROVE  WorkerSound(db, [w[k] EXCEPT !.cancelled = TRUE])
  <2>1. WorkerSound(db, w[k]) /\ w[k] \in WorkerRec
    BY <1>1 DEF WorkersSound, WorkerSound
  <2> DEFINE v == [w[k] EXCEPT !.cancelled = TRUE]
  <2>2. /\ v \in WorkerRec /\ v.pc = w[k].pc /\ v.current = w[k].current /\ v.todo = w[k].todo
        /\ v.media = w[k].media /\ v.st = w[k].st /\ v.new = w[k].new /\ v.batch = w[k].batch
    BY <2>1 DEF WorkerRec
  <2> HIDE DEF v
  <2>3. WorkerSound(db, v)
    BY <2>1, <2>2 DEF WorkerSound
  <2> QED BY <2>3 DEF v
<1>4. WorkersSound(db, w')
  <2>1. w' = [k \in Slots |-> IF k = task.cur THEN [w[k] EXCEPT !.cancelled = TRUE] ELSE w[k]]
    BY DEF Close
  <2>2. ASSUME NEW k \in Slots PROVE WorkerSound(db, w'[k]) /\ w'[k] \in WorkerRec
    <3>1. w'[k] = IF k = task.cur THEN [w[k] EXCEPT !.cancelled = TRUE] ELSE w[k]
      BY <2>1
    <3>2. WorkerSound(db, w'[k])
      BY <1>1, <1>3, <3>1 DEF WorkersSound
    <3> QED BY <3>2 DEF WorkerSound
  <2>3. w' \in [Slots -> WorkerRec]
    BY <2>1, <2>2
  <2> QED BY <2>2, <2>3 DEF WorkersSound
<1>5. TaskSound(db, task')
  BY NoTaskSound DEF Close
<1> QED BY <1>1, <1>2, <1>4, <1>5, SoundNext DEF Bounded

\* The program is killed.
LEMMA CrashStep ==
    ASSUME IInv, Crash
    PROVE  IInv'
<1>1. DbSound(db) /\ Bounded
  BY DEF IInv
<1>2. faults' \in 0..Faults /\ UNCHANGED <<db, writes>>
  BY <1>1, FaultsCount DEF Crash, Bounded
<1>3. WorkersSound(db, w')
  <2>1. NoWorker \in WorkerRec
    BY NoWorkerSound DEF WorkerSound
  <2> QED BY <2>1, NoWorkerSound DEF Crash, WorkersSound
<1>4. TaskSound(db, task')
  BY NoTaskSound DEF Crash
<1> QED BY <1>1, <1>2, <1>3, <1>4, SoundNext DEF Bounded

\* A statement fails.
LEMMA FailStep ==
    ASSUME IInv, NEW k \in Slots, Fail(k)
    PROVE  IInv'
<1>1. faults' \in 0..Faults
  BY FaultsCount DEF IInv, Bounded, Fail
<1> QED BY <1>1, GoneSound DEF Fail

\* A cancelled worker ends.
LEMMA CancelledEndsStep ==
    ASSUME IInv, NEW k \in Slots, CancelledEnds(k)
    PROVE  IInv'
BY GoneSound DEF CancelledEnds, IInv, Bounded

-----------------------------------------------------------------------------
(* The schema and the media.                                               *)

\* A step of worker k that writes the database.
LEMMA WorkerWrites ==
    ASSUME IInv, NEW k \in Slots, NEW v, NEW e, DbSound(e), Grows(db, e), WorkerSound(e, v),
           w' = [w EXCEPT ![k] = v], db' = e, UNCHANGED <<task, faults, writes>>
    PROVE  IInv'
<1>1. db \in Database /\ e \in Database /\ WorkersSound(db, w) /\ TaskSound(db, task) /\ Bounded
  BY DEF IInv, DbSound
<1>2. WorkersSound(e, [w EXCEPT ![k] = v])
  BY <1>1, WorkersLast
<1>3. TaskSound(e, task)
  BY <1>1, TaskLasts
<1> QED BY <1>1, <1>2, <1>3, SoundNext DEF Bounded

\* What is known of a worker.
LEMMA Known ==
    ASSUME IInv, NEW k \in Slots
    PROVE  /\ WorkerSound(db, w[k]) /\ w[k] \in WorkerRec /\ w \in [Slots -> WorkerRec]
           /\ db \in Database /\ DbSound(db)
BY DEF IInv, WorkersSound, WorkerSound, DbSound

\* PRAGMA table_info.
LEMMA ReadColumnsStep ==
    ASSUME IInv, NEW k \in Slots, ReadColumns(k)
    PROVE  IInv'
<1>1. /\ WorkerSound(db, w[k]) /\ w[k] \in WorkerRec /\ w \in [Slots -> WorkerRec] /\ db \in Database
  BY Known
<1>2. PICK t \in SUBSET (1..4) : t = {i \in DOMAIN Columns : Columns[i] \notin db.cols}
  BY ColumnNames
<1>3. PICK c \in BOOLEAN : c = RowsAreCurrent(db)
  BY DEF RowsAreCurrent
<1> DEFINE v == [w[k] EXCEPT !.pc = "alter", !.todo = t, !.current = c]
<1>4. /\ v \in WorkerRec /\ v.pc = "alter" /\ v.todo = t /\ v.current = c
      /\ v.st = w[k].st /\ v.new = w[k].new
  BY <1>1 DEF WorkerRec, Pcs
<1>5. w' = [w EXCEPT ![k] = v] /\ UNCHANGED <<db, task, faults, writes>>
  BY <1>1, <1>2, <1>3 DEF ReadColumns
<1> HIDE DEF v
<1>6. WorkerSound(db, v)
  <2>1. c => db.record
    BY <1>3 DEF RowsAreCurrent
  <2>2. \A i \in 1..4 : Columns[i] \in db.cols \/ i \in t
    BY <1>2, ColumnNames
  <2> QED BY <1>1, <1>4, <2>1, <2>2 DEF WorkerSound, Migrating
<1> QED BY <1>5, <1>6, WorkerMoves

\* ALTER TABLE messages ADD COLUMN.
LEMMA AddColumnStep ==
    ASSUME IInv, NEW k \in Slots, AddColumn(k)
    PROVE  IInv'
<1>1. PICK d : d = db
  OBVIOUS
<1>2. /\ WorkerSound(d, w[k]) /\ w[k] \in WorkerRec /\ w \in [Slots -> WorkerRec] /\ d \in Database /\ DbSound(d)
      /\ w[k].pc = "alter" /\ w[k].todo # {}
  BY <1>1, Known DEF AddColumn
<1>3. PICK i \in 1..4 : i = Min(w[k].todo) /\ i \in w[k].todo
  BY <1>2, MinColumn DEF WorkerRec
<1>4. PICK c \in All : c = Columns[i]
  BY ColumnNames
<1>5. PICK ver \in 0..1 : ver = IF w[k].current THEN 1 ELSE 0
  OBVIOUS
<1>6. CASE c \in d.cols
  <2>1. Gone(k) /\ UNCHANGED <<db, faults, writes>>
    BY <1>1, <1>3, <1>4, <1>6 DEF AddColumn
  <2>2. faults' \in 0..Faults
    BY <2>1 DEF IInv, Bounded
  <2> QED BY <2>1, <2>2, GoneSound
<1>7. CASE c \notin d.cols
  <2> DEFINE q == [h \in DOMAIN d.rows |->
                     IF c = "classification_version" THEN [d.rows[h] EXCEPT !.ver = ver] ELSE d.rows[h]]
             e == [d EXCEPT !.cols = d.cols \cup {c}, !.rows = q]
             v == [w[k] EXCEPT !.todo = w[k].todo \ {i}]
  <2>1. db' = e /\ w' = [w EXCEPT ![k] = v] /\ UNCHANGED <<task, faults, writes>>
    <3>1. /\ db' = [db EXCEPT !.cols = @ \cup {c}, !.rows = [h \in DOMAIN @ |->
                       IF c = "classification_version" THEN [@[h] EXCEPT !.ver = ver] ELSE @[h]]]
          /\ w' = [w EXCEPT ![k].todo = @ \ {i}]
          /\ UNCHANGED <<task, faults, writes>>
      BY <1>1, <1>3, <1>4, <1>5, <1>7 DEF AddColumn
    <3>2. db' = e
      BY <1>1, <1>2, <3>1 DEF Database
    <3> QED BY <1>2, <3>1, <3>2
  <2>2. /\ v \in WorkerRec /\ v.pc = "alter" /\ v.todo = w[k].todo \ {i} /\ v.current = w[k].current
        /\ v.st = w[k].st /\ v.new = w[k].new
    BY <1>2 DEF WorkerRec
  <2>3. DOMAIN d.rows \in SUBSET Hashes /\ \A h \in DOMAIN d.rows : d.rows[h] \in Row
    BY <1>2, RowSetsAre DEF Database
  <2>4. ASSUME NEW h \in DOMAIN d.rows
        PROVE  /\ q[h] \in Row
               /\ c # "classification_version" => q[h] = d.rows[h]
               /\ c = "classification_version" =>
                    /\ q[h].ver = ver /\ q[h].sa = d.rows[h].sa /\ q[h].dir = d.rows[h].dir
                    /\ q[h].cs = d.rows[h].cs /\ q[h].data = d.rows[h].data /\ q[h].real = d.rows[h].real
    <3>1. d.rows[h] \in Row
      BY <2>3
    <3>2. q[h] = IF c = "classification_version" THEN [d.rows[h] EXCEPT !.ver = ver] ELSE d.rows[h]
      OBVIOUS
    <3> HIDE DEF q
    <3> QED BY <3>1, <3>2 DEF Row
  <2>5. q \in RowSets /\ DOMAIN q = DOMAIN d.rows
    <3>1. q \in [DOMAIN d.rows -> Row]
      BY <2>4
    <3> HIDE DEF q
    <3> QED BY <2>3, <3>1, RowSet
  <2> HIDE DEF q, v
  <2>6. /\ e \in Database /\ e.cols = d.cols \cup {c} /\ e.rows = q /\ e.record = d.record
        /\ e.source = d.source /\ e.media = d.media /\ e.entries = d.entries /\ e.keys = d.keys
        /\ e.state = d.state
    <3>1. d.cols \cup {c} \in SUBSET All
      BY <1>2 DEF Database
    <3> QED BY <1>2, <2>5, <3>1 DEF Database
  <2> HIDE DEF e
  <2>7. c # "classification_version" => Pending(e.rows) = Pending(d.rows) /\ (Versioned(e) <=> Versioned(d))
    BY <2>4, <2>5, <2>6 DEF Pending, Versioned
  <2>8. c = "classification_version" => ~Versioned(d) /\ Versioned(e)
    BY <1>7, <2>6 DEF Versioned
  <2>9. Grows(d, e)
    BY <2>6, <2>7, <2>8 DEF Grows
  <2>10. DbSound(e)
    <3>1. ASSUME NEW h \in DOMAIN e.rows
          PROVE  /\ RowSound(h, e.rows[h])
                 /\ ~Versioned(e) => e.rows[h].ver = 0 /\ (e.record => Content(h, e.rows[h]))
      <4>1. CASE c # "classification_version"
        BY <1>2, <2>4, <2>5, <2>6, <2>7, <4>1 DEF DbSound
      <4>2. CASE c = "classification_version"
        <5>1. /\ d.rows[h].ver = 0 /\ RowSound(h, d.rows[h])
              /\ d.record => Content(h, d.rows[h])
          BY <1>2, <2>5, <2>6, <2>8, <4>2 DEF DbSound
        <5>2. ver = 1 => d.record
          BY <1>2, <1>5 DEF WorkerSound
        <5>3. /\ e.rows[h].ver = ver /\ e.rows[h].sa = d.rows[h].sa /\ e.rows[h].dir = d.rows[h].dir
              /\ e.rows[h].cs = d.rows[h].cs /\ e.rows[h].data = d.rows[h].data
              /\ e.rows[h].real = d.rows[h].real
          BY <2>4, <2>5, <2>6, <4>2
        <5>4. Content(h, d.rows[h]) => Content(h, e.rows[h])
          BY <5>3 DEF Content
        <5>5. d.rows[h].real = Truth(h, d.rows[h]) => e.rows[h].real = Truth(h, e.rows[h])
          BY <5>3 DEF Truth
        <5>6. RowSound(h, e.rows[h])
          BY <5>1, <5>2, <5>3, <5>4, <5>5 DEF RowSound
        <5> QED BY <2>8, <4>2, <5>6
      <4> QED BY <4>1, <4>2
    <3>2. Copied(e, e.media) /\ (e.state.phase = "complete" => Finished(e))
      BY <1>2, <2>6, <2>9, Lasts DEF DbSound
    <3> QED BY <2>6, <3>1, <3>2 DEF DbSound
  <2>11. WorkerSound(e, v)
    <3>1. WorkerSound(e, w[k])
      BY <1>2, <2>6, <2>9, WorkerLasts
    <3>2. \A j \in 1..4 : Columns[j] \in e.cols \/ j \in v.todo
      BY <1>2, <1>4, <2>2, <2>6 DEF WorkerSound
    <3> QED BY <2>2, <3>1, <3>2 DEF WorkerSound, Migrating
  <2> QED BY <1>1, <2>1, <2>9, <2>10, <2>11, WorkerWrites
<1> QED BY <1>6, <1>7

\* The cursor of the media is written, with the rows it stands for.
LEMMA MediaWritten ==
    ASSUME NEW d, DbSound(d), NEW e \in Database,
           e.cols = d.cols, e.rows = d.rows, e.record = d.record, e.source = d.source, e.state = d.state,
           d.entries \subseteq e.entries, d.keys \subseteq e.keys, Copied(e, e.media)
    PROVE  DbSound(e) /\ Grows(d, e)
<1>1. Grows(d, e)
  BY DEF Grows
<1>2. DbSound(e)
  BY DEF DbSound, Finished, Versioned
<1> QED BY <1>1, <1>2

\* migrateLegacyMedia reads where it was.
LEMMA LoadMediaStep ==
    ASSUME IInv, NEW k \in Slots, LoadMedia(k)
    PROVE  IInv'
<1>1. PICK d : d = db
  OBVIOUS
<1>2. /\ WorkerSound(d, w[k]) /\ w[k] \in WorkerRec /\ w \in [Slots -> WorkerRec] /\ d \in Database /\ DbSound(d)
      /\ w[k].pc = "alter" /\ w[k].todo = {}
  BY <1>1, Known DEF LoadMedia
<1>3. d.cols = All
  <2>1. \A i \in 1..4 : Columns[i] \in d.cols
    BY <1>2 DEF WorkerSound
  <2> QED BY <1>2, <2>1, ColumnNames DEF Database
<1>4. PICK md \in MediaState : md = IF d.source THEN d.media ELSE [d.media EXCEPT !.phase = "complete"]
  <2>1. d.media \in MediaState
    BY <1>2 DEF Database
  <2> QED BY <2>1 DEF MediaState
<1> DEFINE e == [d EXCEPT !.media = md]
           v == [w[k] EXCEPT !.pc = "copy", !.media = md]
<1>5. /\ v \in WorkerRec /\ v.pc = "copy" /\ v.media = md /\ v.current = w[k].current
      /\ v.st = w[k].st /\ v.new = w[k].new
  BY <1>2 DEF WorkerRec, Pcs
<1>6. db' = e /\ w' = [w EXCEPT ![k] = v] /\ UNCHANGED <<task, faults, writes>>
  BY <1>1, <1>2, <1>4 DEF LoadMedia
<1> HIDE DEF v
<1>7. /\ e \in Database /\ e.cols = d.cols /\ e.rows = d.rows /\ e.record = d.record
      /\ e.source = d.source /\ e.media = md /\ e.entries = d.entries /\ e.keys = d.keys
      /\ e.state = d.state
  BY <1>2 DEF Database
<1> HIDE DEF e
<1>8. Copied(e, md)
  BY <1>2, <1>4, <1>7 DEF DbSound, Copied
<1>9. DbSound(e) /\ Grows(d, e)
  BY <1>2, <1>7, <1>8, MediaWritten
<1>10. WorkerSound(e, v)
  <2>1. WorkerSound(e, w[k])
    BY <1>2, <1>7, <1>9, WorkerLasts
  <2> QED BY <1>3, <1>5, <1>7, <1>8, <2>1 DEF WorkerSound, Migrating
<1> QED BY <1>1, <1>6, <1>9, <1>10, WorkerWrites

\* A row of media is copied, a table has come to its end, or all is done.
LEMMA CopyMediaStep ==
    ASSUME IInv, NEW k \in Slots, CopyMedia(k)
    PROVE  IInv'
<1>1. PICK d : d = db
  OBVIOUS
<1>2. /\ WorkerSound(d, w[k]) /\ w[k] \in WorkerRec /\ w \in [Slots -> WorkerRec] /\ d \in Database /\ DbSound(d)
      /\ w[k].pc = "copy" /\ d.cols = All /\ Copied(d, w[k].media)
  BY <1>1, Known DEF CopyMedia, WorkerSound
<1>3. PICK md \in MediaState : md = w[k].media
  BY <1>2 DEF WorkerRec
<1>4. md.cursor \in 0..MediaRows /\ MediaRows \in Nat /\ md.phase \in {"entries", "keys", "complete"}
  BY BoundsAssumption DEF MediaState
<1>5. CASE md.phase = "complete"
  <2> DEFINE v == [w[k] EXCEPT !.pc = "ready"]
  <2>1. /\ v \in WorkerRec /\ v.pc = "ready" /\ v.current = w[k].current /\ v.st = w[k].st /\ v.new = w[k].new
    BY <1>2 DEF WorkerRec, Pcs
  <2>2. w' = [w EXCEPT ![k] = v] /\ UNCHANGED <<db, task, faults, writes>>
    BY <1>1, <1>2, <1>3, <1>5 DEF CopyMedia
  <2> HIDE DEF v
  <2>3. Prepared(d)
    BY <1>2, <1>3, <1>5 DEF Prepared, Copied, Database
  <2>4. WorkerSound(d, v)
    BY <1>2, <2>1, <2>3 DEF WorkerSound, Migrating
  <2> QED BY <1>1, <2>2, <2>4, WorkerMoves
<1>6. CASE md.phase # "complete"
  <2>1. PICK nx : nx = NextMedia(md)
    OBVIOUS
  <2>2. /\ md.cursor < MediaRows => nx = [md EXCEPT !.cursor = md.cursor + 1]
        /\ ~(md.cursor < MediaRows) =>
              nx = [phase |-> IF md.phase = "entries" THEN "keys" ELSE "complete", cursor |-> 0]
    BY <2>1 DEF NextMedia
  <2>3. nx \in MediaState /\ (md.cursor < MediaRows => nx.phase = md.phase /\ nx.cursor = md.cursor + 1)
        /\ (~(md.cursor < MediaRows) =>
              nx.phase = (IF md.phase = "entries" THEN "keys" ELSE "complete") /\ nx.cursor = 0)
    <3>1. CASE md.cursor < MediaRows
      <4>1. PICK cc \in 0..MediaRows : cc = md.cursor + 1
        BY <1>4, <3>1
      <4> QED BY <2>2, <3>1, <4>1 DEF MediaState
    <3>2. CASE ~(md.cursor < MediaRows)
      <4>1. PICK z \in 0..MediaRows : z = 0
        BY <1>4
      <4>2. PICK ph \in {"entries", "keys", "complete"} : ph = IF md.phase = "entries" THEN "keys" ELSE "complete"
        OBVIOUS
      <4>3. nx = [phase |-> ph, cursor |-> z]
        BY <2>2, <3>2, <4>1, <4>2
      <4> QED BY <3>2, <4>1, <4>2, <4>3 DEF MediaState
    <3> QED BY <3>1, <3>2
  <2> DEFINE copied(p) == IF md.phase = p /\ md.cursor < MediaRows THEN {md.cursor + 1} ELSE {}
             en == d.entries \cup copied("entries")
             ke == d.keys \cup copied("keys")
             e == [d EXCEPT !.media = nx, !.entries = en, !.keys = ke]
             v == [w[k] EXCEPT !.media = nx]
  <2>4. en \in SUBSET (1..MediaRows) /\ ke \in SUBSET (1..MediaRows)
    <3>1. d.entries \subseteq 1..MediaRows /\ d.keys \subseteq 1..MediaRows
      BY <1>2 DEF Database
    <3>2. md.cursor < MediaRows => md.cursor + 1 \in 1..MediaRows
      BY <1>4
    <3> QED BY <3>1, <3>2
  <2>5. /\ v \in WorkerRec /\ v.pc = "copy" /\ v.media = nx /\ v.current = w[k].current
        /\ v.st = w[k].st /\ v.new = w[k].new
    BY <1>2, <2>3 DEF WorkerRec
  <2>6. db' = e /\ w' = [w EXCEPT ![k] = v] /\ UNCHANGED <<task, faults, writes>>
    <3>1. /\ db' = [db EXCEPT !.media = nx, !.entries = @ \cup copied("entries"), !.keys = @ \cup copied("keys")]
          /\ w' = [w EXCEPT ![k].media = nx] /\ UNCHANGED <<task, faults, writes>>
      BY <1>3, <1>6, <2>1 DEF CopyMedia
    <3> QED BY <1>1, <1>2, <3>1 DEF Database
  <2> HIDE DEF v
  <2>7. d.source =>
          /\ nx.phase = "entries" => 1..nx.cursor \subseteq en
          /\ nx.phase \in {"keys", "complete"} => 1..MediaRows \subseteq en
          /\ nx.phase = "keys" => 1..nx.cursor \subseteq ke
          /\ nx.phase = "complete" => 1..MediaRows \subseteq ke
    <3>1. CASE md.cursor < MediaRows
      <4>1. 1..(md.cursor + 1) \subseteq (1..md.cursor) \cup {md.cursor + 1}
        BY <1>4
      <4> QED BY <1>2, <1>3, <1>6, <2>3, <3>1, <4>1 DEF Copied
    <3>2. CASE ~(md.cursor < MediaRows)
      <4>1. md.cursor = MediaRows
        BY <1>4, <3>2
      <4>2. 1..nx.cursor = {}
        BY <2>3, <3>2
      <4> QED BY <1>2, <1>3, <1>4, <1>6, <2>3, <3>2, <4>1, <4>2 DEF Copied
    <3> QED BY <3>1, <3>2
  <2>8. d.entries \subseteq en /\ d.keys \subseteq ke
    OBVIOUS
  <2> HIDE DEF en, ke
  <2>9. /\ e \in Database /\ e.cols = d.cols /\ e.rows = d.rows /\ e.record = d.record
        /\ e.source = d.source /\ e.media = nx /\ e.entries = en /\ e.keys = ke /\ e.state = d.state
    BY <1>2, <2>3, <2>4 DEF Database
  <2> HIDE DEF e
  <2>10. Copied(e, nx) /\ DbSound(e) /\ Grows(d, e)
    <3>1. Copied(e, nx)
      BY <2>7, <2>9 DEF Copied
    <3> QED BY <1>2, <2>8, <2>9, <3>1, MediaWritten
  <2>11. WorkerSound(e, v)
    <3>1. WorkerSound(e, w[k])
      BY <1>2, <2>10, WorkerLasts DEF DbSound
    <3> QED BY <1>2, <2>5, <2>9, <2>10, <3>1 DEF WorkerSound, Migrating
  <2> QED BY <1>1, <2>6, <2>10, <2>11, WorkerWrites
<1> QED BY <1>5, <1>6

-----------------------------------------------------------------------------
(* MessageStoreMigrator.                                                   *)

\* A state of the migration that begins or starts over.
LEMMA BeginState ==
    ASSUME NEW d, d \in Database, Versioned(d), NEW st,
           st = [phase |-> IF Cardinality(Pending(d.rows)) = 0 THEN "complete" ELSE "migrating", cursor |-> 0]
    PROVE  st \in State /\ (st.phase = "complete" => Finished(d))
<1>1. PICK ph \in {"migrating", "complete"} :
        ph = IF Cardinality(Pending(d.rows)) = 0 THEN "complete" ELSE "migrating"
  OBVIOUS
<1>2. PICK z \in Hashes \cup {0} : z = 0
  OBVIOUS
<1>3. st = [phase |-> ph, cursor |-> z]
  BY <1>1, <1>2
<1>4. st \in State /\ st.phase = ph
  BY <1>3 DEF State
<1>5. IsFiniteSet(Pending(d.rows))
  <2>1. IsFiniteSet(DOMAIN d.rows)
    BY RowSetsAre DEF Database
  <2> QED BY <2>1, FS_Subset DEF Pending
<1>6. Cardinality(Pending(d.rows)) = 0 => Pending(d.rows) = {}
  BY <1>5, FS_EmptySet
<1> QED BY <1>1, <1>4, <1>6 DEF Finished

\* The last column is one of all.
LEMMA PreparedVersioned == \A d : Prepared(d) => Versioned(d)
BY ColumnNames DEF Prepared, Versioned

\* loadOrCreateState.
LEMMA LoadStep ==
    ASSUME IInv, NEW k \in Slots, Load(k)
    PROVE  IInv'
<1>1. PICK d : d = db
  OBVIOUS
<1>2. /\ WorkerSound(d, w[k]) /\ w[k] \in WorkerRec /\ w \in [Slots -> WorkerRec] /\ d \in Database /\ DbSound(d)
      /\ w[k].pc = "load" /\ Prepared(d)
  BY <1>1, Known DEF Load, WorkerSound
<1>3. PICK st : st = IF d.state # NoState THEN d.state
                     ELSE [phase |-> IF Cardinality(Pending(d.rows)) = 0 THEN "complete" ELSE "migrating",
                           cursor |-> 0]
  OBVIOUS
<1>4. st \in State /\ (st.phase = "complete" => Finished(d))
  <2>1. CASE d.state # NoState
    <3>1. st = d.state /\ d.state \in State \cup {NoState}
      BY <1>2, <1>3, <2>1 DEF Database
    <3> QED BY <1>2, <2>1, <3>1 DEF DbSound
  <2>2. CASE d.state = NoState
    BY <1>2, <1>3, <2>2, BeginState, PreparedVersioned
  <2> QED BY <2>1, <2>2
<1>5. PICK p \in {"read", "insert"} : p = IF d.state # NoState THEN "read" ELSE "insert"
  OBVIOUS
<1> DEFINE v == [w[k] EXCEPT !.pc = p, !.st = st]
<1>6. /\ v \in WorkerRec /\ v.pc = p /\ v.st = st /\ v.current = w[k].current /\ v.new = w[k].new
  BY <1>2, <1>4 DEF WorkerRec, Pcs
<1>7. w' = [w EXCEPT ![k] = v] /\ UNCHANGED <<db, task, faults, writes>>
  <2>1. w' = [w EXCEPT ![k].pc = p, ![k].st = st] /\ UNCHANGED <<db, task, faults, writes>>
    BY <1>1, <1>3, <1>5 DEF Load
  <2> QED BY <1>2, <2>1
<1> HIDE DEF v
<1>8. WorkerSound(d, v)
  BY <1>2, <1>4, <1>6 DEF WorkerSound, Migrating
<1> QED BY <1>1, <1>7, <1>8, WorkerMoves

\* The state of the migration is written.
LEMMA PutState ==
    ASSUME NEW d, DbSound(d), NEW st \in State \cup {NoState}, st.phase = "complete" => Finished(d)
    PROVE  LET e == [d EXCEPT !.state = st]
           IN  DbSound(e) /\ Grows(d, e)
<1>1. PICK e : e = [d EXCEPT !.state = st]
  OBVIOUS
<1>2. /\ e \in Database /\ e.cols = d.cols /\ e.rows = d.rows /\ e.record = d.record
      /\ e.source = d.source /\ e.media = d.media /\ e.entries = d.entries /\ e.keys = d.keys
      /\ e.state = st
  BY <1>1 DEF Database, DbSound
<1>3. Grows(d, e)
  BY <1>2 DEF Grows
<1>4. DbSound(e)
  BY <1>2 DEF DbSound, Finished, Versioned, Copied
<1> QED BY <1>1, <1>3, <1>4

\* The INSERT of a new state.
LEMMA InsertStep ==
    ASSUME IInv, NEW k \in Slots, Insert(k)
    PROVE  IInv'
<1>1. PICK d : d = db
  OBVIOUS
<1>2. /\ WorkerSound(d, w[k]) /\ w[k] \in WorkerRec /\ w \in [Slots -> WorkerRec] /\ d \in Database /\ DbSound(d)
      /\ w[k].pc = "insert"
  BY <1>1, Known DEF Insert
<1>3. CASE d.state # NoState
  <2>1. Gone(k) /\ UNCHANGED <<db, faults, writes>>
    BY <1>1, <1>3 DEF Insert
  <2>2. faults' \in 0..Faults
    BY <2>1 DEF IInv, Bounded
  <2> QED BY <2>1, <2>2, GoneSound
<1>4. CASE d.state = NoState
  <2> DEFINE v == [w[k] EXCEPT !.pc = "read"]
  <2>1. PICK e : e = [d EXCEPT !.state = w[k].st]
    OBVIOUS
  <2>2. db' = e /\ w' = [w EXCEPT ![k] = v] /\ UNCHANGED <<task, faults, writes>>
    BY <1>1, <1>2, <1>4, <2>1 DEF Insert
  <2>3. DbSound(e) /\ Grows(d, e)
    BY <1>2, <2>1, PutState DEF WorkerSound, WorkerRec
  <2>4. /\ v \in WorkerRec /\ v.pc = "read" /\ v.st = w[k].st /\ v.current = w[k].current /\ v.new = w[k].new
    BY <1>2 DEF WorkerRec, Pcs
  <2> HIDE DEF v
  <2>5. WorkerSound(e, v)
    <3>1. WorkerSound(e, w[k])
      BY <1>2, <2>3, WorkerLasts DEF DbSound
    <3> QED BY <1>2, <2>4, <3>1 DEF WorkerSound, Migrating
  <2> QED BY <1>1, <2>2, <2>3, <2>5, WorkerWrites
<1> QED BY <1>3, <1>4

\* The loop goes on.
LEMMA LoopStep ==
    ASSUME IInv, NEW k \in Slots, Loop(k)
    PROVE  IInv'
<1>1. /\ WorkerSound(db, w[k]) /\ w[k] \in WorkerRec /\ w \in [Slots -> WorkerRec] /\ w[k].pc = "loop"
  BY Known DEF Loop
<1> DEFINE v == [w[k] EXCEPT !.pc = "read"]
<1>2. /\ v \in WorkerRec /\ v.pc = "read" /\ v.st = w[k].st /\ v.current = w[k].current /\ v.new = w[k].new
  BY <1>1 DEF WorkerRec, Pcs
<1>3. w' = [w EXCEPT ![k] = v] /\ UNCHANGED <<db, task, faults, writes>>
  BY <1>1 DEF Loop
<1> HIDE DEF v
<1>4. WorkerSound(db, v)
  BY <1>1, <1>2 DEF WorkerSound, Migrating
<1> QED BY <1>3, <1>4, WorkerMoves

\* Nothing is left to do.
LEMMA CompleteStep ==
    ASSUME IInv, NEW k \in Slots, Complete(k)
    PROVE  IInv'
<1>1. /\ WorkerSound(db, w[k]) /\ db \in Database /\ DbSound(db) /\ w[k].st.phase = "complete"
      /\ WorkersSound(db, w) /\ TaskSound(db, task) /\ Bounded
  BY Known DEF Complete, IInv
<1>2. Finished(db)
  BY <1>1 DEF WorkerSound
<1>3. TaskSound(db, task')
  <2>1. TaskSound(db, [task EXCEPT !.cur = None, !.done = TRUE])
    BY <1>1, <1>2 DEF TaskSound, Task
  <2> QED BY <1>1, <2>1 DEF Complete
<1>4. w' = [w EXCEPT ![k] = NoWorker] /\ UNCHANGED <<db, faults, writes>>
  BY DEF Complete
<1>5. WorkersSound(db, w')
  BY <1>1, <1>4, GrowsSame, WorkersLast, NoWorkerSound
<1> QED BY <1>1, <1>3, <1>4, <1>5, SoundNext DEF Bounded

\* A batch is read.
LEMMA ReadStep ==
    ASSUME IInv, NEW k \in Slots, Read(k)
    PROVE  IInv'
<1>1. /\ WorkerSound(db, w[k]) /\ w[k] \in WorkerRec /\ w \in [Slots -> WorkerRec] /\ db \in Database
      /\ w[k].pc = "read"
  BY Known DEF Read
<1>2. PICK b : b = IF ReadBatch(db.rows, w[k].st.cursor) = {} THEN ReadBatch(db.rows, 0)
                   ELSE ReadBatch(db.rows, w[k].st.cursor)
  OBVIOUS
<1>3. b \subseteq DOMAIN db.rows
  BY <1>2 DEF ReadBatch, Pending
<1>4. PICK f \in RowSets : f = Restrict(db.rows, b) /\ DOMAIN f = b
  <2>1. DOMAIN db.rows \subseteq Hashes /\ \A h \in DOMAIN db.rows : db.rows[h] \in Row
    BY <1>1, RowSetsAre DEF Database
  <2>2. Restrict(db.rows, b) \in [b -> Row] /\ b \in SUBSET Hashes
    BY <1>3, <2>1 DEF Restrict
  <2> QED BY <2>2, RowSet
<1>5. PICK p \in {"count", "commit"} : p = IF b = {} THEN "count" ELSE "commit"
  OBVIOUS
<1> DEFINE v == [w[k] EXCEPT !.batch = f, !.pc = p]
<1>6. /\ v \in WorkerRec /\ v.pc = p /\ v.st = w[k].st /\ v.current = w[k].current /\ v.new = w[k].new
      /\ v.batch = f
  BY <1>1 DEF WorkerRec, Pcs
<1>7. w' = [w EXCEPT ![k] = v] /\ UNCHANGED <<db, task, faults, writes>>
  <2>1. w' = [w EXCEPT ![k].batch = f, ![k].pc = p] /\ UNCHANGED <<db, task, faults, writes>>
    BY <1>2, <1>4, <1>5 DEF Read
  <2> QED BY <1>1, <2>1
<1> HIDE DEF v
<1>8. WorkerSound(db, v)
  BY <1>1, <1>4, <1>5, <1>6 DEF WorkerSound, Migrating
<1> QED BY <1>7, <1>8, WorkerMoves

\* A row is classified by what it is: that it has not changed since the batch
\* was read is what the WHERE of updateRow asks.
LEMMA ClassifySound ==
    ASSUME NEW h \in Hashes, NEW r \in Row, NEW seen \in Row, Unchanged(r, seen), RowSound(h, r)
    PROVE  LET c == [Classify(h, seen) EXCEPT !.real = r.real]
           IN  c \in Row /\ c.ver = 1 /\ RowSound(h, c)
<1>1. /\ seen.sa = r.sa /\ seen.dir = r.dir /\ seen.cs = r.cs /\ seen.data = r.data /\ seen.rich = r.rich
  BY DEF Unchanged
<1>2. r.ver = 0 /\ r.real = Truth(h, r)
  BY DEF Unchanged, Row, RowSound
<1>3. PICK one \in 0..1 : one = 1
  OBVIOUS
<1>4. PICK sa \in BOOLEAN : sa = IF h \in PrivateIds THEN (seen.sa /\ seen.cs)
                                 ELSE (seen.sa /\ seen.data # "placeholder")
  OBVIOUS
<1>5. PICK dir \in BOOLEAN : dir = IF h \in PrivateIds THEN (seen.data # "null") ELSE FALSE
  OBVIOUS
<1>6. Classify(h, seen) = [seen EXCEPT !.sa = sa, !.dir = dir, !.ver = one]
  BY <1>3, <1>4, <1>5 DEF Classify
<1>7. PICK c : c = [[seen EXCEPT !.sa = sa, !.dir = dir, !.ver = one] EXCEPT !.real = r.real]
  OBVIOUS
<1>8. r.real \in BOOLEAN
  BY DEF Row
<1>9. c \in Row /\ c.ver = 1 /\ c.sa = sa /\ c.dir = dir /\ c.data = seen.data /\ c.real = r.real
  BY <1>3, <1>7, <1>8 DEF Row
<1>10. sa = r.real
  BY <1>1, <1>2, <1>4 DEF Truth
<1>11. RowSound(h, c)
  BY <1>5, <1>9, <1>10 DEF RowSound, Content
<1> QED BY <1>6, <1>7, <1>9, <1>11

\* The rows, the state and the tombstones are written, once rows have versions:
\* every row is sound, and none is to be classified that was not before.
LEMMA RowsWritten ==
    ASSUME NEW d, DbSound(d), Versioned(d), NEW e \in Database,
           e.cols = d.cols, e.record = d.record, e.source = d.source, e.media = d.media,
           e.entries = d.entries, e.keys = d.keys,
           \A h \in DOMAIN e.rows : RowSound(h, e.rows[h]), Pending(e.rows) \subseteq Pending(d.rows),
           e.state.phase = "complete" => Finished(d)
    PROVE  DbSound(e) /\ Grows(d, e)
<1>1. Grows(d, e)
  BY DEF Grows
<1>2. Versioned(e) /\ (Finished(d) => Finished(e)) /\ Copied(e, e.media)
  BY DEF Versioned, Finished, DbSound, Copied
<1>3. DbSound(e)
  BY <1>2 DEF DbSound
<1> QED BY <1>1, <1>3

\* The updates of a batch.
LEMMA UpdateRowsSound ==
    ASSUME NEW rows \in RowSets, NEW batch \in RowSets, \A h \in DOMAIN rows : RowSound(h, rows[h])
    PROVE  LET q == UpdateRows(rows, batch)
           IN  /\ q \in RowSets /\ \A h \in DOMAIN q : RowSound(h, q[h])
               /\ Pending(q) \subseteq Pending(rows)
<1>1. /\ DOMAIN rows \in SUBSET Hashes /\ \A h \in DOMAIN rows : rows[h] \in Row
      /\ \A h \in DOMAIN batch : batch[h] \in Row
  BY RowSetsAre
<1> DEFINE q == UpdateRows(rows, batch)
<1>2. ASSUME NEW h \in DOMAIN rows
      PROVE  q[h] \in Row /\ RowSound(h, q[h]) /\ (q[h].ver = 1 \/ q[h] = rows[h])
  <2>1. q[h] = IF h \in DOMAIN batch /\ Unchanged(rows[h], batch[h])
                 THEN [Classify(h, batch[h]) EXCEPT !.real = rows[h].real] ELSE rows[h]
    BY DEF UpdateRows
  <2>2. CASE h \in DOMAIN batch /\ Unchanged(rows[h], batch[h])
    <3>1. h \in Hashes /\ rows[h] \in Row /\ batch[h] \in Row /\ RowSound(h, rows[h])
      BY <1>1, <2>2
    <3>2. PICK c : c = [Classify(h, batch[h]) EXCEPT !.real = rows[h].real]
      OBVIOUS
    <3>3. c \in Row /\ c.ver = 1 /\ RowSound(h, c)
      BY <2>2, <3>1, <3>2, ClassifySound
    <3> QED BY <2>1, <2>2, <3>2, <3>3
  <2>3. CASE ~(h \in DOMAIN batch /\ Unchanged(rows[h], batch[h]))
    BY <1>1, <2>1, <2>3
  <2> QED BY <2>2, <2>3
<1>3. DOMAIN q = DOMAIN rows
  BY DEF UpdateRows
<1>4. q \in [DOMAIN rows -> Row]
  <2>1. q = [h \in DOMAIN rows |-> q[h]]
    BY DEF UpdateRows
  <2> HIDE DEF q
  <2> QED BY <1>2, <2>1
<1> HIDE DEF q
<1>5. q \in RowSets
  BY <1>1, <1>4, RowSet
<1>6. Pending(q) \subseteq Pending(rows)
  BY <1>2, <1>3 DEF Pending
<1>7. /\ q \in RowSets /\ \A h \in DOMAIN q : RowSound(h, q[h])
      /\ Pending(q) \subseteq Pending(rows)
  BY <1>2, <1>3, <1>5, <1>6
<1> QED BY <1>7 DEF q

\* The transaction of a batch.
LEMMA CommitStep ==
    ASSUME IInv, NEW k \in Slots, Commit(k)
    PROVE  IInv'
<1>1. PICK d : d = db
  OBVIOUS
<1>2. /\ WorkerSound(d, w[k]) /\ w[k] \in WorkerRec /\ w \in [Slots -> WorkerRec] /\ d \in Database /\ DbSound(d)
      /\ w[k].pc = "commit"
  BY <1>1, Known DEF Commit
<1>3. PICK batch \in RowSets : batch = w[k].batch
  BY <1>2 DEF WorkerRec
<1>4. PICK c \in Hashes \cup {0} : c = Max(DOMAIN batch)
  <2>1. DOMAIN batch # {}
    BY <1>2, <1>3 DEF WorkerSound
  <2>2. IsFiniteSet(DOMAIN batch) /\ DOMAIN batch \in SUBSET Nat /\ DOMAIN batch \subseteq Hashes
    BY RowSetsAre
  <2>3. Max(DOMAIN batch) \in DOMAIN batch
    BY <2>1, <2>2, MaxExists
  <2> QED BY <2>2, <2>3
<1>5. w[k].st \in State /\ Prepared(d) /\ (w[k].st.phase = "complete" => Finished(d))
  BY <1>2 DEF WorkerSound, Migrating
<1>6. PICK st : st = [w[k].st EXCEPT !.cursor = c]
  OBVIOUS
<1>7. st \in State /\ st.phase = w[k].st.phase
  BY <1>5, <1>6 DEF State
<1>8. PICK p \in {"count", "loop"} : p = IF Cardinality(DOMAIN batch) < BatchSize THEN "count" ELSE "loop"
  OBVIOUS
<1>9. PICK q : q = UpdateRows(d.rows, batch)
  OBVIOUS
<1>10. /\ q \in RowSets /\ \A h \in DOMAIN q : RowSound(h, q[h])
       /\ Pending(q) \subseteq Pending(d.rows)
  BY <1>2, <1>9, UpdateRowsSound DEF DbSound, Database
<1> DEFINE e == [d EXCEPT !.rows = q, !.state = st]
           v == [w[k] EXCEPT !.st = st, !.pc = p]
<1>11. /\ v \in WorkerRec /\ v.pc = p /\ v.st = st /\ v.current = w[k].current /\ v.new = w[k].new
  BY <1>2, <1>7 DEF WorkerRec, Pcs
<1>12. db' = e /\ w' = [w EXCEPT ![k] = v] /\ UNCHANGED <<task, faults, writes>>
  <2>1. /\ db' = [d EXCEPT !.rows = UpdateRows(@, batch), !.state = st]
        /\ w' = [w EXCEPT ![k].st = st, ![k].pc = p] /\ UNCHANGED <<task, faults, writes>>
    BY <1>1, <1>3, <1>4, <1>6, <1>8 DEF Commit
  <2>2. db' = e
    BY <1>2, <1>9, <2>1 DEF Database
  <2> QED BY <1>2, <2>1, <2>2
<1> HIDE DEF v
<1>13. /\ e \in Database /\ e.cols = d.cols /\ e.rows = q /\ e.record = d.record
       /\ e.source = d.source /\ e.media = d.media /\ e.entries = d.entries /\ e.keys = d.keys
       /\ e.state = st
  BY <1>2, <1>7, <1>10 DEF Database
<1> HIDE DEF e
<1>14. DbSound(e) /\ Grows(d, e)
  BY <1>2, <1>5, <1>7, <1>10, <1>13, RowsWritten, PreparedVersioned
<1>15. WorkerSound(e, v)
  <2>1. WorkerSound(e, w[k])
    BY <1>2, <1>13, <1>14, WorkerLasts
  <2> QED BY <1>2, <1>7, <1>11, <2>1 DEF WorkerSound, Migrating
<1> QED BY <1>1, <1>12, <1>14, <1>15, WorkerWrites

\* countPending.
LEMMA CountStep ==
    ASSUME IInv, NEW k \in Slots, Count(k)
    PROVE  IInv'
<1>1. PICK d : d = db
  OBVIOUS
<1>2. /\ WorkerSound(d, w[k]) /\ w[k] \in WorkerRec /\ w \in [Slots -> WorkerRec] /\ d \in Database /\ DbSound(d)
      /\ w[k].pc = "count" /\ Prepared(d)
  BY <1>1, Known DEF Count, WorkerSound, Migrating
<1>3. PICK new : new = [phase |-> IF Cardinality(Pending(d.rows)) = 0 THEN "complete" ELSE "migrating",
                        cursor |-> 0]
  OBVIOUS
<1>4. new \in State /\ (new.phase = "complete" => Finished(d))
  BY <1>2, <1>3, BeginState, PreparedVersioned
<1>5. PICK nb \in RowSets : nb = <<>>
  BY NoRows
<1>6. CASE Cardinality(Pending(d.rows)) # 0 /\ w[k].batch # <<>>
  <2> DEFINE v == [w[k] EXCEPT !.pc = "loop", !.batch = nb]
  <2>1. /\ v \in WorkerRec /\ v.pc = "loop" /\ v.st = w[k].st /\ v.current = w[k].current /\ v.new = w[k].new
    BY <1>2 DEF WorkerRec, Pcs
  <2>2. w' = [w EXCEPT ![k] = v] /\ UNCHANGED <<db, task, faults, writes>>
    <3>1. w' = [w EXCEPT ![k].pc = "loop", ![k].batch = nb] /\ UNCHANGED <<db, task, faults, writes>>
      BY <1>1, <1>5, <1>6 DEF Count
    <3> QED BY <1>2, <3>1
  <2> HIDE DEF v
  <2>3. WorkerSound(d, v)
    BY <1>2, <2>1 DEF WorkerSound, Migrating
  <2> QED BY <1>1, <2>2, <2>3, WorkerMoves
<1>7. CASE ~(Cardinality(Pending(d.rows)) # 0 /\ w[k].batch # <<>>)
  <2> DEFINE v == [w[k] EXCEPT !.pc = "persist", !.batch = nb, !.new = new]
  <2>1. /\ v \in WorkerRec /\ v.pc = "persist" /\ v.st = w[k].st /\ v.current = w[k].current /\ v.new = new
    BY <1>2, <1>4 DEF WorkerRec, Pcs
  <2>2. w' = [w EXCEPT ![k] = v] /\ UNCHANGED <<db, task, faults, writes>>
    <3>1. /\ w' = [w EXCEPT ![k].pc = "persist", ![k].batch = nb, ![k].new = new]
          /\ UNCHANGED <<db, task, faults, writes>>
      BY <1>1, <1>3, <1>5, <1>7 DEF Count
    <3> QED BY <1>2, <3>1
  <2> HIDE DEF v
  <2>3. WorkerSound(d, v)
    BY <1>2, <1>4, <2>1 DEF WorkerSound, Migrating
  <2> QED BY <1>1, <2>2, <2>3, WorkerMoves
<1> QED BY <1>6, <1>7

\* persistState: nothing was written meanwhile that is to be classified.
LEMMA PersistStep ==
    ASSUME IInv, NEW k \in Slots, Persist(k)
    PROVE  IInv'
<1>1. PICK d : d = db
  OBVIOUS
<1>2. /\ WorkerSound(d, w[k]) /\ w[k] \in WorkerRec /\ w \in [Slots -> WorkerRec] /\ d \in Database /\ DbSound(d)
      /\ w[k].pc = "persist" /\ w[k].new \in State
  BY <1>1, Known DEF Persist, WorkerSound
<1>3. PICK p \in {"read", "loop"} : p = IF w[k].new.phase = "complete" THEN "read" ELSE "loop"
  OBVIOUS
<1> DEFINE v == [w[k] EXCEPT !.st = w[k].new, !.new = NoState, !.pc = p]
<1>4. PICK e : e = [d EXCEPT !.state = w[k].new]
  OBVIOUS
<1>5. db' = e /\ w' = [w EXCEPT ![k] = v] /\ UNCHANGED <<task, faults, writes>>
  <2>1. /\ db' = e /\ w' = [w EXCEPT ![k].st = w[k].new, ![k].new = NoState, ![k].pc = p]
        /\ UNCHANGED <<task, faults, writes>>
    BY <1>1, <1>3, <1>4 DEF Persist
  <2> QED BY <1>2, <2>1
<1>6. DbSound(e) /\ Grows(d, e)
  BY <1>2, <1>4, PutState DEF WorkerSound
<1>7. /\ v \in WorkerRec /\ v.pc = p /\ v.st = w[k].new /\ v.current = w[k].current /\ v.new = NoState
  BY <1>2 DEF WorkerRec, Pcs
<1> HIDE DEF v
<1>8. WorkerSound(e, v)
  <2>1. WorkerSound(e, w[k])
    BY <1>2, <1>6, WorkerLasts DEF DbSound
  <2>2. NoState.phase # "complete"
    BY DEF NoState
  <2> QED BY <1>2, <1>7, <2>1, <2>2 DEF WorkerSound, Migrating
<1> QED BY <1>1, <1>5, <1>6, <1>8, WorkerWrites

-----------------------------------------------------------------------------
(* The live writes.                                                        *)

\* Rows that may take the place of those there are: each tells the truth, and
\* none is left to classify that was not before.
MayReplace(rows, q) ==
    /\ q \in RowSets
    /\ \A h \in DOMAIN q : RowSound(h, q[h])
    /\ Pending(q) \subseteq Pending(rows)

\* They are written.
LEMMA RowsStored ==
    ASSUME NEW d, DbSound(d), Versioned(d), NEW q, MayReplace(d.rows, q),
           NEW e, e = [d EXCEPT !.rows = q]
    PROVE  DbSound(e) /\ Grows(d, e) /\ Versioned(e)
<1>1. d \in Database /\ q \in RowSets
  BY DEF DbSound, MayReplace
<1>2. /\ e \in Database /\ e.cols = d.cols /\ e.rows = q /\ e.record = d.record
      /\ e.source = d.source /\ e.media = d.media /\ e.entries = d.entries /\ e.keys = d.keys
      /\ e.state = d.state
  BY <1>1 DEF Database
<1>3. d.state.phase = "complete" => Finished(d)
  BY DEF DbSound
<1>4. DbSound(e) /\ Grows(d, e)
  BY <1>2, <1>3, RowsWritten DEF MayReplace
<1> QED BY <1>2, <1>4 DEF Versioned

\* A tombstone is written.
LEMMA TombstoneStored ==
    ASSUME NEW d, DbSound(d), NEW r \in SUBSET PrivateIds, NEW e, e = [d EXCEPT !.recalled = r]
    PROVE  DbSound(e) /\ Grows(d, e) /\ (Versioned(d) => Versioned(e)) /\ e.rows = d.rows
<1>1. d \in Database
  BY DEF DbSound
<1>2. /\ e \in Database /\ e.cols = d.cols /\ e.rows = d.rows /\ e.record = d.record
      /\ e.source = d.source /\ e.media = d.media /\ e.entries = d.entries /\ e.keys = d.keys
      /\ e.state = d.state
  BY <1>1 DEF Database
<1>3. Copied(e, e.media)
  BY <1>2 DEF DbSound, Copied
<1> QED BY <1>2, <1>3, MediaWritten DEF Versioned

\* The rows of a database.
LEMMA RowsOf ==
    ASSUME NEW d, DbSound(d)
    PROVE  /\ d \in Database /\ d.rows \in RowSets /\ d.recalled \in SUBSET PrivateIds
           /\ \A h \in DOMAIN d.rows : d.rows[h] \in Row /\ RowSound(h, d.rows[h]) /\ h \in Hashes
<1>1. d \in Database
  BY DEF DbSound
<1>2. d.rows \in RowSets /\ d.recalled \in SUBSET PrivateIds
  BY <1>1 DEF Database
<1> QED BY <1>1, <1>2, RowSetsAre DEF DbSound

\* A row is put.
LEMMA PutSound ==
    ASSUME NEW d, DbSound(d), NEW h \in Hashes, NEW r \in Row, RowSound(h, r),
           r.ver = 1 \/ h \in Pending(d.rows)
    PROVE  MayReplace(d.rows, Put(d.rows, h, r))
<1>1. PICK rows : rows = d.rows
  OBVIOUS
<1>2. /\ DOMAIN rows \in SUBSET Hashes
      /\ \A g \in DOMAIN rows : rows[g] \in Row /\ RowSound(g, rows[g])
  BY <1>1, RowsOf
<1> DEFINE q == Put(rows, h, r)
<1>3. DOMAIN q = DOMAIN rows \cup {h} /\ \A g \in DOMAIN q : q[g] = IF g = h THEN r ELSE rows[g]
  BY DEF Put
<1>4. q \in [DOMAIN rows \cup {h} -> Row]
  BY <1>2 DEF Put
<1> HIDE DEF q
<1>5. q \in RowSets
  BY <1>2, <1>4, RowSet
<1>6. \A g \in DOMAIN q : RowSound(g, q[g])
  BY <1>2, <1>3
<1>7. Pending(q) \subseteq Pending(rows)
  BY <1>1, <1>3 DEF Pending
<1>8. MayReplace(rows, q)
  BY <1>5, <1>6, <1>7 DEF MayReplace
<1> QED BY <1>1, <1>8 DEF q

\* A row is deleted, or none is changed.
LEMMA DeleteSound ==
    ASSUME NEW d, DbSound(d), NEW h
    PROVE  MayReplace(d.rows, Delete(d.rows, h)) /\ MayReplace(d.rows, d.rows)
<1>1. PICK rows : rows = d.rows
  OBVIOUS
<1>2. /\ DOMAIN rows \in SUBSET Hashes
      /\ \A g \in DOMAIN rows : rows[g] \in Row /\ RowSound(g, rows[g])
  BY <1>1, RowsOf
<1> DEFINE q == Delete(rows, h)
<1>3. DOMAIN q = DOMAIN rows \ {h} /\ \A g \in DOMAIN q : q[g] = rows[g]
  BY DEF Delete, Restrict
<1>4. q \in [DOMAIN rows \ {h} -> Row]
  BY <1>2 DEF Delete, Restrict
<1> HIDE DEF q
<1>5. q \in RowSets
  BY <1>2, <1>4, RowSet
<1>6. Pending(q) \subseteq Pending(rows)
  BY <1>3 DEF Pending
<1>7. MayReplace(rows, q)
  BY <1>2, <1>3, <1>5, <1>6 DEF MayReplace
<1>8. MayReplace(rows, rows)
  BY <1>1, <1>2, RowsOf DEF MayReplace
<1> QED BY <1>1, <1>7, <1>8 DEF q

\* The row that storeMeta writes.
LEMMA MetaRow ==
    ASSUME NEW d, DbSound(d), NEW h \in Hashes, NEW sa \in BOOLEAN, NEW cs \in BOOLEAN,
           ~(h \in d.recalled /\ cs)
    PROVE  \E r \in Row : /\ RowSound(h, r) /\ r.ver = 1
                          /\ PutMeta(d, h, sa, cs) = [d EXCEPT !.rows = Put(d.rows, h, r)]
<1>1. d \in Database /\ \A g \in DOMAIN d.rows : d.rows[g] \in Row
  BY RowsOf
<1>2. PICK data \in {"null", "event", "placeholder"} :
          data = IF h \in DOMAIN d.rows THEN d.rows[h].data ELSE "null"
  BY <1>1 DEF Row
<1>3. PICK rich \in BOOLEAN : rich = (h \in DOMAIN d.rows /\ d.rows[h].rich)
  BY <1>1 DEF Row
<1>4. PICK dir \in BOOLEAN : dir = (h \in PrivateIds)
  <2>1. (h \in PrivateIds) \in BOOLEAN
    OBVIOUS
  <2> QED BY <2>1, Zenon
<1> DEFINE r == [ver |-> 1, sa |-> sa, dir |-> dir, cs |-> cs, real |-> sa,
                 data |-> data, rich |-> rich]
<1>5. r \in Row /\ r.ver = 1 /\ r.sa = r.real /\ r.dir = dir
  BY DEF Row
<1>6. PutMeta(d, h, sa, cs) = [d EXCEPT !.rows = Put(d.rows, h, r)]
  BY <1>1, <1>2, <1>3, <1>4 DEF PutMeta, Database
<1> HIDE DEF r
<1>7. RowSound(h, r)
  BY <1>4, <1>5 DEF RowSound, Content
<1> QED BY <1>5, <1>6, <1>7

\* storeMeta.
LEMMA PutMetaSound ==
    ASSUME NEW d, DbSound(d), Versioned(d), NEW h \in Hashes, NEW sa \in BOOLEAN, NEW cs \in BOOLEAN,
           NEW e, e = PutMeta(d, h, sa, cs)
    PROVE  DbSound(e) /\ Grows(d, e) /\ Versioned(e)
<1>1. CASE h \in d.recalled /\ cs
  <2>1. PICK q : q = Delete(d.rows, h)
    OBVIOUS
  <2>2. e = [d EXCEPT !.rows = q]
    BY <1>1, <2>1, RowsOf DEF PutMeta, Database
  <2>3. MayReplace(d.rows, q)
    BY <2>1, DeleteSound
  <2> QED BY <2>2, <2>3, RowsStored
<1>2. CASE ~(h \in d.recalled /\ cs)
  <2>1. PICK r \in Row : RowSound(h, r) /\ r.ver = 1 /\ e = [d EXCEPT !.rows = Put(d.rows, h, r)]
    BY <1>2, MetaRow
  <2>2. PICK q : q = Put(d.rows, h, r)
    OBVIOUS
  <2>3. MayReplace(d.rows, q)
    BY <2>1, <2>2, PutSound
  <2> QED BY <2>1, <2>2, <2>3, RowsStored
<1> QED BY <1>1, <1>2

\* A row there is gets its event or its media; its sequence and its version
\* stay.
LEMMA RowChanged ==
    ASSUME NEW d, DbSound(d), Versioned(d), NEW h \in DOMAIN d.rows, NEW r \in Row,
           r.ver = d.rows[h].ver, r.sa = d.rows[h].sa, r.cs = d.rows[h].cs, r.real = d.rows[h].real,
           h \in PrivateIds \/ r.data = d.rows[h].data,
           h \in PrivateIds /\ r.data # "null" => r.dir \/ (r.data = d.rows[h].data /\ r.dir = d.rows[h].dir),
           NEW e, e = [d EXCEPT !.rows = [d.rows EXCEPT ![h] = r]]
    PROVE  DbSound(e) /\ Grows(d, e) /\ Versioned(e)
<1>1. d.rows[h] \in Row /\ RowSound(h, d.rows[h]) /\ h \in Hashes /\ d.rows \in RowSets
  BY RowsOf
<1>2. RowSound(h, r)
  BY <1>1 DEF RowSound, Content, Truth
<1>3. r.ver = 1 \/ h \in Pending(d.rows)
  BY <1>1 DEF Pending, Row
<1>4. PICK q : q = Put(d.rows, h, r)
  OBVIOUS
<1>5. [d.rows EXCEPT ![h] = r] = q
  <2>1. PICK S : S = DOMAIN d.rows /\ d.rows \in [S -> Row] /\ h \in S
    BY <1>1 DEF RowSets
  <2> QED BY <1>4, <2>1 DEF Put
<1>6. MayReplace(d.rows, q)
  BY <1>1, <1>2, <1>3, <1>4, PutSound
<1> QED BY <1>5, <1>6, RowsStored

\* storeEvent.
LEMMA PutEventSound ==
    ASSUME NEW d, DbSound(d), Versioned(d), NEW h \in Hashes, NEW sa \in BOOLEAN,
           NEW e, e = PutEvent(d, h, sa)
    PROVE  DbSound(e) /\ Grows(d, e) /\ Versioned(e)
<1>1. /\ d \in Database /\ \A g \in DOMAIN d.rows : d.rows[g] \in Row
      /\ (h \in GroupIds) # (h \in PrivateIds)
  BY RowsOf, HashesAssumption DEF Hashes
<1>2. PICK cs \in BOOLEAN : cs = (h \in DOMAIN d.rows /\ d.rows[h].cs)
  BY <1>1 DEF Row
<1>3. PICK data \in {"event", "placeholder"} : data = IF sa THEN "event" ELSE "placeholder"
  OBVIOUS
<1> DEFINE rec == [ver |-> 1, sa |-> sa, dir |-> FALSE, cs |-> cs, real |-> sa,
                   data |-> data, rich |-> FALSE]
<1>4. PICK r \in Row : r = rec /\ r.ver = 1 /\ r.sa = r.real
  <2>1. rec \in Row /\ rec.ver = 1 /\ rec.sa = rec.real
    BY DEF Row
  <2> HIDE DEF rec
  <2> QED BY <2>1
<1>5. e = IF h \in GroupIds THEN [d EXCEPT !.rows = Put(@, h, rec)]
           ELSE IF h \in d.recalled THEN [d EXCEPT !.rows = Delete(@, h)]
           ELSE IF h \in DOMAIN d.rows
             THEN [d EXCEPT !.rows[h] = [d.rows[h] EXCEPT !.data = "event", !.rich = FALSE, !.dir = TRUE]]
           ELSE [d EXCEPT !.rows = Put(@, h, [rec EXCEPT !.data = "event", !.dir = TRUE])]
  BY <1>2, <1>3, Zenon DEF PutEvent
<1> HIDE DEF rec
<1>6. CASE h \in GroupIds
  <2>1. e = [d EXCEPT !.rows = Put(d.rows, h, r)]
    BY <1>1, <1>4, <1>5, <1>6 DEF Database
  <2>2. RowSound(h, r)
    BY <1>1, <1>4, <1>6 DEF RowSound, Content
  <2>3. MayReplace(d.rows, Put(d.rows, h, r))
    BY <1>4, <2>2, PutSound
  <2> QED BY <2>1, <2>3, RowsStored
<1>7. CASE h \in PrivateIds /\ h \in d.recalled
  <2>1. e = [d EXCEPT !.rows = Delete(d.rows, h)]
    BY <1>1, <1>5, <1>7 DEF Database
  <2> QED BY <2>1, DeleteSound, RowsStored
<1>8. CASE h \in PrivateIds /\ h \notin d.recalled /\ h \notin DOMAIN d.rows
  <2> DEFINE p == [r EXCEPT !.data = "event", !.dir = TRUE]
  <2>1. p \in Row /\ p.ver = 1 /\ p.sa = p.real /\ p.dir = TRUE
    BY <1>4 DEF Row
  <2>2. e = [d EXCEPT !.rows = Put(d.rows, h, p)]
    BY <1>1, <1>4, <1>5, <1>8 DEF Database
  <2> HIDE DEF p
  <2>3. RowSound(h, p)
    BY <2>1 DEF RowSound, Content
  <2>4. MayReplace(d.rows, Put(d.rows, h, p))
    BY <2>1, <2>3, PutSound
  <2> QED BY <2>2, <2>4, RowsStored
<1>9. CASE h \in PrivateIds /\ h \notin d.recalled /\ h \in DOMAIN d.rows
  <2> DEFINE p == [d.rows[h] EXCEPT !.data = "event", !.rich = FALSE, !.dir = TRUE]
  <2>1. /\ p \in Row /\ p.ver = d.rows[h].ver /\ p.sa = d.rows[h].sa /\ p.real = d.rows[h].real
        /\ p.cs = d.rows[h].cs /\ p.dir = TRUE
    BY <1>1, <1>9 DEF Row
  <2>2. e = [d EXCEPT !.rows[h] = p]
    BY <1>1, <1>5, <1>9
  <2> HIDE DEF p
  <2>3. e = [d EXCEPT !.rows = [d.rows EXCEPT ![h] = p]]
    BY <1>1, <2>2 DEF Database
  <2> QED BY <1>9, <2>1, <2>3, RowChanged
<1> QED BY <1>1, <1>6, <1>7, <1>8, <1>9

\* updateMedia.
LEMMA PutMediaSound ==
    ASSUME NEW d, DbSound(d), Versioned(d), NEW h \in DOMAIN d.rows, NEW e, e = PutMedia(d, h)
    PROVE  DbSound(e) /\ Grows(d, e) /\ Versioned(e)
<1>1. d \in Database /\ d.rows[h] \in Row
  BY RowsOf
<1> DEFINE p == [d.rows[h] EXCEPT !.rich = TRUE]
<1>2. /\ p \in Row /\ p.ver = d.rows[h].ver /\ p.sa = d.rows[h].sa /\ p.real = d.rows[h].real
      /\ p.cs = d.rows[h].cs /\ p.dir = d.rows[h].dir /\ p.data = d.rows[h].data
  BY <1>1 DEF Row
<1>3. e = [d EXCEPT !.rows = [d.rows EXCEPT ![h] = p]]
  BY <1>1 DEF PutMedia, Database
<1> HIDE DEF p
<1> QED BY <1>2, <1>3, RowChanged

\* What is written in two steps.
LEMMA GrowsOn ==
    ASSUME NEW c, NEW d, NEW e, Grows(c, d), Grows(d, e)
    PROVE  Grows(c, e)
BY DEF Grows, Versioned

\* recordPrivateRecall.
LEMMA RecallSound ==
    ASSUME NEW d, DbSound(d), Versioned(d), NEW h \in PrivateIds, NEW e, e = Recall(d, h)
    PROVE  DbSound(e) /\ Grows(d, e) /\ Versioned(e)
<1>1. d \in Database /\ d.recalled \cup {h} \in SUBSET PrivateIds
  BY RowsOf
<1>2. PICK q : q = IF h \in DOMAIN d.rows /\ d.rows[h].cs /\ d.rows[h].dir
                     THEN Delete(d.rows, h) ELSE d.rows
  OBVIOUS
<1>3. MayReplace(d.rows, q)
  BY <1>2, DeleteSound
<1>4. PICK c : c = [d EXCEPT !.rows = q]
  OBVIOUS
<1>5. DbSound(c) /\ Grows(d, c) /\ Versioned(c)
  BY <1>3, <1>4, RowsStored
<1>6. e = [c EXCEPT !.recalled = d.recalled \cup {h}]
  BY <1>1, <1>2, <1>4 DEF Recall, Database
<1>7. DbSound(e) /\ Grows(c, e) /\ Versioned(e)
  BY <1>1, <1>5, <1>6, TombstoneStored
<1> QED BY <1>5, <1>7, GrowsOn

\* storeMetas.
LEMMA PutMetasSound ==
    ASSUME NEW d, DbSound(d), Versioned(d), NEW sa \in BOOLEAN,
           NEW e, e = [d EXCEPT !.rows = [h \in Hashes \ d.recalled |->
                                            PutMeta(d, h, sa, h \in PrivateIds).rows[h]]]
    PROVE  DbSound(e) /\ Grows(d, e)
<1> DEFINE S == Hashes \ d.recalled
           row(h) == PutMeta(d, h, sa, h \in PrivateIds).rows[h]
           q == [h \in S |-> row(h)]
<1>1. ASSUME NEW h \in S
      PROVE  row(h) \in Row /\ RowSound(h, row(h)) /\ row(h).ver = 1
  <2>1. PICK cs \in BOOLEAN : cs = (h \in PrivateIds)
    <3>1. (h \in PrivateIds) \in BOOLEAN
      OBVIOUS
    <3> QED BY <3>1, Zenon
  <2>2. PICK r \in Row : /\ RowSound(h, r) /\ r.ver = 1
                         /\ PutMeta(d, h, sa, cs) = [d EXCEPT !.rows = Put(d.rows, h, r)]
    BY MetaRow
  <2>3. PutMeta(d, h, sa, cs).rows = Put(d.rows, h, r)
    BY <2>2, RowsOf DEF Database
  <2>4. PutMeta(d, h, sa, cs).rows[h] = r
    BY <2>3 DEF Put
  <2> QED BY <2>1, <2>2, <2>4
<1> HIDE DEF row
<1>2. q \in [S -> Row] /\ S \in SUBSET Hashes /\ \A h \in S : q[h] = row(h)
  BY <1>1
<1>3. e = [d EXCEPT !.rows = q]
  BY DEF row
<1> HIDE DEF q, S
<1>4. q \in RowSets /\ DOMAIN q = S
  BY <1>2, RowSet
<1>5. MayReplace(d.rows, q)
  BY <1>1, <1>2, <1>4 DEF MayReplace, Pending
<1> QED BY <1>3, <1>5, RowsStored

\* A live write: the store is open, so rows have versions.
LEMMA LiveWrites ==
    ASSUME IInv, NEW e, Live(e)
    PROVE  /\ DbSound(db) /\ Versioned(db) /\ db' = e
           /\ DbSound(e) /\ Grows(db, e) => IInv'
<1>1. db \in Database /\ WorkersSound(db, w) /\ TaskSound(db, task) /\ DbSound(db) /\ Bounded
  BY DEF IInv, DbSound
<1>2. task.store /\ writes < Writes /\ db' = e /\ writes' = writes + 1 /\ UNCHANGED <<w, task, faults>>
  BY DEF Live
<1>3. Versioned(db)
  BY <1>1, <1>2, PreparedVersioned DEF TaskSound
<1>4. writes' \in 0..Writes
  BY <1>1, <1>2, BoundsAssumption DEF Bounded
<1>5. ASSUME DbSound(e), Grows(db, e)
      PROVE  IInv'
  <2>1. e \in Database
    BY <1>5 DEF DbSound
  <2>2. WorkersSound(e, w) /\ TaskSound(e, task)
    BY <1>1, <1>5, <2>1, WorkersLast, TaskLasts
  <2> QED BY <1>1, <1>2, <1>4, <1>5, <2>2, SoundNext DEF Bounded
<1> QED BY <1>1, <1>2, <1>3, <1>5

\* The writes of MessageStore.
LEMMA WriterStep ==
    ASSUME IInv, Writer
    PROVE  IInv'
<1>1. ASSUME NEW h \in Hashes, StoreMeta(h)
      PROVE  IInv'
  <2>1. PICK sa \in BOOLEAN, cs \in BOOLEAN : Live(PutMeta(db, h, sa, cs))
    BY <1>1 DEF StoreMeta
  <2> QED BY <2>1, LiveWrites, PutMetaSound
<1>2. ASSUME NEW h \in Hashes, StoreEvent(h)
      PROVE  IInv'
  <2>1. PICK sa \in BOOLEAN : Live(PutEvent(db, h, sa))
    BY <1>2 DEF StoreEvent
  <2> QED BY <2>1, LiveWrites, PutEventSound
<1>3. ASSUME NEW h \in Hashes, StoreHistoryEvent(h)
      PROVE  IInv'
  <2>1. PICK sa \in BOOLEAN : Live(PutEvent(PutMeta(db, h, sa, h \in PrivateIds), h, sa))
    BY <1>3 DEF StoreHistoryEvent
  <2>2. PICK cs \in BOOLEAN : cs = (h \in PrivateIds)
    <3>1. (h \in PrivateIds) \in BOOLEAN
      OBVIOUS
    <3> QED BY <3>1, Zenon
  <2>3. PICK c : c = PutMeta(db, h, sa, cs)
    OBVIOUS
  <2>4. PICK e : e = PutEvent(c, h, sa)
    OBVIOUS
  <2>5. Live(e)
    BY <2>1, <2>2, <2>3, <2>4
  <2>6. DbSound(db) /\ Versioned(db)
    BY <2>5, LiveWrites
  <2>7. DbSound(c) /\ Grows(db, c) /\ Versioned(c)
    BY <2>3, <2>6, PutMetaSound
  <2>8. DbSound(e) /\ Grows(c, e)
    BY <2>4, <2>7, PutEventSound
  <2> QED BY <2>5, <2>7, <2>8, GrowsOn, LiveWrites
<1>4. ASSUME NEW h \in Hashes, UpdateMedia(h)
      PROVE  IInv'
  BY <1>4, LiveWrites, PutMediaSound DEF UpdateMedia
<1>5. ASSUME NEW h \in Hashes, RecordPrivateRecall(h)
      PROVE  IInv'
  BY <1>5, LiveWrites, RecallSound DEF RecordPrivateRecall
<1>6. ASSUME StoreMetas
      PROVE  IInv'
  <2>1. PICK sa \in BOOLEAN :
            Live([db EXCEPT !.rows = [h \in Hashes \ db.recalled |->
                PutMeta(db, h, sa, h \in PrivateIds).rows[h]]])
    BY <1>6 DEF StoreMetas
  <2>2. PICK e : e = [db EXCEPT !.rows = [h \in Hashes \ db.recalled |->
                PutMeta(db, h, sa, h \in PrivateIds).rows[h]]]
    OBVIOUS
  <2>3. Live(e)
    BY <2>1, <2>2
  <2>4. DbSound(db) /\ Versioned(db)
    BY <2>3, LiveWrites
  <2>5. DbSound(e) /\ Grows(db, e)
    BY <2>2, <2>4, PutMetasSound
  <2> QED BY <2>3, <2>5, LiveWrites
<1> QED BY <1>1, <1>2, <1>3, <1>4, <1>5, <1>6 DEF Writer

-----------------------------------------------------------------------------
(* The invariant.                                                          *)

\* A database of an earlier release.
LEMMA LegacySound ==
    ASSUME NEW cols \in SUBSET (All \ {"classification_version"}), NEW d \in Legacy(cols)
    PROVE  /\ DbSound(d) /\ d.cols = cols
           /\ \A h \in DOMAIN d.rows : d.rows[h] \in LegacyRow(h, cols)
<1>1. PICK f \in UNION {{g \in [ids -> Row] : \A h \in ids : g[h] \in LegacyRow(h, cols)} :
                            ids \in {Hashes, PrivateIds}} :
          d = [cols |-> cols, record |-> FALSE, rows |-> f, state |-> NoState,
               source |-> TRUE, media |-> [phase |-> "entries", cursor |-> 0], entries |-> {}, keys |-> {},
               recalled |-> {}]
  BY Zenon DEF Legacy
<1>2. PICK ids \in {Hashes, PrivateIds} : f \in [ids -> Row] /\ \A h \in ids : f[h] \in LegacyRow(h, cols)
  OBVIOUS
<1>3. ids \in SUBSET Hashes
  BY DEF Hashes
<1>4. f \in RowSets /\ DOMAIN f = ids
  BY <1>3, <1>2, RowSet
<1>5. PICK md \in MediaState : md = [phase |-> "entries", cursor |-> 0]
  <2>1. PICK z \in 0..MediaRows : z = 0
    BY BoundsAssumption
  <2>2. [phase |-> "entries", cursor |-> z] \in MediaState
    BY DEF MediaState
  <2> QED BY <2>1, <2>2
<1>6. /\ d \in Database /\ d.cols = cols /\ d.record = FALSE /\ d.rows = f /\ d.state = NoState
      /\ d.media = md
  BY <1>1, <1>4, <1>5 DEF Database
<1>7. \A h \in ids : f[h].ver = 0 /\ f[h].real = Truth(h, f[h])
  BY <1>2 DEF LegacyRow
<1>8. Copied(d, d.media)
  BY <1>5, <1>6 DEF Copied
<1>9. NoState.phase # "complete"
  BY DEF NoState
<1>10. DbSound(d)
  BY <1>4, <1>6, <1>7, <1>8, <1>9 DEF DbSound, RowSound, Versioned
<1> QED BY <1>4, <1>6, <1>10, <1>2

\* A database whose rows an earlier release has classified.
LEMMA ClassifiedSound ==
    ASSUME NEW e \in Classified
    PROVE  DbSound(e)
<1>1. PICK cols \in SUBSET (All \ {"classification_version"}) : cols = {"sequence_authoritative"}
  BY ColumnNames
<1>2. PICK d \in Legacy(cols) :
          e = [d EXCEPT !.cols = @ \cup {"private_direction"}, !.record = TRUE,
                        !.rows = [h \in DOMAIN @ |-> [Classify(h, @[h]) EXCEPT !.ver = 0]]]
  BY <1>1 DEF Classified
<1>3. /\ DbSound(d) /\ d.cols = cols /\ \A h \in DOMAIN d.rows : d.rows[h] \in LegacyRow(h, cols)
  BY LegacySound
<1>4. /\ d \in Database /\ DOMAIN d.rows \in SUBSET Hashes
      /\ \A h \in DOMAIN d.rows : d.rows[h] \in Row
  BY <1>3, RowsOf
<1> DEFINE c(h) == [Classify(h, d.rows[h]) EXCEPT !.ver = 0]
           q == [h \in DOMAIN d.rows |-> c(h)]
<1>5. ASSUME NEW h \in DOMAIN d.rows
      PROVE  c(h) \in Row /\ c(h).ver = 0 /\ Content(h, c(h)) /\ c(h).real = Truth(h, c(h))
  <2>1. PICK r \in Row : r = d.rows[h] /\ r.real = Truth(h, r)
    BY <1>3, <1>4 DEF LegacyRow
  <2>2. PICK zero \in 0..1 : zero = 0
    OBVIOUS
  <2>3. PICK sa \in BOOLEAN : sa = IF h \in PrivateIds THEN (r.sa /\ r.cs)
                                   ELSE (r.sa /\ r.data # "placeholder")
    OBVIOUS
  <2>4. PICK dir \in BOOLEAN : dir = IF h \in PrivateIds THEN (r.data # "null") ELSE FALSE
    OBVIOUS
  <2>5. Classify(h, r) = [r EXCEPT !.sa = sa, !.dir = dir, !.ver = 1]
    BY <2>3, <2>4 DEF Classify
  <2>6. PICK x : x = [[r EXCEPT !.sa = sa, !.dir = dir, !.ver = 1] EXCEPT !.ver = zero]
    OBVIOUS
  <2>7. /\ x \in Row /\ x.ver = 0 /\ x.sa = sa /\ x.dir = dir /\ x.cs = r.cs /\ x.data = r.data
        /\ x.real = r.real
    BY <2>2, <2>6 DEF Row
  <2>8. c(h) = x
    BY <2>1, <2>2, <2>5, <2>6
  <2>9. sa = r.real
    BY <2>1, <2>3 DEF Truth
  <2>10. Content(h, x) /\ x.real = Truth(h, x)
    BY <2>3, <2>4, <2>7, <2>9 DEF Content, Truth
  <2> HIDE DEF c
  <2> QED BY <2>7, <2>8, <2>10
<1>6. e = [d EXCEPT !.cols = d.cols \cup {"private_direction"}, !.record = TRUE, !.rows = q]
  BY <1>2, <1>4 DEF Database
<1> HIDE DEF c
<1>7. q \in [DOMAIN d.rows -> Row] /\ \A h \in DOMAIN d.rows : q[h] = c(h)
  BY <1>5
<1> HIDE DEF q
<1>8. q \in RowSets /\ DOMAIN q = DOMAIN d.rows
  BY <1>4, <1>7, RowSet
<1>9. /\ e \in Database /\ e.rows = q /\ e.cols = d.cols \cup {"private_direction"}
      /\ e.state = d.state /\ e.media = d.media /\ e.source = d.source
      /\ e.entries = d.entries /\ e.keys = d.keys
  <2>1. d.cols \cup {"private_direction"} \in SUBSET All
    BY <1>3, ColumnNames
  <2> QED BY <1>4, <1>6, <1>8, <2>1 DEF Database
<1>10. ~Versioned(e) /\ ~Versioned(d)
  BY <1>1, <1>3, <1>9 DEF Versioned
<1>11. \A h \in DOMAIN q : q[h].ver = 0 /\ Content(h, q[h]) /\ RowSound(h, q[h])
  BY <1>5, <1>7, <1>8 DEF RowSound
<1>12. Copied(e, e.media) /\ e.state.phase # "complete"
  BY <1>3, <1>9, <1>10 DEF DbSound, Copied, Finished
<1> QED BY <1>9, <1>10, <1>11, <1>12 DEF DbSound

\* A new database.
LEMMA FreshSound ==
    ASSUME NEW d \in Fresh
    PROVE  DbSound(d)
<1>1. PICK md \in MediaState : md = [phase |-> "entries", cursor |-> 0]
  <2>1. PICK z \in 0..MediaRows : z = 0
    BY BoundsAssumption
  <2>2. [phase |-> "entries", cursor |-> z] \in MediaState
    BY DEF MediaState
  <2> QED BY <2>1, <2>2
<1>2. PICK rows \in RowSets : rows = <<>> /\ DOMAIN rows = {}
  BY NoRows
<1>3. PICK cols \in SUBSET All : cols = Range(Columns) \ {"media_data"}
  BY DEF All
<1>4. d = [cols |-> cols, record |-> FALSE, rows |-> rows, state |-> NoState,
           source |-> FALSE, media |-> md, entries |-> {}, keys |-> {}, recalled |-> {}]
  BY <1>1, <1>2, <1>3 DEF Fresh
<1>5. "classification_version" \in cols
  BY <1>3, ColumnNames DEF All
<1>6. /\ d \in Database /\ d.rows = rows /\ d.state = NoState /\ d.source = FALSE /\ Versioned(d)
  BY <1>4, <1>5 DEF Database, Versioned
<1>7. NoState.phase # "complete"
  BY DEF NoState
<1> QED BY <1>2, <1>6, <1>7 DEF DbSound, Copied

\* The invariant holds at first.
LEMMA InitIInv ==
    ASSUME Init
    PROVE  IInv
<1>1. DbSound(db)
  <2>1. {} \in SUBSET (All \ {"classification_version"})
    OBVIOUS
  <2>2. {"sequence_authoritative"} \in SUBSET (All \ {"classification_version"})
    BY ColumnNames
  <2> QED BY <2>1, <2>2, LegacySound, ClassifiedSound, FreshSound DEF Init
<1>2. w = [k \in Slots |-> NoWorker] /\ task = [cur |-> None, store |-> FALSE, done |-> FALSE]
  BY DEF Init
<1>3. WorkersSound(db, w)
  BY <1>2, NoWorkerSound DEF WorkersSound, WorkerSound
<1>4. Bounded
  BY BoundsAssumption DEF Init, Bounded
<1> QED BY <1>1, <1>2, <1>3, <1>4, NoTaskSound DEF IInv

\* Every step keeps it.
LEMMA NextIInv ==
    ASSUME IInv, [Next]_vars
    PROVE  IInv'
<1>1. ASSUME NEW k \in Slots, Worker(k)
      PROVE  IInv'
  BY <1>1, CancelledEndsStep, ReadColumnsStep, AddColumnStep, LoadMediaStep, CopyMediaStep, LoadStep,
     InsertStep, LoopStep, CompleteStep, ReadStep, CommitStep, CountStep, PersistStep DEF Worker
<1>2. CASE UNCHANGED vars
  <2>1. DbSound(db) /\ WorkersSound(db, w) /\ TaskSound(db, task) /\ Bounded
    BY DEF IInv
  <2> QED BY <1>2, <2>1, SoundNext DEF vars, Bounded
<1>3. CASE Next
  BY <1>1, <1>3, StartStep, OnReadyStep, FailStep, WriterStep, CloseStep, CrashStep DEF Next
<1> QED BY <1>2, <1>3

\* The invariant holds throughout: for any messages, batch size and number of
\* workers beside each other, whatever fails and whatever is written meanwhile.
THEOREM InvariantHolds == Spec => []IInv
<1>1. Init => IInv
  BY InitIInv
<1>2. IInv /\ [Next]_vars => IInv'
  BY NextIInv
<1> QED BY <1>1, <1>2, PTL DEF Spec

\* The database, the workers and the task have the form the code gives them.
THEOREM TypesHold == Spec => []TypeOK
<1>1. IInv => TypeOK
  <2> SUFFICES ASSUME IInv PROVE TypeOK
    OBVIOUS
  <2>1. DbSound(db) /\ WorkersSound(db, w) /\ task \in Task /\ Bounded
    BY DEF IInv, TaskSound
  <2>2. /\ db \in Database /\ DOMAIN db.rows \subseteq Hashes
        /\ \A h \in DOMAIN db.rows : db.rows[h] \in Row
    BY <2>1, RowsOf
  <2>3. Range(db.rows) \subseteq Row
    BY <2>2 DEF Range
  <2>4. \A k \in Slots : w[k] \in WorkerRec
    BY <2>1 DEF WorkersSound
  <2>5. /\ db.cols \subseteq Range(Columns) /\ db.state \in State \cup {NoState}
        /\ db.media \in MediaState /\ db.entries \cup db.keys \subseteq 1..MediaRows
        /\ db.recalled \subseteq PrivateIds
    BY <2>2 DEF Database, All
  <2>6. \A k \in Slots : /\ w[k].pc \in Pcs /\ {w[k].st, w[k].new} \subseteq State \cup {NoState}
                         /\ w[k].media \in MediaState
    BY <2>4 DEF WorkerRec
  <2> QED BY <2>1, <2>2, <2>3, <2>5, <2>6 DEF TypeOK, Task, Bounded
<1> QED BY <1>1, InvariantHolds, PTL

\* The phase 'complete', on disk or reported, means that no row is left to
\* classify: neither a crash, nor a live write, nor a worker of an earlier
\* session brings back what a count has found to be done.
THEOREM CompletionIsTrue == Spec => []CompleteMeansDone
<1>1. IInv => CompleteMeansDone
  BY DEF IInv, DbSound, TaskSound, Finished, Versioned, CompleteMeansDone
<1> QED BY <1>1, InvariantHolds, PTL

\* A row that counts as classified says the truth about its sequence and, if
\* it is a private message with its event, has its direction.
THEOREM ClassificationIsTrue == Spec => []ClassifiedByContent
<1>1. IInv => ClassifiedByContent
  BY DEF IInv, DbSound, RowSound, Content, ClassifiedByContent
<1> QED BY <1>1, InvariantHolds, PTL

\* The account is served only when its database has every column and all of
\* its legacy media metadata.
THEOREM UsableIsPrepared == Spec => []UsableMeansPrepared
<1>1. IInv => UsableMeansPrepared
  BY DEF IInv, TaskSound, Prepared, All, UsableMeansPrepared
<1> QED BY <1>1, InvariantHolds, PTL
==============================================================================
