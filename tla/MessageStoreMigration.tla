------------------------ MODULE MessageStoreMigration ------------------------
(***************************************************************************)
(* The migration of an account's message database: the worker that adds    *)
(* the missing columns, copies the legacy media metadata and classifies    *)
(* the legacy rows in batches (packages/onebot/src/                        *)
(* message-store-migration.ts, message-store-migration-worker.ts,          *)
(* media-store-migration.ts), the task through which the manager runs it   *)
(* (message-store-migration-task.ts, manager.ts) and the live writes of    *)
(* MessageStore (message-store.ts) that go on beside it.                   *)
(*                                                                         *)
(* A step is one SQL statement or one transaction: each writer has its own *)
(* connection, and BEGIN IMMEDIATE keeps the others out until the end.  A  *)
(* worker that is cancelled finishes its batch, so it may run beside the   *)
(* worker of the next session.  Any statement may fail (Fail), and the     *)
(* program may be killed between two of them (Crash); what is in db stays. *)
(*                                                                         *)
(* Left out: progress figures; session, event name and timestamp of a row; *)
(* sequence and random, which change only together with the version.  A    *)
(* private row is a friend's message, and which way its direction points   *)
(* is not told apart: `dir` is whether private_direction is known.         *)
(***************************************************************************)
EXTENDS Naturals, Sequences, FiniteSets, FiniteSetsExt, Functions

CONSTANTS
    GroupIds,   \* message hashes of group messages
    PrivateIds, \* and of private ones
    Workers,    \* bound: how many workers may be alive at a time
    BatchSize,  \* DEFAULT_BATCH_SIZE
    MediaRows,  \* bound: rows of each of the two legacy media tables
    Faults,     \* bound: failures, crashes and closed sessions, together
    Writes      \* bound: live writes

Hashes == GroupIds \cup PrivateIds

ASSUME HashesAssumption ==
    Hashes \subseteq Nat \ {0} /\ IsFiniteSet(Hashes) /\ GroupIds \cap PrivateIds = {}

ASSUME BoundsAssumption ==
    /\ BatchSize \in Nat \ {0} /\ Workers \in Nat \ {0}
    /\ MediaRows \in Nat /\ Faults \in Nat /\ Writes \in Nat

Slots == 1..Workers

\* No worker.
None == 0

VARIABLES
    db,         \* what is on disk
    w,          \* the workers
    task,       \* the manager's side of the present worker
    faults,     \* how many faults there have been
    writes      \* and how many live writes

vars == <<db, w, task, faults, writes>>

-----------------------------------------------------------------------------
(* The columns the schema step adds, in its order.                         *)
Columns == <<"media_data", "sequence_authoritative", "private_direction",
             "classification_version">>

\* A row.  `cs`: its client sequence is known; `rich`: its media have been
\* filled in.  `real` is not in the database: whether the sequence of the
\* row truly is the server's, which sequence_authoritative (`sa`) ought to say.
Row == [
    ver: 0..1,                              \* classification_version
    sa: BOOLEAN,
    dir: BOOLEAN,
    cs: BOOLEAN,
    data: {"null", "event", "placeholder"},
    rich: BOOLEAN,
    real: BOOLEAN]

\* A row of message_store_migration_state; a null cursor is 0.
State == [phase: {"migrating", "complete"}, cursor: Hashes \cup {0}]

NoState == [phase |-> "none", cursor |-> 0]

\* The row of media_migration_state.
MediaState == [phase: {"entries", "keys", "complete"}, cursor: 0..MediaRows]

Pcs == {"off", "columns", "alter", "copy", "ready", "load", "insert",
        "loop", "read", "commit", "count", "persist"}

NoWorker == [pc |-> "off", cancelled |-> FALSE, todo |-> {}, current |-> FALSE,
             media |-> [phase |-> "entries", cursor |-> 0],
             st |-> NoState, new |-> NoState, batch |-> <<>>]

\* WHERE classification_version < CLASSIFICATION_VERSION
Pending(rows) == {h \in DOMAIN rows : rows[h].ver < 1}

\* readBatch: the first BatchSize of them beyond the cursor.
ReadBatch(rows, cursor) ==
    LET p == {h \in Pending(rows) : h > cursor}
    IN  {h \in p : Cardinality({g \in p : g < h}) < BatchSize}

Put(rows, h, r) == [g \in DOMAIN rows \cup {h} |-> IF g = h THEN r ELSE rows[g]]

Delete(rows, h) == Restrict(rows, DOMAIN rows \ {h})

-----------------------------------------------------------------------------
(* classifyLegacyMessage.  A placeholder is what isSyntheticGroupMessage   *)
(* recognises.                                                             *)
Classify(h, r) ==
    IF h \in PrivateIds
      THEN [r EXCEPT !.sa = @ /\ r.cs, !.dir = (r.data # "null"), !.ver = 1]
    ELSE [r EXCEPT !.sa = @ /\ r.data # "placeholder", !.dir = FALSE, !.ver = 1]

\* Mutant: the row is updated whatever has become of it.
Overwritable(r, seen) == TRUE

\* The WHERE of updateRow: the row is what it was when the batch was read.
Unchanged(r, seen) ==
    /\ r.ver < 1
    /\ <<r.sa, r.dir, r.cs, r.data, r.rich>> = <<seen.sa, seen.dir, seen.cs, seen.data, seen.rich>>

\* The updates of one batch, and what they set.
UpdateRows(rows, batch) ==
    [h \in DOMAIN rows |->
        IF h \in DOMAIN batch /\ Unchanged(rows[h], batch[h])
          THEN [Classify(h, batch[h]) EXCEPT !.real = rows[h].real] ELSE rows[h]]

\* What is true of a legacy row's sequence.
Truth(h, r) == r.sa /\ IF h \in PrivateIds THEN r.cs ELSE r.data # "placeholder"

\* A legacy row, in a database whose columns are cols; a release with the
\* column had begun to mark the placeholders.
LegacyRow(h, cols) ==
    {r \in Row :
        /\ r.ver = 0 /\ ~r.dir /\ ~r.rich
        /\ ~r.sa => r.data = "placeholder" /\ "sequence_authoritative" \in cols
        /\ h \in PrivateIds => r.data # "placeholder"
        /\ h \in GroupIds => ~r.cs
        /\ r.real = Truth(h, r)}

\* The databases an upgrade may find, with group messages or without: of a release without any of the last
\* three columns, or with the first one; of one that has classified its rows,
\* and says so in message_store_migrations (`record`); or a fresh one, just
\* created, which has no legacy media (`source`) beside it.
Legacy(cols) ==
    {[cols |-> cols, record |-> FALSE, rows |-> f, state |-> NoState,
      source |-> TRUE, media |-> [phase |-> "entries", cursor |-> 0], entries |-> {}, keys |-> {},
      recalled |-> {}] :
        f \in UNION {{g \in [ids -> Row] : \A h \in ids : g[h] \in LegacyRow(h, cols)} :
                        ids \in {Hashes, PrivateIds}}}

Classified ==
    {[d EXCEPT !.cols = @ \cup {"private_direction"}, !.record = TRUE,
               !.rows = [h \in DOMAIN @ |-> [Classify(h, @[h]) EXCEPT !.ver = 0]]] :
        d \in Legacy({"sequence_authoritative"})}

Fresh ==
    {[cols |-> Range(Columns) \ {"media_data"}, record |-> FALSE, rows |-> <<>>, state |-> NoState,
      source |-> FALSE, media |-> [phase |-> "entries", cursor |-> 0], entries |-> {}, keys |-> {},
      recalled |-> {}]}

Init ==
    /\ db \in Legacy({}) \cup Legacy({"sequence_authoritative"}) \cup Classified \cup Fresh
    /\ w = [k \in Slots |-> NoWorker]
    /\ task = [cur |-> None, store |-> FALSE, done |-> FALSE]
    /\ faults = 0
    /\ writes = 0

-----------------------------------------------------------------------------
(* The manager and the task.  `cur`: the worker whose reports count;       *)
(* `store`: the instance has been started, its MessageStore is open;       *)
(* `done`: the worker has reported the phase complete.                     *)

\* prepareDatabase for a new session, and the retry after a failure.
Start(k) ==
    /\ task.cur = None /\ ~task.done
    /\ w[k].pc = "off"
    /\ w' = [w EXCEPT ![k] = [NoWorker EXCEPT !.pc = "columns"]]
    /\ task' = [task EXCEPT !.cur = k]
    /\ UNCHANGED <<db, faults, writes>>

\* onReady starts the instance and posts 'start'.
OnReady(k) ==
    /\ w[k].pc = "ready" /\ task.cur = k
    /\ w' = [w EXCEPT ![k].pc = "load"]
    /\ task' = [task EXCEPT !.store = TRUE]
    /\ UNCHANGED <<db, faults, writes>>

\* The worker is gone; the manager hears of it unless it has cancelled it.
Gone(k) ==
    /\ w' = [w EXCEPT ![k] = NoWorker]
    /\ task' = IF task.cur = k THEN [task EXCEPT !.cur = None] ELSE task

\* The session closes: the instance is released and the task cancelled.
Close ==
    /\ task.cur # None \/ task.store
    /\ faults < Faults
    /\ w' = [k \in Slots |-> IF k = task.cur THEN [w[k] EXCEPT !.cancelled = TRUE] ELSE w[k]]
    /\ task' = [cur |-> None, store |-> FALSE, done |-> FALSE]
    /\ faults' = faults + 1
    /\ UNCHANGED <<db, writes>>

\* The program is killed.
Crash ==
    /\ faults < Faults
    /\ w' = [k \in Slots |-> NoWorker]
    /\ task' = [cur |-> None, store |-> FALSE, done |-> FALSE]
    /\ faults' = faults + 1
    /\ UNCHANGED <<db, writes>>

\* A statement fails, a transaction is rolled back: the worker reports
\* 'failed' and ends.
Fail(k) ==
    /\ w[k].pc \notin {"off", "ready", "loop"}
    /\ faults < Faults
    /\ Gone(k)
    /\ faults' = faults + 1
    /\ UNCHANGED <<db, writes>>

\* A cancelled worker ends where it looks at `cancelled`.
CancelledEnds(k) ==
    /\ w[k].pc \in {"copy", "ready", "loop"} /\ w[k].cancelled
    /\ Gone(k)
    /\ UNCHANGED <<db, faults, writes>>

-----------------------------------------------------------------------------
(* prepareMessageStoreDatabase.                                            *)

\* existingRowsAreCurrent
RowsAreCurrent(d) ==
    {"sequence_authoritative", "private_direction"} \subseteq d.cols /\ d.record

\* PRAGMA table_info
ReadColumns(k) ==
    /\ w[k].pc = "columns"
    /\ w' = [w EXCEPT ![k].pc = "alter",
                      ![k].todo = {i \in DOMAIN Columns : Columns[i] \notin db.cols},
                      ![k].current = RowsAreCurrent(db)]
    /\ UNCHANGED <<db, task, faults, writes>>

\* ALTER TABLE messages ADD COLUMN; the default of the last one is the
\* version of the rows there are.
AddColumn(k) ==
    /\ w[k].pc = "alter" /\ w[k].todo # {}
    /\ LET c == Columns[Min(w[k].todo)]
           ver == IF w[k].current THEN 1 ELSE 0
       IN  IF c \in db.cols
             THEN Gone(k) /\ UNCHANGED db           \* duplicate column name
           ELSE /\ db' = [db EXCEPT !.cols = @ \cup {c},
                                    !.rows = [h \in DOMAIN @ |->
                                        IF c = "classification_version"
                                          THEN [@[h] EXCEPT !.ver = ver] ELSE @[h]]]
                /\ w' = [w EXCEPT ![k].todo = @ \ {Min(@)}]
                /\ UNCHANGED task
    /\ UNCHANGED <<faults, writes>>

(* migrateLegacyMedia: first the entries, then the keys, in batches of one *)
(* row, each with the cursor in one transaction; nothing to do without a   *)
(* source.                                                                 *)
LoadMedia(k) ==
    /\ w[k].pc = "alter" /\ w[k].todo = {}
    /\ LET m == IF db.source THEN db.media ELSE [db.media EXCEPT !.phase = "complete"]
       IN  /\ db' = [db EXCEPT !.media = m]
           /\ w' = [w EXCEPT ![k].pc = "copy", ![k].media = m]
    /\ UNCHANGED <<task, faults, writes>>

\* Mutant: the cursor stays where the last table ended.
NextMediaKeepingCursor(m) ==
    IF m.cursor < MediaRows THEN [m EXCEPT !.cursor = @ + 1]
    ELSE [m EXCEPT !.phase = IF @ = "entries" THEN "keys" ELSE "complete"]

\* Mutant: one row too many is looked for.
NextMediaBeyond(m) ==
    IF m.cursor <= MediaRows THEN [m EXCEPT !.cursor = @ + 1]
    ELSE [phase |-> IF m.phase = "entries" THEN "keys" ELSE "complete", cursor |-> 0]

NextMedia(m) ==
    IF m.cursor < MediaRows THEN [m EXCEPT !.cursor = @ + 1]
    ELSE [phase |-> IF m.phase = "entries" THEN "keys" ELSE "complete", cursor |-> 0]

CopyMedia(k) ==
    /\ w[k].pc = "copy" /\ ~w[k].cancelled
    /\ LET m == w[k].media
           next == NextMedia(m)
           copied(p) == IF m.phase = p /\ m.cursor < MediaRows THEN {m.cursor + 1} ELSE {}
       IN  IF m.phase = "complete"
             THEN w' = [w EXCEPT ![k].pc = "ready"] /\ UNCHANGED db
           ELSE /\ db' = [db EXCEPT !.media = next,
                                    !.entries = @ \cup copied("entries"),
                                    !.keys = @ \cup copied("keys")]
                /\ w' = [w EXCEPT ![k].media = next]
    /\ UNCHANGED <<task, faults, writes>>

-----------------------------------------------------------------------------
(* MessageStoreMigrator.                                                   *)

\* Mutant: a migration under way is not found again.
LoadOnlyComplete(k) ==
    /\ w[k].pc = "load"
    /\ LET total == Cardinality(Pending(db.rows))
       IN  w' = IF db.state.phase = "complete"
                  THEN [w EXCEPT ![k].pc = "read", ![k].st = db.state]
                ELSE [w EXCEPT ![k].pc = "insert",
                               ![k].st = [phase |-> IF total = 0 THEN "complete" ELSE "migrating",
                                          cursor |-> 0]]
    /\ UNCHANGED <<db, task, faults, writes>>

\* loadOrCreateState: what is there, or else a count.
Load(k) ==
    /\ w[k].pc = "load"
    /\ LET total == Cardinality(Pending(db.rows))
       IN  w' = IF db.state # NoState
                  THEN [w EXCEPT ![k].pc = "read", ![k].st = db.state]
                ELSE [w EXCEPT ![k].pc = "insert",
                               ![k].st = [phase |-> IF total = 0 THEN "complete" ELSE "migrating",
                                          cursor |-> 0]]
    /\ UNCHANGED <<db, task, faults, writes>>

\* Its INSERT, which fails when another worker has made the row.
Insert(k) ==
    /\ w[k].pc = "insert"
    /\ IF db.state # NoState THEN Gone(k) /\ UNCHANGED db
       ELSE /\ db' = [db EXCEPT !.state = w[k].st]
            /\ w' = [w EXCEPT ![k].pc = "read"]
            /\ UNCHANGED task
    /\ UNCHANGED <<faults, writes>>

Loop(k) ==
    /\ w[k].pc = "loop" /\ ~w[k].cancelled
    /\ w' = [w EXCEPT ![k].pc = "read"]
    /\ UNCHANGED <<db, task, faults, writes>>

\* runBatch, when nothing is left to do: the worker reports it and ends.
Complete(k) ==
    /\ w[k].pc = "read" /\ w[k].st.phase = "complete"
    /\ w' = [w EXCEPT ![k] = NoWorker]
    /\ task' = IF task.cur = k THEN [task EXCEPT !.cur = None, !.done = TRUE] ELSE task
    /\ UNCHANGED <<db, faults, writes>>

\* Otherwise it reads a batch, from the start again when none is left beyond
\* the cursor.
Read(k) ==
    /\ w[k].pc = "read" /\ w[k].st.phase # "complete"
    /\ LET beyond == ReadBatch(db.rows, w[k].st.cursor)
           batch == IF beyond = {} THEN ReadBatch(db.rows, 0) ELSE beyond
       IN  w' = [w EXCEPT ![k].batch = Restrict(db.rows, batch),
                          ![k].pc = IF batch = {} THEN "count" ELSE "commit"]
    /\ UNCHANGED <<db, task, faults, writes>>

\* The transaction of a batch.
Commit(k) ==
    /\ w[k].pc = "commit"
    /\ LET batch == w[k].batch
           st == [w[k].st EXCEPT !.cursor = Max(DOMAIN batch)]
       IN  /\ db' = [db EXCEPT !.rows = UpdateRows(@, batch), !.state = st]
           /\ w' = [w EXCEPT ![k].st = st,
                             ![k].pc = IF Cardinality(DOMAIN batch) < BatchSize THEN "count" ELSE "loop"]
    /\ UNCHANGED <<task, faults, writes>>

\* Mutant: a short batch is taken for the last one.
CountNothing(k) ==
    /\ w[k].pc = "count"
    /\ w' = [w EXCEPT ![k].pc = "persist", ![k].batch = <<>>,
                      ![k].new = [phase |-> "complete", cursor |-> 0]]
    /\ UNCHANGED <<db, task, faults, writes>>

\* countPending, after an empty or a short batch.
Count(k) ==
    /\ w[k].pc = "count"
    /\ LET remaining == Cardinality(Pending(db.rows))
           phase == IF remaining = 0 THEN "complete" ELSE "migrating"
       IN  w' = IF remaining # 0 /\ w[k].batch # <<>>
                  THEN [w EXCEPT ![k].pc = "loop", ![k].batch = <<>>]
                ELSE [w EXCEPT ![k].pc = "persist", ![k].batch = <<>>,
                               ![k].new = [phase |-> phase, cursor |-> 0]]
    /\ UNCHANGED <<db, task, faults, writes>>

\* persistState; getStatus then tells the loop whether to go on.
Persist(k) ==
    /\ w[k].pc = "persist"
    /\ db' = [db EXCEPT !.state = w[k].new]
    /\ w' = [w EXCEPT ![k].st = w[k].new, ![k].new = NoState,
                      ![k].pc = IF w[k].new.phase = "complete" THEN "read" ELSE "loop"]
    /\ UNCHANGED <<task, faults, writes>>

-----------------------------------------------------------------------------
(* The live writes of MessageStore.                                        *)

\* storeMeta
PutMeta(d, h, sa, cs) ==
    LET old == d.rows[h]
        r == [ver |-> 1, sa |-> sa, dir |-> h \in PrivateIds, cs |-> cs, real |-> sa,
              data |-> IF h \in DOMAIN d.rows THEN old.data ELSE "null",
              rich |-> h \in DOMAIN d.rows /\ old.rich]
    IN  [d EXCEPT !.rows = IF h \in d.recalled /\ cs THEN Delete(@, h) ELSE Put(@, h, r)]

\* storeEvent; a private row there is keeps its sequence and its version.
PutEvent(d, h, sa) ==
    LET there == h \in DOMAIN d.rows
        old == d.rows[h]
        r == [ver |-> 1, sa |-> sa, dir |-> FALSE, cs |-> there /\ old.cs, real |-> sa,
              data |-> IF sa THEN "event" ELSE "placeholder", rich |-> FALSE]
    IN  IF h \in GroupIds THEN [d EXCEPT !.rows = Put(@, h, r)]
        ELSE IF h \in d.recalled THEN [d EXCEPT !.rows = Delete(@, h)]
        ELSE IF there
          THEN [d EXCEPT !.rows[h] = [old EXCEPT !.data = "event", !.rich = FALSE, !.dir = TRUE]]
        ELSE [d EXCEPT !.rows = Put(@, h, [r EXCEPT !.data = "event", !.dir = TRUE])]

\* updateMedia
PutMedia(d, h) == [d EXCEPT !.rows[h].rich = TRUE]

\* recordPrivateRecall: the tombstone, and the row its key is found in.
Recall(d, h) ==
    [d EXCEPT !.recalled = @ \cup {h},
              !.rows = IF h \in DOMAIN @ /\ @[h].cs /\ @[h].dir THEN Delete(@, h) ELSE @]

Live(d) ==
    /\ task.store
    /\ writes < Writes
    /\ db' = d
    /\ writes' = writes + 1
    /\ UNCHANGED <<w, task, faults>>

StoreMeta(h) == \E sa, cs \in BOOLEAN : (cs => h \in PrivateIds) /\ Live(PutMeta(db, h, sa, cs))

StoreEvent(h) == \E sa \in BOOLEAN : Live(PutEvent(db, h, sa))

\* storeHistoryEvent, with its metadata: both in one transaction.
StoreHistoryEvent(h) == \E sa \in BOOLEAN : Live(PutEvent(PutMeta(db, h, sa, h \in PrivateIds), h, sa))

\* storeMetas: all of them in one transaction.
StoreMetas == \E sa \in BOOLEAN :
    Live([db EXCEPT !.rows = [h \in Hashes \ db.recalled |->
        PutMeta(db, h, sa, h \in PrivateIds).rows[h]]])

UpdateMedia(h) == h \in DOMAIN db.rows /\ db.rows[h].data # "null" /\ Live(PutMedia(db, h))

RecordPrivateRecall(h) == h \in PrivateIds /\ Live(Recall(db, h))

-----------------------------------------------------------------------------
Worker(k) ==
    \/ CancelledEnds(k)
    \/ ReadColumns(k)
    \/ AddColumn(k)
    \/ LoadMedia(k)
    \/ CopyMedia(k)
    \/ Load(k)
    \/ Insert(k)
    \/ Loop(k)
    \/ Complete(k)
    \/ Read(k)
    \/ Commit(k)
    \/ Count(k)
    \/ Persist(k)

Writer ==
    \/ \E h \in Hashes :
        \/ StoreMeta(h)
        \/ StoreEvent(h)
        \/ StoreHistoryEvent(h)
        \/ UpdateMedia(h)
        \/ RecordPrivateRecall(h)
    \/ StoreMetas

Next ==
    \/ \E k \in Slots : Start(k) \/ OnReady(k) \/ Worker(k) \/ Fail(k)
    \/ Writer
    \/ Close
    \/ Crash

Spec == Init /\ [][Next]_vars

\* The account comes back, the retry timer fires, and a worker that runs
\* goes on: its statements end, well or not.
FairSpec ==
    /\ Spec
    /\ \A k \in Slots : WF_vars(Worker(k)) /\ WF_vars(OnReady(k))
    /\ WF_vars(\E k \in Slots : Start(k))

-----------------------------------------------------------------------------
TypeOK ==
    /\ db.cols \subseteq Range(Columns)
    /\ DOMAIN db.rows \subseteq Hashes /\ Range(db.rows) \subseteq Row
    /\ db.state \in State \cup {NoState}
    /\ db.media \in MediaState
    /\ db.entries \cup db.keys \subseteq 1..MediaRows
    /\ db.recalled \subseteq PrivateIds
    /\ \A k \in Slots :
        /\ w[k].pc \in Pcs
        /\ {w[k].st, w[k].new} \subseteq State \cup {NoState}
        /\ w[k].media \in MediaState
    /\ task \in [cur: Slots \cup {None}, store: BOOLEAN, done: BOOLEAN]
    /\ faults \in 0..Faults /\ writes \in 0..Writes

\* The phase 'complete' on disk, which later sessions trust without looking
\* at the rows again, means that no row is left to classify: whatever crashed,
\* was written meanwhile, or was still running for an earlier session.
CompleteMeansDone ==
    db.state.phase = "complete" \/ task.done =>
        "classification_version" \in db.cols /\ Pending(db.rows) = {}

\* A row that counts as classified says the truth: its sequence is
\* authoritative exactly when it is the server's, and a private message that
\* has its event has its direction, by which a recall finds it.  No legacy row
\* is taken for a current one, and none is classified by what it once was.
ClassifiedByContent ==
    "classification_version" \in db.cols =>
        \A h \in DOMAIN db.rows : db.rows[h].ver = 1 =>
            /\ db.rows[h].sa = db.rows[h].real
            /\ h \in PrivateIds /\ db.rows[h].data # "null" => db.rows[h].dir

\* The account is served only when its database has every column that
\* MessageStore names and all of its legacy media metadata.
UsableMeansPrepared ==
    task.store =>
        /\ db.cols = Range(Columns)
        /\ db.source => db.entries = 1..MediaRows /\ db.keys = 1..MediaRows

\* Once faults cease, the migration is reported complete and stays so.
MigrationCompletes == <>[]task.done
==============================================================================
