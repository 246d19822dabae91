---------------------------- MODULE OneBotManager ----------------------------
(***************************************************************************)
(* OneBotManager (packages/onebot/src/manager.ts), for one account: which  *)
(* OneBotInstance serves the account's Bridge, which former ones are still *)
(* being released, how a new session waits for them, and how the account's *)
(* message database is prepared before an instance starts.  The maps are   *)
(* keyed by account and accounts meet only in dispose(), which waits for   *)
(* every one of them.                                                      *)
(*                                                                         *)
(* Sessions are the account's Bridges, announced by BridgeManager in turn: *)
(* started, then closed, then the next.  An instance is made for a Bridge, *)
(* and known by it.  An action is one turn of the event loop, up to its    *)
(* next await.  A promise that settles wakes those who await it; their     *)
(* continuations are microtasks, which run before the next timer, worker   *)
(* report or settled release (Idle).  A session, or dispose(), may come in *)
(* between: BridgeManager announces sessions from its own continuations.   *)
(*                                                                         *)
(* Left out: the history sync an instance may begin, configuration reloads,*)
(* which are the instance's own, and progress figures.                     *)
(***************************************************************************)
EXTENDS Naturals

CONSTANT
    Logins      \* bound: how many Bridges the account has, one after the other

ASSUME LoginsAssumption == Logins \in Nat

Sessions == 1..Logins

\* No Bridge, and no instance.
None == 0

VARIABLES
    m,          \* the manager
    session,    \* the account's Bridge now
    last        \* the last one it has had

vars == <<m, session, last>>

-----------------------------------------------------------------------------
(* What awaits a promise: nothing yet, or how it has settled.              *)
Wake == {"wait", "ok", "bad"}

Woken == {"ok", "bad"}

\* An instance.  `busy`: an attempt of dispose() is under way; `forced`:
\* forceRelease() has been called; `startup`: what its startup operation
\* awaits; `closing`: what emitOfflineThenDispose awaits; `final`: what the manager's
\* dispose() awaits of it.
Instance == [
    st: {"none", "live", "released"},
    busy: BOOLEAN,
    forced: BOOLEAN,
    startup: {"none", "network", "online"},
    closing: {"none", "offline"} \cup Wake,
    final: {"none"} \cup Wake]

NoInstance == [st |-> "none", busy |-> FALSE, forced |-> FALSE, startup |-> "none",
               closing |-> "none", final |-> "none"]

\* finishRetiringBeforeStart: the instances it has yet to release, the one
\* whose release it awaits, and what has come of that.
Handoff == [todo: SUBSET Sessions, at: Sessions \cup {None}, got: {"none"} \cup Wake]

NoHandoff == [todo |-> {}, at |-> None, got |-> "none"]

\* databaseMigrations.get(uin).  `ready`: the task has reported that the
\* database can be used; `retry`: the retry timer is set.
Migration == [
    for: Sessions \cup {None},
    phase: {"preparing", "migrating", "complete", "failed"},
    usable: BOOLEAN,
    ready: BOOLEAN,
    retry: BOOLEAN]

NoMigration ==
    [for |-> None, phase |-> "preparing", usable |-> FALSE, ready |-> FALSE, retry |-> FALSE]

Manager == [
    instance: Sessions \cup {None},         \* instances.get(uin)
    obj: [Sessions -> Instance],
    retiring: SUBSET Sessions,              \* retiringInstances
    pending: Sessions \cup {None},          \* pendingStarts.get(uin)
    hand: [Sessions -> Handoff],
    mig: Migration,
    failed: SUBSET Sessions,                \* lifecycleFailures that name an instance
    startFailed: BOOLEAN,                   \* and those that name none
    disposal: {"none", "draining", "releasing", "done", "failed"}]

Disposed(x) == x.disposal # "none"

-----------------------------------------------------------------------------
(* The methods, from the manager to the manager.                           *)

\* instance.dispose(): joins the attempt under way or begins one; one that
\* has succeeded is remembered.
Dispose(x, i) ==
    IF x.obj[i].st = "released" THEN x ELSE [x EXCEPT !.obj[i].busy = TRUE]

\* What an await of it finds.
Found(x, i) == IF x.obj[i].st = "released" THEN "ok" ELSE "wait"

\* Mutant: what had failed before stays on record.
RetirementSucceededOnly(x, i) == [x EXCEPT !.retiring = @ \ {i}]

RetirementSucceeded(x, i) ==
    [x EXCEPT !.retiring = @ \ {i}, !.failed = @ \ {i}]

\* handleFailure: the task is cancelled and tried again later.
MigrationFailed(x, retryable) ==
    [x EXCEPT !.mig.phase = "failed", !.mig.ready = FALSE, !.mig.retry = retryable]

\* prepareDatabase; `ok`: its task could be started.
PrepareDatabase(x, b, ok) ==
    LET y == [x EXCEPT !.mig = [NoMigration EXCEPT !.for = b]]
    IN  IF Disposed(x) \/ x.instance # None \/ x.mig.for # None THEN x
        ELSE IF ok THEN y ELSE MigrationFailed(y, TRUE)

\* startSession, when nothing throws.
StartSession(x, b) ==
    IF Disposed(x) \/ x.instance # None THEN x
    ELSE [x EXCEPT !.instance = b,
                   !.obj[b] = [NoInstance EXCEPT !.st = "live", !.startup = "network"]]

\* The loop of finishRetiringBeforeStart: it begins to release i, or, with
\* none left, prepares the database unless the start was called off.
Release(x, b, i, ok) ==
    LET y == [x EXCEPT !.hand[b] = NoHandoff]
    IN  IF i # None
          THEN Dispose([x EXCEPT !.hand[b] = [todo |-> @.todo \ {i}, at |-> i,
                                              got |-> Found(x, i)]], i)
        ELSE IF x.pending # b THEN y
        ELSE PrepareDatabase([y EXCEPT !.pending = None], b, ok)

\* Whose turn it is in that loop.
Turn(todo) == IF todo = {} THEN {None} ELSE todo

-----------------------------------------------------------------------------
Init ==
    /\ m = [instance |-> None, obj |-> [b \in Sessions |-> NoInstance], retiring |-> {},
            pending |-> None, hand |-> [b \in Sessions |-> NoHandoff], mig |-> NoMigration,
            failed |-> {}, startFailed |-> FALSE, disposal |-> "none"]
    /\ session = None
    /\ last = None

\* The microtasks have run.
Idle ==
    \A b \in Sessions : m.obj[b].closing \notin Woken /\ m.hand[b].got \notin Woken

\* Mutant: the new session does not wait for the retiring instances.
OnSessionStartedAtOnce(b, i, ok) ==
    /\ session = None /\ b = last + 1
    /\ session' = b /\ last' = b
    /\ i = None
    /\ m' = IF Disposed(m) \/ m.instance # None \/ m.pending # None THEN m
            ELSE PrepareDatabase(m, b, ok)

\* onSessionStarted
OnSessionStarted(b, i, ok) ==
    /\ session = None /\ b = last + 1
    /\ session' = b /\ last' = b
    /\ i \in Turn(m.retiring)
    /\ m' = IF Disposed(m) \/ m.instance # None \/ m.pending # None THEN m
            ELSE IF m.retiring = {} THEN PrepareDatabase(m, b, ok)
            ELSE Release([m EXCEPT !.pending = b, !.hand[b].todo = m.retiring], b, i, ok)

\* Mutant: a start that waits is not called off.
OnSessionClosedKeepingStart ==
    /\ session # None
    /\ session' = None /\ UNCHANGED last
    /\ LET x == [m EXCEPT !.mig = NoMigration]
           i == m.instance
       IN  m' = IF Disposed(m) THEN m
                ELSE IF i = None THEN x
                ELSE [x EXCEPT !.instance = None, !.retiring = @ \cup {i},
                               !.obj[i].closing = "offline"]

\* onSessionClosed: the migration is cancelled, and the instance retires or
\* the waiting start is called off.
OnSessionClosed ==
    /\ session # None
    /\ session' = None /\ UNCHANGED last
    /\ LET x == [m EXCEPT !.mig = NoMigration]
           i == m.instance
       IN  m' = IF Disposed(m) THEN m
                ELSE IF i = None THEN [x EXCEPT !.pending = None]
                ELSE [x EXCEPT !.instance = None, !.retiring = @ \cup {i},
                               !.obj[i].closing = "offline"]

-----------------------------------------------------------------------------
(* The database task of the current migration.  A task that was cancelled  *)
(* or replaced reports to nobody.                                          *)

Reporting == m.mig.for # None /\ m.mig.phase \notin {"failed", "complete"}

\* onReady.  Starting the session may fail, for good when the account's
\* configuration is invalid; so may beginMigration.
DatabaseReady(how) ==
    /\ Idle /\ Reporting /\ ~m.mig.ready
    /\ m.instance # None => how \in {"begun", "stuck"}
    /\ LET b == m.mig.for
           y == [StartSession(m, b) EXCEPT !.mig.phase = "migrating", !.mig.usable = TRUE,
                                           !.mig.ready = TRUE]
       IN  m' = CASE how = "begun"   -> y
                  [] how = "stuck"   -> MigrationFailed(y, TRUE)
                  [] how = "failed"  -> MigrationFailed(m, TRUE)
                  [] how = "invalid" -> MigrationFailed(m, FALSE)
    /\ UNCHANGED <<session, last>>

\* onProgress, when the last batch has been migrated.
DatabaseMigrated ==
    /\ Idle /\ Reporting /\ m.mig.ready
    /\ m' = [m EXCEPT !.mig.phase = "complete", !.mig.usable = TRUE]
    /\ UNCHANGED <<session, last>>

\* onFailed
DatabaseFails ==
    /\ Idle /\ Reporting
    /\ m' = MigrationFailed(m, TRUE)
    /\ UNCHANGED <<session, last>>

\* The retry timer; `ok`: the new task could be started.
RetryDatabase(ok) ==
    /\ Idle /\ m.mig.retry
    /\ LET x == [m EXCEPT !.mig.retry = FALSE, !.mig.ready = FALSE,
                          !.mig.phase = IF m.mig.usable THEN "migrating" ELSE "preparing"]
       IN  m' = IF ok THEN x ELSE MigrationFailed(x, TRUE)
    /\ UNCHANGED <<session, last>>

-----------------------------------------------------------------------------
(* An instance.                                                            *)

\* waitUntilNetworkReady settles; the account is announced online while the
\* instance is still the account's.
StartupSettles(i, ok) ==
    /\ Idle /\ m.obj[i].startup = "network"
    /\ m' = [m EXCEPT !.obj[i].startup =
                          IF ok /\ m.instance = i /\ ~Disposed(m) THEN "online" ELSE "none",
                      !.startFailed = @ \/ ~ok]
    /\ UNCHANGED <<session, last>>

OnlineSent(i) ==
    /\ Idle /\ m.obj[i].startup = "online"
    /\ m' = [m EXCEPT !.obj[i].startup = "none"]
    /\ UNCHANGED <<session, last>>

\* emitOfflineThenDispose after `await instance.emitBotStatus('offline')`
OfflineSent(i) ==
    /\ Idle /\ m.obj[i].closing = "offline"
    /\ m' = Dispose([m EXCEPT !.obj[i].closing = Found(m, i)], i)
    /\ UNCHANGED <<session, last>>

Settle(w, ok) == IF w # "wait" THEN w ELSE IF ok THEN "ok" ELSE "bad"

\* The instance whose attempt has settled, and those who await it of itself.
Settled(o, ok) ==
    [o EXCEPT !.st = IF ok THEN "released" ELSE @, !.busy = FALSE,
              !.closing = Settle(@, ok), !.final = Settle(@, ok)]

\* An attempt of instance.dispose() settles, behind the instance's startup,
\* and wakes all who share it.
DisposeSettles(i, ok) ==
    /\ Idle /\ m.obj[i].busy /\ m.obj[i].startup # "network"
    /\ m' = [m EXCEPT
               !.obj[i] = Settled(@, ok),
               !.hand = [b \in Sessions |->
                           IF m.hand[b].at = i THEN [m.hand[b] EXCEPT !.got = Settle(@, ok)]
                           ELSE m.hand[b]]]
    /\ UNCHANGED <<session, last>>

\* emitOfflineThenDispose after `await instance.dispose()`; a failure is
\* recorded by trackLifecycle.
ClosingResumes(i) ==
    /\ m.obj[i].closing \in Woken
    /\ LET x == [m EXCEPT !.obj[i].closing = "none"]
       IN  m' = IF m.obj[i].closing = "ok" THEN RetirementSucceeded(x, i)
                ELSE [x EXCEPT !.failed = @ \cup {i}]
    /\ UNCHANGED <<session, last>>

\* Mutant: a failed release lets the replacement start.
HandoffResumesAnyway(b, i, ok) ==
    /\ m.hand[b].got \in Woken
    /\ i \in Turn(m.hand[b].todo)
    /\ m' = Release(RetirementSucceeded(m, m.hand[b].at), b, i, ok)
    /\ UNCHANGED <<session, last>>

\* finishRetiringBeforeStart after a release that has settled.
HandoffResumes(b, i, ok) ==
    /\ m.hand[b].got \in Woken
    /\ i \in Turn(m.hand[b].todo)
    /\ m' = IF m.hand[b].got = "ok"
              THEN Release(RetirementSucceeded(m, m.hand[b].at), b, i, ok)
              ELSE [m EXCEPT !.hand[b] = NoHandoff,
                             !.pending = IF @ = b THEN None ELSE @,
                             !.failed = @ \cup {m.hand[b].at}]
    /\ UNCHANGED <<session, last>>

\* Mutant: the deadline forces the adapters closed and goes on waiting.
HandoffTimesOutGivingUp(b, i, ok) ==
    /\ Idle /\ m.hand[b].got = "wait"
    /\ i \in Turn(m.hand[b].todo)
    /\ m' = [m EXCEPT !.obj[m.hand[b].at].forced = TRUE]
    /\ UNCHANGED <<session, last>>

\* The release deadline: the instance is forced closed and no longer waited for.
HandoffTimesOut(b, i, ok) ==
    /\ Idle /\ m.hand[b].got = "wait"
    /\ i \in Turn(m.hand[b].todo)
    /\ LET old == m.hand[b].at
       IN  m' = Release(RetirementSucceeded([m EXCEPT !.obj[old].forced = TRUE], old), b, i, ok)
    /\ UNCHANGED <<session, last>>

-----------------------------------------------------------------------------
(* dispose()                                                               *)

\* Mutants: a retiring set that takes an absent instance; the running
\* instance is dropped without being retired.
ManagerDisposeAbsent ==
    /\ m.disposal \in {"none", "failed"}
    /\ m' = [m EXCEPT !.disposal = "draining", !.mig = NoMigration, !.instance = None,
                      !.retiring = @ \cup {m.instance}]
    /\ UNCHANGED <<session, last>>

ManagerDisposeDropping ==
    /\ m.disposal \in {"none", "failed"}
    /\ m' = [m EXCEPT !.disposal = "draining", !.mig = NoMigration, !.instance = None]
    /\ UNCHANGED <<session, last>>

ManagerDispose ==
    /\ m.disposal \in {"none", "failed"}
    /\ m' = [m EXCEPT !.disposal = "draining", !.mig = NoMigration, !.instance = None,
                      !.retiring = IF m.instance = None THEN @ ELSE @ \cup {m.instance}]
    /\ UNCHANGED <<session, last>>

\* pendingLifecycle is empty.  No operation begins once dispose() has been
\* called, so that waiting for those it found is waiting for all.
Drained ==
    \A b \in Sessions : /\ m.obj[b].startup = "none" /\ m.obj[b].closing = "none"
                        /\ m.hand[b].got = "none"

\* `await Promise.all(this.pendingLifecycle)` is over: every retiring
\* instance is disposed of.
DisposeInstances ==
    /\ m.disposal = "draining" /\ Drained
    /\ m' = [m EXCEPT
               !.disposal = "releasing",
               !.obj = [i \in Sessions |->
                          IF i \in m.retiring
                            THEN [m.obj[i] EXCEPT !.final = Found(m, i),
                                                  !.busy = @ \/ m.obj[i].st # "released"]
                            ELSE m.obj[i]]]
    /\ UNCHANGED <<session, last>>

\* Promise.allSettled: a success takes back the failures of that instance,
\* and what is left of them is thrown.
DisposeEnds ==
    /\ m.disposal = "releasing"
    /\ \A i \in Sessions : m.obj[i].final # "wait"
    /\ LET bad  == {i \in Sessions : m.obj[i].final = "bad"}
           good == {i \in Sessions : m.obj[i].final = "ok"}
           left == (m.failed \cup bad) \ good
       IN  m' = [m EXCEPT
                   !.disposal = IF left = {} /\ ~m.startFailed THEN "done" ELSE "failed",
                   !.pending = IF left = {} /\ ~m.startFailed THEN None ELSE @,
                   !.retiring = @ \ good, !.failed = {}, !.startFailed = FALSE,
                   !.obj = [i \in Sessions |-> [m.obj[i] EXCEPT !.final = "none"]]]
    /\ UNCHANGED <<session, last>>

Next ==
    \/ \E b \in Sessions, i \in Sessions \cup {None}, ok \in BOOLEAN : OnSessionStarted(b, i, ok)
    \/ OnSessionClosed
    \/ \E how \in {"begun", "stuck", "failed", "invalid"} : DatabaseReady(how)
    \/ DatabaseMigrated
    \/ DatabaseFails
    \/ \E ok \in BOOLEAN : RetryDatabase(ok)
    \/ \E i \in Sessions, ok \in BOOLEAN : StartupSettles(i, ok)
    \/ \E i \in Sessions : OnlineSent(i)
    \/ \E i \in Sessions : OfflineSent(i)
    \/ \E i \in Sessions, ok \in BOOLEAN : DisposeSettles(i, ok)
    \/ \E i \in Sessions : ClosingResumes(i)
    \/ \E b \in Sessions, i \in Sessions \cup {None}, ok \in BOOLEAN : HandoffResumes(b, i, ok)
    \/ \E b \in Sessions, i \in Sessions \cup {None}, ok \in BOOLEAN : HandoffTimesOut(b, i, ok)
    \/ ManagerDispose
    \/ DisposeInstances
    \/ DisposeEnds

\* Microtasks run, timers fire, and the worker of a migration that has not
\* reported yet does so, with success or without, or exits.  Nothing is
\* assumed of the adapters: a release or a notice may never finish.
Fairness ==
    /\ \A i \in Sessions : WF_vars(ClosingResumes(i))
    /\ \A b \in Sessions :
         WF_vars(\E i \in Sessions \cup {None}, ok \in BOOLEAN :
                   HandoffResumes(b, i, ok) \/ HandoffTimesOut(b, i, ok))
    /\ WF_vars(DatabaseFails \/ \E how \in {"begun", "stuck", "failed", "invalid"} :
                                  DatabaseReady(how))
    /\ WF_vars(\E ok \in BOOLEAN : RetryDatabase(ok))

Spec == Init /\ [][Next]_vars /\ Fairness

-----------------------------------------------------------------------------
TypeOK ==
    /\ m \in Manager
    /\ session \in Sessions \cup {None}
    /\ last \in Sessions \cup {None}

\* A replacement starts only when every earlier instance of the account has
\* been released or forced closed: two generations never hold the adapters'
\* ports together.
OneGeneration ==
    m.instance # None =>
        /\ m.retiring = {}
        /\ \A b \in Sessions \ {m.instance} : m.obj[b].st = "live" => m.obj[b].forced

\* Nothing is done for a Bridge that has closed: the instance, the migration
\* and the waiting start are those of the account's present Bridge, whatever
\* release or worker comes back late.
ServesPresentSession ==
    ~Disposed(m) => /\ m.instance \in {None, session}
                    /\ m.mig.for \in {None, session}
                    /\ m.pending \in {None, session}

\* "A zombie that still owns a port must remain observable": an instance that
\* was neither released nor forced closed is the account's or is retiring.
ZombiesObservable ==
    \A b \in Sessions : m.obj[b].st = "live" /\ ~m.obj[b].forced =>
        b = m.instance \/ b \in m.retiring

\* dispose() resolves only when every instance was released or forced closed,
\* whichever operations were pending or had failed before.
DisposedCleanly ==
    m.disposal = "done" =>
        /\ m.instance = None /\ m.retiring = {}
        /\ \A b \in Sessions : m.obj[b].st = "live" => m.obj[b].forced

\* "A later successful retry supersedes failures": a recorded failure is that of an
\* instance which has not been released since, once those who waited have run.
FailuresStand ==
    Idle /\ m.disposal # "releasing" => \A b \in m.failed : m.obj[b].st = "live"

\* "A peer that never finishes a close handshake must not keep the next
\* account session offline": a session gets its instance, unless it closes,
\* the former one's release fails outright, or its database does.
SessionServed ==
    \A b \in Sessions :
        (session = b /\ m.pending = b)
          ~> \/ m.instance = b \/ session # b \/ Disposed(m)
             \/ m.mig.phase = "failed"
             \/ m.pending # b /\ m.failed # {}
=============================================================================
