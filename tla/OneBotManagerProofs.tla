------------------------- MODULE OneBotManagerProofs -------------------------
(***************************************************************************)
(* Proofs about OneBotManager, for any number of sessions.                 *)
(***************************************************************************)
EXTENDS OneBotManager, TLAPS

-----------------------------------------------------------------------------
(* The inductive invariant, over a manager x and the session ss.           *)

\* An instance that was never made has left no trace.
Fresh(x) ==
    \A b \in Sessions : x.obj[b].st = "none" =>
        /\ x.obj[b] = NoInstance
        /\ b \notin x.retiring /\ b \notin x.failed
        /\ \A h \in Sessions : x.hand[h].at # b /\ b \notin x.hand[h].todo

\* What is done is done for the present session, and one thing at a time.
Serves(x, ss) ==
    /\ ~Disposed(x) => /\ x.instance \in {None, ss}
                       /\ x.mig.for \in {None, ss}
                       /\ x.pending \in {None, ss}
    /\ x.pending # None => x.instance = None /\ x.mig.for = None
    /\ Disposed(x) => x.instance = None /\ x.mig.for = None
    /\ x.mig.for = None => x.mig = NoMigration

\* Sessions come one after the other, each with an instance of its own.
Ordered(x, ss, ll) ==
    /\ ll \in Sessions \cup {None} /\ ss \in {None, ll}
    /\ \A b \in Sessions : b > ll => x.obj[b].st = "none" /\ x.hand[b].at = None
    /\ ~Disposed(x) /\ ss # None /\ x.instance = None => x.obj[ss].st = "none"

\* The running instance is nobody's to release.
Running(x) ==
    \A i \in Sessions : x.instance = i =>
        /\ x.obj[i].st = "live" /\ ~x.obj[i].busy
        /\ x.obj[i].closing = "none" /\ x.obj[i].final = "none"
        /\ \A h \in Sessions : x.hand[h].at # i /\ i \notin x.hand[h].todo

\* Nothing retires while the database is prepared or an instance runs.
Exclusive(x) == x.mig.for # None \/ x.instance # None => x.retiring = {}

Observable(x) ==
    \A b \in Sessions : x.obj[b].st = "live" /\ ~x.obj[b].forced =>
        b = x.instance \/ b \in x.retiring

\* The handoff of the waiting start has every retiring instance before it.
Handing(x) ==
    \A h \in Sessions :
        /\ x.hand[h].got = "none" <=> x.hand[h].at = None
        /\ x.pending = h => x.retiring \subseteq x.hand[h].todo \cup {x.hand[h].at}

\* What has been heard of a release is true.
Truthful(x) ==
    \A b \in Sessions :
        /\ x.obj[b].busy => x.obj[b].st = "live"
        /\ x.obj[b].closing = "ok" => x.obj[b].st = "released"
        /\ x.obj[b].closing = "bad" => x.obj[b].st = "live"
        /\ x.obj[b].final = "ok" => x.obj[b].st = "released"
        /\ \A h \in Sessions : x.hand[h].at = b =>
             /\ x.hand[h].got = "ok" => x.obj[b].st = "released"
             /\ x.hand[h].got = "bad" => x.obj[b].st = "live"

\* Who awaits the release of b, who has been told that it succeeded, and that it failed.
Awaited(x, b) ==
    \/ x.obj[b].closing = "wait" \/ x.obj[b].final = "wait"
    \/ \E h \in Sessions : x.hand[h].at = b /\ x.hand[h].got = "wait"

ToldOk(x, b) ==
    \/ x.obj[b].closing = "ok" \/ x.obj[b].final = "ok"
    \/ \E h \in Sessions : x.hand[h].at = b /\ x.hand[h].got = "ok"

ToldBad(x, b) ==
    \/ x.obj[b].closing = "bad"
    \/ \E h \in Sessions : x.hand[h].at = b /\ x.hand[h].got = "bad"

\* A failure on record is of an instance that is not released, or someone is
\* about to take it back.
Recorded(x) ==
    \A b \in Sessions :
        /\ b \in x.failed => x.obj[b].st = "live" \/ ToldOk(x, b)
        /\ x.obj[b].busy /\ (b \in x.failed \/ ToldBad(x, b)) => Awaited(x, b)

\* dispose() goes on when no operation is left, and waits for every retiring instance.
Quiet(x) ==
    \A b \in Sessions : /\ x.obj[b].startup = "none" /\ x.obj[b].closing = "none"
                        /\ x.hand[b].got = "none"

Disposing(x) ==
    /\ x.disposal \in {"releasing", "done", "failed"} => Quiet(x)
    /\ \A i \in Sessions : x.obj[i].final # "none" => x.disposal = "releasing"
    /\ x.disposal = "releasing" => \A i \in x.retiring : x.obj[i].final # "none"
    /\ x.disposal = "done" => x.retiring = {}

Sound(x, ss, ll) ==
    /\ x \in Manager
    /\ Fresh(x) /\ Serves(x, ss) /\ Ordered(x, ss, ll) /\ Running(x) /\ Exclusive(x)
    /\ Observable(x) /\ Handing(x) /\ Truthful(x) /\ Recorded(x) /\ Disposing(x)

IInv == Sound(m, session, last)

-----------------------------------------------------------------------------
(* The fields the invariant is about, and how they are written.            *)

SameRoles(x, y) == y.instance = x.instance /\ y.pending = x.pending /\ y.disposal = x.disposal

SameLists(x, y) == y.retiring = x.retiring /\ y.failed = x.failed

\* An instance object is replaced.
LEMMA PutObject ==
    ASSUME NEW x \in Manager, NEW i \in Sessions, NEW o \in Instance
    PROVE  LET y == [x EXCEPT !.obj[i] = o]
           IN  /\ y \in Manager /\ SameRoles(x, y) /\ SameLists(x, y)
               /\ y.mig = x.mig /\ y.hand = x.hand /\ y.startFailed = x.startFailed
               /\ y.obj[i] = o /\ \A j \in Sessions : j # i => y.obj[j] = x.obj[j]
<1> DEFINE y == [x EXCEPT !.obj[i] = o]
<1>1. y \in Manager
  BY DEF Manager
<1>2. /\ SameRoles(x, y) /\ SameLists(x, y)
      /\ y.mig = x.mig /\ y.hand = x.hand /\ y.startFailed = x.startFailed
  BY DEF Manager, SameRoles, SameLists
<1>3. y.obj[i] = o /\ \A j \in Sessions : j # i => y.obj[j] = x.obj[j]
  BY DEF Manager
<1> QED BY <1>1, <1>2, <1>3

\* A handoff is replaced.
LEMMA PutHand ==
    ASSUME NEW x \in Manager, NEW b \in Sessions, NEW d \in Handoff
    PROVE  LET y == [x EXCEPT !.hand[b] = d]
           IN  /\ y \in Manager /\ SameRoles(x, y) /\ SameLists(x, y)
               /\ y.mig = x.mig /\ y.obj = x.obj
               /\ y.hand[b] = d /\ \A h \in Sessions : h # b => y.hand[h] = x.hand[h]
<1> DEFINE y == [x EXCEPT !.hand[b] = d]
<1>1. y \in Manager
  BY DEF Manager
<1>2. SameRoles(x, y) /\ SameLists(x, y) /\ y.mig = x.mig /\ y.obj = x.obj
  BY DEF Manager, SameRoles, SameLists
<1>3. y.hand[b] = d /\ \A h \in Sessions : h # b => y.hand[h] = x.hand[h]
  BY DEF Manager
<1> QED BY <1>1, <1>2, <1>3

\* What names no session is a value of its own.
LEMMA Sorts ==
    /\ None \notin Sessions
    /\ NoHandoff \in Handoff /\ NoHandoff.at = None /\ NoHandoff.got = "none" /\ NoHandoff.todo = {}
    /\ NoMigration \in Migration /\ NoMigration.for = None /\ NoMigration.retry = FALSE
    /\ NoInstance \in Instance
BY DEF None, Sessions, NoHandoff, Handoff, NoMigration, Migration, NoInstance, Instance, Wake

\* A migration goes on, fails or is tried again.
LEMMA MigrationOnly ==
    ASSUME NEW x, NEW ss, NEW ll, Sound(x, ss, ll), x.mig.for # None, NEW y \in Manager,
           SameRoles(x, y), SameLists(x, y), y.obj = x.obj, y.hand = x.hand, y.mig.for = x.mig.for
    PROVE  Sound(y, ss, ll)
<1>1. Fresh(y) /\ Running(y) /\ Observable(y) /\ Handing(y) /\ Truthful(y)
  BY DEF Sound, Fresh, Running, Observable, Handing, Truthful, SameRoles, SameLists
<1>2. Serves(y, ss) /\ Ordered(y, ss, ll) /\ Exclusive(y)
  BY DEF Sound, Serves, Ordered, Exclusive, Disposed, SameRoles, SameLists
<1>3. Recorded(y) /\ Disposing(y)
  BY DEF Sound, Recorded, ToldOk, ToldBad, Awaited, Disposing, Quiet, SameRoles, SameLists
<1> QED BY <1>1, <1>2, <1>3 DEF Sound

\* The fields of an instance that matter to its release.
SameInstance(o, p) ==
    /\ p.st = o.st /\ p.busy = o.busy /\ p.forced = o.forced
    /\ p.closing = o.closing /\ p.final = o.final

\* The startup operation of an instance goes on.
LEMMA StartupOnly ==
    ASSUME NEW x, NEW ss, NEW ll, Sound(x, ss, ll), NEW i \in Sessions, x.obj[i].st # "none",
           NEW y \in Manager, SameRoles(x, y), SameLists(x, y), y.hand = x.hand, y.mig = x.mig,
           SameInstance(x.obj[i], y.obj[i]), y.obj[i].startup = "none" \/ x.obj[i].startup # "none",
           \A j \in Sessions : j # i => y.obj[j] = x.obj[j]
    PROVE  Sound(y, ss, ll)
<1>0. \A j \in Sessions : SameInstance(x.obj[j], y.obj[j])
  BY DEF SameInstance
<1>1. Fresh(y)
  BY <1>0 DEF Sound, Fresh, SameInstance, SameLists
<1>2. Running(y) /\ Observable(y) /\ Handing(y) /\ Truthful(y)
  BY <1>0 DEF Sound, Running, Observable, Handing, Truthful, SameInstance, SameRoles, SameLists
<1>3. Serves(y, ss) /\ Exclusive(y)
  BY DEF Sound, Serves, Exclusive, Disposed, SameRoles, SameLists
<1>4. Ordered(y, ss, ll)
  <2>1. \A b \in Sessions : y.obj[b].st = x.obj[b].st
    BY <1>0 DEF SameInstance
  <2>2. ss \in Sessions \cup {None}
    BY DEF Sound, Ordered
  <2> QED BY <1>0, <2>1, <2>2 DEF Sound, Ordered, Disposed, SameRoles, SameInstance
<1>5. Recorded(y)
  BY <1>0 DEF Sound, Recorded, ToldOk, ToldBad, Awaited, SameInstance, SameLists
<1>6. Disposing(y)
  <2>1. x.retiring \subseteq Sessions
    BY DEF Sound, Manager
  <2>2. Quiet(x) => Quiet(y)
    BY <1>0 DEF Quiet, SameInstance
  <2> QED BY <1>0, <2>1, <2>2 DEF Sound, Disposing, SameInstance, SameRoles, SameLists
<1> QED BY <1>1, <1>2, <1>3, <1>4, <1>5, <1>6 DEF Sound

\* The invariant of the next state, of the manager the step makes.
LEMMA SoundNext ==
    ASSUME NEW ss, NEW ll, Sound(m', ss, ll), session' = ss, last' = ll
    PROVE  IInv'
BY DEF IInv, Sound, Fresh, Serves, Ordered, Running, Exclusive, Observable, Handing, Truthful, Recorded,
       Disposing, Quiet, ToldOk, ToldBad, Awaited, Disposed

-----------------------------------------------------------------------------
(* The database task.                                                      *)

\* Writing the migration writes nothing else.
LEMMA PutMigration ==
    ASSUME NEW x \in Manager, NEW g \in Migration
    PROVE  LET y == [x EXCEPT !.mig = g]
           IN  /\ y \in Manager /\ SameRoles(x, y) /\ SameLists(x, y)
               /\ y.obj = x.obj /\ y.hand = x.hand /\ y.mig = g
BY DEF Manager, SameRoles, SameLists

\* handleFailure.
LEMMA MigrationFailedMethod ==
    ASSUME NEW x \in Manager, NEW r \in BOOLEAN
    PROVE  LET y == MigrationFailed(x, r)
           IN  /\ y \in Manager /\ SameRoles(x, y) /\ SameLists(x, y)
               /\ y.obj = x.obj /\ y.hand = x.hand /\ y.mig.for = x.mig.for
<1> DEFINE g == [x.mig EXCEPT !.phase = "failed", !.ready = FALSE, !.retry = r]
<1>1. g \in Migration /\ g.for = x.mig.for
  BY DEF Manager, Migration
<1>2. MigrationFailed(x, r) = [x EXCEPT !.mig = g]
  BY DEF MigrationFailed, Manager, Migration
<1> HIDE DEF g
<1> QED BY <1>1, <1>2, PutMigration

\* A report of the task, or the retry of one, for a migration that goes on.
LEMMA MigrationFailedSound ==
    ASSUME NEW x, NEW ss, NEW ll, Sound(x, ss, ll), x.mig.for # None, NEW r \in BOOLEAN
    PROVE  Sound(MigrationFailed(x, r), ss, ll)
<1>1. PICK y : y = MigrationFailed(x, r)
  OBVIOUS
<1>2. /\ y \in Manager /\ SameRoles(x, y) /\ SameLists(x, y)
      /\ y.obj = x.obj /\ y.hand = x.hand /\ y.mig.for = x.mig.for
  BY <1>1, MigrationFailedMethod DEF Sound
<1> QED BY <1>1, <1>2, MigrationOnly

\* The last batch has been migrated.
LEMMA DatabaseMigratedStep ==
    ASSUME IInv, DatabaseMigrated
    PROVE  IInv'
<1>1. m \in Manager /\ m.mig.for # None
  BY DEF IInv, Sound, DatabaseMigrated, Reporting
<1> DEFINE g == [m.mig EXCEPT !.phase = "complete", !.usable = TRUE]
<1>2. g \in Migration /\ g.for = m.mig.for
  BY <1>1 DEF Manager, Migration
<1>3. m' = [m EXCEPT !.mig = g] /\ UNCHANGED <<session, last>>
  BY <1>1 DEF DatabaseMigrated, Manager, Migration
<1> HIDE DEF g
<1>4. Sound(m', session, last)
  BY <1>1, <1>2, <1>3, PutMigration, MigrationOnly DEF IInv
<1> QED BY <1>3, <1>4, SoundNext

\* The task fails.
LEMMA DatabaseFailsStep ==
    ASSUME IInv, DatabaseFails
    PROVE  IInv'
<1>1. m.mig.for # None /\ m' = MigrationFailed(m, TRUE) /\ UNCHANGED <<session, last>>
  BY DEF DatabaseFails, Reporting
<1>2. Sound(m', session, last)
  BY <1>1, MigrationFailedSound DEF IInv
<1> QED BY <1>1, <1>2, SoundNext

\* It is tried again.
LEMMA RetryDatabaseStep ==
    ASSUME IInv, NEW ok \in BOOLEAN, RetryDatabase(ok)
    PROVE  IInv'
<1>1. m \in Manager /\ m.mig.for # None
  BY Sorts DEF IInv, Sound, Serves, RetryDatabase
<1>2. PICK ph \in {"preparing", "migrating", "complete", "failed"} :
        ph = IF m.mig.usable THEN "migrating" ELSE "preparing"
  OBVIOUS
<1> DEFINE g == [m.mig EXCEPT !.retry = FALSE, !.ready = FALSE, !.phase = ph]
           x == [m EXCEPT !.mig = g]
<1>3. g \in Migration /\ g.for = m.mig.for
  BY <1>1 DEF Manager, Migration
<1>4. m' = (IF ok THEN x ELSE MigrationFailed(x, TRUE)) /\ UNCHANGED <<session, last>>
  <2>1. [m EXCEPT !.mig.retry = FALSE, !.mig.ready = FALSE, !.mig.phase = ph] = x
    BY <1>1 DEF Manager, Migration
  <2> QED BY <1>2, <2>1 DEF RetryDatabase
<1> HIDE DEF g
<1>5. Sound(x, session, last) /\ x.mig.for # None
  BY <1>1, <1>3, PutMigration, MigrationOnly DEF IInv
<1> HIDE DEF x
<1>6. Sound(MigrationFailed(x, TRUE), session, last)
  BY <1>5, MigrationFailedSound
<1>7. Sound(m', session, last)
  BY <1>4, <1>5, <1>6
<1> QED BY <1>4, <1>7, SoundNext

\* startSession: the database of the present session is ready, nothing retires
\* and there is no instance.
LEMMA StartSessionSound ==
    ASSUME NEW x, NEW ss, NEW ll, Sound(x, ss, ll), x.mig.for # None
    PROVE  LET y == StartSession(x, x.mig.for) IN Sound(y, ss, ll) /\ y.mig = x.mig
<1>1. CASE Disposed(x) \/ x.instance # None
  BY <1>1 DEF StartSession
<1>2. CASE ~(Disposed(x) \/ x.instance # None)
  <2>1. PICK b : b = x.mig.for
    OBVIOUS
  <2>2. b = ss /\ b \in Sessions /\ x \in Manager /\ x.obj[b].st = "none" /\ x.retiring = {}
        /\ x.pending = None
    BY <1>2, <2>1 DEF Sound, Serves, Ordered, Exclusive
  <2> DEFINE o == [NoInstance EXCEPT !.st = "live", !.startup = "network"]
             z == [x EXCEPT !.obj[b] = o]
             y == [z EXCEPT !.instance = b]
  <2>3. /\ o \in Instance /\ o.st = "live" /\ o.busy = FALSE /\ o.closing = "none" /\ o.final = "none"
    BY DEF NoInstance, Instance
  <2>4. StartSession(x, b) = y
    BY <1>2, <2>2 DEF StartSession, Manager
  <2> HIDE DEF o
  <2>5. /\ z \in Manager /\ SameRoles(x, z) /\ SameLists(x, z)
        /\ z.mig = x.mig /\ z.hand = x.hand
        /\ z.obj[b] = o /\ \A j \in Sessions : j # b => z.obj[j] = x.obj[j]
    BY <2>2, <2>3, PutObject
  <2> HIDE DEF z
  <2>6. /\ y \in Manager /\ SameLists(z, y) /\ y.mig = z.mig /\ y.hand = z.hand /\ y.obj = z.obj
        /\ y.instance = b /\ y.pending = z.pending /\ y.disposal = z.disposal
    BY <2>2, <2>5 DEF Manager, SameLists
  <2> HIDE DEF y
  <2>7. /\ SameLists(x, y) /\ y.mig = x.mig /\ y.hand = x.hand
        /\ y.pending = x.pending /\ y.disposal = x.disposal
        /\ y.obj[b] = o /\ \A j \in Sessions : j # b => y.obj[j] = x.obj[j]
    BY <2>5, <2>6 DEF SameLists, SameRoles
  <2>8. \A h \in Sessions : x.hand[h].at # b /\ b \notin x.hand[h].todo
    BY <2>2 DEF Sound, Fresh
  <2>9. Fresh(y)
    BY <2>3, <2>7 DEF Sound, Fresh, SameLists
  <2>10. Running(y)
    BY <2>3, <2>6, <2>7, <2>8 DEF Running
  <2>11. Serves(y, ss) /\ Exclusive(y)
    BY <1>2, <2>1, <2>2, <2>6, <2>7, Sorts DEF Sound, Serves, Exclusive, Disposed, SameLists
  <2>12. Ordered(y, ss, ll)
    <3>1. b = ll /\ ll \in Nat
      BY <2>2, Sorts DEF Sound, Ordered, Sessions
    <3>2. \A c \in Sessions : c > ll => c # b
      BY <3>1 DEF Sessions
    <3> QED BY <2>2, <2>6, <2>7, <3>2, Sorts DEF Sound, Ordered
  <2>13. Observable(y)
    BY <1>2, <2>2, <2>6, <2>7, Sorts DEF Sound, Observable, SameLists
  <2>14. Handing(y)
    BY <2>7 DEF Sound, Handing, SameLists
  <2>15. Truthful(y)
    BY <2>3, <2>7, <2>8 DEF Sound, Truthful
  <2>16. Recorded(y)
    <3>1. \A c \in Sessions : c # b => /\ ToldOk(y, c) <=> ToldOk(x, c)
                                       /\ ToldBad(y, c) <=> ToldBad(x, c)
                                       /\ Awaited(y, c) <=> Awaited(x, c)
      BY <2>7 DEF ToldOk, ToldBad, Awaited
    <3>2. b \notin y.failed /\ ~y.obj[b].busy
      BY <2>2, <2>3, <2>7 DEF Sound, Fresh, SameLists
    <3> QED BY <2>7, <3>1, <3>2 DEF Sound, Recorded, SameLists
  <2>17. Disposing(y)
    BY <1>2, <2>3, <2>7 DEF Sound, Disposing, Disposed, SameLists
  <2> QED BY <2>1, <2>4, <2>6, <2>7, <2>9, <2>10, <2>11, <2>12, <2>13, <2>14, <2>15, <2>16, <2>17
          DEF Sound
<1> QED BY <1>1, <1>2

\* onReady.
LEMMA DatabaseReadyStep ==
    ASSUME IInv, NEW how \in {"begun", "stuck", "failed", "invalid"}, DatabaseReady(how)
    PROVE  IInv'
<1>1. m.mig.for # None /\ UNCHANGED <<session, last>>
  BY DEF DatabaseReady, Reporting
<1>2. PICK z : z = StartSession(m, m.mig.for)
  OBVIOUS
<1>3. Sound(z, session, last) /\ z.mig = m.mig /\ z \in Manager
  BY <1>1, <1>2, StartSessionSound DEF IInv, Sound
<1> DEFINE g == [z.mig EXCEPT !.phase = "migrating", !.usable = TRUE, !.ready = TRUE]
           y == [z EXCEPT !.mig = g]
<1>4. g \in Migration /\ g.for = z.mig.for
  BY <1>3 DEF Manager, Migration
<1>5. [z EXCEPT !.mig.phase = "migrating", !.mig.usable = TRUE, !.mig.ready = TRUE] = y
  BY <1>3 DEF Manager, Migration
<1> HIDE DEF g
<1>6. Sound(y, session, last) /\ y.mig.for # None
  BY <1>1, <1>3, <1>4, PutMigration, MigrationOnly
<1> HIDE DEF y
<1>7. m' = CASE how = "begun"   -> y
             [] how = "stuck"   -> MigrationFailed(y, TRUE)
             [] how = "failed"  -> MigrationFailed(m, TRUE)
             [] how = "invalid" -> MigrationFailed(m, FALSE)
  BY <1>2, <1>5 DEF DatabaseReady
<1>8. /\ Sound(MigrationFailed(y, TRUE), session, last)
      /\ Sound(MigrationFailed(m, TRUE), session, last)
      /\ Sound(MigrationFailed(m, FALSE), session, last)
  BY <1>1, <1>6, MigrationFailedSound DEF IInv
<1>9. Sound(m', session, last)
  BY <1>6, <1>7, <1>8
<1> QED BY <1>1, <1>9, SoundNext

-----------------------------------------------------------------------------
(* The instances.                                                          *)

\* waitUntilNetworkReady settles.
LEMMA StartupSettlesStep ==
    ASSUME IInv, NEW i \in Sessions, NEW ok \in BOOLEAN, StartupSettles(i, ok)
    PROVE  IInv'
<1>1. m \in Manager /\ m.obj[i] \in Instance /\ m.obj[i].startup = "network" /\ UNCHANGED <<session, last>>
  BY DEF IInv, Sound, StartupSettles, Manager
<1>2. m.obj[i].st # "none"
  BY <1>1 DEF IInv, Sound, Fresh, NoInstance
<1>3. PICK v \in {"none", "network", "online"} :
        v = IF ok /\ m.instance = i /\ ~Disposed(m) THEN "online" ELSE "none"
  OBVIOUS
<1>4. PICK f \in BOOLEAN : f = (m.startFailed \/ ~ok)
  OBVIOUS
<1> DEFINE o == [m.obj[i] EXCEPT !.startup = v]
           z == [m EXCEPT !.obj[i] = o]
           y == [z EXCEPT !.startFailed = f]
<1>5. o \in Instance /\ SameInstance(m.obj[i], o)
  BY <1>1 DEF Instance, SameInstance
<1>6. m' = y
  <2>1. m' = [m EXCEPT !.obj[i].startup = v, !.startFailed = f]
    BY <1>3, <1>4 DEF StartupSettles
  <2> QED BY <1>1, <2>1 DEF Manager
<1> HIDE DEF o
<1>7. /\ z \in Manager /\ SameRoles(m, z) /\ SameLists(m, z) /\ z.mig = m.mig /\ z.hand = m.hand
      /\ z.obj[i] = o /\ \A j \in Sessions : j # i => z.obj[j] = m.obj[j]
  BY <1>1, <1>5, PutObject
<1> HIDE DEF z
<1>8. /\ y \in Manager /\ SameRoles(z, y) /\ SameLists(z, y) /\ y.mig = z.mig /\ y.hand = z.hand
      /\ y.obj = z.obj
  BY <1>7 DEF Manager, SameRoles, SameLists
<1> HIDE DEF y
<1>9. Sound(y, session, last)
  <2>1. SameRoles(m, y) /\ SameLists(m, y) /\ y.mig = m.mig /\ y.hand = m.hand
    BY <1>7, <1>8 DEF SameRoles, SameLists
  <2>2. y.obj[i] = o /\ \A j \in Sessions : j # i => y.obj[j] = m.obj[j]
    BY <1>7, <1>8
  <2> QED BY <1>1, <1>2, <1>5, <1>8, <2>1, <2>2, StartupOnly DEF IInv
<1> QED BY <1>1, <1>6, <1>9, SoundNext

\* The online notice has been sent.
LEMMA OnlineSentStep ==
    ASSUME IInv, NEW i \in Sessions, OnlineSent(i)
    PROVE  IInv'
<1>1. m \in Manager /\ m.obj[i] \in Instance /\ m.obj[i].startup = "online" /\ UNCHANGED <<session, last>>
  BY DEF IInv, Sound, OnlineSent, Manager
<1>2. m.obj[i].st # "none"
  BY <1>1 DEF IInv, Sound, Fresh, NoInstance
<1> DEFINE o == [m.obj[i] EXCEPT !.startup = "none"]
<1>5. o \in Instance /\ SameInstance(m.obj[i], o) /\ o.startup = "none"
  BY <1>1 DEF Instance, SameInstance
<1>6. m' = [m EXCEPT !.obj[i] = o]
  BY <1>1 DEF OnlineSent, Manager
<1> HIDE DEF o
<1>7. Sound(m', session, last)
  <2>1. PICK y : y = [m EXCEPT !.obj[i] = o]
    OBVIOUS
  <2>2. /\ y \in Manager /\ SameRoles(m, y) /\ SameLists(m, y) /\ y.mig = m.mig /\ y.hand = m.hand
        /\ y.obj[i] = o /\ \A j \in Sessions : j # i => y.obj[j] = m.obj[j]
    BY <1>1, <1>5, <2>1, PutObject
  <2>3. Sound(y, session, last)
    BY <1>1, <1>2, <1>5, <2>2, StartupOnly DEF IInv
  <2> QED BY <1>6, <2>1, <2>3
<1> QED BY <1>1, <1>7, SoundNext

\* emitOfflineThenDispose begins the release, or finds it done.
LEMMA OfflineSentStep ==
    ASSUME IInv, NEW i \in Sessions, OfflineSent(i)
    PROVE  IInv'
<1>1. PICK x : x = m
  OBVIOUS
<1>2. /\ Sound(x, session, last) /\ x \in Manager /\ x.obj[i] \in Instance
      /\ x.obj[i].closing = "offline" /\ UNCHANGED <<session, last>>
  BY <1>1 DEF IInv, Sound, OfflineSent, Manager
<1>3. x.obj[i].st # "none" /\ x.instance # i /\ ~Quiet(x)
  BY <1>2 DEF Sound, Fresh, NoInstance, Running, Quiet
<1>4. PICK bb \in BOOLEAN : bb = IF x.obj[i].st = "released" THEN x.obj[i].busy ELSE TRUE
  BY <1>2 DEF Instance
<1>5. PICK v \in {"none", "offline"} \cup Wake : v = IF x.obj[i].st = "released" THEN "ok" ELSE "wait"
  BY DEF Wake
<1> DEFINE o == [x.obj[i] EXCEPT !.closing = v, !.busy = bb]
           y == [x EXCEPT !.obj[i] = o]
<1>6. /\ o \in Instance /\ o.closing = v /\ o.busy = bb /\ o.st = x.obj[i].st /\ o.forced = x.obj[i].forced
      /\ o.final = x.obj[i].final /\ o.startup = x.obj[i].startup
  BY <1>2 DEF Instance
<1>7. m' = y
  <2> DEFINE z == [x EXCEPT !.obj[i].closing = v]
  <2>1. m' = Dispose(z, i)
    BY <1>1, <1>5 DEF OfflineSent, Found
  <2>2. z.obj[i] = [x.obj[i] EXCEPT !.closing = v]
    BY <1>2 DEF Manager
  <2>3. z.obj[i].st = x.obj[i].st /\ z.obj[i].busy = x.obj[i].busy
    BY <1>2, <2>2 DEF Instance
  <2>4. CASE x.obj[i].st = "released"
    <3>1. m' = z
      BY <2>1, <2>3, <2>4 DEF Dispose
    <3>2. o = [x.obj[i] EXCEPT !.closing = v]
      BY <1>2, <1>4, <2>4 DEF Instance
    <3> QED BY <1>2, <3>1, <3>2 DEF Manager
  <2>5. CASE x.obj[i].st # "released"
    <3>1. m' = [z EXCEPT !.obj[i].busy = TRUE]
      BY <2>1, <2>3, <2>5 DEF Dispose
    <3> QED BY <1>2, <1>4, <2>5, <3>1 DEF Manager
  <2> QED BY <2>4, <2>5
<1> HIDE DEF o
<1>8. /\ y \in Manager /\ SameRoles(x, y) /\ SameLists(x, y) /\ y.mig = x.mig /\ y.hand = x.hand
      /\ y.obj[i] = o /\ \A j \in Sessions : j # i => y.obj[j] = x.obj[j]
  BY <1>2, <1>6, PutObject
<1> HIDE DEF y
<1>9. Fresh(y)
  BY <1>2, <1>3, <1>6, <1>8 DEF Sound, Fresh, SameLists
<1>10. Serves(y, session) /\ Exclusive(y) /\ Handing(y)
  BY <1>2, <1>8 DEF Sound, Serves, Exclusive, Handing, Disposed, SameRoles, SameLists
<1>11. Running(y)
  BY <1>2, <1>3, <1>8 DEF Sound, Running, SameRoles
<1>12. Ordered(y, session, last) /\ Observable(y)
  <2>1. \A b \in Sessions : y.obj[b].st = x.obj[b].st /\ y.obj[b].forced = x.obj[b].forced
    BY <1>6, <1>8
  <2> QED BY <1>2, <1>8, <2>1 DEF Sound, Ordered, Observable, Disposed, SameRoles, SameLists
<1>13. Truthful(y)
  <2>1. x.obj[i].st \in {"live", "released"}
    BY <1>2, <1>3 DEF Instance
  <2>2. bb => x.obj[i].st = "live"
    BY <1>2, <1>4, <2>1 DEF Sound, Truthful
  <2>3. \A b \in Sessions : y.obj[b].st = x.obj[b].st
    BY <1>6, <1>8
  <2>4. ASSUME NEW b \in Sessions
        PROVE  /\ y.obj[b].busy => y.obj[b].st = "live"
               /\ y.obj[b].closing = "ok" => y.obj[b].st = "released"
               /\ y.obj[b].closing = "bad" => y.obj[b].st = "live"
               /\ y.obj[b].final = "ok" => y.obj[b].st = "released"
    <3>1. CASE b = i
      BY <1>2, <1>5, <1>6, <1>8, <2>2, <3>1 DEF Sound, Truthful
    <3>2. CASE b # i
      BY <1>2, <1>8, <3>2 DEF Sound, Truthful
    <3> QED BY <3>1, <3>2
  <2> QED BY <1>2, <1>8, <2>3, <2>4 DEF Sound, Truthful
<1>14. Recorded(y)
  <2>1. \A c \in Sessions : c # i => /\ ToldOk(y, c) <=> ToldOk(x, c)
                                     /\ ToldBad(y, c) <=> ToldBad(x, c)
                                     /\ Awaited(y, c) <=> Awaited(x, c)
    BY <1>8 DEF ToldOk, ToldBad, Awaited
  <2>2. ToldOk(x, i) => ToldOk(y, i)
    BY <1>2, <1>6, <1>8 DEF ToldOk
  <2>3. y.obj[i].busy => Awaited(y, i)
    BY <1>2, <1>4, <1>5, <1>6, <1>8 DEF Awaited, Sound, Truthful
  <2> QED BY <1>2, <1>6, <1>8, <2>1, <2>2, <2>3 DEF Sound, Recorded, SameLists
<1>15. Disposing(y)
  <2>1. x.disposal \notin {"releasing", "done", "failed"}
    BY <1>2, <1>3 DEF Sound, Disposing
  <2> QED BY <1>2, <1>6, <1>8, <2>1 DEF Sound, Disposing, SameRoles
<1>16. Sound(y, session, last)
  BY <1>8, <1>9, <1>10, <1>11, <1>12, <1>13, <1>14, <1>15 DEF Sound
<1> QED BY <1>2, <1>7, <1>16, SoundNext

\* An attempt of dispose() settles and wakes those who share it.
LEMMA DisposeSettlesStep ==
    ASSUME IInv, NEW i \in Sessions, NEW ok \in BOOLEAN, DisposeSettles(i, ok)
    PROVE  IInv'
<1>1. PICK x : x = m
  OBVIOUS
<1>2. /\ Sound(x, session, last) /\ x \in Manager /\ x.obj[i] \in Instance
      /\ x.hand \in [Sessions -> Handoff]
      /\ x.obj[i].busy /\ UNCHANGED <<session, last>>
  BY <1>1 DEF IInv, Sound, DisposeSettles, Manager
<1>3. x.obj[i].st = "live" /\ x.instance # i
  BY <1>2 DEF Sound, Truthful, Running
<1>4. \A b \in Sessions : x.obj[b].closing \notin Woken /\ x.hand[b].got \notin Woken
  BY <1>1 DEF DisposeSettles, Idle
<1>5. PICK r \in Wake : r = IF ok THEN "ok" ELSE "bad"
  BY DEF Wake
<1>6. \A w : Settle(w, ok) = IF w = "wait" THEN r ELSE w
  BY <1>5 DEF Settle
<1>7. PICK s \in {"none", "live", "released"} : s = IF ok THEN "released" ELSE x.obj[i].st
  BY <1>3
<1>8. PICK c \in {"none", "offline"} \cup Wake : c = Settle(x.obj[i].closing, ok)
  BY <1>2, <1>6 DEF Instance, Wake
<1>9. PICK f \in {"none"} \cup Wake : f = Settle(x.obj[i].final, ok)
  BY <1>2, <1>6 DEF Instance, Wake
<1> DEFINE o == [x.obj[i] EXCEPT !.st = s, !.busy = FALSE, !.closing = c, !.final = f]
           d == [b \in Sessions |-> IF x.hand[b].at = i THEN [x.hand[b] EXCEPT !.got = Settle(@, ok)]
                                    ELSE x.hand[b]]
           z == [x EXCEPT !.obj[i] = o]
           y == [z EXCEPT !.hand = d]
<1>10. /\ o \in Instance /\ o.st = s /\ o.busy = FALSE /\ o.closing = c /\ o.final = f
       /\ o.forced = x.obj[i].forced /\ o.startup = x.obj[i].startup
  BY <1>2 DEF Instance
<1>11. ASSUME NEW b \in Sessions
       PROVE  /\ d[b] \in Handoff /\ d[b].at = x.hand[b].at /\ d[b].todo = x.hand[b].todo
              /\ d[b].got = IF x.hand[b].at = i /\ x.hand[b].got = "wait" THEN r ELSE x.hand[b].got
  <2>1. x.hand[b] \in Handoff
    BY <1>2
  <2>2. PICK g \in {"none"} \cup Wake : g = Settle(x.hand[b].got, ok)
    BY <1>6, <2>1 DEF Handoff, Wake
  <2>3. d[b] = IF x.hand[b].at = i THEN [x.hand[b] EXCEPT !.got = g] ELSE x.hand[b]
    BY <2>2
  <2> HIDE DEF d
  <2> QED BY <1>6, <2>1, <2>2, <2>3 DEF Handoff
<1>12. d \in [Sessions -> Handoff]
  BY <1>11
<1>13. m' = y
  <2>1. Settled(x.obj[i], ok) = o
    BY <1>2, <1>7, <1>8, <1>9 DEF Settled, Instance
  <2>2. m' = [x EXCEPT !.obj[i] = Settled(@, ok), !.hand = d]
    BY <1>1 DEF DisposeSettles
  <2> HIDE DEF o, d
  <2> QED BY <1>2, <2>1, <2>2 DEF Manager
<1> HIDE DEF o, d
<1>14. /\ z \in Manager /\ SameRoles(x, z) /\ SameLists(x, z) /\ z.mig = x.mig
       /\ z.obj[i] = o /\ \A j \in Sessions : j # i => z.obj[j] = x.obj[j]
  BY <1>2, <1>10, PutObject
<1> HIDE DEF z
<1>15. /\ y \in Manager /\ SameRoles(z, y) /\ SameLists(z, y) /\ y.mig = z.mig /\ y.obj = z.obj
       /\ y.hand = d
  BY <1>12, <1>14 DEF Manager, SameRoles, SameLists
<1> HIDE DEF y
<1>16. /\ SameRoles(x, y) /\ SameLists(x, y) /\ y.mig = x.mig
       /\ y.obj[i] = o /\ \A j \in Sessions : j # i => y.obj[j] = x.obj[j]
  BY <1>14, <1>15 DEF SameRoles, SameLists
<1>17. \A h \in Sessions : /\ y.hand[h].at = x.hand[h].at /\ y.hand[h].todo = x.hand[h].todo
                           /\ y.hand[h].got = IF x.hand[h].at = i /\ x.hand[h].got = "wait" THEN r
                                              ELSE x.hand[h].got
  BY <1>11, <1>15
<1>18. Fresh(y)
  BY <1>2, <1>3, <1>7, <1>10, <1>16, <1>17 DEF Sound, Fresh, SameLists
<1>19. Serves(y, session) /\ Exclusive(y)
  BY <1>2, <1>16 DEF Sound, Serves, Exclusive, Disposed, SameRoles, SameLists
<1>20. Handing(y)
  BY <1>2, <1>5, <1>16, <1>17 DEF Sound, Handing, SameRoles, SameLists
<1>21. Running(y)
  BY <1>2, <1>3, <1>16, <1>17 DEF Sound, Running, SameRoles
<1>22. Ordered(y, session, last)
  <2>1. \A b \in Sessions : y.obj[b].st = "none" <=> x.obj[b].st = "none"
    BY <1>3, <1>7, <1>10, <1>16
  <2>2. session \in Sessions \cup {None}
    BY <1>2 DEF Sound, Ordered
  <2> QED BY <1>2, <1>16, <1>17, <2>1, <2>2 DEF Sound, Ordered, Disposed, SameRoles
<1>23. Observable(y)
  BY <1>2, <1>3, <1>10, <1>16 DEF Sound, Observable, SameRoles, SameLists
<1>24. Truthful(y)
  <2>1. ASSUME NEW b \in Sessions
        PROVE  /\ y.obj[b].busy => y.obj[b].st = "live"
               /\ y.obj[b].closing = "ok" => y.obj[b].st = "released"
               /\ y.obj[b].closing = "bad" => y.obj[b].st = "live"
               /\ y.obj[b].final = "ok" => y.obj[b].st = "released"
    <3>1. CASE b = i
      BY <1>2, <1>3, <1>4, <1>5, <1>6, <1>7, <1>8, <1>9, <1>10, <1>16, <3>1 DEF Sound, Truthful, Woken
    <3>2. CASE b # i
      BY <1>2, <1>16, <3>2 DEF Sound, Truthful
    <3> QED BY <3>1, <3>2
  <2>2. ASSUME NEW b \in Sessions, NEW h \in Sessions, y.hand[h].at = b
        PROVE  /\ y.hand[h].got = "ok" => y.obj[b].st = "released"
               /\ y.hand[h].got = "bad" => y.obj[b].st = "live"
    <3>1. CASE b = i
      BY <1>3, <1>4, <1>5, <1>7, <1>10, <1>16, <1>17, <2>2, <3>1 DEF Woken
    <3>2. CASE b # i
      BY <1>2, <1>16, <1>17, <2>2, <3>2 DEF Sound, Truthful
    <3> QED BY <3>1, <3>2
  <2> QED BY <2>1, <2>2 DEF Truthful
<1>25. Recorded(y)
  <2>1. \A b \in Sessions : b # i => /\ ToldOk(y, b) <=> ToldOk(x, b)
                                     /\ ToldBad(y, b) <=> ToldBad(x, b)
                                     /\ Awaited(y, b) <=> Awaited(x, b)
    BY <1>16, <1>17 DEF ToldOk, ToldBad, Awaited
  <2>2. ok /\ Awaited(x, i) => ToldOk(y, i)
    BY <1>5, <1>6, <1>8, <1>9, <1>10, <1>16, <1>17 DEF ToldOk, Awaited
  <2>3. i \in y.failed => y.obj[i].st = "live" \/ ToldOk(y, i)
    BY <1>2, <1>3, <1>7, <1>10, <1>16, <2>2 DEF Sound, Recorded, SameLists
  <2>4. ~y.obj[i].busy
    BY <1>10, <1>16
  <2> QED BY <1>2, <1>16, <2>1, <2>3, <2>4 DEF Sound, Recorded, SameLists
<1>26. Disposing(y)
  <2>1. Quiet(x) => Quiet(y)
    BY <1>6, <1>8, <1>10, <1>16, <1>17 DEF Quiet
  <2>2. \A j \in Sessions : y.obj[j].final = "none" <=> x.obj[j].final = "none"
    BY <1>5, <1>6, <1>9, <1>10, <1>16
  <2>3. x.retiring \subseteq Sessions
    BY <1>2 DEF Manager
  <2> QED BY <1>2, <1>16, <2>1, <2>2, <2>3 DEF Sound, Disposing, SameRoles, SameLists
<1>27. Sound(y, session, last)
  BY <1>15, <1>18, <1>19, <1>20, <1>21, <1>22, <1>23, <1>24, <1>25, <1>26 DEF Sound
<1> QED BY <1>2, <1>13, <1>27, SoundNext

\* emitOfflineThenDispose goes on after the release has settled.
LEMMA ClosingResumesStep ==
    ASSUME IInv, NEW i \in Sessions, ClosingResumes(i)
    PROVE  IInv'
<1>1. PICK x : x = m
  OBVIOUS
<1>2. /\ Sound(x, session, last) /\ x \in Manager /\ x.obj[i] \in Instance
      /\ x.obj[i].closing \in {"ok", "bad"} /\ UNCHANGED <<session, last>>
  BY <1>1 DEF IInv, Sound, ClosingResumes, Manager, Woken
<1>3. /\ x.obj[i].closing = "ok" => x.obj[i].st = "released"
      /\ x.obj[i].closing = "bad" => x.obj[i].st = "live"
      /\ x.instance # i /\ ~Quiet(x)
  BY <1>2 DEF Sound, Truthful, Running, Quiet
<1> DEFINE o == [x.obj[i] EXCEPT !.closing = "none"]
           z == [x EXCEPT !.obj[i] = o]
           rr == IF x.obj[i].closing = "ok" THEN x.retiring \ {i} ELSE x.retiring
           ff == IF x.obj[i].closing = "ok" THEN x.failed \ {i} ELSE x.failed \cup {i}
           y == [z EXCEPT !.retiring = rr, !.failed = ff]
<1>4. /\ o \in Instance /\ o.closing = "none" /\ o.busy = x.obj[i].busy /\ o.st = x.obj[i].st
      /\ o.forced = x.obj[i].forced /\ o.final = x.obj[i].final /\ o.startup = x.obj[i].startup
  BY <1>2 DEF Instance
<1>5. rr \in SUBSET Sessions /\ ff \in SUBSET Sessions
  BY <1>2 DEF Manager
<1>6. m' = y
  <2>1. [x EXCEPT !.obj[i].closing = "none"] = z
    BY <1>2 DEF Manager
  <2>2. z.retiring = x.retiring /\ z.failed = x.failed
    BY <1>2 DEF Manager
  <2>3. z \in Manager
    BY <1>2, <1>4, PutObject
  <2>4. m' = IF x.obj[i].closing = "ok" THEN RetirementSucceeded(z, i) ELSE [z EXCEPT !.failed = @ \cup {i}]
    BY <1>1, <2>1 DEF ClosingResumes
  <2> HIDE DEF z
  <2> QED BY <1>2, <2>2, <2>3, <2>4 DEF RetirementSucceeded, Manager
<1> HIDE DEF o
<1>7. /\ z \in Manager /\ SameRoles(x, z) /\ z.mig = x.mig /\ z.hand = x.hand
      /\ z.obj[i] = o /\ \A j \in Sessions : j # i => z.obj[j] = x.obj[j]
  BY <1>2, <1>4, PutObject
<1> HIDE DEF z, rr, ff
<1>8. /\ y \in Manager /\ SameRoles(z, y) /\ y.mig = z.mig /\ y.obj = z.obj /\ y.hand = z.hand
      /\ y.retiring = rr /\ y.failed = ff
  BY <1>5, <1>7 DEF Manager, SameRoles
<1> HIDE DEF y
<1>9. /\ SameRoles(x, y) /\ y.mig = x.mig /\ y.hand = x.hand
      /\ y.obj[i] = o /\ \A j \in Sessions : j # i => y.obj[j] = x.obj[j]
  BY <1>7, <1>8 DEF SameRoles
<1>10. /\ y.retiring \subseteq x.retiring /\ x.retiring \ {i} \subseteq y.retiring
       /\ x.obj[i].closing = "bad" => y.retiring = x.retiring
       /\ y.failed \ {i} = x.failed \ {i}
       /\ i \in y.failed <=> x.obj[i].closing = "bad"
  BY <1>2, <1>8 DEF rr, ff
<1>11. Fresh(y)
  BY <1>2, <1>3, <1>4, <1>9, <1>10 DEF Sound, Fresh
<1>12. Serves(y, session) /\ Exclusive(y) /\ Handing(y)
  BY <1>2, <1>9, <1>10 DEF Sound, Serves, Exclusive, Handing, Disposed, SameRoles
<1>13. Running(y)
  BY <1>2, <1>3, <1>9 DEF Sound, Running, SameRoles
<1>14. \A b \in Sessions : y.obj[b].st = x.obj[b].st /\ y.obj[b].forced = x.obj[b].forced
  BY <1>4, <1>9
<1>15. Ordered(y, session, last)
  BY <1>2, <1>9, <1>14 DEF Sound, Ordered, Disposed, SameRoles
<1>16. Observable(y)
  BY <1>2, <1>3, <1>9, <1>10, <1>14 DEF Sound, Observable, SameRoles
<1>17. Truthful(y)
  <2>1. ASSUME NEW b \in Sessions
        PROVE  /\ y.obj[b].busy => y.obj[b].st = "live"
               /\ y.obj[b].closing = "ok" => y.obj[b].st = "released"
               /\ y.obj[b].closing = "bad" => y.obj[b].st = "live"
               /\ y.obj[b].final = "ok" => y.obj[b].st = "released"
    <3>1. CASE b = i
      BY <1>2, <1>4, <1>9, <3>1 DEF Sound, Truthful
    <3>2. CASE b # i
      BY <1>2, <1>9, <3>2 DEF Sound, Truthful
    <3> QED BY <3>1, <3>2
  <2> QED BY <1>2, <1>9, <1>14, <2>1 DEF Sound, Truthful
<1>18. Recorded(y)
  <2>1. \A c \in Sessions : c # i => /\ ToldOk(y, c) <=> ToldOk(x, c)
                                     /\ ToldBad(y, c) <=> ToldBad(x, c)
                                     /\ Awaited(y, c) <=> Awaited(x, c)
    BY <1>9 DEF ToldOk, ToldBad, Awaited
  <2>2. i \in y.failed => y.obj[i].st = "live"
    BY <1>3, <1>10, <1>14
  <2>3. y.obj[i].busy => Awaited(y, i)
    <3>1. y.obj[i].busy => x.obj[i].busy /\ x.obj[i].closing = "bad"
      BY <1>2, <1>3, <1>4, <1>9 DEF Sound, Truthful
    <3>2. x.obj[i].busy /\ x.obj[i].closing = "bad" => Awaited(x, i)
      BY <1>2 DEF Sound, Recorded, ToldBad
    <3>3. Awaited(x, i) /\ x.obj[i].closing = "bad" => Awaited(y, i)
      BY <1>4, <1>9 DEF Awaited
    <3> QED BY <3>1, <3>2, <3>3
  <2>4. ASSUME NEW c \in Sessions, c # i
        PROVE  /\ c \in y.failed => y.obj[c].st = "live" \/ ToldOk(y, c)
               /\ y.obj[c].busy /\ (c \in y.failed \/ ToldBad(y, c)) => Awaited(y, c)
    BY <1>2, <1>9, <1>10, <2>1, <2>4 DEF Sound, Recorded
  <2> QED BY <2>2, <2>3, <2>4 DEF Recorded
<1>19. Disposing(y)
  <2>1. x.disposal \notin {"releasing", "done", "failed"}
    BY <1>2, <1>3 DEF Sound, Disposing
  <2>2. \A j \in Sessions : y.obj[j].final = x.obj[j].final
    BY <1>4, <1>9
  <2> QED BY <1>2, <1>9, <2>1, <2>2 DEF Sound, Disposing, SameRoles
<1>20. Sound(y, session, last)
  BY <1>8, <1>11, <1>12, <1>13, <1>15, <1>16, <1>17, <1>18, <1>19 DEF Sound
<1> QED BY <1>2, <1>6, <1>20, SoundNext

-----------------------------------------------------------------------------
(* The handoffs.                                                           *)

\* retirementSucceeded, for an instance that is released or forced closed.
LEMMA RetirementSound ==
    ASSUME NEW x, NEW ss, NEW ll, Sound(x, ss, ll), NEW i \in Sessions,
           x.obj[i].st = "released" \/ x.obj[i].forced
    PROVE  LET y == RetirementSucceeded(x, i)
           IN  /\ Sound(y, ss, ll) /\ SameRoles(x, y) /\ y.obj = x.obj /\ y.hand = x.hand /\ y.mig = x.mig
               /\ y.retiring = x.retiring \ {i} /\ y.failed = x.failed \ {i}
<1>1. PICK y : y = RetirementSucceeded(x, i)
  OBVIOUS
<1>2. /\ y \in Manager /\ SameRoles(x, y) /\ y.obj = x.obj /\ y.hand = x.hand /\ y.mig = x.mig
      /\ y.retiring = x.retiring \ {i} /\ y.failed = x.failed \ {i}
  BY <1>1 DEF Sound, RetirementSucceeded, Manager, SameRoles
<1>3. Fresh(y) /\ Running(y) /\ Observable(y) /\ Handing(y) /\ Truthful(y)
  BY <1>2 DEF Sound, Fresh, Running, Observable, Handing, Truthful, SameRoles
<1>4. Serves(y, ss) /\ Ordered(y, ss, ll) /\ Exclusive(y)
  BY <1>2 DEF Sound, Serves, Ordered, Exclusive, Disposed, SameRoles
<1>5. Recorded(y)
  BY <1>2 DEF Sound, Recorded, ToldOk, ToldBad, Awaited
<1>6. Disposing(y)
  BY <1>2 DEF Sound, Disposing, Quiet, SameRoles
<1> QED BY <1>1, <1>2, <1>3, <1>4, <1>5, <1>6 DEF Sound

\* forceRelease().
LEMMA ForcedSound ==
    ASSUME NEW x, NEW ss, NEW ll, Sound(x, ss, ll), NEW i \in Sessions, x.obj[i].st # "none"
    PROVE  LET y == [x EXCEPT !.obj[i].forced = TRUE]
           IN  /\ Sound(y, ss, ll) /\ SameRoles(x, y) /\ SameLists(x, y) /\ y.hand = x.hand
               /\ y.obj[i].forced
               /\ \A j \in Sessions : /\ y.obj[j].st = x.obj[j].st /\ y.obj[j].busy = x.obj[j].busy
                                      /\ y.obj[j].closing = x.obj[j].closing
<1>1. x \in Manager /\ x.obj[i] \in Instance
  BY DEF Sound, Manager
<1> DEFINE o == [x.obj[i] EXCEPT !.forced = TRUE]
<1>2. /\ o \in Instance /\ o.closing = x.obj[i].closing /\ o.busy = x.obj[i].busy /\ o.st = x.obj[i].st
      /\ o.forced /\ o.final = x.obj[i].final /\ o.startup = x.obj[i].startup
  BY <1>1 DEF Instance
<1>3. [x EXCEPT !.obj[i].forced = TRUE] = [x EXCEPT !.obj[i] = o]
  BY <1>1 DEF Manager
<1> HIDE DEF o
<1>4. PICK y : y = [x EXCEPT !.obj[i] = o]
  OBVIOUS
<1>5. /\ y \in Manager /\ SameRoles(x, y) /\ SameLists(x, y) /\ y.mig = x.mig /\ y.hand = x.hand
      /\ y.obj[i] = o /\ \A j \in Sessions : j # i => y.obj[j] = x.obj[j]
  BY <1>1, <1>2, <1>4, PutObject
<1>6. \A j \in Sessions : /\ y.obj[j].st = x.obj[j].st /\ y.obj[j].busy = x.obj[j].busy
                          /\ y.obj[j].closing = x.obj[j].closing /\ y.obj[j].final = x.obj[j].final
                          /\ y.obj[j].startup = x.obj[j].startup
  BY <1>2, <1>5
<1>7. Fresh(y)
  BY <1>5, <1>6 DEF Sound, Fresh, SameLists
<1>8. Running(y) /\ Handing(y) /\ Truthful(y)
  BY <1>5, <1>6 DEF Sound, Running, Handing, Truthful, SameRoles, SameLists
<1>9. Observable(y)
  BY <1>2, <1>5, <1>6 DEF Sound, Observable, SameRoles, SameLists
<1>10. Serves(y, ss) /\ Ordered(y, ss, ll) /\ Exclusive(y)
  BY <1>5, <1>6 DEF Sound, Serves, Ordered, Exclusive, Disposed, SameRoles, SameLists
<1>11. Recorded(y)
  BY <1>5, <1>6 DEF Sound, Recorded, ToldOk, ToldBad, Awaited, SameLists
<1>12. Disposing(y)
  <2>1. x.retiring \subseteq Sessions
    BY <1>1 DEF Manager
  <2>2. Quiet(x) => Quiet(y)
    BY <1>5, <1>6 DEF Quiet
  <2> QED BY <1>5, <1>6, <2>1, <2>2 DEF Sound, Disposing, SameRoles, SameLists
<1>13. Sound(y, ss, ll)
  BY <1>5, <1>7, <1>8, <1>9, <1>10, <1>11, <1>12 DEF Sound
<1> QED BY <1>2, <1>3, <1>4, <1>5, <1>6, <1>13

\* A handoff ends, and takes the waiting start with it when that is its own.
LEMMA HandoffEnds ==
    ASSUME NEW x, NEW ss, NEW ll, Sound(x, ss, ll), NEW b \in Sessions,
           x.hand[b].at \in Sessions, NEW y \in Manager,
           y.obj = x.obj, y.mig = x.mig, y.retiring = x.retiring, y.disposal = x.disposal,
           y.instance = x.instance, y.pending \in {None, x.pending} \ {b},
           y.hand[b] = NoHandoff, \A h \in Sessions : h # b => y.hand[h] = x.hand[h],
           y.failed \ {x.hand[b].at} = x.failed \ {x.hand[b].at},
           x.hand[b].at \in y.failed => x.obj[x.hand[b].at].st = "live",
           y.obj[x.hand[b].at].busy /\ (x.hand[b].at \in y.failed \/ ToldBad(x, x.hand[b].at))
             => Awaited(y, x.hand[b].at)
    PROVE  Sound(y, ss, ll)
<1>1. PICK old \in Sessions : old = x.hand[b].at
  OBVIOUS
<1>2. x.obj[old].st # "none" /\ ~Quiet(x)
  BY <1>1, Sorts DEF Sound, Fresh, Quiet, Handing
<1>3. Fresh(y)
  BY <1>1, <1>2, Sorts DEF Sound, Fresh
<1>4. Running(y) /\ Observable(y) /\ Truthful(y)
  BY Sorts DEF Sound, Running, Observable, Truthful
<1>5. Handing(y)
  BY Sorts DEF Sound, Handing
<1>6. Serves(y, ss) /\ Exclusive(y)
  BY DEF Sound, Serves, Exclusive, Disposed
<1>7. Ordered(y, ss, ll)
  BY Sorts DEF Sound, Ordered, Disposed
<1>8. Recorded(y)
  <2>1. \A c \in Sessions : c # old => /\ ToldOk(y, c) <=> ToldOk(x, c)
                                       /\ ToldBad(y, c) <=> ToldBad(x, c)
                                       /\ Awaited(y, c) <=> Awaited(x, c)
    BY <1>1, Sorts DEF ToldOk, ToldBad, Awaited
  <2>2. ToldBad(y, old) => ToldBad(x, old)
    BY Sorts DEF ToldBad
  <2>3. ASSUME NEW c \in Sessions, c # old
        PROVE  /\ c \in y.failed => y.obj[c].st = "live" \/ ToldOk(y, c)
               /\ y.obj[c].busy /\ (c \in y.failed \/ ToldBad(y, c)) => Awaited(y, c)
    BY <1>1, <2>1, <2>3 DEF Sound, Recorded
  <2> QED BY <1>1, <2>2, <2>3 DEF Recorded
<1>9. Disposing(y)
  BY <1>2 DEF Sound, Disposing
<1> QED BY <1>3, <1>4, <1>5, <1>6, <1>7, <1>8, <1>9 DEF Sound

\* prepareDatabase, when nothing retires and no other start waits.
LEMMA PrepareDatabaseSound ==
    ASSUME NEW x, NEW ss, NEW ll, Sound(x, ss, ll), x.retiring = {}, x.pending = None,
           NEW b \in Sessions, ~Disposed(x) => b = ss, NEW ok \in BOOLEAN
    PROVE  Sound(PrepareDatabase(x, b, ok), ss, ll)
<1>1. CASE Disposed(x) \/ x.instance # None \/ x.mig.for # None
  BY <1>1 DEF PrepareDatabase
<1>2. CASE ~(Disposed(x) \/ x.instance # None \/ x.mig.for # None)
  <2>1. PICK g : g = [NoMigration EXCEPT !.for = b]
    OBVIOUS
  <2>2. g \in Migration /\ g.for = b
    BY <2>1 DEF NoMigration, Migration
  <2>3. PICK y : y = [x EXCEPT !.mig = g]
    OBVIOUS
  <2>4. /\ y \in Manager /\ SameRoles(x, y) /\ SameLists(x, y)
        /\ y.obj = x.obj /\ y.hand = x.hand /\ y.mig = g
    BY <2>2, <2>3, PutMigration DEF Sound
  <2>5. Fresh(y) /\ Running(y) /\ Observable(y) /\ Handing(y) /\ Truthful(y)
    BY <2>4 DEF Sound, Fresh, Running, Observable, Handing, Truthful, SameRoles, SameLists
  <2>6. Serves(y, ss) /\ Exclusive(y)
    BY <1>2, <2>2, <2>4, Sorts DEF Sound, Serves, Exclusive, Disposed, SameRoles, SameLists
  <2>7. Ordered(y, ss, ll)
    BY <2>4 DEF Sound, Ordered, Disposed, SameRoles
  <2>8. Recorded(y) /\ Disposing(y)
    BY <2>4 DEF Sound, Recorded, ToldOk, ToldBad, Awaited, Disposing, Quiet, SameRoles, SameLists
  <2>9. Sound(y, ss, ll) /\ y.mig.for # None
    BY <2>2, <2>4, <2>5, <2>6, <2>7, <2>8, Sorts DEF Sound
  <2>10. Sound(MigrationFailed(y, TRUE), ss, ll)
    BY <2>9, MigrationFailedSound
  <2> QED BY <1>2, <2>1, <2>3, <2>9, <2>10 DEF PrepareDatabase
<1> QED BY <1>1, <1>2

\* The release that the handoff of b awaits, if any, is over: nothing more is to
\* be heard or recorded of it.
Freed(x, b) ==
    x.hand[b].at # None =>
        /\ x.hand[b].at \notin x.retiring /\ x.hand[b].at \notin x.failed
        /\ x.obj[x.hand[b].at].busy => ~ToldBad(x, x.hand[b].at)

\* The handoff begins the next release, and awaits it.
LEMMA ReleaseBegins ==
    ASSUME NEW x, NEW ss, NEW ll, Sound(x, ss, ll), NEW b \in Sessions, ~(b > ll), Freed(x, b),
           x.disposal \in {"none", "draining"}, NEW i \in x.hand[b].todo, NEW ok \in BOOLEAN
    PROVE  Sound(Release(x, b, i, ok), ss, ll)
<1>1. x \in Manager /\ x.hand[b] \in Handoff /\ i \in Sessions /\ x.obj[i] \in Instance /\ i # None
  <2>1. x \in Manager /\ x.hand[b] \in Handoff
    BY DEF Sound, Manager
  <2>2. i \in Sessions
    BY <2>1 DEF Handoff
  <2> QED BY <2>1, <2>2, Sorts DEF Manager
<1>2. x.obj[i].st \in {"live", "released"} /\ x.instance # i
  BY <1>1 DEF Sound, Fresh, Running, Instance
<1>3. PICK v \in {"none"} \cup Wake : v = Found(x, i)
  BY DEF Found, Wake
<1>4. PICK bb \in BOOLEAN : bb = IF x.obj[i].st = "released" THEN x.obj[i].busy ELSE TRUE
  BY <1>1 DEF Instance
<1> DEFINE d == [todo |-> x.hand[b].todo \ {i}, at |-> i, got |-> v]
           w == [x EXCEPT !.hand[b] = d]
           o == [x.obj[i] EXCEPT !.busy = bb]
           y == [w EXCEPT !.obj[i] = o]
<1>5. d \in Handoff /\ d.todo = x.hand[b].todo \ {i} /\ d.at = i /\ d.got = v
  BY <1>1 DEF Handoff
<1>6. /\ o \in Instance /\ o.busy = bb /\ o.st = x.obj[i].st /\ o.forced = x.obj[i].forced
      /\ o.closing = x.obj[i].closing /\ o.final = x.obj[i].final /\ o.startup = x.obj[i].startup
  BY <1>1 DEF Instance
<1>7. w \in Manager /\ SameRoles(x, w) /\ SameLists(x, w) /\ w.mig = x.mig /\ w.obj = x.obj
      /\ w.hand[b] = d /\ \A h \in Sessions : h # b => w.hand[h] = x.hand[h]
  <2> HIDE DEF d
  <2> QED BY <1>1, <1>5, PutHand
<1>8. Release(x, b, i, ok) = y
  <2>1. Release(x, b, i, ok) = Dispose(w, i)
    BY <1>1, <1>3 DEF Release, Manager
  <2> HIDE DEF w
  <2>2. CASE x.obj[i].st = "released"
    <3>1. Dispose(w, i) = w
      BY <1>7, <2>2 DEF Dispose
    <3>2. o = x.obj[i]
      BY <1>1, <1>4, <2>2 DEF Instance
    <3>3. [w EXCEPT !.obj[i] = w.obj[i]] = w
      BY <1>1, <1>7 DEF Manager
    <3> QED BY <1>7, <2>1, <3>1, <3>2, <3>3
  <2>3. CASE x.obj[i].st # "released"
    <3>1. Dispose(w, i) = [w EXCEPT !.obj[i].busy = TRUE]
      BY <1>7, <2>3 DEF Dispose
    <3>2. [w EXCEPT !.obj[i].busy = TRUE] = y
      BY <1>1, <1>4, <1>7, <2>3 DEF Manager
    <3> QED BY <2>1, <3>1, <3>2
  <2> QED BY <2>2, <2>3
<1> HIDE DEF d, w, o
<1>9. /\ y \in Manager /\ SameRoles(w, y) /\ SameLists(w, y) /\ y.mig = w.mig /\ y.hand = w.hand
      /\ y.obj[i] = o /\ \A j \in Sessions : j # i => y.obj[j] = w.obj[j]
  BY <1>1, <1>6, <1>7, PutObject
<1> HIDE DEF y
<1>10. /\ SameRoles(x, y) /\ SameLists(x, y) /\ y.mig = x.mig
       /\ y.obj[i] = o /\ \A j \in Sessions : j # i => y.obj[j] = x.obj[j]
       /\ y.hand[b] = d /\ \A h \in Sessions : h # b => y.hand[h] = x.hand[h]
  BY <1>7, <1>9 DEF SameRoles, SameLists
<1>11. \A j \in Sessions : /\ y.obj[j].st = x.obj[j].st /\ y.obj[j].forced = x.obj[j].forced
                           /\ y.obj[j].closing = x.obj[j].closing /\ y.obj[j].final = x.obj[j].final
  BY <1>6, <1>10
<1>12. Fresh(y)
  BY <1>2, <1>5, <1>10, <1>11 DEF Sound, Fresh, SameLists
<1>13. Running(y)
  BY <1>2, <1>5, <1>10 DEF Sound, Running, SameRoles
<1>14. Serves(y, ss) /\ Exclusive(y) /\ Observable(y)
  BY <1>10, <1>11 DEF Sound, Serves, Exclusive, Observable, Disposed, SameRoles, SameLists
<1>15. Ordered(y, ss, ll)
  BY <1>10, <1>11 DEF Sound, Ordered, Disposed, SameRoles
<1>16. Handing(y)
  <2>1. v # "none"
    BY <1>3 DEF Found
  <2>2. x.pending = b => x.retiring \subseteq x.hand[b].todo
    BY <1>1, Sorts DEF Sound, Handing, Freed, Manager
  <2> QED BY <1>1, <1>5, <1>10, <2>1, <2>2 DEF Sound, Handing, SameRoles, SameLists
<1>17. Truthful(y)
  <2>1. ASSUME NEW c \in Sessions
        PROVE  /\ y.obj[c].busy => y.obj[c].st = "live"
               /\ y.obj[c].closing = "ok" => y.obj[c].st = "released"
               /\ y.obj[c].closing = "bad" => y.obj[c].st = "live"
               /\ y.obj[c].final = "ok" => y.obj[c].st = "released"
    <3>1. y.obj[i].busy => y.obj[i].st = "live"
      BY <1>1, <1>2, <1>4, <1>6, <1>10 DEF Sound, Truthful
    <3> QED BY <1>10, <1>11, <3>1 DEF Sound, Truthful
  <2>2. ASSUME NEW c \in Sessions, NEW h \in Sessions, y.hand[h].at = c
        PROVE  /\ y.hand[h].got = "ok" => y.obj[c].st = "released"
               /\ y.hand[h].got = "bad" => y.obj[c].st = "live"
    <3>1. CASE h = b
      BY <1>1, <1>3, <1>5, <1>10, <1>11, <2>2, <3>1 DEF Found
    <3>2. CASE h # b
      BY <1>10, <1>11, <2>2, <3>2 DEF Sound, Truthful
    <3> QED BY <3>1, <3>2
  <2> QED BY <2>1, <2>2 DEF Truthful
<1>18. Recorded(y)
  <2>1. \A c \in Sessions : c # i /\ c # x.hand[b].at =>
               /\ ToldOk(y, c) <=> ToldOk(x, c)
               /\ ToldBad(y, c) <=> ToldBad(x, c)
               /\ Awaited(y, c) <=> Awaited(x, c)
    BY <1>5, <1>10 DEF ToldOk, ToldBad, Awaited
  <2>2. ASSUME NEW c \in Sessions, c # i, c # x.hand[b].at
        PROVE  /\ c \in y.failed => y.obj[c].st = "live" \/ ToldOk(y, c)
               /\ y.obj[c].busy /\ (c \in y.failed \/ ToldBad(y, c)) => Awaited(y, c)
    BY <1>10, <2>1, <2>2 DEF Sound, Recorded, SameLists
  <2>3. ASSUME NEW c \in Sessions, c # i, c = x.hand[b].at
        PROVE  /\ c \notin y.failed
               /\ y.obj[c].busy => ~ToldBad(y, c)
    <3>1. ToldBad(y, c) => ToldBad(x, c)
      BY <1>5, <1>10, <2>3 DEF ToldBad
    <3>2. c # None
      BY Sorts
    <3> QED BY <1>10, <2>3, <3>1, <3>2 DEF Freed, SameLists
  <2>4. /\ y.obj[i].st = "live" \/ ToldOk(y, i)
        /\ y.obj[i].busy => Awaited(y, i)
    BY <1>1, <1>2, <1>3, <1>5, <1>10, <1>11, <1>17 DEF ToldOk, Awaited, Found, Truthful
  <2> QED BY <2>2, <2>3, <2>4 DEF Recorded
<1>19. Disposing(y)
  BY <1>10, <1>11 DEF Sound, Disposing, SameRoles
<1>20. Sound(y, ss, ll)
  BY <1>9, <1>12, <1>13, <1>14, <1>15, <1>16, <1>17, <1>18, <1>19 DEF Sound
<1> QED BY <1>8, <1>20

\* The loop of finishRetiringBeforeStart goes on, after a release that is over.
LEMMA ReleaseSound ==
    ASSUME NEW x, NEW ss, NEW ll, Sound(x, ss, ll), NEW b \in Sessions, x.hand[b].at \in Sessions,
           Freed(x, b), NEW i \in Turn(x.hand[b].todo), NEW ok \in BOOLEAN
    PROVE  Sound(Release(x, b, i, ok), ss, ll)
<1>1. x \in Manager /\ x.hand[b] \in Handoff /\ x.hand[b].at # None
  BY Sorts DEF Sound, Manager
<1>2. ~(b > ll)
  BY <1>1 DEF Sound, Ordered
<1>3. x.disposal \in {"none", "draining"}
  <2>1. ~Quiet(x)
    BY <1>1 DEF Sound, Handing, Quiet
  <2> QED BY <1>1, <2>1 DEF Sound, Disposing, Manager
<1>4. CASE x.hand[b].todo # {}
  BY <1>2, <1>3, <1>4, ReleaseBegins DEF Turn
<1>5. CASE x.hand[b].todo = {}
  <2>1. i = None
    BY <1>5 DEF Turn
  <2> DEFINE y == [x EXCEPT !.hand[b] = NoHandoff]
             z == [y EXCEPT !.pending = None]
  <2>2. Release(x, b, i, ok) = IF x.pending # b THEN y ELSE PrepareDatabase(z, b, ok)
    BY <2>1 DEF Release
  <2>3. /\ y \in Manager /\ SameRoles(x, y) /\ SameLists(x, y) /\ y.mig = x.mig /\ y.obj = x.obj
        /\ y.hand[b] = NoHandoff /\ \A h \in Sessions : h # b => y.hand[h] = x.hand[h]
    BY <1>1, PutHand, Sorts
  <2> HIDE DEF y
  <2>4. /\ z \in Manager /\ z.instance = y.instance /\ z.pending = None /\ z.disposal = y.disposal
        /\ SameLists(y, z) /\ z.mig = y.mig /\ z.obj = y.obj /\ z.hand = y.hand
    BY <2>3 DEF Manager, SameLists
  <2> HIDE DEF z
  <2>5. CASE x.pending # b
    <3>1. Sound(y, ss, ll)
      BY <1>1, <2>3, <2>5, HandoffEnds DEF SameRoles, SameLists, Freed
    <3> QED BY <2>2, <2>5, <3>1
  <2>6. CASE x.pending = b
    <3>1. Sound(z, ss, ll)
      <4>1. z.pending \in {None, x.pending} \ {b}
        BY <2>4, Sorts
      <4>2. /\ z.obj = x.obj /\ z.mig = x.mig /\ z.retiring = x.retiring /\ z.disposal = x.disposal
            /\ z.instance = x.instance /\ z.failed = x.failed
            /\ z.hand[b] = NoHandoff /\ \A h \in Sessions : h # b => z.hand[h] = x.hand[h]
        BY <2>3, <2>4 DEF SameRoles, SameLists
      <4> QED BY <1>1, <2>4, <4>1, <4>2, HandoffEnds DEF Freed
    <3>2. z.retiring = {}
      BY <1>1, <1>5, <2>3, <2>4, <2>6 DEF Sound, Handing, Freed, SameLists
    <3>3. ~Disposed(z) => b = ss
      BY <2>3, <2>4, <2>6, Sorts DEF Sound, Serves, Disposed, SameRoles
    <3> QED BY <2>2, <2>4, <2>6, <3>1, <3>2, <3>3, PrepareDatabaseSound
  <2> QED BY <2>5, <2>6
<1> QED BY <1>4, <1>5

\* A handoff that has been told of a release awaits one.
LEMMA Handed ==
    ASSUME NEW x, NEW ss, NEW ll, Sound(x, ss, ll), NEW b \in Sessions, x.hand[b].got # "none"
    PROVE  x.hand[b].at \in Sessions /\ x.obj[x.hand[b].at].st # "none"
<1>1. x.hand[b] \in Handoff
  BY DEF Sound, Manager
<1>2. x.hand[b].at \in Sessions
  BY <1>1 DEF Sound, Handing, Handoff
<1> QED BY <1>2 DEF Sound, Fresh

\* finishRetiringBeforeStart after a release that has settled.
LEMMA HandoffResumesStep ==
    ASSUME IInv, NEW b \in Sessions, NEW i \in Sessions \cup {None}, NEW ok \in BOOLEAN,
           HandoffResumes(b, i, ok)
    PROVE  IInv'
<1>1. PICK x : x = m
  OBVIOUS
<1>2. /\ Sound(x, session, last) /\ x \in Manager /\ x.hand[b].got \in {"ok", "bad"}
      /\ i \in Turn(x.hand[b].todo) /\ UNCHANGED <<session, last>>
  BY <1>1 DEF IInv, Sound, HandoffResumes, Woken
<1>3. PICK old \in Sessions : old = x.hand[b].at
  BY <1>2, Handed
<1>4. CASE x.hand[b].got = "ok"
  <2>1. x.obj[old].st = "released" /\ ~x.obj[old].busy
    BY <1>2, <1>3, <1>4 DEF Sound, Truthful
  <2>2. PICK z : z = RetirementSucceeded(x, old)
    OBVIOUS
  <2>3. /\ Sound(z, session, last) /\ z.obj = x.obj /\ z.hand = x.hand
        /\ z.retiring = x.retiring \ {old} /\ z.failed = x.failed \ {old}
    BY <1>2, <2>1, <2>2, RetirementSound
  <2>4. Freed(z, b)
    BY <1>3, <2>1, <2>3 DEF Freed
  <2>5. Sound(Release(z, b, i, ok), session, last)
    BY <1>2, <1>3, <2>3, <2>4, ReleaseSound
  <2>6. m' = Release(z, b, i, ok)
    BY <1>1, <1>3, <1>4, <2>2 DEF HandoffResumes
  <2> QED BY <1>2, <2>5, <2>6, SoundNext
<1>5. CASE x.hand[b].got = "bad"
  <2>1. x.obj[old].st = "live"
    BY <1>2, <1>3, <1>5 DEF Sound, Truthful
  <2> DEFINE z == [x EXCEPT !.hand[b] = NoHandoff]
             p == IF x.pending = b THEN None ELSE x.pending
             y == [z EXCEPT !.pending = p, !.failed = x.failed \cup {old}]
  <2>2. m' = y
    BY <1>1, <1>2, <1>3, <1>5 DEF HandoffResumes, Manager
  <2>3. /\ z \in Manager /\ SameRoles(x, z) /\ SameLists(x, z) /\ z.mig = x.mig /\ z.obj = x.obj
        /\ z.hand[b] = NoHandoff /\ \A h \in Sessions : h # b => z.hand[h] = x.hand[h]
    BY <1>2, PutHand, Sorts
  <2>4. p \in Sessions \cup {None} /\ p \in {None, x.pending} \ {b} /\ x.failed \cup {old} \in SUBSET Sessions
    BY <1>2, Sorts DEF Manager
  <2> HIDE DEF z, p
  <2>5. /\ y \in Manager /\ y.instance = z.instance /\ y.pending = p /\ y.disposal = z.disposal
        /\ y.retiring = z.retiring /\ y.failed = x.failed \cup {old}
        /\ y.mig = z.mig /\ y.obj = z.obj /\ y.hand = z.hand
    BY <2>3, <2>4 DEF Manager
  <2> HIDE DEF y
  <2>6. /\ y.obj = x.obj /\ y.mig = x.mig /\ y.retiring = x.retiring /\ y.disposal = x.disposal
        /\ y.instance = x.instance
        /\ y.hand[b] = NoHandoff /\ \A h \in Sessions : h # b => y.hand[h] = x.hand[h]
    BY <2>3, <2>5 DEF SameRoles, SameLists
  <2>7. y.obj[old].busy => Awaited(y, old)
    <3>1. x.obj[old].busy => Awaited(x, old)
      BY <1>2, <1>3, <1>5 DEF Sound, Recorded, ToldBad
    <3>2. Awaited(x, old) => Awaited(y, old)
      BY <1>5, <2>6 DEF Awaited
    <3> QED BY <2>6, <3>1, <3>2
  <2>8. y.failed \ {old} = x.failed \ {old}
    BY <2>5
  <2>9. Sound(y, session, last)
    BY <1>2, <1>3, <2>1, <2>4, <2>5, <2>6, <2>7, <2>8, HandoffEnds
  <2> QED BY <1>2, <2>2, <2>9, SoundNext
<1> QED BY <1>2, <1>4, <1>5

\* The release deadline.
LEMMA HandoffTimesOutStep ==
    ASSUME IInv, NEW b \in Sessions, NEW i \in Sessions \cup {None}, NEW ok \in BOOLEAN,
           HandoffTimesOut(b, i, ok)
    PROVE  IInv'
<1>1. PICK x : x = m
  OBVIOUS
<1>2. /\ Sound(x, session, last) /\ x \in Manager /\ x.hand[b].got = "wait"
      /\ i \in Turn(x.hand[b].todo) /\ UNCHANGED <<session, last>>
  BY <1>1 DEF IInv, Sound, HandoffTimesOut
<1>3. PICK old \in Sessions : old = x.hand[b].at
  BY <1>2, Handed
<1>4. \A c \in Sessions : x.obj[c].closing \notin Woken /\ x.hand[c].got \notin Woken
  BY <1>1 DEF HandoffTimesOut, Idle
<1>5. PICK w : w = [x EXCEPT !.obj[old].forced = TRUE]
  OBVIOUS
<1>6. x.obj[old].st # "none"
  BY <1>2, <1>3, Handed
<1>7. /\ Sound(w, session, last) /\ SameRoles(x, w) /\ SameLists(x, w) /\ w.hand = x.hand
      /\ w.obj[old].forced
      /\ \A j \in Sessions : w.obj[j].closing = x.obj[j].closing
  BY <1>2, <1>5, <1>6, ForcedSound
<1>8. PICK z : z = RetirementSucceeded(w, old)
  OBVIOUS
<1>9. /\ Sound(z, session, last) /\ z.obj = w.obj /\ z.hand = w.hand
      /\ z.retiring = w.retiring \ {old} /\ z.failed = w.failed \ {old}
  BY <1>7, <1>8, RetirementSound
<1>10. Freed(z, b)
  <2>1. ~ToldBad(z, old)
    BY <1>4, <1>7, <1>9 DEF ToldBad, Woken
  <2> QED BY <1>3, <1>7, <1>9, <2>1 DEF Freed
<1>11. Sound(Release(z, b, i, ok), session, last)
  <2>1. z.hand = x.hand
    BY <1>7, <1>9
  <2> QED BY <1>2, <1>3, <1>9, <1>10, <2>1, ReleaseSound
<1>12. m' = Release(z, b, i, ok)
  BY <1>1, <1>3, <1>5, <1>8 DEF HandoffTimesOut
<1> QED BY <1>2, <1>11, <1>12, SoundNext

-----------------------------------------------------------------------------
(* The sessions.                                                           *)

\* A Bridge is announced: nothing of the account refers to it yet.
LEMMA SessionBegins ==
    ASSUME NEW x, NEW ll, Sound(x, None, ll), NEW b \in Sessions, b = ll + 1
    PROVE  Sound(x, b, b) /\ (~Disposed(x) => x.instance = None /\ x.mig.for = None /\ x.pending = None)
           /\ x.hand[b].at = None
<1>1. ll \in Nat
  BY DEF Sound, Ordered, Sessions, None
<1>2. b > ll /\ \A c \in Sessions : c > b => c > ll
  BY <1>1 DEF Sessions
<1>3. Ordered(x, b, b) /\ x.hand[b].at = None
  BY <1>2 DEF Sound, Ordered
<1>4. Serves(x, b) /\ (~Disposed(x) => x.instance = None /\ x.mig.for = None /\ x.pending = None)
  BY DEF Sound, Serves
<1> QED BY <1>3, <1>4 DEF Sound

\* onSessionStarted.
LEMMA OnSessionStartedStep ==
    ASSUME IInv, NEW b \in Sessions, NEW i \in Sessions \cup {None}, NEW ok \in BOOLEAN,
           OnSessionStarted(b, i, ok)
    PROVE  IInv'
<1>1. PICK x : x = m
  OBVIOUS
<1>2. /\ Sound(x, None, last) /\ x \in Manager /\ b = last + 1 /\ session' = b /\ last' = b
      /\ i \in Turn(x.retiring)
  BY <1>1 DEF IInv, Sound, OnSessionStarted
<1>3. Sound(x, b, b) /\ (~Disposed(x) => x.instance = None /\ x.mig.for = None /\ x.pending = None)
      /\ x.hand[b].at = None
  BY <1>2, SessionBegins
<1>4. CASE Disposed(x) \/ x.instance # None \/ x.pending # None
  <2>1. m' = x
    BY <1>1, <1>4 DEF OnSessionStarted
  <2> QED BY <1>2, <1>3, <2>1, SoundNext
<1>5. CASE ~(Disposed(x) \/ x.instance # None \/ x.pending # None) /\ x.retiring = {}
  <2>1. m' = PrepareDatabase(x, b, ok)
    BY <1>1, <1>5 DEF OnSessionStarted
  <2>2. Sound(m', b, b)
    BY <1>3, <1>5, <2>1, PrepareDatabaseSound
  <2> QED BY <1>2, <2>2, SoundNext
<1>6. CASE ~(Disposed(x) \/ x.instance # None \/ x.pending # None) /\ x.retiring # {}
  <2> DEFINE d == [x.hand[b] EXCEPT !.todo = x.retiring]
             w == [x EXCEPT !.hand[b] = d]
             z == [w EXCEPT !.pending = b]
  <2>1. x.hand[b] \in Handoff /\ x.retiring \in SUBSET Sessions
    BY <1>2 DEF Manager
  <2>2. d \in Handoff /\ d.todo = x.retiring /\ d.at = None /\ d.got = x.hand[b].got
    BY <1>3, <2>1 DEF Handoff
  <2>3. m' = Release(z, b, i, ok)
    <3>1. [x EXCEPT !.pending = b, !.hand[b].todo = x.retiring] = z
      BY <1>2 DEF Manager
    <3> QED BY <1>1, <1>6, <3>1 DEF OnSessionStarted
  <2> HIDE DEF d
  <2>4. /\ w \in Manager /\ SameRoles(x, w) /\ SameLists(x, w) /\ w.mig = x.mig /\ w.obj = x.obj
        /\ w.hand[b] = d /\ \A h \in Sessions : h # b => w.hand[h] = x.hand[h]
    BY <1>2, <2>2, PutHand
  <2> HIDE DEF w
  <2>5. /\ z \in Manager /\ z.instance = w.instance /\ z.pending = b /\ z.disposal = w.disposal
        /\ SameLists(w, z) /\ z.mig = w.mig /\ z.obj = w.obj /\ z.hand = w.hand
    BY <2>4 DEF Manager, SameLists
  <2> HIDE DEF z
  <2>6. /\ z.instance = None /\ z.disposal = x.disposal /\ SameLists(x, z) /\ z.mig = x.mig /\ z.obj = x.obj
        /\ z.hand[b] = d /\ \A h \in Sessions : h # b => z.hand[h] = x.hand[h]
    BY <1>6, <2>4, <2>5 DEF SameRoles, SameLists
  <2>7. \A h \in Sessions : z.hand[h].at = x.hand[h].at /\ z.hand[h].got = x.hand[h].got
    BY <1>3, <2>2, <2>6
  <2>8. Fresh(z)
    BY <1>3, <2>2, <2>6, <2>7 DEF Sound, Fresh, SameLists
  <2>9. Running(z) /\ Exclusive(z) /\ Serves(z, b)
    BY <1>3, <1>6, <2>5, <2>6, Sorts DEF Sound, Running, Exclusive, Serves, Disposed, SameLists
  <2>10. Ordered(z, b, b) /\ Observable(z)
    BY <1>3, <1>6, <2>6, <2>7 DEF Sound, Ordered, Observable, Disposed, SameLists
  <2>11. Handing(z)
    BY <1>3, <2>2, <2>5, <2>6, <2>7 DEF Sound, Handing, SameLists
  <2>12. Truthful(z)
    BY <1>3, <2>6, <2>7 DEF Sound, Truthful
  <2>13. Recorded(z)
    BY <1>3, <2>6, <2>7 DEF Sound, Recorded, ToldOk, ToldBad, Awaited, SameLists
  <2>14. Disposing(z)
    BY <1>3, <1>6, <2>6 DEF Sound, Disposing, Disposed, SameLists
  <2>15. Sound(z, b, b)
    BY <2>5, <2>8, <2>9, <2>10, <2>11, <2>12, <2>13, <2>14 DEF Sound
  <2>16. i \in z.hand[b].todo /\ Freed(z, b) /\ z.disposal = "none" /\ ~(b > b)
    <3>1. b \in Nat
      BY DEF Sessions
    <3> QED BY <1>2, <1>6, <2>2, <2>6, <3>1 DEF Turn, Freed, Disposed
  <2>17. Sound(m', b, b)
    BY <2>3, <2>15, <2>16, ReleaseBegins
  <2> QED BY <1>2, <2>17, SoundNext
<1> QED BY <1>4, <1>5, <1>6

\* onSessionClosed.
LEMMA OnSessionClosedStep ==
    ASSUME IInv, OnSessionClosed
    PROVE  IInv'
<1>1. PICK x : x = m
  OBVIOUS
<1>2. Sound(x, session, last) /\ x \in Manager /\ session' = None /\ last' = last /\ session # None
  BY <1>1 DEF IInv, Sound, OnSessionClosed
<1>3. CASE Disposed(x)
  <2>1. m' = x
    BY <1>1, <1>3 DEF OnSessionClosed
  <2>2. Serves(x, None) /\ Ordered(x, None, last)
    BY <1>2, <1>3 DEF Sound, Serves, Ordered
  <2>3. Sound(x, None, last)
    BY <1>2, <2>2 DEF Sound
  <2> QED BY <1>2, <2>1, <2>3, SoundNext
<1> DEFINE w == [x EXCEPT !.mig = NoMigration]
<1>4. /\ w \in Manager /\ SameRoles(x, w) /\ SameLists(x, w)
      /\ w.obj = x.obj /\ w.hand = x.hand /\ w.mig = NoMigration
  BY <1>2, PutMigration, Sorts
<1>5. CASE ~Disposed(x) /\ x.instance = None
  <2> DEFINE y == [w EXCEPT !.pending = None]
  <2>1. m' = y
    BY <1>1, <1>5 DEF OnSessionClosed
  <2> HIDE DEF w
  <2>2. /\ y \in Manager /\ y.instance = w.instance /\ y.pending = None /\ y.disposal = w.disposal
        /\ SameLists(w, y) /\ y.mig = w.mig /\ y.obj = w.obj /\ y.hand = w.hand
    BY <1>4 DEF Manager, SameLists
  <2> HIDE DEF y
  <2>3. /\ y.instance = None /\ y.disposal = "none" /\ SameLists(x, y) /\ y.mig = NoMigration
        /\ y.obj = x.obj /\ y.hand = x.hand
    BY <1>4, <1>5, <2>2 DEF SameRoles, SameLists, Disposed
  <2>4. Fresh(y) /\ Running(y) /\ Observable(y) /\ Handing(y) /\ Truthful(y)
    BY <1>2, <1>5, <2>2, <2>3, Sorts DEF Sound, Fresh, Running, Observable, Handing, Truthful, SameLists
  <2>5. Serves(y, None) /\ Ordered(y, None, last) /\ Exclusive(y)
    BY <1>2, <2>2, <2>3, Sorts DEF Sound, Serves, Ordered, Exclusive, Disposed
  <2>6. Recorded(y) /\ Disposing(y)
    BY <1>2, <1>5, <2>3 DEF Sound, Recorded, ToldOk, ToldBad, Awaited, Disposing, Disposed, SameLists
  <2>7. Sound(y, None, last)
    BY <2>2, <2>4, <2>5, <2>6 DEF Sound
  <2> QED BY <1>2, <2>1, <2>7, SoundNext
<1>6. CASE ~Disposed(x) /\ x.instance # None
  <2>1. PICK i \in Sessions : i = x.instance
    BY <1>2, <1>6 DEF Manager
  <2>2. /\ x.obj[i] \in Instance /\ x.obj[i].st = "live" /\ ~x.obj[i].busy /\ x.obj[i].closing = "none"
        /\ x.pending = None /\ x.retiring = {} /\ x.retiring \cup {i} \in SUBSET Sessions
    BY <1>2, <1>6, <2>1 DEF Sound, Running, Serves, Exclusive, Manager
  <2> DEFINE o == [x.obj[i] EXCEPT !.closing = "offline"]
             z == [w EXCEPT !.obj[i] = o]
             y == [z EXCEPT !.instance = None, !.retiring = x.retiring \cup {i}]
  <2>3. /\ o \in Instance /\ o.closing = "offline" /\ o.busy = x.obj[i].busy /\ o.st = x.obj[i].st
        /\ o.forced = x.obj[i].forced /\ o.final = x.obj[i].final /\ o.startup = x.obj[i].startup
    BY <2>2 DEF Instance
  <2>4. m' = y
    <3>1. m' = [w EXCEPT !.instance = None, !.retiring = @ \cup {i}, !.obj[i].closing = "offline"]
      BY <1>1, <1>6, <2>1 DEF OnSessionClosed
    <3> HIDE DEF w
    <3> QED BY <1>4, <3>1 DEF Manager, SameLists
  <2> HIDE DEF o, w
  <2>5. /\ z \in Manager /\ SameRoles(w, z) /\ SameLists(w, z) /\ z.mig = w.mig /\ z.hand = w.hand
        /\ z.obj[i] = o /\ \A j \in Sessions : j # i => z.obj[j] = w.obj[j]
    BY <1>4, <2>3, PutObject
  <2> HIDE DEF z
  <2>6. /\ y \in Manager /\ y.instance = None /\ y.pending = z.pending /\ y.disposal = z.disposal
        /\ y.retiring = x.retiring \cup {i} /\ y.failed = z.failed
        /\ y.mig = z.mig /\ y.obj = z.obj /\ y.hand = z.hand
    BY <2>2, <2>5 DEF Manager
  <2> HIDE DEF y
  <2>7. /\ y.pending = None /\ y.disposal = "none" /\ y.failed = x.failed /\ y.mig = NoMigration
        /\ y.hand = x.hand /\ y.obj[i] = o /\ \A j \in Sessions : j # i => y.obj[j] = x.obj[j]
    BY <1>4, <1>6, <2>2, <2>5, <2>6 DEF SameRoles, SameLists, Disposed
  <2>8. \A j \in Sessions : y.obj[j].st = x.obj[j].st /\ y.obj[j].busy = x.obj[j].busy
                            /\ y.obj[j].forced = x.obj[j].forced /\ y.obj[j].final = x.obj[j].final
                            /\ (y.obj[j].closing = x.obj[j].closing \/ (y.obj[j].closing = "offline"
                                                                        /\ x.obj[j].closing = "none"))
    BY <2>2, <2>3, <2>7
  <2>9. Fresh(y)
    BY <1>2, <2>2, <2>3, <2>6, <2>7 DEF Sound, Fresh
  <2>10. Running(y) /\ Exclusive(y) /\ Handing(y)
    BY <1>2, <2>6, <2>7, Sorts DEF Sound, Running, Exclusive, Handing
  <2>11. Observable(y)
    BY <1>2, <2>1, <2>6, <2>8 DEF Sound, Observable
  <2>12. Serves(y, None) /\ Ordered(y, None, last)
    BY <1>2, <2>6, <2>7, <2>8, Sorts DEF Sound, Serves, Ordered, Disposed
  <2>13. Truthful(y)
    BY <1>2, <2>7, <2>8 DEF Sound, Truthful
  <2>14. Recorded(y)
    BY <1>2, <2>7, <2>8 DEF Sound, Recorded, ToldOk, ToldBad, Awaited
  <2>15. Disposing(y)
    BY <1>2, <1>6, <2>7, <2>8 DEF Sound, Disposing, Disposed
  <2>16. Sound(y, None, last)
    BY <2>6, <2>9, <2>10, <2>11, <2>12, <2>13, <2>14, <2>15 DEF Sound
  <2> QED BY <1>2, <2>4, <2>16, SoundNext
<1> QED BY <1>3, <1>5, <1>6

-----------------------------------------------------------------------------
(* dispose()                                                               *)

\* dispose() takes the account down to its retiring instances.
LEMMA ManagerDisposeStep ==
    ASSUME IInv, ManagerDispose
    PROVE  IInv'
<1>1. PICK x : x = m
  OBVIOUS
<1>2. /\ Sound(x, session, last) /\ x \in Manager /\ UNCHANGED <<session, last>>
      /\ x.disposal \in {"none", "failed"}
  BY <1>1 DEF IInv, Sound, ManagerDispose
<1> DEFINE rr == IF x.instance = None THEN x.retiring ELSE x.retiring \cup {x.instance}
           w == [x EXCEPT !.mig = NoMigration]
           y == [w EXCEPT !.disposal = "draining", !.instance = None, !.retiring = rr]
<1>3. rr \in SUBSET Sessions
  BY <1>2 DEF Manager
<1>4. m' = y
  BY <1>1, <1>2 DEF ManagerDispose, Manager
<1>5. /\ w \in Manager /\ SameRoles(x, w) /\ SameLists(x, w)
      /\ w.obj = x.obj /\ w.hand = x.hand /\ w.mig = NoMigration
  BY <1>2, PutMigration, Sorts
<1> HIDE DEF w, rr
<1>6. /\ y \in Manager /\ y.instance = None /\ y.pending = w.pending /\ y.disposal = "draining"
      /\ y.retiring = rr /\ y.failed = w.failed /\ y.mig = w.mig /\ y.obj = w.obj /\ y.hand = w.hand
  BY <1>3, <1>5 DEF Manager
<1> HIDE DEF y
<1>7. /\ y.pending = x.pending /\ y.failed = x.failed /\ y.mig = NoMigration /\ y.obj = x.obj
      /\ y.hand = x.hand
  BY <1>5, <1>6 DEF SameRoles, SameLists
<1>8. Fresh(y) /\ Observable(y)
  BY <1>2, <1>6, <1>7 DEF Sound, Fresh, Observable, Running, rr
<1>9. Running(y) /\ Exclusive(y) /\ Truthful(y)
  BY <1>2, <1>6, <1>7, Sorts DEF Sound, Running, Exclusive, Truthful
<1>10. Handing(y)
  <2>1. y.pending # None => y.retiring = x.retiring
    BY <1>2, <1>6, <1>7 DEF Sound, Serves, rr
  <2> QED BY <1>2, <1>7, <2>1, Sorts DEF Sound, Handing
<1>11. Serves(y, session) /\ Ordered(y, session, last)
  BY <1>2, <1>6, <1>7, Sorts DEF Sound, Serves, Ordered, Disposed
<1>12. Recorded(y)
  BY <1>2, <1>7 DEF Sound, Recorded, ToldOk, ToldBad, Awaited
<1>13. Disposing(y)
  BY <1>2, <1>6, <1>7 DEF Sound, Disposing
<1>14. Sound(y, session, last)
  BY <1>6, <1>8, <1>9, <1>10, <1>11, <1>12, <1>13 DEF Sound
<1> QED BY <1>2, <1>4, <1>14, SoundNext

\* No operation is left, and every retiring instance is disposed of.
LEMMA DisposeInstancesStep ==
    ASSUME IInv, DisposeInstances
    PROVE  IInv'
<1>1. PICK x : x = m
  OBVIOUS
<1>2. /\ Sound(x, session, last) /\ x \in Manager /\ UNCHANGED <<session, last>>
      /\ x.disposal = "draining" /\ Quiet(x)
  BY <1>1 DEF IInv, Sound, DisposeInstances, Drained, Quiet
<1> DEFINE q == [i \in Sessions |->
                   IF i \in x.retiring
                     THEN [x.obj[i] EXCEPT !.final = Found(x, i), !.busy = @ \/ x.obj[i].st # "released"]
                     ELSE x.obj[i]]
           y == [x EXCEPT !.disposal = "releasing", !.obj = q]
<1>3. m' = y
  BY <1>1 DEF DisposeInstances
<1>4. ASSUME NEW i \in Sessions
      PROVE  /\ q[i] \in Instance
             /\ q[i].st = x.obj[i].st /\ q[i].forced = x.obj[i].forced
             /\ q[i].closing = x.obj[i].closing /\ q[i].startup = x.obj[i].startup
             /\ i \in x.retiring =>
                  /\ q[i].final = Found(x, i)
                  /\ q[i].busy <=> (x.obj[i].busy \/ x.obj[i].st # "released")
             /\ i \notin x.retiring => q[i] = x.obj[i]
  <2>1. x.obj[i] \in Instance
    BY <1>2 DEF Manager
  <2>2. PICK f \in {"none"} \cup Wake : f = Found(x, i)
    BY DEF Found, Wake
  <2>3. PICK bb \in BOOLEAN : bb = (x.obj[i].busy \/ x.obj[i].st # "released")
    OBVIOUS
  <2>4. q[i] = IF i \in x.retiring THEN [x.obj[i] EXCEPT !.final = f, !.busy = bb] ELSE x.obj[i]
    BY <2>2, <2>3
  <2> HIDE DEF q
  <2> QED BY <2>1, <2>2, <2>3, <2>4 DEF Instance
<1>5. q \in [Sessions -> Instance]
  BY <1>4
<1> HIDE DEF q
<1>6. /\ y \in Manager /\ y.instance = x.instance /\ y.pending = x.pending /\ y.disposal = "releasing"
      /\ SameLists(x, y) /\ y.mig = x.mig /\ y.obj = q /\ y.hand = x.hand
  BY <1>2, <1>5 DEF Manager, SameLists
<1> HIDE DEF y
<1>7. x.instance = None /\ x.mig.for = None /\ Disposed(x)
  BY <1>2 DEF Sound, Serves, Disposed
<1>8. Fresh(y)
  <2>1. \A b \in Sessions : y.obj[b].st = "none" => y.obj[b] = x.obj[b]
    BY <1>2, <1>4, <1>6 DEF Sound, Fresh
  <2> QED BY <1>2, <1>4, <1>6, <2>1 DEF Sound, Fresh, SameLists
<1>9. Running(y) /\ Exclusive(y) /\ Handing(y)
  BY <1>2, <1>6, <1>7, Sorts DEF Sound, Running, Exclusive, Handing, SameLists
<1>10. Observable(y)
  BY <1>2, <1>4, <1>6 DEF Sound, Observable, SameLists
<1>11. Serves(y, session) /\ Ordered(y, session, last)
  BY <1>2, <1>4, <1>6, <1>7 DEF Sound, Serves, Ordered, Disposed
<1>12. Truthful(y)
  <2>1. ASSUME NEW b \in Sessions
        PROVE  /\ y.obj[b].busy => y.obj[b].st = "live"
               /\ y.obj[b].final = "ok" => y.obj[b].st = "released"
    <3>1. x.obj[b] \in Instance
      BY <1>2 DEF Manager
    <3>2. CASE b \in x.retiring
      <4>1. x.obj[b].st \in {"live", "released"}
        BY <1>2, <3>1, <3>2 DEF Sound, Fresh, Instance
      <4> QED BY <1>2, <1>4, <1>6, <3>2, <4>1 DEF Sound, Truthful, Found
    <3>3. CASE b \notin x.retiring
      BY <1>2, <1>4, <1>6, <3>3 DEF Sound, Truthful
    <3> QED BY <3>2, <3>3
  <2> QED BY <1>2, <1>4, <1>6, <2>1 DEF Sound, Truthful
<1>13. Recorded(y)
  <2>1. ASSUME NEW b \in Sessions, b \in x.retiring
        PROVE  /\ y.obj[b].st = "live" \/ ToldOk(y, b)
               /\ y.obj[b].busy => Awaited(y, b)
    <3>1. x.obj[b] \in Instance /\ x.obj[b].st \in {"live", "released"}
      BY <1>2, <2>1 DEF Sound, Fresh, Instance, Manager
    <3>2. y.obj[b].final = Found(x, b) /\ y.obj[b].st = x.obj[b].st
      BY <1>4, <1>6, <2>1
    <3> QED BY <1>12, <3>1, <3>2 DEF ToldOk, Awaited, Found, Truthful
  <2>2. ASSUME NEW b \in Sessions, b \notin x.retiring
        PROVE  /\ b \in y.failed => y.obj[b].st = "live" \/ ToldOk(y, b)
               /\ y.obj[b].busy /\ (b \in y.failed \/ ToldBad(y, b)) => Awaited(y, b)
    <3>1. y.obj[b] = x.obj[b]
      BY <1>4, <1>6, <2>2
    <3> QED BY <1>2, <1>6, <3>1 DEF Sound, Recorded, ToldOk, ToldBad, Awaited, SameLists
  <2> QED BY <2>1, <2>2 DEF Recorded
<1>14. Disposing(y)
  <2>1. Quiet(y)
    BY <1>2, <1>4, <1>6 DEF Quiet
  <2>2. \A i \in y.retiring : i \in Sessions /\ y.obj[i].final # "none"
    BY <1>2, <1>4, <1>6 DEF Found, SameLists, Manager
  <2> QED BY <1>6, <2>1, <2>2 DEF Disposing
<1>15. Sound(y, session, last)
  BY <1>6, <1>8, <1>9, <1>10, <1>11, <1>12, <1>13, <1>14 DEF Sound
<1> QED BY <1>2, <1>3, <1>15, SoundNext

\* Every release has settled, and dispose() resolves or throws.
LEMMA DisposeEndsStep ==
    ASSUME IInv, DisposeEnds
    PROVE  IInv'
<1>1. PICK x : x = m
  OBVIOUS
<1>2. /\ Sound(x, session, last) /\ x \in Manager /\ UNCHANGED <<session, last>>
      /\ x.disposal = "releasing" /\ Quiet(x) /\ \A i \in Sessions : x.obj[i].final # "wait"
  BY <1>1 DEF IInv, Sound, DisposeEnds, Disposing
<1> DEFINE bad == {i \in Sessions : x.obj[i].final = "bad"}
           good == {i \in Sessions : x.obj[i].final = "ok"}
           left == (x.failed \cup bad) \ good
           q == [i \in Sessions |-> [x.obj[i] EXCEPT !.final = "none"]]
<1>3. PICK dd \in {"done", "failed"} : dd = IF left = {} /\ ~x.startFailed THEN "done" ELSE "failed"
  OBVIOUS
<1>4. PICK p \in {None, x.pending} : p = IF left = {} /\ ~x.startFailed THEN None ELSE x.pending
  OBVIOUS
<1> DEFINE y == [x EXCEPT !.disposal = dd, !.pending = p, !.retiring = x.retiring \ good,
                          !.failed = {}, !.startFailed = FALSE, !.obj = q]
<1>5. m' = y
  BY <1>1, <1>3, <1>4 DEF DisposeEnds
<1>6. ASSUME NEW i \in Sessions
      PROVE  /\ q[i] \in Instance /\ q[i].final = "none"
             /\ q[i].st = x.obj[i].st /\ q[i].forced = x.obj[i].forced /\ q[i].busy = x.obj[i].busy
             /\ q[i].closing = x.obj[i].closing /\ q[i].startup = x.obj[i].startup
  <2>1. x.obj[i] \in Instance
    BY <1>2 DEF Manager
  <2> QED BY <2>1 DEF Instance
<1>7. q \in [Sessions -> Instance] /\ x.retiring \ good \in SUBSET Sessions
      /\ p \in Sessions \cup {None}
  BY <1>2, <1>6 DEF Manager
<1>8. dd = "done" => x.retiring \ good = {}
  <2>1. ASSUME NEW i \in x.retiring, left = {} PROVE i \in good
    <3>1. i \in Sessions /\ x.obj[i] \in Instance /\ x.obj[i].final # "none"
      BY <1>2, <2>1 DEF Sound, Disposing, Manager
    <3>2. x.obj[i].final \in {"ok", "bad"}
      BY <1>2, <3>1 DEF Instance, Wake
    <3> QED BY <2>1, <3>1, <3>2
  <2> QED BY <1>3, <2>1
<1>9. \A i \in Sessions : i \in good => x.obj[i].st = "released"
  BY <1>2 DEF Sound, Truthful
<1> HIDE DEF q, bad, good, left
<1>10. /\ y \in Manager /\ y.instance = x.instance /\ y.pending = p /\ y.disposal = dd
       /\ y.retiring = x.retiring \ good /\ y.failed = {} /\ y.mig = x.mig /\ y.obj = q /\ y.hand = x.hand
  BY <1>2, <1>7 DEF Manager
<1> HIDE DEF y
<1>11. x.instance = None /\ x.mig.for = None /\ Disposed(x)
  BY <1>2 DEF Sound, Serves, Disposed
<1>12. Fresh(y)
  <2>1. \A b \in Sessions : y.obj[b].st = "none" => y.obj[b] = NoInstance
    <3> SUFFICES ASSUME NEW b \in Sessions, y.obj[b].st = "none" PROVE y.obj[b] = NoInstance
      OBVIOUS
    <3>1. x.obj[b] = NoInstance
      BY <1>2, <1>6, <1>10 DEF Sound, Fresh
    <3> QED BY <1>10, <3>1 DEF q, NoInstance
  <2> QED BY <1>2, <1>6, <1>10, <2>1 DEF Sound, Fresh
<1>13. Running(y) /\ Exclusive(y)
  BY <1>10, <1>11, Sorts DEF Running, Exclusive
<1>14. Handing(y)
  BY <1>2, <1>4, <1>10, Sorts DEF Sound, Handing
<1>15. Observable(y)
  BY <1>2, <1>6, <1>9, <1>10 DEF Sound, Observable
<1>16. Serves(y, session) /\ Ordered(y, session, last)
  BY <1>2, <1>3, <1>4, <1>6, <1>10, <1>11 DEF Sound, Serves, Ordered, Disposed
<1>17. Truthful(y)
  BY <1>2, <1>6, <1>10 DEF Sound, Truthful
<1>18. Recorded(y)
  BY <1>2, <1>6, <1>10 DEF Recorded, ToldBad, Quiet
<1>19. Disposing(y)
  <2>1. Quiet(y)
    BY <1>2, <1>6, <1>10 DEF Quiet
  <2> QED BY <1>3, <1>6, <1>8, <1>10, <2>1 DEF Disposing
<1>20. Sound(y, session, last)
  BY <1>10, <1>12, <1>13, <1>14, <1>15, <1>16, <1>17, <1>18, <1>19 DEF Sound
<1> QED BY <1>2, <1>5, <1>20, SoundNext

-----------------------------------------------------------------------------
(* The results.                                                            *)

\* The account has had no session.
LEMMA InitIInv == Init => IInv
<1> SUFFICES ASSUME Init PROVE IInv
  OBVIOUS
<1>1. PICK x : x = m
  OBVIOUS
<1>2. /\ x.instance = None /\ x.retiring = {} /\ x.pending = None /\ x.mig = NoMigration
      /\ x.failed = {} /\ x.disposal = "none" /\ x.startFailed = FALSE
      /\ x.obj = [b \in Sessions |-> NoInstance] /\ x.hand = [b \in Sessions |-> NoHandoff]
  BY <1>1 DEF Init
<1>3. x \in Manager
  <2>1. [b \in Sessions |-> NoInstance] \in [Sessions -> Instance]
        /\ [b \in Sessions |-> NoHandoff] \in [Sessions -> Handoff]
    BY Sorts
  <2> QED BY <1>1, <2>1, Sorts DEF Init, Manager
<1>4. \A b \in Sessions : x.obj[b] = NoInstance /\ x.hand[b] = NoHandoff
  BY <1>2
<1>5. /\ NoInstance.st = "none" /\ ~NoInstance.busy /\ NoInstance.closing = "none" /\ NoInstance.final = "none"
  BY DEF NoInstance
<1>6. Fresh(x) /\ Running(x) /\ Observable(x) /\ Handing(x) /\ Exclusive(x)
  BY <1>2, <1>4, <1>5, Sorts DEF Fresh, Running, Observable, Handing, Exclusive
<1>7. Serves(x, None) /\ Ordered(x, None, None)
  BY <1>2, <1>4, <1>5, Sorts DEF Serves, Ordered, Disposed
<1>8. Truthful(x) /\ Recorded(x) /\ Disposing(x)
  BY <1>2, <1>4, <1>5, Sorts DEF Truthful, Recorded, ToldBad, Disposing
<1> QED BY <1>1, <1>3, <1>6, <1>7, <1>8 DEF IInv, Sound, Init

\* Every step keeps the invariant.
LEMMA NextIInv == IInv /\ [Next]_vars => IInv'
<1> SUFFICES ASSUME IInv, [Next]_vars PROVE IInv'
  OBVIOUS
<1>1. CASE UNCHANGED vars
  BY <1>1 DEF vars, IInv, Sound, Fresh, Serves, Ordered, Running, Exclusive, Observable, Handing, Truthful,
              Recorded, Disposing, Quiet, ToldOk, ToldBad, Awaited, Disposed
<1>2. CASE \E b \in Sessions, i \in Sessions \cup {None}, ok \in BOOLEAN : OnSessionStarted(b, i, ok)
  BY <1>2, OnSessionStartedStep
<1>3. CASE OnSessionClosed
  BY <1>3, OnSessionClosedStep
<1>4. CASE \E how \in {"begun", "stuck", "failed", "invalid"} : DatabaseReady(how)
  BY <1>4, DatabaseReadyStep
<1>5. CASE DatabaseMigrated
  BY <1>5, DatabaseMigratedStep
<1>6. CASE DatabaseFails
  BY <1>6, DatabaseFailsStep
<1>7. CASE \E ok \in BOOLEAN : RetryDatabase(ok)
  BY <1>7, RetryDatabaseStep
<1>8. CASE \E i \in Sessions, ok \in BOOLEAN : StartupSettles(i, ok)
  BY <1>8, StartupSettlesStep
<1>9. CASE \E i \in Sessions : OnlineSent(i)
  BY <1>9, OnlineSentStep
<1>10. CASE \E i \in Sessions : OfflineSent(i)
  BY <1>10, OfflineSentStep
<1>11. CASE \E i \in Sessions, ok \in BOOLEAN : DisposeSettles(i, ok)
  BY <1>11, DisposeSettlesStep
<1>12. CASE \E i \in Sessions : ClosingResumes(i)
  BY <1>12, ClosingResumesStep
<1>13. CASE \E b \in Sessions, i \in Sessions \cup {None}, ok \in BOOLEAN : HandoffResumes(b, i, ok)
  BY <1>13, HandoffResumesStep
<1>14. CASE \E b \in Sessions, i \in Sessions \cup {None}, ok \in BOOLEAN : HandoffTimesOut(b, i, ok)
  BY <1>14, HandoffTimesOutStep
<1>15. CASE ManagerDispose
  BY <1>15, ManagerDisposeStep
<1>16. CASE DisposeInstances
  BY <1>16, DisposeInstancesStep
<1>17. CASE DisposeEnds
  BY <1>17, DisposeEndsStep
<1> QED BY <1>1, <1>2, <1>3, <1>4, <1>5, <1>6, <1>7, <1>8, <1>9, <1>10, <1>11, <1>12, <1>13, <1>14,
           <1>15, <1>16, <1>17 DEF Next

\* The inductive invariant holds in every reachable state, however often the
\* account logs in.
THEOREM InvariantHolds == Spec => []IInv
BY InitIInv, NextIInv, PTL DEF Spec

\* The manager's tables have their types.
THEOREM TypesHold == Spec => []TypeOK
<1>1. IInv => TypeOK
  BY DEF IInv, Sound, Ordered, TypeOK
<1> QED BY <1>1, InvariantHolds, PTL

\* Two generations of an account never hold the adapters' ports together: while
\* an instance serves, every other was released or forced closed.
THEOREM GenerationsAreSeparate == Spec => []OneGeneration
<1>1. IInv => OneGeneration
  BY DEF IInv, Sound, Exclusive, Observable, OneGeneration
<1> QED BY <1>1, InvariantHolds, PTL

\* The instance, the migration and the waiting start are the present Bridge's,
\* whatever release or worker comes back late.
THEOREM OnlyThePresentIsServed == Spec => []ServesPresentSession
<1>1. IInv => ServesPresentSession
  BY DEF IInv, Sound, Serves, ServesPresentSession
<1> QED BY <1>1, InvariantHolds, PTL

\* An instance that still owns a port is the account's or is retiring.
THEOREM ZombiesStayObservable == Spec => []ZombiesObservable
<1>1. IInv => ZombiesObservable
  BY DEF IInv, Sound, Observable, ZombiesObservable
<1> QED BY <1>1, InvariantHolds, PTL

\* dispose() resolves only when every instance was released or forced closed.
THEOREM DisposeIsClean == Spec => []DisposedCleanly
<1>1. IInv => DisposedCleanly
  BY Sorts DEF IInv, Sound, Serves, Disposing, Observable, Disposed, DisposedCleanly
<1> QED BY <1>1, InvariantHolds, PTL

\* A recorded failure is taken back by every later success of that instance.
THEOREM FailuresAreCurrent == Spec => []FailuresStand
<1>1. IInv => FailuresStand
  <2> SUFFICES ASSUME IInv, Idle, m.disposal # "releasing", NEW b \in m.failed
               PROVE  m.obj[b].st = "live"
    BY DEF FailuresStand
  <2>1. b \in Sessions
    BY DEF IInv, Sound, Manager
  <2>2. ~ToldOk(m, b)
    BY <2>1 DEF IInv, Sound, Disposing, Idle, Woken, ToldOk
  <2> QED BY <2>1, <2>2 DEF IInv, Sound, Recorded
<1> QED BY <1>1, InvariantHolds, PTL
==============================================================================
