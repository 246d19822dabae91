------------------------ MODULE NetworkManagerProofs ------------------------
(***************************************************************************)
(* Proofs about NetworkManager, for any names, ports and plans, any number *)
(* of waiting operations and of failures.                                  *)
(***************************************************************************)
EXTENDS NetworkManager, SequenceTheorems, TLAPS

-----------------------------------------------------------------------------
(* The inductive invariant, over a manager x.                              *)

\* What the manager's state is made of.
AllPlans == Plans \cup {<<>>}

Operation == [
    what: {"idle", "reconcile", "shutdown"}, plan: AllPlans, todo: SUBSET Names, at: Names \cup {0},
    kind: Kinds, pc: Opening \cup Closing \cup {"next"}, st: {"run", "call", "wait"},
    prev: Config \cup {<<>>}, errs: SUBSET Names]

Queued == [what: {"reconcile", "shutdown"}, plan: AllPlans]

Last == [plan: AllPlans, errs: SUBSET Names, clean: BOOLEAN]

Manager == [
    map: [Names -> Kinds \cup {Absent}], ad: [Names -> [Kinds -> Adapter]], op: Operation,
    queue: Seq(Queued), accepting: BOOLEAN, emits: BOOLEAN,
    shut: {"none", "pending", "failed", "closed"}, last: Last]

\* A call of open() or close() is under way, for the adapter of n.
Busy(x) == x.op.st # "run"

At(x, n) == Busy(x) /\ x.op.at = n

\* The calls of reloadSameKind and of replaceKind.
Reloading == {"heal", "reclose", "reopen", "backclose", "backopen"}

Replacing == {"replace", "reinstate", "substitute", "cleanup", "restore"}

\* An adapter: a server serves with its listener, a client with its socket or
\* its timer.
Whole(k, ad) ==
    IF k = "server"
      THEN ~ad.timer /\ ~ad.stray /\ ~ad.stale /\ (ad.enabled => ad.own = "held")
    ELSE /\ ad.own # "binding" /\ ~ad.stray /\ ~ad.forced
         /\ IF ad.enabled THEN (ad.own = "held") # ad.timer ELSE ~Holds(ad)

\* It has released what it owned, or was closed by force.
Released(ad) == ~Holds(ad) \/ ad.forced

\* What is called, and where the map is meanwhile.
Calling(x) ==
    LET n == x.op.at
        k == x.op.kind
        pc == x.op.pc
        p == x.op.plan
    IN  /\ n \in Names /\ n \notin x.op.todo
        /\ pc = "shut" <=> x.op.what = "shutdown"
        /\ pc \in {"shut", "retire"} => n \notin DOMAIN p /\ x.map[n] = k
        /\ pc \notin {"shut", "retire"} => n \in DOMAIN p /\ x.op.todo \subseteq DOMAIN p
        /\ pc \in {"create", "substitute", "cleanup"} \cup Reloading => k = p[n].kind /\ x.map[n] = k
        /\ pc \in {"replace", "reinstate"} => k # p[n].kind /\ x.map[n] = k
        /\ pc = "restore" => k # p[n].kind /\ x.map[n] = p[n].kind /\ Released(x.ad[n][x.map[n]])
        /\ pc \in Reloading => x.op.prev \in Config

\* What the call has done to the adapter while it waits.
Awaiting(x) ==
    LET ad == x.ad[x.op.at][x.op.kind]
        opens == x.op.pc \in Opening
    IN  /\ ~ad.enabled
        /\ x.op.kind = "client" => ~opens
        /\ x.op.kind = "server" => ad.own = (IF opens THEN "binding" ELSE "held") \/ ad.forced

\* Nothing is owned outside the map, unless the former adapter is restored.
Owned(x, n) ==
    \A k \in Kinds :
        /\ Whole(k, x.ad[n][k])
        /\ Holds(x.ad[n][k]) => \/ x.map[n] = k \/ x.ad[n][k].forced
                                \/ At(x, n) /\ x.op.st = "wait" /\ x.op.pc = "restore" /\ x.op.kind = k
        /\ x.ad[n][k].own = "binding" => /\ At(x, n) /\ x.op.st = "wait"
                                         /\ x.op.pc \in Opening /\ x.op.kind = k

\* The operation.
Operating(x) ==
    /\ x.op.what = "idle" => x.op = NoOp
    /\ x.op.what = "shutdown" => x.op.plan = <<>>
    /\ IF Busy(x) THEN x.op.pc # "next" /\ x.op.what # "idle" /\ Calling(x) ELSE x.op.pc = "next"
    /\ x.op.st = "wait" => Awaiting(x)
    /\ \A n \in x.op.todo \ DOMAIN x.op.plan : x.map[n] # Absent

\* The FIFO: a shutdown is its last operation.
Queueing(x) ==
    /\ Len(x.queue) <= MaxQueue + IF x.shut = "pending" THEN 1 ELSE 0
    /\ \A i \in DOMAIN x.queue : x.queue[i].what = "shutdown" =>
            i = Len(x.queue) /\ x.shut = "pending" /\ x.queue[i].plan = <<>>
    /\ x.op.what = "shutdown" => x.queue = <<>> /\ x.shut = "pending"
    /\ x.shut # "none" => ~x.accepting
    /\ x.shut \in {"failed", "closed"} => x.queue = <<>> /\ x.op.what = "idle"

\* What a shutdown has yet to close is before it, or reported.
Shutting(x) ==
    /\ x.op.what = "shutdown" =>
        \A n \in Names : x.map[n] = Absent \/ n \in x.op.todo \/ At(x, n) \/ n \in x.op.errs
    /\ x.shut = "closed" => \A n \in Names : x.map[n] = Absent

Sound(x) ==
    /\ x \in Manager
    /\ Operating(x) /\ Queueing(x) /\ Shutting(x)
    /\ \A n \in Names : Owned(x, n)


-----------------------------------------------------------------------------
(* The operation's own name, and the others.                               *)

\* What an operation leaves alone: everything but the map's entry and the
\* adapters of the name it is at, and where it is.
Frame(x, y) ==
    /\ y \in Manager
    /\ y.queue = x.queue /\ y.accepting = x.accepting /\ y.emits = x.emits
    /\ y.shut = x.shut /\ y.last = x.last
    /\ y.op.what = x.op.what /\ y.op.plan = x.op.plan /\ y.op.todo = x.op.todo /\ y.op.at = x.op.at
    /\ x.op.errs \subseteq y.op.errs /\ y.op.errs \subseteq x.op.errs \cup {x.op.at}
    /\ \A n \in Names : n # x.op.at => y.map[n] = x.map[n] /\ y.ad[n] = x.ad[n]

\* The adapters of the name, with that of kind k replaced.
Changes(x, y, k, ad) ==
    /\ y.ad[x.op.at][k] = ad
    /\ \A j \in Kinds : j # k => y.ad[x.op.at][j] = x.ad[x.op.at][j]


\* The operation's record is replaced.
LEMMA PutOp ==
    ASSUME NEW x \in Manager, NEW o \in Operation,
           o.what = x.op.what, o.plan = x.op.plan, o.todo = x.op.todo, o.at = x.op.at,
           x.op.errs \subseteq o.errs, o.errs \subseteq x.op.errs \cup {x.op.at}
    PROVE  LET y == [x EXCEPT !.op = o]
           IN  Frame(x, y) /\ y.op = o /\ y.map = x.map /\ y.ad = x.ad
<1> DEFINE y == [x EXCEPT !.op = o]
<1>1. /\ y \in Manager /\ y.op = o /\ y.map = x.map /\ y.ad = x.ad /\ y.queue = x.queue
      /\ y.accepting = x.accepting /\ y.emits = x.emits /\ y.shut = x.shut /\ y.last = x.last
  BY DEF Manager
<1> HIDE DEF y
<1>2. Frame(x, y) /\ y.op = o /\ y.map = x.map /\ y.ad = x.ad
  BY <1>1 DEF Frame
<1> QED BY <1>2 DEF y

\* The operation calls open() or close().
LEMMA CallFields ==
    ASSUME NEW x \in Manager, NEW pc \in Opening \cup Closing, NEW k \in Kinds
    PROVE  LET y == Call(x, pc, k)
           IN  /\ Frame(x, y) /\ y.map = x.map /\ y.ad = x.ad
               /\ y.op.pc = pc /\ y.op.kind = k /\ y.op.st = "call"
               /\ y.op.prev = x.op.prev /\ y.op.errs = x.op.errs
<1> DEFINE o == [x.op EXCEPT !.pc = pc, !.kind = k, !.st = "call"]
<1>1. x.op \in Operation
  BY DEF Manager
<1>2. /\ o \in Operation /\ o.pc = pc /\ o.kind = k /\ o.st = "call" /\ o.prev = x.op.prev
      /\ o.errs = x.op.errs /\ o.what = x.op.what /\ o.plan = x.op.plan /\ o.todo = x.op.todo
      /\ o.at = x.op.at
  BY <1>1 DEF Operation
<1>3. Call(x, pc, k) = [x EXCEPT !.op = o]
  BY DEF Call, Manager
<1> HIDE DEF o
<1>4. PICK y : y = [x EXCEPT !.op = o]
  OBVIOUS
<1>5. Frame(x, y) /\ y.op = o /\ y.map = x.map /\ y.ad = x.ad
  BY <1>2, <1>4, PutOp
<1> QED BY <1>2, <1>3, <1>4, <1>5

\* It turns to its next name.
LEMMA DoneFields ==
    ASSUME NEW x \in Manager
    PROVE  LET y == Done(x)
           IN  /\ Frame(x, y) /\ y.map = x.map /\ y.ad = x.ad
               /\ y.op.pc = "next" /\ y.op.st = "run" /\ y.op.errs = x.op.errs
<1> DEFINE o == [x.op EXCEPT !.pc = "next", !.st = "run"]
<1>1. x.op \in Operation
  BY DEF Manager
<1>2. /\ o \in Operation /\ o.pc = "next" /\ o.st = "run"
      /\ o.errs = x.op.errs /\ o.what = x.op.what /\ o.plan = x.op.plan /\ o.todo = x.op.todo
      /\ o.at = x.op.at
  BY <1>1 DEF Operation
<1>3. Done(x) = [x EXCEPT !.op = o]
  BY DEF Done, Manager
<1> HIDE DEF o
<1>4. PICK y : y = [x EXCEPT !.op = o]
  OBVIOUS
<1>5. Frame(x, y) /\ y.op = o /\ y.map = x.map /\ y.ad = x.ad
  BY <1>2, <1>4, PutOp
<1> QED BY <1>2, <1>3, <1>4, <1>5

\* It waits, or goes on.
LEMMA StateFields ==
    ASSUME NEW x \in Manager, NEW st \in {"run", "call", "wait"}
    PROVE  LET y == [x EXCEPT !.op.st = st]
           IN  /\ Frame(x, y) /\ y.map = x.map /\ y.ad = x.ad
               /\ y.op.pc = x.op.pc /\ y.op.kind = x.op.kind /\ y.op.st = st
               /\ y.op.prev = x.op.prev /\ y.op.errs = x.op.errs
<1> DEFINE o == [x.op EXCEPT !.st = st]
<1>1. x.op \in Operation
  BY DEF Manager
<1>2. /\ o \in Operation /\ o.pc = x.op.pc /\ o.kind = x.op.kind /\ o.st = st /\ o.prev = x.op.prev
      /\ o.errs = x.op.errs /\ o.what = x.op.what /\ o.plan = x.op.plan /\ o.todo = x.op.todo
      /\ o.at = x.op.at
  BY <1>1 DEF Operation
<1>3. [x EXCEPT !.op.st = st] = [x EXCEPT !.op = o]
  BY DEF Manager
<1> HIDE DEF o
<1>4. PICK y : y = [x EXCEPT !.op = o]
  OBVIOUS
<1>5. Frame(x, y) /\ y.op = o /\ y.map = x.map /\ y.ad = x.ad
  BY <1>2, <1>4, PutOp
<1> QED BY <1>2, <1>3, <1>4, <1>5

\* It reports an error.
LEMMA ReportFields ==
    ASSUME NEW x \in Manager, x.op.at \in Names
    PROVE  LET y == Report(x)
           IN  /\ Frame(x, y) /\ y.map = x.map /\ y.ad = x.ad
               /\ y.op.pc = x.op.pc /\ y.op.kind = x.op.kind /\ y.op.st = x.op.st
               /\ y.op.prev = x.op.prev /\ x.op.at \in y.op.errs
<1> DEFINE o == [x.op EXCEPT !.errs = x.op.errs \cup {x.op.at}]
<1>1. x.op \in Operation
  BY DEF Manager
<1>2. /\ o \in Operation /\ o.pc = x.op.pc /\ o.kind = x.op.kind /\ o.st = x.op.st /\ o.prev = x.op.prev
      /\ o.errs = x.op.errs \cup {x.op.at} /\ o.what = x.op.what /\ o.plan = x.op.plan
      /\ o.todo = x.op.todo /\ o.at = x.op.at
  BY <1>1 DEF Operation
<1>3. Report(x) = [x EXCEPT !.op = o]
  BY DEF Report, Manager
<1> HIDE DEF o
<1>4. PICK y : y = [x EXCEPT !.op = o]
  OBVIOUS
<1>5. Frame(x, y) /\ y.op = o /\ y.map = x.map /\ y.ad = x.ad
  BY <1>2, <1>4, PutOp
<1> QED BY <1>2, <1>3, <1>4, <1>5

\* It remembers a configuration.
LEMMA PrevFields ==
    ASSUME NEW x \in Manager, NEW c \in Config
    PROVE  LET y == [x EXCEPT !.op.prev = c]
           IN  /\ Frame(x, y) /\ y.map = x.map /\ y.ad = x.ad
               /\ y.op.pc = x.op.pc /\ y.op.kind = x.op.kind /\ y.op.st = x.op.st
               /\ y.op.prev = c /\ y.op.errs = x.op.errs
<1> DEFINE o == [x.op EXCEPT !.prev = c]
<1>1. x.op \in Operation
  BY DEF Manager
<1>2. /\ o \in Operation /\ o.pc = x.op.pc /\ o.kind = x.op.kind /\ o.st = x.op.st /\ o.prev = c
      /\ o.errs = x.op.errs /\ o.what = x.op.what /\ o.plan = x.op.plan /\ o.todo = x.op.todo
      /\ o.at = x.op.at
  BY <1>1 DEF Operation
<1>3. [x EXCEPT !.op.prev = c] = [x EXCEPT !.op = o]
  BY DEF Manager
<1> HIDE DEF o
<1>4. PICK y : y = [x EXCEPT !.op = o]
  OBVIOUS
<1>5. Frame(x, y) /\ y.op = o /\ y.map = x.map /\ y.ad = x.ad
  BY <1>2, <1>4, PutOp
<1> QED BY <1>2, <1>3, <1>4, <1>5

\* The map's entry is replaced.
LEMMA SetKindFields ==
    ASSUME NEW x \in Manager, x.op.at \in Names, NEW k \in Kinds \cup {Absent}
    PROVE  LET y == SetKind(x, k)
           IN  Frame(x, y) /\ y.op = x.op /\ y.ad = x.ad /\ y.map[x.op.at] = k
<1> DEFINE y == SetKind(x, k)
<1>1. x.map \in [Names -> Kinds \cup {Absent}]
  BY DEF Manager
<1>2. /\ y \in Manager /\ y.op = x.op /\ y.ad = x.ad /\ y.queue = x.queue
      /\ y.accepting = x.accepting /\ y.emits = x.emits /\ y.shut = x.shut /\ y.last = x.last
      /\ y.map = [x.map EXCEPT ![x.op.at] = k]
  BY DEF SetKind, Manager
<1> HIDE DEF y
<1>3. Frame(x, y) /\ y.op = x.op /\ y.ad = x.ad /\ y.map[x.op.at] = k
  BY <1>1, <1>2 DEF Frame
<1> QED BY <1>3 DEF y

\* An adapter is replaced.
LEMMA PutAdapter ==
    ASSUME NEW x \in Manager, x.op.at \in Names, NEW k \in Kinds, NEW a \in Adapter
    PROVE  LET y == [x EXCEPT !.ad[x.op.at][k] = a]
           IN  Frame(x, y) /\ y.op = x.op /\ y.map = x.map /\ Changes(x, y, k, a)
<1> DEFINE y == [x EXCEPT !.ad[x.op.at][k] = a]
           f == [x.ad EXCEPT ![x.op.at] = [x.ad[x.op.at] EXCEPT ![k] = a]]
<1>1. x.ad \in [Names -> [Kinds -> Adapter]]
  BY DEF Manager
<1>2. /\ f \in [Names -> [Kinds -> Adapter]] /\ f[x.op.at][k] = a
      /\ \A n \in Names : n # x.op.at => f[n] = x.ad[n]
      /\ \A j \in Kinds : j # k => f[x.op.at][j] = x.ad[x.op.at][j]
  BY <1>1
<1>3. y = [x EXCEPT !.ad = f]
  BY DEF Manager
<1> HIDE DEF f
<1>4. /\ y \in Manager /\ y.op = x.op /\ y.map = x.map /\ y.queue = x.queue
      /\ y.accepting = x.accepting /\ y.emits = x.emits /\ y.shut = x.shut /\ y.last = x.last
      /\ y.ad = f
  BY <1>2, <1>3 DEF Manager
<1> HIDE DEF y
<1>5. Frame(x, y) /\ y.op = x.op /\ y.map = x.map /\ Changes(x, y, k, a)
  BY <1>2, <1>4 DEF Frame, Changes
<1> QED BY <1>5 DEF y

\* An adapter that differs from another by what it shows and its configuration.
Like(a, b) ==
    /\ a \in Adapter
    /\ a.enabled = b.enabled /\ a.own = b.own /\ a.was = b.was /\ a.forced = b.forced
    /\ a.timer = b.timer /\ a.stale = b.stale /\ a.stray = b.stray

\* Its failure is shown, or not, and its configuration replaced.
LEMMA MarkFields ==
    ASSUME NEW x \in Manager, x.op.at \in Names, NEW k \in Kinds, NEW c \in Config
    PROVE  LET ad == x.ad[x.op.at][k]
           IN  /\ Frame(x, Mark(x, k)) /\ Mark(x, k).op = x.op /\ Mark(x, k).map = x.map
               /\ \E a : /\ Like(a, ad) /\ a.failure = TRUE /\ a.cfg = ad.cfg
                         /\ Changes(x, Mark(x, k), k, a)
               /\ Frame(x, Clear(x, k)) /\ Clear(x, k).op = x.op /\ Clear(x, k).map = x.map
               /\ \E a : /\ Like(a, ad) /\ a.failure = FALSE /\ a.cfg = ad.cfg
                         /\ Changes(x, Clear(x, k), k, a)
               /\ Frame(x, ReplaceConfig(x, k, c)) /\ ReplaceConfig(x, k, c).op = x.op
               /\ ReplaceConfig(x, k, c).map = x.map
               /\ \E a : /\ Like(a, ad) /\ a.failure = ad.failure /\ a.cfg = c
                         /\ Changes(x, ReplaceConfig(x, k, c), k, a)
<1> DEFINE ad == x.ad[x.op.at][k]
           m1 == [ad EXCEPT !.failure = TRUE]
           m2 == [ad EXCEPT !.failure = FALSE]
           m3 == [ad EXCEPT !.cfg = c]
<1>1. ad \in Adapter
  BY DEF Manager
<1>2. Mark(x, k) = [x EXCEPT !.ad[x.op.at][k] = m1]
  BY DEF Mark
<1>3. Clear(x, k) = [x EXCEPT !.ad[x.op.at][k] = m2]
  BY DEF Clear
<1>4. ReplaceConfig(x, k, c) = [x EXCEPT !.ad[x.op.at][k] = m3]
  BY DEF ReplaceConfig
<1> HIDE DEF ad
<1>5. /\ Like(m1, ad) /\ m1.failure = TRUE /\ m1.cfg = ad.cfg
      /\ Like(m2, ad) /\ m2.failure = FALSE /\ m2.cfg = ad.cfg
      /\ Like(m3, ad) /\ m3.failure = ad.failure /\ m3.cfg = c
  BY <1>1 DEF Like, Adapter
<1> HIDE DEF m1, m2, m3
<1>6. m1 \in Adapter /\ m2 \in Adapter /\ m3 \in Adapter
  BY <1>5 DEF Like
<1>7. /\ Frame(x, Mark(x, k)) /\ Mark(x, k).op = x.op /\ Mark(x, k).map = x.map
      /\ Changes(x, Mark(x, k), k, m1)
  BY <1>2, <1>6, PutAdapter
<1>8. /\ Frame(x, Clear(x, k)) /\ Clear(x, k).op = x.op /\ Clear(x, k).map = x.map
      /\ Changes(x, Clear(x, k), k, m2)
  BY <1>3, <1>6, PutAdapter
<1>9. /\ Frame(x, ReplaceConfig(x, k, c)) /\ ReplaceConfig(x, k, c).op = x.op
      /\ ReplaceConfig(x, k, c).map = x.map /\ Changes(x, ReplaceConfig(x, k, c), k, m3)
  BY <1>4, <1>6, PutAdapter
<1> QED BY <1>5, <1>7, <1>8, <1>9 DEF ad

\* One change after another.
LEMMA FrameOn ==
    ASSUME NEW x, NEW y, NEW z, Frame(x, y), Frame(y, z)
    PROVE  Frame(x, z)
BY DEF Frame

\* The operation is done with its name, and reports an error for it; the
\* adapter of kind k shows the failure.
LEMMA FailFields ==
    ASSUME NEW x \in Manager, x.op.at \in Names, NEW k \in Kinds
    PROVE  LET y == Done(Report(Mark(x, k)))
           IN  /\ Frame(x, y) /\ y.map = x.map
               /\ \E a : /\ Like(a, x.ad[x.op.at][k]) /\ a.failure = TRUE /\ a.cfg = x.ad[x.op.at][k].cfg
                         /\ Changes(x, y, k, a)
               /\ y.op.pc = "next" /\ y.op.st = "run" /\ x.op.at \in y.op.errs
<1>1. PICK u : u = Mark(x, k)
  OBVIOUS
<1>2. PICK v : v = Report(u)
  OBVIOUS
<1>3. PICK c \in Config : c = x.ad[x.op.at][k].cfg
  BY DEF Manager, Adapter
<1>4. /\ Frame(x, u) /\ u.op = x.op /\ u.map = x.map
      /\ \E a : /\ Like(a, x.ad[x.op.at][k]) /\ a.failure = TRUE /\ a.cfg = x.ad[x.op.at][k].cfg
                /\ Changes(x, u, k, a)
  BY <1>1, MarkFields
<1>5. u \in Manager
  BY <1>4 DEF Frame
<1>6. /\ Frame(u, v) /\ v.map = u.map /\ v.ad = u.ad /\ u.op.at \in v.op.errs
  BY <1>2, <1>4, <1>5, ReportFields
<1>7. v \in Manager
  BY <1>6 DEF Frame
<1>8. PICK y : y = Done(v)
  OBVIOUS
<1>9. /\ Frame(v, y) /\ y.map = v.map /\ y.ad = v.ad
      /\ y.op.pc = "next" /\ y.op.st = "run" /\ y.op.errs = v.op.errs
  BY <1>7, <1>8, DoneFields
<1>10. Frame(x, y)
  BY <1>4, <1>6, <1>9, FrameOn
<1>11. \E a : /\ Like(a, x.ad[x.op.at][k]) /\ a.failure = TRUE /\ a.cfg = x.ad[x.op.at][k].cfg
              /\ Changes(x, y, k, a)
  <2>1. PICK a : /\ Like(a, x.ad[x.op.at][k]) /\ a.failure = TRUE /\ a.cfg = x.ad[x.op.at][k].cfg
                 /\ Changes(x, u, k, a)
    BY <1>4
  <2>2. y.ad = u.ad
    BY <1>6, <1>9
  <2>3. Changes(x, y, k, a)
    BY <2>1, <2>2 DEF Changes
  <2> QED BY <2>1, <2>3
<1> QED BY <1>1, <1>2, <1>4, <1>6, <1>8, <1>9, <1>10, <1>11

\* It is done with its name; the adapter of kind k shows no failure.
LEMMA SucceedFields ==
    ASSUME NEW x \in Manager, x.op.at \in Names, NEW k \in Kinds
    PROVE  LET y == Done(Clear(x, k))
           IN  /\ Frame(x, y) /\ y.map = x.map
               /\ \E a : /\ Like(a, x.ad[x.op.at][k]) /\ a.failure = FALSE /\ a.cfg = x.ad[x.op.at][k].cfg
                         /\ Changes(x, y, k, a)
               /\ y.op.pc = "next" /\ y.op.st = "run" /\ y.op.errs = x.op.errs
<1>1. PICK u : u = Clear(x, k)
  OBVIOUS
<1>2. PICK c \in Config : c = x.ad[x.op.at][k].cfg
  BY DEF Manager, Adapter
<1>3. /\ Frame(x, u) /\ u.op = x.op /\ u.map = x.map
      /\ \E a : /\ Like(a, x.ad[x.op.at][k]) /\ a.failure = FALSE /\ a.cfg = x.ad[x.op.at][k].cfg
                /\ Changes(x, u, k, a)
  BY <1>1, MarkFields
<1>4. u \in Manager
  BY <1>3 DEF Frame
<1>5. PICK y : y = Done(u)
  OBVIOUS
<1>6. /\ Frame(u, y) /\ y.map = u.map /\ y.ad = u.ad
      /\ y.op.pc = "next" /\ y.op.st = "run" /\ y.op.errs = u.op.errs
  BY <1>4, <1>5, DoneFields
<1>7. Frame(x, y)
  BY <1>3, <1>6, FrameOn
<1>8. \E a : /\ Like(a, x.ad[x.op.at][k]) /\ a.failure = FALSE /\ a.cfg = x.ad[x.op.at][k].cfg
             /\ Changes(x, y, k, a)
  BY <1>3, <1>6 DEF Changes
<1> QED BY <1>1, <1>3, <1>5, <1>6, <1>7, <1>8

-----------------------------------------------------------------------------
(* What holds of the other names while an operation is at one.             *)

\* Of the adapters of n only that of kind k owns something, and none is being
\* bound.
Tidy(x, n, k) ==
    \A j \in Kinds : /\ Whole(j, x.ad[n][j]) /\ x.ad[n][j].own # "binding"
                     /\ Holds(x.ad[n][j]) => j = k \/ x.ad[n][j].forced

Base(x) ==
    /\ x \in Manager /\ Queueing(x)
    /\ x.op.at \in Names /\ x.op.at \notin x.op.todo
    /\ x.op.what # "idle"
    /\ x.op.what = "shutdown" =>
        /\ x.op.plan = <<>>
        /\ \A n \in Names : n = x.op.at \/ x.map[n] = Absent \/ n \in x.op.todo \/ n \in x.op.errs
    /\ \A n \in x.op.todo \ DOMAIN x.op.plan : x.map[n] # Absent
    /\ \A n \in Names : n = x.op.at \/ Tidy(x, n, x.map[n])

\* And of the one it is at.
Here(x) ==
    /\ IF Busy(x) THEN x.op.pc # "next" /\ Calling(x) ELSE x.op.pc = "next"
    /\ x.op.st = "wait" => Awaiting(x)
    /\ x.op.what = "shutdown" => x.map[x.op.at] = Absent \/ Busy(x) \/ x.op.at \in x.op.errs
    /\ Owned(x, x.op.at)

\* A name that no call is for.
LEMMA OwnedTidy ==
    ASSUME NEW x, NEW n \in Names
    PROVE  /\ Tidy(x, n, x.map[n]) => Owned(x, n)
           /\ Owned(x, n) /\ ~At(x, n) => Tidy(x, n, x.map[n])
BY DEF Tidy, Owned

\* The two together are the invariant.
LEMMA SoundHere ==
    ASSUME NEW x, Base(x), Here(x)
    PROVE  Sound(x)
<1>1. \A n \in Names : Owned(x, n)
  BY OwnedTidy DEF Base, Here
<1>2. Operating(x)
  BY DEF Base, Here, Operating
<1>3. Shutting(x)
  BY DEF Base, Here, Shutting, Queueing, At
<1> QED BY <1>1, <1>2, <1>3 DEF Sound, Base

\* While a call is under way.
LEMMA SoundBusy ==
    ASSUME NEW x, Sound(x), Busy(x)
    PROVE  Base(x) /\ Here(x)
<1>1. Calling(x) /\ x.op.pc # "next" /\ x.op.what # "idle"
  BY DEF Sound, Operating
<1>2. x.op.at \in Names /\ x.op.at \notin x.op.todo
  BY <1>1 DEF Calling
<1>3. \A n \in Names : n = x.op.at \/ Tidy(x, n, x.map[n])
  BY OwnedTidy DEF Sound, At
<1>4. Base(x)
  BY <1>1, <1>2, <1>3 DEF Sound, Operating, Shutting, Base, At
<1> QED BY <1>1, <1>2, <1>4 DEF Sound, Operating, Here

\* The others are left alone.
LEMMA BaseFrame ==
    ASSUME NEW x, NEW y, Base(x), Frame(x, y)
    PROVE  Base(y)
<1>1. Queueing(y)
  BY DEF Base, Frame, Queueing
<1>2. \A n \in Names : n = y.op.at \/ Tidy(y, n, y.map[n])
  BY DEF Base, Frame, Tidy
<1>3. /\ y.op.what = "shutdown" =>
            /\ y.op.plan = <<>>
            /\ \A n \in Names : n = y.op.at \/ y.map[n] = Absent \/ n \in y.op.todo \/ n \in y.op.errs
      /\ \A n \in y.op.todo \ DOMAIN y.op.plan : y.map[n] # Absent
  <2>1. y.op.todo \subseteq Names
    BY DEF Frame, Manager, Operation
  <2> QED BY <2>1 DEF Base, Frame
<1> QED BY <1>1, <1>2, <1>3 DEF Base, Frame

\* What an adapter shows does not matter to what it owns.
LEMMA LikeWhole ==
    ASSUME NEW a, NEW b, Like(a, b), NEW k
    PROVE  (Whole(k, b) <=> Whole(k, a)) /\ (Holds(a) <=> Holds(b)) /\ (Released(a) <=> Released(b))
<1>1. Holds(a) <=> Holds(b)
  BY DEF Like, Holds
<1>2. Whole(k, b) <=> Whole(k, a)
  <2>1. CASE k = "server"
    BY <2>1 DEF Like, Whole
  <2>2. CASE k # "server"
    BY <1>1, <2>2, Zenon DEF Like, Whole
  <2> QED BY <2>1, <2>2
<1> QED BY <1>1, <1>2 DEF Like, Released

\* Nor to its name.
LEMMA TidyLike ==
    ASSUME NEW x, NEW y, NEW k \in Kinds, NEW a, Changes(x, y, k, a), Like(a, x.ad[x.op.at][k]),
           NEW j, Tidy(x, x.op.at, j)
    PROVE  Tidy(y, x.op.at, j)
<1>1. ASSUME NEW i \in Kinds
      PROVE  /\ Whole(i, y.ad[x.op.at][i]) /\ y.ad[x.op.at][i].own # "binding"
             /\ Holds(y.ad[x.op.at][i]) => i = j \/ y.ad[x.op.at][i].forced
  <2>1. CASE i = k
    <3>1. /\ Whole(i, x.ad[x.op.at][i]) /\ x.ad[x.op.at][i].own # "binding"
          /\ Holds(x.ad[x.op.at][i]) => i = j \/ x.ad[x.op.at][i].forced
      BY DEF Tidy
    <3>2. y.ad[x.op.at][i] = a /\ Like(a, x.ad[x.op.at][i])
      BY <2>1 DEF Changes
    <3>3. a.own = x.ad[x.op.at][i].own /\ a.forced = x.ad[x.op.at][i].forced
      BY <3>2 DEF Like
    <3>4. Whole(i, a) /\ (Holds(a) <=> Holds(x.ad[x.op.at][i]))
      BY <3>1, <3>2, LikeWhole
    <3> QED BY <3>1, <3>2, <3>3, <3>4
  <2>2. CASE i # k
    BY <2>2 DEF Tidy, Changes
  <2> QED BY <2>1, <2>2
<1> QED BY <1>1 DEF Tidy

\* An operation goes from x to y.
Goes(x, y) == Frame(x, y) /\ Here(y)

\* It calls.
LEMMA CallGoes ==
    ASSUME NEW x, NEW y, Base(x), Frame(x, y), y.op.st = "call", y.op.pc # "next",
           Calling(y), Tidy(y, x.op.at, y.map[x.op.at])
    PROVE  Goes(x, y)
<1>1. y.op.at = x.op.at /\ x.op.at \in Names
  BY DEF Frame, Base
<1>2. Owned(y, y.op.at)
  BY <1>1, OwnedTidy
<1> QED BY <1>2 DEF Goes, Here, Busy

\* It is done.
LEMMA DoneGoes ==
    ASSUME NEW x, NEW y, Base(x), Frame(x, y), y.op.st = "run", y.op.pc = "next",
           Tidy(y, x.op.at, y.map[x.op.at]),
           x.op.what # "shutdown" \/ y.map[x.op.at] = Absent \/ x.op.at \in y.op.errs
    PROVE  Goes(x, y)
<1>1. y.op.at = x.op.at /\ x.op.at \in Names /\ y.op.what = x.op.what
  BY DEF Frame, Base
<1>2. Owned(y, y.op.at)
  BY <1>1, OwnedTidy
<1> QED BY <1>1, <1>2 DEF Goes, Here, Busy

\* It is done, with an error or without.
LEMMA FailGoes ==
    ASSUME NEW x, Base(x), NEW k \in Kinds, Tidy(x, x.op.at, x.map[x.op.at])
    PROVE  Goes(x, Done(Report(Mark(x, k))))
<1>1. x \in Manager /\ x.op.at \in Names
  BY DEF Base
<1>2. PICK y : y = Done(Report(Mark(x, k)))
  OBVIOUS
<1>3. /\ Frame(x, y) /\ y.map = x.map /\ y.op.pc = "next" /\ y.op.st = "run" /\ x.op.at \in y.op.errs
  BY <1>1, <1>2, FailFields
<1>4. PICK a : Like(a, x.ad[x.op.at][k]) /\ Changes(x, y, k, a)
  BY <1>1, <1>2, FailFields
<1>5. Tidy(y, x.op.at, y.map[x.op.at])
  BY <1>3, <1>4, TidyLike
<1> QED BY <1>2, <1>3, <1>5, DoneGoes

\* It has succeeded.
LEMMA SucceedGoes ==
    ASSUME NEW x, Base(x), x.op.what # "shutdown", NEW k \in Kinds, Tidy(x, x.op.at, x.map[x.op.at])
    PROVE  Goes(x, Done(Clear(x, k)))
<1>1. x \in Manager /\ x.op.at \in Names
  BY DEF Base
<1>2. PICK y : y = Done(Clear(x, k))
  OBVIOUS
<1>3. /\ Frame(x, y) /\ y.map = x.map /\ y.op.pc = "next" /\ y.op.st = "run"
  BY <1>1, <1>2, SucceedFields
<1>4. PICK a : Like(a, x.ad[x.op.at][k]) /\ Changes(x, y, k, a)
  BY <1>1, <1>2, SucceedFields
<1>5. Tidy(y, x.op.at, y.map[x.op.at])
  BY <1>3, <1>4, TidyLike
<1> QED BY <1>2, <1>3, <1>5, DoneGoes

-----------------------------------------------------------------------------
(* reload().                                                               *)

\* How an operation at its name goes from x to y, with the adapter of kind k
\* become a: by a call, or to its end, without an error or with one.
Calls(x, y, pc, k, a) ==
    /\ Frame(x, y) /\ y.map = x.map /\ Changes(x, y, k, a)
    /\ y.op.pc = pc /\ y.op.kind = k /\ y.op.st = "call"
    /\ y.op.prev = x.op.prev /\ y.op.errs = x.op.errs

Succeeds(x, y, k, a) ==
    /\ Frame(x, y) /\ y.map = x.map /\ Changes(x, y, k, a) /\ a.failure = FALSE
    /\ y.op.pc = "next" /\ y.op.st = "run" /\ y.op.errs = x.op.errs

Fails(x, y, k, a) ==
    /\ Frame(x, y) /\ y.map = x.map /\ Changes(x, y, k, a) /\ a.failure = TRUE
    /\ y.op.pc = "next" /\ y.op.st = "run" /\ x.op.at \in y.op.errs

\* A call changes nothing else.
LEMMA CallOnly ==
    ASSUME NEW x \in Manager, x.op.at \in Names, NEW pc \in Opening \cup Closing, NEW k \in Kinds
    PROVE  /\ Calls(x, Call(x, pc, k), pc, k, x.ad[x.op.at][k])
           /\ Like(x.ad[x.op.at][k], x.ad[x.op.at][k])
<1>1. PICK y : y = Call(x, pc, k)
  OBVIOUS
<1>2. /\ Frame(x, y) /\ y.map = x.map /\ y.ad = x.ad
      /\ y.op.pc = pc /\ y.op.kind = k /\ y.op.st = "call"
      /\ y.op.prev = x.op.prev /\ y.op.errs = x.op.errs
  BY <1>1, CallFields
<1>3. Changes(x, y, k, x.ad[x.op.at][k])
  BY <1>2 DEF Changes
<1>4. x.ad[x.op.at][k] \in Adapter
  BY DEF Manager
<1> QED BY <1>1, <1>2, <1>3, <1>4 DEF Calls, Like

\* The end, with an error.
LEMMA FailsIs ==
    ASSUME NEW x \in Manager, x.op.at \in Names, NEW k \in Kinds
    PROVE  \E a : /\ Like(a, x.ad[x.op.at][k]) /\ a.cfg = x.ad[x.op.at][k].cfg
                  /\ Fails(x, Done(Report(Mark(x, k))), k, a)
<1>1. PICK y : y = Done(Report(Mark(x, k)))
  OBVIOUS
<1>2. PICK a : /\ Like(a, x.ad[x.op.at][k]) /\ a.failure = TRUE /\ a.cfg = x.ad[x.op.at][k].cfg
               /\ Changes(x, y, k, a)
  BY <1>1, FailFields
<1>3. /\ Frame(x, y) /\ y.map = x.map /\ y.op.pc = "next" /\ y.op.st = "run" /\ x.op.at \in y.op.errs
  BY <1>1, FailFields
<1>4. Fails(x, y, k, a)
  BY <1>2, <1>3 DEF Fails
<1> QED BY <1>1, <1>2, <1>4

\* The end, without.
LEMMA SucceedsIs ==
    ASSUME NEW x \in Manager, x.op.at \in Names, NEW k \in Kinds
    PROVE  \E a : /\ Like(a, x.ad[x.op.at][k]) /\ a.cfg = x.ad[x.op.at][k].cfg
                  /\ Succeeds(x, Done(Clear(x, k)), k, a)
<1>1. PICK y : y = Done(Clear(x, k))
  OBVIOUS
<1>2. PICK a : /\ Like(a, x.ad[x.op.at][k]) /\ a.failure = FALSE /\ a.cfg = x.ad[x.op.at][k].cfg
               /\ Changes(x, y, k, a)
  BY <1>1, SucceedFields
<1>3. /\ Frame(x, y) /\ y.map = x.map /\ y.op.pc = "next" /\ y.op.st = "run" /\ y.op.errs = x.op.errs
  BY <1>1, SucceedFields
<1>4. Succeeds(x, y, k, a)
  BY <1>2, <1>3 DEF Succeeds
<1> QED BY <1>1, <1>2, <1>4

\* An adapter like one that is like a third.
LEMMA LikeOn ==
    ASSUME NEW a, NEW b, NEW c, Like(a, b), Like(b, c)
    PROVE  Like(a, c)
BY DEF Like

\* What follows a change of the adapter of kind k.
LEMMA After ==
    ASSUME NEW x, NEW u, NEW y, NEW k \in Kinds, NEW b, NEW a,
           Frame(x, u), u.op = x.op, u.map = x.map, Changes(x, u, k, b)
    PROVE  /\ \A pc : Calls(u, y, pc, k, a) => Calls(x, y, pc, k, a)
           /\ Succeeds(u, y, k, a) => Succeeds(x, y, k, a)
           /\ Fails(u, y, k, a) => Fails(x, y, k, a)
<1>1. Frame(u, y) => Frame(x, y)
  BY FrameOn
<1>2. Changes(u, y, k, a) => Changes(x, y, k, a)
  BY DEF Changes
<1> QED BY <1>1, <1>2 DEF Calls, Succeeds, Fails

\* reload() from its new configuration on.
LEMMA ReopenFields ==
    ASSUME NEW x \in Manager, x.op.at \in Names, NEW k \in Kinds, NEW cfg \in Config,
           NEW pc \in {"reopen", "backopen"}
    PROVE  LET y == Reopen(x, k, cfg, pc)
               ad == x.ad[x.op.at][k]
               opens == cfg.on /\ ~ad.enabled
           IN  \E a : /\ Like(a, ad) /\ a.cfg = cfg
                      /\ opens => Calls(x, y, pc, k, a)
                      /\ ~opens /\ pc = "reopen" => Succeeds(x, y, k, a)
                      /\ ~opens /\ pc = "backopen" => Fails(x, y, k, a)
<1> DEFINE y == Reopen(x, k, cfg, pc)
           ad == x.ad[x.op.at][k]
           opens == cfg.on /\ ~ad.enabled
<1>1. PICK u : u = ReplaceConfig(x, k, cfg)
  OBVIOUS
<1>2. /\ Frame(x, u) /\ u.op = x.op /\ u.map = x.map
  BY <1>1, MarkFields, ZenonT(40)
<1>3. PICK b : Like(b, ad) /\ b.cfg = cfg /\ Changes(x, u, k, b)
  BY <1>1, MarkFields
<1>4. u \in Manager /\ u.op.at = x.op.at /\ u.ad[u.op.at][k] = b
  BY <1>2, <1>3 DEF Frame, Changes
<1>5. y = IF opens THEN Call(u, pc, k)
          ELSE IF pc = "reopen" THEN Done(Clear(u, k)) ELSE Done(Report(Mark(u, k)))
  BY <1>1 DEF Reopen, ReloadFailed
<1> HIDE DEF y, ad
<1>6. CASE opens
  <2>1. Calls(u, y, pc, k, b)
    BY <1>4, <1>5, <1>6, CallOnly DEF Opening, Closing
  <2>2. Calls(x, y, pc, k, b)
    BY <1>2, <1>3, <2>1, After
  <2>3. Like(b, ad) /\ b.cfg = cfg
    BY <1>3
  <2> QED BY <1>6, <2>2, <2>3 DEF y, ad
<1>7. CASE ~opens /\ pc = "reopen"
  <2>1. PICK a : Like(a, b) /\ a.cfg = b.cfg /\ Succeeds(u, y, k, a)
    BY <1>4, <1>5, <1>7, SucceedsIs
  <2>2. Succeeds(x, y, k, a) /\ Like(a, ad) /\ a.cfg = cfg
    BY <1>2, <1>3, <2>1, After, LikeOn
  <2> QED BY <1>7, <2>2 DEF y, ad
<1>8. CASE ~opens /\ pc = "backopen"
  <2>1. PICK a : Like(a, b) /\ a.cfg = b.cfg /\ Fails(u, y, k, a)
    BY <1>4, <1>5, <1>8, FailsIs
  <2>2. Fails(x, y, k, a) /\ Like(a, ad) /\ a.cfg = cfg
    BY <1>2, <1>3, <2>1, After, LikeOn
  <2> QED BY <1>8, <2>2 DEF y, ad
<1> QED BY <1>6, <1>7, <1>8

\* A reload is at the adapter of kind k, which the map has and the plan wants.
Reloads(x, k) ==
    /\ Base(x) /\ x.op.what # "shutdown"
    /\ k \in Kinds /\ x.map[x.op.at] = k /\ Tidy(x, x.op.at, k)
    /\ x.op.at \in DOMAIN x.op.plan /\ k = x.op.plan[x.op.at].kind
    /\ x.op.todo \subseteq DOMAIN x.op.plan
    /\ x.op.prev \in Config

\* Whatever becomes of it, nothing is left behind.
LEMMA ReloadsGo ==
    ASSUME NEW x, NEW k, Reloads(x, k), NEW y, NEW a, Like(a, x.ad[x.op.at][k]),
           NEW pc \in Reloading,
           Calls(x, y, pc, k, a) \/ Succeeds(x, y, k, a) \/ Fails(x, y, k, a)
    PROVE  Goes(x, y)
<1>1. /\ Frame(x, y) /\ y.map = x.map /\ Changes(x, y, k, a) /\ k \in Kinds
  BY DEF Calls, Succeeds, Fails, Reloads
<1>2. Tidy(y, x.op.at, y.map[x.op.at])
  BY <1>1, TidyLike DEF Reloads
<1>3. CASE Calls(x, y, pc, k, a)
  <2>1. y.op.pc = pc /\ y.op.kind = k /\ y.op.st = "call" /\ y.op.prev = x.op.prev
    BY <1>3 DEF Calls
  <2>2. /\ y.op.at = x.op.at /\ y.op.plan = x.op.plan /\ y.op.todo = x.op.todo /\ y.op.what = x.op.what
    BY <1>1 DEF Frame
  <2>3. Calling(y)
    BY <1>1, <2>1, <2>2 DEF Calling, Reloads, Reloading, Base
  <2> QED BY <1>1, <1>2, <2>1, <2>3, CallGoes DEF Reloads, Reloading
<1>4. CASE Succeeds(x, y, k, a) \/ Fails(x, y, k, a)
  BY <1>1, <1>2, <1>4, DoneGoes DEF Reloads, Succeeds, Fails
<1> QED BY <1>3, <1>4

\* What reload() makes of x.
Reloaded(x, y, k, cfg, closing, opening, a) ==
    LET ad == x.ad[x.op.at][k]
        closes == ad.enabled /\ (ad.cfg.port # cfg.port \/ ~cfg.on)
        opens == cfg.on /\ ~ad.enabled
    IN  /\ Like(a, ad)
        /\ closes => Calls(x, y, closing, k, a) /\ a = ad
        /\ ~closes => a.cfg = cfg
        /\ ~closes /\ opens => Calls(x, y, opening, k, a)
        /\ ~closes /\ ~opens /\ opening = "reopen" => Succeeds(x, y, k, a)
        /\ ~closes /\ ~opens /\ opening = "backopen" => Fails(x, y, k, a)

\* reload().
LEMMA ReloadFields ==
    ASSUME NEW x \in Manager, x.op.at \in Names, NEW k \in Kinds, NEW cfg \in Config,
           NEW closing \in {"reclose", "backclose"}, NEW opening \in {"reopen", "backopen"}
    PROVE  \E a : Reloaded(x, Reload(x, k, cfg, closing, opening), k, cfg, closing, opening, a)
<1> DEFINE y == Reload(x, k, cfg, closing, opening)
           ad == x.ad[x.op.at][k]
           closes == ad.enabled /\ (ad.cfg.port # cfg.port \/ ~cfg.on)
           opens == cfg.on /\ ~ad.enabled
<1>1. y = IF closes THEN Call(x, closing, k) ELSE Reopen(x, k, cfg, opening)
  BY DEF Reload
<1>2. CASE closes
  <2>1. Calls(x, y, closing, k, ad) /\ Like(ad, ad)
    BY <1>1, <1>2, CallOnly DEF Opening, Closing
  <2>2. Reloaded(x, y, k, cfg, closing, opening, ad)
    BY <1>2, <2>1 DEF Reloaded
  <2> QED BY <2>2
<1>3. CASE ~closes
  <2>1. y = Reopen(x, k, cfg, opening)
    BY <1>1, <1>3
  <2>2. PICK a : /\ Like(a, ad) /\ a.cfg = cfg
                 /\ opens => Calls(x, y, opening, k, a)
                 /\ ~opens /\ opening = "reopen" => Succeeds(x, y, k, a)
                 /\ ~opens /\ opening = "backopen" => Fails(x, y, k, a)
    BY <2>1, ReopenFields
  <2>3. Reloaded(x, y, k, cfg, closing, opening, a)
    BY <1>3, <2>2 DEF Reloaded
  <2> QED BY <2>3
<1> QED BY <1>2, <1>3

\* Its two parts leave nothing behind.
LEMMA ReloadGoes ==
    ASSUME NEW x, NEW k, Reloads(x, k), NEW cfg \in Config,
           NEW closing \in {"reclose", "backclose"}, NEW opening \in {"reopen", "backopen"}
    PROVE  Goes(x, Reload(x, k, cfg, closing, opening)) /\ Goes(x, Reopen(x, k, cfg, opening))
<1>1. x \in Manager /\ x.op.at \in Names /\ k \in Kinds
  BY DEF Reloads, Base
<1>2. closing \in Reloading /\ opening \in Reloading
  BY DEF Reloading
<1>3. Goes(x, Reopen(x, k, cfg, opening))
  <2>1. PICK y : y = Reopen(x, k, cfg, opening)
    OBVIOUS
  <2>2. PICK a : /\ Like(a, x.ad[x.op.at][k])
                 /\ Calls(x, y, opening, k, a) \/ Succeeds(x, y, k, a) \/ Fails(x, y, k, a)
    BY <1>1, <2>1, ReopenFields
  <2> QED BY <1>2, <2>1, <2>2, ReloadsGo
<1>4. Goes(x, Reload(x, k, cfg, closing, opening))
  <2>1. PICK y : y = Reload(x, k, cfg, closing, opening)
    OBVIOUS
  <2>2. PICK a : Reloaded(x, y, k, cfg, closing, opening, a)
    BY <1>1, <2>1, ReloadFields
  <2>3. /\ Like(a, x.ad[x.op.at][k])
        /\ \/ Calls(x, y, opening, k, a) \/ Calls(x, y, closing, k, a)
           \/ Succeeds(x, y, k, a) \/ Fails(x, y, k, a)
    BY <2>2 DEF Reloaded
  <2> QED BY <1>2, <2>1, <2>2, <2>3, ReloadsGo
<1> QED BY <1>3, <1>4

\* reloadSameKind remembers the configuration there is; the rest is a call of
\* close() or a reload.
LEMMA SameKindFields ==
    ASSUME NEW x \in Manager, x.op.at \in Names, NEW k \in Kinds, NEW cfg \in Config
    PROVE  \E u : /\ Frame(x, u) /\ u.map = x.map /\ u.ad = x.ad
                  /\ u.op.prev = x.ad[x.op.at][k].cfg /\ u.op.errs = x.op.errs
                  /\ u.op.prev \in Config
                  /\ ReloadSameKind(x, k, cfg) = IF x.ad[x.op.at][k].failure THEN Call(u, "heal", k)
                                                 ELSE Reload(u, k, cfg, "reclose", "reopen")
<1>1. PICK c \in Config : c = x.ad[x.op.at][k].cfg
  BY DEF Manager, Adapter
<1>2. PICK u : u = [x EXCEPT !.op.prev = c]
  OBVIOUS
<1>3. Frame(x, u) /\ u.map = x.map /\ u.ad = x.ad /\ u.op.prev = c /\ u.op.errs = x.op.errs
  BY <1>2, PrevFields
<1>4. ReloadSameKind(x, k, cfg) = IF x.ad[x.op.at][k].failure THEN Call(u, "heal", k)
                                  ELSE Reload(u, k, cfg, "reclose", "reopen")
  BY <1>1, <1>2 DEF ReloadSameKind
<1> QED BY <1>1, <1>3, <1>4

\* An operation is at a name of its plan.
Planning(x) ==
    /\ Base(x) /\ x.op.what # "shutdown"
    /\ x.op.at \in DOMAIN x.op.plan /\ x.op.todo \subseteq DOMAIN x.op.plan
    /\ x.op.plan[x.op.at] \in Desired

\* It goes on from a state with the same adapters.
LEMMA GoesOn ==
    ASSUME NEW x, NEW u, NEW y, Frame(x, u), Goes(u, y)
    PROVE  Goes(x, y)
BY FrameOn DEF Goes

\* reloadSameKind.
LEMMA SameKindGoes ==
    ASSUME NEW x, Planning(x), NEW k \in Kinds, x.map[x.op.at] = k, k = x.op.plan[x.op.at].kind,
           Tidy(x, x.op.at, k)
    PROVE  Goes(x, ReloadSameKind(x, k, x.op.plan[x.op.at].cfg))
<1>1. x \in Manager /\ x.op.at \in Names /\ Base(x)
  BY DEF Planning, Base
<1>2. PICK cfg \in Config : cfg = x.op.plan[x.op.at].cfg
  BY DEF Planning, Desired
<1>3. PICK u : /\ Frame(x, u) /\ u.map = x.map /\ u.ad = x.ad /\ u.op.prev \in Config
               /\ ReloadSameKind(x, k, cfg) = IF x.ad[x.op.at][k].failure THEN Call(u, "heal", k)
                                              ELSE Reload(u, k, cfg, "reclose", "reopen")
  BY <1>1, SameKindFields
<1>4. Base(u) /\ u \in Manager /\ u.op.at = x.op.at
  BY <1>1, <1>3, BaseFrame DEF Frame
<1>5. Reloads(u, k)
  BY <1>3, <1>4 DEF Reloads, Planning, Frame, Tidy
<1>6. CASE x.ad[x.op.at][k].failure
  <2>1. PICK y : y = Call(u, "heal", k)
    OBVIOUS
  <2>2. Calls(u, y, "heal", k, u.ad[u.op.at][k]) /\ Like(u.ad[u.op.at][k], u.ad[u.op.at][k])
    BY <1>1, <1>4, <2>1, CallOnly DEF Closing
  <2>3. "heal" \in Reloading
    BY DEF Reloading
  <2>4. Goes(u, y)
    BY <1>5, <2>2, <2>3, ReloadsGo
  <2> QED BY <1>2, <1>3, <1>6, <2>1, <2>4, GoesOn
<1>7. CASE ~x.ad[x.op.at][k].failure
  <2>1. Goes(u, Reload(u, k, cfg, "reclose", "reopen"))
    BY <1>5, ReloadGoes
  <2> QED BY <1>2, <1>3, <1>7, <2>1, GoesOn
<1> QED BY <1>6, <1>7

-----------------------------------------------------------------------------
(* Another adapter.                                                        *)

\* create(), and the entry in the map.
LEMMA CreateFields ==
    ASSUME NEW x \in Manager, x.op.at \in Names, NEW d \in Desired
    PROVE  LET y == Create(x, d)
           IN  /\ Frame(x, y) /\ y.op = x.op /\ y.map[x.op.at] = d.kind
               /\ \E a \in Adapter :
                    /\ Changes(x, y, d.kind, a)
                    /\ a.cfg = d.cfg /\ a.enabled = FALSE /\ a.own = "none" /\ a.failure = FALSE
                    /\ a.forced = FALSE /\ a.timer = FALSE /\ a.stray = FALSE
                    /\ a.stale = x.ad[x.op.at][d.kind].stale
<1>1. PICK k \in Kinds : k = d.kind
  BY DEF Desired
<1>2. PICK c \in Config : c = d.cfg
  BY DEF Desired
<1>3. PICK s \in BOOLEAN : s = x.ad[x.op.at][k].stale
  BY DEF Manager, Adapter
<1> DEFINE a == [NewAdapter(c) EXCEPT !.stale = s]
<1>4. /\ a \in Adapter /\ a.cfg = c /\ a.enabled = FALSE /\ a.own = "none" /\ a.failure = FALSE
      /\ a.forced = FALSE /\ a.timer = FALSE /\ a.stray = FALSE /\ a.stale = s
  BY DEF NewAdapter, Adapter
<1>5. PICK u : u = [x EXCEPT !.ad[x.op.at][k] = a]
  OBVIOUS
<1>6. Create(x, d) = SetKind(u, k)
  BY <1>1, <1>2, <1>3, <1>5 DEF Create
<1> HIDE DEF a
<1>7. Frame(x, u) /\ u.op = x.op /\ u.map = x.map /\ Changes(x, u, k, a)
  BY <1>4, <1>5, PutAdapter
<1>8. u \in Manager
  BY <1>7 DEF Frame
<1>9. PICK y : y = SetKind(u, k)
  OBVIOUS
<1>10. Frame(u, y) /\ y.op = u.op /\ y.ad = u.ad /\ y.map[u.op.at] = k
  BY <1>7, <1>8, <1>9, SetKindFields
<1>11. Frame(x, y) /\ Changes(x, y, k, a)
  BY <1>7, <1>10, FrameOn DEF Changes
<1> QED BY <1>1, <1>2, <1>3, <1>4, <1>6, <1>7, <1>9, <1>10, <1>11

\* A new adapter owns nothing, and the other one has released what it owned.
LEMMA CreateTidy ==
    ASSUME NEW x, Base(x), NEW d \in Desired, NEW j, Tidy(x, x.op.at, j),
           \A i \in Kinds : i # d.kind => Released(x.ad[x.op.at][i])
    PROVE  LET y == Create(x, d)
           IN  /\ Frame(x, y) /\ Base(y) /\ y \in Manager /\ y.op = x.op /\ y.map[x.op.at] = d.kind
               /\ Tidy(y, x.op.at, d.kind)
<1>1. x \in Manager /\ x.op.at \in Names /\ d.kind \in Kinds
  BY DEF Base, Desired
<1>2. PICK y : y = Create(x, d)
  OBVIOUS
<1>3. Frame(x, y) /\ y.op = x.op /\ y.map[x.op.at] = d.kind
  BY <1>1, <1>2, CreateFields
<1>4. PICK a \in Adapter :
        /\ Changes(x, y, d.kind, a)
        /\ a.enabled = FALSE /\ a.own = "none"
        /\ a.forced = FALSE /\ a.timer = FALSE /\ a.stray = FALSE
        /\ a.stale = x.ad[x.op.at][d.kind].stale
  BY <1>1, <1>2, CreateFields
<1>5. Base(y)
  BY <1>3, BaseFrame
<1>6. ASSUME NEW i \in Kinds
      PROVE  /\ Whole(i, y.ad[x.op.at][i]) /\ y.ad[x.op.at][i].own # "binding"
             /\ Holds(y.ad[x.op.at][i]) => i = d.kind \/ y.ad[x.op.at][i].forced
  <2>1. CASE i = d.kind
    <3>1. y.ad[x.op.at][i] = a /\ Whole(i, x.ad[x.op.at][i])
      BY <1>4, <2>1 DEF Changes, Tidy
    <3>2. i = "server" => ~a.stale
      BY <1>4, <2>1, <3>1 DEF Whole
    <3>3. Whole(i, a)
      BY <1>4, <3>2 DEF Whole, Holds
    <3> QED BY <1>4, <2>1, <3>1, <3>3
  <2>2. CASE i # d.kind
    BY <1>4, <2>2 DEF Changes, Tidy, Released
  <2> QED BY <2>1, <2>2
<1>7. Tidy(y, x.op.at, d.kind)
  BY <1>6 DEF Tidy
<1> QED BY <1>2, <1>3, <1>5, <1>7 DEF Frame

\* Nothing is owned.
LEMMA TidyAny ==
    ASSUME NEW x, NEW n, NEW k, Tidy(x, n, k), Released(x.ad[n][k]), k \in Kinds
    PROVE  (\A j : Tidy(x, n, j)) /\ \A i \in Kinds : Released(x.ad[n][i])
BY DEF Tidy, Released

\* A call, when the adapters stay as they are.
LEMMA CallHere ==
    ASSUME NEW x, Base(x), Tidy(x, x.op.at, x.map[x.op.at]), NEW pc \in Opening \cup Closing, NEW k \in Kinds,
           pc = "shut" <=> x.op.what = "shutdown",
           pc \in {"shut", "retire"} => x.op.at \notin DOMAIN x.op.plan /\ x.map[x.op.at] = k,
           pc \notin {"shut", "retire"} => x.op.at \in DOMAIN x.op.plan /\ x.op.todo \subseteq DOMAIN x.op.plan,
           pc \in {"create", "substitute", "cleanup"} => k = x.op.plan[x.op.at].kind /\ x.map[x.op.at] = k,
           pc \in {"replace", "reinstate"} => k # x.op.plan[x.op.at].kind /\ x.map[x.op.at] = k,
           pc = "restore" => /\ k # x.op.plan[x.op.at].kind /\ x.map[x.op.at] = x.op.plan[x.op.at].kind
                             /\ Released(x.ad[x.op.at][x.map[x.op.at]]),
           pc \notin Reloading
    PROVE  Goes(x, Call(x, pc, k))
<1>1. x \in Manager /\ x.op.at \in Names /\ x.op.at \notin x.op.todo
  BY DEF Base
<1>2. PICK y : y = Call(x, pc, k)
  OBVIOUS
<1>3. /\ Frame(x, y) /\ y.map = x.map /\ y.ad = x.ad
      /\ y.op.pc = pc /\ y.op.kind = k /\ y.op.st = "call"
  BY <1>1, <1>2, CallFields
<1>4. /\ y.op.at = x.op.at /\ y.op.plan = x.op.plan /\ y.op.todo = x.op.todo /\ y.op.what = x.op.what
  BY <1>3 DEF Frame
<1>5. Calling(y)
  BY <1>1, <1>3, <1>4 DEF Calling
<1>6. Tidy(y, x.op.at, y.map[x.op.at])
  BY <1>3 DEF Tidy
<1>7. pc # "next"
  BY DEF Opening, Closing
<1> QED BY <1>2, <1>3, <1>5, <1>6, <1>7, CallGoes

\* The operation is done with its name, reporting an error without an adapter.
LEMMA ReportGoes ==
    ASSUME NEW x, Base(x), Tidy(x, x.op.at, x.map[x.op.at])
    PROVE  LET y == Done(Report(x))
           IN  /\ Goes(x, y) /\ y.map = x.map /\ y.ad = x.ad
               /\ y.op.st = "run" /\ x.op.at \in y.op.errs
<1>1. x \in Manager /\ x.op.at \in Names
  BY DEF Base
<1>2. PICK u : u = Report(x)
  OBVIOUS
<1>3. Frame(x, u) /\ u.map = x.map /\ u.ad = x.ad /\ x.op.at \in u.op.errs
  BY <1>1, <1>2, ReportFields
<1>4. u \in Manager
  BY <1>3 DEF Frame
<1>5. PICK y : y = Done(u)
  OBVIOUS
<1>6. /\ Frame(u, y) /\ y.map = u.map /\ y.ad = u.ad
      /\ y.op.pc = "next" /\ y.op.st = "run" /\ y.op.errs = u.op.errs
  BY <1>4, <1>5, DoneFields
<1>7. Frame(x, y) /\ Tidy(y, x.op.at, y.map[x.op.at]) /\ x.op.at \in y.op.errs
  BY <1>3, <1>6, FrameOn DEF Tidy
<1>8. Goes(x, y)
  BY <1>6, <1>7, DoneGoes
<1> QED BY <1>2, <1>3, <1>5, <1>6, <1>7, <1>8

\* A name of the plan.
LEMMA ApplyGoes ==
    ASSUME NEW x, Planning(x), Tidy(x, x.op.at, x.map[x.op.at]), NEW ok \in BOOLEAN
    PROVE  Goes(x, Apply(x, x.op.plan[x.op.at], ok))
<1>1. x \in Manager /\ x.op.at \in Names /\ Base(x) /\ x.op.what # "shutdown"
  BY DEF Planning, Base
<1>2. PICK d \in Desired : d = x.op.plan[x.op.at]
  BY DEF Planning
<1>3. PICK k \in Kinds \cup {Absent} : k = x.map[x.op.at]
  BY <1>1 DEF Manager
<1>4. d.kind \in Kinds
  BY DEF Desired
<1>5. Absent \notin Kinds
  BY DEF Absent, Kinds
<1>6. Apply(x, d, ok) = IF k = Absent
                          THEN IF ok THEN Call(Create(x, d), "create", d.kind) ELSE Done(Report(x))
                        ELSE IF k = d.kind THEN ReloadSameKind(x, k, d.cfg)
                        ELSE Call(x, "replace", k)
  BY <1>3 DEF Apply
<1>7. CASE k = Absent /\ ok
  <2>1. \A i \in Kinds : Released(x.ad[x.op.at][i])
    BY <1>3, <1>5, <1>7 DEF Tidy, Released
  <2>2. PICK u : u = Create(x, d)
    OBVIOUS
  <2>3. /\ Frame(x, u) /\ Base(u) /\ u.op = x.op /\ u.map[x.op.at] = d.kind
        /\ Tidy(u, x.op.at, d.kind)
    BY <1>1, <2>1, <2>2, CreateTidy
  <2>4. Goes(u, Call(u, "create", d.kind))
    BY <1>1, <1>2, <1>4, <2>3, CallHere DEF Planning, Opening, Reloading
  <2> QED BY <1>2, <1>6, <1>7, <2>2, <2>3, <2>4, GoesOn
<1>8. CASE k = Absent /\ ~ok
  BY <1>1, <1>2, <1>6, <1>8, ReportGoes
<1>9. CASE k # Absent /\ k = d.kind
  BY <1>2, <1>3, <1>4, <1>6, <1>9, SameKindGoes
<1>10. CASE k # Absent /\ k # d.kind
  <2>1. Goes(x, Call(x, "replace", k))
    BY <1>1, <1>2, <1>3, <1>10, CallHere DEF Planning, Closing, Reloading
  <2> QED BY <1>2, <1>6, <1>10, <2>1
<1> QED BY <1>7, <1>8, <1>9, <1>10

\* The two kinds.
LEMMA OtherKind ==
    ASSUME NEW k \in Kinds
    PROVE  Other(k) \in Kinds /\ Other(k) # k /\ \A j \in Kinds : j # k => j = Other(k)
<1>1. \E j \in Kinds : j # k
  BY DEF Kinds
<1>2. Other(k) \in Kinds /\ Other(k) # k
  BY <1>1 DEF Other
<1> QED BY <1>2 DEF Kinds

\* A call has settled: well, or not.
Settles(x, ok) ==
    /\ Base(x) /\ Calling(x) /\ x.op.pc \in Opening \cup Closing
    /\ x.op.at \in DOMAIN x.op.plan => x.op.plan[x.op.at] \in Desired
    /\ Tidy(x, x.op.at, IF x.op.pc = "restore" /\ ok THEN x.op.kind ELSE x.map[x.op.at])
    /\ x.op.pc \in Closing /\ ok => Released(x.ad[x.op.at][x.op.kind])

\* The adapter is dropped from the map, or kept with its failure.
LEMMA RetiredGoes ==
    ASSUME NEW x, NEW ok \in BOOLEAN, Settles(x, ok), x.op.pc \in {"retire", "shut"}
    PROVE  Goes(x, Retired(x, x.op.kind, ok))
<1>1. x \in Manager /\ x.op.at \in Names /\ Base(x)
  BY DEF Settles, Base
<1>2. PICK k \in Kinds : k = x.op.kind
  BY <1>1 DEF Manager, Operation
<1>3. x.map[x.op.at] = k /\ Tidy(x, x.op.at, k)
  BY <1>2 DEF Settles, Calling
<1>4. CASE ok
  <2>1. Tidy(x, x.op.at, Absent)
    BY <1>2, <1>3, <1>4, TidyAny DEF Settles, Closing
  <2>2. PICK u : u = SetKind(x, Absent)
    OBVIOUS
  <2>3. Frame(x, u) /\ u.op = x.op /\ u.ad = x.ad /\ u.map[x.op.at] = Absent
    BY <1>1, <2>2, SetKindFields
  <2>4. u \in Manager
    BY <2>3 DEF Frame
  <2>5. PICK y : y = Done(u)
    OBVIOUS
  <2>6. /\ Frame(u, y) /\ y.map = u.map /\ y.ad = u.ad /\ y.op.pc = "next" /\ y.op.st = "run"
    BY <2>4, <2>5, DoneFields
  <2>7. Frame(x, y) /\ Tidy(y, x.op.at, y.map[x.op.at]) /\ y.map[x.op.at] = Absent
    <3>1. Frame(x, y)
      BY <2>3, <2>6, FrameOn
    <3>2. y.ad = x.ad /\ y.map[x.op.at] = Absent
      BY <2>3, <2>6
    <3> QED BY <2>1, <3>1, <3>2 DEF Tidy
  <2>8. Goes(x, y)
    BY <1>1, <2>6, <2>7, DoneGoes
  <2> QED BY <1>2, <1>4, <2>2, <2>5, <2>8 DEF Retired
<1>5. CASE ~ok
  BY <1>1, <1>2, <1>3, <1>5, FailGoes DEF Retired
<1> QED BY <1>4, <1>5

\* What follows a call of reloadSameKind.
LEMMA ReloadingGoes ==
    ASSUME NEW x, NEW ok \in BOOLEAN, NEW make, Settles(x, ok), x.op.pc \in Reloading
    PROVE  Goes(x, Continue(x, ok, make))
<1>1. PICK pc : pc = x.op.pc
  OBVIOUS
<1>2. PICK k : k = x.op.kind
  OBVIOUS
<1>3. PICK d : d = x.op.plan[x.op.at]
  OBVIOUS
<1>4. x.op.what # "shutdown"
  BY DEF Settles, Calling, Reloading
<1>5. Reloads(x, k) /\ d \in Desired
  <2>1. x.op.pc # "restore" /\ x.op.pc \notin {"shut", "retire"}
    BY DEF Reloading
  <2>2. x.op.kind \in Kinds
    BY DEF Settles, Base, Manager, Operation
  <2> QED BY <1>2, <1>3, <1>4, <2>1, <2>2 DEF Settles, Calling, Reloads
<1>6. d.cfg \in Config /\ x.op.prev \in Config /\ k \in Kinds /\ Base(x) /\ Tidy(x, x.op.at, x.map[x.op.at])
  BY <1>5 DEF Desired, Reloads
<1>7. CASE pc = "heal" /\ ok
  <2>1. Continue(x, ok, make) = Reload(x, k, d.cfg, "reclose", "reopen")
    BY <1>1, <1>2, <1>3, <1>7 DEF Continue
  <2> QED BY <1>5, <1>6, <2>1, ReloadGoes
<1>8. CASE pc = "reclose" /\ ok
  <2>1. Continue(x, ok, make) = Reopen(x, k, d.cfg, "reopen")
    BY <1>1, <1>2, <1>3, <1>8 DEF Continue
  <2> QED BY <1>5, <1>6, <2>1, ReloadGoes
<1>9. CASE pc = "reopen" /\ ok
  <2>1. Continue(x, ok, make) = Done(Clear(x, k))
    BY <1>1, <1>2, <1>3, <1>9 DEF Continue
  <2> QED BY <1>4, <1>6, <2>1, SucceedGoes
<1>10. CASE pc \in {"heal", "reclose", "reopen"} /\ ~ok
  <2>1. Continue(x, ok, make) = Reload(x, k, x.op.prev, "backclose", "backopen")
    BY <1>1, <1>2, <1>3, <1>10 DEF Continue
  <2> QED BY <1>5, <1>6, <2>1, ReloadGoes
<1>11. CASE pc = "backclose" /\ ok
  <2>1. Continue(x, ok, make) = Reopen(x, k, x.op.prev, "backopen")
    BY <1>1, <1>2, <1>3, <1>11 DEF Continue
  <2> QED BY <1>5, <1>6, <2>1, ReloadGoes
<1>12. CASE (pc = "backclose" /\ ~ok) \/ pc = "backopen"
  <2>1. Continue(x, ok, make) = Done(Report(Mark(x, k)))
    BY <1>1, <1>2, <1>3, <1>12 DEF Continue, ReloadFailed
  <2> QED BY <1>6, <2>1, FailGoes
<1> QED BY <1>1, <1>7, <1>8, <1>9, <1>10, <1>11, <1>12 DEF Reloading

\* The former adapter, of kind k, takes its place in the map again, as a.
Restores(x, y, k, a) ==
    /\ Frame(x, y) /\ y.map[x.op.at] = k
    /\ Like(a, x.ad[x.op.at][k]) /\ a.failure = TRUE /\ a.cfg = x.ad[x.op.at][k].cfg
    /\ Changes(x, y, k, a)
    /\ y.op.pc = "next" /\ y.op.st = "run" /\ x.op.at \in y.op.errs

\* The former adapter is restored.
LEMMA RestoredFields ==
    ASSUME NEW x, Base(x), NEW k \in Kinds
    PROVE  \E a : Restores(x, Done(Report(SetKind(Mark(x, k), k))), k, a)
<1>1. x \in Manager /\ x.op.at \in Names
  BY DEF Base
<1>2. PICK c \in Config : c = x.ad[x.op.at][k].cfg
  BY <1>1 DEF Manager, Adapter
<1>3. PICK t : t = Mark(x, k)
  OBVIOUS
<1>4. Frame(x, t) /\ t.op = x.op
  BY <1>1, <1>3, MarkFields
<1>5. PICK a : /\ Like(a, x.ad[x.op.at][k]) /\ a.failure = TRUE /\ a.cfg = x.ad[x.op.at][k].cfg
               /\ Changes(x, t, k, a)
  BY <1>1, <1>3, MarkFields
<1>6. t \in Manager
  BY <1>4 DEF Frame
<1>7. PICK u : u = SetKind(t, k)
  OBVIOUS
<1>8. Frame(t, u) /\ u.op = t.op /\ u.ad = t.ad /\ u.map[x.op.at] = k
  BY <1>1, <1>4, <1>6, <1>7, SetKindFields
<1>9. u \in Manager
  BY <1>8 DEF Frame
<1>10. PICK v : v = Report(u)
  OBVIOUS
<1>11. Frame(u, v) /\ v.map = u.map /\ v.ad = u.ad /\ x.op.at \in v.op.errs
  BY <1>1, <1>4, <1>8, <1>9, <1>10, ReportFields
<1>12. v \in Manager
  BY <1>11 DEF Frame
<1>13. PICK y : y = Done(v)
  OBVIOUS
<1>14. /\ Frame(v, y) /\ y.map = v.map /\ y.ad = v.ad
       /\ y.op.pc = "next" /\ y.op.st = "run" /\ y.op.errs = v.op.errs
  BY <1>12, <1>13, DoneFields
<1>15. Frame(x, y)
  BY <1>4, <1>8, <1>11, <1>14, FrameOn
<1>16. Changes(x, y, k, a) /\ y.map[x.op.at] = k /\ x.op.at \in y.op.errs
  BY <1>5, <1>8, <1>11, <1>14 DEF Changes
<1>17. Restores(x, y, k, a)
  BY <1>5, <1>14, <1>15, <1>16 DEF Restores
<1>18. y = Done(Report(SetKind(Mark(x, k), k)))
  BY <1>3, <1>7, <1>10, <1>13
<1> QED BY <1>17, <1>18

\* What follows a call of replaceKind.
LEMMA ReplacingGoes ==
    ASSUME NEW x, NEW ok \in BOOLEAN, NEW make \in BOOLEAN, Settles(x, ok), x.op.pc \in Replacing
    PROVE  Goes(x, Continue(x, ok, make))
<1>1. PICK pc : pc = x.op.pc
  OBVIOUS
<1>2. PICK k \in Kinds : k = x.op.kind
  BY DEF Settles, Base, Manager, Operation
<1>3. PICK d : d = x.op.plan[x.op.at]
  OBVIOUS
<1>4. /\ Base(x) /\ x \in Manager /\ x.op.at \in Names /\ x.op.what # "shutdown"
      /\ x.op.at \in DOMAIN x.op.plan /\ x.op.todo \subseteq DOMAIN x.op.plan
      /\ d \in Desired /\ d.kind \in Kinds
  BY <1>3 DEF Settles, Calling, Replacing, Base, Desired
<1>5. /\ pc \in {"substitute", "cleanup"} => k = d.kind /\ x.map[x.op.at] = k
      /\ pc \in {"replace", "reinstate"} => k # d.kind /\ x.map[x.op.at] = k
      /\ pc = "restore" => k # d.kind /\ x.map[x.op.at] = d.kind /\ Released(x.ad[x.op.at][d.kind])
  BY <1>1, <1>2, <1>3 DEF Settles, Calling
<1>6. /\ pc = "restore" /\ ok => Tidy(x, x.op.at, k)
      /\ ~(pc = "restore" /\ ok) => Tidy(x, x.op.at, x.map[x.op.at])
      /\ pc \in {"replace", "cleanup"} /\ ok => Released(x.ad[x.op.at][k])
  BY <1>1, <1>2 DEF Settles, Closing
<1>7. CASE pc = "replace"
  <2>1. Continue(x, ok, make) = IF ~ok THEN Done(Report(Mark(x, k)))
                                ELSE IF make THEN Call(Create(x, d), "substitute", d.kind)
                                ELSE Call(x, "reinstate", k)
    BY <1>1, <1>2, <1>3, <1>7 DEF Continue
  <2>2. CASE ~ok
    BY <1>4, <1>6, <2>1, <2>2, FailGoes
  <2>3. CASE ok /\ make
    <3>1. \A i \in Kinds : Released(x.ad[x.op.at][i])
      BY <1>5, <1>6, <1>7, <2>3, TidyAny
    <3>2. PICK u : u = Create(x, d)
      OBVIOUS
    <3>3. /\ Frame(x, u) /\ Base(u) /\ u.op = x.op /\ u.map[x.op.at] = d.kind
          /\ Tidy(u, x.op.at, d.kind)
      BY <1>4, <1>5, <1>6, <1>7, <3>1, <3>2, CreateTidy
    <3>4. Goes(u, Call(u, "substitute", d.kind))
      BY <1>3, <1>4, <3>3, CallHere DEF Opening, Reloading
    <3> QED BY <2>1, <2>3, <3>2, <3>3, <3>4, GoesOn
  <2>4. CASE ok /\ ~make
    <3>1. Goes(x, Call(x, "reinstate", k))
      BY <1>3, <1>4, <1>5, <1>6, <1>7, CallHere DEF Opening, Reloading
    <3> QED BY <2>1, <2>4, <3>1
  <2> QED BY <2>2, <2>3, <2>4
<1>8. CASE pc = "reinstate"
  <2>1. Continue(x, ok, make) = Done(Report(Mark(x, k)))
    BY <1>1, <1>2, <1>3, <1>8 DEF Continue
  <2> QED BY <1>4, <1>6, <1>8, <2>1, FailGoes
<1>9. CASE pc = "substitute"
  <2>1. Continue(x, ok, make) = IF ok THEN Done(Clear(x, k)) ELSE Call(x, "cleanup", k)
    BY <1>1, <1>2, <1>3, <1>9 DEF Continue
  <2>2. Goes(x, Done(Clear(x, k)))
    BY <1>4, <1>6, <1>9, SucceedGoes
  <2>3. Goes(x, Call(x, "cleanup", k))
    BY <1>3, <1>4, <1>5, <1>6, <1>9, CallHere DEF Closing, Reloading
  <2> QED BY <2>1, <2>2, <2>3
<1>10. CASE pc = "cleanup"
  <2>1. Continue(x, ok, make) = IF ok THEN Call(x, "restore", Other(k)) ELSE Done(Report(Mark(x, k)))
    BY <1>1, <1>2, <1>3, <1>10 DEF Continue, CleanedUp
  <2>2. Goes(x, Done(Report(Mark(x, k))))
    BY <1>4, <1>6, <1>10, FailGoes
  <2>3. ok => Goes(x, Call(x, "restore", Other(k)))
    BY <1>3, <1>4, <1>5, <1>6, <1>10, OtherKind, CallHere DEF Opening, Reloading
  <2> QED BY <2>1, <2>2, <2>3
<1>11. CASE pc = "restore"
  <2>1. Continue(x, ok, make) = IF ok THEN Done(Report(SetKind(Mark(x, k), k)))
                                ELSE Done(Report(Mark(x, Other(k))))
    BY <1>1, <1>2, <1>3, <1>11 DEF Continue
  <2>2. CASE ok
    <3>1. PICK y : y = Done(Report(SetKind(Mark(x, k), k)))
      OBVIOUS
    <3>2. PICK a : Restores(x, y, k, a)
      BY <1>4, <3>1, RestoredFields
    <3>3. /\ Frame(x, y) /\ y.map[x.op.at] = k /\ Like(a, x.ad[x.op.at][k]) /\ Changes(x, y, k, a)
          /\ y.op.pc = "next" /\ y.op.st = "run" /\ x.op.at \in y.op.errs
      BY <3>2 DEF Restores
    <3>4. Tidy(y, x.op.at, k)
      BY <1>6, <1>11, <2>2, <3>3, TidyLike
    <3>5. Goes(x, y)
      BY <1>4, <3>3, <3>4, DoneGoes
    <3> QED BY <2>1, <2>2, <3>1, <3>5
  <2>3. CASE ~ok
    BY <1>4, <1>6, <2>1, <2>3, OtherKind, FailGoes
  <2> QED BY <2>2, <2>3
<1> QED BY <1>1, <1>7, <1>8, <1>9, <1>10, <1>11 DEF Replacing

\* What follows a call.
LEMMA ContinueGoes ==
    ASSUME NEW x, NEW ok \in BOOLEAN, NEW make \in BOOLEAN, Settles(x, ok)
    PROVE  Goes(x, Continue(x, ok, make)) /\ Base(Continue(x, ok, make)) /\ Sound(Continue(x, ok, make))
<1>1. PICK y : y = Continue(x, ok, make)
  OBVIOUS
<1>2. PICK k \in Kinds : k = x.op.kind
  BY DEF Settles, Base, Manager, Operation
<1>3. Base(x) /\ x.op.pc \in Opening \cup Closing
  BY DEF Settles
<1>4. Goes(x, y)
  <2>1. CASE x.op.pc \in {"retire", "shut"}
    <3>1. y = Retired(x, x.op.kind, ok)
      BY <1>1, <2>1 DEF Continue
    <3> QED BY <2>1, <3>1, RetiredGoes
  <2>2. CASE x.op.pc = "create"
    <3>1. y = Done(IF ok THEN Clear(x, k) ELSE Report(Mark(x, k)))
      BY <1>1, <1>2, <2>2 DEF Continue
    <3>2. Tidy(x, x.op.at, x.map[x.op.at]) /\ x.op.what # "shutdown"
      BY <2>2 DEF Settles, Calling
    <3> QED BY <1>3, <3>1, <3>2, SucceedGoes, FailGoes
  <2>3. CASE x.op.pc \in Reloading
    BY <1>1, <2>3, ReloadingGoes
  <2>4. CASE x.op.pc \in Replacing
    BY <1>1, <2>4, ReplacingGoes
  <2> QED BY <1>3, <2>1, <2>2, <2>3, <2>4 DEF Opening, Closing, Reloading, Replacing
<1>5. Base(y)
  BY <1>3, <1>4, BaseFrame DEF Goes
<1>6. Sound(y)
  BY <1>4, <1>5, SoundHere DEF Goes
<1> QED BY <1>1, <1>4, <1>5, <1>6

-----------------------------------------------------------------------------
(* What befalls the adapters, and calls that change nothing of them.       *)

\* An adapter of kind k that was b is a: it owns no more than before.
Weakens(k, b, a) ==
    /\ a \in Adapter /\ Whole(k, a)
    /\ Holds(a) => Holds(b)
    /\ a.own = "binding" => b.own = "binding"
    /\ b.forced => a.forced
    /\ a.enabled => b.enabled
    /\ k = "server" => a.own = b.own \/ a.forced

Eases(x, y) ==
    /\ y \in Manager
    /\ y.map = x.map /\ y.op = x.op /\ y.queue = x.queue /\ y.shut = x.shut
    /\ y.accepting => x.accepting
    /\ \A n \in Names, k \in Kinds : Weakens(k, x.ad[n][k], y.ad[n][k])

\* Whatever a plan says of a name is a desired adapter.
LEMMA PlanDesired ==
    ASSUME NEW x \in Manager, NEW n \in DOMAIN x.op.plan
    PROVE  n \in Names /\ x.op.plan \in Plans /\ x.op.plan[n] \in Desired
<1>1. x.op.plan \in Plans \cup {<<>>}
  BY DEF Manager, Operation, AllPlans
<1>2. x.op.plan \in Plans
  BY <1>1
<1> QED BY <1>2, PlansAssumption

\* An adapter that stays as it is.
LEMMA WeakensSelf ==
    ASSUME NEW x, Sound(x), NEW n \in Names, NEW k \in Kinds
    PROVE  Weakens(k, x.ad[n][k], x.ad[n][k])
<1>1. x.ad[n][k] \in Adapter
  BY DEF Sound, Manager
<1>2. Whole(k, x.ad[n][k])
  BY DEF Sound, Owned
<1> QED BY <1>1, <1>2 DEF Weakens

\* The invariant stays.
LEMMA EasesSound ==
    ASSUME NEW x, NEW y, Sound(x), Eases(x, y)
    PROVE  Sound(y)
<1>1. /\ y \in Manager /\ x \in Manager /\ y.map = x.map /\ y.op = x.op /\ y.queue = x.queue
      /\ y.shut = x.shut /\ (y.accepting => x.accepting)
  BY DEF Eases, Sound
<1>2. \A n \in Names, k \in Kinds : Released(x.ad[n][k]) => Released(y.ad[n][k])
  BY DEF Eases, Weakens, Released
<1>3. Busy(x) => Calling(y)
  <2> SUFFICES ASSUME Busy(x) PROVE Calling(y)
    OBVIOUS
  <2>1. Calling(x) /\ x.op.at \in Names
    BY DEF Sound, Operating, Calling
  <2>2. x.map[x.op.at] \in Kinds \cup {Absent} /\ x.op.kind \in Kinds
    BY <1>1, <2>1 DEF Manager, Operation
  <2>3. ASSUME x.op.pc = "restore"
        PROVE  Released(y.ad[x.op.at][x.map[x.op.at]])
    <3>1. Released(x.ad[x.op.at][x.map[x.op.at]]) /\ x.map[x.op.at] = x.op.plan[x.op.at].kind
          /\ x.op.at \in DOMAIN x.op.plan
      BY <2>1, <2>3 DEF Calling
    <3>2. x.op.plan[x.op.at].kind \in Kinds
      BY <1>1, <3>1, PlanDesired DEF Desired
    <3> QED BY <1>2, <2>1, <3>1, <3>2
  <2> QED BY <1>1, <2>1, <2>3 DEF Calling
<1>4. x.op.st = "wait" => Awaiting(y)
  <2> SUFFICES ASSUME x.op.st = "wait" PROVE Awaiting(y)
    OBVIOUS
  <2>1. Awaiting(x) /\ x.op.at \in Names
    BY DEF Sound, Operating, Calling, Busy
  <2>2. x.op.kind \in Kinds
    BY <1>1 DEF Manager, Operation
  <2>3. Weakens(x.op.kind, x.ad[x.op.at][x.op.kind], y.ad[x.op.at][x.op.kind])
    BY <2>1, <2>2 DEF Eases
  <2> QED BY <1>1, <2>1, <2>3 DEF Awaiting, Weakens
<1>5. Operating(y)
  BY <1>1, <1>3, <1>4 DEF Sound, Operating, Busy
<1>6. Queueing(y) /\ Shutting(y)
  BY <1>1 DEF Sound, Queueing, Shutting, At, Busy
<1>7. \A n \in Names : Owned(y, n)
  <2> SUFFICES ASSUME NEW n \in Names, NEW k \in Kinds
               PROVE  /\ Whole(k, y.ad[n][k])
                      /\ Holds(y.ad[n][k]) => \/ y.map[n] = k \/ y.ad[n][k].forced
                                              \/ At(y, n) /\ y.op.st = "wait" /\ y.op.pc = "restore" /\ y.op.kind = k
                      /\ y.ad[n][k].own = "binding" => /\ At(y, n) /\ y.op.st = "wait"
                                                       /\ y.op.pc \in Opening /\ y.op.kind = k
    BY DEF Owned
  <2>1. Weakens(k, x.ad[n][k], y.ad[n][k])
    BY DEF Eases
  <2>2. Owned(x, n)
    BY DEF Sound
  <2> QED BY <1>1, <2>1, <2>2 DEF Owned, Weakens, At, Busy
<1> QED BY <1>1, <1>5, <1>6, <1>7 DEF Sound

\* A failure is counted.
LEMMA FaultSound ==
    ASSUME NEW x, Sound(x)
    PROVE  LET y == [x EXCEPT !.last.clean = FALSE]
           IN  Sound(y) /\ y.op = x.op /\ y.map = x.map /\ y.ad = x.ad
<1> DEFINE l == [x.last EXCEPT !.clean = FALSE]
           y == [x EXCEPT !.last = l]
<1>1. x \in Manager
  BY DEF Sound
<1>2. l \in Last
  BY <1>1 DEF Manager, Last
<1>3. [x EXCEPT !.last.clean = FALSE] = y
  BY <1>1 DEF Manager
<1> HIDE DEF l
<1>4. /\ y \in Manager /\ y.map = x.map /\ y.op = x.op /\ y.queue = x.queue /\ y.shut = x.shut
      /\ y.accepting = x.accepting /\ y.ad = x.ad
  BY <1>1, <1>2 DEF Manager
<1> HIDE DEF y
<1>5. Eases(x, y)
  BY <1>4, WeakensSelf DEF Eases
<1>6. Sound(y)
  BY <1>5, EasesSound
<1> QED BY <1>3, <1>4, <1>6

-----------------------------------------------------------------------------
(* open() and close(), and their settling.                                 *)

\* What a call of open() or close() of the adapter ad of kind k makes of it
\* before it awaits anything.
Method(k, opens, ad, ok) ==
    IF k = "server" THEN IF opens THEN ServerOpen(ad) ELSE ServerClose(ad)
    ELSE IF opens THEN ClientOpen(ad, ok) ELSE ClientClose(ad)

\* It is under way, or has returned.
Called(k, opens, ad, r) ==
    /\ r.ad \in Adapter /\ Whole(k, r.ad) /\ r.ad.forced = ad.forced
    /\ r.got \in {"ok", "bad", "wait"}
    /\ r.got = "wait" => /\ ~r.ad.enabled
                         /\ k = "client" => ~opens
                         /\ k = "server" => r.ad.own = IF opens THEN "binding" ELSE "held"
    /\ r.got # "wait" => r.ad.own # "binding"
    /\ r.got # "wait" /\ ~opens => r.got = "ok" /\ ~Holds(r.ad)
    /\ r.got = "bad" => (Holds(r.ad) => Holds(ad))
    /\ r.ad.own = "binding" => opens

\* open() of a server.
LEMMA ServerOpens ==
    ASSUME NEW ad \in Adapter, Whole("server", ad), ad.own # "binding"
    PROVE  Called("server", TRUE, ad, ServerOpen(ad))
<1> DEFINE r == ServerOpen(ad)
           b == [ad EXCEPT !.own = "binding"]
<1>1. CASE ad.enabled \/ ~ad.cfg.on
  <2>1. r.ad = ad /\ r.got = "ok"
    BY <1>1 DEF ServerOpen
  <2> HIDE DEF r
  <2>2. Called("server", TRUE, ad, r)
    BY <2>1 DEF Called
  <2> QED BY <2>2 DEF r
<1>2. CASE ~(ad.enabled \/ ~ad.cfg.on) /\ ad.own # "none"
  <2>1. r.ad = ad /\ r.got = "bad"
    BY <1>2 DEF ServerOpen
  <2> HIDE DEF r
  <2>2. Called("server", TRUE, ad, r)
    BY <2>1 DEF Called
  <2> QED BY <2>2 DEF r
<1>3. CASE ~(ad.enabled \/ ~ad.cfg.on) /\ ad.own = "none"
  <2>1. r.ad = b /\ r.got = "wait"
    BY <1>3 DEF ServerOpen
  <2>2. /\ b \in Adapter /\ b.own = "binding" /\ b.enabled = ad.enabled /\ b.timer = ad.timer
        /\ b.stray = ad.stray /\ b.stale = ad.stale /\ b.forced = ad.forced
    BY DEF Adapter
  <2> HIDE DEF r, b
  <2>3. Whole("server", b)
    BY <1>3, <2>2 DEF Whole
  <2>4. Called("server", TRUE, ad, r)
    BY <1>3, <2>1, <2>2, <2>3 DEF Called
  <2> QED BY <2>4 DEF r
<1> QED BY <1>1, <1>2, <1>3

\* open() of a client.
LEMMA ClientOpens ==
    ASSUME NEW ad \in Adapter, Whole("client", ad), ad.own # "binding", NEW ok \in BOOLEAN
    PROVE  Called("client", TRUE, ad, ClientOpen(ad, ok))
<1> DEFINE r == ClientOpen(ad, ok)
           b == [ad EXCEPT !.enabled = TRUE, !.own = "held", !.failure = FALSE]
           c == [ad EXCEPT !.failure = TRUE]
<1>1. CASE ad.enabled \/ ~ad.cfg.on
  <2>1. r.ad = ad /\ r.got = "ok"
    BY <1>1 DEF ClientOpen
  <2> HIDE DEF r
  <2>2. Called("client", TRUE, ad, r)
    BY <2>1 DEF Called
  <2> QED BY <2>2 DEF r
<1>2. CASE ~(ad.enabled \/ ~ad.cfg.on) /\ ok
  <2>1. r.ad = b /\ r.got = "ok"
    BY <1>2 DEF ClientOpen
  <2>2. /\ b \in Adapter /\ b.own = "held" /\ b.enabled = TRUE /\ b.timer = ad.timer
        /\ b.stray = ad.stray /\ b.stale = ad.stale /\ b.forced = ad.forced
    BY DEF Adapter
  <2>3. ~ad.timer /\ ~ad.stray /\ ~ad.forced
    BY <1>2 DEF Whole, Holds
  <2> HIDE DEF r, b
  <2>4. Whole("client", b)
    BY <2>2, <2>3 DEF Whole
  <2>5. Called("client", TRUE, ad, r)
    BY <2>1, <2>2, <2>4 DEF Called
  <2> QED BY <2>5 DEF r
<1>3. CASE ~(ad.enabled \/ ~ad.cfg.on) /\ ~ok
  <2>1. r.ad = c /\ r.got = "bad"
    BY <1>3 DEF ClientOpen
  <2>2. Like(c, ad)
    BY DEF Adapter, Like
  <2> HIDE DEF r, c
  <2>3. Whole("client", c) /\ (Holds(c) <=> Holds(ad))
    BY <2>2, LikeWhole
  <2>4. Called("client", TRUE, ad, r)
    BY <2>1, <2>2, <2>3 DEF Called, Like
  <2> QED BY <2>4 DEF r
<1> QED BY <1>1, <1>2, <1>3

\* close() of a server.
LEMMA ServerCloses ==
    ASSUME NEW ad \in Adapter, Whole("server", ad), ad.own # "binding"
    PROVE  Called("server", FALSE, ad, ServerClose(ad))
<1> DEFINE r == ServerClose(ad)
           b == [ad EXCEPT !.was = ad.enabled, !.enabled = FALSE]
<1>1. CASE ~ad.enabled /\ ad.own = "none"
  <2>1. r.ad = ad /\ r.got = "ok"
    BY <1>1 DEF ServerClose
  <2> HIDE DEF r
  <2>2. ~Holds(ad)
    BY <1>1 DEF Holds, Whole
  <2>3. Called("server", FALSE, ad, r)
    BY <2>1, <2>2 DEF Called
  <2> QED BY <2>3 DEF r
<1>2. CASE ~(~ad.enabled /\ ad.own = "none")
  <2>1. r.ad = b /\ r.got = "wait"
    BY <1>2 DEF ServerClose
  <2>2. /\ b \in Adapter /\ b.own = ad.own /\ b.enabled = FALSE /\ b.timer = ad.timer
        /\ b.stray = ad.stray /\ b.stale = ad.stale /\ b.forced = ad.forced
    BY DEF Adapter
  <2>3. ad.own = "held"
    BY <1>2 DEF Whole, Adapter
  <2> HIDE DEF r, b
  <2>4. Whole("server", b)
    BY <2>2 DEF Whole
  <2>5. Called("server", FALSE, ad, r)
    BY <2>1, <2>2, <2>3, <2>4 DEF Called
  <2> QED BY <2>5 DEF r
<1> QED BY <1>1, <1>2

\* close() of a client.
LEMMA ClientClosesIts ==
    ASSUME NEW ad \in Adapter, Whole("client", ad), ad.own # "binding"
    PROVE  Called("client", FALSE, ad, ClientClose(ad)) /\ ~Holds(ClientClose(ad).ad)
<1> DEFINE r == ClientClose(ad)
<1>1. PICK s \in BOOLEAN : s = (ad.stale \/ ad.own = "held")
  <2>1. (ad.stale \/ ad.own = "held") \in BOOLEAN
    OBVIOUS
  <2> QED BY <2>1, Zenon
<1> DEFINE b == [ad EXCEPT !.enabled = FALSE, !.timer = FALSE, !.own = "none", !.stale = s]
<1>2. r.ad = b /\ r.got = "wait"
  BY <1>1 DEF ClientClose
<1>3. /\ b \in Adapter /\ b.own = "none" /\ b.enabled = FALSE /\ b.timer = FALSE
      /\ b.stray = ad.stray /\ b.forced = ad.forced
  BY DEF Adapter
<1> HIDE DEF r, b
<1>4. ~ad.stray /\ ~ad.forced
  BY DEF Whole
<1>5. Whole("client", b) /\ ~Holds(b)
  BY <1>3, <1>4 DEF Whole, Holds
<1>6. Called("client", FALSE, ad, r)
  BY <1>2, <1>3, <1>5 DEF Called
<1> QED BY <1>2, <1>5, <1>6 DEF r

\* Either, of either.
LEMMA MethodCalled ==
    ASSUME NEW k \in Kinds, NEW ad \in Adapter, Whole(k, ad), ad.own # "binding",
           NEW opens \in BOOLEAN, NEW ok \in BOOLEAN
    PROVE  Called(k, opens, ad, Method(k, opens, ad, ok))
<1>1. CASE k = "server" /\ opens
  BY <1>1, ServerOpens DEF Method
<1>2. CASE k = "server" /\ ~opens
  BY <1>2, ServerCloses DEF Method
<1>3. CASE k = "client" /\ opens
  BY <1>3, ClientOpens DEF Method
<1>4. CASE k = "client" /\ ~opens
  BY <1>4, ClientClosesIts DEF Method
<1> QED BY <1>1, <1>2, <1>3, <1>4 DEF Kinds

\* Whose adapters are called.
LEMMA CallPlace ==
    ASSUME NEW x, Sound(x), Busy(x)
    PROVE  /\ Base(x) /\ Here(x) /\ Calling(x) /\ x \in Manager /\ x.op.at \in Names
           /\ x.op.kind \in Kinds /\ x.op.pc \in Opening \cup Closing
           /\ x.ad[x.op.at][x.op.kind] \in Adapter
           /\ (x.op.pc \in Closing) <=> (x.op.pc \notin Opening)
           /\ x.op.pc # "restore" => x.map[x.op.at] = x.op.kind
           /\ x.op.pc = "restore" => x.map[x.op.at] # x.op.kind
           /\ x.op.at \in DOMAIN x.op.plan => x.op.plan[x.op.at] \in Desired
<1>1. Base(x) /\ Here(x)
  BY SoundBusy
<1>2. Calling(x) /\ x.op.pc # "next"
  BY <1>1 DEF Here
<1>3. x \in Manager /\ x.op.at \in Names
  BY <1>1 DEF Base
<1>4. x.op.kind \in Kinds /\ x.op.pc \in Opening \cup Closing /\ x.ad[x.op.at][x.op.kind] \in Adapter
  BY <1>2, <1>3 DEF Manager, Operation
<1>5. (x.op.pc \in Closing) <=> (x.op.pc \notin Opening)
  BY <1>4 DEF Opening, Closing
<1>6. x.op.pc # "restore" => x.map[x.op.at] = x.op.kind
  BY <1>2, <1>4 DEF Calling, Opening, Closing, Reloading
<1>7. x.op.pc = "restore" => x.map[x.op.at] # x.op.kind
  BY <1>2 DEF Calling
<1>8. x.op.at \in DOMAIN x.op.plan => x.op.plan[x.op.at] \in Desired
  BY <1>3, PlanDesired
<1> QED BY <1>1, <1>2, <1>3, <1>4, <1>5, <1>6, <1>7, <1>8

\* The operation's place does not change with the adapter it calls.
LEMMA CallingChanged ==
    ASSUME NEW x, Sound(x), Busy(x), NEW y, NEW a, Frame(x, y), y.map = x.map,
           Changes(x, y, x.op.kind, a),
           y.op.pc = x.op.pc, y.op.kind = x.op.kind, y.op.prev = x.op.prev
    PROVE  Calling(y)
<1>1. /\ Calling(x) /\ x \in Manager /\ x.op.at \in Names
      /\ x.op.pc = "restore" => x.map[x.op.at] # x.op.kind
      /\ x.op.at \in DOMAIN x.op.plan => x.op.plan[x.op.at] \in Desired
  BY CallPlace
<1>2. /\ y.op.at = x.op.at /\ y.op.plan = x.op.plan /\ y.op.todo = x.op.todo /\ y.op.what = x.op.what
  BY DEF Frame
<1>3. ASSUME x.op.pc = "restore"
      PROVE  y.ad[x.op.at][x.map[x.op.at]] = x.ad[x.op.at][x.map[x.op.at]]
  <2>1. x.map[x.op.at] \in Kinds
    BY <1>1, <1>3 DEF Calling, Desired
  <2> QED BY <1>1, <1>3, <2>1 DEF Changes
<1> QED BY <1>1, <1>2, <1>3 DEF Calling

\* A call waits, or has returned.
LEMMA CalledGoes ==
    ASSUME NEW x, Sound(x), x.op.st = "call", NEW r,
           Called(x.op.kind, x.op.pc \in Opening, x.ad[x.op.at][x.op.kind], r),
           NEW y, y = [x EXCEPT !.ad[x.op.at][x.op.kind] = r.ad]
    PROVE  /\ Base(y) /\ Frame(x, y)
           /\ r.got = "wait" => Goes(y, [y EXCEPT !.op.st = "wait"])
           /\ r.got # "wait" => Settles(y, r.got = "ok")
<1>1. Busy(x)
  BY DEF Busy
<1>2. PICK n : n = x.op.at
  OBVIOUS
<1>3. PICK k \in Kinds : k = x.op.kind
  BY <1>1, CallPlace
<1>4. PICK pc : pc = x.op.pc
  OBVIOUS
<1>5. /\ Base(x) /\ Calling(x) /\ x \in Manager /\ n \in Names /\ pc \in Opening \cup Closing
      /\ (pc \in Closing) <=> (pc \notin Opening)
      /\ pc # "restore" => x.map[n] = k
      /\ pc = "restore" => x.map[n] # k
      /\ n \in DOMAIN x.op.plan => x.op.plan[n] \in Desired
  BY <1>1, <1>2, <1>3, <1>4, CallPlace
<1>6. PICK a \in Adapter : a = r.ad
  BY DEF Called
<1>7. Frame(x, y) /\ y.op = x.op /\ y.map = x.map /\ Changes(x, y, k, a)
  BY <1>2, <1>3, <1>5, <1>6, PutAdapter
<1>8. Base(y) /\ y \in Manager
  <2>1. y \in Manager
    BY <1>7 DEF Frame
  <2>2. Base(y)
    BY <1>5, <1>7, BaseFrame
  <2> QED BY <2>1, <2>2
<1>9. Tidy(x, n, x.map[n])
  BY <1>2, <1>5, OwnedTidy DEF Sound, Owned, Tidy
<1>10. y.ad[n][k] = a /\ \A j \in Kinds : j # k => y.ad[n][j] = x.ad[n][j]
  BY <1>2, <1>7 DEF Changes
<1>11. Whole(k, a) /\ a.forced = x.ad[n][k].forced /\ (a.own = "binding" => pc \in Opening)
  BY <1>2, <1>3, <1>4, <1>6 DEF Called
<1>12. ASSUME r.got = "wait"
       PROVE  Goes(y, [y EXCEPT !.op.st = "wait"])
  <2>1. PICK z : z = [y EXCEPT !.op.st = "wait"]
    OBVIOUS
  <2>2. /\ Frame(y, z) /\ z.map = y.map /\ z.ad = y.ad
        /\ z.op.pc = y.op.pc /\ z.op.kind = y.op.kind /\ z.op.st = "wait" /\ z.op.prev = y.op.prev
    BY <1>8, <2>1, StateFields
  <2>3. Frame(x, z) /\ Changes(x, z, k, a) /\ z.map = x.map /\ z.op.at = n
    <3>1. Frame(x, z)
      BY <1>7, <2>2, FrameOn, Zenon
    <3>2. z.map = x.map /\ z.ad = y.ad
      BY <1>7, <2>2
    <3>3. Changes(x, z, k, a)
      BY <1>7, <3>2 DEF Changes
    <3>4. z.op.at = n
      BY <1>2, <3>1 DEF Frame
    <3> QED BY <3>1, <3>2, <3>3, <3>4
  <2>4. Calling(z)
    BY <1>1, <1>3, <1>7, <2>2, <2>3, CallingChanged
  <2>5. z.ad[n][k] = a /\ z.op.kind = k /\ z.op.pc = pc
    BY <1>3, <1>4, <1>7, <1>10, <2>2
  <2>6. Awaiting(z)
    BY <1>2, <1>3, <1>4, <1>6, <1>12, <2>3, <2>5 DEF Awaiting, Called
  <2>7. Owned(z, n)
    <3> SUFFICES ASSUME NEW j \in Kinds
                 PROVE  /\ Whole(j, z.ad[n][j])
                        /\ Holds(z.ad[n][j]) => \/ z.map[n] = j \/ z.ad[n][j].forced
                                                \/ At(z, n) /\ z.op.st = "wait" /\ z.op.pc = "restore" /\ z.op.kind = j
                        /\ z.ad[n][j].own = "binding" => /\ At(z, n) /\ z.op.st = "wait"
                                                         /\ z.op.pc \in Opening /\ z.op.kind = j
      BY DEF Owned
    <3>1. At(z, n)
      BY <2>2, <2>3 DEF At, Busy
    <3>2. CASE j = k
      BY <1>5, <1>11, <2>2, <2>3, <2>5, <3>1, <3>2
    <3>3. CASE j # k
      <4>1. z.ad[n][j] = x.ad[n][j]
        BY <1>10, <2>2, <3>3
      <4> QED BY <1>9, <2>3, <4>1 DEF Tidy
    <3> QED BY <3>2, <3>3
  <2>8. Here(z)
    <3>1. Busy(z) /\ z.op.pc # "next"
      BY <1>5, <2>2, <2>5 DEF Busy, Opening, Closing
    <3> QED BY <2>2, <2>3, <2>4, <2>6, <2>7, <3>1 DEF Here
  <2> QED BY <2>1, <2>2, <2>8 DEF Goes
<1>13. ASSUME r.got # "wait"
       PROVE  Settles(y, r.got = "ok")
  <2>1. Calling(y)
    BY <1>1, <1>3, <1>7, CallingChanged
  <2>2. Tidy(y, n, IF pc = "restore" /\ r.got = "ok" THEN k ELSE y.map[n])
    <3> SUFFICES ASSUME NEW j \in Kinds
                 PROVE  /\ Whole(j, y.ad[n][j]) /\ y.ad[n][j].own # "binding"
                        /\ Holds(y.ad[n][j]) => \/ j = (IF pc = "restore" /\ r.got = "ok" THEN k ELSE y.map[n])
                                                \/ y.ad[n][j].forced
      BY DEF Tidy
    <3>1. CASE j = k
      <4>1. a.own # "binding" /\ (r.got = "bad" => (Holds(a) => Holds(x.ad[n][k])))
        BY <1>2, <1>3, <1>4, <1>6, <1>13 DEF Called
      <4>2. r.got # "ok" => r.got = "bad"
        BY <1>13 DEF Called
      <4>3. Holds(x.ad[n][k]) => k = x.map[n] \/ x.ad[n][k].forced
        BY <1>9 DEF Tidy
      <4> QED BY <1>5, <1>7, <1>10, <1>11, <3>1, <4>1, <4>2, <4>3
    <3>2. CASE j # k
      <4>1. y.ad[n][j] = x.ad[n][j]
        BY <1>10, <3>2
      <4>2. /\ Whole(j, x.ad[n][j]) /\ x.ad[n][j].own # "binding"
            /\ Holds(x.ad[n][j]) => j = x.map[n] \/ x.ad[n][j].forced
        BY <1>9 DEF Tidy
      <4>3. pc = "restore" => Released(x.ad[n][x.map[n]])
        BY <1>2, <1>4, <1>5 DEF Calling
      <4> QED BY <1>5, <1>7, <3>2, <4>1, <4>2, <4>3 DEF Released
    <3> QED BY <3>1, <3>2
  <2>3. pc \in Closing /\ r.got = "ok" => Released(y.ad[n][k])
    BY <1>2, <1>3, <1>4, <1>5, <1>6, <1>10, <1>13 DEF Called, Released
  <2>4. PICK good \in BOOLEAN : good = (r.got = "ok")
    <3>1. (r.got = "ok") \in BOOLEAN
      OBVIOUS
    <3> QED BY <3>1, Zenon
  <2>5. /\ y.op.at = n /\ y.op.kind = k /\ y.op.pc = pc /\ pc \in Opening \cup Closing
        /\ n \in DOMAIN y.op.plan => y.op.plan[n] \in Desired
    BY <1>2, <1>3, <1>4, <1>5, <1>7
  <2>6. /\ Tidy(y, n, IF pc = "restore" /\ good THEN k ELSE y.map[n])
        /\ pc \in Closing /\ good => Released(y.ad[n][k])
    BY <2>2, <2>3, <2>4, Zenon
  <2>7. Settles(y, good)
    <3>1. /\ y.op.pc \in Opening \cup Closing
          /\ y.op.at \in DOMAIN y.op.plan => y.op.plan[y.op.at] \in Desired
      BY <2>5
    <3>2. Tidy(y, y.op.at, IF y.op.pc = "restore" /\ good THEN y.op.kind ELSE y.map[y.op.at])
      <4>1. PICK t : t = IF pc = "restore" /\ good THEN k ELSE y.map[n]
        OBVIOUS
      <4>2. Tidy(y, n, t)
        BY <2>6, <4>1
      <4>3. t = IF y.op.pc = "restore" /\ good THEN y.op.kind ELSE y.map[y.op.at]
        BY <2>5, <4>1
      <4> QED BY <2>5, <4>2, <4>3
    <3>3. y.op.pc \in Closing /\ good => Released(y.ad[y.op.at][y.op.kind])
      BY <2>5, <2>6, Zenon
    <3> QED BY <1>8, <2>1, <3>1, <3>2, <3>3, Zenon DEF Settles
  <2> QED BY <2>4, <2>7
<1> QED BY <1>7, <1>8, <1>12, <1>13

\* What the settling of a call makes of the adapter.
Settled(k, opens, ad, ok, listening) ==
    IF k = "client" THEN ad
    ELSE IF opens THEN OpenSettles(ad, ok)
    ELSE ServerCloseSettles(ad, ok, listening)

\* It is whole again; what failed to open, or was closed, is released.
LEMMA SettledAdapter ==
    ASSUME NEW k \in Kinds, NEW ad \in Adapter, Whole(k, ad), ~ad.enabled, NEW opens \in BOOLEAN,
           k = "client" => ~opens,
           k = "server" => ad.own = (IF opens THEN "binding" ELSE "held") \/ ad.forced,
           ~opens => ad.own # "binding",
           NEW ok \in BOOLEAN, NEW listening \in BOOLEAN
    PROVE  LET a == Settled(k, opens, ad, ok, listening)
           IN  /\ a \in Adapter /\ Whole(k, a) /\ a.own # "binding" /\ a.forced = ad.forced
               /\ opens /\ ~ok => Released(a)
               /\ ~opens /\ (ok \/ ad.forced) => Released(a)
<1> DEFINE a == Settled(k, opens, ad, ok, listening)
<1>1. CASE k = "client"
  <2>1. a = ad /\ ~Holds(ad) /\ ad.own # "binding"
    BY <1>1 DEF Settled, Whole
  <2> HIDE DEF a
  <2>2. a \in Adapter /\ Whole(k, a) /\ a.own # "binding" /\ a.forced = ad.forced /\ Released(a)
    BY <2>1 DEF Released
  <2> QED BY <2>2 DEF a
<1>2. CASE k = "server" /\ opens
  <2>1. CASE ad.own # "binding"
    <3>1. a = ad /\ ad.forced
      BY <1>2, <2>1 DEF Settled, OpenSettles
    <3> HIDE DEF a
    <3>2. a \in Adapter /\ Whole(k, a) /\ a.own # "binding" /\ a.forced = ad.forced /\ Released(a)
      BY <2>1, <3>1 DEF Released
    <3> QED BY <3>2 DEF a
  <2>2. CASE ad.own = "binding" /\ ok
    <3> DEFINE b == [ad EXCEPT !.own = "held", !.enabled = TRUE, !.failure = FALSE]
    <3>1. a = b
      BY <1>2, <2>2 DEF Settled, OpenSettles
    <3>2. /\ b \in Adapter /\ b.own = "held" /\ b.enabled = TRUE /\ b.timer = ad.timer
          /\ b.stray = ad.stray /\ b.stale = ad.stale /\ b.forced = ad.forced
      BY DEF Adapter
    <3> HIDE DEF a, b
    <3>3. Whole(k, b)
      BY <1>2, <3>2 DEF Whole
    <3> QED BY <1>2, <2>2, <3>1, <3>2, <3>3 DEF a
  <2>3. CASE ad.own = "binding" /\ ~ok
    <3> DEFINE b == [ad EXCEPT !.own = "none", !.enabled = FALSE, !.failure = TRUE]
    <3>1. a = b
      BY <1>2, <2>3 DEF Settled, OpenSettles
    <3>2. /\ b \in Adapter /\ b.own = "none" /\ b.enabled = FALSE /\ b.timer = ad.timer
          /\ b.stray = ad.stray /\ b.stale = ad.stale /\ b.forced = ad.forced
      BY DEF Adapter
    <3> HIDE DEF a, b
    <3>3. Whole(k, b) /\ Released(b)
      BY <1>2, <3>2 DEF Whole, Released, Holds
    <3> QED BY <1>2, <2>3, <3>1, <3>2, <3>3 DEF a
  <2> QED BY <2>1, <2>2, <2>3
<1>3. CASE k = "server" /\ ~opens
  <2>1. CASE ok
    <3> DEFINE b == [ad EXCEPT !.own = "none"]
    <3>1. a = b
      BY <1>3, <2>1 DEF Settled, ServerCloseSettles
    <3>2. /\ b \in Adapter /\ b.own = "none" /\ b.enabled = ad.enabled /\ b.timer = ad.timer
          /\ b.stray = ad.stray /\ b.stale = ad.stale /\ b.forced = ad.forced
      BY DEF Adapter
    <3> HIDE DEF a, b
    <3>3. Whole(k, b) /\ Released(b)
      BY <1>3, <3>2 DEF Whole, Released, Holds
    <3> QED BY <1>3, <2>1, <3>1, <3>2, <3>3 DEF a
  <2>2. CASE ~ok /\ ad.forced
    <3>1. a = ad
      BY <1>3, <2>2 DEF Settled, ServerCloseSettles
    <3> HIDE DEF a
    <3>2. a \in Adapter /\ Whole(k, a) /\ a.own # "binding" /\ a.forced = ad.forced /\ Released(a)
      BY <1>3, <2>2, <3>1 DEF Released
    <3> QED BY <3>2 DEF a
  <2>3. CASE ~ok /\ ~ad.forced
    <3>1. PICK e \in BOOLEAN : e = (ad.was /\ listening)
      <4>1. (ad.was /\ listening) \in BOOLEAN
        OBVIOUS
      <4> QED BY <4>1, Zenon
    <3> DEFINE b == [ad EXCEPT !.enabled = e]
    <3>2. a = b
      BY <1>3, <2>3, <3>1 DEF Settled, ServerCloseSettles
    <3>3. /\ b \in Adapter /\ b.own = ad.own /\ b.timer = ad.timer
          /\ b.stray = ad.stray /\ b.stale = ad.stale /\ b.forced = ad.forced
      BY DEF Adapter
    <3> HIDE DEF a, b
    <3>4. Whole(k, b) /\ b.own = "held"
      BY <1>3, <2>3, <3>3 DEF Whole
    <3> QED BY <1>3, <2>3, <3>2, <3>3, <3>4 DEF a
  <2> QED BY <2>1, <2>2, <2>3
<1> QED BY <1>1, <1>2, <1>3 DEF Kinds

\* The call settles.
LEMMA SettledGoes ==
    ASSUME NEW x, Sound(x), x.op.st = "wait", NEW ok \in BOOLEAN, NEW listening \in BOOLEAN,
           NEW good \in BOOLEAN,
           good <=> ok \/ (x.op.pc \notin Opening /\ x.ad[x.op.at][x.op.kind].forced),
           NEW z, z = [[x EXCEPT !.ad[x.op.at][x.op.kind] =
                          Settled(x.op.kind, x.op.pc \in Opening, x.ad[x.op.at][x.op.kind], ok, listening)]
                       EXCEPT !.op.st = "run"]
    PROVE  Settles(z, good) /\ Frame(x, z)
<1>1. Busy(x)
  BY DEF Busy
<1>2. PICK n : n = x.op.at
  OBVIOUS
<1>3. PICK k \in Kinds : k = x.op.kind
  BY <1>1, CallPlace
<1>4. PICK pc : pc = x.op.pc
  OBVIOUS
<1>5. PICK ad \in Adapter : ad = x.ad[n][k]
  BY <1>1, <1>2, <1>3, CallPlace
<1>6. PICK opens \in BOOLEAN : opens = (pc \in Opening)
  <2>1. (pc \in Opening) \in BOOLEAN
    OBVIOUS
  <2> QED BY <2>1, Zenon
<1>7. /\ Base(x) /\ Here(x) /\ Calling(x) /\ x \in Manager /\ n \in Names /\ pc \in Opening \cup Closing
      /\ (pc \in Closing) <=> (pc \notin Opening)
      /\ pc # "restore" => x.map[n] = k
      /\ pc = "restore" => x.map[n] # k
      /\ n \in DOMAIN x.op.plan => x.op.plan[n] \in Desired
  BY <1>1, <1>2, <1>3, <1>4, CallPlace
<1>8. Owned(x, n) /\ Awaiting(x)
  BY <1>2, <1>7 DEF Here
<1>9. /\ ~ad.enabled /\ (k = "client" => ~opens)
      /\ k = "server" => ad.own = (IF opens THEN "binding" ELSE "held") \/ ad.forced
  BY <1>2, <1>3, <1>4, <1>5, <1>6, <1>8 DEF Awaiting
<1>10. Whole(k, ad) /\ (~opens => ad.own # "binding")
  BY <1>4, <1>5, <1>6, <1>8 DEF Owned
<1>11. PICK a : a = Settled(k, opens, ad, ok, listening)
  OBVIOUS
<1>12. /\ a \in Adapter /\ Whole(k, a) /\ a.own # "binding" /\ a.forced = ad.forced
       /\ opens /\ ~ok => Released(a)
       /\ ~opens /\ (ok \/ ad.forced) => Released(a)
  BY <1>9, <1>10, <1>11, SettledAdapter
<1>13. PICK y : y = [x EXCEPT !.ad[x.op.at][k] = a]
  OBVIOUS
<1>14. Frame(x, y) /\ y.op = x.op /\ y.map = x.map /\ Changes(x, y, k, a)
  BY <1>2, <1>7, <1>12, <1>13, PutAdapter
<1>15. y \in Manager
  BY <1>14 DEF Frame
<1>16. PICK w : w = [y EXCEPT !.op.st = "run"]
  OBVIOUS
<1>17. /\ Frame(y, w) /\ w.map = y.map /\ w.ad = y.ad
       /\ w.op.pc = y.op.pc /\ w.op.kind = y.op.kind /\ w.op.prev = y.op.prev
  BY <1>15, <1>16, StateFields
<1>18. z = w
  BY <1>2, <1>3, <1>4, <1>5, <1>6, <1>11, <1>13, <1>16
<1>19. Frame(x, w) /\ w.map = x.map /\ w.op.at = n /\ w.op.plan = x.op.plan /\ w.op.pc = pc /\ w.op.kind = k
  BY <1>2, <1>3, <1>4, <1>14, <1>17, FrameOn DEF Frame
<1>20. w.ad[n][k] = a /\ (\A j \in Kinds : j # k => w.ad[n][j] = x.ad[n][j]) /\ Changes(x, w, k, a)
  BY <1>2, <1>14, <1>17 DEF Changes
<1>21. Base(w)
  BY <1>7, <1>19, BaseFrame
<1>22. Calling(w)
  BY <1>1, <1>3, <1>4, <1>14, <1>17, <1>19, <1>20, CallingChanged
<1>23. good <=> ok \/ (~opens /\ ad.forced)
  BY <1>2, <1>3, <1>4, <1>5, <1>6
<1>24. Tidy(w, n, IF pc = "restore" /\ good THEN k ELSE w.map[n])
  <2> SUFFICES ASSUME NEW j \in Kinds
               PROVE  /\ Whole(j, w.ad[n][j]) /\ w.ad[n][j].own # "binding"
                      /\ Holds(w.ad[n][j]) => \/ j = (IF pc = "restore" /\ good THEN k ELSE w.map[n])
                                              \/ w.ad[n][j].forced
    BY DEF Tidy
  <2>1. CASE j = k
    <3>1. pc = "restore" => opens
      BY <1>6 DEF Opening
    <3>2. pc = "restore" /\ ~good => Released(a)
      BY <1>12, <1>23, <3>1
    <3> QED BY <1>7, <1>12, <1>19, <1>20, <2>1, <3>2 DEF Released
  <2>2. CASE j # k
    <3>1. w.ad[n][j] = x.ad[n][j]
      BY <1>20, <2>2
    <3>2. /\ Whole(j, x.ad[n][j]) /\ x.ad[n][j].own # "binding"
          /\ Holds(x.ad[n][j]) => j = x.map[n] \/ x.ad[n][j].forced
      BY <1>3, <1>8, <2>2 DEF Owned
    <3>3. pc = "restore" => Released(x.ad[n][x.map[n]])
      BY <1>2, <1>4, <1>7 DEF Calling
    <3> QED BY <1>7, <1>19, <2>2, <3>1, <3>2, <3>3 DEF Released
  <2> QED BY <2>1, <2>2
<1>25. pc \in Closing /\ good => Released(w.ad[n][k])
  BY <1>6, <1>7, <1>12, <1>20, <1>23
<1>26. Settles(w, good)
  BY <1>7, <1>19, <1>21, <1>22, <1>24, <1>25 DEF Settles
<1> QED BY <1>18, <1>19, <1>26

-----------------------------------------------------------------------------
(* The steps.                                                              *)

IInv == Sound(m) /\ faults \in 0..Faults

\* A step that may fail.
LEMMA FaultStep ==
    ASSUME NEW x, Sound(x), NEW failed \in BOOLEAN, IInv, Fault(x, failed)
    PROVE  IInv'
<1>1. /\ failed => faults < Faults
      /\ faults' = IF failed THEN faults + 1 ELSE faults
      /\ m' = IF failed THEN [x EXCEPT !.last.clean = FALSE] ELSE x
  BY DEF Fault
<1>2. faults' \in 0..Faults
  BY <1>1, BoundsAssumption DEF IInv
<1>3. Sound(m')
  BY <1>1, FaultSound
<1> QED BY <1>2, <1>3 DEF IInv

\* open() or close() is called.
LEMMA CallMethodStep ==
    ASSUME IInv, CallMethod
    PROVE  IInv'
<1>1. Sound(m) /\ m.op.st = "call" /\ Busy(m)
  BY DEF IInv, CallMethod, Busy
<1>2. PICK n : n = m.op.at
  OBVIOUS
<1>3. PICK k \in Kinds : k = m.op.kind
  BY <1>1, CallPlace
<1>4. PICK ad \in Adapter : ad = m.ad[n][k]
  BY <1>1, <1>2, <1>3, CallPlace
<1>5. PICK opens \in BOOLEAN : opens = (m.op.pc \in Opening)
  <2>1. (m.op.pc \in Opening) \in BOOLEAN
    OBVIOUS
  <2> QED BY <2>1, Zenon
<1>6. Whole(k, ad) /\ ad.own # "binding"
  <2>1. Owned(m, n)
    BY <1>1, <1>2, CallPlace DEF Sound
  <2> QED BY <1>1, <1>4, <2>1 DEF Owned
<1>7. PICK ok, make \in BOOLEAN :
        LET n1 == m.op.at
            k1 == m.op.kind
            opens1 == m.op.pc \in Opening
            ad1 == m.ad[n1][k1]
            r == IF k1 = "server" THEN IF opens1 THEN ServerOpen(ad1) ELSE ServerClose(ad1)
                 ELSE IF opens1 THEN ClientOpen(ad1, ok) ELSE ClientClose(ad1)
            x == [m EXCEPT !.ad[n1][k1] = r.ad]
            tries == opens1 /\ k1 = "client" /\ ~ad1.enabled /\ ad1.cfg.on
        IN  /\ ok \/ tries
            /\ make \/ Creates(m.op.pc, r.got = "ok")
            /\ Fault(IF r.got = "wait" THEN [x EXCEPT !.op.st = "wait"]
                     ELSE Continue(x, r.got = "ok", make),
                     ~ok \/ ~make)
  BY Zenon DEF CallMethod
<1>8. PICK r : r = Method(m.op.kind, m.op.pc \in Opening, m.ad[m.op.at][m.op.kind], ok)
  OBVIOUS
<1>9. Called(k, opens, ad, r)
  BY <1>2, <1>3, <1>4, <1>5, <1>6, <1>8, MethodCalled
<1>10. PICK y : y = [m EXCEPT !.ad[m.op.at][m.op.kind] = r.ad]
  OBVIOUS
<1>11. /\ Base(y) /\ Frame(m, y)
       /\ r.got = "wait" => Goes(y, [y EXCEPT !.op.st = "wait"])
       /\ r.got # "wait" => Settles(y, r.got = "ok")
  BY <1>1, <1>2, <1>3, <1>4, <1>5, <1>9, <1>10, CalledGoes
<1>12. PICK failed \in BOOLEAN :
         Fault(IF r.got = "wait" THEN [y EXCEPT !.op.st = "wait"] ELSE Continue(y, r.got = "ok", make), failed)
  <2>1. Fault(IF r.got = "wait" THEN [y EXCEPT !.op.st = "wait"] ELSE Continue(y, r.got = "ok", make),
              ~ok \/ ~make)
    BY <1>7, <1>8, <1>10 DEF Method
  <2>2. PICK failed \in BOOLEAN : failed = (~ok \/ ~make)
    <3>1. (~ok \/ ~make) \in BOOLEAN
      OBVIOUS
    <3> QED BY <3>1, Zenon
  <2> QED BY <2>1, <2>2
<1>13. CASE r.got = "wait"
  <2>1. PICK z : z = [y EXCEPT !.op.st = "wait"]
    OBVIOUS
  <2>2. Base(z) /\ Here(z)
    BY <1>11, <1>13, <2>1, BaseFrame DEF Goes
  <2>3. Sound(z)
    BY <2>2, SoundHere
  <2> QED BY <1>12, <1>13, <2>1, <2>3, FaultStep
<1>14. CASE r.got # "wait"
  <2>1. PICK good \in BOOLEAN : good = (r.got = "ok")
    <3>1. (r.got = "ok") \in BOOLEAN
      OBVIOUS
    <3> QED BY <3>1, Zenon
  <2>2. PICK z : z = Continue(y, good, make)
    OBVIOUS
  <2>3. Sound(z)
    BY <1>11, <1>14, <2>1, <2>2, ContinueGoes
  <2> QED BY <1>12, <1>14, <2>1, <2>2, <2>3, FaultStep
<1> QED BY <1>13, <1>14

\* A call settles.
LEMMA CallSettlesStep ==
    ASSUME IInv, CallSettles
    PROVE  IInv'
<1>1. Sound(m) /\ m.op.st = "wait"
  BY DEF IInv, CallSettles
<1>2. PICK ok, make, listening \in BOOLEAN :
        LET n == m.op.at
            k == m.op.kind
            ad == m.ad[n][k]
            opens == m.op.pc \in Opening
            dropped == opens /\ ad.own # "binding"
            taken == opens /\ Taken(n, k)
            x == [m EXCEPT !.ad[n][k] =
                    IF k = "client" THEN ad
                    ELSE IF opens THEN OpenSettles(ad, ok)
                    ELSE ServerCloseSettles(ad, ok, listening)]
            good == ok \/ (~opens /\ ad.forced)
        IN  /\ dropped \/ taken => ~ok
            /\ ok => listening
            /\ ~ok => k = "server"
            /\ make \/ Creates(m.op.pc, good)
            /\ Fault(Continue([x EXCEPT !.op.st = "run"], good, make),
                     ~make \/ ~(ok \/ dropped \/ taken))
  BY Zenon DEF CallSettles
<1>3. PICK good \in BOOLEAN : good = (ok \/ (m.op.pc \notin Opening /\ m.ad[m.op.at][m.op.kind].forced))
  <2>1. (ok \/ (m.op.pc \notin Opening /\ m.ad[m.op.at][m.op.kind].forced)) \in BOOLEAN
    OBVIOUS
  <2> QED BY <2>1, Zenon
<1>4. PICK z : z = [[m EXCEPT !.ad[m.op.at][m.op.kind] =
                        Settled(m.op.kind, m.op.pc \in Opening, m.ad[m.op.at][m.op.kind], ok, listening)]
                    EXCEPT !.op.st = "run"]
  OBVIOUS
<1>5. Settles(z, good)
  BY <1>1, <1>3, <1>4, SettledGoes, ZenonT(40)
<1>6. PICK w : w = Continue(z, good, make)
  OBVIOUS
<1>7. Sound(w)
  BY <1>5, <1>6, ContinueGoes
<1>8. PICK failed \in BOOLEAN : Fault(w, failed)
  <2> DEFINE f == ~make \/ ~(ok \/ (m.op.pc \in Opening /\ m.ad[m.op.at][m.op.kind].own # "binding")
                                \/ (m.op.pc \in Opening /\ Taken(m.op.at, m.op.kind)))
  <2>1. Fault(w, f)
    BY <1>2, <1>3, <1>4, <1>6 DEF Settled
  <2>2. f \in BOOLEAN
    OBVIOUS
  <2> QED BY <2>1, <2>2
<1> QED BY <1>7, <1>8, FaultStep

\* The operation turns to the name n.
Turned(x, n) == [x EXCEPT !.op.at = n, !.op.todo = x.op.todo \ {n}]

\* It leaves all else as it is.
LEMMA TurnsTo ==
    ASSUME NEW x, Sound(x), x.op.what # "idle", x.op.st = "run", NEW n \in x.op.todo,
           NEW y, y = Turned(x, n)
    PROVE  /\ Base(y) /\ y.op.at = n /\ y.op.todo = x.op.todo \ {n} /\ y.op.what = x.op.what
           /\ y.op.plan = x.op.plan /\ y.op.errs = x.op.errs /\ y.map = x.map /\ y.ad = x.ad
           /\ y.last = x.last /\ y.accepting = x.accepting
           /\ Tidy(y, n, y.map[n])
<1> DEFINE o == [x.op EXCEPT !.at = n, !.todo = x.op.todo \ {n}]
           z == [x EXCEPT !.op = o]
<1>1. x \in Manager /\ x.op \in Operation /\ n \in Names
  BY DEF Sound, Manager, Operation
<1>2. /\ o \in Operation /\ o.at = n /\ o.todo = x.op.todo \ {n} /\ o.what = x.op.what
      /\ o.plan = x.op.plan /\ o.errs = x.op.errs
  BY <1>1 DEF Operation
<1>3. y = z
  BY <1>1 DEF Manager, Turned
<1> HIDE DEF o
<1>4. /\ z \in Manager /\ z.op = o /\ z.map = x.map /\ z.ad = x.ad /\ z.queue = x.queue
      /\ z.accepting = x.accepting /\ z.shut = x.shut /\ z.last = x.last
  BY <1>1, <1>2 DEF Manager
<1> HIDE DEF z
<1>5. Queueing(z)
  BY <1>2, <1>4 DEF Sound, Queueing
<1>6. \A i \in Names : Tidy(z, i, z.map[i])
  <2> SUFFICES ASSUME NEW i \in Names PROVE Tidy(z, i, z.map[i])
    OBVIOUS
  <2>1. Owned(x, i) /\ ~At(x, i)
    BY DEF Sound, At, Busy
  <2>2. Tidy(x, i, x.map[i])
    BY <2>1, OwnedTidy
  <2> QED BY <1>4, <2>2 DEF Tidy
<1>7. /\ x.op.what = "shutdown" =>
            /\ x.op.plan = <<>>
            /\ \A i \in Names : x.map[i] = Absent \/ i \in x.op.todo \/ i \in x.op.errs
      /\ \A i \in x.op.todo \ DOMAIN x.op.plan : x.map[i] # Absent
  BY DEF Sound, Operating, Shutting, At, Busy
<1>8. Base(z)
  BY <1>1, <1>2, <1>4, <1>5, <1>6, <1>7 DEF Base
<1> QED BY <1>1, <1>2, <1>3, <1>4, <1>6, <1>8

\* The next name.
LEMMA NextNameStep ==
    ASSUME IInv, NextName
    PROVE  IInv'
<1>1. Sound(m) /\ m.op.what # "idle" /\ m.op.st = "run" /\ m \in Manager
  BY DEF IInv, NextName, Idle, Sound
<1>2. PICK n \in m.op.todo, ok \in BOOLEAN :
        LET leaving == m.op.todo \ DOMAIN m.op.plan
            x == [m EXCEPT !.op.at = n, !.op.todo = m.op.todo \ {n}]
        IN  /\ IF leaving # {} THEN n \in leaving ELSE n = Min(m.op.todo)
            /\ Fault(IF leaving = {} THEN Apply(x, m.op.plan[n], ok)
                     ELSE Call(x, IF m.op.what = "shutdown" THEN "shut" ELSE "retire", m.map[n]),
                     ~ok)
  BY DEF NextName
<1>3. PICK leaving : leaving = m.op.todo \ DOMAIN m.op.plan
  OBVIOUS
<1>4. PICK x : x = Turned(m, n)
  OBVIOUS
<1>5. /\ Base(x) /\ x.op.at = n /\ x.op.todo = m.op.todo \ {n} /\ x.op.what = m.op.what
      /\ x.op.plan = m.op.plan /\ x.map = m.map /\ Tidy(x, n, x.map[n])
  BY <1>1, <1>4, TurnsTo
<1>6. PICK failed \in BOOLEAN : failed = ~ok
  OBVIOUS
<1>7. /\ IF leaving # {} THEN n \in leaving ELSE n = Min(m.op.todo)
      /\ Fault(IF leaving = {} THEN Apply(x, m.op.plan[n], ok)
               ELSE Call(x, IF m.op.what = "shutdown" THEN "shut" ELSE "retire", m.map[n]), failed)
  BY <1>2, <1>3, <1>4, <1>6 DEF Turned
<1>8. CASE leaving = {}
  <2>1. m.op.todo \subseteq DOMAIN m.op.plan /\ n \in DOMAIN m.op.plan
    BY <1>3, <1>8
  <2>2. m.op.plan[n] \in Desired
    BY <1>1, <2>1, PlanDesired
  <2>3. m.op.what # "shutdown"
    BY <1>1, <2>1 DEF Sound, Operating
  <2>4. Planning(x)
    BY <1>5, <2>1, <2>2, <2>3 DEF Planning
  <2>5. PICK y : y = Apply(x, m.op.plan[n], ok)
    OBVIOUS
  <2>6. Goes(x, y)
    BY <1>5, <2>4, <2>5, ApplyGoes
  <2>7. Sound(y)
    BY <1>5, <2>6, BaseFrame, SoundHere DEF Goes
  <2> QED BY <1>7, <1>8, <2>5, <2>7, FaultStep
<1>9. CASE leaving # {}
  <2>1. n \in m.op.todo \ DOMAIN m.op.plan
    BY <1>3, <1>7, <1>9
  <2>2. PICK k \in Kinds : k = m.map[n]
    <3>1. m.map[n] # Absent
      BY <1>1, <2>1 DEF Sound, Operating
    <3>2. n \in Names
      BY <1>1, <2>1 DEF Manager, Operation
    <3> QED BY <1>1, <3>1, <3>2 DEF Manager
  <2>3. PICK pc : pc = IF m.op.what = "shutdown" THEN "shut" ELSE "retire"
    OBVIOUS
  <2>4. PICK y : y = Call(x, pc, k)
    OBVIOUS
  <2>5. pc \in Opening \cup Closing /\ pc \notin Reloading
    BY <2>3 DEF Closing, Reloading
  <2>6. Goes(x, y)
    BY <1>5, <2>1, <2>2, <2>3, <2>4, <2>5, CallHere
  <2>7. Sound(y)
    BY <1>5, <2>6, BaseFrame, SoundHere DEF Goes
  <2> QED BY <1>7, <1>9, <2>2, <2>3, <2>4, <2>7, FaultStep
<1> QED BY <1>8, <1>9

\* No operation runs.
LEMMA NoOpFields ==
    /\ NoOp \in Operation /\ NoOp.what = "idle" /\ NoOp.plan = <<>> /\ NoOp.todo = {} /\ NoOp.at = 0
    /\ NoOp.kind = "server" /\ NoOp.pc = "next" /\ NoOp.st = "run" /\ NoOp.errs = {}
BY DEF NoOp, Operation, AllPlans, Kinds

\* An operation begins or ends: nothing is called.
LEMMA QuietSound ==
    ASSUME NEW x, Sound(x), x.op.st = "run",
           NEW y \in Manager, y.map = x.map, y.ad = x.ad, y.op.st = "run", y.op.pc = "next",
           y.op.what = "idle" => y.op = NoOp,
           y.op.what = "shutdown" => y.op.plan = <<>>,
           \A n \in y.op.todo \ DOMAIN y.op.plan : y.map[n] # Absent,
           Queueing(y), Shutting(y)
    PROVE  Sound(y)
<1>1. \A n \in Names : Owned(y, n)
  BY DEF Sound, Owned, At, Busy
<1>2. Operating(y)
  BY DEF Operating, Busy
<1> QED BY <1>1, <1>2 DEF Sound

\* The queue of a manager that only waits.
LEMMA QueueSound ==
    ASSUME NEW x, Sound(x), NEW y \in Manager, y.map = x.map, y.ad = x.ad, y.op = x.op,
           Queueing(y), Shutting(y)
    PROVE  Sound(y)
<1>1. \A n \in Names : Owned(y, n)
  BY DEF Sound, Owned, At, Busy
<1>2. Operating(y)
  BY DEF Sound, Operating, Busy, Calling, Awaiting
<1> QED BY <1>1, <1>2 DEF Sound

\* reconcile.
LEMMA ReconcileStep ==
    ASSUME IInv, NEW p \in Plans, Reconcile(p)
    PROVE  IInv'
<1> DEFINE e == [what |-> "reconcile", plan |-> p]
<1>1. Sound(m) /\ m \in Manager /\ m.queue \in Seq(Queued) /\ faults' \in 0..Faults
  BY DEF IInv, Sound, Manager, Reconcile
<1>2. e \in Queued /\ e.what = "reconcile"
  BY DEF Queued, AllPlans
<1>3. /\ m.accepting /\ Len(m.queue) < MaxQueue
      /\ m' = [m EXCEPT !.queue = Append(m.queue, e)]
  BY DEF Reconcile
<1> HIDE DEF e
<1>4. PICK q \in Seq(Queued) : q = Append(m.queue, e)
  BY <1>1, <1>2, AppendProperties
<1>5. PICK y : y = m'
  OBVIOUS
<1>6. /\ y \in Manager /\ y.map = m.map /\ y.ad = m.ad /\ y.op = m.op /\ y.queue = q
      /\ y.shut = m.shut /\ y.accepting = m.accepting
  BY <1>1, <1>3, <1>4, <1>5 DEF Manager
<1>7. m.shut = "none" /\ m.op.what # "shutdown" /\ \A i \in DOMAIN m.queue : m.queue[i].what # "shutdown"
  BY <1>1, <1>3 DEF Sound, Queueing
<1>8. /\ Len(q) = Len(m.queue) + 1
      /\ \A i \in DOMAIN q : q[i] = IF i = Len(q) THEN e ELSE m.queue[i]
      /\ \A i \in DOMAIN q : i # Len(q) => i \in DOMAIN m.queue
  BY <1>1, <1>2, <1>4
<1>9. Queueing(y)
  <2>1. \A i \in DOMAIN q : q[i].what # "shutdown"
    BY <1>2, <1>7, <1>8
  <2>2. Len(m.queue) \in Nat
    BY <1>1
  <2> QED BY <1>3, <1>6, <1>7, <1>8, <2>1, <2>2, BoundsAssumption DEF Queueing
<1>10. Shutting(y)
  BY <1>1, <1>6, <1>7 DEF Sound, Shutting, At, Busy
<1>11. Sound(y)
  BY <1>1, <1>6, <1>9, <1>10, QueueSound
<1> QED BY <1>1, <1>5, <1>11 DEF IInv

\* shutdown.
LEMMA ShutdownStep ==
    ASSUME IInv, Shutdown
    PROVE  IInv'
<1> DEFINE e == [what |-> "shutdown", plan |-> <<>>]
<1>1. Sound(m) /\ m \in Manager /\ m.queue \in Seq(Queued) /\ faults' \in 0..Faults
  BY DEF IInv, Sound, Manager, Shutdown
<1>2. e \in Queued /\ e.plan = <<>>
  BY DEF Queued, AllPlans
<1>3. /\ m.shut \in {"none", "failed"}
      /\ m' = [m EXCEPT !.accepting = FALSE, !.shut = "pending", !.queue = Append(m.queue, e)]
  BY DEF Shutdown
<1> HIDE DEF e
<1>4. PICK q \in Seq(Queued) : q = Append(m.queue, e)
  BY <1>1, <1>2, AppendProperties
<1>5. PICK y : y = m'
  OBVIOUS
<1>6. /\ y \in Manager /\ y.map = m.map /\ y.ad = m.ad /\ y.op = m.op /\ y.queue = q
      /\ y.shut = "pending" /\ y.accepting = FALSE
  BY <1>1, <1>3, <1>4, <1>5 DEF Manager
<1>7. m.op.what # "shutdown" /\ (\A i \in DOMAIN m.queue : m.queue[i].what # "shutdown") /\ Len(m.queue) <= MaxQueue
  <2>1. Len(m.queue) \in Nat
    BY <1>1
  <2> QED BY <1>1, <1>3, <2>1, BoundsAssumption DEF Sound, Queueing
<1>8. /\ Len(q) = Len(m.queue) + 1
      /\ \A i \in DOMAIN q : q[i] = IF i = Len(q) THEN e ELSE m.queue[i]
      /\ \A i \in DOMAIN q : i # Len(q) => i \in DOMAIN m.queue
  BY <1>1, <1>2, <1>4
<1>9. Queueing(y)
  <2>1. \A i \in DOMAIN q : q[i].what = "shutdown" => i = Len(q) /\ q[i].plan = <<>>
    BY <1>2, <1>7, <1>8
  <2>2. Len(m.queue) \in Nat
    BY <1>1
  <2> QED BY <1>6, <1>7, <1>8, <2>1, <2>2, BoundsAssumption DEF Queueing
<1>10. Shutting(y)
  BY <1>6, <1>7 DEF Shutting
<1>11. Sound(y)
  BY <1>1, <1>6, <1>9, <1>10, QueueSound
<1> QED BY <1>1, <1>5, <1>11 DEF IInv

\* The head of the FIFO starts.
LEMMA BeginStep ==
    ASSUME IInv, Begin
    PROVE  IInv'
<1>1. Sound(m) /\ m \in Manager /\ m.queue \in Seq(Queued) /\ faults' \in 0..Faults
  BY DEF IInv, Sound, Manager, Begin
<1>2. m.op = NoOp /\ m.op.st = "run" /\ m.queue # <<>>
  BY <1>1, NoOpFields DEF Begin, Due, Idle, Sound, Operating
<1>3. PICK h \in Queued : h = Head(m.queue)
  BY <1>1, <1>2
<1>4. PICK q \in Seq(Queued) : q = Tail(m.queue)
  BY <1>1, <1>2, HeadTailProperties
<1>5. PICK w \in {"reconcile", "shutdown"} : w = h.what
  BY DEF Queued
<1>6. PICK p \in AllPlans : p = h.plan
  BY DEF Queued
<1>7. DOMAIN p \subseteq Names
  BY PlansAssumption DEF AllPlans
<1>8. PICK t \in SUBSET Names : t = {n \in Names : m.map[n] # Absent} \cup DOMAIN p
  BY <1>7
<1> DEFINE o == [NoOp EXCEPT !.what = w, !.plan = p, !.todo = t]
           l == [m.last EXCEPT !.clean = TRUE]
<1>9. /\ o \in Operation /\ o.what = w /\ o.plan = p /\ o.todo = t /\ o.pc = "next" /\ o.st = "run"
  BY NoOpFields DEF Operation
<1>10. l \in Last
  BY <1>1 DEF Manager, Last
<1>11. PICK y : y = m'
  OBVIOUS
<1>12. y = [m EXCEPT !.queue = q, !.op = o, !.last = l]
  BY <1>1, <1>3, <1>4, <1>5, <1>6, <1>8, <1>11 DEF Begin, Manager
<1> HIDE DEF o, l
<1>13. /\ y \in Manager /\ y.map = m.map /\ y.ad = m.ad /\ y.op = o /\ y.queue = q
       /\ y.shut = m.shut /\ y.accepting = m.accepting
  BY <1>1, <1>9, <1>10, <1>12 DEF Manager
<1>14. /\ Len(q) = Len(m.queue) - 1 /\ Len(m.queue) \in Nat /\ h = m.queue[1]
       /\ \A i \in DOMAIN q : q[i] = m.queue[i + 1] /\ i + 1 \in DOMAIN m.queue
       /\ 1 \in DOMAIN m.queue /\ DOMAIN q = 1..Len(q)
  BY <1>1, <1>2, <1>3, <1>4
<1>15. Queueing(m)
  BY <1>1 DEF Sound
<1>16. w = "shutdown" => q = <<>> /\ m.shut = "pending" /\ p = <<>>
  <2> SUFFICES ASSUME w = "shutdown" PROVE q = <<>> /\ m.shut = "pending" /\ p = <<>>
    OBVIOUS
  <2>1. 1 = Len(m.queue) /\ m.shut = "pending" /\ p = <<>>
    BY <1>5, <1>6, <1>14, <1>15 DEF Queueing
  <2>2. Len(q) = 0
    BY <1>14, <2>1
  <2> QED BY <2>1, <2>2
<1>17. Queueing(y)
  <2>1. Len(q) <= MaxQueue + IF m.shut = "pending" THEN 1 ELSE 0
    BY <1>14, <1>15, BoundsAssumption DEF Queueing
  <2>2. \A i \in DOMAIN q : q[i].what = "shutdown" => i = Len(q) /\ m.shut = "pending" /\ q[i].plan = <<>>
    BY <1>14, <1>15 DEF Queueing
  <2>3. (m.shut # "none" => ~m.accepting) /\ m.shut \notin {"failed", "closed"}
    BY <1>2, <1>15 DEF Queueing
  <2> QED BY <1>9, <1>13, <1>16, <2>1, <2>2, <2>3 DEF Queueing
<1>18. Shutting(y)
  <2>1. \A n \in Names : m.map[n] = Absent \/ n \in t
    BY <1>8
  <2>2. m.shut # "closed"
    BY <1>2, <1>15 DEF Queueing
  <2> QED BY <1>9, <1>13, <2>1, <2>2 DEF Shutting
<1>19. /\ y.op.st = "run" /\ y.op.pc = "next" /\ y.op.what # "idle"
       /\ y.op.what = "shutdown" => y.op.plan = <<>>
       /\ \A n \in y.op.todo \ DOMAIN y.op.plan : y.map[n] # Absent
  BY <1>8, <1>9, <1>13, <1>16
<1>20. Sound(y)
  BY <1>1, <1>2, <1>13, <1>17, <1>18, <1>19, QuietSound
<1> QED BY <1>1, <1>11, <1>20 DEF IInv

\* The operation returns its result.
LEMMA EndStep ==
    ASSUME IInv, End
    PROVE  IInv'
<1>1. Sound(m) /\ m \in Manager /\ faults' \in 0..Faults
  BY DEF IInv, Sound, End
<1>2. m.op.what # "idle" /\ m.op.st = "run" /\ m.op.todo = {} /\ ~Busy(m)
  BY DEF End, Idle, Busy
<1>3. m.op.what \in {"reconcile", "shutdown"} /\ m.op.plan \in AllPlans /\ m.op.errs \subseteq Names
  BY <1>1, <1>2 DEF Manager, Operation
<1>4. Queueing(m) /\ Shutting(m)
  BY <1>1 DEF Sound
<1>5. PICK y : y = m'
  OBVIOUS
<1>6. CASE m.op.what = "reconcile"
  <2> DEFINE l == [m.last EXCEPT !.plan = m.op.plan, !.errs = m.op.errs]
  <2>1. l \in Last
    BY <1>1, <1>3 DEF Manager, Last
  <2>2. y = [m EXCEPT !.op = NoOp, !.last = l]
    BY <1>1, <1>5, <1>6 DEF End, Manager
  <2> HIDE DEF l
  <2>3. /\ y \in Manager /\ y.map = m.map /\ y.ad = m.ad /\ y.op = NoOp /\ y.queue = m.queue
        /\ y.shut = m.shut /\ y.accepting = m.accepting
    BY <1>1, <2>1, <2>2, NoOpFields DEF Manager
  <2>4. Queueing(y) /\ Shutting(y)
    BY <1>2, <1>4, <2>3, NoOpFields DEF Queueing, Shutting
  <2>5. Sound(y)
    BY <1>1, <1>2, <2>3, <2>4, NoOpFields, QuietSound
  <2> QED BY <1>1, <1>5, <2>5 DEF IInv
<1>7. CASE m.op.what = "shutdown"
  <2>1. PICK s \in {"closed", "failed"} : s = IF m.op.errs = {} THEN "closed" ELSE "failed"
    OBVIOUS
  <2>2. y = [m EXCEPT !.op = NoOp, !.shut = s]
    BY <1>5, <1>7, <2>1 DEF End
  <2>3. /\ y \in Manager /\ y.map = m.map /\ y.ad = m.ad /\ y.op = NoOp /\ y.queue = m.queue
        /\ y.shut = s /\ y.accepting = m.accepting
    BY <1>1, <2>1, <2>2, NoOpFields DEF Manager
  <2>4. m.queue = <<>> /\ m.shut = "pending" /\ ~m.accepting
    BY <1>4, <1>7 DEF Queueing
  <2>5. Queueing(y)
    BY <2>3, <2>4, NoOpFields, BoundsAssumption DEF Queueing
  <2>6. Shutting(y)
    BY <1>2, <1>4, <1>7, <2>1, <2>3, NoOpFields DEF Shutting, At
  <2>7. Sound(y)
    BY <1>1, <1>2, <2>3, <2>5, <2>6, NoOpFields, QuietSound
  <2> QED BY <1>1, <1>5, <2>7 DEF IInv
<1> QED BY <1>3, <1>6, <1>7

\* The adapter of kind k of one name becomes a.
LEMMA AdapterEases ==
    ASSUME NEW x, Sound(x), NEW n \in Names, NEW k \in Kinds, NEW a, Weakens(k, x.ad[n][k], a),
           NEW y, y = [x EXCEPT !.ad[n][k] = a]
    PROVE  Sound(y)
<1> DEFINE f == [x.ad EXCEPT ![n] = [x.ad[n] EXCEPT ![k] = a]]
<1>1. x \in Manager /\ x.ad \in [Names -> [Kinds -> Adapter]] /\ a \in Adapter
  BY DEF Sound, Manager, Weakens
<1>2. /\ f \in [Names -> [Kinds -> Adapter]]
      /\ \A i \in Names, j \in Kinds : f[i][j] = IF i = n /\ j = k THEN a ELSE x.ad[i][j]
  BY <1>1
<1>3. y = [x EXCEPT !.ad = f]
  BY <1>1 DEF Manager
<1> HIDE DEF f
<1>4. /\ y \in Manager /\ y.map = x.map /\ y.op = x.op /\ y.queue = x.queue /\ y.shut = x.shut
      /\ y.accepting = x.accepting /\ y.ad = f
  BY <1>1, <1>2, <1>3 DEF Manager
<1>5. \A i \in Names, j \in Kinds : Weakens(j, x.ad[i][j], y.ad[i][j])
  BY <1>2, <1>4, WeakensSelf
<1>6. Eases(x, y)
  BY <1>4, <1>5 DEF Eases
<1> QED BY <1>6, EasesSound

\* The server reports an error.
LEMMA ServerFailsStep ==
    ASSUME IInv, NEW n \in Names, ServerFails(n)
    PROVE  IInv'
<1> DEFINE b == m.ad[n]["server"]
           a == [b EXCEPT !.enabled = FALSE, !.failure = TRUE]
<1>1. Sound(m) /\ m \in Manager /\ "server" \in Kinds
  BY DEF IInv, Sound, Kinds
<1>2. b \in Adapter /\ Whole("server", b) /\ b.own = "held"
  BY <1>1, WeakensSelf DEF Weakens, ServerFails
<1>3. PICK y : y = [m EXCEPT !.ad[n]["server"].enabled = FALSE, !.ad[n]["server"].failure = TRUE]
  OBVIOUS
<1>4. y = [m EXCEPT !.ad[n]["server"] = a]
  BY <1>1, <1>3, ZenonT(40) DEF Manager, Adapter
<1>5. Fault(y, TRUE)
  BY <1>3 DEF ServerFails
<1> HIDE DEF b
<1>6. /\ a \in Adapter /\ a.own = b.own /\ a.enabled = FALSE /\ a.timer = b.timer
      /\ a.stray = b.stray /\ a.stale = b.stale /\ a.forced = b.forced
  BY <1>2 DEF Adapter
<1> HIDE DEF a
<1>7. Whole("server", a)
  BY <1>2, <1>6 DEF Whole
<1>8. Weakens("server", b, a)
  BY <1>2, <1>6, <1>7 DEF Weakens, Holds
<1>9. Sound(y)
  BY <1>1, <1>4, <1>8, AdapterEases DEF b
<1> QED BY <1>5, <1>9, FaultStep

\* The client's connection is lost.
LEMMA ClientClosesStep ==
    ASSUME IInv, NEW n \in Names, ClientCloses(n)
    PROVE  IInv'
<1> DEFINE b == m.ad[n]["client"]
<1>1. Sound(m) /\ m \in Manager /\ "client" \in Kinds /\ faults' \in 0..Faults
  BY DEF IInv, Sound, Kinds, ClientCloses
<1>2. b \in Adapter /\ Whole("client", b) /\ b.own = "held"
  BY <1>1, WeakensSelf DEF Weakens, ClientCloses
<1>3. PICK t \in BOOLEAN : t = (b.timer \/ b.enabled)
  <2>1. (b.timer \/ b.enabled) \in BOOLEAN
    OBVIOUS
  <2> QED BY <2>1, Zenon
<1> DEFINE a == [b EXCEPT !.own = "none", !.timer = t]
<1>4. m' = [m EXCEPT !.ad[n]["client"] = a]
  BY <1>1, <1>3, ZenonT(40) DEF Manager, Adapter, ClientCloses
<1> HIDE DEF b
<1>5. /\ a \in Adapter /\ a.own = "none" /\ a.enabled = b.enabled /\ a.timer = t
      /\ a.stray = b.stray /\ a.stale = b.stale /\ a.forced = b.forced
  BY <1>2 DEF Adapter
<1> HIDE DEF a
<1>6. Holds(b) /\ b.enabled /\ ~b.timer
  BY <1>2 DEF Whole, Holds
<1>7. Whole("client", a)
  BY <1>2, <1>3, <1>5, <1>6 DEF Whole
<1>8. Weakens("client", b, a)
  BY <1>5, <1>6, <1>7 DEF Weakens
<1>9. Sound(m')
  BY <1>1, <1>4, <1>8, AdapterEases DEF b
<1> QED BY <1>1, <1>9 DEF IInv

\* The close event of a socket that was let go.
LEMMA StaleSocketClosesStep ==
    ASSUME IInv, NEW n \in Names, StaleSocketCloses(n)
    PROVE  IInv'
<1> DEFINE b == m.ad[n]["client"]
           a == [b EXCEPT !.stale = FALSE]
<1>1. Sound(m) /\ m \in Manager /\ "client" \in Kinds /\ faults' \in 0..Faults
  BY DEF IInv, Sound, Kinds, StaleSocketCloses
<1>2. b \in Adapter /\ Whole("client", b)
  BY <1>1, WeakensSelf DEF Weakens
<1>3. m' = [m EXCEPT !.ad[n]["client"] = a]
  BY <1>1 DEF Manager, Adapter, StaleSocketCloses
<1> HIDE DEF b
<1>4. /\ a \in Adapter /\ a.own = b.own /\ a.enabled = b.enabled /\ a.timer = b.timer
      /\ a.stray = b.stray /\ a.forced = b.forced
  BY <1>2 DEF Adapter
<1> HIDE DEF a
<1>5. Holds(a) <=> Holds(b)
  BY <1>4 DEF Holds
<1>6. Whole("client", a)
  BY <1>2, <1>4, <1>5 DEF Whole
<1>7. Weakens("client", b, a)
  BY <1>4, <1>5, <1>6 DEF Weakens
<1>8. Sound(m')
  BY <1>1, <1>3, <1>7, AdapterEases DEF b
<1> QED BY <1>1, <1>8 DEF IInv

\* The reconnect timer fires.
LEMMA ReconnectStep ==
    ASSUME IInv, NEW n \in Names, Reconnect(n)
    PROVE  IInv'
<1> DEFINE b == m.ad[n]["client"]
<1>1. Sound(m) /\ m \in Manager /\ "client" \in Kinds /\ faults' \in 0..Faults
  BY DEF IInv, Sound, Kinds, Reconnect
<1>2. b \in Adapter /\ Whole("client", b) /\ b.timer
  BY <1>1, WeakensSelf DEF Weakens, Reconnect
<1>3. Holds(b) /\ b.enabled /\ b.own # "held"
  BY <1>2 DEF Whole, Holds
<1> DEFINE a == [b EXCEPT !.timer = FALSE, !.own = "held"]
<1>4. m' = [m EXCEPT !.ad[n]["client"] = a]
  BY <1>1, <1>3, ZenonT(40) DEF Manager, Adapter, Reconnect
<1> HIDE DEF b
<1>5. /\ a \in Adapter /\ a.own = "held" /\ a.enabled = b.enabled /\ a.timer = FALSE
      /\ a.stray = b.stray /\ a.forced = b.forced
  BY <1>2 DEF Adapter
<1> HIDE DEF a
<1>6. Whole("client", a)
  BY <1>2, <1>3, <1>5 DEF Whole
<1>7. Weakens("client", b, a)
  BY <1>3, <1>5, <1>6 DEF Weakens
<1>8. Sound(m')
  BY <1>1, <1>4, <1>7, AdapterEases DEF b
<1> QED BY <1>1, <1>8 DEF IInv

\* An adapter that is closed by force.
LEMMA ForceWeakens ==
    ASSUME NEW ad \in Adapter
    PROVE  /\ Whole("server", ad) => Weakens("server", ad, ServerForceClose(ad))
           /\ Whole("client", ad) => Weakens("client", ad, ClientForceClose(ad))
<1>1. ASSUME Whole("server", ad)
      PROVE  Weakens("server", ad, ServerForceClose(ad))
  <2> DEFINE a == [ad EXCEPT !.enabled = FALSE, !.own = "none", !.forced = TRUE]
  <2>1. /\ a \in Adapter /\ a.own = "none" /\ a.enabled = FALSE /\ a.timer = ad.timer
        /\ a.stray = ad.stray /\ a.stale = ad.stale /\ a.forced = TRUE
    BY DEF Adapter
  <2> HIDE DEF a
  <2>2. Whole("server", a) /\ ~Holds(a)
    BY <1>1, <2>1 DEF Whole, Holds
  <2>3. Weakens("server", ad, a)
    BY <2>1, <2>2 DEF Weakens
  <2> QED BY <2>3 DEF a, ServerForceClose
<1>2. ASSUME Whole("client", ad)
      PROVE  Weakens("client", ad, ClientForceClose(ad))
  <2>1. PICK s \in BOOLEAN : s = (ad.stale \/ ad.own = "held")
    <3>1. (ad.stale \/ ad.own = "held") \in BOOLEAN
      OBVIOUS
    <3> QED BY <3>1, Zenon
  <2> DEFINE a == [ad EXCEPT !.enabled = FALSE, !.own = "none", !.timer = FALSE, !.stale = s]
  <2>2. ClientForceClose(ad) = a
    BY <2>1 DEF ClientForceClose
  <2>3. /\ a \in Adapter /\ a.own = "none" /\ a.enabled = FALSE /\ a.timer = FALSE
        /\ a.stray = ad.stray /\ a.forced = ad.forced
    BY DEF Adapter
  <2> HIDE DEF a
  <2>4. Whole("client", a) /\ ~Holds(a)
    BY <1>2, <2>3 DEF Whole, Holds
  <2>5. Weakens("client", ad, a)
    BY <2>3, <2>4 DEF Weakens
  <2> QED BY <2>2, <2>5
<1> QED BY <1>1, <1>2

\* forceRelease.
LEMMA ForceReleaseStep ==
    ASSUME IInv, ForceRelease
    PROVE  IInv'
<1>1. Sound(m) /\ m \in Manager /\ faults' \in 0..Faults
  BY DEF IInv, Sound, ForceRelease
<1> DEFINE f == [n \in Names |-> [k \in Kinds |->
                    IF m.map[n] # k THEN m.ad[n][k]
                    ELSE IF k = "server" THEN ServerForceClose(m.ad[n][k])
                    ELSE ClientForceClose(m.ad[n][k])]]
<1>2. m' = [m EXCEPT !.accepting = FALSE, !.ad = f]
  BY <1>1 DEF ForceRelease, Manager
<1>3. \A n \in Names, k \in Kinds : Weakens(k, m.ad[n][k], f[n][k])
  <2> SUFFICES ASSUME NEW n \in Names, NEW k \in Kinds
               PROVE  Weakens(k, m.ad[n][k], f[n][k])
    OBVIOUS
  <2>1. PICK b : b = m.ad[n][k]
    OBVIOUS
  <2>2. Weakens(k, b, b)
    BY <1>1, <2>1, WeakensSelf
  <2>3. b \in Adapter /\ Whole(k, b)
    BY <2>2 DEF Weakens
  <2>4. f[n][k] = IF m.map[n] # k THEN b ELSE IF k = "server" THEN ServerForceClose(b) ELSE ClientForceClose(b)
    BY <2>1
  <2>5. k = "server" \/ k = "client"
    BY DEF Kinds
  <2> HIDE DEF f
  <2> QED BY <2>1, <2>2, <2>3, <2>4, <2>5, ForceWeakens
<1>4. f \in [Names -> [Kinds -> Adapter]]
  BY <1>3 DEF Weakens
<1> HIDE DEF f
<1>5. /\ m' \in Manager /\ (m').map = m.map /\ (m').op = m.op /\ (m').queue = m.queue /\ (m').shut = m.shut
      /\ (m').accepting = FALSE /\ (m').ad = f
  BY <1>1, <1>2, <1>4 DEF Manager
<1>6. PICK y : y = m'
  OBVIOUS
<1>7. Eases(m, y)
  BY <1>3, <1>5, <1>6 DEF Eases
<1>8. Sound(y)
  BY <1>1, <1>7, EasesSound
<1> QED BY <1>1, <1>6, <1>8 DEF IInv

\* A dispatch begins, or all have ended.
LEMMA EmitStep ==
    ASSUME IInv, Emit \/ EmitSettles
    PROVE  IInv'
<1>1. Sound(m) /\ m \in Manager /\ faults' \in 0..Faults
  BY DEF IInv, Sound, Emit, EmitSettles
<1>2. PICK e \in BOOLEAN : m' = [m EXCEPT !.emits = e]
  BY DEF Emit, EmitSettles
<1>3. PICK y : y = m'
  OBVIOUS
<1>4. /\ y \in Manager /\ y.map = m.map /\ y.op = m.op /\ y.queue = m.queue /\ y.shut = m.shut
      /\ y.accepting = m.accepting /\ y.ad = m.ad
  BY <1>1, <1>2, <1>3 DEF Manager
<1>5. Eases(m, y)
  BY <1>1, <1>4, WeakensSelf DEF Eases
<1>6. Sound(y)
  BY <1>1, <1>5, EasesSound
<1> QED BY <1>1, <1>3, <1>6 DEF IInv

\* The manager that has just been made.
LEMMA InitIInv ==
    ASSUME Init
    PROVE  IInv
<1>1. PICK c \in Config : c = [port |-> CHOOSE p \in Ports : TRUE, on |-> FALSE]
  <2>1. (CHOOSE p \in Ports : TRUE) \in Ports
    BY PortsAssumption
  <2> QED BY <2>1 DEF Config
<1>2. PICK a : a = NewAdapter(c)
  OBVIOUS
<1>3. /\ a \in Adapter /\ ~a.enabled /\ a.own = "none" /\ ~a.forced /\ ~a.timer /\ ~a.stray /\ ~a.stale
  BY <1>2 DEF NewAdapter, Adapter
<1>4. /\ m.map = [n \in Names |-> Absent] /\ m.ad = [n \in Names |-> [k \in Kinds |-> a]]
      /\ m.op = NoOp /\ m.queue = <<>> /\ m.accepting = TRUE /\ m.shut = "none"
      /\ m \in Manager
  <2>1. m = [map |-> [n \in Names |-> Absent], ad |-> [n \in Names |-> [k \in Kinds |-> a]],
             op |-> NoOp, queue |-> <<>>, accepting |-> TRUE, emits |-> FALSE, shut |-> "none",
             last |-> [plan |-> <<>>, errs |-> {}, clean |-> FALSE]]
    BY <1>1, <1>2 DEF Init
  <2>2. [n \in Names |-> Absent] \in [Names -> Kinds \cup {Absent}]
    OBVIOUS
  <2>3. [n \in Names |-> [k \in Kinds |-> a]] \in [Names -> [Kinds -> Adapter]]
    BY <1>3
  <2>4. [plan |-> <<>>, errs |-> {}, clean |-> FALSE] \in Last
    BY DEF Last, AllPlans
  <2>5. <<>> \in Seq(Queued)
    OBVIOUS
  <2> QED BY <2>1, <2>2, <2>3, <2>4, <2>5, NoOpFields DEF Manager
<1>5. \A n \in Names : Owned(m, n)
  <2>1. Whole("server", a) /\ Whole("client", a) /\ ~Holds(a)
    BY <1>3 DEF Whole, Holds
  <2> QED BY <1>3, <1>4, <2>1 DEF Owned, Kinds
<1>6. Operating(m)
  BY <1>4, NoOpFields DEF Operating, Busy
<1>7. Queueing(m) /\ Shutting(m)
  BY <1>4, NoOpFields, BoundsAssumption DEF Queueing, Shutting
<1>8. faults \in 0..Faults
  BY BoundsAssumption DEF Init
<1> QED BY <1>4, <1>5, <1>6, <1>7, <1>8 DEF IInv, Sound

\* Every step keeps the invariant.
LEMMA NextIInv ==
    ASSUME IInv, [Next]_vars
    PROVE  IInv'
<1>1. CASE UNCHANGED vars
  BY <1>1 DEF vars, IInv
<1>2. ASSUME NEW p \in Plans, Reconcile(p) PROVE IInv'
  BY <1>2, ReconcileStep
<1>3. CASE Shutdown
  BY <1>3, ShutdownStep
<1>4. CASE ForceRelease
  BY <1>4, ForceReleaseStep
<1>5. CASE Emit \/ EmitSettles
  BY <1>5, EmitStep
<1>6. CASE Begin
  BY <1>6, BeginStep
<1>7. CASE NextName
  BY <1>7, NextNameStep
<1>8. CASE End
  BY <1>8, EndStep
<1>9. CASE CallMethod
  BY <1>9, CallMethodStep
<1>10. CASE CallSettles
  BY <1>10, CallSettlesStep
<1>11. ASSUME NEW n \in Names, ServerFails(n) PROVE IInv'
  BY <1>11, ServerFailsStep
<1>12. ASSUME NEW n \in Names, ClientCloses(n) PROVE IInv'
  BY <1>12, ClientClosesStep
<1>13. ASSUME NEW n \in Names, StaleSocketCloses(n) PROVE IInv'
  BY <1>13, StaleSocketClosesStep
<1>14. ASSUME NEW n \in Names, Reconnect(n) PROVE IInv'
  BY <1>14, ReconnectStep
<1> QED BY <1>1, <1>2, <1>3, <1>4, <1>5, <1>6, <1>7, <1>8, <1>9, <1>10, <1>11, <1>12, <1>13, <1>14 DEF Next

-----------------------------------------------------------------------------
(* The theorems.                                                           *)

\* The invariant holds of every manager, its adapters and its operation.
THEOREM InvariantHolds == Spec => []IInv
<1>1. Init => IInv
  BY InitIInv
<1>2. IInv /\ [Next]_vars => IInv'
  BY NextIInv
<1> QED BY <1>1, <1>2, PTL DEF Spec

\* The manager's map, adapters, operation and queue keep their types, and the
\* queue its bound.
THEOREM TypesHold == Spec => []TypeOK
<1>1. ASSUME IInv PROVE TypeOK
  <2>1. m \in Manager /\ Queueing(m) /\ faults \in 0..Faults
    BY <1>1 DEF IInv, Sound
  <2>2. m.op \in Operation /\ m.queue \in Seq(Queued)
    BY <2>1 DEF Manager
  <2>3. Len(m.queue) <= MaxQueue + 1
    <3>1. Len(m.queue) \in Nat
      BY <2>2
    <3> QED BY <2>1, <3>1, BoundsAssumption DEF Queueing
  <2> QED BY <2>1, <2>2, <2>3 DEF TypeOK, Manager, Operation
<1> QED BY <1>1, InvariantHolds, PTL

\* Whatever rollbacks, lost connections and forced closes there were, the
\* adapters own nothing that the manager cannot close, and an enabled client
\* has its socket or its timer and never both.
THEOREM TransportsAreKept == Spec => []NothingStrays
<1>1. ASSUME IInv PROVE NothingStrays
  <2> SUFFICES ASSUME NEW n \in Names
               PROVE  /\ Holds(m.ad[n]["server"]) /\ Holds(m.ad[n]["client"]) => m.ad[n]["server"].forced
                      /\ \A k \in Kinds :
                            Holds(m.ad[n][k]) => m.map[n] = k \/ (m.op.at = n /\ ~Idle) \/ m.ad[n][k].forced
                      /\ ~m.ad[n]["client"].stray
                      /\ m.ad[n]["client"].enabled => (m.ad[n]["client"].own = "held") # m.ad[n]["client"].timer
    BY DEF NothingStrays
  <2>1. Sound(m) /\ Owned(m, n) /\ "server" \in Kinds /\ "client" \in Kinds
    BY <1>1 DEF IInv, Sound, Kinds
  <2>2. Whole("client", m.ad[n]["client"])
    BY <2>1 DEF Owned
  <2>3. ~m.ad[n]["client"].forced /\ ~m.ad[n]["client"].stray
    BY <2>2 DEF Whole
  <2>4. m.ad[n]["client"].enabled => (m.ad[n]["client"].own = "held") # m.ad[n]["client"].timer
    BY <2>2 DEF Whole
  <2>5. \A k \in Kinds :
            Holds(m.ad[n][k]) => m.map[n] = k \/ (m.op.at = n /\ ~Idle) \/ m.ad[n][k].forced
    BY <2>1 DEF Owned, At, Sound, Operating, Idle
  <2>6. Holds(m.ad[n]["server"]) /\ Holds(m.ad[n]["client"]) => m.ad[n]["server"].forced
    <3> SUFFICES ASSUME Holds(m.ad[n]["server"]), Holds(m.ad[n]["client"]), ~m.ad[n]["server"].forced
                 PROVE  FALSE
      OBVIOUS
    <3>1. PICK k \in Kinds : /\ m.map[n] # k /\ Holds(m.ad[n][k]) /\ ~m.ad[n][k].forced
                             /\ \A j \in Kinds : Holds(m.ad[n][j]) /\ ~m.ad[n][j].forced
      BY <2>1, <2>3 DEF Kinds
    <3>2. At(m, n) /\ m.op.pc = "restore" /\ m.op.kind = k
      BY <2>1, <3>1 DEF Owned
    <3>3. m.map[n] \in Kinds /\ Released(m.ad[n][m.map[n]])
      <4>1. Calling(m) /\ m \in Manager /\ m.op.at = n
        BY <2>1, <3>2 DEF Sound, Operating, At
      <4>2. /\ m.map[n] = m.op.plan[n].kind /\ Released(m.ad[n][m.map[n]]) /\ n \in DOMAIN m.op.plan
        BY <3>2, <4>1 DEF Calling
      <4> QED BY <4>1, <4>2, PlanDesired DEF Desired
    <3> QED BY <3>1, <3>3 DEF Released
  <2> QED BY <2>3, <2>4, <2>5, <2>6
<1> QED BY <1>1, InvariantHolds, PTL

\* A shutdown that reports `closed` has released every transport, but for that
\* of a server closed by force.
THEOREM ClosedMeansReleased == Spec => []ShutdownReleases
<1>1. ASSUME IInv PROVE ShutdownReleases
  <2> SUFFICES ASSUME m.shut = "closed", NEW n \in Names, NEW k \in Kinds, Holds(m.ad[n][k])
               PROVE  m.ad[n][k].forced
    BY DEF ShutdownReleases
  <2>1. m.map[n] = Absent /\ m.op.what = "idle" /\ Owned(m, n) /\ Operating(m)
    BY <1>1 DEF IInv, Sound, Shutting, Queueing
  <2>2. m.op.st = "run"
    BY <2>1, NoOpFields DEF Operating
  <2> QED BY <2>1, <2>2 DEF Owned, Absent, Kinds
<1> QED BY <1>1, InvariantHolds, PTL
=============================================================================
