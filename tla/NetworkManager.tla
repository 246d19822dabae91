---------------------------- MODULE NetworkManager ----------------------------
(***************************************************************************)
(* OneBotNetworkManager and its adapters (packages/onebot/src/network/):   *)
(* the FIFO of reconcile and shutdown operations, what reconciling does to *)
(* an adapter that is new, changed, of another kind or removed, with its   *)
(* rollbacks, and the transports the adapters own: a listener (wsServer,   *)
(* httpServer) or an outgoing connection that is made again when it is     *)
(* lost (wsClient).                                                        *)
(*                                                                         *)
(* An adapter is known by its name and its kind: a name's adapter of one   *)
(* kind is dropped before another of that kind is made.  An operation runs *)
(* up to its next call of open() or close(), which is a step, and so is    *)
(* the settling of a call that had to wait.  Continuations are microtasks: *)
(* sockets, timers and callers come between them only while a call waits   *)
(* (Waiting).                                                              *)
(*                                                                         *)
(* Left out: the httpClient, which owns no transport; the second listener  *)
(* of an httpServer with WebSocket; register, openAll and closeOne, which  *)
(* only tests use; what is sent and received.                              *)
(***************************************************************************)
EXTENDS Naturals, Sequences, FiniteSets, FiniteSetsExt

CONSTANTS
    Names,      \* names of adapters, numbered in the order of the plans
    Ports,      \* what a configuration binds: a port, or a URL
    Plans,      \* the desired plans, from a name to what it should be
    MaxQueue,   \* bound: operations that are waiting
    Faults      \* bound: operations of the system that fail

Kinds == {"server", "client"}

Config == [port: Ports, on: BOOLEAN]

Desired == [kind: Kinds, cfg: Config]

\* No adapter of this name.
Absent == "absent"

ASSUME NamesAssumption == Names \subseteq Nat /\ IsFiniteSet(Names)

ASSUME PortsAssumption == Ports # {}

ASSUME PlansAssumption == \A p \in Plans : DOMAIN p \subseteq Names /\ \A n \in DOMAIN p : p[n] \in Desired

ASSUME BoundsAssumption == MaxQueue \in Nat /\ Faults \in Nat

\* Not assumed here: of the adapters a plan has, none goes to a port that one
\* after it has, or has yet to leave.  The code cannot apply other plans at
\* once, and ReconcileHeals is for these.
PortsApart ==
    \A p, q \in Plans : \A n \in DOMAIN p, o \in DOMAIN p \cap DOMAIN q :
        n < o /\ p[n].kind = "server" /\ p[n].cfg.on /\ q[o].kind = "server" =>
            p[n].cfg.port # q[o].cfg.port

VARIABLES
    m,          \* the manager
    faults      \* how many operations of the system have failed

vars == <<m, faults>>

-----------------------------------------------------------------------------
(* An adapter.  `own`: the server it has made, or the client's socket;     *)
(* `was`: isEnabled when its close() began; `failure`: applyFailure is     *)
(* set.  Of a client: `timer`, its reconnect timer; `stale`, sockets it    *)
(* has let go whose close event is still to come.  `stray` is not in the   *)
(* code: a socket was let go that nobody has told to close.                *)
Adapter == [
    cfg: Config,
    enabled: BOOLEAN,
    own: {"none", "binding", "held"},
    was: BOOLEAN,
    failure: BOOLEAN,
    forced: BOOLEAN,
    timer: BOOLEAN,
    stale: BOOLEAN,
    stray: BOOLEAN]

NewAdapter(cfg) ==
    [cfg |-> cfg, enabled |-> FALSE, own |-> "none", was |-> FALSE, failure |-> FALSE,
     forced |-> FALSE, timer |-> FALSE, stale |-> FALSE, stray |-> FALSE]

\* An operation.  `todo`: the names it has yet to see to; `at` and `kind`: the
\* adapter it calls; `pc`: the call, by its place in the code; `prev`: the
\* configuration to go back to; `errs`: the names it reports errors for.
Opening == {"create", "reopen", "backopen", "reinstate", "substitute", "restore"}

Closing == {"retire", "heal", "reclose", "backclose", "replace", "cleanup", "shut"}

NoOp == [what |-> "idle", plan |-> <<>>, todo |-> {}, at |-> 0, kind |-> "server",
         pc |-> "next", st |-> "run", prev |-> <<>>, errs |-> {}]

Idle == m.op.what = "idle"

\* The head of the FIFO can start; a shutdown first awaits the dispatches.
Due == Idle /\ m.queue # <<>> /\ (Head(m.queue).what = "shutdown" => ~m.emits)

\* No microtask is due.
Waiting == m.op.st = "wait" \/ (Idle /\ ~Due)

\* An adapter owns something.
Holds(ad) == ad.own # "none" \/ ad.timer \/ ad.stray

Bound(x, n, k) == k = "server" /\ x.ad[n][k].own = "held"

-----------------------------------------------------------------------------
(* The adapters, each method from the adapter to the adapter.              *)

\* open() before it awaits anything, and what it returns: "ok" and "bad" at
\* once, or "wait".
ServerOpen(ad) ==
    IF ad.enabled \/ ~ad.cfg.on THEN [ad |-> ad, got |-> "ok"]
    ELSE IF ad.own # "none" THEN [ad |-> ad, got |-> "bad"]
    ELSE [ad |-> [ad EXCEPT !.own = "binding"], got |-> "wait"]

\* `ok`: the socket can be made.
ClientOpen(ad, ok) ==
    IF ad.enabled \/ ~ad.cfg.on THEN [ad |-> ad, got |-> "ok"]
    ELSE IF ok THEN [ad |-> [ad EXCEPT !.enabled = TRUE, !.own = "held", !.failure = FALSE], got |-> "ok"]
    ELSE [ad |-> [ad EXCEPT !.failure = TRUE], got |-> "bad"]

\* The listener is bound, or not; forceClose() may have dropped it.
OpenSettles(ad, ok) ==
    IF ad.own # "binding" THEN ad
    ELSE IF ok THEN [ad EXCEPT !.own = "held", !.enabled = TRUE, !.failure = FALSE]
    ELSE [ad EXCEPT !.own = "none", !.enabled = FALSE, !.failure = TRUE]

\* close() likewise.
ServerClose(ad) ==
    IF ~ad.enabled /\ ad.own = "none" THEN [ad |-> ad, got |-> "ok"]
    ELSE [ad |-> [ad EXCEPT !.was = ad.enabled, !.enabled = FALSE], got |-> "wait"]

\* A client lets its socket go, then awaits the actions it has accepted.
ClientClose(ad) ==
    [ad |-> [ad EXCEPT !.enabled = FALSE, !.timer = FALSE, !.own = "none",
                       !.stale = @ \/ ad.own = "held"], got |-> "wait"]

\* The listener is released, or the release has failed: the server is kept,
\* and serves again unless it is an httpServer that no longer listens.
ServerCloseSettles(ad, ok, listening) ==
    IF ok THEN [ad EXCEPT !.own = "none"]
    ELSE IF ad.forced THEN ad
    ELSE [ad EXCEPT !.enabled = ad.was /\ listening]

ServerForceClose(ad) == [ad EXCEPT !.enabled = FALSE, !.own = "none", !.forced = TRUE]

ClientForceClose(ad) ==
    [ad EXCEPT !.enabled = FALSE, !.own = "none", !.timer = FALSE, !.stale = @ \/ ad.own = "held"]

-----------------------------------------------------------------------------
(* The operations, from the manager to the manager.                        *)

Call(x, pc, k) == [x EXCEPT !.op.pc = pc, !.op.kind = k, !.op.st = "call"]

\* The operation turns to its next name.
Done(x) == [x EXCEPT !.op.pc = "next", !.op.st = "run"]

Mark(x, k) == [x EXCEPT !.ad[x.op.at][k].failure = TRUE]

Clear(x, k) == [x EXCEPT !.ad[x.op.at][k].failure = FALSE]

Report(x) == [x EXCEPT !.op.errs = @ \cup {x.op.at}]

SetKind(x, k) == [x EXCEPT !.map[x.op.at] = k]

ReplaceConfig(x, k, cfg) == [x EXCEPT !.ad[x.op.at][k].cfg = cfg]

\* Mutant: an adapter that could be restored is not marked.
ReloadFailedQuietly(x, k, restored) == Done(Report(IF restored THEN x ELSE Mark(x, k)))

\* reloadSameKind, when the desired configuration did not take.
ReloadFailed(x, k, restored) == Done(Report(Mark(x, k)))

\* reload(), after its close() if there was one.
Reopen(x, k, cfg, pc) ==
    LET y == ReplaceConfig(x, k, cfg)
    IN  IF cfg.on /\ ~x.ad[x.op.at][k].enabled THEN Call(y, pc, k)
        ELSE IF pc = "reopen" THEN Done(Clear(y, k)) ELSE ReloadFailed(y, k, TRUE)

\* reload()
Reload(x, k, cfg, closing, opening) ==
    LET ad == x.ad[x.op.at][k]
    IN  IF ad.enabled /\ (ad.cfg.port # cfg.port \/ ~cfg.on) THEN Call(x, closing, k)
        ELSE Reopen(x, k, cfg, opening)

\* Mutant: a degraded adapter is reloaded as it is.
ReloadSameKindAsIs(x, k, cfg) ==
    Reload([x EXCEPT !.op.prev = x.ad[x.op.at][k].cfg], k, cfg, "reclose", "reopen")

\* reloadSameKind: a degraded adapter is closed first.
ReloadSameKind(x, k, cfg) ==
    LET y == [x EXCEPT !.op.prev = x.ad[x.op.at][k].cfg]
    IN  IF x.ad[x.op.at][k].failure THEN Call(y, "heal", k)
        ELSE Reload(y, k, cfg, "reclose", "reopen")

\* create(), and the entry in the map; `ok`: the factory does not throw.
Create(x, d) ==
    SetKind([x EXCEPT !.ad[x.op.at][d.kind] = [NewAdapter(d.cfg) EXCEPT !.stale = x.ad[x.op.at][d.kind].stale]],
            d.kind)

\* What reconcileNow does about one name of the plan.
Apply(x, d, ok) ==
    LET k == x.map[x.op.at]
    IN  IF k = Absent
          THEN IF ok THEN Call(Create(x, d), "create", d.kind) ELSE Done(Report(x))
        ELSE IF k = d.kind THEN ReloadSameKind(x, k, d.cfg)
        ELSE Call(x, "replace", k)

Other(k) == CHOOSE j \in Kinds : j # k

\* replaceKind, when the replacement could not be opened and is closed.
CleanedUp(x, k, ok) ==
    IF ok THEN Call(x, "restore", Other(k)) ELSE Done(Report(Mark(x, k)))

\* Mutant: an adapter whose close failed is dropped.
RetiredAnyhow(x, k, ok) == Done(SetKind(x, Absent))

\* The end of a removed adapter, and of every one at shutdown.
Retired(x, k, ok) ==
    IF ok THEN Done(SetKind(x, Absent)) ELSE Done(Report(Mark(x, k)))

\* What follows a call.  `make`: the factory does not throw.
Continue(x, ok, make) ==
    LET pc == x.op.pc
        k == x.op.kind
        d == x.op.plan[x.op.at]
    IN  CASE pc \in {"retire", "shut"} -> Retired(x, k, ok)
          [] pc = "create" -> Done(IF ok THEN Clear(x, k) ELSE Report(Mark(x, k)))
          [] pc = "heal" /\ ok -> Reload(x, k, d.cfg, "reclose", "reopen")
          [] pc = "reclose" /\ ok -> Reopen(x, k, d.cfg, "reopen")
          [] pc = "reopen" /\ ok -> Done(Clear(x, k))
          [] pc \in {"heal", "reclose", "reopen"} /\ ~ok -> Reload(x, k, x.op.prev, "backclose", "backopen")
          [] pc = "backclose" /\ ok -> Reopen(x, k, x.op.prev, "backopen")
          [] pc = "backopen" /\ ok -> ReloadFailed(x, k, TRUE)
          [] pc \in {"backclose", "backopen"} /\ ~ok -> ReloadFailed(x, k, FALSE)
          [] pc = "replace" -> IF ~ok THEN Done(Report(Mark(x, k)))
                               ELSE IF make THEN Call(Create(x, d), "substitute", d.kind)
                               ELSE Call(x, "reinstate", k)
          [] pc = "reinstate" -> Done(Report(Mark(x, k)))
          [] pc = "substitute" -> IF ok THEN Done(Clear(x, k)) ELSE Call(x, "cleanup", k)
          [] pc = "cleanup" -> CleanedUp(x, k, ok)
          [] pc = "restore" -> IF ok THEN Done(Report(SetKind(Mark(x, k), k)))
                               ELSE Done(Report(Mark(x, Other(k))))

-----------------------------------------------------------------------------
Init ==
    /\ m = [map |-> [n \in Names |-> Absent],
            ad |-> [n \in Names |-> [k \in Kinds |->
                NewAdapter([port |-> CHOOSE p \in Ports : TRUE, on |-> FALSE])]],
            op |-> NoOp, queue |-> <<>>, accepting |-> TRUE,
            emits |-> FALSE, shut |-> "none",
            last |-> [plan |-> <<>>, errs |-> {}, clean |-> FALSE]]
    /\ faults = 0

\* A failure of the system; what the last reconciliation left may not last.
Fault(x, failed) ==
    /\ failed => faults < Faults
    /\ faults' = IF failed THEN faults + 1 ELSE faults
    /\ m' = IF failed THEN [x EXCEPT !.last.clean = FALSE] ELSE x

\* reconcile
Reconcile(p) ==
    /\ m.accepting /\ Waiting
    /\ Len(m.queue) < MaxQueue
    /\ m' = [m EXCEPT !.queue = Append(@, [what |-> "reconcile", plan |-> p])]
    /\ UNCHANGED faults

\* Mutant: a shutdown under way is not remembered.
ShutdownAgain ==
    /\ Waiting
    /\ m' = [m EXCEPT !.accepting = FALSE, !.shut = "pending",
                      !.queue = Append(@, [what |-> "shutdown", plan |-> <<>>])]
    /\ UNCHANGED faults

\* shutdown, once, and again after an attempt that left something open.
Shutdown ==
    /\ Waiting
    /\ m.shut \in {"none", "failed"}
    /\ m' = [m EXCEPT !.accepting = FALSE, !.shut = "pending",
                      !.queue = Append(@, [what |-> "shutdown", plan |-> <<>>])]
    /\ UNCHANGED faults

ForceRelease ==
    /\ Waiting
    /\ m' = [m EXCEPT !.accepting = FALSE,
                      !.ad = [n \in Names |-> [k \in Kinds |->
                          IF m.map[n] # k THEN @[n][k]
                          ELSE IF k = "server" THEN ServerForceClose(@[n][k])
                          ELSE ClientForceClose(@[n][k])]]]
    /\ UNCHANGED faults

\* emitEvent: one dispatch, or several, are under way.
Emit ==
    /\ m.accepting /\ Waiting
    /\ m' = [m EXCEPT !.emits = TRUE]
    /\ UNCHANGED faults

EmitSettles ==
    /\ m.emits
    /\ m' = [m EXCEPT !.emits = FALSE]
    /\ UNCHANGED faults

-----------------------------------------------------------------------------
Begin ==
    /\ Due
    /\ LET q == Head(m.queue)
           managed == {n \in Names : m.map[n] # Absent}
       IN  m' = [m EXCEPT !.queue = Tail(@),
                          !.op = [NoOp EXCEPT !.what = q.what, !.plan = q.plan,
                                              !.todo = managed \cup DOMAIN q.plan],
                          !.last.clean = TRUE]
    /\ UNCHANGED faults

\* The next name: those to be closed come first, in any order, then the names
\* of the plan, in its order.
NextName ==
    /\ ~Idle /\ m.op.st = "run" /\ m.op.todo # {}
    /\ \E n \in m.op.todo, ok \in BOOLEAN :
        LET leaving == m.op.todo \ DOMAIN m.op.plan
            x == [m EXCEPT !.op.at = n, !.op.todo = @ \ {n}]
            creates == leaving = {} /\ m.map[n] = Absent
        IN  /\ IF leaving # {} THEN n \in leaving ELSE n = Min(m.op.todo)
            /\ ok \/ creates
            /\ Fault(IF leaving = {} THEN Apply(x, m.op.plan[n], ok)
                     ELSE Call(x, IF m.op.what = "shutdown" THEN "shut" ELSE "retire", m.map[n]),
                     ~ok)

\* The operation returns its result.
End ==
    /\ ~Idle /\ m.op.st = "run" /\ m.op.todo = {}
    /\ m' = IF m.op.what = "reconcile"
              THEN [m EXCEPT !.op = NoOp, !.last.plan = m.op.plan, !.last.errs = m.op.errs]
            ELSE [m EXCEPT !.op = NoOp, !.shut = IF m.op.errs = {} THEN "closed" ELSE "failed"]
    /\ UNCHANGED faults

\* After the call of pc, may create() be called?
Creates(pc, ok) == pc = "replace" /\ ok

\* The operation calls open() or close(), and goes on if it need not wait.
CallMethod ==
    /\ m.op.st = "call"
    /\ \E ok, make \in BOOLEAN :
        LET n == m.op.at
            k == m.op.kind
            opens == m.op.pc \in Opening
            ad == m.ad[n][k]
            r == IF k = "server" THEN IF opens THEN ServerOpen(ad) ELSE ServerClose(ad)
                 ELSE IF opens THEN ClientOpen(ad, ok) ELSE ClientClose(ad)
            x == [m EXCEPT !.ad[n][k] = r.ad]
            tries == opens /\ k = "client" /\ ~ad.enabled /\ ad.cfg.on
        IN  /\ ok \/ tries
            /\ make \/ Creates(m.op.pc, r.got = "ok")
            /\ Fault(IF r.got = "wait" THEN [x EXCEPT !.op.st = "wait"]
                     ELSE Continue(x, r.got = "ok", make),
                     ~ok \/ ~make)

\* Another adapter has the port.
Taken(n, k) ==
    \E o \in Names, j \in Kinds :
        <<o, j>> # <<n, k>> /\ Bound(m, o, j) /\ m.ad[o][j].cfg.port = m.ad[n][k].cfg.port

\* The call settles.  A listener that was dropped while it was being bound
\* may report it, or never settle.
CallSettles ==
    /\ m.op.st = "wait"
    /\ \E ok, make, listening \in BOOLEAN :
        LET n == m.op.at
            k == m.op.kind
            ad == m.ad[n][k]
            opens == m.op.pc \in Opening
            dropped == opens /\ ad.own # "binding"
            taken == opens /\ Taken(n, k)
            x == [m EXCEPT !.ad[n][k] =
                    IF k = "client" THEN ad
                    ELSE IF opens THEN OpenSettles(ad, ok)
                    ELSE ServerCloseSettles(ad, ok, listening)]
            good == ok \/ (~opens /\ ad.forced)
        IN  /\ dropped \/ taken => ~ok
            /\ ok => listening
            /\ ~ok => k = "server"
            /\ make \/ Creates(m.op.pc, good)
            /\ Fault(Continue([x EXCEPT !.op.st = "run"], good, make),
                     ~make \/ ~(ok \/ dropped \/ taken))

-----------------------------------------------------------------------------
(* What befalls the transports.                                            *)

\* The server reports an error.
ServerFails(n) ==
    /\ Waiting
    /\ m.ad[n]["server"].own = "held"
    /\ Fault([m EXCEPT !.ad[n]["server"].enabled = FALSE, !.ad[n]["server"].failure = TRUE], TRUE)

\* The client's connection is lost.
ClientCloses(n) ==
    /\ Waiting
    /\ m.ad[n]["client"].own = "held"
    /\ m' = [m EXCEPT !.ad[n]["client"].own = "none",
                      !.ad[n]["client"].timer = @ \/ m.ad[n]["client"].enabled]
    /\ UNCHANGED faults

\* Mutant: the close event of any socket is taken for the current one's.
StaleSocketClosesUnguarded(n) ==
    /\ Waiting
    /\ m.ad[n]["client"].stale
    /\ m' = [m EXCEPT !.ad[n]["client"].stale = FALSE,
                      !.ad[n]["client"].stray = m.ad[n]["client"].own = "held",
                      !.ad[n]["client"].own = "none",
                      !.ad[n]["client"].timer = @ \/ m.ad[n]["client"].enabled]
    /\ UNCHANGED faults

\* The close event of a socket the client has let go changes nothing.
StaleSocketCloses(n) ==
    /\ Waiting
    /\ m.ad[n]["client"].stale
    /\ m' = [m EXCEPT !.ad[n]["client"].stale = FALSE]
    /\ UNCHANGED faults

\* The reconnect timer fires; connect() makes a socket unless there is one.
Reconnect(n) ==
    /\ Waiting
    /\ m.ad[n]["client"].timer
    /\ m' = [m EXCEPT !.ad[n]["client"].timer = FALSE,
                      !.ad[n]["client"].own = IF m.ad[n]["client"].enabled THEN "held" ELSE @]
    /\ UNCHANGED faults

-----------------------------------------------------------------------------
Next ==
    \/ \E p \in Plans : Reconcile(p)
    \/ Shutdown
    \/ ForceRelease
    \/ Emit
    \/ EmitSettles
    \/ Begin
    \/ NextName
    \/ End
    \/ CallMethod
    \/ CallSettles
    \/ \E n \in Names :
        \/ ServerFails(n)
        \/ ClientCloses(n)
        \/ StaleSocketCloses(n)
        \/ Reconnect(n)

Spec == Init /\ [][Next]_vars

-----------------------------------------------------------------------------
TypeOK ==
    /\ m.map \in [Names -> Kinds \cup {Absent}]
    /\ m.ad \in [Names -> [Kinds -> Adapter]]
    /\ m.op.what \in {"idle", "reconcile", "shutdown"}
    /\ m.op.pc \in Opening \cup Closing \cup {"next"}
    /\ m.op.st \in {"run", "call", "wait"}
    /\ m.op.errs \subseteq Names
    /\ Len(m.queue) <= MaxQueue + 1
    /\ m.shut \in {"none", "pending", "failed", "closed"}
    /\ faults \in 0..Faults

\* Whatever an adapter owns, the manager can still close: a name has one
\* transport at most, that of its adapter in the map unless the operation is
\* at that name; and an enabled client has either its socket or a reconnect
\* timer, so that no late event makes it connect twice or never again.  A
\* server that was closed by force is excepted: see ForcedStaysReleased.
NothingStrays ==
    \A n \in Names :
        /\ Holds(m.ad[n]["server"]) /\ Holds(m.ad[n]["client"]) => m.ad[n]["server"].forced
        /\ \A k \in Kinds :
            Holds(m.ad[n][k]) => m.map[n] = k \/ (m.op.at = n /\ ~Idle) \/ m.ad[n][k].forced
        /\ LET c == m.ad[n]["client"]
           IN  /\ ~c.stray
               /\ c.enabled => (c.own = "held") # c.timer

\* The adapter of n is as the plan wants it, and serves.
AsPlanned(n, p) ==
    LET k == m.map[n]
        ad == m.ad[n][k]
    IN  IF n \notin DOMAIN p THEN k = Absent
        ELSE /\ k = p[n].kind
             /\ ~ad.failure
             /\ ad.cfg = p[n].cfg /\ ad.enabled = ad.cfg.on
             /\ Holds(ad) = ad.cfg.on

\* Between operations an adapter that shows no failure is what the last plan
\* wants, and serves; a name with no adapter that the plan has is one the
\* result reported.
AppliedOrVisible ==
    Idle /\ m.accepting =>
        \A n \in Names :
            \/ AsPlanned(n, m.last.plan)
            \/ m.map[n] # Absent /\ m.ad[n][m.map[n]].failure
            \/ m.map[n] = Absent /\ n \in m.last.errs

\* A reconciliation during which nothing fails applies its plan, whatever
\* half-closed, half-opened or half-restored state the ones before it left.
ReconcileHeals ==
    Idle /\ m.accepting /\ m.last.clean =>
        m.last.errs = {} /\ \A n \in Names : AsPlanned(n, m.last.plan)

\* A shutdown that reports `closed` has released everything, but for a server
\* that was closed by force and then opened again.
ShutdownReleases ==
    m.shut = "closed" => \A n \in Names, k \in Kinds : Holds(m.ad[n][k]) => m.ad[n][k].forced

\* What forceClose is for, in the words of its comment: after it the next
\* account session can bind the same ports.
ForcedStaysReleased ==
    (\E n \in Names : m.ad[n]["server"].forced) => \A n \in Names, k \in Kinds : ~Bound(m, n, k)
===============================================================================
