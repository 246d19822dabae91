---------------------------- MODULE BridgeManager ----------------------------
(***************************************************************************)
(* BridgeManager (packages/core/src/bridge/manager.ts) and the part of     *)
(* Bridge (bridge.ts) it manages: which account a QQ process (PID) belongs *)
(* to, which accounts have a Bridge, which PIDs each Bridge holds and      *)
(* whether they are healthy, and when a Bridge's identity database may be  *)
(* opened while an earlier Bridge of the account is still closing its own. *)
(*                                                                         *)
(* The hook callbacks are synchronous: each is one action.  They come from *)
(* the sessions, one per PID, which keep the promises of SessionContract;  *)
(* HookSession is shown to keep them.  A Bridge object is known only by    *)
(* its identity, a member of Bridges; one that has closed and is           *)
(* referenced by nothing is used again.                                    *)
(*                                                                         *)
(* Left out: the order of a Bridge's connections, which picks the sender,  *)
(* and what becomes of a packet once it has been routed.                   *)
(***************************************************************************)
EXTENDS FiniteSets

CONSTANTS
    Pids,       \* the QQ processes
    Uins,       \* the accounts
    NoUin,      \* a PID that is mapped to no account
    Bridges,    \* identities of Bridge objects: how many exist at once
    NoBridge

ASSUME BridgeAssumption ==
    /\ NoUin \notin Uins
    /\ NoBridge \notin Bridges

VARIABLES
    m,          \* the manager: pidToUin_, bridges, the objects, a failed assertion
    disposal,   \* disposal_: not asked for, pending, its sessions closed
    bound       \* the account each session last announced

vars == <<m, disposal, bound>>

-----------------------------------------------------------------------------
(* A Bridge object.  `waiting`: its database waits for `gate`, the earlier *)
(* closes it must let finish; `broken`: the database did not open.  Once   *)
(* dispose() has been called it is in closingSessions_; it leaves that set *)
(* when closed and stays there, `failed`, when the close failed.           *)

Bridge == [
    st: {"free", "waiting", "open", "broken", "failed"},
    uin: Uins \cup {NoUin},
    gate: SUBSET Bridges,
    pids: SUBSET Pids,          \* the keys of connections
    bad: SUBSET Pids,           \* those whose receiveHealthy is false
    disposing: BOOLEAN]

FreeBridge ==
    [st |-> "free", uin |-> NoUin, gate |-> {}, pids |-> {}, bad |-> {}, disposing |-> FALSE]

\* Bridge.bindPid makes the connection a healthy one.
BridgeBindPid(b, p) == [b EXCEPT !.pids = @ \cup {p}, !.bad = @ \ {p}]

BridgeDetachPid(b, p) == [b EXCEPT !.pids = @ \ {p}, !.bad = @ \ {p}]

SetPidReceiveHealthy(b, p, ok) ==
    [b EXCEPT !.bad = IF ok THEN @ \ {p} ELSE @ \cup {p}]

\* Bridge.dispose clears the connections and starts to close the database.
BridgeDispose(b) == [b EXCEPT !.disposing = TRUE, !.pids = {}, !.bad = {}]

Manager == [
    own: [Pids -> Uins \cup {NoUin}],               \* pidToUin_
    bridges: [Uins -> Bridges \cup {NoBridge}],
    obj: [Bridges -> Bridge],
    threw: BOOLEAN]             \* an "invariant violated" error was thrown

Active(x, i) == x.obj[i].st \in {"waiting", "open", "broken"}

\* closingSessions_.get(uin)
ClosingSessions(x, u) ==
    {i \in Bridges : x.obj[i].uin = u /\ x.obj[i].disposing}

\* closeSession
CloseSession(x, i) == [x EXCEPT !.obj[i] = BridgeDispose(@)]

\* Mutant: the empty Bridge is kept.
DetachKeepingBridge(x, p, u) ==
    LET i == x.bridges[u]
    IN  IF i = NoBridge THEN [x EXCEPT !.threw = TRUE]
        ELSE IF p \notin x.obj[i].pids THEN [x EXCEPT !.threw = TRUE]
        ELSE [x EXCEPT !.own[p] = NoUin, !.obj[i] = BridgeDetachPid(@, p)]

\* Mutant: the Bridge is closed although another PID is attached to it.
DetachClosingBridge(x, p, u) ==
    LET i == x.bridges[u]
    IN  IF i = NoBridge THEN [x EXCEPT !.threw = TRUE]
        ELSE IF p \notin x.obj[i].pids THEN [x EXCEPT !.threw = TRUE]
        ELSE CloseSession([x EXCEPT !.own[p] = NoUin, !.bridges[u] = NoBridge], i)

\* detachPidFromSession: validate first, then change both sides; the last
\* PID takes the Bridge out of the map, and it is closed.
DetachPidFromSession(x, p, u) ==
    LET i == x.bridges[u]
        y == [x EXCEPT !.own[p] = NoUin, !.obj[i] = BridgeDetachPid(@, p)]
    IN  IF i = NoBridge THEN [x EXCEPT !.threw = TRUE]
        ELSE IF p \notin x.obj[i].pids THEN [x EXCEPT !.threw = TRUE]
        ELSE IF y.obj[i].pids # {} THEN y
        ELSE CloseSession([y EXCEPT !.bridges[u] = NoBridge], i)

\* Mutant: the new Bridge opens its database at once.
EnsureSessionUngated(x, u, new) ==
    IF x.bridges[u] # NoBridge THEN x
    ELSE [x EXCEPT !.bridges[u] = new,
                   !.obj[new] = [FreeBridge EXCEPT !.st = "waiting", !.uin = u]]

\* ensureSession: an existing Bridge, or a new one whose database waits for
\* every close of this account that is under way.  A close that has failed
\* is settled, and allSettled does not wait for it.
EnsureSession(x, u, new) ==
    IF x.bridges[u] # NoBridge THEN x
    ELSE [x EXCEPT !.bridges[u] = new,
                   !.obj[new] = [FreeBridge EXCEPT
                                   !.st = "waiting", !.uin = u,
                                   !.gate = {i \in ClosingSessions(x, u) : Active(x, i)}]]

\* Mutant: a PID that changes accounts is not taken from its former Bridge.
BindPidWithoutDetach(x, p, u, new) ==
    LET z == EnsureSession(x, u, new)
        i == z.bridges[u]
    IN  [z EXCEPT !.own[p] = u, !.obj[i] = BridgeBindPid(@, p)]

\* bindPid: "the old Bridge is fully detached (and, when empty, closed)
\* before the new Bridge is created".
BindPid(x, p, u, new) ==
    LET y == IF x.own[p] \notin {NoUin, u} THEN DetachPidFromSession(x, p, x.own[p]) ELSE x
        z == EnsureSession(y, u, new)
        i == z.bridges[u]
    IN  IF y.threw THEN y
        ELSE [z EXCEPT !.own[p] = u, !.obj[i] = BridgeBindPid(@, p)]

\* packetClientForPid throws on a mapping without its Bridge or connection.
SenderMissing(x, p) ==
    x.own[p] # NoUin /\ IF x.bridges[x.own[p]] = NoBridge THEN TRUE
                        ELSE p \notin x.obj[x.bridges[x.own[p]]].pids

-----------------------------------------------------------------------------
Init ==
    /\ m = [own |-> [p \in Pids |-> NoUin], bridges |-> [u \in Uins |-> NoBridge],
            obj |-> [i \in Bridges |-> FreeBridge], threw |-> FALSE]
    /\ disposal = "no"
    /\ bound = [p \in Pids |-> NoUin]

\* The object `new Bridge` makes, when the account has none.
NewFor(u) ==
    IF m.bridges[u] # NoBridge THEN {NoBridge} ELSE {i \in Bridges : m.obj[i].st = "free"}

\* onHookLogin.  A session announces a login only when it is news.
OnHookLogin(p, u) ==
    /\ bound[p] # u
    /\ bound' = [bound EXCEPT ![p] = u]
    /\ IF disposal # "no" THEN m' = m
       ELSE \E new \in NewFor(u) : m' = BindPid(m, p, u, new)
    /\ UNCHANGED disposal

\* onPacket.  A session forwards packets only while it is logged in; the
\* packet may name another account than the login did.
OnPacket(p, u) ==
    /\ bound[p] # NoUin
    /\ IF disposal # "no" THEN m' = m
       ELSE IF SenderMissing(m, p) THEN m' = [m EXCEPT !.threw = TRUE]
       ELSE \E new \in NewFor(u) :
              m' = IF m.own[p] # NoUin THEN BindPid(m, p, u, new) ELSE EnsureSession(m, u, new)
    /\ UNCHANGED <<disposal, bound>>

\* Mutant: a disposal under way hides the disconnect.
OnPidDisconnectedIgnored(p) ==
    /\ bound[p] # NoUin
    /\ bound' = [bound EXCEPT ![p] = NoUin]
    /\ m' = IF disposal # "no" \/ m.own[p] = NoUin THEN m
            ELSE DetachPidFromSession(m, p, m.own[p])
    /\ UNCHANGED disposal

\* onPidDisconnected, which runs during disposal too.
OnPidDisconnected(p) ==
    /\ bound[p] # NoUin
    /\ bound' = [bound EXCEPT ![p] = NoUin]
    /\ m' = IF m.own[p] = NoUin THEN m ELSE DetachPidFromSession(m, p, m.own[p])
    /\ UNCHANGED disposal

\* onPidReceiveHealthChanged, from a session that is logged in.  This is more than
\* SessionContract promises: HealthOnlyWhenBound of HookSession fails, and a
\* report after a logout makes this handler throw.
OnPidReceiveHealthChanged(p, ok) ==
    /\ bound[p] # NoUin
    /\ m' = IF disposal # "no" THEN m
            ELSE IF m.own[p] = NoUin \/ SenderMissing(m, p) THEN [m EXCEPT !.threw = TRUE]
            ELSE [m EXCEPT !.obj[m.bridges[m.own[p]]] = SetPidReceiveHealthy(@, p, ok)]
    /\ UNCHANGED <<disposal, bound>>

\* dispose(): disposal_ is set now, the sessions are closed in a later microtask.
Dispose ==
    /\ disposal = "no"
    /\ disposal' = "pending"
    /\ UNCHANGED <<m, bound>>

\* disposeSessions
DisposeSessions ==
    /\ disposal = "pending"
    /\ disposal' = "done"
    /\ m' = [m EXCEPT
               !.own = [p \in Pids |-> NoUin],
               !.bridges = [u \in Uins |-> NoBridge],
               !.obj = [i \in Bridges |->
                          IF \E u \in Uins : m.bridges[u] = i
                            THEN BridgeDispose(m.obj[i]) ELSE m.obj[i]]]
    /\ UNCHANGED bound

\* The database opens (or fails to) once every close it waits for has settled.
DatabaseOpens(i, ok) ==
    /\ m.obj[i].st = "waiting" /\ m.obj[i].gate = {}
    /\ m' = [m EXCEPT !.obj[i].st = IF ok THEN "open" ELSE "broken"]
    /\ UNCHANGED <<disposal, bound>>

\* A close that failed is settled all the same, and stays in closingSessions_.
CloseFailed(b) == [b EXCEPT !.st = "failed", !.gate = {}]

\* Bridge i is waited for no more.
Released(b, i) == [b EXCEPT !.gate = @ \ {i}]

\* Mutant: a failed close never lets go of those who wait for it.
CloseSettlesWhenOk(i, ok) ==
    /\ m.obj[i].disposing /\ m.obj[i].st \in {"open", "broken"}
    /\ m.obj[i].st = "broken" => ~ok
    /\ m' = [m EXCEPT !.obj = [j \in Bridges |->
               IF j = i THEN (IF ok THEN FreeBridge ELSE CloseFailed(m.obj[i]))
               ELSE IF ok THEN Released(m.obj[j], i) ELSE m.obj[j]]]
    /\ UNCHANGED <<disposal, bound>>

\* Bridge.dispose() settles.  Closing waits for the database to have opened;
\* one that did not open makes the close fail.
CloseSettles(i, ok) ==
    /\ m.obj[i].disposing /\ m.obj[i].st \in {"open", "broken"}
    /\ m.obj[i].st = "broken" => ~ok
    /\ m' = [m EXCEPT !.obj = [j \in Bridges |->
               IF j = i THEN (IF ok THEN FreeBridge ELSE CloseFailed(m.obj[i]))
               ELSE Released(m.obj[j], i)]]
    /\ UNCHANGED <<disposal, bound>>

Next ==
    \/ \E p \in Pids, u \in Uins : OnHookLogin(p, u)
    \/ \E p \in Pids, u \in Uins : OnPacket(p, u)
    \/ \E p \in Pids : OnPidDisconnected(p)
    \/ \E p \in Pids, ok \in BOOLEAN : OnPidReceiveHealthChanged(p, ok)
    \/ Dispose
    \/ DisposeSessions
    \/ \E i \in Bridges, ok \in BOOLEAN : DatabaseOpens(i, ok)
    \/ \E i \in Bridges, ok \in BOOLEAN : CloseSettles(i, ok)

\* Microtasks run, and SQLite comes back from opening and from closing a file.
Fairness ==
    /\ WF_vars(DisposeSessions)
    /\ \A i \in Bridges : WF_vars(\E ok \in BOOLEAN : DatabaseOpens(i, ok))
    /\ \A i \in Bridges : WF_vars(\E ok \in BOOLEAN : CloseSettles(i, ok))

Spec == Init /\ [][Next]_vars /\ Fairness

-----------------------------------------------------------------------------
TypeOK ==
    /\ m \in Manager
    /\ disposal \in {"no", "pending", "done"}
    /\ bound \in [Pids -> Uins \cup {NoUin}]

\* "A PID can never remain attached to two Bridges": pidToUin_ and the
\* connections of the Bridges describe the same ownership.
PidOwnership ==
    /\ \A p \in Pids, i \in Bridges :
         p \in m.obj[i].pids <=> m.own[p] # NoUin /\ m.bridges[m.own[p]] = i
    /\ \A p \in Pids : m.own[p] # NoUin => m.bridges[m.own[p]] # NoBridge

\* None of the "BridgeManager invariant violated" errors is thrown, whatever order
\* logins, packets, drops and disposal come in, as long as a session reports
\* health only while it is logged in.
NoInvariantThrown == ~m.threw

\* Every Bridge in the map is alive and carries its account, and one that
\* holds no PID any more has left the map: no account stays "online" with no process behind it.
BridgesAreAttached ==
    \A u \in Uins : m.bridges[u] # NoBridge =>
        /\ Active(m, m.bridges[u]) /\ ~m.obj[m.bridges[u]].disposing
        /\ m.obj[m.bridges[u]].uin = u
        /\ m.obj[m.bridges[u]].pids # {}

\* A PID is mapped only while its session is logged in, and until disposal
\* a logged-in session's PID is always mapped.
MappedWhileLoggedIn ==
    \A p \in Pids : /\ m.own[p] # NoUin => bound[p] # NoUin
                    /\ disposal = "no" => (bound[p] # NoUin => m.own[p] # NoUin)

\* The identity database of an account is open in at most one Bridge, however
\* quickly the account comes and goes.  One whose close failed is not counted:
\* allSettled gives up on it.
ExclusiveDatabase ==
    \A i, j \in Bridges :
        /\ i # j /\ m.obj[i].st = "open" /\ m.obj[j].st = "open"
        => m.obj[i].uin # m.obj[j].uin

\* A rejected close "must not reject this gate": the database of a new Bridge
\* is never kept waiting for ever.
GateOpens ==
    \A i \in Bridges : (m.obj[i].st = "waiting") ~> (m.obj[i].st # "waiting")
=============================================================================
