----------------------------- MODULE HookSession -----------------------------
(***************************************************************************)
(* One HookSession of packages/bridge/src/hook-session.ts: the life of one *)
(* QQ process, from injection through the pipe client and login to unload, *)
(* with the part of HookManager that drives it (watcher events, the retry  *)
(* on every tick) and the outbound-health flag of HookPacketClient.        *)
(*                                                                         *)
(* The object is the record `s`, and a method of the class is an operator  *)
(* from the record to the record, so that a handler which calls others     *)
(* reads as it does in the source.  JavaScript runs each turn to its next  *)
(* await: an action is one turn.  The commands and the watcher's events go *)
(* through the promise chain opChain (s.queue); s.pc says at which await   *)
(* the operation s.op at its head is suspended.  Frames, socket closes,    *)
(* timers and dispose() are not serialised and run between the awaits.     *)
(*                                                                         *)
(* Left out: error texts, logging, method names and process names, and the *)
(* identity hints sent while a login is awaited (detectLoginOnce), which   *)
(* never touch this state; s.reconcile is the timer that drives them.      *)
(***************************************************************************)
EXTENDS Integers, Sequences

CONSTANTS
    Uins,       \* real account numbers
    NoUin,      \* '0' or '': not a real account number
    MaxQueue,   \* bound on opChain's backlog
    MaxCmds,    \* bound on the user's commands
    MaxReqs,    \* bound on the requests in flight
    Kinds       \* the kinds of packets QQ sends

ASSUME SessionAssumption ==
    /\ NoUin \notin Uins
    /\ MaxQueue \in Nat /\ MaxCmds \in Nat /\ MaxReqs \in Nat
    /\ Kinds \subseteq {"heartbeat", "receipt", "other"}

VARIABLES
    s,          \* the session object
    live,       \* the watcher's snapshot: isPipeLive(pid)
    alive,      \* the watcher's snapshot lists the process
    cmds,       \* how many commands the user has given
    bound,      \* history: the account the session's listeners hold this PID for
    shown       \* history: the health the Bridge shows for this PID

vars == <<s, live, alive, cmds, bound, shown>>

-----------------------------------------------------------------------------
(* The types.                                                              *)

Status == {"available", "loading", "connecting", "loaded", "online", "disconnected", "error"}

\* Operations in opChain.  The operation of a close event, or of an expired connection
\* watch, first compares the client, or the watch, with the one it was made for; once that one
\* has been replaced the operation does nothing: "skip".
Op == {"load", "unload", "refresh", "pipeUp", "pipeDown", "gone", "close", "expire", "skip"}

Await == {"idle", "inject", "tickLoad", "connect", "unloadDll", "tickUnload"}

Pipes == {"control", "recv"}

LoginState == [in: BOOLEAN, uin: Uins \cup {NoUin}]

LoggedOut == [in |-> FALSE, uin |-> NoUin]

Event == [ev: {"login", "packet"}, uin: Uins] \cup [ev: {"disconnected"}]
           \cup [ev: {"health"}, ok: BOOLEAN]

Session == [
    status: Status,
    injected: BOOLEAN,
    handle: BOOLEAN,            \* injectResult, which holds the unload handle
    connected: BOOLEAN,
    loggedIn: BOOLEAN,
    uin: Uins \cup {NoUin},
    client: BOOLEAN,            \* client and sender, which are set and cleared together
    sockets: SUBSET Pipes,      \* the client's open sockets
    stage: 0..2,                \* how many of its pipes have been opened
    peer: LoginState,           \* the client's loginState
    reqs: Nat,                  \* the client's requests in flight
    senderOk: BOOLEAN,          \* the sender's own outboundHealthy
    runtimeFailure: BOOLEAN,
    initErr: BOOLEAN,           \* initialConnectionError
    watch: {"off", "armed", "fired"},   \* initialConnectionWatch
    hasConnected: BOOLEAN,
    reconcile: BOOLEAN,         \* loginReconcileTimer
    recvUin: Uins \cup {NoUin}, \* receiveWatchUin
    recvArmed: BOOLEAN,
    recvTimer: {"off", "stale", "confirm"},
    recvOk: BOOLEAN,            \* _receiveHealthy
    outOk: BOOLEAN,             \* _outboundHealthy
    disposed: BOOLEAN,
    pipeUpPending: BOOLEAN,
    queue: Seq(Op),
    op: Op \cup {"none"},
    pc: Await,
    out: Seq(Event)]            \* the events emitted in the last turn

NewSession == [
    status |-> "available", injected |-> FALSE, handle |-> FALSE, connected |-> FALSE,
    loggedIn |-> FALSE, uin |-> NoUin, client |-> FALSE, sockets |-> {}, stage |-> 0,
    peer |-> LoggedOut, reqs |-> 0, senderOk |-> TRUE, runtimeFailure |-> FALSE,
    initErr |-> FALSE, watch |-> "off", hasConnected |-> FALSE, reconcile |-> FALSE,
    recvUin |-> NoUin, recvArmed |-> FALSE, recvTimer |-> "off", recvOk |-> TRUE,
    outOk |-> TRUE, disposed |-> FALSE, pipeUpPending |-> FALSE, queue |-> <<>>,
    op |-> "none", pc |-> "idle", out |-> <<>>]

-----------------------------------------------------------------------------
(* Small methods.                                                          *)

Emit(x, e) == [x EXCEPT !.out = Append(@, e)]

EmitDisconnected(x, wasLoggedIn) ==
    IF wasLoggedIn THEN Emit(x, [ev |-> "disconnected"]) ELSE x

\* receiveHealthy: "combined receive/request path health"
Healthy(x) == x.recvOk /\ x.outOk

Superseded(q, o) == [i \in DOMAIN q |-> IF q[i] = o THEN "skip" ELSE q[i]]

Enqueue(x, o) == [x EXCEPT !.queue = Append(@, o)]

\* The operation at the head of opChain settles.
Done(x) ==
    [x EXCEPT !.op = "none", !.pc = "idle",
              !.pipeUpPending = IF x.op = "pipeUp" THEN FALSE ELSE @]

\* hook-status.ts
StatusFor(injected, connected, loggedIn, wasLoggedIn) ==
    IF ~injected THEN "available"
    ELSE IF connected THEN (IF loggedIn THEN "online" ELSE "loaded")
    ELSE IF wasLoggedIn THEN "disconnected" ELSE "connecting"

ApplyStatus(x, wasLoggedIn) ==
    [x EXCEPT !.status =
        IF x.runtimeFailure \/ x.initErr THEN "error"
        ELSE StatusFor(x.injected, x.connected, x.loggedIn, wasLoggedIn)]

StopWatch(x) ==
    [x EXCEPT !.watch = "off", !.queue = Superseded(@, "expire")]

StartWatch(x) ==
    IF x.disposed \/ x.hasConnected \/ x.watch # "off" \/ x.initErr
      THEN x ELSE [x EXCEPT !.watch = "armed"]

\* expireInitialConnection(watch), for the watch that is installed.
Expire(x) ==
    IF x.disposed \/ x.connected \/ x.watch = "off" THEN x
    ELSE ApplyStatus([StopWatch(x) EXCEPT !.initErr = TRUE], x.loggedIn)

\* Mutant: a new account inherits the verdict on the former one's receive path.
ResetReceiveWatchKeepingHealth(x, uin) ==
    [x EXCEPT !.recvUin = uin, !.recvArmed = FALSE, !.recvTimer = "off"]

ResetReceiveWatch(x, uin) ==
    [x EXCEPT !.recvUin = uin, !.recvArmed = FALSE, !.recvTimer = "off", !.recvOk = TRUE]

SetReceiveHealthy(x, ok) ==
    IF x.recvOk = ok THEN x
    ELSE LET y == [x EXCEPT !.recvOk = ok]
         IN  IF Healthy(x) # Healthy(y) THEN Emit(y, [ev |-> "health", ok |-> ok]) ELSE y

SetOutboundHealthy(x, ok) ==
    IF x.outOk = ok THEN x
    ELSE LET y == [x EXCEPT !.outOk = ok]
         IN  IF Healthy(x) # Healthy(y) THEN Emit(y, [ev |-> "health", ok |-> ok]) ELSE y

\* HookPacketClient.setOutboundHealthy: the listener hears of changes only.
SenderReports(x, ok) ==
    IF x.senderOk = ok THEN x
    ELSE SetOutboundHealthy([x EXCEPT !.senderOk = ok], ok)

\* Mutant: tearing the client down leaves the login flag up.
TearDownKeepingLogin(x, preserveRuntimeFailure) ==
    [ResetReceiveWatch(x, NoUin) EXCEPT
        !.client = FALSE, !.sockets = {}, !.stage = 0, !.peer = LoggedOut, !.reqs = 0,
        !.senderOk = TRUE, !.reconcile = FALSE, !.connected = FALSE, !.outOk = TRUE,
        !.runtimeFailure = preserveRuntimeFailure /\ @,
        !.queue = Superseded(@, "close")]

\* tearDownClient.  Closing the client rejects its requests, and its pending
\* close operations no longer find it registered.
TearDown(x, preserveRuntimeFailure) ==
    [ResetReceiveWatch(x, NoUin) EXCEPT
        !.client = FALSE, !.sockets = {}, !.stage = 0, !.peer = LoggedOut, !.reqs = 0,
        !.senderOk = TRUE, !.reconcile = FALSE, !.connected = FALSE, !.loggedIn = FALSE,
        !.outOk = TRUE, !.runtimeFailure = preserveRuntimeFailure /\ @,
        !.queue = Superseded(@, "close")]

StartLoginReconcile(x) ==
    IF x.disposed \/ x.runtimeFailure \/ ~x.connected \/ x.loggedIn
      THEN x ELSE [x EXCEPT !.reconcile = TRUE]

-----------------------------------------------------------------------------
(* handleLoginState                                                        *)

\* Mutant: the identity timer goes on after the login.
LoginFlagsKeepingTimer(x, st) ==
    LET y == [x EXCEPT !.uin = st.uin, !.loggedIn = st.in /\ st.uin # NoUin]
    IN  IF ~y.loggedIn \/ y.recvUin # y.uin
          THEN [ResetReceiveWatch(y, IF y.loggedIn THEN y.uin ELSE NoUin) EXCEPT !.outOk = TRUE]
          ELSE y

\* The flags, the identity timer and the health of the account's epoch.
LoginFlags(x, st) ==
    LET y == [x EXCEPT !.uin = st.uin, !.loggedIn = st.in /\ st.uin # NoUin]
    IN  IF ~y.loggedIn
          THEN [ResetReceiveWatch(y, NoUin) EXCEPT !.outOk = TRUE]
        ELSE IF y.recvUin # y.uin
          THEN [ResetReceiveWatch(y, y.uin) EXCEPT !.outOk = TRUE, !.reconcile = FALSE]
        ELSE [y EXCEPT !.reconcile = FALSE]

HandleLoginState(x, st) ==
    LET y == LoginFlags(x, st)
        z == IF y.connected \/ y.loggedIn THEN ApplyStatus(y, x.loggedIn) ELSE y
    IN  IF x.disposed \/ x.runtimeFailure THEN x
        ELSE IF ~z.loggedIn THEN StartLoginReconcile(EmitDisconnected(z, x.loggedIn))
        ELSE IF ~z.client \/ (x.loggedIn /\ x.uin = z.uin) THEN z
        ELSE Emit(z, [ev |-> "login", uin |-> z.uin])

-----------------------------------------------------------------------------
(* handlePacket                                                            *)

NoteReceiveActivity(x, kind, uin) ==
    LET y == IF x.recvUin # uin THEN ResetReceiveWatch(x, uin) ELSE x
    IN  IF ~y.recvArmed /\ kind # "heartbeat" THEN y
        ELSE SetReceiveHealthy([y EXCEPT !.recvArmed = TRUE, !.recvTimer = "stale"], TRUE)

\* Mutant: packets are forwarded whether or not an account is logged in.
HandlePacketAlways(x, kind, uin) ==
    LET epoch == IF uin # NoUin THEN uin ELSE IF x.recvUin # NoUin THEN x.recvUin ELSE x.uin
        y == IF epoch # NoUin THEN NoteReceiveActivity(x, kind, epoch) ELSE x
    IN  IF uin = NoUin THEN y ELSE Emit(y, [ev |-> "packet", uin |-> uin])

\* A packet without a number of its own carries the session's; NoUin is the
\* malformed '0', which proves the receive path and is not forwarded.
HandlePacket(x, kind, uin) ==
    LET epoch == IF uin # NoUin THEN uin ELSE IF x.recvUin # NoUin THEN x.recvUin ELSE x.uin
        y     == NoteReceiveActivity(x, kind, epoch)
    IN  IF ~x.loggedIn \/ (kind = "receipt" /\ uin # x.uin) THEN x
        ELSE IF uin = NoUin THEN y
        ELSE Emit(y, [ev |-> "packet", uin |-> uin])

ShouldWatchReceive(x) == ~x.disposed /\ x.connected /\ x.loggedIn /\ x.recvArmed

-----------------------------------------------------------------------------
(* The reconcilers.                                                        *)

\* attemptConnect up to its await.
AttemptConnect(x) ==
    [(IF x.client THEN x
      ELSE [x EXCEPT !.runtimeFailure = FALSE, !.client = TRUE, !.sockets = {}, !.stage = 0,
                     !.peer = LoggedOut, !.reqs = 0, !.senderOk = TRUE])
        EXCEPT !.pc = "connect"]

ReconcilePipeUp(x) ==
    LET y == StartWatch([x EXCEPT !.injected = TRUE])
    IN  IF y.connected THEN Done(ApplyStatus(y, y.loggedIn)) ELSE AttemptConnect(y)

ReconcilePipeDown(x) ==
    IF ~x.connected
      THEN IF x.injected THEN ApplyStatus(x, x.loggedIn) ELSE x
      ELSE EmitDisconnected(ApplyStatus(TearDown(x, TRUE), x.loggedIn), x.loggedIn)

\* Mutant: the failed attempt drops the client and forgets that login had arrived.
ConnectFailedSilently(x, timedOut) ==
    LET y == TearDown(x, TRUE)
        z == IF timedOut THEN Expire(y) ELSE y
    IN  IF x.disposed THEN Done(x) ELSE Done(ApplyStatus(z, x.loggedIn))

\* attemptConnect when its await throws.  The attempt's watch is the one
\* installed, or has been stopped: no other operation runs meanwhile.
ConnectFailed(x, timedOut) ==
    LET y == TearDown(x, TRUE)
        z == IF timedOut THEN Expire(y) ELSE y
    IN  IF x.disposed THEN Done(x)
        ELSE Done(EmitDisconnected(ApplyStatus(z, x.loggedIn), x.loggedIn))

\* Mutant: a connection leaves its deadline running.
ConnectSucceededUnderWatch(x) ==
    IF x.disposed THEN Done(x)
    ELSE IF x.runtimeFailure THEN ConnectFailed(x, FALSE)
    ELSE Done(HandleLoginState(
                [x EXCEPT !.connected = TRUE, !.hasConnected = TRUE, !.initErr = FALSE],
                x.peer))

\* attemptConnect when both pipes have said hello.  Only dispose() can have
\* dropped the client meanwhile.
ConnectSucceeded(x) ==
    IF x.disposed THEN Done(x)
    ELSE IF x.runtimeFailure THEN ConnectFailed(x, FALSE)
    ELSE Done(HandleLoginState(
                [StopWatch(x) EXCEPT !.connected = TRUE, !.hasConnected = TRUE,
                                     !.initErr = FALSE],
                x.peer))

\* The end of loadInternal's try block.
LoadFinished(x) ==
    IF x.disposed THEN Done(x)
    ELSE LET y == StartWatch([x EXCEPT !.initErr = FALSE])
         IN  Done(ApplyStatus(y, y.loggedIn))

\* unloadInternal once the library is out: before `await tickNow()`.
Unloaded(x) ==
    [x EXCEPT !.injected = FALSE, !.handle = FALSE, !.uin = NoUin, !.pc = "tickUnload"]

-----------------------------------------------------------------------------
(* What each operation does up to its first await.                         *)

RunLoad(x) ==
    IF x.disposed THEN Done(x)
    ELSE LET y == [x EXCEPT !.status = "loading"]
         IN  IF y.injected \/ live THEN LoadFinished([y EXCEPT !.injected = TRUE])
             ELSE [y EXCEPT !.pc = "inject"]

RunUnload(x) ==
    LET y == [StopWatch(x) EXCEPT !.initErr = FALSE, !.hasConnected = FALSE]
        z == EmitDisconnected(TearDown(y, FALSE), x.loggedIn)
    IN  IF z.injected /\ z.handle THEN [z EXCEPT !.pc = "unloadDll"] ELSE Unloaded(z)

RunRefresh(x) ==
    IF live THEN ReconcilePipeUp(x) ELSE Done(ReconcilePipeDown(x))

RunGone(x) ==
    LET y == [TearDown(StopWatch(x), FALSE) EXCEPT
                 !.injected = FALSE, !.handle = FALSE, !.status = "available",
                 !.disposed = TRUE]
    IN  Done(EmitDisconnected(y, x.loggedIn))

Run(x, o) ==
    CASE o = "load"     -> RunLoad(x)
      [] o = "unload"   -> RunUnload(x)
      [] o = "refresh"  -> RunRefresh(x)
      [] o = "pipeUp"   -> IF x.disposed THEN Done(x) ELSE ReconcilePipeUp(x)
      [] o \in {"pipeDown", "close"} ->
                           Done(IF x.disposed THEN x ELSE ReconcilePipeDown(x))
      [] o = "gone"     -> IF x.disposed THEN Done(x) ELSE RunGone(x)
      [] o = "expire"   -> Done(Expire(x))
      [] o = "skip"     -> Done(x)

-----------------------------------------------------------------------------
(* The watcher's callbacks in HookManager.                                 *)

\* Mutant: every tick queues another attempt.
OnPipeUpUncoalesced(x) ==
    IF x.disposed \/ x.pc = "connect" THEN x
    ELSE Enqueue([x EXCEPT !.pipeUpPending = TRUE], "pipeUp")

\* cancelConnectAttempt is set exactly while the handshake is awaited.
OnPipeUp(x) ==
    IF x.disposed \/ x.pipeUpPending \/ x.pc = "connect" THEN x
    ELSE Enqueue([x EXCEPT !.pipeUpPending = TRUE], "pipeUp")

OnPipeDown(x) == IF x.disposed THEN x ELSE Enqueue(x, "pipeDown")

\* Mutant: the retry forgets sessions whose socket died under a live pipe.
RetryConnecting(x, up) ==
    IF x.status \in {"connecting", "error"} /\ up THEN OnPipeUp(x) ELSE x

\* The 'tick' handler.
Retry(x, up) ==
    IF x.status \in {"connecting", "disconnected", "error"} /\ up THEN OnPipeUp(x) ELSE x

\* One poll of PipeWatcher that finds the pipe up or not: the edge first, then the tick.
Polled(x, up) ==
    Retry(IF up /\ ~live THEN OnPipeUp(x) ELSE IF ~up /\ live THEN OnPipeDown(x) ELSE x, up)

-----------------------------------------------------------------------------
Init ==
    /\ s = NewSession
    /\ live = FALSE
    /\ alive = TRUE
    /\ cmds = 0
    /\ bound = NoUin
    /\ shown = TRUE

\* A turn begins with nothing emitted.
Turn == [s EXCEPT !.out = <<>>]

\* What HookManager's listeners make of an event: which account they hold
\* the PID for, and which health Bridge.receiveHealthy shows for it.  Login
\* and packet both go through bindPid, which moves the PID to the account
\* they name and shows it as healthy; a packet does so only for a PID that
\* is held, since packetClientForPid finds no client of another.
Bound(b, e) ==
    CASE e.ev = "login"        -> e.uin
      [] e.ev = "disconnected" -> NoUin
      [] e.ev = "packet"       -> IF b = NoUin THEN NoUin ELSE e.uin
      [] e.ev = "health"       -> b

Shown(h, e) ==
    IF e.ev = "health" THEN e.ok ELSE IF e.ev \in {"login", "packet"} THEN TRUE ELSE h

\* The listeners run inside the turn; a turn emits at most two events.
Commit(x) ==
    /\ s' = x
    /\ LET n == Len(x.out)
       IN  /\ bound' = CASE n = 0 -> bound
                         [] n = 1 -> Bound(bound, x.out[1])
                         [] n = 2 -> Bound(Bound(bound, x.out[1]), x.out[2])
           /\ shown' = CASE n = 0 -> shown
                         [] n = 1 -> Shown(shown, x.out[1])
                         [] n = 2 -> Shown(Shown(shown, x.out[1]), x.out[2])

Room == Len(s.queue) < MaxQueue

\* load(), unload(), refresh().  unload() also cancels the handshake in
\* progress, which may end at any time anyway.
Command(o) ==
    /\ cmds < MaxCmds /\ Room /\ alive
    /\ cmds' = cmds + 1
    /\ Commit(Enqueue(Turn, o))
    /\ UNCHANGED <<live, alive>>

\* opChain starts its next operation.
RunNext ==
    /\ s.pc = "idle" /\ s.queue # <<>>
    /\ Commit(Run([Turn EXCEPT !.op = Head(s.queue), !.queue = Tail(@)], Head(s.queue)))
    /\ UNCHANGED <<live, alive, cmds>>

InjectReturns(ok) ==
    /\ s.pc = "inject"
    /\ Commit(IF ok THEN LoadFinished([Turn EXCEPT !.injected = TRUE, !.handle = TRUE])
              ELSE [Turn EXCEPT !.status = "error", !.pc = "tickLoad"])
    /\ UNCHANGED <<live, alive, cmds>>

\* `await tickNow()` after a failed load: the poll, then the continuation.
TickLoadReturns(up) ==
    /\ s.pc = "tickLoad"
    /\ up => alive
    /\ live' = up
    /\ LET x == Polled(Turn, up)
       IN  Commit(IF ~x.disposed /\ up THEN ReconcilePipeUp(x) ELSE Done(x))
    /\ UNCHANGED <<alive, cmds>>

UnloadReturns(ok) ==
    /\ s.pc = "unloadDll"
    /\ Commit(IF ok THEN Unloaded(Turn) ELSE Done([Turn EXCEPT !.status = "error"]))
    /\ UNCHANGED <<live, alive, cmds>>

\* `await tickNow()` after an unload, and the verdict.
TickUnloadReturns(up) ==
    /\ s.pc = "tickUnload"
    /\ up => alive
    /\ live' = up
    /\ Commit(Done([Polled(Turn, up) EXCEPT
                      !.status = IF up THEN "connecting" ELSE "available"]))
    /\ UNCHANGED <<alive, cmds>>

\* The handshake: the control pipe opens, then the receive pipe.
PipeOpens ==
    /\ s.pc = "connect" /\ s.client /\ s.stage < 2
    /\ Commit([Turn EXCEPT !.stage = @ + 1,
                           !.sockets = @ \cup {IF s.stage = 0 THEN "control" ELSE "recv"}])
    /\ UNCHANGED <<live, alive, cmds>>

ConnectOk ==
    /\ s.pc = "connect" /\ s.stage = 2 /\ "recv" \in s.sockets
    /\ Commit(ConnectSucceeded(Turn))
    /\ UNCHANGED <<live, alive, cmds>>

\* The handshake fails, is cancelled or times out; 60 s have passed since
\* the watch was armed at least when its timer has fired.
ConnectFails(timedOut) ==
    /\ s.pc = "connect"
    /\ s.watch = "fired" => timedOut
    /\ Commit(ConnectFailed(Turn, timedOut))
    /\ UNCHANGED <<live, alive, cmds>>

\* The initial connection timer fires and queues its transition.
WatchFires ==
    /\ s.watch = "armed" /\ Room
    /\ Commit(Enqueue([Turn EXCEPT !.watch = "fired"], "expire"))
    /\ UNCHANGED <<live, alive, cmds>>

\* A background poll of the watcher.
Poll(up) ==
    /\ alive
    /\ (live /\ ~up) => Room
    /\ live' = up
    /\ Commit(Polled(Turn, up))
    /\ UNCHANGED <<alive, cmds>>

\* The poll no longer lists the process: pipe-down if the pipe was up, then process-gone.
ProcessGone ==
    /\ alive /\ Room
    /\ alive' = FALSE
    /\ live' = FALSE
    /\ Commit(IF s.disposed THEN Turn
              ELSE Enqueue(IF live THEN OnPipeDown(Turn) ELSE Turn, "gone"))
    /\ UNCHANGED cmds

\* HookManager.dispose()
Dispose ==
    /\ ~s.disposed
    /\ Commit(EmitDisconnected([TearDown(StopWatch(Turn), FALSE) EXCEPT !.disposed = TRUE],
                               s.loggedIn))
    /\ UNCHANGED <<live, alive, cmds>>

\* A loginState frame on either pipe.  A client whose runtime has failed ignores frames.
LoginFrame(st) ==
    /\ s.client /\ s.sockets # {} /\ ~s.runtimeFailure
    /\ Commit(HandleLoginState([Turn EXCEPT !.peer = st], st))
    /\ UNCHANGED <<live, alive, cmds>>

\* QQ reports that its runtime failed; the client rejects its requests.
RuntimeError ==
    /\ s.client /\ "control" \in s.sockets /\ ~s.runtimeFailure /\ ~s.disposed
    /\ LET x == [StopWatch(Turn) EXCEPT !.runtimeFailure = TRUE, !.loggedIn = FALSE,
                                        !.reconcile = FALSE, !.reqs = 0]
       IN  Commit(EmitDisconnected(ApplyStatus(ResetReceiveWatch(x, NoUin), s.loggedIn),
                                   s.loggedIn))
    /\ UNCHANGED <<live, alive, cmds>>

PacketFrame(kind, uin) ==
    /\ s.client /\ "recv" \in s.sockets /\ ~s.runtimeFailure
    /\ Commit(HandlePacket(Turn, kind, uin))
    /\ UNCHANGED <<live, alive, cmds>>

\* A socket of the client closes: its requests fail, a close operation is queued.
SocketCloses(pipe) ==
    /\ pipe \in s.sockets /\ Room
    /\ LET x == [Turn EXCEPT !.sockets = @ \ {pipe},
                             !.reqs = IF pipe = "control" THEN 0 ELSE @]
       IN  Commit(IF s.disposed THEN x ELSE Enqueue(x, "close"))
    /\ UNCHANGED <<live, alive, cmds>>

\* The timers of scheduleReceiveStaleCheck; `quiet` is whether the silence
\* has lasted long enough on the wall clock.
ReceiveTimer(quiet) ==
    /\ s.recvTimer # "off"
    /\ Commit(IF ~ShouldWatchReceive(s) THEN [Turn EXCEPT !.recvTimer = "off"]
              ELSE IF s.recvTimer = "stale" THEN [Turn EXCEPT !.recvTimer = "confirm"]
              ELSE IF ~quiet THEN [Turn EXCEPT !.recvTimer = "stale"]
              ELSE SetReceiveHealthy([Turn EXCEPT !.recvTimer = "off"], FALSE))
    /\ UNCHANGED <<live, alive, cmds>>

\* The Bridge that holds this PID's sender sends a request.
Send ==
    /\ s.client /\ s.loggedIn /\ s.peer.in /\ "control" \in s.sockets /\ ~s.runtimeFailure
    /\ s.reqs < MaxReqs
    /\ Commit([Turn EXCEPT !.reqs = @ + 1])
    /\ UNCHANGED <<live, alive, cmds>>

\* Mutant: an answer is counted although its request was rejected before.
RequestEndsTwice(how) ==
    /\ s.client
    /\ LET x == [Turn EXCEPT !.reqs = @ - 1]
       IN  Commit(IF how = "lost" THEN x ELSE SenderReports(x, how = "answered"))
    /\ UNCHANGED <<live, alive, cmds>>

\* A request ends: it is answered, the hook answers that QQ's connection is
\* unavailable (status -39), or it times out or fails otherwise.
RequestEnds(how) ==
    /\ s.reqs > 0
    /\ LET x == [Turn EXCEPT !.reqs = @ - 1]
       IN  Commit(CASE how = "answered"    -> SenderReports(x, TRUE)
                    [] how = "unavailable" -> SenderReports(x, FALSE)
                    [] how = "lost"        -> x)
    /\ UNCHANGED <<live, alive, cmds>>

Next ==
    \/ \E o \in {"load", "unload", "refresh"} : Command(o)
    \/ RunNext
    \/ \E ok \in BOOLEAN : InjectReturns(ok)
    \/ \E up \in BOOLEAN : TickLoadReturns(up)
    \/ \E ok \in BOOLEAN : UnloadReturns(ok)
    \/ \E up \in BOOLEAN : TickUnloadReturns(up)
    \/ PipeOpens
    \/ ConnectOk
    \/ \E timedOut \in BOOLEAN : ConnectFails(timedOut)
    \/ WatchFires
    \/ \E up \in BOOLEAN : Poll(up)
    \/ ProcessGone
    \/ Dispose
    \/ \E st \in LoginState : LoginFrame(st)
    \/ RuntimeError
    \/ \E kind \in Kinds, uin \in Uins \cup {NoUin} : PacketFrame(kind, uin)
    \/ \E pipe \in Pipes : SocketCloses(pipe)
    \/ \E quiet \in BOOLEAN : ReceiveTimer(quiet)
    \/ Send
    \/ \E how \in {"answered", "unavailable", "lost"} : RequestEnds(how)

-----------------------------------------------------------------------------
(* Fairness.  Both are weak fairness, with the enabling condition spelled  *)
(* out as a state predicate.  Nothing is assumed of QQ, of the user or of  *)
(* the network.                                                            *)

\* opChain goes on: the event loop starts the next operation, a handshake
\* ends at the latest with its deadline, the watcher's poll and the native
\* injector return.
OperationStep ==
    \/ RunNext
    \/ \E ok \in BOOLEAN : InjectReturns(ok) \/ UnloadReturns(ok)
    \/ \E up \in BOOLEAN : TickLoadReturns(up) \/ TickUnloadReturns(up)
    \/ ConnectOk
    \/ \E timedOut \in BOOLEAN : ConnectFails(timedOut)

\* Mutant: connect() is awaited without a deadline.
HandshakeUnbounded == FALSE

\* connectWithTimeout: the deadline's timer ends every handshake that is awaited.
HandshakeBounded == s.pc = "connect"

OperationPending ==
    \/ s.pc = "idle" /\ s.queue # <<>>
    \/ HandshakeBounded
    \/ s.pc \notin {"idle", "connect"}

\* The watcher's interval: a poll that would have an effect on the session,
\* with the pipe as it is, comes about.
PollMatters == alive /\ Polled(Turn, live) # s

Fairness ==
    /\ []<>~OperationPending \/ []<><<OperationStep>>_vars
    /\ []<>~PollMatters \/ []<><<Poll(live)>>_vars

Spec == Init /\ [][Next]_vars /\ Fairness

-----------------------------------------------------------------------------
TypeOK ==
    /\ s \in Session
    /\ live \in BOOLEAN /\ alive \in BOOLEAN /\ cmds \in Nat
    /\ bound \in Uins \cup {NoUin} /\ shown \in BOOLEAN

\* The listeners hold this PID, and the receive path is watched, exactly while
\* the session is logged in: every path that clears loggedIn emits
\* 'disconnected' and stops the watchdog.  The account watched is the session's
\* or the one a packet has moved the PID to, never a former one.
HeldWhileLoggedIn ==
    /\ bound # NoUin <=> s.loggedIn
    /\ s.recvUin # NoUin <=> s.loggedIn
    /\ s.loggedIn => s.recvUin \in {s.uin, bound}

\* A login is backed by the connection it came over: a logged-in session has
\* a client with no failed runtime, names a real account, and is connected
\* unless its handshake is still under way.
LoginIsBacked ==
    s.loggedIn => /\ s.client /\ ~s.runtimeFailure /\ ~s.disposed
                  /\ s.uin # NoUin
                  /\ s.connected \/ s.pc = "connect"

\* The initial-connection deadline ends with the first connection: no watch
\* and no expired deadline outlive it, whatever was queued meanwhile.
DeadlineEndsOnConnect ==
    s.connected => /\ s.hasConnected /\ s.watch = "off" /\ ~s.initErr
                   /\ \A i \in DOMAIN s.queue : s.queue[i] # "expire"

\* While connected and not logged in, identity is being reconciled ("the
\* Docker auto-login safety net"), and only then.
ReconcileWhileAwaitingLogin ==
    s.reconcile <=> (s.connected /\ ~s.loggedIn /\ ~s.runtimeFailure)

\* onPipeUp is coalesced: "watcher ticks must not queue a backlog of stalled
\* handshakes ahead of user commands".
OnePipeUp ==
    LET ups == {i \in DOMAIN s.queue : s.queue[i] = "pipeUp"}
    IN  /\ \A i, j \in ups : i = j
        /\ s.pipeUpPending <=> (ups # {} \/ s.op = "pipeUp")
        /\ ups # {} => s.op # "pipeUp"

\* The receive path is found stale, and its timers run, only for a login whose
\* watchdog was armed: neither the verdict nor a timer outlives the login or
\* passes to another account that has not been heard from.
StaleOnlyWhenArmed ==
    ~s.recvOk \/ s.recvTimer # "off" => s.loggedIn /\ s.recvArmed

\* What the session tells its listeners keeps the promises of SessionContract:
\* no repeated login, no disconnect without a login, no packet outside a
\* login, no health that turns bad unreported.
Contract == INSTANCE SessionContract WITH
    login <- IF s.loggedIn THEN s.uin ELSE NoUin, ok <- Healthy(s), out <- s.out

ContractKept == Contract!Spec

\* A command of the user is never stuck behind a handshake or a watcher
\* event: "a stalled handshake must release the serialized operation queue so
\* timeout handling and unload can run".
CommandsRun ==
    \A o \in {"load", "unload", "refresh"} :
        (\E i \in DOMAIN s.queue : s.queue[i] = o) ~> (\A i \in DOMAIN s.queue : s.queue[i] # o)

\* While the pipe stays up, a session that is not disposed keeps trying to
\* connect: none is "stranded forever" when its own socket died under a live
\* pipe, when an attempt failed or when an unload did not take.
KeepsConnecting ==
    <>[](live /\ ~s.disposed) => []<>(s.connected \/ s.pc = "connect")

\* 'receive-health-changed' is emitted only while the PID is held for an
\* account: BridgeManager throws "receive health for unmapped PID" otherwise.
HealthOnlyWhenBound ==
    \A i \in DOMAIN s.out : s.out[i].ev = "health" => bound # NoUin

\* The health shown for a PID is its session's "combined receive/request path
\* health": a request path reported bad stays bad until a request succeeds.
ShownHealthAgrees ==
    bound # NoUin => (shown <=> Healthy(s))

\* hook-status.ts: the settled status "is a function of the flags alone", so
\* with nothing queued, no library injected and no pipe, a session that shows no error is
\* 'available'.
IdleStatusIsAvailable ==
    (/\ s.pc = "idle" /\ s.queue = <<>> /\ ~s.injected /\ ~live
     /\ s.status # "error") => s.status = "available"
=============================================================================
