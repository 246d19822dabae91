----------------------------- MODULE QqHookClient -----------------------------
(***************************************************************************)
(* The control pipe of QqHookClient (packages/bridge/src/qq-hook-client.ts)*)
(* and the requests that share it: the connection that all callers await,  *)
(* the request ids that wrap, the tables of pending acknowledgements and   *)
(* replies, the chain of writes, timeouts, error frames, a lost socket and *)
(* the connection after it, a failure of the runtime, close().             *)
(*                                                                         *)
(* A call is one send() or sendAckOnly().  Continuations are microtasks:   *)
(* calls, timers and socket events come when none is due (Settled), frames *)
(* of one chunk and close() at any time.                                   *)
(*                                                                         *)
(* The peer answers what it has read in any order, at most once, or never. *)
(* Left out: the recv pipe, which HookSession has, waitForLogin and what   *)
(* frames carry.                                                           *)
(***************************************************************************)
EXTENDS Naturals, Sequences

CONSTANTS
    Calls,      \* the calls of send()
    IdMod,      \* ids are taken modulo this: 2^32
    MaxConns    \* bound: connections that are tried

ASSUME IdModAssumption == IdMod \in Nat /\ IdMod > 2

ASSUME MaxConnsAssumption == MaxConns \in Nat

\* A call is none of the marks that stand where a call might.
ASSUME CallsAssumption == Calls \cap {"free", "pending", "err"} = {}

VARIABLES
    client,     \* the client
    call        \* the state of each call

vars == <<client, call>>

\* Request ids; 0 is the wire's sentinel.
Ids == 1 .. (IdMod - 1)

Free == "free"

\* A call.  `gen`: the connection its write is for; `ack` and `reply`: pending,
\* rejected, or the call whose answer has resolved it.
Call == [
    pc: {"idle", "connect", "register", "queue", "write", "ack", "reply", "ok", "failed"},
    want: BOOLEAN,
    id: Ids,
    gen: 0..MaxConns,
    ack: {"pending", "err"} \cup Calls,
    reply: {"pending", "err"} \cup Calls]

\* `link`: the socket is being connected, has yet to say hello, has said so,
\* or is up; `dead`: it is destroyed, its close event is to come; `peer`: the
\* answers that may come, the call and the kind of frame.
Init ==
    /\ client = [closed |-> FALSE, failed |-> FALSE, link |-> "none", gen |-> 0, dead |-> FALSE,
                 next |-> 1, acks |-> [i \in Ids |-> Free], replies |-> [i \in Ids |-> Free],
                 chain |-> <<>>, peer |-> {}]
    /\ call = [r \in Calls |-> [pc |-> "idle", want |-> FALSE, id |-> 1, gen |-> 0,
                                ack |-> "pending", reply |-> "pending"]]

-----------------------------------------------------------------------------
\* assertUsable
Usable == ~client.closed /\ ~client.failed

\* The socket of connection g is the client's and has not been destroyed.
Alive(g) == g = client.gen /\ ~client.dead /\ client.link \in {"hello", "greeted", "up"}

Pending(i) == client.acks[i] # Free \/ client.replies[i] # Free

\* How many ids are between, upwards from i and past the wrap.
Distance(i, j) == ((j + IdMod - 1) - i) % (IdMod - 1)

\* Mutant: ids that are still pending are not skipped.
NextIdAsIs == client.next

\* allocateRequestId: the first id from nextRequestId on that is not pending.
NextId ==
    CHOOSE i \in Ids :
        /\ ~Pending(i)
        /\ \A j \in Ids : ~Pending(j) => Distance(client.next, i) <= Distance(client.next, j)

Following(i) == IF (i + 1) % IdMod = 0 THEN 1 ELSE i + 1

InFlight(r) == call[r].pc \in {"queue", "write", "ack", "reply"}

InTables(r) == client.acks[call[r].id] = r \/ client.replies[call[r].id] = r

\* Bounds: fewer requests are pending than there are ids, and the ids do not
\* come round while a call that has left the tables awaits its write.
MayRegister(r) ==
    /\ call[r].pc = "register"
    /\ \E i \in Ids : ~Pending(i)
    /\ \A q \in Calls : InFlight(q) /\ ~InTables(q) => call[q].id # NextId

\* The call goes on in this turn of the event loop.
Due(r) ==
    \/ MayRegister(r)
    \/ call[r].pc = "queue" /\ r = Head(client.chain)
    \/ call[r].pc = "ack" /\ call[r].ack # "pending"
    \/ call[r].pc = "reply" /\ call[r].reply # "pending"

Settled == client.link # "greeted" /\ \A r \in Calls : ~Due(r)

-----------------------------------------------------------------------------
\* A call that is over; its id is all that answers still to come refer to.
Over(x, pc) ==
    [x EXCEPT !.pc = pc, !.want = FALSE, !.gen = 0, !.ack = "pending", !.reply = "pending"]

\* Mutant: those who await the connection are not told.
RejectControlPendingOnly(c) ==
    /\ client' = [c EXCEPT !.acks = [i \in Ids |-> Free], !.replies = [i \in Ids |-> Free]]
    /\ call' = [r \in Calls |->
        [call[r] EXCEPT
            !.ack = IF c.acks[call[r].id] = r THEN "err" ELSE @,
            !.reply = IF c.replies[call[r].id] = r THEN "err" ELSE @]]

\* rejectControlPending: the tables, and the connection that awaits its hello
\* with those who await the connection.
RejectControlPending(c) ==
    /\ client' = [c EXCEPT !.acks = [i \in Ids |-> Free], !.replies = [i \in Ids |-> Free]]
    /\ call' = [r \in Calls |->
        IF call[r].pc = "connect" /\ client.link = "hello" THEN Over(call[r], "failed")
        ELSE [call[r] EXCEPT
            !.ack = IF c.acks[call[r].id] = r THEN "err" ELSE @,
            !.reply = IF c.replies[call[r].id] = r THEN "err" ELSE @]]

\* Mutant: only the acknowledgement is forgotten.
FailKeepingReply(c, r) ==
    /\ client' = [c EXCEPT !.acks[call[r].id] = Free]
    /\ call' = [call EXCEPT ![r] = Over(@, "failed")]

\* The catch of send(): the call fails and forgets what is under its id.
Fail(c, r) ==
    /\ client' = [c EXCEPT !.acks[call[r].id] = Free, !.replies[call[r].id] = Free]
    /\ call' = [call EXCEPT ![r] = Over(@, "failed")]

-----------------------------------------------------------------------------
(* The connection.                                                         *)

\* send() or sendAckOnly(), up to its await of connect(), by any idle call:
\* their names do not matter.
Send(want) ==
    /\ Settled
    /\ \E q \in Calls : call[q].pc = "idle"
    /\ LET r == CHOOSE q \in Calls : call[q].pc = "idle"
           dials == Usable /\ client.link = "none"
       IN  /\ dials => client.gen < MaxConns
           /\ client' = IF dials THEN [client EXCEPT !.link = "dialing", !.gen = @ + 1] ELSE client
           /\ call' = [call EXCEPT
                ![r] = IF ~Usable THEN Over(@, "failed")
                       ELSE [@ EXCEPT !.want = want, !.pc = IF client.link = "up" THEN "register" ELSE "connect"]]

\* What those who await the connection do when it settles.
Connected(ok) ==
    [r \in Calls |-> IF call[r].pc # "connect" THEN call[r]
                     ELSE IF ok THEN [call[r] EXCEPT !.pc = "register"]
                     ELSE Over(call[r], "failed")]

\* connectSocket settles, and connectPipe looks whether the client was closed.
Dialed(ok) ==
    /\ Settled
    /\ client.link = "dialing"
    /\ LET up == ok /\ Usable
       IN  /\ client' = [client EXCEPT !.link = IF up THEN "hello" ELSE "none"]
           /\ call' = IF up THEN call ELSE Connected(FALSE)

\* The hello frame
Hello ==
    /\ ~client.failed /\ client.link = "hello" /\ ~client.dead
    /\ client' = [client EXCEPT !.link = "greeted"]
    /\ UNCHANGED call

\* connectPipe after the hello
ConnectResumes ==
    /\ client.link = "greeted"
    /\ client' = [client EXCEPT !.link = IF client.closed THEN "none" ELSE IF client.failed THEN "hello" ELSE "up"]
    /\ call' = Connected(Usable)

\* The socket fails, the peer leaves, or a frame cannot be read.
SocketDies ==
    /\ Settled
    /\ client.link \in {"hello", "up"} /\ ~client.dead
    /\ client' = [client EXCEPT !.dead = TRUE, !.peer = {}]
    /\ UNCHANGED call

\* handleSocketClose
HandleSocketClose ==
    /\ Settled
    /\ client.dead
    /\ RejectControlPending([client EXCEPT !.link = "none", !.dead = FALSE])

\* The frame that says that the runtime has failed
RuntimeError ==
    /\ ~client.failed /\ Alive(client.gen)
    /\ RejectControlPending([client EXCEPT !.failed = TRUE])

\* close(); a socket that is being connected ends later.
Close ==
    /\ ~client.closed
    /\ RejectControlPending([client EXCEPT
        !.closed = TRUE, !.dead = FALSE, !.peer = {},
        !.link = IF @ \in {"dialing", "greeted"} THEN @ ELSE "none"])

-----------------------------------------------------------------------------
(* A request.                                                              *)

\* send() once connected: the id, the tables, and writeControl.  An answer to
\* a call that was given up does not outlive a turn of the ids.
Register(r) ==
    /\ MayRegister(r)
    /\ LET i == NextId
           c == [client EXCEPT !.next = Following(i)]
       IN  IF Alive(client.gen)
             THEN /\ client' = [c EXCEPT
                        !.acks[i] = r,
                        !.replies[i] = IF call[r].want THEN r ELSE @,
                        !.chain = Append(@, r),
                        !.peer = {a \in @ : call[a[1]].id # i \/ InTables(a[1])}]
                  /\ call' = [call EXCEPT ![r].id = i, ![r].gen = client.gen, ![r].pc = "queue"]
           ELSE /\ client' = c
                /\ call' = [call EXCEPT ![r] = Over(@, "failed")]

\* The write's turn in the chain
Write(r) ==
    /\ call[r].pc = "queue" /\ r = Head(client.chain)
    /\ IF Usable /\ Alive(call[r].gen)
         THEN /\ client' = [client EXCEPT !.peer = @ \cup
                    {<<r, "ack">>} \cup (IF call[r].want THEN {<<r, "reply">>} ELSE {})]
              /\ call' = [call EXCEPT ![r].pc = "write"]
       ELSE Fail([client EXCEPT !.chain = Tail(@)], r)

\* The write's callback; the next one in the chain has its turn.
WriteSettles(r, ok) ==
    /\ Settled
    /\ call[r].pc = "write"
    /\ ~ok => ~Alive(call[r].gen)
    /\ IF ok THEN /\ client' = [client EXCEPT !.chain = Tail(@)]
                  /\ call' = [call EXCEPT ![r].pc = "ack"]
       ELSE Fail([client EXCEPT !.chain = Tail(@)], r)

\* A sendAck frame, for the id under which r was sent
HandleAck(r) ==
    /\ ~client.failed /\ <<r, "ack">> \in client.peer
    /\ LET i == call[r].id
           owner == client.acks[i]
       IN  /\ client' = [client EXCEPT !.peer = @ \ {<<r, "ack">>}, !.acks[i] = Free]
           /\ call' = IF owner = Free THEN call ELSE [call EXCEPT ![owner].ack = r]

\* A sendReply frame
HandleReply(r) ==
    /\ ~client.failed /\ <<r, "reply">> \in client.peer
    /\ LET i == call[r].id
           owner == client.replies[i]
       IN  /\ client' = [client EXCEPT !.peer = @ \ {<<r, "reply">>}, !.replies[i] = Free]
           /\ call' = IF owner = Free THEN call ELSE [call EXCEPT ![owner].reply = r]

\* An error frame for the request, instead of what is still to come
HandleError(r) ==
    /\ ~client.failed
    /\ \E a \in client.peer : a[1] = r
    /\ LET i == call[r].id
       IN  /\ client' = [client EXCEPT !.peer = {a \in @ : a[1] # r},
                                       !.acks[i] = Free, !.replies[i] = Free]
           /\ call' = [q \in Calls |-> [call[q] EXCEPT
                !.ack = IF client.acks[i] = q THEN "err" ELSE @,
                !.reply = IF client.replies[i] = q THEN "err" ELSE @]]

\* send() after the acknowledgement
AckResumes(r) ==
    /\ call[r].pc = "ack" /\ call[r].ack # "pending"
    /\ IF call[r].ack = "err" THEN Fail(client, r)
       ELSE /\ call' = [call EXCEPT ![r] = IF @.want THEN [@ EXCEPT !.pc = "reply"] ELSE Over(@, "ok")]
            /\ UNCHANGED client

\* send() after the reply
ReplyResumes(r) ==
    /\ call[r].pc = "reply" /\ call[r].reply # "pending"
    /\ IF call[r].reply = "err" THEN Fail(client, r)
       ELSE /\ call' = [call EXCEPT ![r] = Over(@, "ok")]
            /\ UNCHANGED client

\* withTimeout, of the acknowledgement and of the reply
TimesOut(r) ==
    /\ Settled
    /\ call[r].pc \in {"ack", "reply"}
    /\ Fail(client, r)

-----------------------------------------------------------------------------
\* Microtasks, timers and the events of sockets
Progress ==
    \/ \E ok \in BOOLEAN : Dialed(ok)
    \/ ConnectResumes
    \/ HandleSocketClose
    \/ \E r \in Calls :
        \/ Register(r)
        \/ Write(r)
        \/ \E ok \in BOOLEAN : WriteSettles(r, ok)
        \/ AckResumes(r)
        \/ ReplyResumes(r)
        \/ TimesOut(r)

Next ==
    \/ Progress
    \/ Hello
    \/ SocketDies
    \/ RuntimeError
    \/ Close
    \/ \E want \in BOOLEAN : Send(want)
    \/ \E r \in Calls :
        \/ HandleAck(r)
        \/ HandleReply(r)
        \/ HandleError(r)

Spec == Init /\ [][Next]_vars

\* Calls and connections are few, so what keeps the event loop going gets all
\* of them through; a write ends as long as the peer reads its pipe or leaves.
\* A connection gets its hello or ends, which HookSession's deadline on the
\* handshake sees to.  Nothing is assumed of the peer's answers.
Fairness ==
    /\ WF_vars(Progress)
    /\ WF_vars(client.link = "hello" /\ (Hello \/ SocketDies \/ Close))

FairSpec == Spec /\ Fairness

-----------------------------------------------------------------------------
\* An acknowledgement or a reply resolves the call it was sent for, although
\* ids wrap, calls time out and their answers come late, and the socket is
\* replaced: the bounds of MayRegister and Register are all this needs.
OwnAnswer ==
    \A r \in Calls :
        /\ call[r].ack \in {"pending", "err", r}
        /\ call[r].reply \in {"pending", "err", r}

\* The tables hold the calls that await an answer, each under its own id, and
\* nobody else: no entry is left behind to make an id unusable for ever, and
\* none is taken from a call that waits.
TablesMatchCalls ==
    /\ client.next \in Ids
    /\ call \in [Calls -> Call]
    /\ \A r \in Calls : \A i \in Ids :
        /\ client.acks[i] = r <=>
            call[r].id = i /\ call[r].pc \in {"queue", "write", "ack"} /\ call[r].ack = "pending"
        /\ client.replies[i] = r <=>
            call[r].id = i /\ InFlight(r) /\ call[r].want /\ call[r].reply = "pending"

\* Every call ends, whatever the peer answers and whenever the socket, the
\* runtime or the client goes.
CallsSettle ==
    \A r \in Calls : call[r].pc # "idle" ~> call[r].pc \in {"ok", "failed"}
===============================================================================
