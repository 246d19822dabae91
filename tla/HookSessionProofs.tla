-------------------------- MODULE HookSessionProofs --------------------------
(***************************************************************************)
(* Proofs about HookSession, for any accounts and bounds.                  *)
(*                                                                         *)
(* The methods are operators from session to session, so the invariants    *)
(* are stated over a session x.  The lemmas on small methods say which     *)
(* fields they change; those on handlers follow from them without          *)
(* unfolding a record.                                                     *)
(***************************************************************************)
EXTENDS HookSession, SequenceTheorems, TLAPS

\* The fields the invariants are about, in groups.
SameFlags(x, y) ==
    /\ y.connected = x.connected /\ y.loggedIn = x.loggedIn /\ y.uin = x.uin
    /\ y.client = x.client /\ y.runtimeFailure = x.runtimeFailure
    /\ y.disposed = x.disposed /\ y.reconcile = x.reconcile

SameWatch(x, y) ==
    y.initErr = x.initErr /\ y.watch = x.watch /\ y.hasConnected = x.hasConnected

SameChain(x, y) ==
    /\ y.pipeUpPending = x.pipeUpPending /\ y.queue = x.queue
    /\ y.op = x.op /\ y.pc = x.pc

SameReceive(x, y) ==
    y.recvUin = x.recvUin /\ y.recvArmed = x.recvArmed /\ y.recvTimer = x.recvTimer

SameHealth(x, y) ==
    SameReceive(x, y) /\ y.recvOk = x.recvOk /\ y.outOk = x.outOk

Agree(x, y) ==
    SameFlags(x, y) /\ SameWatch(x, y) /\ SameChain(x, y) /\ SameHealth(x, y) /\ y.out = x.out

-----------------------------------------------------------------------------
(* Small methods.                                                          *)

\* applyStatus computes the status from the flags and changes nothing else.
LEMMA ApplyStatusMethod ==
    ASSUME NEW x \in Session, NEW w \in BOOLEAN
    PROVE  ApplyStatus(x, w) \in Session /\ Agree(x, ApplyStatus(x, w))
<1> DEFINE st == IF x.runtimeFailure \/ x.initErr THEN "error"
                 ELSE StatusFor(x.injected, x.connected, x.loggedIn, w)
<1>1. st \in Status
  BY DEF Status, StatusFor
<1> HIDE DEF st
<1>2. [x EXCEPT !.status = st] \in Session /\ Agree(x, [x EXCEPT !.status = st])
  BY <1>1 DEF Agree, SameFlags, SameWatch, SameChain, SameHealth, SameReceive, Session
<1> QED BY <1>2 DEF ApplyStatus, st

\* A superseded operation stays in its place and does nothing.
LEMMA SupersededQueue ==
    ASSUME NEW q \in Seq(Op), NEW o \in Op
    PROVE  LET r == Superseded(q, o)
           IN  /\ r \in Seq(Op) /\ DOMAIN r = DOMAIN q
               /\ \A i \in DOMAIN q : r[i] = IF q[i] = o THEN "skip" ELSE q[i]
BY DEF Superseded, Op

\* A second event follows the first.
LEMMA Pair ==
    ASSUME NEW S, NEW a \in S, NEW b \in S
    PROVE  Append(<<a>>, b) = <<a, b>>
<1> DEFINE l == Append(<<a>>, b)
           r == <<a, b>>
<1>1. l \in Seq(S) /\ r \in Seq(S) /\ Len(l) = 2 /\ Len(r) = 2
  OBVIOUS
<1>2. l[1] = a /\ l[2] = b /\ r[1] = a /\ r[2] = b
  OBVIOUS
<1> HIDE DEF l, r
<1>3. \A i \in 1..2 : l[i] = r[i]
  BY <1>2
<1>4. l = r
  BY <1>1, <1>3, SeqEqual
<1> QED BY <1>4 DEF l, r

\* An event is added to those of the turn.
LEMMA EmitMethod ==
    ASSUME NEW x \in Session, NEW e \in Event
    PROVE  LET y == Emit(x, e)
           IN  /\ y \in Session
               /\ SameFlags(x, y) /\ SameWatch(x, y) /\ SameChain(x, y) /\ SameHealth(x, y)
               /\ y.out = Append(x.out, e)
<1>1. Append(x.out, e) \in Seq(Event)
  BY DEF Session
<1>2. Emit(x, e) \in Session
  BY <1>1 DEF Emit, Session
<1> QED BY <1>2 DEF Emit, Session, SameFlags, SameWatch, SameChain, SameHealth, SameReceive

\* stopInitialConnectionWatch: an expiry that was queued finds its watch gone.
LEMMA StopWatchMethod ==
    ASSUME NEW x \in Session
    PROVE  LET y == StopWatch(x)
           IN  /\ y \in Session
               /\ SameFlags(x, y) /\ SameHealth(x, y) /\ y.out = x.out
               /\ y.watch = "off" /\ y.initErr = x.initErr /\ y.hasConnected = x.hasConnected
               /\ y.pipeUpPending = x.pipeUpPending /\ y.op = x.op /\ y.pc = x.pc
               /\ y.queue = Superseded(x.queue, "expire")
<1>1. Superseded(x.queue, "expire") \in Seq(Op)
  BY SupersededQueue DEF Session, Op
<1>2. StopWatch(x) \in Session
  BY <1>1 DEF StopWatch, Session
<1> QED BY <1>2 DEF StopWatch, Session, SameFlags, SameHealth, SameReceive

\* startInitialConnectionWatch: never once the session has been connected.
LEMMA StartWatchMethod ==
    ASSUME NEW x \in Session
    PROVE  LET y == StartWatch(x)
           IN  /\ y \in Session
               /\ SameFlags(x, y) /\ SameHealth(x, y) /\ SameChain(x, y) /\ y.out = x.out
               /\ y.initErr = x.initErr /\ y.hasConnected = x.hasConnected
               /\ y.watch = x.watch \/ (y.watch = "armed" /\ ~x.hasConnected)
<1>1. CASE x.disposed \/ x.hasConnected \/ x.watch # "off" \/ x.initErr
  BY <1>1 DEF StartWatch, SameFlags, SameHealth, SameReceive, SameChain
<1>2. CASE ~(x.disposed \/ x.hasConnected \/ x.watch # "off" \/ x.initErr)
  <2> DEFINE y == [x EXCEPT !.watch = "armed"]
  <2>1. /\ y \in Session
        /\ SameFlags(x, y) /\ SameHealth(x, y) /\ SameChain(x, y) /\ y.out = x.out
        /\ y.initErr = x.initErr /\ y.hasConnected = x.hasConnected /\ y.watch = "armed"
    BY ZenonT(60) DEF Session, SameFlags, SameHealth, SameReceive, SameChain
  <2> QED BY <1>2, <2>1 DEF StartWatch
<1> QED BY <1>1, <1>2

\* resetReceiveWatch.
LEMMA ResetReceiveWatchMethod ==
    ASSUME NEW x \in Session, NEW uin \in Uins \cup {NoUin}
    PROVE  LET y == ResetReceiveWatch(x, uin)
           IN  /\ y \in Session
               /\ SameFlags(x, y) /\ SameWatch(x, y) /\ SameChain(x, y) /\ y.out = x.out
               /\ y.recvUin = uin /\ y.recvArmed = FALSE /\ y.recvTimer = "off"
               /\ y.recvOk = TRUE /\ y.outOk = x.outOk
BY ZenonT(40) DEF ResetReceiveWatch, Session, SameFlags, SameWatch, SameChain

\* tearDownClient.
LEMMA TearDownMethod ==
    ASSUME NEW x \in Session, NEW keep \in BOOLEAN
    PROVE  LET y == TearDown(x, keep)
           IN  /\ y \in Session
               /\ SameWatch(x, y) /\ y.out = x.out
               /\ y.client = FALSE /\ y.connected = FALSE /\ y.loggedIn = FALSE /\ y.reconcile = FALSE
               /\ y.disposed = x.disposed /\ y.uin = x.uin
               /\ y.recvUin = NoUin /\ y.recvArmed = FALSE /\ y.recvTimer = "off"
               /\ y.recvOk = TRUE /\ y.outOk = TRUE
               /\ y.pipeUpPending = x.pipeUpPending /\ y.op = x.op /\ y.pc = x.pc
               /\ y.queue = Superseded(x.queue, "close")
<1>1. PICK r : r = ResetReceiveWatch(x, NoUin)
  OBVIOUS
<1>2. /\ r \in Session /\ SameFlags(x, r) /\ SameWatch(x, r) /\ SameChain(x, r) /\ r.out = x.out
      /\ r.recvUin = NoUin /\ r.recvArmed = FALSE /\ r.recvTimer = "off" /\ r.recvOk = TRUE
  BY <1>1, ResetReceiveWatchMethod, ZenonT(60)
<1>3. Superseded(r.queue, "close") \in Seq(Op)
  BY <1>2, SupersededQueue DEF Session, Op
<1>4. LoggedOut \in LoginState
  BY DEF LoggedOut, LoginState
<1>z. PICK none \in 0..2 : none = 0
  OBVIOUS
<1>r. PICK rf \in BOOLEAN : rf = (keep /\ r.runtimeFailure)
  OBVIOUS
<1> DEFINE y == [r EXCEPT
        !.client = FALSE, !.sockets = {}, !.stage = none, !.peer = LoggedOut, !.reqs = 0,
        !.senderOk = TRUE, !.reconcile = FALSE, !.connected = FALSE, !.loggedIn = FALSE,
        !.outOk = TRUE, !.runtimeFailure = rf,
        !.queue = Superseded(r.queue, "close")]
<1>5. y \in Session
  <2> DEFINE y1 == [r EXCEPT
        !.client = FALSE, !.sockets = {}, !.stage = none, !.peer = LoggedOut, !.reqs = 0]
             y2 == [y1 EXCEPT
        !.senderOk = TRUE, !.reconcile = FALSE, !.connected = FALSE, !.loggedIn = FALSE]
             y3 == [y2 EXCEPT
        !.outOk = TRUE, !.runtimeFailure = rf, !.queue = Superseded(r.queue, "close")]
  <2>1. y1 \in Session
    BY <1>2, <1>4, ZenonT(120) DEF Session
  <2> HIDE DEF y1
  <2>2. y2 \in Session
    BY <2>1, ZenonT(120) DEF Session
  <2> HIDE DEF y2
  <2>3. y3 \in Session
    BY <2>2, <1>3, ZenonT(40) DEF Session
  <2> QED BY <2>3 DEF y1, y2
<1>6. /\ SameWatch(r, y) /\ y.out = r.out
      /\ y.client = FALSE /\ y.connected = FALSE /\ y.loggedIn = FALSE /\ y.reconcile = FALSE
      /\ y.disposed = r.disposed /\ y.uin = r.uin
      /\ SameReceive(r, y) /\ y.recvOk = r.recvOk /\ y.outOk = TRUE
      /\ y.pipeUpPending = r.pipeUpPending /\ y.op = r.op /\ y.pc = r.pc
      /\ y.queue = Superseded(r.queue, "close")
  BY <1>2 DEF Session, SameWatch, SameReceive
<1>7. TearDown(x, keep) = y
  BY <1>1, <1>r, <1>z DEF TearDown
<1> HIDE DEF y
<1> QED BY <1>2, <1>5, <1>6, <1>7 DEF SameFlags, SameWatch, SameChain, SameReceive

\* setReceiveHealthy: a change of the combined health is told.
LEMMA SetReceiveHealthyMethod ==
    ASSUME NEW x \in Session, NEW ok \in BOOLEAN
    PROVE  LET y == SetReceiveHealthy(x, ok)
           IN  /\ y \in Session
               /\ SameFlags(x, y) /\ SameWatch(x, y) /\ SameChain(x, y)
               /\ SameReceive(x, y)
               /\ y.recvOk = ok /\ y.outOk = x.outOk
               /\ y.out = IF Healthy(x) = Healthy(y) THEN x.out
                          ELSE Append(x.out, [ev |-> "health", ok |-> ok])
<1> DEFINE z == [x EXCEPT !.recvOk = ok]
<1>1. z \in Session /\ SameFlags(x, z) /\ SameWatch(x, z) /\ SameChain(x, z)
      /\ SameReceive(x, z)
      /\ z.recvOk = ok /\ z.outOk = x.outOk /\ z.out = x.out
  BY SMTT(30) DEF Session, SameFlags, SameWatch, SameChain, SameReceive
<1>2. [ev |-> "health", ok |-> ok] \in Event
  BY DEF Event
<1> HIDE DEF z
<1>3. CASE x.recvOk = ok
  BY <1>3 DEF SetReceiveHealthy, SameFlags, SameWatch, SameChain, SameReceive
<1>4. CASE x.recvOk # ok /\ Healthy(x) = Healthy(z)
  BY <1>1, <1>4 DEF SetReceiveHealthy, z
<1>5. CASE x.recvOk # ok /\ Healthy(x) # Healthy(z)
  <2> DEFINE y == Emit(z, [ev |-> "health", ok |-> ok])
  <2>1. SetReceiveHealthy(x, ok) = y
    BY <1>5 DEF SetReceiveHealthy, z
  <2>3. Healthy(y) = Healthy(z)
    BY <1>1, <1>2, EmitMethod DEF Healthy, SameHealth, SameReceive
  <2> QED BY <1>1, <1>2, <1>5, <2>1, <2>3, EmitMethod
             DEF SameFlags, SameWatch, SameChain, SameHealth, SameReceive
<1> QED BY <1>3, <1>4, <1>5

\* setOutboundHealthy.
LEMMA SetOutboundHealthyMethod ==
    ASSUME NEW x \in Session, NEW ok \in BOOLEAN
    PROVE  LET y == SetOutboundHealthy(x, ok)
           IN  /\ y \in Session
               /\ SameFlags(x, y) /\ SameWatch(x, y) /\ SameChain(x, y)
               /\ SameReceive(x, y) /\ y.recvOk = x.recvOk /\ y.outOk = ok
               /\ y.out = IF Healthy(x) = Healthy(y) THEN x.out
                          ELSE Append(x.out, [ev |-> "health", ok |-> ok])
<1> DEFINE z == [x EXCEPT !.outOk = ok]
<1>1. z \in Session /\ SameFlags(x, z) /\ SameWatch(x, z) /\ SameChain(x, z)
      /\ SameReceive(x, z)
      /\ z.recvOk = x.recvOk /\ z.outOk = ok /\ z.out = x.out
  BY DEF Session, SameFlags, SameWatch, SameChain, SameReceive
<1>2. [ev |-> "health", ok |-> ok] \in Event
  BY DEF Event
<1> HIDE DEF z
<1>3. CASE x.outOk = ok
  BY <1>3 DEF SetOutboundHealthy, SameFlags, SameWatch, SameChain, SameReceive
<1>4. CASE x.outOk # ok /\ Healthy(x) = Healthy(z)
  BY <1>1, <1>4 DEF SetOutboundHealthy, z
<1>5. CASE x.outOk # ok /\ Healthy(x) # Healthy(z)
  <2> DEFINE y == Emit(z, [ev |-> "health", ok |-> ok])
  <2>1. SetOutboundHealthy(x, ok) = y
    BY <1>5 DEF SetOutboundHealthy, z
  <2>3. Healthy(y) = Healthy(z)
    BY <1>1, <1>2, EmitMethod DEF Healthy, SameHealth, SameReceive
  <2> QED BY <1>1, <1>2, <1>5, <2>1, <2>3, EmitMethod
             DEF SameFlags, SameWatch, SameChain, SameHealth, SameReceive
<1> QED BY <1>3, <1>4, <1>5

\* The sender tells the session of a change in its health.
LEMMA SenderReportsMethod ==
    ASSUME NEW x \in Session, NEW ok \in BOOLEAN
    PROVE  LET y == SenderReports(x, ok)
           IN  /\ y \in Session
               /\ SameFlags(x, y) /\ SameWatch(x, y) /\ SameChain(x, y)
               /\ SameReceive(x, y) /\ y.recvOk = x.recvOk
               /\ y.outOk = x.outOk \/ y.outOk = ok
               /\ y.out = IF Healthy(x) = Healthy(y) THEN x.out
                          ELSE Append(x.out, [ev |-> "health", ok |-> ok])
<1>1. CASE x.senderOk = ok
  BY <1>1 DEF SenderReports, SameFlags, SameWatch, SameChain, SameReceive
<1>2. CASE x.senderOk # ok
  <2> DEFINE z == [x EXCEPT !.senderOk = ok]
  <2>1. z \in Session /\ Agree(x, z) /\ Healthy(z) = Healthy(x)
    BY DEF Session, Agree, SameFlags, SameWatch, SameChain, SameHealth, SameReceive, Healthy
  <2>2. SenderReports(x, ok) = SetOutboundHealthy(z, ok)
    BY <1>2 DEF SenderReports
  <2> HIDE DEF z
  <2> QED BY <2>1, <2>2, SetOutboundHealthyMethod
             DEF Agree, SameFlags, SameWatch, SameChain, SameHealth, SameReceive
<1> QED BY <1>1, <1>2

\* The operation at the head of the chain settles.
LEMMA DoneMethod ==
    ASSUME NEW x \in Session
    PROVE  LET y == Done(x)
           IN  /\ y \in Session
               /\ SameFlags(x, y) /\ SameWatch(x, y) /\ SameHealth(x, y) /\ y.out = x.out
               /\ y.queue = x.queue /\ y.op = "none" /\ y.pc = "idle"
               /\ y.pipeUpPending = IF x.op = "pipeUp" THEN FALSE ELSE x.pipeUpPending
<1>1. PICK b \in BOOLEAN : b = IF x.op = "pipeUp" THEN FALSE ELSE x.pipeUpPending
  BY DEF Session
<1> DEFINE z == [x EXCEPT !.op = "none", !.pc = "idle", !.pipeUpPending = b]
<1>a. "idle" \in Await
  BY DEF Await
<1>2. z \in Session
  BY <1>a DEF Session
<1>s. /\ SameFlags(x, z) /\ SameWatch(x, z) /\ SameHealth(x, z) /\ z.out = x.out
      /\ z.queue = x.queue /\ z.op = "none" /\ z.pc = "idle" /\ z.pipeUpPending = b
  BY DEF Session, SameFlags, SameWatch, SameHealth, SameReceive
<1>3. Done(x) = z
  BY <1>1 DEF Done
<1> HIDE DEF z
<1> QED BY <1>1, <1>2, <1>s, <1>3

\* attemptConnect up to its await: there is a client now.
LEMMA AttemptConnectMethod ==
    ASSUME NEW x \in Session
    PROVE  LET y == AttemptConnect(x)
           IN  /\ y \in Session
               /\ SameWatch(x, y) /\ SameHealth(x, y) /\ y.out = x.out
               /\ y.connected = x.connected /\ y.loggedIn = x.loggedIn /\ y.uin = x.uin
               /\ y.disposed = x.disposed /\ y.reconcile = x.reconcile
               /\ y.client = TRUE
               /\ y.runtimeFailure = IF x.client THEN x.runtimeFailure ELSE FALSE
               /\ y.queue = x.queue /\ y.op = x.op /\ y.pc = "connect"
               /\ y.pipeUpPending = x.pipeUpPending
<1>1. CASE x.client
  <2> DEFINE z == [x EXCEPT !.pc = "connect"]
  <2>1. /\ z \in Session
        /\ SameFlags(x, z) /\ SameWatch(x, z) /\ SameHealth(x, z) /\ z.out = x.out
        /\ z.queue = x.queue /\ z.op = x.op /\ z.pc = "connect" /\ z.pipeUpPending = x.pipeUpPending
    BY SMTT(30) DEF Session, Await, SameFlags, SameWatch, SameHealth, SameReceive
  <2>2. AttemptConnect(x) = z
    BY <1>1 DEF AttemptConnect
  <2>3. x.client = TRUE
    BY <1>1 DEF Session
  <2> HIDE DEF z
  <2> QED BY <1>1, <2>1, <2>2, <2>3 DEF SameFlags
<1>2. CASE ~x.client
  <2>1. PICK none \in 0..2 : none = 0
    OBVIOUS
  <2>2. LoggedOut \in LoginState
    BY DEF LoggedOut, LoginState
  <2> DEFINE z1 == [x EXCEPT !.runtimeFailure = FALSE, !.client = TRUE, !.sockets = {}, !.stage = none]
             z == [z1 EXCEPT !.peer = LoggedOut, !.reqs = 0, !.senderOk = TRUE, !.pc = "connect"]
  <2>3. /\ z1 \in Session
        /\ SameWatch(x, z1) /\ SameHealth(x, z1) /\ SameChain(x, z1) /\ z1.out = x.out
        /\ z1.connected = x.connected /\ z1.loggedIn = x.loggedIn /\ z1.uin = x.uin
        /\ z1.disposed = x.disposed /\ z1.reconcile = x.reconcile
        /\ z1.client = TRUE /\ z1.runtimeFailure = FALSE
    BY ZenonT(60) DEF Session, SameWatch, SameHealth, SameReceive, SameChain
  <2>4. AttemptConnect(x) = z
    BY <1>2, <2>1 DEF AttemptConnect
  <2> HIDE DEF z1
  <2>a. "connect" \in Await
    BY DEF Await
  <2>5. z \in Session
    BY <2>2, <2>3, <2>a, ZenonT(40) DEF Session
  <2>6. /\ SameWatch(z1, z) /\ SameHealth(z1, z) /\ SameFlags(z1, z) /\ z.out = z1.out
        /\ z.queue = z1.queue /\ z.op = z1.op /\ z.pc = "connect" /\ z.pipeUpPending = z1.pipeUpPending
    BY <2>3 DEF Session, SameWatch, SameHealth, SameReceive, SameFlags
  <2> HIDE DEF z
  <2> QED BY <1>2, <2>3, <2>4, <2>5, <2>6, ZenonT(60)
          DEF SameFlags, SameWatch, SameHealth, SameReceive, SameChain
<1> QED BY <1>1, <1>2

\* startLoginReconcile.
LEMMA StartLoginReconcileMethod ==
    ASSUME NEW x \in Session
    PROVE  LET y == StartLoginReconcile(x)
           IN  /\ y \in Session
               /\ SameWatch(x, y) /\ SameHealth(x, y) /\ SameChain(x, y) /\ y.out = x.out
               /\ y.connected = x.connected /\ y.loggedIn = x.loggedIn /\ y.uin = x.uin
               /\ y.disposed = x.disposed /\ y.client = x.client /\ y.runtimeFailure = x.runtimeFailure
               /\ y.reconcile = IF x.disposed \/ x.runtimeFailure \/ ~x.connected \/ x.loggedIn
                                THEN x.reconcile ELSE TRUE
<1>1. CASE x.disposed \/ x.runtimeFailure \/ ~x.connected \/ x.loggedIn
  BY <1>1 DEF StartLoginReconcile, SameWatch, SameHealth, SameReceive, SameChain
<1>2. CASE ~(x.disposed \/ x.runtimeFailure \/ ~x.connected \/ x.loggedIn)
  <2> DEFINE z == [x EXCEPT !.reconcile = TRUE]
  <2>1. /\ z \in Session
        /\ SameWatch(x, z) /\ SameHealth(x, z) /\ SameChain(x, z) /\ z.out = x.out
        /\ z.connected = x.connected /\ z.loggedIn = x.loggedIn /\ z.uin = x.uin
        /\ z.disposed = x.disposed /\ z.client = x.client /\ z.runtimeFailure = x.runtimeFailure
        /\ z.reconcile = TRUE
    BY DEF Session, SameWatch, SameHealth, SameReceive, SameChain
  <2>2. StartLoginReconcile(x) = z
    BY <1>2 DEF StartLoginReconcile
  <2> HIDE DEF z
  <2> QED BY <1>2, <2>1, <2>2
<1> QED BY <1>1, <1>2

\* The flags of handleLoginState; an account's health begins good.
LEMMA LoginFlagsMethod ==
    ASSUME NEW x \in Session, NEW st \in LoginState
    PROVE  LET y == LoginFlags(x, st)
           IN  /\ y \in Session
               /\ SameWatch(x, y) /\ SameChain(x, y) /\ y.out = x.out
               /\ y.uin = st.uin /\ y.loggedIn = (st.in /\ st.uin # NoUin)
               /\ y.connected = x.connected /\ y.client = x.client /\ y.disposed = x.disposed
               /\ y.runtimeFailure = x.runtimeFailure
               /\ y.reconcile = IF y.loggedIn THEN FALSE ELSE x.reconcile
               /\ y.recvUin = IF y.loggedIn THEN y.uin ELSE NoUin
               /\ \/ y.recvOk = TRUE /\ y.recvTimer = "off" /\ y.outOk = TRUE
                  \/ y.loggedIn /\ SameHealth(x, y)
<1>1. PICK in \in BOOLEAN : in = (st.in /\ st.uin # NoUin)
  OBVIOUS
<1>2. st.uin \in Uins \cup {NoUin} /\ NoUin \in Uins \cup {NoUin}
  BY DEF LoginState
<1> DEFINE y0 == [x EXCEPT !.uin = st.uin, !.loggedIn = in]
<1>3. y0 \in Session
  BY <1>2 DEF Session
<1>4. /\ SameWatch(x, y0) /\ SameChain(x, y0) /\ SameHealth(x, y0) /\ y0.out = x.out
      /\ y0.uin = st.uin /\ y0.loggedIn = in /\ y0.reconcile = x.reconcile
      /\ y0.connected = x.connected /\ y0.client = x.client /\ y0.disposed = x.disposed
      /\ y0.runtimeFailure = x.runtimeFailure
  BY DEF Session, SameWatch, SameChain, SameHealth, SameReceive
<1>5. LoginFlags(x, st) =
        IF ~in THEN [ResetReceiveWatch(y0, NoUin) EXCEPT !.outOk = TRUE]
        ELSE IF y0.recvUin # y0.uin
          THEN [ResetReceiveWatch(y0, y0.uin) EXCEPT !.outOk = TRUE, !.reconcile = FALSE]
        ELSE [y0 EXCEPT !.reconcile = FALSE]
  BY <1>1, <1>4 DEF LoginFlags
<1> HIDE DEF y0
<1>6. CASE ~in
  <2>1. PICK r : r = ResetReceiveWatch(y0, NoUin)
    OBVIOUS
  <2>2. /\ r \in Session
        /\ SameFlags(y0, r) /\ SameWatch(y0, r) /\ SameChain(y0, r) /\ r.out = y0.out
        /\ r.recvUin = NoUin /\ r.recvTimer = "off" /\ r.recvOk = TRUE
    BY <1>2, <1>3, <2>1, ResetReceiveWatchMethod
  <2> DEFINE y == [r EXCEPT !.outOk = TRUE]
  <2>s. y \in Session
    BY <2>2, ZenonT(90) DEF Session
  <2>3. /\ SameFlags(r, y) /\ SameWatch(r, y) /\ SameChain(r, y) /\ y.out = r.out
        /\ SameReceive(r, y) /\ y.recvOk = r.recvOk /\ y.outOk = TRUE
    BY <2>2, SMTT(30) DEF Session, SameFlags, SameWatch, SameChain, SameReceive
  <2>4. LoginFlags(x, st) = y
    BY <1>5, <1>6, <2>1
  <2> HIDE DEF y
  <2> QED BY <1>1, <1>4, <1>6, <2>2, <2>3, <2>4, <2>s, ZenonT(60)
          DEF SameFlags, SameWatch, SameChain, SameReceive
<1>7. CASE in /\ y0.recvUin # y0.uin
  <2>1. PICK r : r = ResetReceiveWatch(y0, y0.uin)
    OBVIOUS
  <2>2. /\ r \in Session
        /\ SameFlags(y0, r) /\ SameWatch(y0, r) /\ SameChain(y0, r) /\ r.out = y0.out
        /\ r.recvUin = y0.uin /\ r.recvTimer = "off" /\ r.recvOk = TRUE
    BY <1>2, <1>3, <1>4, <2>1, ResetReceiveWatchMethod
  <2> DEFINE y == [r EXCEPT !.outOk = TRUE, !.reconcile = FALSE]
  <2>s. y \in Session
    BY <2>2, ZenonT(40) DEF Session
  <2>3. /\ SameWatch(r, y) /\ SameChain(r, y) /\ y.out = r.out
        /\ y.uin = r.uin /\ y.loggedIn = r.loggedIn /\ y.reconcile = FALSE
        /\ y.connected = r.connected /\ y.client = r.client /\ y.disposed = r.disposed
        /\ y.runtimeFailure = r.runtimeFailure
        /\ SameReceive(r, y) /\ y.recvOk = r.recvOk /\ y.outOk = TRUE
    BY <2>2, SMTT(30) DEF Session, SameWatch, SameChain, SameReceive
  <2>4. LoginFlags(x, st) = y
    BY <1>5, <1>7, <2>1
  <2> HIDE DEF y
  <2> QED BY <1>1, <1>4, <1>7, <2>2, <2>3, <2>4, <2>s, ZenonT(60)
          DEF SameFlags, SameWatch, SameChain, SameReceive
<1>8. CASE in /\ y0.recvUin = y0.uin
  <2> DEFINE y == [y0 EXCEPT !.reconcile = FALSE]
  <2>3. /\ y \in Session
        /\ SameWatch(y0, y) /\ SameChain(y0, y) /\ SameHealth(y0, y) /\ y.out = y0.out
        /\ y.uin = y0.uin /\ y.loggedIn = y0.loggedIn /\ y.reconcile = FALSE
        /\ y.connected = y0.connected /\ y.client = y0.client /\ y.disposed = y0.disposed
        /\ y.runtimeFailure = y0.runtimeFailure
    BY <1>3, ZenonT(40) DEF Session, SameWatch, SameChain, SameHealth, SameReceive
  <2>4. LoginFlags(x, st) = y
    BY <1>5, <1>8
  <2> HIDE DEF y
  <2> QED BY <1>1, <1>4, <1>8, <2>3, <2>4 DEF SameWatch, SameChain, SameHealth, SameReceive
<1> QED BY <1>6, <1>7, <1>8

\* What a packet does to the verdict on the receive path: nothing, or it proves it good.
Proved(x, y) ==
    \/ SameHealth(x, y) /\ y.out = x.out
    \/ y.recvOk = TRUE /\ (y.recvArmed = TRUE \/ y.recvTimer = "off") /\ y.out = x.out
    \/ /\ y.recvOk = TRUE /\ y.recvArmed = TRUE /\ Healthy(y) /\ ~Healthy(x)
       /\ y.out = Append(x.out, [ev |-> "health", ok |-> TRUE])

\* noteReceiveActivity: a packet may prove the receive path good, never bad.
LEMMA NoteReceiveActivityMethod ==
    ASSUME NEW x \in Session, NEW kind, NEW uin \in Uins \cup {NoUin}
    PROVE  LET y == NoteReceiveActivity(x, kind, uin)
           IN  /\ y \in Session
               /\ SameFlags(x, y) /\ SameWatch(x, y) /\ SameChain(x, y) /\ y.outOk = x.outOk
               /\ y.recvUin = uin /\ Proved(x, y)
<1>1. PICK y0 : y0 = IF x.recvUin # uin THEN ResetReceiveWatch(x, uin) ELSE x
  OBVIOUS
<1>2. /\ y0 \in Session
      /\ SameFlags(x, y0) /\ SameWatch(x, y0) /\ SameChain(x, y0) /\ y0.out = x.out
      /\ y0.outOk = x.outOk /\ y0.recvUin = uin
      /\ SameHealth(x, y0) \/ (y0.recvOk = TRUE /\ y0.recvTimer = "off")
  BY <1>1, ResetReceiveWatchMethod, ZenonT(40)
     DEF SameFlags, SameWatch, SameChain, SameHealth, SameReceive
<1>3. CASE ~y0.recvArmed /\ kind # "heartbeat"
  BY <1>1, <1>2, <1>3 DEF NoteReceiveActivity, Proved
<1>4. CASE ~(~y0.recvArmed /\ kind # "heartbeat")
  <2> DEFINE z == [y0 EXCEPT !.recvArmed = TRUE, !.recvTimer = "stale"]
             y == SetReceiveHealthy(z, TRUE)
  <2>1. /\ z \in Session
        /\ SameFlags(y0, z) /\ SameWatch(y0, z) /\ SameChain(y0, z) /\ z.out = y0.out
        /\ z.recvOk = y0.recvOk /\ z.outOk = y0.outOk /\ z.recvUin = uin /\ z.recvArmed = TRUE
    BY <1>2, ZenonT(40) DEF Session, SameFlags, SameWatch, SameChain
  <2>2. NoteReceiveActivity(x, kind, uin) = y
    BY <1>1, <1>4 DEF NoteReceiveActivity
  <2> HIDE DEF z
  <2>3. /\ y \in Session
        /\ SameFlags(z, y) /\ SameWatch(z, y) /\ SameChain(z, y)
        /\ SameReceive(z, y) /\ y.recvOk = TRUE /\ y.outOk = z.outOk
        /\ y.out = IF Healthy(z) = Healthy(y) THEN z.out
                   ELSE Append(z.out, [ev |-> "health", ok |-> TRUE])
    BY <2>1, SetReceiveHealthyMethod
  <2> HIDE DEF y
  <2>4. Healthy(z) # Healthy(y) => Healthy(y) /\ ~Healthy(z)
    BY <2>1, <2>3 DEF Healthy, Session
  <2>5. ~Healthy(z) /\ Healthy(y) => ~Healthy(x)
    BY <1>2, <2>1, <2>3 DEF Healthy, SameHealth, SameReceive
  <2> QED BY <1>2, <2>1, <2>2, <2>3, <2>4, <2>5
          DEF SameFlags, SameWatch, SameChain, SameReceive, Proved
<1> QED BY <1>3, <1>4

\* 'disconnected' is emitted for a session that was logged in.
LEMMA EmitDisconnectedMethod ==
    ASSUME NEW x \in Session, NEW w \in BOOLEAN
    PROVE  LET y == EmitDisconnected(x, w)
           IN  /\ y \in Session
               /\ SameFlags(x, y) /\ SameWatch(x, y) /\ SameChain(x, y) /\ SameHealth(x, y)
               /\ y.out = IF w THEN Append(x.out, [ev |-> "disconnected"]) ELSE x.out
<1>1. [ev |-> "disconnected"] \in Event
  BY DEF Event
<1>2. CASE w
  BY <1>1, <1>2, EmitMethod DEF EmitDisconnected
<1>3. CASE ~w
  BY <1>3 DEF EmitDisconnected, SameFlags, SameWatch, SameChain, SameHealth, SameReceive
<1> QED BY <1>2, <1>3

\* An operation joins the chain.
LEMMA EnqueueMethod ==
    ASSUME NEW x \in Session, NEW o \in Op
    PROVE  LET y == Enqueue(x, o)
           IN  /\ y \in Session
               /\ SameFlags(x, y) /\ SameWatch(x, y) /\ SameHealth(x, y) /\ y.out = x.out
               /\ y.pipeUpPending = x.pipeUpPending /\ y.op = x.op /\ y.pc = x.pc
               /\ y.queue = Append(x.queue, o)
<1>1. Append(x.queue, o) \in Seq(Op)
  BY DEF Session
<1>2. Enqueue(x, o) \in Session
  BY <1>1 DEF Enqueue, Session
<1> QED BY <1>2 DEF Enqueue, Session, SameFlags, SameWatch, SameHealth, SameReceive

-----------------------------------------------------------------------------
(* The invariants, over a session.                                         *)

\* A login rests on a client that works, and names an account.
Backed(x) ==
    x.loggedIn => x.client /\ ~x.runtimeFailure /\ ~x.disposed /\ x.uin # NoUin

\* A client is connected, or its handshake is under way, or the session has been
\* disposed of; an unload has no client.
Wired(x) ==
    /\ x.connected => x.client /\ ~x.disposed
    /\ x.client /\ ~x.disposed => x.connected \/ x.pc = "connect"
    /\ x.pc \in {"unloadDll", "tickUnload"} => ~x.client

Reconciled(x) ==
    x.reconcile <=> (x.connected /\ ~x.loggedIn /\ ~x.runtimeFailure)

Deadline(x) ==
    x.connected => /\ x.hasConnected /\ x.watch = "off" /\ ~x.initErr
                   /\ \A i \in DOMAIN x.queue : x.queue[i] # "expire"

HasUp(q) == \E i \in DOMAIN q : q[i] = "pipeUp"

Coalesced(x) ==
    /\ \A i, j \in DOMAIN x.queue : x.queue[i] = "pipeUp" /\ x.queue[j] = "pipeUp" => i = j
    /\ x.pipeUpPending <=> (HasUp(x.queue) \/ x.op = "pipeUp")
    /\ HasUp(x.queue) => x.op # "pipeUp"

\* A receive path is watched exactly during a login, and found stale only once armed.
Stale(x) ==
    /\ x.recvUin # NoUin <=> x.loggedIn
    /\ ~x.recvOk \/ x.recvTimer # "off" => x.loggedIn /\ x.recvArmed

\* opChain runs one operation at a time, and a handshake has a client.
Serial(x) ==
    /\ x.pc = "idle" <=> x.op = "none"
    /\ x.pc = "connect" => x.client \/ x.disposed

\* What holds inside a turn too, but for the reconciler of identities.
Sane(x) == x \in Session /\ Backed(x) /\ Wired(x) /\ Deadline(x) /\ Coalesced(x) /\ Stale(x)

Sound(x) == Sane(x) /\ Reconciled(x)

\* What the turn from x to y tells: nothing, a login, the end of one, a packet or
\* a change of health.
SameLogin(x, y) == y.loggedIn = x.loggedIn /\ (x.loggedIn => y.uin = x.uin)

Calm(x, y) == Healthy(x) => Healthy(y)

\* The receive path watched is still the former one or, again, the session's own.
SameEpoch(x, y) == y.loggedIn => y.recvUin \in {x.recvUin, y.uin}

Silent(x, y) == SameLogin(x, y) /\ SameEpoch(x, y) /\ Calm(x, y) /\ y.out = <<>>

Announces(x, y) ==
    /\ y.loggedIn /\ y.uin \in Uins /\ (x.loggedIn => y.uin # x.uin) /\ Calm(x, y)
    /\ y.recvUin = y.uin
    /\ y.out = <<[ev |-> "login", uin |-> y.uin]>>

Revokes(x, y) ==
    x.loggedIn /\ ~y.loggedIn /\ y.out = <<[ev |-> "disconnected"]>>

Forwards(x, y) ==
    /\ x.loggedIn /\ SameLogin(x, y) /\ y.recvUin \in Uins
    /\ LET u == y.recvUin IN
        \/ Calm(x, y) /\ y.out = <<[ev |-> "packet", uin |-> u]>>
        \/ /\ ~Healthy(x) /\ Healthy(y)
           /\ y.out = <<[ev |-> "health", ok |-> TRUE], [ev |-> "packet", uin |-> u]>>

Reports(x, y) ==
    /\ SameLogin(x, y) /\ SameEpoch(x, y)
    /\ \E h \in BOOLEAN : Healthy(x) # h /\ Healthy(y) = h /\ y.out = <<[ev |-> "health", ok |-> h]>>

Told(x, y) ==
    Silent(x, y) \/ Announces(x, y) \/ Revokes(x, y) \/ Forwards(x, y) \/ Reports(x, y)

\* What a turn tells depends on the login and the health it began with.
LEMMA ToldFrom ==
    ASSUME NEW x, NEW x0, NEW y, x.loggedIn = x0.loggedIn, x.uin = x0.uin,
           x.recvUin = x0.recvUin, Healthy(x) = Healthy(x0), Told(x0, y)
    PROVE  Told(x, y)
BY DEF Told, Silent, Announces, Revokes, Forwards, Reports, SameLogin, SameEpoch, Calm

\* The invariants are about the fields of Agree, and not about the events.
LEMMA SaneAgree ==
    ASSUME NEW x, Sane(x), NEW y \in Session,
           SameFlags(x, y), SameWatch(x, y), SameChain(x, y), SameHealth(x, y)
    PROVE  Sane(y) /\ (Reconciled(x) => Reconciled(y))
BY DEF Sane, Backed, Wired, Reconciled, Deadline, Coalesced, Stale, SameFlags, SameWatch,
       SameChain, SameHealth, SameReceive

\* Superseding an expiry or a close leaves every pipe-up in its place.
LEMMA SupersededKeepsUps ==
    ASSUME NEW x \in Session, NEW y, NEW o \in {"expire", "close"}, Coalesced(x),
           y.queue = Superseded(x.queue, o), y.pipeUpPending = x.pipeUpPending, y.op = x.op
    PROVE  /\ Coalesced(y)
           /\ \A i \in DOMAIN y.queue : i \in DOMAIN x.queue /\ y.queue[i] # o
           /\ \A i \in DOMAIN y.queue : y.queue[i] = "expire" => x.queue[i] = "expire"
<1>1. x.queue \in Seq(Op) /\ o \in Op
  BY DEF Session, Op
<1>2. /\ DOMAIN y.queue = DOMAIN x.queue
      /\ \A i \in DOMAIN x.queue : y.queue[i] = IF x.queue[i] = o THEN "skip" ELSE x.queue[i]
  BY <1>1, SupersededQueue
<1>3. \A i \in DOMAIN x.queue : y.queue[i] = "pipeUp" <=> x.queue[i] = "pipeUp"
  BY <1>2
<1>4. HasUp(y.queue) <=> HasUp(x.queue)
  BY <1>2, <1>3 DEF HasUp
<1> QED BY <1>2, <1>3, <1>4 DEF Coalesced

\* An operation joins the chain; an expiry does so only before the connection,
\* a pipe-up only when none is pending.
LEMMA EnqueueSound ==
    ASSUME NEW x, Sane(x), NEW o \in Op \ {"pipeUp"}, o = "expire" => ~x.connected
    PROVE  LET y == Enqueue(x, o)
           IN  /\ Sane(y) /\ (Reconciled(x) => Reconciled(y)) /\ (Serial(x) => Serial(y))
               /\ y.pc = x.pc /\ y.op = x.op /\ y.out = x.out
               /\ SameFlags(x, y) /\ SameWatch(x, y) /\ SameHealth(x, y)
<1>1. PICK y : y = Enqueue(x, o)
  OBVIOUS
<1>2. /\ y \in Session
      /\ SameFlags(x, y) /\ SameWatch(x, y) /\ SameHealth(x, y) /\ y.out = x.out
      /\ y.pipeUpPending = x.pipeUpPending /\ y.op = x.op /\ y.pc = x.pc
      /\ y.queue = Append(x.queue, o) /\ x.queue \in Seq(Op)
  BY <1>1, EnqueueMethod DEF Sane, Session
<1>3. /\ \A i \in DOMAIN x.queue : i \in DOMAIN y.queue /\ y.queue[i] = x.queue[i]
      /\ \A i \in DOMAIN y.queue : i \in DOMAIN x.queue \/ y.queue[i] = o
  BY <1>2
<1>4. HasUp(y.queue) <=> HasUp(x.queue)
  BY <1>3 DEF HasUp
<1>5. Coalesced(y)
  BY <1>2, <1>3, <1>4 DEF Sane, Coalesced
<1>6. Deadline(y)
  BY <1>2, <1>3 DEF Sane, Deadline, SameFlags, SameWatch
<1>7. Backed(y) /\ Wired(y) /\ Stale(y) /\ (Reconciled(x) => Reconciled(y)) /\ (Serial(x) => Serial(y))
  BY <1>2 DEF Sane, Backed, Wired, Stale, Reconciled, Serial, SameFlags, SameHealth, SameReceive
<1> QED BY <1>1, <1>2, <1>5, <1>6, <1>7 DEF Sane

\* stopInitialConnectionWatch.
LEMMA StopWatchSound ==
    ASSUME NEW x, Sane(x)
    PROVE  Sane(StopWatch(x)) /\ (Reconciled(x) => Reconciled(StopWatch(x)))
<1>1. PICK y : y = StopWatch(x)
  OBVIOUS
<1>2. /\ x \in Session /\ y \in Session
      /\ SameFlags(x, y) /\ SameHealth(x, y)
      /\ y.watch = "off" /\ y.initErr = x.initErr /\ y.hasConnected = x.hasConnected
      /\ y.pipeUpPending = x.pipeUpPending /\ y.op = x.op /\ y.pc = x.pc
      /\ y.queue = Superseded(x.queue, "expire")
  BY <1>1, StopWatchMethod DEF Sane
<1>3. /\ Coalesced(y)
      /\ \A i \in DOMAIN y.queue : y.queue[i] # "expire"
  BY <1>2, SupersededKeepsUps DEF Sane
<1>4. Deadline(y) /\ Backed(y) /\ Wired(y) /\ Stale(y) /\ (Reconciled(x) => Reconciled(y))
  BY <1>2, <1>3 DEF Sane, Deadline, Backed, Wired, Stale, Reconciled, SameFlags, SameHealth, SameReceive
<1> QED BY <1>1, <1>2, <1>3, <1>4 DEF Sane

\* tearDownClient.
LEMMA TearDownSound ==
    ASSUME NEW x \in Session, Coalesced(x), NEW keep \in BOOLEAN
    PROVE  Sound(TearDown(x, keep))
<1>1. PICK y : y = TearDown(x, keep)
  OBVIOUS
<1>2. /\ y \in Session
      /\ y.client = FALSE /\ y.connected = FALSE /\ y.loggedIn = FALSE /\ y.reconcile = FALSE
      /\ y.recvOk = TRUE /\ y.recvUin = NoUin /\ y.recvTimer = "off"
      /\ y.pipeUpPending = x.pipeUpPending /\ y.op = x.op /\ y.pc = x.pc
      /\ y.queue = Superseded(x.queue, "close")
  BY <1>1, TearDownMethod
<1>3. Coalesced(y)
  BY <1>2, SupersededKeepsUps
<1>4. Deadline(y) /\ Backed(y) /\ Wired(y) /\ Stale(y) /\ Reconciled(y)
  BY <1>2 DEF Deadline, Backed, Wired, Stale, Reconciled
<1> QED BY <1>1, <1>2, <1>3, <1>4 DEF Sane, Sound

\* The end of an operation.  A handshake has left a connection or no client.
LEMMA DoneSound ==
    ASSUME NEW x, Sane(x), x.pc = "connect" => ~x.client \/ x.disposed \/ x.connected
    PROVE  LET y == Done(x)
           IN  /\ Sane(y) /\ Serial(y) /\ (Reconciled(x) => Reconciled(y))
               /\ SameFlags(x, y) /\ SameHealth(x, y) /\ y.out = x.out
<1>1. PICK y : y = Done(x)
  OBVIOUS
<1>2. /\ x \in Session /\ y \in Session
      /\ SameFlags(x, y) /\ SameWatch(x, y) /\ SameHealth(x, y) /\ y.out = x.out
      /\ y.queue = x.queue /\ y.op = "none" /\ y.pc = "idle"
      /\ y.pipeUpPending = IF x.op = "pipeUp" THEN FALSE ELSE x.pipeUpPending
  BY <1>1, DoneMethod DEF Sane
<1>3. Coalesced(y)
  BY <1>2 DEF Sane, Coalesced
<1>4. Deadline(y) /\ Backed(y) /\ Wired(y) /\ Stale(y) /\ (Reconciled(x) => Reconciled(y)) /\ Serial(y)
  BY <1>2
     DEF Sane, Deadline, Backed, Wired, Stale, Reconciled, Serial, SameFlags, SameWatch, SameHealth, SameReceive
<1> QED BY <1>1, <1>2, <1>3, <1>4 DEF Sane

\* Two states of a turn that differ in the watch, the queue and the status only.
Undisturbed(x, y) ==
    /\ SameFlags(x, y) /\ SameHealth(x, y)
    /\ y.out = x.out /\ y.pc = x.pc /\ y.op = x.op

\* A turn in which nothing of the login and the health changes is silent.
LEMMA UndisturbedIsSilent ==
    ASSUME NEW x, NEW y, SameFlags(x, y), SameHealth(x, y), y.out = <<>>
    PROVE  Told(x, y)
BY DEF Told, Silent, SameLogin, SameEpoch, Calm, Healthy, SameFlags, SameHealth, SameReceive

\* The end of a login is told, and only if there was one.
LEMMA Dropped ==
    ASSUME NEW x, x.loggedIn \in BOOLEAN, NEW z, Sound(z), ~z.loggedIn, z.out = <<>>,
           ~x.loggedIn => Calm(x, z)
    PROVE  LET y == EmitDisconnected(z, x.loggedIn)
           IN  Sound(y) /\ Told(x, y) /\ SameFlags(z, y) /\ SameChain(z, y)
<1>1. PICK y : y = EmitDisconnected(z, x.loggedIn)
  OBVIOUS
<1>2. /\ z \in Session /\ y \in Session
      /\ SameFlags(z, y) /\ SameWatch(z, y) /\ SameChain(z, y) /\ SameHealth(z, y)
      /\ y.out = IF x.loggedIn THEN Append(z.out, [ev |-> "disconnected"]) ELSE z.out
  BY <1>1, EmitDisconnectedMethod DEF Sound, Sane
<1>3. Sound(y)
  BY <1>2, SaneAgree DEF Sound
<1>4. CASE x.loggedIn
  <2>1. y.out = <<[ev |-> "disconnected"]>>
    BY <1>2, <1>4
  <2> QED BY <1>1, <1>2, <1>3, <1>4, <2>1 DEF Told, Revokes, SameFlags
<1>5. CASE ~x.loggedIn
  <2>1. SameLogin(x, y) /\ Calm(x, y) /\ y.out = <<>>
    <3>1. Healthy(y) = Healthy(z)
      BY <1>2 DEF Healthy, SameHealth, SameReceive
    <3>2. y.loggedIn = x.loggedIn
      BY <1>2, <1>5 DEF SameFlags, Sound, Sane, Session
    <3> QED BY <1>2, <1>5, <3>1, <3>2 DEF SameLogin, Calm
  <2>2. SameEpoch(x, y)
    BY <1>2 DEF SameEpoch, SameFlags
  <2> QED BY <1>1, <1>2, <1>3, <2>1, <2>2 DEF Told, Silent
<1> QED BY <1>4, <1>5

-----------------------------------------------------------------------------
(* The handlers.                                                           *)

\* handleLoginState, on a session that is in use: a login is told when it is
\* news, its end when there was one, and the reconciler of identities runs
\* exactly while a login is awaited.
LEMMA HandleLoginStateSound ==
    ASSUME NEW x, Sane(x), x.reconcile => x.connected, x.out = <<>>,
           x.client, ~x.disposed, ~x.runtimeFailure, NEW st \in LoginState
    PROVE  LET y == HandleLoginState(x, st)
           IN  /\ Sound(y) /\ Told(x, y) /\ y.pc = x.pc /\ y.op = x.op
               /\ y.connected = x.connected /\ y.client = x.client
<1>1. PICK y0 : y0 = LoginFlags(x, st)
  OBVIOUS
<1>2. x \in Session /\ x.loggedIn \in BOOLEAN /\ x.reconcile \in BOOLEAN
  BY DEF Sane, Session
<1>3. /\ y0 \in Session
      /\ SameWatch(x, y0) /\ SameChain(x, y0) /\ y0.out = x.out
      /\ y0.uin = st.uin /\ y0.loggedIn = (st.in /\ st.uin # NoUin)
      /\ y0.connected = x.connected /\ y0.client = x.client /\ y0.disposed = x.disposed
      /\ y0.runtimeFailure = x.runtimeFailure
      /\ y0.reconcile = IF y0.loggedIn THEN FALSE ELSE x.reconcile
      /\ y0.recvUin = IF y0.loggedIn THEN y0.uin ELSE NoUin
      /\ \/ y0.recvOk = TRUE /\ y0.recvTimer = "off" /\ y0.outOk = TRUE
         \/ y0.loggedIn /\ SameHealth(x, y0)
  BY <1>1, <1>2, LoginFlagsMethod
<1>4. PICK z : z = IF y0.connected \/ y0.loggedIn THEN ApplyStatus(y0, x.loggedIn) ELSE y0
  OBVIOUS
<1>5. z \in Session /\ Agree(y0, z)
  <2>1. Agree(y0, y0)
    BY DEF Agree, SameFlags, SameWatch, SameChain, SameHealth, SameReceive
  <2>2. ApplyStatus(y0, x.loggedIn) \in Session /\ Agree(y0, ApplyStatus(y0, x.loggedIn))
    BY <1>2, <1>3, ApplyStatusMethod
  <2> QED BY <1>3, <1>4, <2>1, <2>2
<1>6. HandleLoginState(x, st) =
        IF ~z.loggedIn THEN StartLoginReconcile(EmitDisconnected(z, x.loggedIn))
        ELSE IF ~z.client \/ (x.loggedIn /\ x.uin = z.uin) THEN z
        ELSE Emit(z, [ev |-> "login", uin |-> z.uin])
  BY <1>1, <1>4 DEF HandleLoginState
<1>7. Sane(z)
  <2>1. Backed(z) /\ Wired(z)
    BY <1>3, <1>5 DEF Sane, Backed, Wired, Agree, SameFlags, SameChain
  <2>2. Stale(z)
    BY <1>3, <1>5 DEF Sane, Stale, Agree, SameFlags, SameHealth, SameReceive
  <2>3. Deadline(z) /\ Coalesced(z)
    BY <1>3, <1>5 DEF Sane, Deadline, Coalesced, Agree, SameFlags, SameWatch, SameChain
  <2> QED BY <1>5, <2>1, <2>2, <2>3 DEF Sane
<1>8. Calm(x, z)
  BY <1>3, <1>5 DEF Calm, Healthy, Agree, SameHealth, SameReceive
<1>9. CASE ~z.loggedIn
  <2>1. PICK w : w = EmitDisconnected(z, x.loggedIn)
    OBVIOUS
  <2>2. /\ w \in Session
        /\ SameFlags(z, w) /\ SameWatch(z, w) /\ SameChain(z, w) /\ SameHealth(z, w)
        /\ w.out = IF x.loggedIn THEN Append(z.out, [ev |-> "disconnected"]) ELSE z.out
    BY <1>2, <1>5, <2>1, EmitDisconnectedMethod
  <2>3. PICK y : y = StartLoginReconcile(w)
    OBVIOUS
  <2>4. /\ y \in Session
        /\ SameWatch(w, y) /\ SameHealth(w, y) /\ SameChain(w, y) /\ y.out = w.out
        /\ y.connected = w.connected /\ y.loggedIn = w.loggedIn /\ y.uin = w.uin
        /\ y.disposed = w.disposed /\ y.client = w.client /\ y.runtimeFailure = w.runtimeFailure
        /\ y.reconcile = IF w.disposed \/ w.runtimeFailure \/ ~w.connected \/ w.loggedIn
                         THEN w.reconcile ELSE TRUE
    BY <2>2, <2>3, StartLoginReconcileMethod
  <2>5. Backed(y) /\ Wired(y) /\ Deadline(y) /\ Coalesced(y) /\ Stale(y)
    BY <1>7, <2>2, <2>4 DEF Sane, Backed, Wired, Deadline, Coalesced, Stale, SameFlags, SameWatch,
                            SameChain, SameHealth, SameReceive
  <2>6. Reconciled(y)
    BY <1>2, <1>3, <1>5, <1>9, <2>2, <2>4 DEF Reconciled, Agree, SameFlags
  <2>7. Told(x, y)
    <3>1. CASE x.loggedIn
      <4>1. y.out = <<[ev |-> "disconnected"]>>
        BY <1>3, <1>5, <2>2, <2>4, <3>1 DEF Agree
      <4> QED BY <1>9, <2>2, <2>4, <3>1, <4>1 DEF Told, Revokes, SameFlags
    <3>2. CASE ~x.loggedIn
      <4>1. y.out = <<>> /\ y.loggedIn = FALSE /\ x.loggedIn = FALSE
        BY <1>2, <1>3, <1>5, <1>9, <2>2, <2>4, <3>2 DEF Agree, SameFlags, Session
      <4>2. Calm(x, y)
        BY <1>8, <2>2, <2>4 DEF Calm, Healthy, SameHealth, SameReceive
      <4> QED BY <4>1, <4>2 DEF Told, Silent, SameLogin, SameEpoch
    <3> QED BY <3>1, <3>2
  <2>8. HandleLoginState(x, st) = y
    BY <1>6, <1>9, <2>1, <2>3
  <2> QED BY <1>3, <1>5, <2>2, <2>4, <2>5, <2>6, <2>7, <2>8, ZenonT(40)
          DEF Sound, Sane, Agree, SameFlags, SameChain
<1>10. CASE z.loggedIn /\ x.loggedIn /\ x.uin = z.uin
  <2>1. HandleLoginState(x, st) = z
    BY <1>6, <1>10
  <2>2. Reconciled(z)
    BY <1>3, <1>5, <1>10 DEF Reconciled, Agree, SameFlags
  <2>3. z.loggedIn = x.loggedIn /\ z.out = <<>>
    BY <1>2, <1>3, <1>5, <1>10, ZenonT(40) DEF Agree, SameFlags, Session
  <2>r. z.recvUin = z.uin
    BY <1>3, <1>5, <1>10 DEF Agree, SameFlags, SameHealth, SameReceive
  <2>4. Told(x, z)
    BY <1>8, <1>10, <2>3, <2>r DEF Told, Silent, SameLogin, SameEpoch
  <2> QED BY <1>3, <1>5, <1>7, <2>1, <2>2, <2>4 DEF Sound, Agree, SameFlags, SameChain
<1>11. CASE z.loggedIn /\ ~(x.loggedIn /\ x.uin = z.uin)
  <2> DEFINE e == [ev |-> "login", uin |-> z.uin]
  <2>1. z.uin \in Uins
    BY <1>5, <1>7, <1>11 DEF Sane, Backed, Session
  <2>2. e \in Event
    BY <2>1 DEF Event
  <2> HIDE DEF e
  <2>3. PICK y : y = Emit(z, e)
    OBVIOUS
  <2>4. /\ y \in Session
        /\ SameFlags(z, y) /\ SameWatch(z, y) /\ SameChain(z, y) /\ SameHealth(z, y)
        /\ y.out = Append(z.out, e)
    BY <1>5, <2>2, <2>3, EmitMethod
  <2>5. HandleLoginState(x, st) = y
    BY <1>3, <1>5, <1>6, <1>11, <2>3 DEF e, Agree, SameFlags
  <2>6. Sane(y)
    BY <1>7, <2>4, SaneAgree
  <2>7. Reconciled(y)
    BY <1>3, <1>5, <1>11, <2>4 DEF Reconciled, Agree, SameFlags
  <2>8. y.out = <<e>>
    BY <1>3, <1>5, <2>4 DEF Agree
  <2>9. Calm(x, y)
    BY <1>8, <2>4 DEF Calm, Healthy, SameHealth, SameReceive
  <2>r. y.recvUin = y.uin
    BY <1>3, <1>5, <1>11, <2>4 DEF Agree, SameFlags, SameHealth, SameReceive
  <2>10. Announces(x, y)
    BY <1>11, <2>1, <2>4, <2>8, <2>9, <2>r DEF Announces, SameFlags, e
  <2> QED BY <1>3, <1>5, <2>4, <2>5, <2>6, <2>7, <2>10 DEF Sound, Told, Agree, SameFlags, SameChain
<1> QED BY <1>9, <1>10, <1>11

\* handlePacket: a packet is handed on for a login only, after the news that the
\* receive path is back.
LEMMA HandlePacketSound ==
    ASSUME NEW x, Sound(x), Serial(x), x.out = <<>>, NEW kind \in Kinds, NEW uin \in Uins \cup {NoUin}
    PROVE  LET y == HandlePacket(x, kind, uin) IN Sound(y) /\ Serial(y) /\ Told(x, y)
<1>1. PICK epoch \in Uins \cup {NoUin} :
        epoch = IF uin # NoUin THEN uin ELSE IF x.recvUin # NoUin THEN x.recvUin ELSE x.uin
  BY DEF Sound, Sane, Session
<1>2. PICK z : z = NoteReceiveActivity(x, kind, epoch)
  OBVIOUS
<1>3. HandlePacket(x, kind, uin) =
        IF ~x.loggedIn \/ (kind = "receipt" /\ uin # x.uin) THEN x
        ELSE IF uin = NoUin THEN z
        ELSE Emit(z, [ev |-> "packet", uin |-> uin])
  BY <1>1, <1>2 DEF HandlePacket
<1>4. /\ x \in Session /\ z \in Session
      /\ SameFlags(x, z) /\ SameWatch(x, z) /\ SameChain(x, z) /\ z.outOk = x.outOk
      /\ z.recvUin = epoch /\ Proved(x, z)
  <2>1. x \in Session
    BY DEF Sound, Sane
  <2> QED BY <1>2, <2>1, NoteReceiveActivityMethod
<1>5. ASSUME x.loggedIn PROVE Sound(z) /\ Serial(z)
  <2>1. Backed(z) /\ Wired(z) /\ Reconciled(z) /\ Serial(z)
    BY <1>4 DEF Sound, Sane, Backed, Wired, Reconciled, Serial, SameFlags, SameChain
  <2>2. Deadline(z) /\ Coalesced(z)
    BY <1>4 DEF Sound, Sane, Deadline, Coalesced, SameFlags, SameWatch, SameChain
  <2>3. Stale(z)
    BY <1>1, <1>4, <1>5 DEF Proved, Sound, Sane, Stale, SameFlags, SameHealth, SameReceive
  <2> QED BY <1>4, <2>1, <2>2, <2>3 DEF Sound, Sane
<1>6. /\ SameLogin(x, z) /\ Calm(x, z)
      /\ \/ z.out = <<>>
         \/ ~Healthy(x) /\ Healthy(z) /\ z.out = <<[ev |-> "health", ok |-> TRUE]>>
  <2>1. SameLogin(x, z)
    BY <1>4 DEF SameLogin, SameEpoch, SameFlags
  <2>2. Calm(x, z)
    BY <1>4 DEF Proved, Calm, Healthy, SameHealth, SameReceive
  <2>3. Append(x.out, [ev |-> "health", ok |-> TRUE]) = <<[ev |-> "health", ok |-> TRUE]>>
    OBVIOUS
  <2> QED BY <1>4, <2>1, <2>2, <2>3 DEF Proved
<1>7. CASE ~x.loggedIn \/ (kind = "receipt" /\ uin # x.uin)
  <2>1. Told(x, x)
    BY DEF Told, Silent, SameLogin, SameEpoch, Calm
  <2> QED BY <1>3, <1>7, <2>1
<1>8. CASE ~(~x.loggedIn \/ (kind = "receipt" /\ uin # x.uin)) /\ uin = NoUin
  <2>1. ~Healthy(x) /\ Healthy(z) => Healthy(x) # TRUE /\ Healthy(z) = TRUE
    BY <1>4 DEF Healthy, Session
  <2>e. SameEpoch(x, z)
    BY <1>1, <1>4, <1>8 DEF SameEpoch, Sound, Sane, Stale
  <2>2. Silent(x, z) \/ Reports(x, z)
    BY <1>6, <2>1, <2>e DEF Silent, Reports
  <2> QED BY <1>3, <1>5, <1>8, <2>2 DEF Told
<1>9. CASE ~(~x.loggedIn \/ (kind = "receipt" /\ uin # x.uin)) /\ uin # NoUin
  <2> DEFINE e == [ev |-> "packet", uin |-> uin]
             h == [ev |-> "health", ok |-> TRUE]
  <2>1. e \in Event /\ uin \in Uins
    BY <1>9 DEF Event
  <2>2. PICK y : y = Emit(z, e)
    OBVIOUS
  <2>3. /\ y \in Session
        /\ SameFlags(z, y) /\ SameWatch(z, y) /\ SameChain(z, y) /\ SameHealth(z, y)
        /\ y.out = Append(z.out, e)
    BY <1>4, <2>1, <2>2, EmitMethod
  <2>4. Sound(y) /\ Serial(y)
    BY <1>5, <1>9, <2>3, SaneAgree DEF Sound, Serial, SameChain, SameFlags
  <2>5. SameLogin(x, y) /\ Healthy(y) = Healthy(z) /\ y.recvUin = uin
    BY <1>1, <1>4, <1>6, <1>9, <2>3
       DEF SameLogin, SameEpoch, SameFlags, SameHealth, SameReceive, Healthy
  <2> HIDE DEF e, h
  <2>6. \/ z.out = <<>> /\ y.out = <<e>>
        \/ z.out = <<h>> /\ y.out = <<h, e>>
    <3>1. Append(<<>>, e) = <<e>> /\ Append(<<h>>, e) = <<h, e>>
      <4>1. h \in Event /\ <<h>> \in Seq(Event) /\ <<h, e>> \in Seq(Event)
        BY <2>1 DEF h, Event
      <4>2. Append(<<h>>, e) = <<h, e>>
        BY <2>1, <4>1, Pair
      <4>3. Append(<<>>, e) = <<e>>
        BY <2>1
      <4> QED BY <4>2, <4>3
    <3>2. z.out = <<>> \/ z.out = <<h>>
      BY <1>6 DEF h
    <3> QED BY <2>3, <3>1, <3>2
  <2>7. Forwards(x, y)
    <3>1. CASE z.out = <<>> /\ y.out = <<e>>
      BY <1>6, <1>9, <2>1, <2>5, <3>1 DEF Forwards, Calm, e
    <3>2. CASE z.out = <<h>> /\ y.out = <<h, e>>
      <4>1. z.out # <<>>
        BY <3>2
      <4> QED BY <1>6, <1>9, <2>1, <2>5, <3>2, <4>1 DEF Forwards, e, h
    <3> QED BY <2>6, <3>1, <3>2
  <2> QED BY <1>3, <1>9, <2>2, <2>4, <2>7 DEF Told, e
<1> QED BY <1>7, <1>8, <1>9

\* expireInitialConnection, which a connection prevents.
LEMMA ExpireSound ==
    ASSUME NEW x, Sound(x)
    PROVE  Sound(Expire(x)) /\ Undisturbed(x, Expire(x))
<1>0. x \in Session /\ x.loggedIn \in BOOLEAN /\ x.connected \in BOOLEAN
  BY DEF Sound, Sane, Session
<1>1. CASE x.disposed \/ x.connected \/ x.watch = "off"
  <2>1. Expire(x) = x
    BY <1>1 DEF Expire
  <2> QED BY <2>1 DEF Undisturbed, SameFlags, SameHealth, SameReceive
<1>2. CASE ~(x.disposed \/ x.connected \/ x.watch = "off")
  <2>1. PICK w : w = StopWatch(x)
    OBVIOUS
  <2>2. /\ w \in Session /\ Sound(w) /\ Undisturbed(x, w)
    BY <1>0, <2>1, StopWatchMethod, StopWatchSound DEF Sound, Undisturbed
  <2> DEFINE z == [w EXCEPT !.initErr = TRUE]
             y == ApplyStatus(z, x.loggedIn)
  <2>3. /\ z \in Session /\ SameFlags(w, z) /\ SameHealth(w, z) /\ SameChain(w, z) /\ z.out = w.out
    BY <2>2 DEF Session, SameFlags, SameHealth, SameReceive, SameChain
  <2> HIDE DEF z
  <2>4. y \in Session /\ Agree(z, y)
    BY <1>0, <2>3, ApplyStatusMethod
  <2>5. Expire(x) = y
    BY <1>2, <2>1 DEF Expire, z
  <2> HIDE DEF y
  <2>6. Undisturbed(x, y)
    BY <2>2, <2>3, <2>4 DEF Undisturbed, Agree, SameFlags, SameHealth, SameReceive, SameChain
  <2>7. Backed(y) /\ Wired(y) /\ Stale(y) /\ Reconciled(y)
    BY <2>6
       DEF Undisturbed, Sound, Sane, Backed, Wired, Stale, Reconciled, SameFlags, SameHealth, SameReceive
  <2>8. Coalesced(y)
    BY <2>2, <2>3, <2>4 DEF Sound, Sane, Coalesced, Agree, SameChain
  <2>9. Deadline(y)
    BY <1>2, <2>6 DEF Undisturbed, SameFlags, Deadline
  <2> QED BY <2>4, <2>5, <2>6, <2>7, <2>8, <2>9 DEF Sound, Sane
<1> QED BY <1>1, <1>2

\* reconcilePipeUp up to its await, as an operation or at the end of one.
LEMMA ReconcilePipeUpSound ==
    ASSUME NEW x, Sound(x), x.out = <<>>, x.op # "none", x.pc \in {"idle", "tickLoad"}
    PROVE  LET y == ReconcilePipeUp(x) IN Sound(y) /\ Serial(y) /\ Told(x, y)
<1> DEFINE x1 == [x EXCEPT !.injected = TRUE]
<1>1. x \in Session /\ x1 \in Session /\ Agree(x, x1)
  BY DEF Sound, Sane, Session, Agree, SameFlags, SameWatch, SameChain, SameHealth, SameReceive
<1>2. PICK w : w = StartWatch(x1)
  OBVIOUS
<1>3. ReconcilePipeUp(x) = IF w.connected THEN Done(ApplyStatus(w, w.loggedIn)) ELSE AttemptConnect(w)
  BY <1>2 DEF ReconcilePipeUp
<1> HIDE DEF x1
<1>4. /\ w \in Session /\ w.loggedIn \in BOOLEAN
      /\ SameFlags(x, w) /\ SameHealth(x, w) /\ SameChain(x, w) /\ w.out = x.out
      /\ w.initErr = x.initErr /\ w.hasConnected = x.hasConnected
      /\ w.watch = x.watch \/ (w.watch = "armed" /\ ~x.hasConnected)
  <2>1. /\ w \in Session
        /\ SameFlags(x1, w) /\ SameHealth(x1, w) /\ SameChain(x1, w) /\ w.out = x1.out
        /\ w.initErr = x1.initErr /\ w.hasConnected = x1.hasConnected
        /\ w.watch = x1.watch \/ (w.watch = "armed" /\ ~x1.hasConnected)
    BY <1>1, <1>2, StartWatchMethod
  <2>2. w.loggedIn \in BOOLEAN
    BY <2>1 DEF Session
  <2> QED BY <1>1, <2>1, <2>2 DEF Agree, SameFlags, SameHealth, SameReceive, SameChain, SameWatch
<1>5. Sound(w)
  <2>1. Backed(w) /\ Wired(w) /\ Reconciled(w) /\ Stale(w)
    BY <1>4
       DEF Sound, Sane, Backed, Wired, Reconciled, Stale, SameFlags, SameChain, SameHealth, SameReceive
  <2>2. Deadline(w)
    BY <1>4 DEF Sound, Sane, Deadline, SameFlags, SameChain
  <2>3. Coalesced(w)
    BY <1>4 DEF Sound, Sane, Coalesced, SameChain
  <2> QED BY <1>4, <2>1, <2>2, <2>3 DEF Sound, Sane
<1>6. CASE w.connected
  <2>1. PICK z : z = ApplyStatus(w, w.loggedIn)
    OBVIOUS
  <2>2. z \in Session /\ Agree(w, z)
    BY <1>4, <2>1, ApplyStatusMethod
  <2>3. Sound(z)
    BY <1>5, <2>2, SaneAgree DEF Sound, Agree
  <2>4. PICK y : y = Done(z)
    OBVIOUS
  <2>5. z.pc # "connect"
    BY <1>4, <2>2 DEF Agree, SameChain
  <2>6. Sound(y) /\ Serial(y) /\ SameFlags(z, y) /\ SameHealth(z, y) /\ y.out = z.out
    BY <2>3, <2>4, <2>5, DoneSound DEF Sound
  <2>7. Told(x, y)
    BY <1>4, <2>2, <2>6, UndisturbedIsSilent DEF Agree, SameFlags, SameHealth, SameReceive
  <2> QED BY <1>3, <1>6, <2>1, <2>4, <2>6, <2>7
<1>7. CASE ~w.connected
  <2>1. PICK y : y = AttemptConnect(w)
    OBVIOUS
  <2>2. /\ y \in Session
        /\ SameWatch(w, y) /\ SameHealth(w, y) /\ y.out = w.out
        /\ y.connected = w.connected /\ y.loggedIn = w.loggedIn /\ y.uin = w.uin
        /\ y.disposed = w.disposed /\ y.reconcile = w.reconcile
        /\ y.client = TRUE
        /\ y.runtimeFailure = IF w.client THEN w.runtimeFailure ELSE FALSE
        /\ y.queue = w.queue /\ y.op = w.op /\ y.pc = "connect"
        /\ y.pipeUpPending = w.pipeUpPending
    BY <1>4, <2>1, AttemptConnectMethod, ZenonT(40)
  <2>3. Backed(y) /\ Stale(y)
    BY <1>5, <2>2 DEF Sound, Sane, Backed, Stale, SameHealth, SameReceive
  <2>4. Wired(y) /\ Reconciled(y) /\ Deadline(y) /\ Serial(y)
    BY <1>4, <1>5, <1>7, <2>2 DEF Sound, Sane, Wired, Reconciled, Deadline, Serial, SameChain
  <2>5. Coalesced(y)
    BY <1>5, <2>2 DEF Sound, Sane, Coalesced
  <2>6. Told(x, y)
    BY <1>4, <2>2
       DEF Told, Silent, SameLogin, SameEpoch, Calm, Healthy, SameFlags, SameHealth, SameReceive
  <2> QED BY <1>3, <1>7, <2>1, <2>2, <2>3, <2>4, <2>5, <2>6 DEF Sound, Sane
<1> QED BY <1>6, <1>7

\* What a turn tells does not depend on what it does besides.
LEMMA ToldTo ==
    ASSUME NEW x, NEW y, Told(x, y), NEW z, z.loggedIn = y.loggedIn,
           y.loggedIn => z.uin = y.uin /\ z.recvUin = y.recvUin,
           Healthy(z) = Healthy(y), z.out = y.out
    PROVE  Told(x, z)
BY DEF Told, Silent, Announces, Revokes, Forwards, Reports, SameLogin, SameEpoch, Calm

\* The end of an operation tells nothing more.
LEMMA DoneTold ==
    ASSUME NEW x, NEW y, Told(x, y), Sound(y), y.pc = "connect" => ~y.client \/ y.disposed \/ y.connected
    PROVE  Sound(Done(y)) /\ Serial(Done(y)) /\ Told(x, Done(y))
<1>1. PICK z : z = Done(y)
  OBVIOUS
<1>2. Sound(z) /\ Serial(z) /\ SameFlags(y, z) /\ SameHealth(y, z) /\ z.out = y.out
  BY <1>1, DoneSound DEF Sound
<1>3. Healthy(z) = Healthy(y)
  BY <1>2 DEF Healthy, SameHealth, SameReceive
<1> QED BY <1>1, <1>2, <1>3, ToldTo DEF SameFlags, SameHealth, SameReceive

\* tearDownClient, and the status that follows from it.
LEMMA TornDown ==
    ASSUME NEW x \in Session, Coalesced(x), x.out = <<>>, NEW keep \in BOOLEAN
    PROVE  LET z == TearDown(x, keep)
           IN  /\ Sound(z) /\ ~z.loggedIn /\ z.out = <<>> /\ Healthy(z) /\ ~z.client
               /\ z.pc = x.pc /\ z.op = x.op /\ z.disposed = x.disposed
<1>1. PICK z : z = TearDown(x, keep)
  OBVIOUS
<1>2. Sound(z)
  BY <1>1, TearDownSound
<1>3. /\ z.client = FALSE /\ z.loggedIn = FALSE /\ z.out = x.out
      /\ z.recvOk = TRUE /\ z.outOk = TRUE /\ z.pc = x.pc /\ z.op = x.op
      /\ z.disposed = x.disposed
  BY <1>1, TearDownMethod
<1> QED BY <1>1, <1>2, <1>3 DEF Healthy

\* applyStatus.
LEMMA ApplyStatusSound ==
    ASSUME NEW x, Sound(x), NEW w \in BOOLEAN
    PROVE  LET y == ApplyStatus(x, w) IN Sound(y) /\ Agree(x, y) /\ Healthy(y) = Healthy(x)
<1>1. PICK y : y = ApplyStatus(x, w)
  OBVIOUS
<1>2. y \in Session /\ Agree(x, y)
  BY <1>1, ApplyStatusMethod DEF Sound, Sane
<1>3. Sound(y)
  BY <1>2, SaneAgree DEF Sound, Agree
<1> QED BY <1>1, <1>2, <1>3 DEF Agree, SameHealth, SameReceive, Healthy

\* reconcilePipeDown: a connection that is gone takes its login with it.
LEMMA ReconcilePipeDownSound ==
    ASSUME NEW x, Sound(x), x.out = <<>>
    PROVE  LET y == ReconcilePipeDown(x)
           IN  Sound(y) /\ Told(x, y) /\ y.pc = x.pc /\ y.op = x.op
<1>1. x \in Session /\ x.loggedIn \in BOOLEAN
  BY DEF Sound, Sane, Session
<1>2. CASE ~x.connected
  <2>1. CASE x.injected
    <3>1. PICK y : y = ApplyStatus(x, x.loggedIn)
      OBVIOUS
    <3>2. Sound(y) /\ Agree(x, y)
      BY <1>1, <3>1, ApplyStatusSound
    <3>3. Told(x, y)
      BY <3>2, UndisturbedIsSilent DEF Agree
    <3>4. ReconcilePipeDown(x) = y
      BY <1>2, <2>1, <3>1 DEF ReconcilePipeDown
    <3> QED BY <3>2, <3>3, <3>4 DEF Agree, SameChain
  <2>2. CASE ~x.injected
    <3>1. ReconcilePipeDown(x) = x
      BY <1>2, <2>2 DEF ReconcilePipeDown
    <3>2. Told(x, x)
      BY DEF Told, Silent, SameLogin, SameEpoch, Calm
    <3> QED BY <3>1, <3>2
  <2> QED BY <2>1, <2>2
<1>3. CASE x.connected
  <2>1. PICK z : z = TearDown(x, TRUE)
    OBVIOUS
  <2>2. /\ Sound(z) /\ ~z.loggedIn /\ z.out = <<>> /\ Healthy(z)
        /\ z.pc = x.pc /\ z.op = x.op
    BY <2>1, TornDown DEF Sound, Sane
  <2>3. PICK w : w = ApplyStatus(z, x.loggedIn)
    OBVIOUS
  <2>4. Sound(w) /\ Agree(z, w) /\ Healthy(w) = Healthy(z)
    BY <1>1, <2>2, <2>3, ApplyStatusSound
  <2>5. PICK y : y = EmitDisconnected(w, x.loggedIn)
    OBVIOUS
  <2>6. ~w.loggedIn /\ w.out = <<>> /\ Calm(x, w) /\ w.pc = x.pc /\ w.op = x.op
    BY <2>2, <2>4 DEF Agree, SameFlags, SameChain, Calm
  <2>7. Sound(y) /\ Told(x, y) /\ SameChain(w, y)
    BY <1>1, <2>4, <2>5, <2>6, Dropped
  <2>8. ReconcilePipeDown(x) = y
    BY <1>3, <2>1, <2>3, <2>5 DEF ReconcilePipeDown
  <2> QED BY <2>6, <2>7, <2>8 DEF SameChain
<1> QED BY <1>2, <1>3

\* A handshake that fails drops the client and the login that came over it.
LEMMA ConnectFailedSound ==
    ASSUME NEW x, Sound(x), x.out = <<>>, NEW timedOut \in BOOLEAN
    PROVE  LET y == ConnectFailed(x, timedOut) IN Sound(y) /\ Serial(y) /\ Told(x, y)
<1>1. x \in Session /\ x.loggedIn \in BOOLEAN
  BY DEF Sound, Sane, Session
<1>2. CASE x.disposed
  <2>1. ConnectFailed(x, timedOut) = Done(x)
    BY <1>2 DEF ConnectFailed
  <2>2. Told(x, x)
    BY DEF Told, Silent, SameLogin, SameEpoch, Calm
  <2> QED BY <1>2, <2>1, <2>2, DoneTold
<1>3. CASE ~x.disposed
  <2>1. PICK y0 : y0 = TearDown(x, TRUE)
    OBVIOUS
  <2>2. /\ Sound(y0) /\ ~y0.loggedIn /\ y0.out = <<>> /\ Healthy(y0) /\ ~y0.client
    BY <2>1, TornDown DEF Sound, Sane
  <2>3. PICK z : z = IF timedOut THEN Expire(y0) ELSE y0
    OBVIOUS
  <2>4. Sound(z) /\ ~z.loggedIn /\ z.out = <<>> /\ Healthy(z) /\ ~z.client
    <3>1. Sound(Expire(y0)) /\ Undisturbed(y0, Expire(y0))
      BY <2>2, ExpireSound
    <3>2. CASE timedOut
      BY <2>2, <2>3, <3>1, <3>2 DEF Undisturbed, SameFlags, SameHealth, SameReceive, Healthy
    <3>3. CASE ~timedOut
      BY <2>2, <2>3, <3>3
    <3> QED BY <3>2, <3>3
  <2>5. PICK w : w = ApplyStatus(z, x.loggedIn)
    OBVIOUS
  <2>6. Sound(w) /\ Agree(z, w) /\ Healthy(w) = Healthy(z)
    BY <1>1, <2>4, <2>5, ApplyStatusSound
  <2>7. ~w.loggedIn /\ w.out = <<>> /\ Calm(x, w) /\ ~w.client
    BY <2>4, <2>6 DEF Agree, SameFlags, Calm
  <2>8. PICK y : y = EmitDisconnected(w, x.loggedIn)
    OBVIOUS
  <2>9. Sound(y) /\ Told(x, y) /\ SameFlags(w, y)
    BY <1>1, <2>6, <2>7, <2>8, Dropped
  <2>10. ~y.client
    BY <2>7, <2>9 DEF SameFlags
  <2>11. ConnectFailed(x, timedOut) = Done(y)
    BY <1>3, <2>1, <2>3, <2>5, <2>8 DEF ConnectFailed
  <2> QED BY <2>9, <2>10, <2>11, DoneTold
<1> QED BY <1>2, <1>3

\* A handshake that succeeds ends the deadline and takes up the client's login.
LEMMA ConnectSucceededSound ==
    ASSUME NEW x, Sound(x), Serial(x), x.out = <<>>, x.pc = "connect"
    PROVE  LET y == ConnectSucceeded(x) IN Sound(y) /\ Serial(y) /\ Told(x, y)
<1>1. x \in Session /\ x.peer \in LoginState
  BY DEF Sound, Sane, Session
<1>2. CASE x.disposed
  <2>1. ConnectSucceeded(x) = Done(x)
    BY <1>2 DEF ConnectSucceeded
  <2>2. Told(x, x)
    BY DEF Told, Silent, SameLogin, SameEpoch, Calm
  <2> QED BY <1>2, <2>1, <2>2, DoneTold
<1>3. CASE ~x.disposed /\ x.runtimeFailure
  <2>1. ConnectSucceeded(x) = ConnectFailed(x, FALSE)
    BY <1>3 DEF ConnectSucceeded
  <2> QED BY <2>1, ConnectFailedSound
<1>4. CASE ~x.disposed /\ ~x.runtimeFailure
  <2>1. PICK w : w = StopWatch(x)
    OBVIOUS
  <2>2. /\ w \in Session
        /\ SameFlags(x, w) /\ SameHealth(x, w) /\ w.out = x.out
        /\ w.watch = "off" /\ w.pipeUpPending = x.pipeUpPending /\ w.op = x.op /\ w.pc = x.pc
        /\ w.queue = Superseded(x.queue, "expire")
    BY <1>1, <2>1, StopWatchMethod
  <2>3. Coalesced(w) /\ \A i \in DOMAIN w.queue : w.queue[i] # "expire"
    BY <1>1, <2>2, SupersededKeepsUps DEF Sound, Sane
  <2> DEFINE z == [w EXCEPT !.connected = TRUE, !.hasConnected = TRUE, !.initErr = FALSE]
  <2>4. /\ z \in Session
        /\ z.connected = TRUE /\ z.hasConnected = TRUE /\ z.initErr = FALSE /\ z.watch = w.watch
        /\ z.loggedIn = w.loggedIn /\ z.uin = w.uin /\ z.client = w.client
        /\ z.runtimeFailure = w.runtimeFailure /\ z.disposed = w.disposed
        /\ SameChain(w, z) /\ SameHealth(w, z) /\ z.out = w.out
    BY <2>2, ZenonT(60) DEF Session, SameChain, SameHealth, SameReceive
  <2>5. ConnectSucceeded(x) = Done(HandleLoginState(z, x.peer))
    BY <1>4, <2>1 DEF ConnectSucceeded
  <2> HIDE DEF z
  <2>6. x.client
    BY <1>4 DEF Serial
  <2>7. Backed(z) /\ Stale(z) /\ Wired(z)
    BY <1>4, <2>2, <2>4, <2>6
       DEF Sound, Sane, Backed, Stale, Wired, SameFlags, SameHealth, SameReceive, SameChain
  <2>8. Coalesced(z) /\ Deadline(z)
    BY <2>2, <2>3, <2>4 DEF Coalesced, Deadline, SameChain
  <2>9. Sane(z)
    BY <2>4, <2>7, <2>8 DEF Sane
  <2>10. PICK y : y = HandleLoginState(z, x.peer)
    OBVIOUS
  <2>11. z.client /\ ~z.disposed /\ ~z.runtimeFailure /\ z.out = <<>>
    BY <1>4, <2>2, <2>4, <2>6 DEF SameFlags
  <2>12. Sound(y) /\ Told(z, y) /\ y.connected
    BY <1>1, <2>4, <2>9, <2>10, <2>11, HandleLoginStateSound
  <2>13. /\ x.loggedIn = z.loggedIn /\ x.uin = z.uin /\ x.recvUin = z.recvUin
         /\ Healthy(x) = Healthy(z)
    BY <2>2, <2>4 DEF SameFlags, SameHealth, SameReceive, Healthy
  <2>14. Told(x, y)
    BY <2>12, <2>13, ToldFrom
  <2> QED BY <2>5, <2>10, <2>12, <2>14, DoneTold
<1> QED BY <1>2, <1>3, <1>4

\* The end of loadInternal.
LEMMA LoadFinishedSound ==
    ASSUME NEW x, Sound(x), x.out = <<>>, x.pc # "connect"
    PROVE  LET y == LoadFinished(x) IN Sound(y) /\ Serial(y) /\ Told(x, y)
<1>1. CASE x.disposed
  <2>1. LoadFinished(x) = Done(x)
    BY <1>1 DEF LoadFinished
  <2>2. Told(x, x)
    BY DEF Told, Silent, SameLogin, SameEpoch, Calm
  <2> QED BY <2>1, <2>2, DoneTold
<1>2. CASE ~x.disposed
  <2> DEFINE x1 == [x EXCEPT !.initErr = FALSE]
  <2>1. /\ x \in Session /\ x1 \in Session /\ SameFlags(x, x1) /\ SameChain(x, x1) /\ SameHealth(x, x1)
        /\ x1.out = x.out /\ x1.initErr = FALSE /\ x1.watch = x.watch
        /\ x1.hasConnected = x.hasConnected
    BY DEF Sound, Sane, Session, SameFlags, SameChain, SameHealth, SameReceive
  <2>2. PICK w : w = StartWatch(x1)
    OBVIOUS
  <2>3. LoadFinished(x) = Done(ApplyStatus(w, w.loggedIn))
    BY <1>2, <2>2 DEF LoadFinished
  <2> HIDE DEF x1
  <2>4. /\ w \in Session
        /\ SameFlags(x1, w) /\ SameHealth(x1, w) /\ SameChain(x1, w) /\ w.out = x1.out
        /\ w.initErr = x1.initErr /\ w.hasConnected = x1.hasConnected
        /\ w.watch = x1.watch \/ (w.watch = "armed" /\ ~x1.hasConnected)
    BY <2>1, <2>2, StartWatchMethod
  <2>5. SameFlags(x, w) /\ SameHealth(x, w) /\ SameChain(x, w) /\ w.out = <<>>
    BY <2>1, <2>4 DEF SameFlags, SameHealth, SameReceive, SameChain
  <2>6. Backed(w) /\ Wired(w) /\ Reconciled(w) /\ Stale(w) /\ Coalesced(w)
    BY <2>5 DEF Sound, Sane, Backed, Wired, Reconciled, Stale, Coalesced, SameFlags, SameChain,
                SameHealth, SameReceive
  <2>7. Deadline(w)
    BY <2>1, <2>4, <2>5 DEF Sound, Sane, Deadline, SameFlags, SameChain
  <2>8. Sound(w) /\ w.loggedIn \in BOOLEAN
    BY <2>4, <2>6, <2>7 DEF Sound, Sane, Session
  <2>9. PICK z : z = ApplyStatus(w, w.loggedIn)
    OBVIOUS
  <2>10. Sound(z) /\ Agree(w, z)
    BY <2>8, <2>9, ApplyStatusSound
  <2>11. Told(x, z) /\ z.pc # "connect"
    BY <2>5, <2>10, UndisturbedIsSilent DEF Agree, SameFlags, SameHealth, SameReceive, SameChain
  <2> QED BY <2>3, <2>9, <2>10, <2>11, DoneTold
<1> QED BY <1>1, <1>2

\* unloadInternal once the library is out.
LEMMA UnloadedSound ==
    ASSUME NEW x, Sound(x), ~x.client, x.op # "none"
    PROVE  LET y == Unloaded(x)
           IN  /\ Sound(y) /\ Serial(y) /\ ~y.loggedIn /\ ~x.loggedIn /\ y.loggedIn = x.loggedIn
               /\ Healthy(y) = Healthy(x) /\ y.out = x.out
<1>1. "tickUnload" \in Await /\ NoUin \in Uins \cup {NoUin}
  BY DEF Await
<1> DEFINE y == [x EXCEPT !.injected = FALSE, !.handle = FALSE, !.uin = NoUin, !.pc = "tickUnload"]
<1>2. y \in Session
  BY <1>1 DEF Sound, Sane, Session
<1>3. /\ SameWatch(x, y) /\ SameHealth(x, y) /\ y.out = x.out
      /\ y.connected = x.connected /\ y.loggedIn = x.loggedIn /\ y.client = x.client
      /\ y.runtimeFailure = x.runtimeFailure /\ y.disposed = x.disposed /\ y.reconcile = x.reconcile
      /\ y.pipeUpPending = x.pipeUpPending /\ y.queue = x.queue /\ y.op = x.op /\ y.pc = "tickUnload"
  BY DEF Sound, Sane, Session, SameWatch, SameHealth, SameReceive
<1>4. Unloaded(x) = y
  BY DEF Unloaded
<1> HIDE DEF y
<1>5. ~x.loggedIn
  BY DEF Sound, Sane, Backed
<1>6. Backed(y) /\ Wired(y) /\ Reconciled(y) /\ Stale(y) /\ Serial(y)
  BY <1>3, <1>5 DEF Sound, Sane, Backed, Wired, Reconciled, Stale, Serial, SameHealth, SameReceive
<1>7. Coalesced(y) /\ Deadline(y)
  BY <1>3 DEF Sound, Sane, Coalesced, Deadline, SameWatch
<1>8. Healthy(y) = Healthy(x)
  BY <1>3 DEF Healthy, SameHealth, SameReceive
<1> QED BY <1>2, <1>3, <1>4, <1>5, <1>6, <1>7, <1>8 DEF Sound, Sane

-----------------------------------------------------------------------------
(* The operations, up to their first await.                                *)

\* A session at which opChain has just taken its next operation.
Begun(x) == Sound(x) /\ x.out = <<>> /\ x.op # "none" /\ x.pc = "idle"

\* loadInternal.
LEMMA RunLoadSound ==
    ASSUME NEW x, Begun(x)
    PROVE  LET y == RunLoad(x) IN Sound(y) /\ Serial(y) /\ Told(x, y)
<1>1. CASE x.disposed
  <2>1. RunLoad(x) = Done(x)
    BY <1>1 DEF RunLoad
  <2>2. Told(x, x)
    BY DEF Told, Silent, SameLogin, SameEpoch, Calm, Begun
  <2> QED BY <1>1, <2>1, <2>2, DoneTold DEF Begun
<1>2. CASE ~x.disposed
  <2> DEFINE y0 == [x EXCEPT !.status = "loading"]
             y1 == [y0 EXCEPT !.injected = TRUE]
             y2 == [y0 EXCEPT !.pc = "inject"]
  <2>1. x \in Session /\ "inject" \in Await /\ "loading" \in Status
    BY DEF Begun, Sound, Sane, Await, Status
  <2>2. y0 \in Session /\ Agree(x, y0)
    BY <2>1 DEF Session, Agree, SameFlags, SameWatch, SameChain, SameHealth, SameReceive
  <2>3. RunLoad(x) = IF y0.injected \/ live THEN LoadFinished(y1) ELSE y2
    BY <1>2 DEF RunLoad
  <2> HIDE DEF y0
  <2>4. y1 \in Session /\ Agree(y0, y1)
    BY <2>2 DEF Session, Agree, SameFlags, SameWatch, SameChain, SameHealth, SameReceive
  <2>5. /\ y2 \in Session /\ SameFlags(y0, y2) /\ SameWatch(y0, y2) /\ SameHealth(y0, y2)
        /\ y2.out = y0.out /\ y2.pipeUpPending = y0.pipeUpPending /\ y2.queue = y0.queue
        /\ y2.op = y0.op /\ y2.pc = "inject"
    BY <2>1, <2>2, ZenonT(40) DEF Session, SameFlags, SameWatch, SameHealth, SameReceive
  <2> HIDE DEF y1, y2
  <2>6. CASE y0.injected \/ live
    <3>1. Sane(y0) /\ Reconciled(y0)
      BY <2>2, SaneAgree DEF Agree, Begun, Sound
    <3>2. Sound(y1)
      BY <2>4, <3>1, SaneAgree DEF Agree, Sound
    <3>3. y1.out = <<>> /\ y1.pc # "connect" /\ y1.loggedIn = x.loggedIn /\ y1.uin = x.uin
          /\ y1.recvUin = x.recvUin /\ Healthy(y1) = Healthy(x)
      BY <2>2, <2>4 DEF Agree, SameChain, SameFlags, SameHealth, SameReceive, Healthy, Begun
    <3>4. PICK y : y = LoadFinished(y1)
      OBVIOUS
    <3>5. Sound(y) /\ Serial(y) /\ Told(y1, y)
      BY <3>2, <3>3, <3>4, LoadFinishedSound
    <3>6. Told(x, y)
      BY <3>3, <3>5, ToldFrom
    <3> QED BY <2>3, <2>6, <3>4, <3>5, <3>6
  <2>7. CASE ~(y0.injected \/ live)
    <3>1. /\ SameFlags(x, y2) /\ SameWatch(x, y2) /\ SameHealth(x, y2)
          /\ y2.out = <<>> /\ y2.pipeUpPending = x.pipeUpPending /\ y2.queue = x.queue
          /\ y2.op = x.op /\ y2.pc = "inject" /\ x.pc = "idle" /\ x.op # "none"
      BY <2>2, <2>5 DEF Agree, SameFlags, SameWatch, SameHealth, SameReceive, SameChain, Begun
    <3>2. Backed(y2) /\ Wired(y2) /\ Reconciled(y2) /\ Stale(y2) /\ Serial(y2)
      BY <3>1
         DEF Begun, Sound, Sane, Backed, Wired, Reconciled, Stale, Serial, SameFlags, SameHealth, SameReceive
    <3>3. Coalesced(y2) /\ Deadline(y2)
      BY <3>1 DEF Begun, Sound, Sane, Coalesced, Deadline, SameFlags, SameWatch
    <3>4. Told(x, y2)
      BY <3>1, UndisturbedIsSilent
    <3> QED BY <2>3, <2>5, <2>7, <3>2, <3>3, <3>4 DEF Sound, Sane
  <2> QED BY <2>6, <2>7
<1> QED BY <1>1, <1>2

\* unloadInternal: the client goes first, whether or not the library comes out.
LEMMA RunUnloadSound ==
    ASSUME NEW x, Begun(x)
    PROVE  LET y == RunUnload(x) IN Sound(y) /\ Serial(y) /\ Told(x, y)
<1>1. x \in Session /\ x.loggedIn \in BOOLEAN /\ x.out = <<>> /\ x.op # "none"
  BY DEF Begun, Sound, Sane, Session
<1>2. PICK w : w = StopWatch(x)
  OBVIOUS
<1>3. w \in Session /\ Coalesced(w) /\ w.out = <<>> /\ w.op = x.op
  BY <1>1, <1>2, StopWatchMethod, StopWatchSound DEF Begun, Sound, Sane
<1> DEFINE y0 == [w EXCEPT !.initErr = FALSE, !.hasConnected = FALSE]
<1>4. y0 \in Session /\ y0.out = <<>> /\ y0.op = x.op /\ SameChain(w, y0)
  BY <1>3, ZenonT(40) DEF Session, SameChain
<1>5. PICK z0 : z0 = TearDown(y0, FALSE)
  OBVIOUS
<1>6. PICK z : z = EmitDisconnected(z0, x.loggedIn)
  OBVIOUS
<1>7. RunUnload(x) = IF z.injected /\ z.handle THEN [z EXCEPT !.pc = "unloadDll"] ELSE Unloaded(z)
  BY <1>2, <1>5, <1>6 DEF RunUnload
<1> HIDE DEF y0
<1>8. Coalesced(y0)
  BY <1>3, <1>4 DEF Coalesced, SameChain
<1>9. /\ Sound(z0) /\ ~z0.loggedIn /\ z0.out = <<>> /\ Healthy(z0) /\ ~z0.client
      /\ z0.op = x.op
  BY <1>4, <1>5, <1>8, TornDown
<1>10. Sound(z) /\ Told(x, z) /\ SameFlags(z0, z) /\ SameChain(z0, z)
  BY <1>1, <1>6, <1>9, Dropped DEF Calm
<1>11. ~z.client /\ ~z.loggedIn /\ z.op # "none" /\ z \in Session
  BY <1>1, <1>9, <1>10 DEF SameFlags, SameChain, Sound, Sane
<1>12. CASE z.injected /\ z.handle
  <2> DEFINE y == [z EXCEPT !.pc = "unloadDll"]
  <2>1. "unloadDll" \in Await
    BY DEF Await
  <2>2. /\ y \in Session /\ SameFlags(z, y) /\ SameWatch(z, y) /\ SameHealth(z, y) /\ y.out = z.out
        /\ y.pipeUpPending = z.pipeUpPending /\ y.queue = z.queue /\ y.op = z.op /\ y.pc = "unloadDll"
    BY <1>11, <2>1 DEF Session, SameFlags, SameWatch, SameHealth, SameReceive
  <2>3. RunUnload(x) = y
    BY <1>7, <1>12
  <2> HIDE DEF y
  <2>4. Backed(y) /\ Wired(y) /\ Reconciled(y) /\ Stale(y) /\ Serial(y)
    BY <1>10, <1>11, <2>2
       DEF Sound, Sane, Backed, Wired, Reconciled, Stale, Serial, SameFlags, SameHealth, SameReceive
  <2>5. Coalesced(y) /\ Deadline(y)
    BY <1>10, <2>2 DEF Sound, Sane, Coalesced, Deadline, SameFlags, SameWatch
  <2>6. Told(x, y)
    <3>1. /\ Healthy(y) = Healthy(z) /\ y.loggedIn = z.loggedIn /\ y.uin = z.uin
          /\ y.recvUin = z.recvUin
      BY <2>2 DEF Healthy, SameHealth, SameReceive, SameFlags
    <3> QED BY <1>10, <2>2, <3>1, ToldTo
  <2> QED BY <2>2, <2>3, <2>4, <2>5, <2>6 DEF Sound, Sane
<1>13. CASE ~(z.injected /\ z.handle)
  <2>1. PICK y : y = Unloaded(z)
    OBVIOUS
  <2>2. /\ Sound(y) /\ Serial(y) /\ y.loggedIn = z.loggedIn
        /\ Healthy(y) = Healthy(z) /\ y.out = z.out
    BY <1>10, <1>11, <2>1, UnloadedSound
  <2>3. Told(x, y)
    BY <1>10, <1>11, <2>2, ToldTo
  <2> QED BY <1>7, <1>13, <2>1, <2>2, <2>3
<1> QED BY <1>12, <1>13

\* refreshInternal.
LEMMA RunRefreshSound ==
    ASSUME NEW x, Begun(x)
    PROVE  LET y == RunRefresh(x) IN Sound(y) /\ Serial(y) /\ Told(x, y)
<1>1. CASE live
  BY <1>1, ReconcilePipeUpSound DEF RunRefresh, Begun
<1>2. CASE ~live
  <2>1. PICK y : y = ReconcilePipeDown(x)
    OBVIOUS
  <2>2. Sound(y) /\ Told(x, y) /\ y.pc # "connect"
    BY <2>1, ReconcilePipeDownSound DEF Begun
  <2>3. RunRefresh(x) = Done(y)
    BY <1>2, <2>1 DEF RunRefresh
  <2> QED BY <2>2, <2>3, DoneTold
<1> QED BY <1>1, <1>2

\* The end of a session.
LEMMA EndedSound ==
    ASSUME NEW z, Sound(z), ~z.client, NEW y \in Session,
           y.connected = z.connected, y.loggedIn = z.loggedIn, y.client = z.client,
           y.runtimeFailure = z.runtimeFailure, y.reconcile = z.reconcile, y.disposed,
           SameWatch(z, y), SameChain(z, y), SameHealth(z, y)
    PROVE  Sound(y)
<1>1. ~z.loggedIn /\ ~z.connected
  BY DEF Sound, Sane, Backed, Wired
<1>2. Backed(y) /\ Wired(y) /\ Reconciled(y) /\ Stale(y) /\ Deadline(y)
  BY <1>1
     DEF Sound, Sane, Backed, Wired, Reconciled, Stale, Deadline, SameChain, SameHealth, SameReceive
<1>3. Coalesced(y)
  BY DEF Sound, Sane, Coalesced, SameChain
<1> QED BY <1>2, <1>3 DEF Sound, Sane

\* onProcessGone.
LEMMA RunGoneSound ==
    ASSUME NEW x, Begun(x)
    PROVE  LET y == RunGone(x) IN Sound(y) /\ Serial(y) /\ Told(x, y)
<1>1. x \in Session /\ x.loggedIn \in BOOLEAN /\ x.out = <<>> /\ x.pc = "idle"
  BY DEF Begun, Sound, Sane, Session
<1>2. PICK w : w = StopWatch(x)
  OBVIOUS
<1>3. w \in Session /\ Coalesced(w) /\ w.out = <<>> /\ w.pc = x.pc
  BY <1>1, <1>2, StopWatchMethod, StopWatchSound DEF Begun, Sound, Sane
<1>4. PICK z : z = TearDown(w, FALSE)
  OBVIOUS
<1>5. Sound(z) /\ ~z.loggedIn /\ z.out = <<>> /\ Healthy(z) /\ ~z.client /\ z.pc = x.pc
  BY <1>3, <1>4, TornDown
<1> DEFINE y0 == [z EXCEPT !.injected = FALSE, !.handle = FALSE, !.status = "available",
                           !.disposed = TRUE]
<1>6. "available" \in Status
  BY DEF Status
<1>7. y0 \in Session
  BY <1>5, <1>6 DEF Sound, Sane, Session
<1>8. /\ y0.connected = z.connected /\ y0.loggedIn = z.loggedIn /\ y0.client = z.client
      /\ y0.runtimeFailure = z.runtimeFailure /\ y0.reconcile = z.reconcile /\ y0.disposed = TRUE
      /\ SameWatch(z, y0) /\ SameChain(z, y0) /\ SameHealth(z, y0) /\ y0.out = z.out
  BY <1>5 DEF Sound, Sane, Session, SameWatch, SameChain, SameHealth, SameReceive
<1>9. RunGone(x) = Done(EmitDisconnected(y0, x.loggedIn))
  BY <1>2, <1>4 DEF RunGone
<1> HIDE DEF y0
<1>10. Sound(y0)
  BY <1>5, <1>7, <1>8, EndedSound
<1>11. ~y0.loggedIn /\ y0.out = <<>> /\ Calm(x, y0) /\ y0.pc = "idle"
  BY <1>1, <1>5, <1>8 DEF Calm, Healthy, SameHealth, SameReceive, SameChain
<1>12. PICK y : y = EmitDisconnected(y0, x.loggedIn)
  OBVIOUS
<1>13. Sound(y) /\ Told(x, y) /\ SameChain(y0, y)
  BY <1>1, <1>10, <1>11, <1>12, Dropped
<1>14. y.pc # "connect"
  BY <1>11, <1>13 DEF SameChain
<1> QED BY <1>9, <1>12, <1>13, <1>14, DoneTold

\* Every operation keeps the invariants and tells what it changes.
LEMMA RunSound ==
    ASSUME NEW x, Begun(x), NEW o \in Op
    PROVE  LET y == Run(x, o) IN Sound(y) /\ Serial(y) /\ Told(x, y)
<1>0. Told(x, x)
  BY DEF Told, Silent, SameLogin, SameEpoch, Calm, Begun
<1>1. Sound(Done(x)) /\ Serial(Done(x)) /\ Told(x, Done(x))
  BY <1>0, DoneTold DEF Begun
<1>2. CASE o = "load"
  BY <1>2, RunLoadSound DEF Run
<1>3. CASE o = "unload"
  BY <1>3, RunUnloadSound DEF Run
<1>4. CASE o = "refresh"
  BY <1>4, RunRefreshSound DEF Run
<1>5. CASE o = "pipeUp"
  <2>1. Run(x, o) = IF x.disposed THEN Done(x) ELSE ReconcilePipeUp(x)
    BY <1>5 DEF Run
  <2> QED BY <1>1, <2>1, ReconcilePipeUpSound DEF Begun
<1>6. CASE o \in {"pipeDown", "close"}
  <2>1. PICK y : y = IF x.disposed THEN x ELSE ReconcilePipeDown(x)
    OBVIOUS
  <2>2. Run(x, o) = Done(y)
    BY <1>6, <2>1 DEF Run
  <2>3. Sound(y) /\ Told(x, y) /\ y.pc # "connect"
    BY <1>0, <2>1, ReconcilePipeDownSound DEF Begun
  <2> QED BY <2>2, <2>3, DoneTold
<1>7. CASE o = "gone"
  <2>1. Run(x, o) = IF x.disposed THEN Done(x) ELSE RunGone(x)
    BY <1>7 DEF Run
  <2> QED BY <1>1, <2>1, RunGoneSound
<1>8. CASE o = "expire"
  <2>1. PICK y : y = Expire(x)
    OBVIOUS
  <2>2. Sound(y) /\ Undisturbed(x, y)
    BY <2>1, ExpireSound DEF Begun
  <2>3. Told(x, y) /\ y.pc # "connect"
    BY <2>2, UndisturbedIsSilent DEF Undisturbed, Begun
  <2>4. Run(x, o) = Done(y)
    BY <1>8, <2>1 DEF Run
  <2> QED BY <2>2, <2>3, <2>4, DoneTold
<1>9. CASE o = "skip"
  BY <1>1, <1>9 DEF Run
<1> QED BY <1>2, <1>3, <1>4, <1>5, <1>6, <1>7, <1>8, <1>9 DEF Op

-----------------------------------------------------------------------------
(* The watcher's callbacks.                                                *)

\* onPipeUp: an attempt joins the chain only when none is pending.
LEMMA OnPipeUpSound ==
    ASSUME NEW x, Sound(x)
    PROVE  LET y == OnPipeUp(x) IN Sound(y) /\ (Serial(x) => Serial(y)) /\ Undisturbed(x, y)
<1>1. CASE x.disposed \/ x.pipeUpPending \/ x.pc = "connect"
  BY <1>1 DEF OnPipeUp, Undisturbed, SameFlags, SameHealth, SameReceive
<1>2. CASE ~(x.disposed \/ x.pipeUpPending \/ x.pc = "connect")
  <2> DEFINE z == [x EXCEPT !.pipeUpPending = TRUE]
  <2>1. /\ x \in Session /\ z \in Session /\ SameFlags(x, z) /\ SameWatch(x, z) /\ SameHealth(x, z)
        /\ z.out = x.out /\ z.pipeUpPending = TRUE /\ z.queue = x.queue /\ z.op = x.op /\ z.pc = x.pc
    BY DEF Sound, Sane, Session, SameFlags, SameWatch, SameHealth, SameReceive
  <2>2. PICK y : y = Enqueue(z, "pipeUp")
    OBVIOUS
  <2>3. OnPipeUp(x) = y
    BY <1>2, <2>2 DEF OnPipeUp
  <2> HIDE DEF z
  <2>4. "pipeUp" \in Op
    BY DEF Op
  <2>5. /\ y \in Session /\ SameFlags(z, y) /\ SameWatch(z, y) /\ SameHealth(z, y) /\ y.out = z.out
        /\ y.pipeUpPending = z.pipeUpPending /\ y.op = z.op /\ y.pc = z.pc
        /\ y.queue = Append(z.queue, "pipeUp")
    BY <2>1, <2>2, <2>4, EnqueueMethod
  <2>6. /\ SameFlags(x, y) /\ SameWatch(x, y) /\ SameHealth(x, y) /\ y.out = x.out
        /\ y.pipeUpPending = TRUE /\ y.op = x.op /\ y.pc = x.pc
        /\ y.queue = Append(x.queue, "pipeUp") /\ x.queue \in Seq(Op)
    BY <2>1, <2>5 DEF SameFlags, SameWatch, SameHealth, SameReceive, Session
  <2>7. Backed(y) /\ Wired(y) /\ Reconciled(y) /\ Stale(y) /\ (Serial(x) => Serial(y))
    BY <2>6
       DEF Sound, Sane, Backed, Wired, Reconciled, Stale, Serial, SameFlags, SameHealth, SameReceive
  <2>8. /\ \A i \in DOMAIN y.queue : i = Len(x.queue) + 1 \/ (i \in DOMAIN x.queue /\ y.queue[i] = x.queue[i])
        /\ Len(x.queue) + 1 \in DOMAIN y.queue
        /\ y.queue[Len(x.queue) + 1] = "pipeUp"
    BY <2>6
  <2>9. ~HasUp(x.queue) /\ x.op # "pipeUp"
    BY <1>2 DEF Sound, Sane, Coalesced
  <2>10. Coalesced(y)
    <3>1. HasUp(y.queue)
      BY <2>8 DEF HasUp
    <3>2. \A i \in DOMAIN y.queue : y.queue[i] = "pipeUp" => i = Len(x.queue) + 1
      BY <2>8, <2>9 DEF HasUp
    <3> QED BY <2>6, <2>9, <3>1, <3>2 DEF Coalesced
  <2>11. Deadline(y)
    BY <2>6, <2>8 DEF Sound, Sane, Deadline, SameFlags, SameWatch
  <2> QED BY <2>3, <2>5, <2>6, <2>7, <2>10, <2>11 DEF Sound, Sane, Undisturbed
<1> QED BY <1>1, <1>2

\* onPipeDown.
LEMMA OnPipeDownSound ==
    ASSUME NEW x, Sound(x)
    PROVE  LET y == OnPipeDown(x) IN Sound(y) /\ (Serial(x) => Serial(y)) /\ Undisturbed(x, y)
<1>1. CASE x.disposed
  BY <1>1 DEF OnPipeDown, Undisturbed, SameFlags, SameHealth, SameReceive
<1>2. CASE ~x.disposed
  <2>1. PICK y : y = Enqueue(x, "pipeDown")
    OBVIOUS
  <2>2. "pipeDown" \in Op \ {"pipeUp"}
    BY DEF Op
  <2>3. /\ Sane(y) /\ Reconciled(y) /\ (Serial(x) => Serial(y))
        /\ y.pc = x.pc /\ y.op = x.op /\ y.out = x.out /\ SameFlags(x, y) /\ SameHealth(x, y)
    BY <2>1, <2>2, EnqueueSound DEF Sound
  <2>4. OnPipeDown(x) = y
    BY <1>2, <2>1 DEF OnPipeDown
  <2> QED BY <2>3, <2>4 DEF Sound, Undisturbed
<1> QED BY <1>1, <1>2

\* One poll: the edge, then the tick.
LEMMA PolledSound ==
    ASSUME NEW x, Sound(x), NEW up \in BOOLEAN
    PROVE  LET y == Polled(x, up) IN Sound(y) /\ (Serial(x) => Serial(y)) /\ Undisturbed(x, y)
<1>1. PICK w : w = IF up /\ ~live THEN OnPipeUp(x) ELSE IF ~up /\ live THEN OnPipeDown(x) ELSE x
  OBVIOUS
<1>2. Sound(w) /\ (Serial(x) => Serial(w)) /\ Undisturbed(x, w)
  <2>1. Undisturbed(x, x)
    BY DEF Undisturbed, SameFlags, SameHealth, SameReceive
  <2> QED BY <1>1, <2>1, OnPipeUpSound, OnPipeDownSound
<1>3. PICK y : y = Retry(w, up)
  OBVIOUS
<1>4. Sound(y) /\ (Serial(w) => Serial(y)) /\ Undisturbed(w, y)
  <2>1. Undisturbed(w, w)
    BY DEF Undisturbed, SameFlags, SameHealth, SameReceive
  <2> QED BY <1>2, <1>3, <2>1, OnPipeUpSound DEF Retry
<1>5. Polled(x, up) = y
  BY <1>1, <1>3 DEF Polled
<1> QED BY <1>2, <1>4, <1>5 DEF Undisturbed, SameFlags, SameHealth, SameReceive

-----------------------------------------------------------------------------
(* The steps.  Each is one turn, from Turn to the session it commits.      *)

Good == Sound(s) /\ Serial(s) /\ live \in BOOLEAN /\ alive \in BOOLEAN /\ cmds \in Nat

\* The turn ends in a session that keeps the invariants, and has told its listeners
\* what changed.
Kept(y) == Sound(y) /\ Serial(y) /\ Told(Turn, y)

Committed ==
    /\ \E y : Commit(y) /\ Kept(y)
    /\ live' \in BOOLEAN /\ alive' \in BOOLEAN /\ cmds' \in Nat

\* A turn begins with the session as it was.
LEMMA TurnSound ==
    ASSUME Good
    PROVE  /\ Turn \in Session /\ Sound(Turn) /\ Serial(Turn) /\ Turn.out = <<>>
           /\ SameFlags(s, Turn) /\ SameWatch(s, Turn) /\ SameChain(s, Turn) /\ SameHealth(s, Turn)
           /\ Turn.peer = s.peer /\ Turn.reqs = s.reqs /\ Turn.stage = s.stage /\ Turn.sockets = s.sockets
           /\ Turn.recvTimer = s.recvTimer
<1>1. s \in Session /\ <<>> \in Seq(Event)
  BY DEF Good, Sound, Sane
<1>2. Turn \in Session
  BY <1>1 DEF Turn, Session
<1>3. /\ Turn.out = <<>>
      /\ SameFlags(s, Turn) /\ SameWatch(s, Turn) /\ SameChain(s, Turn) /\ SameHealth(s, Turn)
      /\ Turn.peer = s.peer /\ Turn.reqs = s.reqs /\ Turn.stage = s.stage /\ Turn.sockets = s.sockets
      /\ Turn.recvTimer = s.recvTimer
  BY <1>1 DEF Turn, Session, SameFlags, SameWatch, SameChain, SameHealth, SameReceive
<1>4. Sound(Turn)
  BY <1>2, <1>3, SaneAgree DEF Good, Sound
<1>5. Serial(Turn)
  BY <1>3 DEF Good, Serial, SameChain, SameFlags
<1> QED BY <1>2, <1>3, <1>4, <1>5

\* A turn that changes neither what the invariants are about nor the events.
LEMMA KeptAgree ==
    ASSUME NEW x, Sound(x), Serial(x), x.out = <<>>, SameFlags(Turn, x), SameHealth(Turn, x),
           NEW y \in Session, Agree(x, y)
    PROVE  Kept(y)
<1>1. Sound(y)
  BY SaneAgree DEF Sound, Agree
<1>2. Serial(y)
  BY DEF Serial, Agree, SameChain, SameFlags
<1>3. Told(Turn, y)
  BY UndisturbedIsSilent DEF Agree, SameFlags, SameHealth, SameReceive
<1> QED BY <1>1, <1>2, <1>3 DEF Kept

\* load(), unload() and refresh() join the chain.
LEMMA CommandStep ==
    ASSUME Good, NEW o \in {"load", "unload", "refresh"}, Command(o)
    PROVE  Committed
<1>1. PICK x : x = Turn
  OBVIOUS
<1>2. Sound(x) /\ Serial(x) /\ x.out = <<>>
  BY <1>1, TurnSound
<1>3. PICK y : y = Enqueue(x, o)
  OBVIOUS
<1>4. o \in Op \ {"pipeUp"} /\ o # "expire"
  BY DEF Op
<1>5. /\ Sound(y) /\ Serial(y) /\ y.out = <<>> /\ SameFlags(x, y) /\ SameHealth(x, y)
  BY <1>2, <1>3, <1>4, EnqueueSound DEF Sound
<1>6. Kept(y)
  BY <1>1, <1>5, UndisturbedIsSilent DEF Kept
<1>7. Commit(y) /\ cmds' = cmds + 1 /\ live' = live /\ alive' = alive
  BY <1>1, <1>3 DEF Command
<1> QED BY <1>6, <1>7 DEF Committed, Good

\* opChain takes its next operation.
LEMMA BegunSound ==
    ASSUME Good, s.pc = "idle", s.queue # <<>>
    PROVE  LET x == [Turn EXCEPT !.op = Head(s.queue), !.queue = Tail(@)]
           IN  /\ Begun(x) /\ Head(s.queue) \in Op
               /\ SameFlags(Turn, x) /\ SameHealth(Turn, x)
<1>1. PICK t : t = Turn
  OBVIOUS
<1>2. /\ t \in Session /\ Sound(t) /\ Serial(t) /\ t.out = <<>> /\ t.pc = "idle"
      /\ t.queue = s.queue
  BY <1>1, TurnSound DEF SameChain
<1>3. PICK q : q = t.queue
  OBVIOUS
<1>4. q \in Seq(Op) /\ q # <<>> /\ q = s.queue
  BY <1>2, <1>3 DEF Session
<1>5. Head(q) \in Op /\ Head(q) = q[1] /\ Tail(q) \in Seq(Op) /\ Len(q) \in Nat /\ Len(q) >= 1
  BY <1>4
<1>6. DOMAIN q = 1..Len(q) /\ DOMAIN Tail(q) = 1..(Len(q) - 1)
      /\ \A i \in 1..(Len(q) - 1) : Tail(q)[i] = q[i + 1]
  BY <1>4
<1> DEFINE x == [t EXCEPT !.op = Head(q), !.queue = Tail(q)]
<1>7. /\ x \in Session /\ SameFlags(t, x) /\ SameWatch(t, x) /\ SameHealth(t, x) /\ x.out = t.out
      /\ x.pipeUpPending = t.pipeUpPending /\ x.pc = t.pc /\ x.op = Head(q) /\ x.queue = Tail(q)
  <2>1. x \in Session
    BY <1>2, <1>5, ZenonT(60) DEF Session
  <2>2. /\ SameFlags(t, x) /\ SameWatch(t, x) /\ SameHealth(t, x) /\ x.out = t.out
        /\ x.pipeUpPending = t.pipeUpPending /\ x.pc = t.pc /\ x.op = Head(q) /\ x.queue = Tail(q)
    BY <1>2, <1>5, SMTT(20) DEF Session, SameFlags, SameWatch, SameHealth, SameReceive
  <2> QED BY <2>1, <2>2
<1>8. x = [Turn EXCEPT !.op = Head(s.queue), !.queue = Tail(@)]
  BY <1>1, <1>3, <1>4
<1> HIDE DEF x
<1>9. Backed(x) /\ Wired(x) /\ Reconciled(x) /\ Stale(x)
  BY <1>2, <1>7 DEF Sound, Sane, Backed, Wired, Reconciled, Stale, SameFlags, SameHealth, SameReceive
<1>10. Deadline(x)
  <2>1. \A i \in DOMAIN x.queue : i + 1 \in DOMAIN q /\ x.queue[i] = q[i + 1]
    BY <1>5, <1>6, <1>7
  <2> QED BY <1>2, <1>3, <1>7, <2>1 DEF Sound, Sane, Deadline, SameFlags, SameWatch
<1>11. Coalesced(x)
  <2>1. t.op = "none" /\ Coalesced(t)
    BY <1>2 DEF Serial, Sound, Sane
  <2>2. \A i, j \in DOMAIN q : q[i] = "pipeUp" /\ q[j] = "pipeUp" => i = j
    BY <1>3, <2>1 DEF Coalesced
  <2>3. \A i, j \in DOMAIN x.queue : x.queue[i] = "pipeUp" /\ x.queue[j] = "pipeUp" => i = j
    <3> SUFFICES ASSUME NEW i \in 1..(Len(q) - 1), NEW j \in 1..(Len(q) - 1),
                        Tail(q)[i] = "pipeUp", Tail(q)[j] = "pipeUp"
                 PROVE  i = j
      BY <1>6, <1>7
    <3>1. i + 1 \in DOMAIN q /\ j + 1 \in DOMAIN q /\ q[i + 1] = "pipeUp" /\ q[j + 1] = "pipeUp"
      BY <1>5, <1>6
    <3>2. i + 1 = j + 1
      BY <2>2, <3>1
    <3> QED BY <3>2
  <2>4. HasUp(Tail(q)) => q[1] # "pipeUp"
    <3> SUFFICES ASSUME NEW i \in 1..(Len(q) - 1), Tail(q)[i] = "pipeUp", q[1] = "pipeUp"
                 PROVE  FALSE
      BY <1>6 DEF HasUp
    <3>1. i + 1 \in DOMAIN q /\ 1 \in DOMAIN q /\ q[i + 1] = "pipeUp"
      BY <1>5, <1>6
    <3>2. i + 1 = 1
      BY <2>2, <3>1
    <3> QED BY <3>2
  <2>5. HasUp(q) <=> HasUp(Tail(q)) \/ q[1] = "pipeUp"
    <3>1. ASSUME NEW i \in 1..Len(q), q[i] = "pipeUp", q[1] # "pipeUp"
          PROVE  HasUp(Tail(q))
      <4>1. i - 1 \in 1..(Len(q) - 1) /\ Tail(q)[i - 1] = "pipeUp"
        <5>1. i - 1 \in 1..(Len(q) - 1)
          BY <1>5, <3>1
        <5>2. Tail(q)[i - 1] = q[(i - 1) + 1] /\ (i - 1) + 1 = i
          BY <1>6, <5>1
        <5> QED BY <3>1, <5>1, <5>2
      <4> QED BY <1>6, <4>1 DEF HasUp
    <3>2. ASSUME NEW i \in 1..(Len(q) - 1), Tail(q)[i] = "pipeUp"
          PROVE  HasUp(q)
      <4>1. i + 1 \in DOMAIN q /\ q[i + 1] = "pipeUp"
        BY <1>5, <1>6, <3>2
      <4> QED BY <4>1 DEF HasUp
    <3>3. 1 \in DOMAIN q
      BY <1>5, <1>6
    <3> QED BY <1>6, <3>1, <3>2, <3>3 DEF HasUp
  <2> QED BY <1>3, <1>5, <1>7, <2>1, <2>3, <2>4, <2>5 DEF Coalesced
<1>12. x.op # "none" /\ x.pc = "idle" /\ x.out = <<>>
  BY <1>2, <1>5, <1>7 DEF Op
<1> QED BY <1>1, <1>4, <1>5, <1>7, <1>8, <1>9, <1>10, <1>11, <1>12 DEF Begun, Sound, Sane

\* Of an operation.
LEMMA RunNextStep ==
    ASSUME Good, RunNext
    PROVE  Committed
<1>1. PICK x : x = [Turn EXCEPT !.op = Head(s.queue), !.queue = Tail(@)]
  OBVIOUS
<1>2. PICK o : o = Head(s.queue)
  OBVIOUS
<1>3. Begun(x) /\ o \in Op /\ SameFlags(Turn, x) /\ SameHealth(Turn, x)
  BY <1>1, <1>2, BegunSound DEF RunNext
<1>4. PICK y : y = Run(x, o)
  OBVIOUS
<1>5. Sound(y) /\ Serial(y) /\ Told(x, y)
  BY <1>3, <1>4, RunSound
<1>6. Told(Turn, y)
  <2>1. /\ Turn.loggedIn = x.loggedIn /\ Turn.uin = x.uin /\ Turn.recvUin = x.recvUin
        /\ Healthy(Turn) = Healthy(x)
    BY <1>3 DEF SameFlags, SameHealth, SameReceive, Healthy
  <2> QED BY <1>5, <2>1, ToldFrom
<1>7. Commit(y) /\ UNCHANGED <<live, alive, cmds>>
  BY <1>1, <1>2, <1>4 DEF RunNext
<1> QED BY <1>5, <1>6, <1>7 DEF Committed, Good, Kept

\* The injector returns.
LEMMA InjectReturnsStep ==
    ASSUME Good, NEW ok \in BOOLEAN, InjectReturns(ok)
    PROVE  Committed
<1>1. PICK t : t = Turn
  OBVIOUS
<1>2. /\ t \in Session /\ Sound(t) /\ Serial(t) /\ t.out = <<>> /\ t.pc = "inject"
  BY <1>1, TurnSound DEF InjectReturns, SameChain
<1>3. UNCHANGED <<live, alive, cmds>>
  BY DEF InjectReturns
<1>4. CASE ok
  <2> DEFINE x == [t EXCEPT !.injected = TRUE, !.handle = TRUE]
  <2>1. x \in Session /\ Agree(t, x)
    BY <1>2 DEF Session, Agree, SameFlags, SameWatch, SameChain, SameHealth, SameReceive
  <2>2. Commit(LoadFinished(x))
    BY <1>1, <1>4 DEF InjectReturns
  <2> HIDE DEF x
  <2>3. Sound(x) /\ x.out = <<>> /\ x.pc # "connect"
    BY <1>2, <2>1, SaneAgree DEF Sound, Agree, SameChain
  <2>4. PICK y : y = LoadFinished(x)
    OBVIOUS
  <2>5. Sound(y) /\ Serial(y) /\ Told(x, y)
    BY <2>3, <2>4, LoadFinishedSound
  <2>6. Told(t, y)
    <3>1. /\ t.loggedIn = x.loggedIn /\ t.uin = x.uin /\ t.recvUin = x.recvUin
          /\ Healthy(t) = Healthy(x)
      BY <2>1 DEF Agree, SameFlags, SameHealth, SameReceive, Healthy
    <3> QED BY <2>5, <3>1, ToldFrom
  <2> QED BY <1>1, <1>3, <2>2, <2>4, <2>5, <2>6 DEF Committed, Good, Kept
<1>5. CASE ~ok
  <2> DEFINE y == [t EXCEPT !.status = "error", !.pc = "tickLoad"]
  <2>1. "error" \in Status /\ "tickLoad" \in Await
    BY DEF Status, Await
  <2>2. /\ y \in Session /\ SameFlags(t, y) /\ SameWatch(t, y) /\ SameHealth(t, y) /\ y.out = t.out
        /\ y.pipeUpPending = t.pipeUpPending /\ y.queue = t.queue /\ y.op = t.op /\ y.pc = "tickLoad"
    BY <1>2, <2>1 DEF Session, SameFlags, SameWatch, SameHealth, SameReceive
  <2>3. Commit(y)
    BY <1>1, <1>5 DEF InjectReturns
  <2> HIDE DEF y
  <2>4. Backed(y) /\ Wired(y) /\ Reconciled(y) /\ Stale(y) /\ Serial(y)
    BY <1>2, <2>2
       DEF Sound, Sane, Backed, Wired, Reconciled, Stale, Serial, SameFlags, SameHealth, SameReceive
  <2>5. Coalesced(y) /\ Deadline(y)
    BY <1>2, <2>2 DEF Sound, Sane, Coalesced, Deadline, SameFlags, SameWatch
  <2>6. Told(t, y)
    BY <1>2, <2>2, UndisturbedIsSilent
  <2> QED BY <1>1, <1>3, <2>2, <2>3, <2>4, <2>5, <2>6 DEF Committed, Good, Kept, Sound, Sane
<1> QED BY <1>4, <1>5

\* The poll after a failed load returns.
LEMMA TickLoadReturnsStep ==
    ASSUME Good, NEW up \in BOOLEAN, TickLoadReturns(up)
    PROVE  Committed
<1>1. PICK t : t = Turn
  OBVIOUS
<1>2. /\ Sound(t) /\ Serial(t) /\ t.out = <<>> /\ t.pc = "tickLoad"
  BY <1>1, TurnSound DEF TickLoadReturns, SameChain
<1>3. PICK x : x = Polled(t, up)
  OBVIOUS
<1>4. Sound(x) /\ Serial(x) /\ Undisturbed(t, x)
  BY <1>2, <1>3, PolledSound
<1>5. x.out = <<>> /\ x.pc = "tickLoad" /\ x.op # "none"
  BY <1>2, <1>4 DEF Undisturbed, Serial
<1>6. PICK y : y = IF ~x.disposed /\ up THEN ReconcilePipeUp(x) ELSE Done(x)
  OBVIOUS
<1>7. Commit(y) /\ live' = up /\ UNCHANGED <<alive, cmds>>
  BY <1>1, <1>3, <1>6 DEF TickLoadReturns
<1>8. Sound(y) /\ Serial(y) /\ Told(x, y)
  <2>1. Told(x, x)
    BY <1>5 DEF Told, Silent, SameLogin, SameEpoch, Calm
  <2>2. Sound(Done(x)) /\ Serial(Done(x)) /\ Told(x, Done(x))
    BY <1>4, <1>5, <2>1, DoneTold
  <2> QED BY <1>4, <1>5, <1>6, <2>2, ReconcilePipeUpSound
<1>9. Told(t, y)
  <2>1. /\ t.loggedIn = x.loggedIn /\ t.uin = x.uin /\ t.recvUin = x.recvUin
        /\ Healthy(t) = Healthy(x)
    BY <1>4 DEF Undisturbed, SameFlags, SameHealth, SameReceive, Healthy
  <2> QED BY <1>8, <2>1, ToldFrom
<1> QED BY <1>1, <1>7, <1>8, <1>9 DEF Committed, Good, Kept

\* The native unload returns.
LEMMA UnloadReturnsStep ==
    ASSUME Good, NEW ok \in BOOLEAN, UnloadReturns(ok)
    PROVE  Committed
<1>1. PICK t : t = Turn
  OBVIOUS
<1>2. /\ t \in Session /\ Sound(t) /\ Serial(t) /\ t.out = <<>> /\ t.pc = "unloadDll"
  BY <1>1, TurnSound DEF UnloadReturns, SameChain
<1>3. UNCHANGED <<live, alive, cmds>>
  BY DEF UnloadReturns
<1>4. Told(t, t)
  BY <1>2 DEF Told, Silent, SameLogin, SameEpoch, Calm
<1>5. CASE ok
  <2>1. PICK y : y = Unloaded(t)
    OBVIOUS
  <2>2. ~t.client /\ t.op # "none"
    BY <1>2 DEF Sound, Sane, Wired, Serial
  <2>3. /\ Sound(y) /\ Serial(y) /\ ~t.loggedIn /\ y.loggedIn = t.loggedIn
        /\ Healthy(y) = Healthy(t) /\ y.out = t.out
    BY <1>2, <2>1, <2>2, UnloadedSound
  <2>4. Told(t, y)
    BY <1>4, <2>3, ToldTo
  <2>5. Commit(y)
    BY <1>1, <1>5, <2>1 DEF UnloadReturns
  <2> QED BY <1>1, <1>3, <2>3, <2>4, <2>5 DEF Committed, Good, Kept
<1>6. CASE ~ok
  <2> DEFINE x == [t EXCEPT !.status = "error"]
  <2>1. "error" \in Status
    BY DEF Status
  <2>2. x \in Session /\ Agree(t, x)
    BY <1>2, <2>1 DEF Session, Agree, SameFlags, SameWatch, SameChain, SameHealth, SameReceive
  <2>3. Commit(Done(x))
    BY <1>1, <1>6 DEF UnloadReturns
  <2> HIDE DEF x
  <2>4. Sound(x) /\ Told(t, x) /\ x.pc # "connect"
    BY <1>2, <2>2, SaneAgree, UndisturbedIsSilent DEF Sound, Agree, SameChain
  <2>5. Sound(Done(x)) /\ Serial(Done(x)) /\ Told(t, Done(x))
    BY <2>4, DoneTold
  <2> QED BY <1>1, <1>3, <2>3, <2>5 DEF Committed, Good, Kept
<1> QED BY <1>5, <1>6

\* The poll after an unload returns.
LEMMA TickUnloadReturnsStep ==
    ASSUME Good, NEW up \in BOOLEAN, TickUnloadReturns(up)
    PROVE  Committed
<1>1. PICK t : t = Turn
  OBVIOUS
<1>2. /\ Sound(t) /\ Serial(t) /\ t.out = <<>> /\ t.pc = "tickUnload"
  BY <1>1, TurnSound DEF TickUnloadReturns, SameChain
<1>3. PICK w : w = Polled(t, up)
  OBVIOUS
<1>4. Sound(w) /\ Serial(w) /\ Undisturbed(t, w) /\ w \in Session
  BY <1>2, <1>3, PolledSound DEF Sound, Sane
<1>5. PICK st \in Status : st = IF up THEN "connecting" ELSE "available"
  BY DEF Status
<1> DEFINE x == [w EXCEPT !.status = st]
<1>6. x \in Session /\ Agree(w, x)
  BY <1>4 DEF Session, Agree, SameFlags, SameWatch, SameChain, SameHealth, SameReceive
<1>7. Commit(Done(x)) /\ live' = up /\ UNCHANGED <<alive, cmds>>
  BY <1>1, <1>3, <1>5 DEF TickUnloadReturns
<1> HIDE DEF x
<1>8. /\ Sound(x) /\ SameFlags(t, x) /\ SameHealth(t, x) /\ x.out = <<>> /\ x.pc # "connect"
  BY <1>2, <1>4, <1>6, SaneAgree
     DEF Sound, Agree, Undisturbed, SameChain, SameFlags, SameHealth, SameReceive
<1>9. Told(t, x)
  BY <1>8, UndisturbedIsSilent
<1>10. Sound(Done(x)) /\ Serial(Done(x)) /\ Told(t, Done(x))
  BY <1>8, <1>9, DoneTold
<1> QED BY <1>1, <1>7, <1>10 DEF Committed, Good, Kept

\* A pipe of the handshake opens.
LEMMA PipeOpensStep ==
    ASSUME Good, PipeOpens
    PROVE  Committed
<1>1. PICK t : t = Turn
  OBVIOUS
<1>2. /\ t \in Session /\ Sound(t) /\ Serial(t) /\ t.out = <<>>
      /\ t.stage = s.stage /\ t.sockets = s.sockets
  BY <1>1, TurnSound
<1>3. s.stage < 2 /\ UNCHANGED <<live, alive, cmds>>
  BY DEF PipeOpens
<1>4. PICK n \in 0..2 : n = t.stage + 1
  BY <1>2, <1>3 DEF Session
<1>5. PICK p \in SUBSET Pipes : p = t.sockets \cup {IF s.stage = 0 THEN "control" ELSE "recv"}
  BY <1>2 DEF Session, Pipes
<1> DEFINE y == [t EXCEPT !.stage = n, !.sockets = p]
<1>6. y \in Session /\ Agree(t, y)
  BY <1>2 DEF Session, Agree, SameFlags, SameWatch, SameChain, SameHealth, SameReceive
<1>7. Commit(y)
  BY <1>1, <1>4, <1>5 DEF PipeOpens
<1> HIDE DEF y
<1>8. SameFlags(t, t) /\ SameHealth(t, t)
  BY DEF SameFlags, SameHealth, SameReceive
<1>9. Kept(y)
  BY <1>1, <1>2, <1>6, <1>8, KeptAgree
<1> QED BY <1>3, <1>7, <1>9 DEF Committed, Good

\* The handshake ends well.
LEMMA ConnectOkStep ==
    ASSUME Good, ConnectOk
    PROVE  Committed
<1>1. PICK t : t = Turn
  OBVIOUS
<1>2. Sound(t) /\ Serial(t) /\ t.out = <<>> /\ t.pc = "connect"
  BY <1>1, TurnSound DEF ConnectOk, SameChain
<1>3. PICK y : y = ConnectSucceeded(t)
  OBVIOUS
<1>4. Sound(y) /\ Serial(y) /\ Told(t, y)
  BY <1>2, <1>3, ConnectSucceededSound
<1>5. Commit(y) /\ UNCHANGED <<live, alive, cmds>>
  BY <1>1, <1>3 DEF ConnectOk
<1> QED BY <1>1, <1>4, <1>5 DEF Committed, Good, Kept

\* The handshake fails.
LEMMA ConnectFailsStep ==
    ASSUME Good, NEW timedOut \in BOOLEAN, ConnectFails(timedOut)
    PROVE  Committed
<1>1. PICK t : t = Turn
  OBVIOUS
<1>2. Sound(t) /\ t.out = <<>>
  BY <1>1, TurnSound
<1>3. PICK y : y = ConnectFailed(t, timedOut)
  OBVIOUS
<1>4. Sound(y) /\ Serial(y) /\ Told(t, y)
  BY <1>2, <1>3, ConnectFailedSound
<1>5. Commit(y) /\ UNCHANGED <<live, alive, cmds>>
  BY <1>1, <1>3 DEF ConnectFails
<1> QED BY <1>1, <1>4, <1>5 DEF Committed, Good, Kept

\* The deadline of the first connection passes.
LEMMA WatchFiresStep ==
    ASSUME Good, WatchFires
    PROVE  Committed
<1>1. PICK t : t = Turn
  OBVIOUS
<1>2. /\ t \in Session /\ Sound(t) /\ Serial(t) /\ t.out = <<>> /\ t.watch = "armed"
  BY <1>1, TurnSound DEF WatchFires, SameWatch
<1>3. ~t.connected
  BY <1>2 DEF Sound, Sane, Deadline
<1> DEFINE x == [t EXCEPT !.watch = "fired"]
<1>4. /\ x \in Session /\ SameFlags(t, x) /\ SameChain(t, x) /\ SameHealth(t, x) /\ x.out = t.out
  BY <1>2 DEF Session, SameFlags, SameChain, SameHealth, SameReceive
<1>5. Commit(Enqueue(x, "expire")) /\ UNCHANGED <<live, alive, cmds>>
  BY <1>1 DEF WatchFires
<1> HIDE DEF x
<1>6. Backed(x) /\ Wired(x) /\ Reconciled(x) /\ Stale(x) /\ Serial(x) /\ Coalesced(x)
  BY <1>2, <1>4 DEF Sound, Sane, Backed, Wired, Reconciled, Stale, Serial, Coalesced, SameFlags,
                    SameChain, SameHealth, SameReceive
<1>7. Deadline(x) /\ ~x.connected
  BY <1>3, <1>4 DEF Deadline, SameFlags
<1>8. PICK y : y = Enqueue(x, "expire")
  OBVIOUS
<1>9. "expire" \in Op \ {"pipeUp"}
  BY DEF Op
<1>10. /\ Sane(y) /\ Reconciled(y) /\ Serial(y) /\ y.out = x.out /\ SameFlags(x, y) /\ SameHealth(x, y)
  BY <1>4, <1>6, <1>7, <1>8, <1>9, EnqueueSound DEF Sane
<1>11. Told(t, y)
  BY <1>2, <1>4, <1>10, UndisturbedIsSilent DEF SameFlags, SameHealth, SameReceive
<1> QED BY <1>1, <1>5, <1>8, <1>10, <1>11 DEF Committed, Good, Kept, Sound

\* A background poll.
LEMMA PollStep ==
    ASSUME Good, NEW up \in BOOLEAN, Poll(up)
    PROVE  Committed
<1>1. PICK t : t = Turn
  OBVIOUS
<1>2. Sound(t) /\ Serial(t) /\ t.out = <<>>
  BY <1>1, TurnSound
<1>3. PICK y : y = Polled(t, up)
  OBVIOUS
<1>4. Sound(y) /\ Serial(y) /\ Undisturbed(t, y)
  BY <1>2, <1>3, PolledSound
<1>5. Told(t, y)
  BY <1>2, <1>4, UndisturbedIsSilent DEF Undisturbed
<1>6. Commit(y) /\ live' = up /\ UNCHANGED <<alive, cmds>>
  BY <1>1, <1>3 DEF Poll
<1> QED BY <1>1, <1>4, <1>5, <1>6 DEF Committed, Good, Kept

\* The process disappears.
LEMMA ProcessGoneStep ==
    ASSUME Good, ProcessGone
    PROVE  Committed
<1>1. PICK t : t = Turn
  OBVIOUS
<1>2. Sound(t) /\ Serial(t) /\ t.out = <<>>
  BY <1>1, TurnSound
<1>3. PICK x : x = IF live THEN OnPipeDown(t) ELSE t
  OBVIOUS
<1>4. Sound(x) /\ Serial(x) /\ Undisturbed(t, x)
  <2>1. Undisturbed(t, t)
    BY DEF Undisturbed, SameFlags, SameHealth, SameReceive
  <2> QED BY <1>2, <1>3, <2>1, OnPipeDownSound
<1>5. PICK z : z = Enqueue(x, "gone")
  OBVIOUS
<1>6. "gone" \in Op \ {"pipeUp"}
  BY DEF Op
<1>7. /\ Sane(z) /\ Reconciled(z) /\ Serial(z) /\ z.out = x.out /\ SameFlags(x, z) /\ SameHealth(x, z)
  BY <1>4, <1>5, <1>6, EnqueueSound DEF Sound
<1>8. Told(t, t) /\ Told(t, z)
  <2>1. SameFlags(t, z) /\ SameHealth(t, z) /\ z.out = <<>>
    BY <1>2, <1>4, <1>7 DEF Undisturbed, SameFlags, SameHealth, SameReceive
  <2>2. Told(t, t)
    BY <1>2 DEF Told, Silent, SameLogin, SameEpoch, Calm
  <2> QED BY <2>1, <2>2, UndisturbedIsSilent
<1>9. Kept(t) /\ Kept(z)
  BY <1>1, <1>2, <1>7, <1>8 DEF Kept, Sound
<1>10. Commit(IF s.disposed THEN t ELSE z) /\ live' = FALSE /\ alive' = FALSE /\ UNCHANGED cmds
  BY <1>1, <1>3, <1>5 DEF ProcessGone
<1>11. PICK y : y = IF s.disposed THEN t ELSE z
  OBVIOUS
<1> QED BY <1>9, <1>10, <1>11 DEF Committed, Good

\* dispose().
LEMMA DisposeStep ==
    ASSUME Good, Dispose
    PROVE  Committed
<1>1. PICK t : t = Turn
  OBVIOUS
<1>2. /\ t \in Session /\ Sound(t) /\ Serial(t) /\ t.out = <<>> /\ t.loggedIn = s.loggedIn
      /\ t.loggedIn \in BOOLEAN
  BY <1>1, TurnSound DEF SameFlags, Session
<1>3. PICK w : w = StopWatch(t)
  OBVIOUS
<1>4. w \in Session /\ Coalesced(w) /\ w.out = <<>> /\ w.pc = t.pc /\ w.op = t.op
  BY <1>2, <1>3, StopWatchMethod, StopWatchSound DEF Sound, Sane
<1>5. PICK z : z = TearDown(w, FALSE)
  OBVIOUS
<1>6. /\ Sound(z) /\ ~z.loggedIn /\ z.out = <<>> /\ Healthy(z) /\ ~z.client
      /\ z.pc = t.pc /\ z.op = t.op
  BY <1>4, <1>5, TornDown
<1> DEFINE y0 == [z EXCEPT !.disposed = TRUE]
<1>7. y0 \in Session
  BY <1>6 DEF Sound, Sane, Session
<1>8. /\ y0.connected = z.connected /\ y0.loggedIn = z.loggedIn /\ y0.client = z.client
      /\ y0.runtimeFailure = z.runtimeFailure /\ y0.reconcile = z.reconcile /\ y0.disposed = TRUE
      /\ SameWatch(z, y0) /\ SameChain(z, y0) /\ SameHealth(z, y0) /\ y0.out = z.out
  BY <1>6 DEF Sound, Sane, Session, SameWatch, SameChain, SameHealth, SameReceive
<1>9. Commit(EmitDisconnected(y0, t.loggedIn)) /\ UNCHANGED <<live, alive, cmds>>
  BY <1>1, <1>2, <1>3, <1>5 DEF Dispose
<1> HIDE DEF y0
<1>10. Sound(y0)
  BY <1>6, <1>7, <1>8, EndedSound
<1>11. ~y0.loggedIn /\ y0.out = <<>> /\ Calm(t, y0) /\ y0.pc = t.pc /\ y0.op = t.op
  BY <1>6, <1>8 DEF Calm, Healthy, SameHealth, SameReceive, SameChain
<1>12. PICK y : y = EmitDisconnected(y0, t.loggedIn)
  OBVIOUS
<1>13. Sound(y) /\ Told(t, y) /\ SameFlags(y0, y) /\ SameChain(y0, y)
  BY <1>2, <1>10, <1>11, <1>12, Dropped
<1>14. Serial(y)
  BY <1>2, <1>8, <1>11, <1>13 DEF Serial, SameChain, SameFlags
<1> QED BY <1>1, <1>9, <1>12, <1>13, <1>14 DEF Committed, Good, Kept

\* A loginState frame.
LEMMA LoginFrameStep ==
    ASSUME Good, NEW st \in LoginState, LoginFrame(st)
    PROVE  Committed
<1>1. PICK t : t = Turn
  OBVIOUS
<1>2. /\ t \in Session /\ Sound(t) /\ Serial(t) /\ t.out = <<>> /\ t.client /\ ~t.runtimeFailure
  BY <1>1, TurnSound DEF LoginFrame, SameFlags
<1> DEFINE x == [t EXCEPT !.peer = st]
<1>3. x \in Session /\ Agree(t, x)
  BY <1>2 DEF Session, Agree, SameFlags, SameWatch, SameChain, SameHealth, SameReceive
<1>4. Commit(HandleLoginState(x, st)) /\ UNCHANGED <<live, alive, cmds>>
  BY <1>1 DEF LoginFrame
<1> HIDE DEF x
<1>5. Sound(x) /\ x.out = <<>> /\ x.client /\ ~x.runtimeFailure
  BY <1>2, <1>3, SaneAgree DEF Sound, Agree, SameFlags
<1>6. PICK y : y = HandleLoginState(x, st)
  OBVIOUS
<1>7. CASE x.disposed
  <2>1. y = x
    BY <1>6, <1>7 DEF HandleLoginState
  <2>2. SameFlags(t, t) /\ SameHealth(t, t)
    BY DEF SameFlags, SameHealth, SameReceive
  <2>3. Kept(x)
    BY <1>1, <1>2, <1>3, <2>2, KeptAgree
  <2> QED BY <1>4, <1>6, <2>1, <2>3 DEF Committed, Good
<1>8. CASE ~x.disposed
  <2>1. x.reconcile => x.connected
    BY <1>5 DEF Sound, Reconciled
  <2>2. Sound(y) /\ Told(x, y) /\ y.pc = x.pc /\ y.op = x.op /\ y.client = x.client
    BY <1>5, <1>6, <1>8, <2>1, HandleLoginStateSound DEF Sound
  <2>3. Told(t, y)
    <3>1. /\ t.loggedIn = x.loggedIn /\ t.uin = x.uin /\ t.recvUin = x.recvUin
          /\ Healthy(t) = Healthy(x)
      BY <1>3 DEF Agree, SameFlags, SameHealth, SameReceive, Healthy
    <3> QED BY <2>2, <3>1, ToldFrom
  <2>4. Serial(y)
    <3>1. (y.pc = "idle") <=> (y.op = "none")
      BY <1>2, <1>3, <2>2 DEF Serial, Agree, SameChain
    <3>2. y.client
      BY <1>5, <2>2
    <3> QED BY <3>1, <3>2 DEF Serial
  <2> QED BY <1>1, <1>4, <1>6, <2>2, <2>3, <2>4 DEF Committed, Good, Kept
<1> QED BY <1>7, <1>8

\* QQ reports that its runtime has failed: the login ends, the client stays.
LEMMA RuntimeErrorStep ==
    ASSUME Good, RuntimeError
    PROVE  Committed
<1>1. PICK t : t = Turn
  OBVIOUS
<1>2. /\ t \in Session /\ Sound(t) /\ Serial(t) /\ t.out = <<>> /\ t.client /\ ~t.disposed
      /\ t.loggedIn = s.loggedIn /\ t.loggedIn \in BOOLEAN
  <2>1. s.client /\ ~s.disposed
    BY DEF RuntimeError
  <2>2. t \in Session /\ Sound(t) /\ Serial(t) /\ t.out = <<>> /\ SameFlags(s, t)
    BY <1>1, TurnSound
  <2>3. t.loggedIn \in BOOLEAN
    BY <2>2 DEF Session
  <2> QED BY <2>1, <2>2, <2>3 DEF SameFlags
<1>3. PICK w : w = StopWatch(t)
  OBVIOUS
<1>4. /\ w \in Session /\ SameFlags(t, w) /\ SameHealth(t, w) /\ w.out = t.out
      /\ w.op = t.op /\ w.pc = t.pc
  BY <1>2, <1>3, StopWatchMethod
<1>5. Sane(w)
  BY <1>2, <1>3, StopWatchSound DEF Sound
<1> DEFINE x == [w EXCEPT !.runtimeFailure = TRUE, !.loggedIn = FALSE, !.reconcile = FALSE, !.reqs = 0]
<1>6. x \in Session
  BY <1>4, ZenonT(40) DEF Session
<1>7. /\ x.runtimeFailure = TRUE /\ x.loggedIn = FALSE /\ x.reconcile = FALSE
      /\ x.connected = w.connected /\ x.client = w.client /\ x.disposed = w.disposed
      /\ SameWatch(w, x) /\ SameChain(w, x) /\ SameHealth(w, x) /\ x.out = w.out
  BY <1>4 DEF Session, SameWatch, SameChain, SameHealth, SameReceive
<1>8. /\ Commit(EmitDisconnected(ApplyStatus(ResetReceiveWatch(x, NoUin), t.loggedIn), t.loggedIn))
      /\ UNCHANGED <<live, alive, cmds>>
  BY <1>1, <1>2, <1>3 DEF RuntimeError
<1> HIDE DEF x
<1>9. PICK r : r = ResetReceiveWatch(x, NoUin)
  OBVIOUS
<1>10. /\ r \in Session /\ SameFlags(x, r) /\ SameWatch(x, r) /\ SameChain(x, r) /\ r.out = x.out
       /\ r.recvUin = NoUin /\ r.recvTimer = "off" /\ r.recvOk = TRUE /\ r.outOk = x.outOk
  BY <1>6, <1>9, ResetReceiveWatchMethod
<1>11. Backed(r) /\ Wired(r) /\ Reconciled(r) /\ Stale(r)
  BY <1>5, <1>7, <1>10 DEF Sane, Backed, Wired, Reconciled, Stale, SameFlags, SameChain
<1>12. Coalesced(r) /\ Deadline(r)
  BY <1>5, <1>7, <1>10 DEF Sane, Coalesced, Deadline, SameFlags, SameChain, SameWatch
<1>13. Sound(r) /\ ~r.loggedIn /\ r.out = <<>> /\ Calm(t, r)
  BY <1>2, <1>4, <1>7, <1>10, <1>11, <1>12
     DEF Sound, Sane, SameFlags, SameHealth, SameReceive, Calm, Healthy
<1>14. PICK v : v = ApplyStatus(r, t.loggedIn)
  OBVIOUS
<1>15. Sound(v) /\ Agree(r, v) /\ Healthy(v) = Healthy(r)
  BY <1>2, <1>13, <1>14, ApplyStatusSound
<1>16. ~v.loggedIn /\ v.out = <<>> /\ Calm(t, v)
  BY <1>13, <1>15 DEF Agree, SameFlags, Calm
<1>17. PICK y : y = EmitDisconnected(v, t.loggedIn)
  OBVIOUS
<1>18. Sound(y) /\ Told(t, y) /\ SameFlags(v, y) /\ SameChain(v, y)
  BY <1>2, <1>15, <1>16, <1>17, Dropped
<1>19. Serial(y)
  <2>1. y.pc = t.pc /\ y.op = t.op /\ y.client = t.client
    BY <1>4, <1>7, <1>10, <1>15, <1>18 DEF Agree, SameFlags, SameChain
  <2> QED BY <1>2, <2>1 DEF Serial
<1> QED BY <1>1, <1>8, <1>9, <1>14, <1>17, <1>18, <1>19 DEF Committed, Good, Kept

\* A packet arrives.
LEMMA PacketFrameStep ==
    ASSUME Good, NEW kind \in Kinds, NEW uin \in Uins \cup {NoUin}, PacketFrame(kind, uin)
    PROVE  Committed
<1>1. PICK t : t = Turn
  OBVIOUS
<1>2. Sound(t) /\ Serial(t) /\ t.out = <<>>
  BY <1>1, TurnSound
<1>3. PICK y : y = HandlePacket(t, kind, uin)
  OBVIOUS
<1>4. Sound(y) /\ Serial(y) /\ Told(t, y)
  BY <1>2, <1>3, HandlePacketSound
<1>5. Commit(y) /\ UNCHANGED <<live, alive, cmds>>
  BY <1>1, <1>3 DEF PacketFrame
<1> QED BY <1>1, <1>4, <1>5 DEF Committed, Good, Kept

\* A socket closes.
LEMMA SocketClosesStep ==
    ASSUME Good, NEW pipe \in Pipes, SocketCloses(pipe)
    PROVE  Committed
<1>1. PICK t : t = Turn
  OBVIOUS
<1>2. t \in Session /\ Sound(t) /\ Serial(t) /\ t.out = <<>>
  BY <1>1, TurnSound
<1>3. PICK p \in SUBSET Pipes : p = t.sockets \ {pipe}
  BY <1>2 DEF Session
<1>4. PICK n \in Nat : n = IF pipe = "control" THEN 0 ELSE t.reqs
  BY <1>2 DEF Session
<1> DEFINE x == [t EXCEPT !.sockets = p, !.reqs = n]
<1>5. x \in Session /\ Agree(t, x)
  BY <1>2 DEF Session, Agree, SameFlags, SameWatch, SameChain, SameHealth, SameReceive
<1>6. Commit(IF s.disposed THEN x ELSE Enqueue(x, "close")) /\ UNCHANGED <<live, alive, cmds>>
  BY <1>1, <1>3, <1>4 DEF SocketCloses
<1> HIDE DEF x
<1>7. SameFlags(t, t) /\ SameHealth(t, t)
  BY DEF SameFlags, SameHealth, SameReceive
<1>8. Kept(x)
  BY <1>1, <1>2, <1>5, <1>7, KeptAgree
<1>9. PICK z : z = Enqueue(x, "close")
  OBVIOUS
<1>10. "close" \in Op \ {"pipeUp"}
  BY DEF Op
<1>11. /\ Sane(z) /\ Reconciled(z) /\ Serial(z) /\ z.out = x.out /\ SameFlags(x, z) /\ SameHealth(x, z)
  BY <1>8, <1>9, <1>10, EnqueueSound DEF Kept, Sound
<1>12. Told(t, z)
  BY <1>2, <1>5, <1>11, UndisturbedIsSilent DEF Agree, SameFlags, SameHealth, SameReceive
<1>13. Kept(z)
  BY <1>1, <1>11, <1>12 DEF Kept, Sound
<1>14. PICK y : y = IF s.disposed THEN x ELSE z
  OBVIOUS
<1> QED BY <1>6, <1>8, <1>9, <1>13, <1>14 DEF Committed, Good

\* Two states of a turn that differ in the timer of the receive path only.
Retimed(x, y) ==
    /\ SameFlags(x, y) /\ SameWatch(x, y) /\ SameChain(x, y) /\ y.out = x.out
    /\ y.recvUin = x.recvUin /\ y.recvArmed = x.recvArmed /\ y.recvOk = x.recvOk /\ y.outOk = x.outOk

\* An armed receive path may be watched by either timer, or by none.
LEMMA RetimedKept ==
    ASSUME Good, NEW y \in Session, Retimed(Turn, y), Turn.loggedIn, Turn.recvArmed
    PROVE  Kept(y)
<1>1. Sound(Turn) /\ Serial(Turn) /\ Turn.out = <<>>
  BY TurnSound
<1>2. Backed(y) /\ Wired(y) /\ Reconciled(y) /\ Serial(y)
  BY <1>1 DEF Sound, Sane, Backed, Wired, Reconciled, Serial, Retimed, SameFlags, SameChain
<1>3. Coalesced(y) /\ Deadline(y)
  BY <1>1 DEF Sound, Sane, Coalesced, Deadline, Retimed, SameFlags, SameWatch, SameChain
<1>4. Stale(y)
  BY <1>1 DEF Sound, Sane, Stale, Retimed, SameFlags
<1>5. Told(Turn, y)
  BY <1>1 DEF Told, Silent, SameLogin, SameEpoch, Calm, Healthy, Retimed, SameFlags
<1> QED BY <1>2, <1>3, <1>4, <1>5 DEF Kept, Sound, Sane

\* The timers that watch the receive path: only an armed watch finds it stale.
LEMMA ReceiveTimerStep ==
    ASSUME Good, NEW quiet \in BOOLEAN, ReceiveTimer(quiet)
    PROVE  Committed
<1>1. PICK t : t = Turn
  OBVIOUS
<1>2. /\ t \in Session /\ Sound(t) /\ Serial(t) /\ t.out = <<>> /\ SameFlags(s, t) /\ SameHealth(s, t)
  BY <1>1, TurnSound
<1>3. UNCHANGED <<live, alive, cmds>>
  BY DEF ReceiveTimer
<1> DEFINE a == [t EXCEPT !.recvTimer = "off"]
           b == [t EXCEPT !.recvTimer = "confirm"]
           c == [t EXCEPT !.recvTimer = "stale"]
<1>4. /\ a \in Session /\ Retimed(t, a)
      /\ b \in Session /\ Retimed(t, b)
      /\ c \in Session /\ Retimed(t, c)
  <2>1. a \in Session /\ Retimed(t, a)
    BY <1>2, SMTT(20) DEF Session, Retimed, SameFlags, SameWatch, SameChain
  <2>2. b \in Session /\ Retimed(t, b)
    BY <1>2, SMTT(20) DEF Session, Retimed, SameFlags, SameWatch, SameChain
  <2>3. c \in Session /\ Retimed(t, c)
    BY <1>2, SMTT(20) DEF Session, Retimed, SameFlags, SameWatch, SameChain
  <2> QED BY <2>1, <2>2, <2>3
<1>5. Commit(IF ~ShouldWatchReceive(s) THEN a
             ELSE IF s.recvTimer = "stale" THEN b
             ELSE IF ~quiet THEN c
             ELSE SetReceiveHealthy(a, FALSE))
  BY <1>1 DEF ReceiveTimer
<1> HIDE DEF a, b, c
<1>w. t.loggedIn /\ t.recvArmed
  <2>1. t.recvTimer # "off"
    BY <1>1, TurnSound DEF ReceiveTimer
  <2> QED BY <1>2, <2>1 DEF Sound, Sane, Stale
<1>6. Kept(a) /\ Kept(b) /\ Kept(c)
  BY <1>1, <1>2, <1>4, <1>w, RetimedKept
<1>7. PICK z : z = SetReceiveHealthy(a, FALSE)
  OBVIOUS
<1>8. Kept(z)
  <2>1. /\ z \in Session /\ SameFlags(a, z) /\ SameWatch(a, z) /\ SameChain(a, z)
        /\ SameReceive(a, z) /\ z.recvOk = FALSE /\ z.outOk = a.outOk
        /\ z.out = IF Healthy(a) = Healthy(z) THEN a.out
                   ELSE Append(a.out, [ev |-> "health", ok |-> FALSE])
    BY <1>4, <1>7, SetReceiveHealthyMethod
  <2>2. a.loggedIn /\ a.recvArmed
    BY <1>4, <1>w DEF Retimed, SameFlags
  <2>3. Backed(z) /\ Wired(z) /\ Reconciled(z) /\ Serial(z)
    BY <1>6, <2>1 DEF Kept, Sound, Sane, Backed, Wired, Reconciled, Serial, SameFlags, SameChain
  <2>4. Coalesced(z) /\ Deadline(z)
    BY <1>6, <2>1 DEF Kept, Sound, Sane, Coalesced, Deadline, SameFlags, SameWatch, SameChain
  <2>5. Stale(z)
    BY <1>6, <2>1, <2>2 DEF Kept, Sound, Sane, Stale, SameFlags, SameReceive
  <2>6. Told(t, z)
    <3>1. SameLogin(t, z) /\ SameEpoch(t, z)
      BY <1>4, <2>1 DEF SameLogin, SameEpoch, Retimed, SameFlags, SameReceive
    <3>2. Healthy(a) = Healthy(t) /\ Healthy(t) \in BOOLEAN
      BY <1>2, <1>4 DEF Retimed, Healthy, Session
    <3>3. Healthy(z) = FALSE
      BY <2>1 DEF Healthy
    <3>4. a.out = <<>>
      BY <1>2, <1>4 DEF Retimed
    <3>5. CASE Healthy(a) = Healthy(z)
      BY <2>1, <3>1, <3>2, <3>4, <3>5 DEF Told, Silent, Calm
    <3>6. CASE Healthy(a) # Healthy(z)
      <4>1. z.out = <<[ev |-> "health", ok |-> FALSE]>>
        <5>1. z.out = Append(<<>>, [ev |-> "health", ok |-> FALSE])
          BY <2>1, <3>4, <3>6
        <5>2. PICK e : e = [ev |-> "health", ok |-> FALSE]
          OBVIOUS
        <5>3. Append(<<>>, e) = <<e>>
          OBVIOUS
        <5> QED BY <5>1, <5>2, <5>3
      <4>2. Healthy(t) # FALSE
        BY <3>2, <3>3, <3>6
      <4> QED BY <3>1, <3>3, <4>1, <4>2 DEF Told, Reports
    <3> QED BY <3>5, <3>6
  <2> QED BY <1>1, <2>1, <2>3, <2>4, <2>5, <2>6 DEF Kept, Sound, Sane
<1>9. PICK y : y = IF ~ShouldWatchReceive(s) THEN a
                   ELSE IF s.recvTimer = "stale" THEN b
                   ELSE IF ~quiet THEN c ELSE z
  OBVIOUS
<1>10. Kept(y)
  BY <1>6, <1>8, <1>9
<1> QED BY <1>3, <1>5, <1>7, <1>9, <1>10 DEF Committed, Good

\* A request leaves.
LEMMA SendStep ==
    ASSUME Good, Send
    PROVE  Committed
<1>1. PICK t : t = Turn
  OBVIOUS
<1>2. t \in Session /\ Sound(t) /\ Serial(t) /\ t.out = <<>>
  BY <1>1, TurnSound
<1>3. PICK n \in Nat : n = t.reqs + 1
  BY <1>2 DEF Session
<1> DEFINE y == [t EXCEPT !.reqs = n]
<1>4. y \in Session /\ Agree(t, y)
  BY <1>2 DEF Session, Agree, SameFlags, SameWatch, SameChain, SameHealth, SameReceive
<1>5. Commit(y) /\ UNCHANGED <<live, alive, cmds>>
  BY <1>1, <1>3 DEF Send
<1> HIDE DEF y
<1>6. SameFlags(t, t) /\ SameHealth(t, t)
  BY DEF SameFlags, SameHealth, SameReceive
<1>7. Kept(y)
  BY <1>1, <1>2, <1>4, <1>6, KeptAgree
<1> QED BY <1>5, <1>7 DEF Committed, Good

\* A request ends, and its outcome may change the health that is shown.
LEMMA RequestEndsStep ==
    ASSUME Good, NEW how \in {"answered", "unavailable", "lost"}, RequestEnds(how)
    PROVE  Committed
<1>1. PICK t : t = Turn
  OBVIOUS
<1>2. t \in Session /\ Sound(t) /\ Serial(t) /\ t.out = <<>> /\ t.reqs = s.reqs
  BY <1>1, TurnSound
<1>3. s.reqs > 0 /\ UNCHANGED <<live, alive, cmds>>
  BY DEF RequestEnds
<1>4. PICK n \in Nat : n = t.reqs - 1
  BY <1>2, <1>3 DEF Session
<1> DEFINE x == [t EXCEPT !.reqs = n]
<1>5. x \in Session /\ Agree(t, x)
  BY <1>2 DEF Session, Agree, SameFlags, SameWatch, SameChain, SameHealth, SameReceive
<1>6. x = [Turn EXCEPT !.reqs = @ - 1]
  BY <1>1, <1>4
<1> HIDE DEF x
<1>7. SameFlags(t, t) /\ SameHealth(t, t)
  BY DEF SameFlags, SameHealth, SameReceive
<1>8. Kept(x)
  BY <1>1, <1>2, <1>5, <1>7, KeptAgree
<1>9. ASSUME NEW ok \in BOOLEAN PROVE Kept(SenderReports(x, ok))
  <2>1. PICK z : z = SenderReports(x, ok)
    OBVIOUS
  <2>2. /\ z \in Session /\ SameFlags(x, z) /\ SameWatch(x, z) /\ SameChain(x, z)
        /\ SameReceive(x, z) /\ z.recvOk = x.recvOk
        /\ z.outOk = x.outOk \/ z.outOk = ok
        /\ z.out = IF Healthy(x) = Healthy(z) THEN x.out
                   ELSE Append(x.out, [ev |-> "health", ok |-> ok])
    BY <1>5, <2>1, SenderReportsMethod
  <2>3. Backed(z) /\ Wired(z) /\ Reconciled(z) /\ Serial(z) /\ Stale(z)
    BY <1>8, <2>2 DEF Kept, Sound, Sane, Backed, Wired, Reconciled, Serial, Stale, SameFlags, SameChain,
                      SameReceive
  <2>4. Coalesced(z) /\ Deadline(z)
    BY <1>8, <2>2 DEF Kept, Sound, Sane, Coalesced, Deadline, SameFlags, SameWatch, SameChain
  <2>5. Told(t, z)
    <3>1. SameLogin(t, z) /\ SameEpoch(t, z)
      BY <1>5, <2>2 DEF SameLogin, SameEpoch, Agree, SameFlags, SameHealth, SameReceive
    <3>2. Healthy(x) = Healthy(t) /\ Healthy(t) \in BOOLEAN
      BY <1>2, <1>5 DEF Session, Agree, SameHealth, SameReceive, Healthy
    <3>4. x.out = <<>>
      BY <1>2, <1>5 DEF Agree
    <3>5. CASE Healthy(x) = Healthy(z)
      BY <2>2, <3>1, <3>2, <3>4, <3>5 DEF Told, Silent, Calm
    <3>6. CASE Healthy(x) # Healthy(z)
      <4>1. z.out = <<[ev |-> "health", ok |-> ok]>>
        BY <2>2, <3>4, <3>6
      <4>2. Healthy(x) # ok /\ Healthy(z) = ok
        BY <1>5, <2>2, <3>6 DEF Healthy, Session
      <4> QED BY <3>1, <3>2, <4>1, <4>2 DEF Told, Reports
    <3> QED BY <3>5, <3>6
  <2> QED BY <1>1, <2>1, <2>2, <2>3, <2>4, <2>5 DEF Kept, Sound, Sane
<1>10. PICK y : y = CASE how = "answered"    -> SenderReports(x, TRUE)
                      [] how = "unavailable" -> SenderReports(x, FALSE)
                      [] how = "lost"        -> x
  OBVIOUS
<1>11. Commit(y)
  BY <1>6, <1>10 DEF RequestEnds
<1>12. Kept(y)
  BY <1>8, <1>9, <1>10
<1> QED BY <1>3, <1>11, <1>12 DEF Committed, Good

\* Every step is a turn that keeps the invariants.
LEMMA NextStep ==
    ASSUME Good, Next
    PROVE  Committed
BY CommandStep, RunNextStep, InjectReturnsStep, TickLoadReturnsStep, UnloadReturnsStep,
   TickUnloadReturnsStep, PipeOpensStep, ConnectOkStep, ConnectFailsStep, WatchFiresStep, PollStep,
   ProcessGoneStep, DisposeStep, LoginFrameStep, RuntimeErrorStep, PacketFrameStep, SocketClosesStep,
   ReceiveTimerStep, SendStep, RequestEndsStep DEF Next

-----------------------------------------------------------------------------
(* What the listeners make of a turn.                                      *)

\* The account and the health shown, for the events of one turn.
LEMMA Heard ==
    ASSUME NEW y, Commit(y)
    PROVE  /\ s' = y
           /\ y.out = <<>> => bound' = bound /\ shown' = shown
           /\ \A e : y.out = <<e>> => bound' = Bound(bound, e) /\ shown' = Shown(shown, e)
           /\ \A d, e : y.out = <<d, e>> => /\ bound' = Bound(Bound(bound, d), e)
                                            /\ shown' = Shown(Shown(shown, d), e)
<1>1. s' = y
  BY DEF Commit
<1>2. y.out = <<>> => bound' = bound /\ shown' = shown
  <2> SUFFICES ASSUME y.out = <<>> PROVE bound' = bound /\ shown' = shown
    OBVIOUS
  <2>1. Len(y.out) = 0
    OBVIOUS
  <2> QED BY <2>1 DEF Commit
<1>3. ASSUME NEW e, y.out = <<e>>
      PROVE  bound' = Bound(bound, e) /\ shown' = Shown(shown, e)
  <2>1. Len(y.out) = 1 /\ y.out[1] = e
    BY <1>3
  <2> QED BY <2>1 DEF Commit
<1>4. ASSUME NEW d, NEW e, y.out = <<d, e>>
      PROVE  /\ bound' = Bound(Bound(bound, d), e)
             /\ shown' = Shown(Shown(shown, d), e)
  <2>1. Len(y.out) = 2 /\ y.out[1] = d /\ y.out[2] = e
    BY <1>4
  <2> QED BY <2>1 DEF Commit
<1> QED BY <1>1, <1>2, <1>3, <1>4

\* A turn that tells what it changes keeps the PID held while the session is
\* logged in, and is a step of the contract.
LEMMA CommitTells ==
    ASSUME Good, HeldWhileLoggedIn, bound \in Uins \cup {NoUin}, shown \in BOOLEAN,
           NEW y, Commit(y), Kept(y)
    PROVE  /\ HeldWhileLoggedIn'
           /\ bound' \in Uins \cup {NoUin} /\ shown' \in BOOLEAN
           /\ Contract!Next
<1>1. Told(s, y)
  <2>1. /\ s.loggedIn = Turn.loggedIn /\ s.uin = Turn.uin /\ s.recvUin = Turn.recvUin
        /\ Healthy(s) = Healthy(Turn)
    BY TurnSound DEF SameFlags, SameHealth, SameReceive, Healthy
  <2> QED BY <2>1, ToldFrom DEF Kept
<1>2. s \in Session /\ y \in Session /\ Backed(s) /\ Backed(y) /\ Stale(y)
  BY DEF Good, Kept, Sound, Sane
<1>3. /\ s.loggedIn \in BOOLEAN /\ y.loggedIn \in BOOLEAN /\ y.uin \in Uins \cup {NoUin}
      /\ s.uin \in Uins \cup {NoUin} /\ Healthy(s) \in BOOLEAN /\ Healthy(y) \in BOOLEAN
  BY <1>2 DEF Session, Healthy
<1>4. s' = y
  BY Heard
<1>5. (bound # NoUin <=> s.loggedIn) /\ (s.loggedIn => s.recvUin \in {s.uin, bound})
  BY DEF HeldWhileLoggedIn
<1>6. SUFFICES /\ bound' # NoUin <=> y.loggedIn
               /\ y.loggedIn => y.recvUin \in {y.uin, bound'}
               /\ bound' \in Uins \cup {NoUin} /\ shown' \in BOOLEAN
               /\ Contract!Next
  BY <1>2, <1>4 DEF HeldWhileLoggedIn, Stale
<1> DEFINE login(x) == IF x.loggedIn THEN x.uin ELSE NoUin
<1>h. Healthy(s)' = Healthy(y) /\ (s.out)' = y.out /\ login(s)' = login(y)
  BY <1>4 DEF Healthy
<1>l. SameLogin(s, y) => login(y) = login(s)
  BY DEF SameLogin
<1>7. CASE Silent(s, y)
  <2>1. bound' = bound /\ shown' = shown /\ y.out = <<>>
    BY <1>7, Heard DEF Silent
  <2>2. Healthy(y) \in {Healthy(s), TRUE}
    BY <1>3, <1>7 DEF Silent, Calm
  <2>3. Contract!Quiet
    BY <1>7, <1>h, <1>l, <2>1, <2>2 DEF Contract!Quiet, Silent
  <2>4. y.loggedIn = s.loggedIn /\ (y.loggedIn => y.recvUin \in {s.recvUin, y.uin} /\ y.uin = s.uin)
    BY <1>3, <1>7 DEF Silent, SameLogin, SameEpoch
  <2> QED BY <1>5, <2>1, <2>3, <2>4 DEF Contract!Next
<1>8. CASE Announces(s, y)
  <2>1. bound' = y.uin /\ shown' = TRUE
    <3>1. PICK e : e = [ev |-> "login", uin |-> y.uin]
      OBVIOUS
    <3>2. y.out = <<e>> /\ e.ev = "login" /\ e.uin = y.uin
      BY <1>8, <3>1 DEF Announces
    <3>3. bound' = Bound(bound, e) /\ shown' = Shown(shown, e)
      BY <3>2, Heard
    <3> QED BY <3>2, <3>3 DEF Bound, Shown
  <2>2. Healthy(y) \in {Healthy(s), TRUE} /\ y.uin \in Uins /\ y.uin # NoUin
    BY <1>3, <1>8, SessionAssumption DEF Announces, Calm
  <2>3. login(s) # y.uin /\ login(y) = y.uin
    BY <1>8, <2>2 DEF Announces
  <2>4. Contract!Announce(y.uin)
    BY <1>8, <1>h, <2>2, <2>3 DEF Contract!Announce, Announces
  <2> QED BY <1>8, <2>1, <2>2, <2>4 DEF Announces, Contract!Next
<1>9. CASE Revokes(s, y)
  <2>1. bound' = NoUin /\ shown' = shown
    <3>1. PICK e : e = [ev |-> "disconnected"]
      OBVIOUS
    <3>2. y.out = <<e>> /\ e.ev = "disconnected"
      BY <1>9, <3>1 DEF Revokes
    <3>3. bound' = Bound(bound, e) /\ shown' = Shown(shown, e)
      BY <3>2, Heard
    <3> QED BY <3>2, <3>3 DEF Bound, Shown
  <2>2. login(s) # NoUin /\ login(y) = NoUin
    BY <1>2, <1>9 DEF Revokes, Backed
  <2>3. Contract!Revoke
    BY <1>3, <1>9, <1>h, <2>2 DEF Contract!Revoke, Revokes
  <2> QED BY <1>9, <2>1, <2>3 DEF Revokes, Contract!Next
<1>10. CASE Forwards(s, y)
  <2>1. PICK u \in Uins :
        /\ y.recvUin = u
        /\ \/ Calm(s, y) /\ y.out = <<[ev |-> "packet", uin |-> u]>>
           \/ /\ ~Healthy(s) /\ Healthy(y)
              /\ y.out = <<[ev |-> "health", ok |-> TRUE], [ev |-> "packet", uin |-> u]>>
    BY <1>10 DEF Forwards
  <2>2. bound # NoUin /\ s.loggedIn /\ y.loggedIn
    BY <1>5, <1>10 DEF Forwards, SameLogin
  <2>3. bound' = u /\ shown' = TRUE
    <3>1. PICK e : e = [ev |-> "packet", uin |-> u]
      OBVIOUS
    <3>2. PICK d : d = [ev |-> "health", ok |-> TRUE]
      OBVIOUS
    <3>3. /\ e.ev = "packet" /\ e.uin = u /\ d.ev = "health"
          /\ y.out = <<e>> \/ y.out = <<d, e>>
      BY <2>1, <3>1, <3>2
    <3>4. \/ bound' = Bound(bound, e) /\ shown' = Shown(shown, e)
          \/ bound' = Bound(Bound(bound, d), e) /\ shown' = Shown(Shown(shown, d), e)
      BY <3>3, Heard
    <3>5. Bound(bound, d) = bound /\ Bound(bound, e) = u
      BY <2>2, <3>3 DEF Bound
    <3> QED BY <3>3, <3>4, <3>5 DEF Shown
  <2>4. login(s) # NoUin
    BY <1>2, <2>2 DEF Backed
  <2>5. Calm(s, y) => Healthy(y) \in {Healthy(s), TRUE}
    BY <1>3 DEF Calm
  <2>6. Contract!Forward(u)
    BY <1>10, <1>h, <1>l, <2>1, <2>4, <2>5 DEF Contract!Forward, Forwards
  <2>7. u # NoUin
    BY SessionAssumption
  <2> QED BY <2>1, <2>2, <2>3, <2>6, <2>7 DEF Contract!Next
<1>11. CASE Reports(s, y)
  <2>1. PICK h \in BOOLEAN :
        Healthy(s) # h /\ Healthy(y) = h /\ y.out = <<[ev |-> "health", ok |-> h]>>
    BY <1>11 DEF Reports
  <2>2. bound' = bound /\ shown' = h
    <3>1. PICK e : e = [ev |-> "health", ok |-> h]
      OBVIOUS
    <3>2. y.out = <<e>> /\ e.ev = "health" /\ e.ok = h
      BY <2>1, <3>1
    <3>3. bound' = Bound(bound, e) /\ shown' = Shown(shown, e)
      BY <3>2, Heard
    <3> QED BY <3>2, <3>3 DEF Bound, Shown
  <2>3. Contract!Report(h)
    BY <1>11, <1>h, <1>l, <2>1 DEF Contract!Report, Reports
  <2>4. y.loggedIn = s.loggedIn /\ (y.loggedIn => y.recvUin \in {s.recvUin, y.uin} /\ y.uin = s.uin)
    BY <1>3, <1>11 DEF Reports, SameLogin, SameEpoch
  <2> QED BY <1>5, <2>2, <2>3, <2>4 DEF Contract!Next
<1> QED BY <1>1, <1>7, <1>8, <1>9, <1>10, <1>11 DEF Told

-----------------------------------------------------------------------------
(* The theorems.                                                           *)

\* The inductive invariant.
IInv ==
    Good /\ HeldWhileLoggedIn /\ bound \in Uins \cup {NoUin} /\ shown \in BOOLEAN

\* It holds of a new session.
LEMMA InitIInv == Init => IInv
<1> SUFFICES ASSUME Init PROVE IInv
  OBVIOUS
<1>1. /\ s.connected = FALSE /\ s.loggedIn = FALSE /\ s.uin = NoUin /\ s.client = FALSE
      /\ s.runtimeFailure = FALSE /\ s.reconcile = FALSE /\ s.recvOk = TRUE /\ s.queue = <<>>
      /\ s.op = "none" /\ s.pc = "idle" /\ s.pipeUpPending = FALSE
      /\ s.recvUin = NoUin /\ s.recvTimer = "off"
  BY DEF Init, NewSession
<1>2. s \in Session
  <2>1. /\ NoUin \in Uins \cup {NoUin} /\ LoggedOut \in LoginState /\ <<>> \in Seq(Op)
        /\ <<>> \in Seq(Event) /\ "available" \in Status /\ "idle" \in Await /\ {} \in SUBSET Pipes
        /\ "none" \in Op \cup {"none"}
    BY DEF LoggedOut, LoginState, Status, Await
  <2>2. PICK none \in 0..2 : none = 0
    OBVIOUS
  <2>3. s = NewSession
    BY DEF Init
  <2> QED BY <2>1, <2>2, <2>3 DEF NewSession, Session
<1>3. Backed(s) /\ Wired(s) /\ Reconciled(s) /\ Stale(s) /\ Deadline(s) /\ Serial(s)
  BY <1>1 DEF Backed, Wired, Reconciled, Stale, Deadline, Serial
<1>4. Coalesced(s)
  BY <1>1 DEF Coalesced, HasUp
<1>5. /\ HeldWhileLoggedIn /\ bound \in Uins \cup {NoUin} /\ shown \in BOOLEAN
      /\ live \in BOOLEAN /\ alive \in BOOLEAN /\ cmds \in Nat
  BY <1>1 DEF HeldWhileLoggedIn, Init
<1> QED BY <1>2, <1>3, <1>4, <1>5 DEF IInv, Good, Sound, Sane

\* Every step keeps it, and is a step of the contract.
LEMMA NextIInv ==
    ASSUME IInv, [Next]_vars
    PROVE  IInv' /\ [Contract!Next]_(Contract!contractVars)
<1>1. CASE Next
  <2>1. PICK y : Commit(y) /\ Kept(y)
    BY <1>1, NextStep DEF IInv, Committed
  <2>2. live' \in BOOLEAN /\ alive' \in BOOLEAN /\ cmds' \in Nat
    BY <1>1, NextStep DEF IInv, Committed
  <2>3. HeldWhileLoggedIn' /\ bound' \in Uins \cup {NoUin} /\ shown' \in BOOLEAN /\ Contract!Next
    BY <2>1, CommitTells DEF IInv
  <2>4. s' = y
    BY <2>1, Heard
  <2>5. Sound(s)' /\ Serial(s)'
    BY <2>1, <2>4 DEF Kept, Sound, Sane, Backed, Wired, Reconciled, Stale, Deadline, Coalesced, Serial
  <2> QED BY <2>2, <2>3, <2>5 DEF IInv, Good
<1>2. CASE UNCHANGED vars
  <2>1. s' = s /\ live' = live /\ alive' = alive /\ cmds' = cmds /\ bound' = bound /\ shown' = shown
    BY <1>2 DEF vars
  <2>2. IInv'
    BY <2>1 DEF IInv, Good, HeldWhileLoggedIn, Sound, Sane, Backed, Wired, Reconciled, Stale,
                Deadline, Coalesced, Serial
  <2>3. UNCHANGED Contract!contractVars
    BY <2>1 DEF Contract!contractVars, Healthy
  <2> QED BY <2>2, <2>3
<1> QED BY <1>1, <1>2

\* The inductive invariant holds of every session.
THEOREM InvariantHolds == Spec => []IInv
<1>1. Init => IInv
  BY InitIInv
<1>2. IInv /\ [Next]_vars => IInv'
  BY NextIInv
<1> QED BY <1>1, <1>2, PTL DEF Spec

\* Every field of the session keeps its type.
THEOREM TypesHold == Spec => []TypeOK
<1>1. IInv => TypeOK
  <2> SUFFICES ASSUME IInv PROVE TypeOK
    OBVIOUS
  <2>1. s \in Session /\ live \in BOOLEAN /\ alive \in BOOLEAN /\ cmds \in Nat /\ shown \in BOOLEAN
    BY DEF IInv, Good, Sound, Sane
  <2>2. bound \in Uins \cup {NoUin}
    BY DEF IInv
  <2> QED BY <2>1, <2>2 DEF TypeOK
<1> QED BY <1>1, InvariantHolds, PTL

\* The listeners hold the PID, and the receive path is watched, exactly while the
\* session is logged in; the account watched is the session's or the holder's.
THEOREM HeldExactlyWhileLoggedIn == Spec => []HeldWhileLoggedIn
<1>1. IInv => HeldWhileLoggedIn
  BY DEF IInv
<1> QED BY <1>1, InvariantHolds, PTL

\* A login rests on a client with a working runtime, connected or in its handshake.
THEOREM LoginsAreBacked == Spec => []LoginIsBacked
<1>1. IInv => LoginIsBacked
  BY DEF IInv, Good, Sound, Sane, Backed, Wired, LoginIsBacked
<1> QED BY <1>1, InvariantHolds, PTL

\* No deadline of the first connection outlives it, in a timer or in the queue.
THEOREM DeadlinesEnd == Spec => []DeadlineEndsOnConnect
<1>1. IInv => DeadlineEndsOnConnect
  BY DEF IInv, Good, Sound, Sane, Deadline, DeadlineEndsOnConnect
<1> QED BY <1>1, InvariantHolds, PTL

\* Identity is reconciled exactly while a connected session awaits its login.
THEOREM ReconcilesWhileAwaiting == Spec => []ReconcileWhileAwaitingLogin
<1>1. IInv => ReconcileWhileAwaitingLogin
  BY DEF IInv, Good, Sound, Reconciled, ReconcileWhileAwaitingLogin
<1> QED BY <1>1, InvariantHolds, PTL

\* At most one pipe-up is queued or running, and the flag says whether one is.
THEOREM PipeUpsCoalesce == Spec => []OnePipeUp
<1>1. IInv => OnePipeUp
  <2> SUFFICES ASSUME Coalesced(s) PROVE OnePipeUp
    BY DEF IInv, Good, Sound, Sane
  <2> DEFINE ups == {i \in DOMAIN s.queue : s.queue[i] = "pipeUp"}
  <2>1. ups # {} <=> HasUp(s.queue)
    BY DEF HasUp
  <2>2. \A i, j \in ups : i = j
    BY DEF Coalesced
  <2> HIDE DEF ups
  <2>3. (s.pipeUpPending <=> (ups # {} \/ s.op = "pipeUp")) /\ (ups # {} => s.op # "pipeUp")
    BY <2>1 DEF Coalesced
  <2> QED BY <2>2, <2>3 DEF OnePipeUp, ups
<1> QED BY <1>1, InvariantHolds, PTL

\* A receive path is found stale, and its timers run, only for a login whose watchdog was armed.
THEOREM StaleNeedsArming == Spec => []StaleOnlyWhenArmed
<1>1. IInv => StaleOnlyWhenArmed
  BY DEF IInv, Good, Sound, Sane, Stale, StaleOnlyWhenArmed
<1> QED BY <1>1, InvariantHolds, PTL

\* A session keeps the contract with its listeners: it implements SessionContract.
THEOREM SessionKeepsContract == Spec => ContractKept
<1>1. Init => Contract!Init
  BY DEF Init, NewSession, Contract!Init, Healthy
<1>2. IInv /\ [Next]_vars => [Contract!Next]_(Contract!contractVars)
  BY NextIInv
<1> QED BY <1>1, <1>2, InvariantHolds, PTL DEF Spec, ContractKept, Contract!Spec
==============================================================================
