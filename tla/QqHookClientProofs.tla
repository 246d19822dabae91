-------------------------- MODULE QqHookClientProofs --------------------------
(***************************************************************************)
(* Proofs about QqHookClient, for any set of calls, any number of ids and  *)
(* of connections.                                                         *)
(*                                                                         *)
(* That answers resolve their own calls, and that the tables are exact,    *)
(* need one another and three facts more: no two calls in flight have one  *)
(* id (the catch of send() deletes by id, so it would take another call's  *)
(* entry), an answer still to come finds its own call under its id or      *)
(* nobody (calls that are over leave answers behind), and the chain of     *)
(* writes has exactly the calls that await their write.                    *)
(***************************************************************************)
EXTENDS QqHookClient, WellFoundedInduction, TLAPS

\* The client's state.
Client == [
    closed: BOOLEAN,
    failed: BOOLEAN,
    link: {"none", "dialing", "hello", "greeted", "up"},
    gen: 0..MaxConns,
    dead: BOOLEAN,
    next: Ids,
    acks: [Ids -> Calls \cup {Free}],
    replies: [Ids -> Calls \cup {Free}],
    chain: Seq(Calls),
    peer: SUBSET (Calls \X {"ack", "reply"})]

\* The type invariant of both variables.
Typed == client \in Client /\ call \in [Calls -> Call]

\* A call that has not registered has no answer.
Fresh ==
    \A r \in Calls : ~InFlight(r) => call[r].ack = "pending" /\ call[r].reply = "pending"

\* Two calls in flight have different ids, whether or not the tables have
\* them still.
DistinctIds ==
    \A q, r \in Calls : InFlight(q) /\ InFlight(r) /\ call[q].id = call[r].id => q = r

\* An answer that may come finds its own call under the id, or nobody.
AnswersFindOwn ==
    \A a \in client.peer :
        /\ client.acks[call[a[1]].id] \in {Free, a[1]}
        /\ client.replies[call[a[1]].id] \in {Free, a[1]}

\* The chain of writes has each call that awaits its write once, and only its
\* head is being written.
ChainMatchesCalls ==
    /\ \A k \in 1..Len(client.chain) :
        \/ call[client.chain[k]].pc = "queue"
        \/ call[client.chain[k]].pc = "write" /\ k = 1
    /\ \A r \in Calls : call[r].pc \in {"queue", "write"} =>
        \E k \in 1..Len(client.chain) : client.chain[k] = r
    /\ \A k, l \in 1..Len(client.chain) : client.chain[k] = client.chain[l] => k = l

\* The inductive invariant.
IInv ==
    /\ Typed /\ TablesMatchCalls /\ OwnAnswer
    /\ Fresh /\ DistinctIds /\ AnswersFindOwn /\ ChainMatchesCalls

-----------------------------------------------------------------------------
(* Operators.                                                              *)

\* A set of naturals that is not empty has a least element.
LEMMA LeastNatural ==
    ASSUME NEW S, S \subseteq Nat, S # {}
    PROVE  \E n \in S : \A m \in S : n <= m
<1> DEFINE R == {p \in Nat \X Nat : p[1] < p[2]}
<1>1. IsWellFoundedOn(R, Nat)
  BY NatLessThanWellFounded, Zenon DEF OpToRel
<1>2. PICK n \in S : \A m \in S : <<m, n>> \notin R
  BY <1>1, WFMin
<1>3. ASSUME NEW m \in S PROVE n <= m
  <2>1. <<m, n>> \notin R
    BY <1>2
  <2>2. m \in Nat /\ n \in Nat
    OBVIOUS
  <2>3. m < n => <<m, n>> \in R
    BY <2>2
  <2> QED BY <2>1, <2>2, <2>3
<1> QED BY <1>3

\* allocateRequestId: as long as an id is free, the loop ends at an id, and
\* nothing is pending under it.
LEMMA NextIdIsFree ==
    ASSUME Typed, \E i \in Ids : ~Pending(i)
    PROVE  NextId \in Ids /\ ~Pending(NextId)
<1> DEFINE Dist(i) == Distance(client.next, i)
           S == {Dist(i) : i \in {j \in Ids : ~Pending(j)}}
<1>1. ASSUME NEW i \in Ids PROVE Dist(i) \in Nat
  BY IdModAssumption DEF Distance, Ids, Typed, Client
<1>2. S \subseteq Nat /\ S # {}
  BY <1>1
<1> HIDE DEF Dist
<1>3. PICK n \in S : \A m \in S : n <= m
  BY <1>2, LeastNatural
<1>4. PICK i \in Ids : ~Pending(i) /\ Dist(i) = n
  BY <1>3
<1>5. \A j \in Ids : ~Pending(j) => Dist(i) <= Dist(j)
  BY <1>3, <1>4
<1> QED BY <1>4, <1>5 DEF NextId, Dist

\* The id after an id is an id: the sentinel 0 is passed over.
LEMMA FollowingIsId ==
    ASSUME NEW i \in Ids
    PROVE  Following(i) \in Ids
BY IdModAssumption DEF Following, Ids

\* A call that is over keeps its id and nothing else.
LEMMA OverCall ==
    ASSUME NEW x \in Call, NEW end \in {"ok", "failed"}
    PROVE  LET y == Over(x, end)
           IN  /\ y \in Call /\ y.pc = end /\ y.id = x.id
               /\ y.ack = "pending" /\ y.reply = "pending"
<1> DEFINE y == Over(x, end)
<1>1. 0 \in 0..MaxConns
  BY MaxConnsAssumption
<1>2. y.pc = end /\ y.id = x.id /\ y.ack = "pending" /\ y.reply = "pending"
  BY DEF Over, Call
<1>3. y \in Call
  BY <1>1 DEF Over, Call
<1> QED BY <1>2, <1>3

-----------------------------------------------------------------------------
(* What steps do to the parts.                                             *)

\* A step that leaves the tables and the chain alone, and changes calls only
\* before they have registered.
LEMMA Quiet ==
    ASSUME IInv, Typed',
           client'.acks = client.acks, client'.replies = client.replies,
           client'.chain = client.chain, client'.peer \subseteq client.peer,
           \A r \in Calls : \/ call'[r] = call[r]
                            \/ /\ ~InFlight(r) /\ ~InFlight(r)'
                               /\ call'[r].ack = "pending" /\ call'[r].reply = "pending"
                               /\ call'[r].id = call[r].id
    PROVE  IInv'
<1>1. \A r \in Calls : /\ call'[r].id = call[r].id
                       /\ InFlight(r)' <=> InFlight(r)
                       /\ InFlight(r) => call'[r] = call[r]
  BY DEF InFlight
<1>2. TablesMatchCalls'
  BY <1>1 DEF IInv, TablesMatchCalls, Typed, Client, InFlight
<1>3. OwnAnswer' /\ Fresh'
  BY <1>1 DEF IInv, OwnAnswer, Fresh
<1>4. DistinctIds'
  BY <1>1 DEF IInv, DistinctIds
<1>5. AnswersFindOwn'
  BY <1>1 DEF IInv, AnswersFindOwn, Typed, Client
<1>6. ChainMatchesCalls'
  BY <1>1, SMTT(30) DEF IInv, ChainMatchesCalls, InFlight, Typed, Client
<1> QED BY <1>2, <1>3, <1>4, <1>5, <1>6 DEF IInv

\* The catch of send(): a call in flight takes its own entries with it, and
\* nobody else's.
LEMMA FailForgetsOwn ==
    ASSUME IInv, NEW r \in Calls, InFlight(r),
           NEW c \in Client, c.acks = client.acks, c.replies = client.replies,
           c.peer = client.peer, Fail(c, r)
    PROVE  Typed' /\ TablesMatchCalls' /\ OwnAnswer' /\ Fresh' /\ DistinctIds' /\ AnswersFindOwn'
<1> DEFINE i == call[r].id
<1>1. i \in Ids /\ client.acks[i] \in {Free, r} /\ client.replies[i] \in {Free, r}
  BY DEF IInv, Typed, Call, Client, TablesMatchCalls, DistinctIds, InFlight
<1>2. Typed'
  <2>1. call' \in [Calls -> Call]
    BY OverCall DEF Fail, IInv, Typed
  <2>2. client' \in Client
    BY <1>1 DEF Fail, Client
  <2> QED BY <2>1, <2>2 DEF Typed
<1>3. /\ \A q \in Calls \ {r} : call'[q] = call[q]
      /\ call'[r] = Over(call[r], "failed")
      /\ \A j \in Ids \ {i} : client'.acks[j] = client.acks[j] /\ client'.replies[j] = client.replies[j]
      /\ client'.acks[i] = Free /\ client'.replies[i] = Free
      /\ client'.next = c.next /\ client'.peer = client.peer
  BY <1>1 DEF Fail, IInv, Typed, Client
<1>4. call'[r].id = i /\ ~InFlight(r)' /\ call'[r].ack = "pending" /\ call'[r].reply = "pending"
  BY <1>3 DEF Over, InFlight, IInv, Typed, Call
<1>5. TablesMatchCalls'
  <2> SUFFICES ASSUME NEW q \in Calls, NEW j \in Ids
               PROVE  /\ client'.acks[j] = q <=>
                            call'[q].id = j /\ call'[q].pc \in {"queue", "write", "ack"} /\ call'[q].ack = "pending"
                      /\ client'.replies[j] = q <=>
                            call'[q].id = j /\ InFlight(q)' /\ call'[q].want /\ call'[q].reply = "pending"
    BY <1>2 DEF TablesMatchCalls, Typed, Client
  <2>1. CASE q = r
    BY <2>1, <1>1, <1>3, <1>4, CallsAssumption DEF IInv, TablesMatchCalls, InFlight, Free
  <2>2. CASE q # r /\ j # i
    BY <2>2, <1>3 DEF IInv, TablesMatchCalls, InFlight
  <2>3. CASE q # r /\ j = i
    BY <2>3, <1>1, <1>3, CallsAssumption DEF IInv, TablesMatchCalls, InFlight, Free
  <2> QED BY <2>1, <2>2, <2>3
<1>6. OwnAnswer' /\ Fresh'
  BY <1>3, <1>4 DEF IInv, OwnAnswer, Fresh, InFlight
<1>7. DistinctIds'
  BY <1>3, <1>4 DEF IInv, DistinctIds, InFlight
<1>8. AnswersFindOwn'
  <2> SUFFICES ASSUME NEW a \in client.peer
               PROVE  /\ client'.acks[call'[a[1]].id] \in {Free, a[1]}
                      /\ client'.replies[call'[a[1]].id] \in {Free, a[1]}
    BY <1>3 DEF AnswersFindOwn
  <2>1. a[1] \in Calls /\ call[a[1]].id \in Ids /\ call'[a[1]].id = call[a[1]].id
    BY <1>3, <1>4 DEF IInv, Typed, Client, Call
  <2> QED BY <2>1, <1>3 DEF IInv, AnswersFindOwn
<1> QED BY <1>2, <1>5, <1>6, <1>7, <1>8

\* A call whose write is due or under way is at the head of the chain.
LEMMA HeadOfChain ==
    ASSUME IInv, NEW r \in Calls,
           \/ call[r].pc = "queue" /\ r = Head(client.chain)
           \/ call[r].pc = "write"
    PROVE  client.chain \in Seq(Calls) /\ client.chain # <<>> /\ client.chain[1] = r
<1>1. client.chain \in Seq(Calls)
  BY DEF IInv, Typed, Client
<1>2. PICK k \in 1..Len(client.chain) : client.chain[k] = r
  BY DEF IInv, ChainMatchesCalls
<1>3. client.chain # <<>> /\ Head(client.chain) = client.chain[1]
  BY <1>1, <1>2
<1>4. call[r].pc = "write" => k = 1
  BY <1>2 DEF IInv, ChainMatchesCalls
<1> QED BY <1>1, <1>2, <1>3, <1>4

\* The head of the chain ends its write: the next one has its turn.
LEMMA ChainAdvances ==
    ASSUME IInv, NEW r \in Calls, client.chain # <<>>, client.chain[1] = r,
           client'.chain = Tail(client.chain),
           call'[r].pc \notin {"queue", "write"},
           \A q \in Calls \ {r} : call'[q].pc = call[q].pc
    PROVE  ChainMatchesCalls'
<1> DEFINE s == client.chain
           t == Tail(client.chain)
<1>1. s \in Seq(Calls) /\ t \in Seq(Calls) /\ Len(t) = Len(s) - 1
  BY DEF IInv, Typed, Client
<1>2. \A k \in 1..Len(t) : t[k] = s[k + 1] /\ k + 1 \in 1..Len(s)
  BY <1>1
<1>3. \A k \in 1..Len(t) : t[k] \in Calls /\ t[k] # r
  BY <1>1, <1>2 DEF IInv, ChainMatchesCalls
<1>4. \A k \in 1..Len(t) : call'[t[k]].pc = "queue"
  BY <1>1, <1>2, <1>3 DEF IInv, ChainMatchesCalls
<1>5. ASSUME NEW q \in Calls, call'[q].pc \in {"queue", "write"}
      PROVE  \E k \in 1..Len(t) : t[k] = q
  <2>1. q # r /\ call[q].pc \in {"queue", "write"}
    BY <1>5
  <2>2. PICK k \in 1..Len(s) : s[k] = q
    BY <2>1 DEF IInv, ChainMatchesCalls
  <2>3. k - 1 \in 1..Len(t) /\ t[k - 1] = q
    BY <1>1, <1>2, <2>1, <2>2
  <2> QED BY <2>3
<1>6. \A k, l \in 1..Len(t) : t[k] = t[l] => k = l
  BY <1>1, <1>2 DEF IInv, ChainMatchesCalls
<1>7. client'.chain = t
  OBVIOUS
<1> HIDE DEF s, t
<1>8. \A k \in 1..Len(client'.chain) : call'[client'.chain[k]].pc = "queue"
  BY <1>4, <1>7
<1>9. \A q \in Calls : call'[q].pc \in {"queue", "write"} =>
        \E k \in 1..Len(client'.chain) : client'.chain[k] = q
  BY <1>5, <1>7, Zenon
<1>10. \A k, l \in 1..Len(client'.chain) : client'.chain[k] = client'.chain[l] => k = l
  BY <1>6, <1>7
<1> QED BY <1>8, <1>9, <1>10 DEF ChainMatchesCalls

\* A step that leaves the chain alone, and at most begins the head's write.
LEMMA ChainStays ==
    ASSUME IInv, client'.chain = client.chain,
           \A q \in Calls :
               \/ call'[q].pc = call[q].pc
               \/ call[q].pc \notin {"queue", "write"} /\ call'[q].pc \notin {"queue", "write"}
               \/ call[q].pc = "queue" /\ call'[q].pc = "write" /\ client.chain[1] = q
    PROVE  ChainMatchesCalls'
<1> DEFINE s == client.chain
<1>1. s \in Seq(Calls)
  BY DEF IInv, Typed, Client
<1>2. \A k \in 1..Len(s) : s[k] \in Calls
  BY <1>1
<1>3. ASSUME NEW k \in 1..Len(s)
      PROVE  call'[s[k]].pc = "queue" \/ (call'[s[k]].pc = "write" /\ k = 1)
  <2>1. call[s[k]].pc = "queue" \/ (call[s[k]].pc = "write" /\ k = 1)
    BY DEF IInv, ChainMatchesCalls
  <2>2. s[1] = s[k] => k = 1
    BY <1>1 DEF IInv, ChainMatchesCalls
  <2> QED BY <1>2, <2>1, <2>2
<1>4. \A q \in Calls : call'[q].pc \in {"queue", "write"} => call[q].pc \in {"queue", "write"}
  OBVIOUS
<1> QED BY <1>3, <1>4 DEF IInv, ChainMatchesCalls

\* rejectControlPending: whoever the tables hold is told, so they may be
\* emptied.
LEMMA RejectEmptiesTables ==
    ASSUME IInv, NEW c \in Client, c.acks = client.acks, c.replies = client.replies,
           c.chain = client.chain, c.peer \subseteq client.peer,
           RejectControlPending(c)
    PROVE  IInv'
<1>1. /\ client'.chain = client.chain /\ client'.peer \subseteq client.peer
      /\ \A i \in Ids : client'.acks[i] = Free /\ client'.replies[i] = Free
      /\ client' \in Client
  BY DEF RejectControlPending, Client
<1>2. ASSUME NEW r \in Calls
      PROVE  /\ call'[r] \in Call /\ call'[r].id = call[r].id
             /\ \/ call[r].pc = "connect" /\ call'[r] = Over(call[r], "failed")
                \/ /\ call'[r].pc = call[r].pc /\ call'[r].want = call[r].want
                   /\ call'[r].ack = IF client.acks[call[r].id] = r THEN "err" ELSE call[r].ack
                   /\ call'[r].reply = IF client.replies[call[r].id] = r THEN "err" ELSE call[r].reply
  <2>1. call[r] \in Call
    BY DEF IInv, Typed
  <2>2. CASE call[r].pc = "connect" /\ client.link = "hello"
    BY <2>1, <2>2, OverCall DEF RejectControlPending
  <2>3. CASE ~(call[r].pc = "connect" /\ client.link = "hello")
    BY <2>1, <2>3 DEF RejectControlPending, Call
  <2> QED BY <2>2, <2>3
<1>3. Typed'
  BY <1>1, <1>2 DEF Typed, RejectControlPending
<1>4. \A r \in Calls : /\ InFlight(r)' <=> InFlight(r)
                       /\ ~InFlight(r) => call'[r].ack = "pending" /\ call'[r].reply = "pending"
  <2> TAKE r \in Calls
  <2>1. call[r] \in Call /\ call[r].id \in Ids
    BY DEF IInv, Typed, Call
  <2>2. CASE call[r].pc = "connect" /\ call'[r] = Over(call[r], "failed")
    BY <2>1, <2>2, OverCall DEF InFlight
  <2>3. CASE /\ call'[r].pc = call[r].pc
             /\ call'[r].ack = IF client.acks[call[r].id] = r THEN "err" ELSE call[r].ack
             /\ call'[r].reply = IF client.replies[call[r].id] = r THEN "err" ELSE call[r].reply
    BY <2>1, <2>3 DEF InFlight, IInv, Fresh, TablesMatchCalls
  <2> QED BY <1>2, <2>2, <2>3
<1>5. TablesMatchCalls'
  <2> SUFFICES ASSUME NEW r \in Calls, InFlight(r)
               PROVE  /\ call[r].pc \in {"queue", "write", "ack"} => call'[r].ack # "pending"
                      /\ call[r].want => call'[r].reply # "pending"
    BY <1>1, <1>2, <1>3, <1>4, CallsAssumption DEF TablesMatchCalls, Typed, Client, InFlight, Free
  <2>1. call[r].id \in Ids
    BY DEF IInv, Typed, Call
  <2> QED BY <2>1, <1>2 DEF IInv, TablesMatchCalls, InFlight
<1>6. OwnAnswer' /\ Fresh'
  BY <1>2, <1>4 DEF IInv, OwnAnswer, Fresh, InFlight
<1>7. DistinctIds'
  BY <1>2, <1>4 DEF IInv, DistinctIds
<1>8. AnswersFindOwn'
  BY <1>1, <1>2, <1>3 DEF AnswersFindOwn, Typed, Client, Call
<1>9. ChainMatchesCalls'
  BY <1>1, <1>2, OverCall, ChainStays DEF IInv, Typed
<1> QED BY <1>3, <1>5, <1>6, <1>7, <1>8, <1>9 DEF IInv

-----------------------------------------------------------------------------
(* The actions.                                                            *)

\* What a settling connection does to those who await it.
LEMMA ConnectedCalls ==
    ASSUME IInv, NEW ok \in BOOLEAN, call' = Connected(ok)
    PROVE  /\ call' \in [Calls -> Call]
           /\ \A r \in Calls : \/ call'[r] = call[r]
                               \/ /\ ~InFlight(r) /\ ~InFlight(r)'
                                  /\ call'[r].ack = "pending" /\ call'[r].reply = "pending"
                                  /\ call'[r].id = call[r].id
<1> SUFFICES ASSUME NEW r \in Calls
             PROVE  /\ call'[r] \in Call
                    /\ \/ call'[r] = call[r]
                       \/ /\ ~InFlight(r) /\ ~InFlight(r)'
                          /\ call'[r].ack = "pending" /\ call'[r].reply = "pending"
                          /\ call'[r].id = call[r].id
  BY DEF Connected
<1>1. call[r] \in Call
  BY DEF IInv, Typed
<1>2. CASE call[r].pc # "connect"
  <2>1. call'[r] = call[r]
    BY <1>2 DEF Connected
  <2> QED BY <1>1, <2>1
<1>3. CASE call[r].pc = "connect" /\ ok
  <2>1. call'[r] = [call[r] EXCEPT !.pc = "register"]
    BY <1>3 DEF Connected
  <2> QED BY <1>1, <1>3, <2>1 DEF Call, InFlight, IInv, Fresh
<1>4. CASE call[r].pc = "connect" /\ ~ok
  <2>1. call'[r] = Over(call[r], "failed")
    BY <1>4 DEF Connected
  <2> QED BY <1>1, <1>4, <2>1, OverCall DEF InFlight
<1> QED BY <1>2, <1>3, <1>4

\* send() and sendAckOnly() up to their await of connect().
LEMMA SendStep ==
    ASSUME IInv, NEW want \in BOOLEAN, Send(want)
    PROVE  IInv'
<1>0. PICK r \in Calls : call[r].pc = "idle" /\ r = CHOOSE q \in Calls : call[q].pc = "idle"
  BY DEF Send
<1>1. call[r] \in Call
  BY DEF IInv, Typed
<1>2. client' \in Client
  <2>1. client \in Client /\ client.gen \in 0..MaxConns
    BY DEF IInv, Typed, Client
  <2>2. CASE client' = client
    BY <2>1, <2>2
  <2>3. CASE client.gen < MaxConns /\ client' = [client EXCEPT !.link = "dialing", !.gen = @ + 1]
    <3>1. client.gen + 1 \in 0..MaxConns
      BY <2>1, <2>3, MaxConnsAssumption
    <3> QED BY <2>1, <2>3, <3>1 DEF Client
  <2> QED BY <2>2, <2>3 DEF Send
<1>3. /\ client'.acks = client.acks /\ client'.replies = client.replies
      /\ client'.chain = client.chain /\ client'.peer = client.peer
  BY DEF Send, IInv, Typed, Client
<1>4. /\ \A q \in Calls \ {r} : call'[q] = call[q]
      /\ \/ call'[r] = Over(call[r], "failed")
         \/ call'[r] = [call[r] EXCEPT !.want = want, !.pc = IF client.link = "up" THEN "register" ELSE "connect"]
      /\ call' \in [Calls -> Call]
  <2>1. Over(call[r], "failed") \in Call
    BY <1>1, OverCall
  <2>2. [call[r] EXCEPT !.want = want, !.pc = IF client.link = "up" THEN "register" ELSE "connect"] \in Call
    BY <1>1 DEF Call
  <2> QED BY <1>0, <2>1, <2>2 DEF Send, IInv, Typed
<1>5. /\ ~InFlight(r) /\ ~InFlight(r)' /\ call'[r].id = call[r].id
      /\ call'[r].ack = "pending" /\ call'[r].reply = "pending"
  <2>1. CASE call'[r] = Over(call[r], "failed")
    BY <1>0, <1>1, <2>1, OverCall DEF InFlight
  <2>2. CASE call'[r] = [call[r] EXCEPT !.want = want, !.pc = IF client.link = "up" THEN "register" ELSE "connect"]
    BY <1>0, <1>1, <2>2 DEF InFlight, IInv, Fresh, Call
  <2> QED BY <1>4, <2>1, <2>2
<1> QED BY <1>2, <1>3, <1>4, <1>5, Quiet DEF Typed

\* connectSocket settles.
LEMMA DialedStep ==
    ASSUME IInv, NEW ok \in BOOLEAN, Dialed(ok)
    PROVE  IInv'
<1>1. /\ client' \in Client
      /\ client'.acks = client.acks /\ client'.replies = client.replies
      /\ client'.chain = client.chain /\ client'.peer = client.peer
  BY DEF Dialed, IInv, Typed, Client
<1>2. call' = call \/ call' = Connected(FALSE)
  BY DEF Dialed
<1>3. CASE call' = call
  BY <1>1, <1>3, Quiet DEF IInv, Typed
<1>4. CASE call' = Connected(FALSE)
  BY <1>1, <1>4, ConnectedCalls, Quiet DEF Typed
<1> QED BY <1>2, <1>3, <1>4

\* connectPipe after the hello.
LEMMA ConnectResumesStep ==
    ASSUME IInv, ConnectResumes
    PROVE  IInv'
<1>1. /\ client' \in Client
      /\ client'.acks = client.acks /\ client'.replies = client.replies
      /\ client'.chain = client.chain /\ client'.peer = client.peer
  BY DEF ConnectResumes, IInv, Typed, Client
<1>2. call' = Connected(Usable) /\ Usable \in BOOLEAN
  BY DEF ConnectResumes, Usable
<1> QED BY <1>1, <1>2, ConnectedCalls, Quiet DEF Typed

\* The hello frame, and a socket that dies.
LEMMA LinkStep ==
    ASSUME IInv, Hello \/ SocketDies
    PROVE  IInv'
<1>1. /\ client' \in Client
      /\ client'.acks = client.acks /\ client'.replies = client.replies
      /\ client'.chain = client.chain /\ client'.peer \subseteq client.peer
  BY DEF Hello, SocketDies, IInv, Typed, Client
<1>2. call' = call
  BY DEF Hello, SocketDies
<1> QED BY <1>1, <1>2, Quiet DEF IInv, Typed

\* handleSocketClose, a failure of the runtime and close().
LEMMA RejectStep ==
    ASSUME IInv, HandleSocketClose \/ RuntimeError \/ Close
    PROVE  IInv'
<1>0. client \in Client
  BY DEF IInv, Typed
<1>1. CASE HandleSocketClose
  <2> DEFINE c == [client EXCEPT !.link = "none", !.dead = FALSE]
  <2>1. /\ c \in Client /\ c.acks = client.acks /\ c.replies = client.replies
        /\ c.chain = client.chain /\ c.peer = client.peer
    BY <1>0 DEF Client
  <2>2. RejectControlPending(c)
    BY <1>1 DEF HandleSocketClose
  <2> HIDE DEF c
  <2> QED BY <2>1, <2>2, RejectEmptiesTables
<1>2. CASE RuntimeError
  <2> DEFINE c == [client EXCEPT !.failed = TRUE]
  <2>1. /\ c \in Client /\ c.acks = client.acks /\ c.replies = client.replies
        /\ c.chain = client.chain /\ c.peer = client.peer
    BY <1>0 DEF Client
  <2>2. RejectControlPending(c)
    BY <1>2 DEF RuntimeError
  <2> HIDE DEF c
  <2> QED BY <2>1, <2>2, RejectEmptiesTables
<1>3. CASE Close
  <2> DEFINE c == [client EXCEPT !.closed = TRUE, !.dead = FALSE, !.peer = {},
                       !.link = IF @ \in {"dialing", "greeted"} THEN @ ELSE "none"]
  <2>1. /\ c \in Client /\ c.acks = client.acks /\ c.replies = client.replies
        /\ c.chain = client.chain /\ c.peer = {}
    BY <1>0 DEF Client
  <2>2. RejectControlPending(c)
    BY <1>3 DEF Close
  <2> HIDE DEF c
  <2> QED BY <2>1, <2>2, RejectEmptiesTables
<1> QED BY <1>1, <1>2, <1>3

\* send() once connected.  The id is free, and no call in flight has it; the
\* answers that are left can only be for calls with other ids.
LEMMA RegisterStep ==
    ASSUME IInv, NEW r \in Calls, Register(r)
    PROVE  IInv'
<1>1. PICK i : i = NextId
  OBVIOUS
<1>2. i \in Ids /\ client.acks[i] = Free /\ client.replies[i] = Free /\ Following(i) \in Ids
  BY <1>1, NextIdIsFree, FollowingIsId DEF Register, MayRegister, IInv, Pending
<1>3. call[r].pc = "register" /\ call[r] \in Call /\ client \in Client
  BY DEF Register, MayRegister, IInv, Typed
<1>4. /\ ~InFlight(r) /\ call[r].ack = "pending" /\ call[r].reply = "pending"
      /\ \A j \in Ids : client.acks[j] # r /\ client.replies[j] # r
  BY <1>3 DEF IInv, Fresh, InFlight, TablesMatchCalls
<1>5. \A q \in Calls : InFlight(q) => call[q].id # i
  BY <1>1, <1>2, CallsAssumption DEF Register, MayRegister, InTables, Free
<1>6. CASE ~Alive(client.gen)
  <2>1. client' = [client EXCEPT !.next = Following(i)] /\ call' = [call EXCEPT ![r] = Over(@, "failed")]
    BY <1>1, <1>6 DEF Register
  <2>2. /\ client' \in Client
        /\ client'.acks = client.acks /\ client'.replies = client.replies
        /\ client'.chain = client.chain /\ client'.peer = client.peer
    BY <1>2, <1>3, <2>1 DEF Client
  <2>3. /\ call' \in [Calls -> Call] /\ \A q \in Calls \ {r} : call'[q] = call[q]
        /\ call'[r] = Over(call[r], "failed")
    BY <1>3, <2>1, OverCall DEF IInv, Typed
  <2>4. /\ ~InFlight(r)' /\ call'[r].id = call[r].id
        /\ call'[r].ack = "pending" /\ call'[r].reply = "pending"
    BY <1>3, <2>3, OverCall DEF InFlight
  <2> QED BY <1>4, <2>2, <2>3, <2>4, Quiet DEF Typed
<1>7. CASE Alive(client.gen)
  <2>1. /\ client' = [client EXCEPT
             !.next = Following(i), !.acks[i] = r,
             !.replies[i] = IF call[r].want THEN r ELSE @,
             !.chain = Append(@, r),
             !.peer = {a \in @ : call[a[1]].id # i \/ InTables(a[1])}]
        /\ call' = [call EXCEPT ![r].id = i, ![r].gen = client.gen, ![r].pc = "queue"]
    BY <1>1, <1>3, <1>7 DEF Register, Client
  <2>2. /\ client'.acks = [client.acks EXCEPT ![i] = r]
        /\ client'.replies = [client.replies EXCEPT ![i] = IF call[r].want THEN r ELSE @]
        /\ client'.chain = Append(client.chain, r)
        /\ client'.peer = {a \in client.peer : call[a[1]].id # i \/ InTables(a[1])}
        /\ client'.next = Following(i)
    BY <1>3, <2>1 DEF Client
  <2>3. client' \in Client
    <3>1. /\ client'.acks \in [Ids -> Calls \cup {Free}]
          /\ client'.replies \in [Ids -> Calls \cup {Free}]
          /\ client'.peer \in SUBSET (Calls \X {"ack", "reply"})
      BY <1>3, <2>2, ZenonT(40) DEF Client
    <3>2. client'.chain \in Seq(Calls)
      <4>1. client.chain \in Seq(Calls)
        BY <1>3 DEF Client
      <4> QED BY <2>2, <4>1
    <3> QED BY <1>2, <1>3, <2>1, <3>1, <3>2 DEF Client
  <2>4. /\ \A q \in Calls \ {r} : call'[q] = call[q]
        /\ call'[r] \in Call
        /\ call'[r].id = i /\ call'[r].pc = "queue" /\ call'[r].want = call[r].want
        /\ call'[r].ack = "pending" /\ call'[r].reply = "pending"
    BY <1>2, <1>3, <1>4, <2>1 DEF IInv, Typed, Call, Client
  <2>5. Typed'
    BY <2>1, <2>3, <2>4 DEF IInv, Typed
  <2>6. TablesMatchCalls'
    <3> SUFFICES ASSUME NEW q \in Calls, NEW j \in Ids
                 PROVE  /\ client'.acks[j] = q <=>
                              call'[q].id = j /\ call'[q].pc \in {"queue", "write", "ack"} /\ call'[q].ack = "pending"
                        /\ client'.replies[j] = q <=>
                              call'[q].id = j /\ InFlight(q)' /\ call'[q].want /\ call'[q].reply = "pending"
      BY <2>5 DEF TablesMatchCalls, Typed, Client
    <3>0. /\ client'.acks[j] = IF j = i THEN r ELSE client.acks[j]
          /\ client'.replies[j] = IF j = i /\ call[r].want THEN r ELSE client.replies[j]
      BY <1>2, <1>3, <2>2 DEF Client
    <3>1. CASE q = r
      BY <1>2, <1>4, <2>4, <3>0, <3>1, CallsAssumption DEF InFlight, Free
    <3>2. CASE q # r
      BY <1>2, <1>5, <2>4, <3>0, <3>2, CallsAssumption DEF IInv, TablesMatchCalls, InFlight, Free
    <3> QED BY <3>1, <3>2
  <2>7. OwnAnswer' /\ Fresh'
    BY <2>4 DEF IInv, OwnAnswer, Fresh, InFlight
  <2>8. DistinctIds'
    BY <1>5, <2>4 DEF IInv, DistinctIds, InFlight
  <2>9. AnswersFindOwn'
    <3> SUFFICES ASSUME NEW a \in client'.peer
                 PROVE  /\ client'.acks[call'[a[1]].id] \in {Free, a[1]}
                        /\ client'.replies[call'[a[1]].id] \in {Free, a[1]}
      BY DEF AnswersFindOwn
    <3>1. a \in client.peer /\ a[1] \in Calls /\ (call[a[1]].id # i \/ InTables(a[1]))
      BY <1>3, <2>2 DEF Client
    <3>2. CASE a[1] = r
      BY <1>2, <1>3, <2>2, <2>4, <3>2 DEF Client
    <3>3. CASE a[1] # r
      <4>1. call'[a[1]].id = call[a[1]].id /\ call[a[1]].id \in Ids
        BY <2>4, <3>1, <3>3 DEF IInv, Typed, Call
      <4>2. call[a[1]].id # i
        BY <1>2, <3>1, CallsAssumption DEF InTables, Free
      <4> QED BY <1>3, <2>2, <3>1, <4>1, <4>2 DEF IInv, AnswersFindOwn, Client
    <3> QED BY <3>2, <3>3
  <2>10. ChainMatchesCalls'
    <3> DEFINE s == client.chain
               t == Append(client.chain, r)
    <3>1. s \in Seq(Calls) /\ t \in Seq(Calls) /\ Len(t) = Len(s) + 1 /\ Len(s) \in Nat
      BY <1>3 DEF Client
    <3>2. t[Len(t)] = r /\ \A k \in 1..Len(s) : t[k] = s[k] /\ s[k] \in Calls
      BY <3>1
    <3>3. \A k \in 1..Len(s) : s[k] # r
      BY <1>3 DEF IInv, ChainMatchesCalls
    <3>4. \A k \in 1..Len(t) : k = Len(t) \/ k \in 1..Len(s)
      BY <3>1
    <3>5. ASSUME NEW k \in 1..Len(t)
          PROVE  call'[t[k]].pc = "queue" \/ (call'[t[k]].pc = "write" /\ k = 1)
      BY <2>4, <3>2, <3>3, <3>4 DEF IInv, ChainMatchesCalls
    <3>6. ASSUME NEW q \in Calls, call'[q].pc \in {"queue", "write"}
          PROVE  \E k \in 1..Len(t) : t[k] = q
      <4>1. CASE q = r
        BY <3>1, <3>2, <4>1
      <4>2. CASE q # r
        <5>1. PICK k \in 1..Len(s) : s[k] = q
          BY <2>4, <3>6, <4>2 DEF IInv, ChainMatchesCalls
        <5> QED BY <3>1, <3>2, <5>1
      <4> QED BY <4>1, <4>2
    <3>7. ASSUME NEW k \in 1..Len(t), NEW l \in 1..Len(t), t[k] = t[l]
          PROVE  k = l
      BY <3>2, <3>3, <3>4, <3>7 DEF IInv, ChainMatchesCalls
    <3> QED BY <2>2, <3>5, <3>6, <3>7 DEF ChainMatchesCalls
  <2> QED BY <2>5, <2>6, <2>7, <2>8, <2>9, <2>10 DEF IInv
<1> QED BY <1>6, <1>7

\* The turn of a write, and the end of one.
LEMMA WriteStep ==
    ASSUME IInv, NEW r \in Calls, Write(r) \/ \E ok \in BOOLEAN : WriteSettles(r, ok)
    PROVE  IInv'
<1>0. client \in Client /\ call[r] \in Call /\ InFlight(r)
  BY DEF IInv, Typed, Write, WriteSettles, InFlight
<1>1. client.chain \in Seq(Calls) /\ client.chain # <<>> /\ client.chain[1] = r
  BY HeadOfChain DEF Write, WriteSettles
<1>t. Tail(client.chain) \in Seq(Calls)
  BY <1>1
<1>2. CASE Fail([client EXCEPT !.chain = Tail(@)], r)
  <2> DEFINE c == [client EXCEPT !.chain = Tail(@)]
  <2>1. /\ c \in Client /\ c.acks = client.acks /\ c.replies = client.replies
        /\ c.peer = client.peer /\ c.chain = Tail(client.chain)
    BY <1>0, <1>t DEF Client
  <2> HIDE DEF c
  <2>2. /\ client'.chain = Tail(client.chain)
        /\ \A q \in Calls \ {r} : call'[q] = call[q]
        /\ call'[r] = Over(call[r], "failed")
    BY <1>2, <2>1 DEF Fail, Client, IInv, Typed, c
  <2>3. call'[r].pc = "failed"
    BY <1>0, <2>2, OverCall
  <2>4. ChainMatchesCalls'
    BY <1>1, <2>2, <2>3, ChainAdvances
  <2> QED BY <1>0, <1>2, <2>1, <2>4, FailForgetsOwn DEF IInv, c
<1>3. CASE /\ client' = [client EXCEPT !.peer = @ \cup
                   {<<r, "ack">>} \cup (IF call[r].want THEN {<<r, "reply">>} ELSE {})]
           /\ call' = [call EXCEPT ![r].pc = "write"]
           /\ call[r].pc = "queue"
  <2>1. /\ client'.acks = client.acks /\ client'.replies = client.replies
        /\ client'.chain = client.chain /\ client'.next = client.next
        /\ \A a \in client'.peer : a \in client.peer \/ a[1] = r
    BY <1>0, <1>3 DEF Client
  <2>2. client' \in Client
    <3>1. client'.peer \in SUBSET (Calls \X {"ack", "reply"})
      BY <1>0, <1>3 DEF Client
    <3> QED BY <1>0, <1>3, <3>1 DEF Client
  <2>3. /\ \A q \in Calls \ {r} : call'[q] = call[q]
        /\ call'[r] = [call[r] EXCEPT !.pc = "write"]
        /\ call'[r] \in Call
        /\ call'[r].pc = "write" /\ call'[r].id = call[r].id /\ call'[r].want = call[r].want
        /\ call'[r].ack = call[r].ack /\ call'[r].reply = call[r].reply
    BY <1>0, <1>3 DEF Call, IInv, Typed
  <2>4. Typed'
    BY <1>3, <2>2, <2>3 DEF IInv, Typed
  <2>5. TablesMatchCalls'
    BY <1>3, <2>1, <2>3, <2>4 DEF IInv, TablesMatchCalls, InFlight, Typed, Client
  <2>6. OwnAnswer' /\ Fresh' /\ DistinctIds'
    BY <1>3, <2>3 DEF IInv, OwnAnswer, Fresh, DistinctIds, InFlight
  <2>7. AnswersFindOwn'
    <3>1. \A q \in Calls : call'[q].id = call[q].id
      BY <2>3
    <3>2. client.acks[call[r].id] \in {Free, r} /\ client.replies[call[r].id] \in {Free, r}
      BY <1>0 DEF IInv, Typed, Call, Client, TablesMatchCalls, DistinctIds, InFlight
    <3>3. \A a \in client'.peer : a[1] \in Calls
      BY <2>2 DEF Client
    <3> QED BY <2>1, <3>1, <3>2, <3>3 DEF IInv, AnswersFindOwn
  <2>8. ChainMatchesCalls'
    BY <1>1, <1>3, <2>1, <2>3, ChainStays
  <2> QED BY <2>4, <2>5, <2>6, <2>7, <2>8 DEF IInv
<1>4. CASE /\ client' = [client EXCEPT !.chain = Tail(@)]
           /\ call' = [call EXCEPT ![r].pc = "ack"]
           /\ call[r].pc = "write"
  <2>1. /\ client'.acks = client.acks /\ client'.replies = client.replies
        /\ client'.chain = Tail(client.chain) /\ client'.next = client.next
        /\ client'.peer = client.peer /\ client' \in Client
    BY <1>0, <1>t, <1>4 DEF Client
  <2>3. /\ \A q \in Calls \ {r} : call'[q] = call[q]
        /\ call'[r] \in Call
        /\ call'[r].pc = "ack" /\ call'[r].id = call[r].id /\ call'[r].want = call[r].want
        /\ call'[r].ack = call[r].ack /\ call'[r].reply = call[r].reply
    BY <1>0, <1>4 DEF Call, IInv, Typed
  <2>4. Typed'
    BY <1>4, <2>1, <2>3 DEF IInv, Typed
  <2>5. TablesMatchCalls'
    BY <1>4, <2>1, <2>3, <2>4 DEF IInv, TablesMatchCalls, InFlight, Typed, Client
  <2>6. OwnAnswer' /\ Fresh' /\ DistinctIds'
    BY <1>4, <2>3 DEF IInv, OwnAnswer, Fresh, DistinctIds, InFlight
  <2>7. AnswersFindOwn'
    <3>1. \A q \in Calls : call'[q].id = call[q].id
      BY <2>3
    <3>2. \A a \in client'.peer : a[1] \in Calls
      BY <2>1 DEF Client
    <3> QED BY <2>1, <3>1, <3>2 DEF IInv, AnswersFindOwn
  <2>8. ChainMatchesCalls'
    BY <1>1, <2>1, <2>3, ChainAdvances
  <2> QED BY <2>4, <2>5, <2>6, <2>7, <2>8 DEF IInv
<1> QED BY <1>2, <1>3, <1>4 DEF Write, WriteSettles

\* The catch of send(), when an answer was an error or did not come in time.
LEMMA FailStep ==
    ASSUME IInv, NEW r \in Calls, call[r].pc \in {"ack", "reply"}, Fail(client, r)
    PROVE  IInv'
<1>0. client \in Client /\ call[r] \in Call /\ InFlight(r)
  BY DEF IInv, Typed, InFlight
<1>1. /\ client'.chain = client.chain
      /\ \A q \in Calls \ {r} : call'[q] = call[q]
      /\ call'[r] = Over(call[r], "failed")
  BY <1>0 DEF Fail, Client, IInv, Typed
<1>2. call'[r].pc = "failed"
  BY <1>0, <1>1, OverCall
<1>3. ChainMatchesCalls'
  BY <1>1, <1>2, ChainStays
<1> QED BY <1>0, <1>3, FailForgetsOwn DEF IInv

\* send() goes on after an answer, or gives up.
LEMMA ResumeStep ==
    ASSUME IInv, NEW r \in Calls, AckResumes(r) \/ ReplyResumes(r) \/ TimesOut(r)
    PROVE  IInv'
<1>0. client \in Client /\ call[r] \in Call /\ call[r].pc \in {"ack", "reply"}
  BY DEF IInv, Typed, AckResumes, ReplyResumes, TimesOut
<1>1. CASE Fail(client, r)
  BY <1>0, <1>1, FailStep
<1>2. CASE /\ UNCHANGED client
           /\ \/ call[r].pc = "ack" /\ call[r].ack # "pending" /\ ~call[r].want
              \/ call[r].pc = "reply" /\ call[r].reply # "pending"
           /\ call' = [call EXCEPT ![r] = Over(@, "ok")]
  <2>1. /\ call' \in [Calls -> Call] /\ \A q \in Calls \ {r} : call'[q] = call[q]
        /\ call'[r] = Over(call[r], "ok")
    BY <1>0, <1>2, OverCall DEF IInv, Typed
  <2>2. /\ call'[r].id = call[r].id /\ call'[r].pc = "ok"
        /\ call'[r].ack = "pending" /\ call'[r].reply = "pending"
    BY <1>0, <2>1, OverCall
  <2>3. TablesMatchCalls'
    BY <1>0, <1>2, <2>1, <2>2 DEF IInv, TablesMatchCalls, InFlight
  <2>4. OwnAnswer' /\ Fresh' /\ DistinctIds'
    BY <2>1, <2>2 DEF IInv, OwnAnswer, Fresh, DistinctIds, InFlight
  <2>5. AnswersFindOwn'
    <3>1. \A q \in Calls : call'[q].id = call[q].id
      BY <2>1, <2>2
    <3>2. \A a \in client.peer : a[1] \in Calls
      BY <1>0 DEF Client
    <3> QED BY <1>2, <3>1, <3>2 DEF IInv, AnswersFindOwn
  <2>6. ChainMatchesCalls'
    BY <1>0, <1>2, <2>1, <2>2, ChainStays
  <2> QED BY <1>2, <2>1, <2>3, <2>4, <2>5, <2>6 DEF IInv, Typed
<1>3. CASE /\ UNCHANGED client
           /\ call[r].pc = "ack" /\ call[r].ack # "pending"
           /\ call' = [call EXCEPT ![r] = [@ EXCEPT !.pc = "reply"]]
  <2>1. /\ call' \in [Calls -> Call] /\ \A q \in Calls \ {r} : call'[q] = call[q]
        /\ call'[r].id = call[r].id /\ call'[r].pc = "reply" /\ call'[r].want = call[r].want
        /\ call'[r].ack = call[r].ack /\ call'[r].reply = call[r].reply
    BY <1>0, <1>3 DEF IInv, Typed, Call
  <2>3. TablesMatchCalls'
    BY <1>0, <1>3, <2>1 DEF IInv, TablesMatchCalls, InFlight
  <2>4. OwnAnswer' /\ Fresh' /\ DistinctIds'
    BY <1>3, <2>1 DEF IInv, OwnAnswer, Fresh, DistinctIds, InFlight
  <2>5. AnswersFindOwn'
    <3>1. \A q \in Calls : call'[q].id = call[q].id
      BY <2>1
    <3>2. \A a \in client.peer : a[1] \in Calls
      BY <1>0 DEF Client
    <3> QED BY <1>3, <3>1, <3>2 DEF IInv, AnswersFindOwn
  <2>6. ChainMatchesCalls'
    BY <1>3, <2>1, ChainStays
  <2> QED BY <1>3, <2>1, <2>3, <2>4, <2>5, <2>6 DEF IInv, Typed
<1> QED BY <1>0, <1>1, <1>2, <1>3 DEF AckResumes, ReplyResumes, TimesOut

\* A step that takes entries under one id from the tables and tells their owner,
\* which is the call the frame is for.
LEMMA Answered ==
    ASSUME IInv, NEW r \in Calls, Typed',
           client'.chain = client.chain, client'.peer \subseteq client.peer,
           \A i \in Ids \ {call[r].id} :
               client'.acks[i] = client.acks[i] /\ client'.replies[i] = client.replies[i],
           \A q \in Calls \ {r} : call'[q] = call[q],
           call'[r].pc = call[r].pc, call'[r].id = call[r].id, call'[r].want = call[r].want,
           \/ client'.acks[call[r].id] = client.acks[call[r].id] /\ call'[r].ack = call[r].ack
           \/ /\ client'.acks[call[r].id] = Free
              /\ client.acks[call[r].id] \in {Free, r}
              /\ IF client.acks[call[r].id] = r THEN call'[r].ack \in {"err", r} ELSE call'[r].ack = call[r].ack,
           \/ client'.replies[call[r].id] = client.replies[call[r].id] /\ call'[r].reply = call[r].reply
           \/ /\ client'.replies[call[r].id] = Free
              /\ client.replies[call[r].id] \in {Free, r}
              /\ IF client.replies[call[r].id] = r THEN call'[r].reply \in {"err", r} ELSE call'[r].reply = call[r].reply
    PROVE  IInv'
<1> DEFINE i == call[r].id
<1>1. i \in Ids
  BY DEF IInv, Typed, Call
<1>2. TablesMatchCalls'
  <2> SUFFICES ASSUME NEW q \in Calls, NEW j \in Ids
               PROVE  /\ client'.acks[j] = q <=>
                            call'[q].id = j /\ call'[q].pc \in {"queue", "write", "ack"} /\ call'[q].ack = "pending"
                      /\ client'.replies[j] = q <=>
                            call'[q].id = j /\ InFlight(q)' /\ call'[q].want /\ call'[q].reply = "pending"
    BY DEF TablesMatchCalls, Typed, Client
  <2>1. CASE q = r
    BY <1>1, <2>1, CallsAssumption DEF IInv, TablesMatchCalls, InFlight, Free
  <2>2. CASE q # r
    BY <1>1, <2>2, CallsAssumption DEF IInv, TablesMatchCalls, InFlight, Free
  <2> QED BY <2>1, <2>2
<1>3. OwnAnswer'
  BY DEF IInv, OwnAnswer
<1>4. Fresh'
  BY <1>1 DEF IInv, Fresh, InFlight, TablesMatchCalls
<1>5. \A q \in Calls : call'[q].id = call[q].id /\ call'[q].pc = call[q].pc
  OBVIOUS
<1>6. DistinctIds'
  BY <1>5 DEF IInv, DistinctIds, InFlight
<1>7. AnswersFindOwn'
  <2>1. \A a \in client.peer : a[1] \in Calls /\ call[a[1]].id \in Ids
    BY DEF IInv, Typed, Client, Call
  <2> QED BY <1>5, <2>1 DEF IInv, AnswersFindOwn
<1>8. ChainMatchesCalls'
  BY <1>5, ChainStays
<1> QED BY <1>2, <1>3, <1>4, <1>6, <1>7, <1>8 DEF IInv

\* Whatever comes for a call finds that call under its id, or nobody.
LEMMA FoundUnderId ==
    ASSUME IInv, NEW r \in Calls, \E a \in client.peer : a[1] = r
    PROVE  /\ client \in Client /\ call[r] \in Call /\ call[r].id \in Ids
           /\ client.acks[call[r].id] \in {Free, r}
           /\ client.replies[call[r].id] \in {Free, r}
BY DEF IInv, Typed, Call, AnswersFindOwn

\* A sendAck frame.
LEMMA HandleAckStep ==
    ASSUME IInv, NEW r \in Calls, HandleAck(r)
    PROVE  IInv'
<1> DEFINE i == call[r].id
<1>0. /\ client \in Client /\ call[r] \in Call /\ i \in Ids
      /\ client.acks[i] \in {Free, r} /\ client.replies[i] \in {Free, r}
  BY FoundUnderId DEF HandleAck
<1>1. /\ client'.acks = [client.acks EXCEPT ![i] = Free] /\ client'.replies = client.replies
      /\ client'.chain = client.chain /\ client'.peer \subseteq client.peer
  BY <1>0 DEF HandleAck, Client
<1>2. client' \in Client
  BY <1>0 DEF HandleAck, Client
<1>3. call' = IF client.acks[i] = Free THEN call ELSE [call EXCEPT ![r].ack = r]
  BY <1>0 DEF HandleAck
<1>4. /\ call' \in [Calls -> Call]
      /\ \A q \in Calls \ {r} : call'[q] = call[q]
      /\ call'[r].pc = call[r].pc /\ call'[r].id = i
      /\ call'[r].want = call[r].want /\ call'[r].reply = call[r].reply
      /\ IF client.acks[i] = r THEN call'[r].ack = r ELSE call'[r].ack = call[r].ack
  BY <1>0, <1>3, CallsAssumption DEF IInv, Typed, Call, Free
<1>5. client'.acks[i] = Free /\ \A j \in Ids \ {i} : client'.acks[j] = client.acks[j]
  BY <1>0, <1>1 DEF Client
<1> QED BY <1>0, <1>1, <1>2, <1>4, <1>5, Answered DEF Typed

\* A sendReply frame.
LEMMA HandleReplyStep ==
    ASSUME IInv, NEW r \in Calls, HandleReply(r)
    PROVE  IInv'
<1> DEFINE i == call[r].id
<1>0. /\ client \in Client /\ call[r] \in Call /\ i \in Ids
      /\ client.acks[i] \in {Free, r} /\ client.replies[i] \in {Free, r}
  BY FoundUnderId DEF HandleReply
<1>1. /\ client'.replies = [client.replies EXCEPT ![i] = Free] /\ client'.acks = client.acks
      /\ client'.chain = client.chain /\ client'.peer \subseteq client.peer
  BY <1>0 DEF HandleReply, Client
<1>2. client' \in Client
  BY <1>0 DEF HandleReply, Client
<1>3. call' = IF client.replies[i] = Free THEN call ELSE [call EXCEPT ![r].reply = r]
  BY <1>0 DEF HandleReply
<1>4. /\ call' \in [Calls -> Call]
      /\ \A q \in Calls \ {r} : call'[q] = call[q]
      /\ call'[r].pc = call[r].pc /\ call'[r].id = i
      /\ call'[r].want = call[r].want /\ call'[r].ack = call[r].ack
      /\ IF client.replies[i] = r THEN call'[r].reply = r ELSE call'[r].reply = call[r].reply
  BY <1>0, <1>3, CallsAssumption DEF IInv, Typed, Call, Free
<1>5. client'.replies[i] = Free /\ \A j \in Ids \ {i} : client'.replies[j] = client.replies[j]
  BY <1>0, <1>1 DEF Client
<1> QED BY <1>0, <1>1, <1>2, <1>4, <1>5, Answered DEF Typed

\* An error frame for a request.
LEMMA HandleErrorStep ==
    ASSUME IInv, NEW r \in Calls, HandleError(r)
    PROVE  IInv'
<1> DEFINE i == call[r].id
<1>0. /\ client \in Client /\ call[r] \in Call /\ i \in Ids
      /\ client.acks[i] \in {Free, r} /\ client.replies[i] \in {Free, r}
  BY FoundUnderId DEF HandleError
<1>1. /\ client'.acks = [client.acks EXCEPT ![i] = Free]
      /\ client'.replies = [client.replies EXCEPT ![i] = Free]
      /\ client'.chain = client.chain /\ client'.peer \subseteq client.peer
  BY <1>0 DEF HandleError, Client
<1>2. client' \in Client
  BY <1>0 DEF HandleError, Client
<1>3. ASSUME NEW q \in Calls
      PROVE  /\ call'[q] \in Call
             /\ q # r => call'[q] = call[q]
             /\ call'[q].pc = call[q].pc /\ call'[q].id = call[q].id /\ call'[q].want = call[q].want
             /\ call'[q].ack = IF client.acks[i] = q THEN "err" ELSE call[q].ack
             /\ call'[q].reply = IF client.replies[i] = q THEN "err" ELSE call[q].reply
  <2>1. call[q] \in Call
    BY DEF IInv, Typed
  <2>2. call'[q] = [call[q] EXCEPT !.ack = IF client.acks[i] = q THEN "err" ELSE @,
                                   !.reply = IF client.replies[i] = q THEN "err" ELSE @]
    BY DEF HandleError
  <2>3. q # r => client.acks[i] # q /\ client.replies[i] # q
    BY <1>0, CallsAssumption DEF Free
  <2>4. ASSUME q # r PROVE call'[q] = call[q]
    <3>1. call'[q] = [call[q] EXCEPT !.ack = @, !.reply = @]
      BY <2>2, <2>3, <2>4
    <3> QED BY <2>1, <3>1 DEF Call
  <2>5. /\ call'[q] \in Call
        /\ call'[q].pc = call[q].pc /\ call'[q].id = call[q].id /\ call'[q].want = call[q].want
        /\ call'[q].ack = IF client.acks[i] = q THEN "err" ELSE call[q].ack
        /\ call'[q].reply = IF client.replies[i] = q THEN "err" ELSE call[q].reply
    BY <2>1, <2>2 DEF Call
  <2> QED BY <2>4, <2>5
<1>4. call' \in [Calls -> Call]
  BY <1>3 DEF HandleError
<1>5. /\ client'.acks[i] = Free /\ \A j \in Ids \ {i} : client'.acks[j] = client.acks[j]
      /\ client'.replies[i] = Free /\ \A j \in Ids \ {i} : client'.replies[j] = client.replies[j]
  BY <1>0, <1>1 DEF Client
<1> QED BY <1>0, <1>1, <1>2, <1>3, <1>4, <1>5, Answered DEF Typed

-----------------------------------------------------------------------------
(* The theorems.                                                           *)

\* At first nothing is pending.
LEMMA InitIInv == Init => IInv
<1> SUFFICES ASSUME Init PROVE IInv
  OBVIOUS
<1>1. 1 \in Ids /\ 0 \in 0..MaxConns
  BY IdModAssumption, MaxConnsAssumption DEF Ids
<1>2. Typed
  BY <1>1 DEF Init, Typed, Client, Call
<1>3. TablesMatchCalls
  BY <1>1, <1>2, CallsAssumption DEF Init, TablesMatchCalls, InFlight, Free, Typed
<1>4. OwnAnswer /\ Fresh /\ DistinctIds /\ AnswersFindOwn
  BY DEF Init, OwnAnswer, Fresh, DistinctIds, AnswersFindOwn, InFlight
<1>5. ChainMatchesCalls
  BY DEF Init, ChainMatchesCalls
<1> QED BY <1>2, <1>3, <1>4, <1>5 DEF IInv

\* Every step keeps the invariant, one lemma for each handler.
LEMMA NextIInv == IInv /\ [Next]_vars => IInv'
<1> SUFFICES ASSUME IInv, [Next]_vars PROVE IInv'
  OBVIOUS
<1>1. CASE Progress
  BY <1>1, DialedStep, ConnectResumesStep, RejectStep, RegisterStep, WriteStep, ResumeStep DEF Progress
<1>2. CASE Hello \/ SocketDies \/ RuntimeError \/ Close
  BY <1>2, LinkStep, RejectStep
<1>3. CASE \E want \in BOOLEAN : Send(want)
  BY <1>3, SendStep
<1>4. CASE \E r \in Calls : HandleAck(r) \/ HandleReply(r) \/ HandleError(r)
  BY <1>4, HandleAckStep, HandleReplyStep, HandleErrorStep
<1>5. CASE UNCHANGED vars
  BY <1>5 DEF vars, IInv, Typed, TablesMatchCalls, OwnAnswer, Fresh, DistinctIds, AnswersFindOwn,
              ChainMatchesCalls, InFlight
<1> QED BY <1>1, <1>2, <1>3, <1>4, <1>5 DEF Next

\* The invariant holds always.
THEOREM InvariantHolds == Spec => []IInv
<1>1. Init => IInv
  BY InitIInv
<1>2. IInv /\ [Next]_vars => IInv'
  BY NextIInv
<1> QED BY <1>1, <1>2, PTL DEF Spec

\* For any number of calls, ids and connections, an acknowledgement or a reply
\* resolves the call it was sent for.
THEOREM AnswersAreOwn == Spec => []OwnAnswer
<1>1. IInv => OwnAnswer
  BY DEF IInv
<1> QED BY <1>1, InvariantHolds, PTL

\* The tables hold the calls that await an answer, each under its own id, and
\* nobody else: an entry neither leaks nor is taken from a call that waits.
THEOREM TablesAreExact == Spec => []TablesMatchCalls
<1>1. IInv => TablesMatchCalls
  BY DEF IInv
<1> QED BY <1>1, InvariantHolds, PTL

\* The chain of writes holds each call that awaits its write, once and in its
\* turn; a request is on the wire only while it is at the head.
THEOREM ChainIsExact == Spec => []ChainMatchesCalls
<1>1. IInv => ChainMatchesCalls
  BY DEF IInv
<1> QED BY <1>1, InvariantHolds, PTL
===============================================================================
