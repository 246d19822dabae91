------------------------- MODULE BridgeManagerProofs -------------------------
(***************************************************************************)
(* Proofs about BridgeManager, for any sets of processes, accounts and     *)
(* Bridge objects.  The invariants are proved together: ownership needs    *)
(* the Bridges in the map to be alive, "no assertion fails" needs          *)
(* ownership, and the exclusive database needs an order among the Bridges  *)
(* of one account, which their gates record.                               *)
(*                                                                         *)
(* The operators of BridgeManager take the manager's state as an argument, *)
(* so the invariants are stated over such a state x, and there is one      *)
(* lemma per operator.                                                     *)
(***************************************************************************)
EXTENDS BridgeManager, TLAPS

Owned(x) ==
    /\ \A p \in Pids, i \in Bridges :
         p \in x.obj[i].pids <=> x.own[p] # NoUin /\ x.bridges[x.own[p]] = i
    /\ \A p \in Pids : x.own[p] # NoUin => x.bridges[x.own[p]] # NoBridge

\* A Bridge in the map is alive and carries its account.
Alive(x) ==
    \A u \in Uins : x.bridges[u] # NoBridge =>
        /\ Active(x, x.bridges[u]) /\ ~x.obj[x.bridges[u]].disposing
        /\ x.obj[x.bridges[u]].uin = u

\* A Bridge in the map holds a process.
Peopled(x) ==
    \A u \in Uins : x.bridges[u] # NoBridge => x.obj[x.bridges[u]].pids # {}

\* An active Bridge that is not being disposed of is the one in the map.
Current(x) ==
    \A i \in Bridges : Active(x, i) =>
        /\ x.obj[i].uin \in Uins
        /\ ~x.obj[i].disposing => x.bridges[x.obj[i].uin] = i

\* Of two active Bridges of one account, one waits for the other's close.
Gated(x) ==
    \A i, j \in Bridges :
        /\ i # j /\ Active(x, i) /\ Active(x, j) /\ x.obj[i].uin = x.obj[j].uin
        => i \in x.obj[j].gate \/ j \in x.obj[i].gate

\* An open database waits for nothing.
OpenUngated(x) ==
    \A i \in Bridges : x.obj[i].st = "open" => x.obj[i].gate = {}

\* What holds of the manager between two calls, and inside a call, when a
\* Bridge may just have been created and hold no process yet.
Sound(x) ==
    /\ x \in Manager /\ ~x.threw
    /\ Owned(x) /\ Alive(x) /\ Current(x) /\ Gated(x) /\ OpenUngated(x)

IInv ==
    /\ TypeOK
    /\ Sound(m) /\ Peopled(m)
    /\ MappedWhileLoggedIn

-----------------------------------------------------------------------------
(* The operators.                                                          *)

\* Bridge.bindPid changes the connections only.
LEMMA BindPidMethod ==
    ASSUME NEW b \in Bridge, NEW p \in Pids
    PROVE  LET c == BridgeBindPid(b, p)
           IN  /\ c \in Bridge
               /\ c.st = b.st /\ c.uin = b.uin /\ c.gate = b.gate
               /\ c.disposing = b.disposing
               /\ c.pids = b.pids \cup {p}
BY DEF Bridge, BridgeBindPid

\* Bridge.detachPid changes the connections only.
LEMMA DetachPidMethod ==
    ASSUME NEW b \in Bridge, NEW p \in Pids
    PROVE  LET c == BridgeDetachPid(b, p)
           IN  /\ c \in Bridge
               /\ c.st = b.st /\ c.uin = b.uin /\ c.gate = b.gate
               /\ c.disposing = b.disposing
               /\ c.pids = b.pids \ {p}
BY DEF Bridge, BridgeDetachPid

\* Bridge.dispose clears the connections and marks the Bridge.
LEMMA DisposeMethod ==
    ASSUME NEW b \in Bridge
    PROVE  LET c == BridgeDispose(b)
           IN  /\ c \in Bridge
               /\ c.st = b.st /\ c.uin = b.uin /\ c.gate = b.gate
               /\ c.disposing = TRUE
               /\ c.pids = {}
BY DEF Bridge, BridgeDispose

\* Bridge.setPidReceiveHealthy changes the health only.
LEMMA HealthMethod ==
    ASSUME NEW b \in Bridge, NEW p \in Pids, NEW ok \in BOOLEAN
    PROVE  LET c == SetPidReceiveHealthy(b, p, ok)
           IN  /\ c \in Bridge
               /\ c.st = b.st /\ c.uin = b.uin /\ c.gate = b.gate
               /\ c.disposing = b.disposing
               /\ c.pids = b.pids
<1>1. CASE ok
  BY <1>1 DEF Bridge, SetPidReceiveHealthy
<1>2. CASE ~ok
  BY <1>2 DEF Bridge, SetPidReceiveHealthy
<1> QED BY <1>1, <1>2

\* A failed close leaves the connections alone.
LEMMA FailedMethod ==
    ASSUME NEW b \in Bridge
    PROVE  LET c == CloseFailed(b)
           IN  c \in Bridge /\ c.st = "failed" /\ c.pids = b.pids
BY DEF Bridge, CloseFailed

\* detachPidFromSession keeps the maps consistent: with its last process
\* the Bridge leaves the map before it is closed.
LEMMA DetachSound ==
    ASSUME NEW x, Sound(x), Peopled(x), NEW p \in Pids, x.own[p] # NoUin
    PROVE  LET y == DetachPidFromSession(x, p, x.own[p])
           IN  /\ Sound(y) /\ Peopled(y)
               /\ y.own = [x.own EXCEPT ![p] = NoUin]
               /\ \A a \in Uins : a # x.own[p] => y.bridges[a] = x.bridges[a]
               /\ \A j \in Bridges : y.obj[j].st = x.obj[j].st
<1> DEFINE u == x.own[p]
           i == x.bridges[u]
           y == DetachPidFromSession(x, p, u)
           b == x.obj[i]
           c == BridgeDetachPid(b, p)
           z == [x EXCEPT !.own[p] = NoUin, !.obj[i] = BridgeDetachPid(@, p)]
           w == [z EXCEPT !.bridges[u] = NoBridge]
<1>1. u \in Uins /\ i \in Bridges /\ i # NoBridge /\ p \in b.pids
  BY BridgeAssumption DEF Sound, Owned, Manager
<1>2. /\ x.own \in [Pids -> Uins \cup {NoUin}]
      /\ x.bridges \in [Uins -> Bridges \cup {NoBridge}]
      /\ x.obj \in [Bridges -> Bridge]
      /\ x \in Manager /\ x.threw = FALSE
  BY DEF Sound, Manager
<1>3. b \in Bridge /\ c \in Bridge /\ BridgeDispose(c) \in Bridge
  BY <1>1, <1>2, DetachPidMethod, DisposeMethod
<1>4. z = [x EXCEPT !.own[p] = NoUin, !.obj[i] = c]
  OBVIOUS
<1>5. y = IF i = NoBridge THEN [x EXCEPT !.threw = TRUE]
          ELSE IF p \notin b.pids THEN [x EXCEPT !.threw = TRUE]
          ELSE IF z.obj[i].pids # {} THEN z
          ELSE CloseSession(w, i)
  BY DEF DetachPidFromSession
<1> HIDE DEF y, z, c, b, i, u
<1>6. /\ z \in Manager
      /\ z.own = [x.own EXCEPT ![p] = NoUin] /\ z.bridges = x.bridges
      /\ z.obj = [x.obj EXCEPT ![i] = c] /\ z.threw = FALSE
  BY <1>1, <1>2, <1>3, <1>4 DEF Manager
<1>7. z.obj[i] = c
  BY <1>1, <1>2, <1>6
<1>8. y = IF c.pids # {} THEN z ELSE CloseSession(w, i)
  BY <1>1, <1>5, <1>7
<1>9. /\ w \in Manager
      /\ w.own = z.own /\ w.bridges = [z.bridges EXCEPT ![u] = NoBridge]
      /\ w.obj = z.obj /\ w.threw = FALSE
  BY <1>1, <1>6 DEF Manager
<1> DEFINE v == [w EXCEPT !.obj[i] = BridgeDispose(c)]
<1>10. CloseSession(w, i) = v
  BY <1>7, <1>9 DEF CloseSession
<1> HIDE DEF w
<1>11. /\ v \in Manager
       /\ v.own = w.own /\ v.bridges = w.bridges
       /\ v.obj = [w.obj EXCEPT ![i] = BridgeDispose(c)] /\ v.threw = FALSE
  BY <1>1, <1>3, <1>9 DEF Manager
<1> HIDE DEF v
<1>12. /\ c.st = b.st /\ c.uin = b.uin /\ c.gate = b.gate /\ c.disposing = b.disposing
       /\ c.pids = b.pids \ {p}
  BY <1>3, DetachPidMethod DEF c
<1>13. LET d == BridgeDispose(c)
       IN  /\ d.st = c.st /\ d.uin = c.uin /\ d.gate = c.gate /\ d.disposing = TRUE
           /\ d.pids = {}
  BY <1>3, DisposeMethod
<1> DEFINE last == c.pids = {}
<1>14. /\ y \in Manager /\ y.threw = FALSE
       /\ y.own = [x.own EXCEPT ![p] = NoUin]
       /\ y.bridges = IF last THEN [x.bridges EXCEPT ![u] = NoBridge] ELSE x.bridges
       /\ y.obj = [x.obj EXCEPT ![i] = IF last THEN BridgeDispose(c) ELSE c]
  <2>1. [z.obj EXCEPT ![i] = BridgeDispose(c)] = [x.obj EXCEPT ![i] = BridgeDispose(c)]
    BY <1>1, <1>2, <1>6
  <2> QED BY <1>6, <1>8, <1>9, <1>10, <1>11, <2>1
<1>15. \A j \in Bridges : /\ y.obj[j].st = x.obj[j].st /\ y.obj[j].uin = x.obj[j].uin
                          /\ y.obj[j].gate = x.obj[j].gate
                          /\ y.obj[j].pids = IF j = i THEN b.pids \ {p} ELSE x.obj[j].pids
                          /\ (j # i \/ ~last) => y.obj[j].disposing = x.obj[j].disposing
                          /\ (j = i /\ last) => y.obj[j].disposing = TRUE
  BY <1>1, <1>2, <1>12, <1>13, <1>14, ZenonT(40) DEF b
<1>16. x.own[p] = u /\ x.bridges[u] = i /\ x.obj[i] = b
  BY DEF u, i, b
<1>17. /\ \A q \in Pids : y.own[q] = IF q = p THEN NoUin ELSE x.own[q]
       /\ \A a \in Uins : y.bridges[a] = IF last /\ a = u THEN NoBridge ELSE x.bridges[a]
  BY <1>1, <1>2, <1>14
<1>18. /\ x.own \in [Pids -> Uins \cup {NoUin}] /\ NoUin \notin Uins
       /\ last <=> b.pids \ {p} = {}
  BY <1>2, <1>12, BridgeAssumption
<1> HIDE DEF last
<1>19. Owned(y)
  <2>1. ASSUME NEW q \in Pids, NEW j \in Bridges
        PROVE  q \in y.obj[j].pids <=> y.own[q] # NoUin /\ y.bridges[y.own[q]] = j
    BY <1>1, <1>15, <1>16, <1>17, <1>18, BridgeAssumption DEF Sound, Owned, Alive
  <2>2. ASSUME NEW q \in Pids, y.own[q] # NoUin
        PROVE  y.bridges[y.own[q]] # NoBridge
    BY <1>1, <1>15, <1>16, <1>17, <1>18, <2>2 DEF Sound, Owned
  <2> QED BY <2>1, <2>2 DEF Owned
<1>20. Alive(y)
  BY <1>1, <1>2, <1>15, <1>16, <1>17, BridgeAssumption DEF Sound, Alive, Active
<1>21. Peopled(y)
  <2> SUFFICES ASSUME NEW a \in Uins, y.bridges[a] # NoBridge
               PROVE  y.obj[y.bridges[a]].pids # {}
    BY DEF Peopled
  <2>1. y.bridges[a] = x.bridges[a] /\ x.bridges[a] \in Bridges /\ ~(last /\ a = u)
    BY <1>2, <1>17
  <2>2. CASE a = u
    BY <1>1, <1>15, <1>16, <1>18, <2>1, <2>2
  <2>3. CASE a # u
    <3>1. x.bridges[a] # i
      BY <1>1, <1>16, <2>1, <2>3, BridgeAssumption DEF Sound, Alive
    <3> QED BY <1>15, <2>1, <3>1 DEF Peopled
  <2> QED BY <2>2, <2>3
<1>22. Current(y)
  BY <1>1, <1>2, <1>15, <1>16, <1>17 DEF Sound, Current, Active
<1>23. Gated(y) /\ OpenUngated(y)
  BY <1>15 DEF Sound, Gated, OpenUngated, Active
<1> QED BY <1>14, <1>15, <1>17, <1>19, <1>20, <1>21, <1>22, <1>23 DEF Sound, y, u

\* ensureSession: the new Bridge waits for every active Bridge of its
\* account, since all of them are being disposed of.
LEMMA EnsureSound ==
    ASSUME NEW x, Sound(x), Peopled(x), NEW u \in Uins, NEW new,
           x.bridges[u] = NoBridge => new \in Bridges /\ x.obj[new].st = "free"
    PROVE  LET z == EnsureSession(x, u, new)
           IN  /\ Sound(z) /\ z.own = x.own
               /\ z.bridges[u] \in Bridges
               /\ \A a \in Uins : a # u /\ z.bridges[a] # NoBridge
                                    => z.obj[z.bridges[a]].pids # {}
<1> DEFINE z == EnsureSession(x, u, new)
<1>1. CASE x.bridges[u] # NoBridge
  <2>1. z = x
    BY <1>1 DEF EnsureSession
  <2> QED BY <1>1, <2>1 DEF Sound, Manager, Peopled
<1>2. CASE x.bridges[u] = NoBridge
  <2> DEFINE gate == {i \in ClosingSessions(x, u) : Active(x, i)}
             b == [FreeBridge EXCEPT !.st = "waiting", !.uin = u, !.gate = gate]
  <2>1. /\ x.own \in [Pids -> Uins \cup {NoUin}]
        /\ x.bridges \in [Uins -> Bridges \cup {NoBridge}]
        /\ x.obj \in [Bridges -> Bridge]
        /\ x \in Manager /\ x.threw = FALSE
        /\ new \in Bridges /\ x.obj[new].st = "free"
    BY <1>2 DEF Sound, Manager
  <2>2. /\ b \in Bridge
        /\ b.st = "waiting" /\ b.uin = u /\ b.gate = gate /\ b.pids = {} /\ b.disposing = FALSE
    BY DEF Bridge, FreeBridge, ClosingSessions
  <2>3. z = [x EXCEPT !.bridges[u] = new, !.obj[new] = b]
    BY <1>2 DEF EnsureSession
  <2> HIDE DEF z, b
  <2>4. /\ z \in Manager /\ z.threw = FALSE /\ z.own = x.own
        /\ z.bridges = [x.bridges EXCEPT ![u] = new]
        /\ z.obj = [x.obj EXCEPT ![new] = b]
    BY <2>1, <2>2, <2>3 DEF Manager
  <2>5. /\ \A a \in Uins : z.bridges[a] = IF a = u THEN new ELSE x.bridges[a]
        /\ \A j \in Bridges : z.obj[j] = IF j = new THEN b ELSE x.obj[j]
    BY <2>1, <2>4
  <2>6. ASSUME NEW a \in Uins
        PROVE  x.bridges[a] # new
    BY <2>1, BridgeAssumption DEF Sound, Alive, Active
  <2>7. Owned(z)
    <3>1. x.obj[new].pids = {}
      BY <2>1, <2>6 DEF Sound, Owned, Bridge
    <3>2. ASSUME NEW q \in Pids, NEW j \in Bridges
          PROVE  q \in z.obj[j].pids <=> z.own[q] # NoUin /\ z.bridges[z.own[q]] = j
      BY <1>2, <2>1, <2>2, <2>4, <2>5, <2>6, <3>1 DEF Sound, Owned
    <3>3. ASSUME NEW q \in Pids, z.own[q] # NoUin
          PROVE  z.bridges[z.own[q]] # NoBridge
      BY <2>1, <2>4, <2>5, <3>3, BridgeAssumption DEF Sound, Owned
    <3> QED BY <3>2, <3>3 DEF Owned
  <2>8. Alive(z)
    BY <2>1, <2>2, <2>5, <2>6 DEF Sound, Alive, Active
  <2>9. Current(z)
    BY <1>2, <2>1, <2>2, <2>5, <2>6, BridgeAssumption DEF Sound, Current, Active
  <2>10. Gated(z)
    <3> SUFFICES ASSUME NEW i \in Bridges, NEW j \in Bridges, i # j,
                        Active(z, i), Active(z, j), z.obj[i].uin = z.obj[j].uin
                 PROVE  i \in z.obj[j].gate \/ j \in z.obj[i].gate
      BY DEF Gated
    <3>1. ASSUME NEW k \in Bridges, k # new, Active(z, k), z.obj[k].uin = u
          PROVE  k \in gate
      BY <1>2, <2>1, <2>5, <3>1, BridgeAssumption
         DEF Sound, Current, Active, ClosingSessions, Bridge
    <3>2. CASE i = new
      BY <2>2, <2>5, <3>1, <3>2
    <3>3. CASE j = new
      BY <2>2, <2>5, <3>1, <3>3
    <3>4. CASE i # new /\ j # new
      BY <2>5, <3>4 DEF Sound, Gated, Active
    <3> QED BY <3>2, <3>3, <3>4
  <2>11. OpenUngated(z)
    BY <2>2, <2>5 DEF Sound, OpenUngated
  <2>12. \A a \in Uins : a # u /\ z.bridges[a] # NoBridge => z.obj[z.bridges[a]].pids # {}
    BY <2>1, <2>5, <2>6 DEF Peopled
  <2> QED BY <2>1, <2>4, <2>5, <2>7, <2>8, <2>9, <2>10, <2>11, <2>12 DEF Sound, z
<1> QED BY <1>1, <1>2

Attach(z, p, u) == [z EXCEPT !.own[p] = u, !.obj[z.bridges[u]] = BridgeBindPid(@, p)]

\* The end of bindPid: a process that belongs to no other account joins the
\* Bridge of its account.
LEMMA AttachSound ==
    ASSUME NEW z, Sound(z), NEW p \in Pids, NEW u \in Uins,
           z.bridges[u] \in Bridges, z.own[p] \in {NoUin, u},
           \A a \in Uins : a # u /\ z.bridges[a] # NoBridge => z.obj[z.bridges[a]].pids # {}
    PROVE  LET y == Attach(z, p, u)
           IN  /\ Sound(y) /\ Peopled(y)
               /\ y.own = [z.own EXCEPT ![p] = u]
<1> DEFINE i == z.bridges[u]
           b == z.obj[i]
           c == BridgeBindPid(b, p)
           y == Attach(z, p, u)
<1>1. /\ z.own \in [Pids -> Uins \cup {NoUin}]
      /\ z.bridges \in [Uins -> Bridges \cup {NoBridge}]
      /\ z.obj \in [Bridges -> Bridge]
      /\ z \in Manager /\ z.threw = FALSE /\ i \in Bridges
  BY DEF Sound, Manager
<1>2. /\ c \in Bridge
      /\ c.st = b.st /\ c.uin = b.uin /\ c.gate = b.gate /\ c.disposing = b.disposing
      /\ c.pids = b.pids \cup {p}
  BY <1>1, BindPidMethod
<1>3. y = [z EXCEPT !.own[p] = u, !.obj[i] = c]
  BY DEF Attach
<1>4. z.bridges[u] = i /\ z.obj[i] = b
  OBVIOUS
<1> HIDE DEF y, c, b, i
<1>5. /\ y \in Manager /\ y.threw = FALSE /\ y.bridges = z.bridges
      /\ y.own = [z.own EXCEPT ![p] = u]
      /\ y.obj = [z.obj EXCEPT ![i] = c]
  BY <1>1, <1>2, <1>3 DEF Manager
<1>6. /\ \A q \in Pids : y.own[q] = IF q = p THEN u ELSE z.own[q]
      /\ \A j \in Bridges : /\ y.obj[j].st = z.obj[j].st /\ y.obj[j].uin = z.obj[j].uin
                            /\ y.obj[j].gate = z.obj[j].gate
                            /\ y.obj[j].disposing = z.obj[j].disposing
                            /\ y.obj[j].pids = IF j = i THEN b.pids \cup {p} ELSE z.obj[j].pids
  BY <1>1, <1>2, <1>4, <1>5
<1>7. Owned(y)
  <2>1. ASSUME NEW q \in Pids, NEW j \in Bridges
        PROVE  q \in y.obj[j].pids <=> y.own[q] # NoUin /\ y.bridges[y.own[q]] = j
    BY <1>1, <1>4, <1>5, <1>6, BridgeAssumption DEF Sound, Owned
  <2>2. ASSUME NEW q \in Pids, y.own[q] # NoUin
        PROVE  y.bridges[y.own[q]] # NoBridge
    BY <1>1, <1>4, <1>5, <1>6, <2>2, BridgeAssumption DEF Sound, Owned
  <2> QED BY <2>1, <2>2 DEF Owned
<1>8. Alive(y)
  BY <1>1, <1>5, <1>6 DEF Sound, Alive, Active
<1>9. Current(y)
  BY <1>5, <1>6 DEF Sound, Current, Active
<1>10. Gated(y) /\ OpenUngated(y)
  BY <1>6 DEF Sound, Gated, OpenUngated, Active
<1>11. Peopled(y)
  <2> SUFFICES ASSUME NEW a \in Uins, y.bridges[a] # NoBridge
               PROVE  y.obj[y.bridges[a]].pids # {}
    BY DEF Peopled
  <2>1. y.bridges[a] = z.bridges[a] /\ z.bridges[a] \in Bridges
    BY <1>1, <1>5
  <2>2. CASE a = u
    BY <1>4, <1>6, <2>1, <2>2
  <2>3. CASE a # u
    <3>1. z.bridges[a] # i
      BY <1>1, <1>4, <2>1, <2>3, BridgeAssumption DEF Sound, Alive
    <3> QED BY <1>6, <2>1, <2>3, <3>1
  <2> QED BY <2>2, <2>3
<1> QED BY <1>5, <1>7, <1>8, <1>9, <1>10, <1>11 DEF Sound, y, i

\* bindPid: detach from the former account, ensure the Bridge, attach.
LEMMA BindSound ==
    ASSUME NEW x, Sound(x), Peopled(x), NEW p \in Pids, NEW u \in Uins, NEW new,
           x.bridges[u] = NoBridge => new \in Bridges /\ x.obj[new].st = "free"
    PROVE  LET y == BindPid(x, p, u, new)
           IN  /\ Sound(y) /\ Peopled(y)
               /\ y.own = [x.own EXCEPT ![p] = u]
<1> DEFINE y == IF x.own[p] \notin {NoUin, u} THEN DetachPidFromSession(x, p, x.own[p]) ELSE x
           z == EnsureSession(y, u, new)
           r == Attach(z, p, u)
<1>1. x.own \in [Pids -> Uins \cup {NoUin}] /\ x.bridges \in [Uins -> Bridges \cup {NoBridge}]
  BY DEF Sound, Manager
<1>2. /\ Sound(y) /\ Peopled(y)
      /\ y.bridges[u] = NoBridge => new \in Bridges /\ y.obj[new].st = "free"
      /\ y.own = IF x.own[p] \in {NoUin, u} THEN x.own ELSE [x.own EXCEPT ![p] = NoUin]
  <2>1. CASE x.own[p] \notin {NoUin, u}
    <3> DEFINE d == DetachPidFromSession(x, p, x.own[p])
    <3>1. /\ Sound(d) /\ Peopled(d)
          /\ d.own = [x.own EXCEPT ![p] = NoUin]
          /\ \A a \in Uins : a # x.own[p] => d.bridges[a] = x.bridges[a]
          /\ \A j \in Bridges : d.obj[j].st = x.obj[j].st
      BY <2>1, DetachSound
    <3>2. y = d
      BY <2>1
    <3> HIDE DEF d, y
    <3> QED BY <2>1, <3>1, <3>2
  <2>2. CASE x.own[p] \in {NoUin, u}
    BY <2>2
  <2> QED BY <2>1, <2>2
<1>3. BindPid(x, p, u, new) = IF y.threw THEN y ELSE r
  BY DEF BindPid, Attach
<1> HIDE DEF y
<1>4. /\ Sound(z) /\ z.own = y.own /\ z.bridges[u] \in Bridges
      /\ \A a \in Uins : a # u /\ z.bridges[a] # NoBridge => z.obj[z.bridges[a]].pids # {}
  BY <1>2, EnsureSound
<1> HIDE DEF z
<1>5. z.own[p] \in {NoUin, u}
  BY <1>1, <1>2, <1>4
<1>6. Sound(r) /\ Peopled(r) /\ r.own = [z.own EXCEPT ![p] = u]
  BY <1>4, <1>5, AttachSound
<1>7. [z.own EXCEPT ![p] = u] = [x.own EXCEPT ![p] = u]
  BY <1>1, <1>2, <1>4
<1> HIDE DEF r
<1> QED BY <1>2, <1>3, <1>6, <1>7 DEF Sound

-----------------------------------------------------------------------------
(* The actions.                                                            *)

LEMMA InitHolds == Init => IInv
<1> SUFFICES ASSUME Init PROVE IInv
  OBVIOUS
<1>1. /\ m.own = [p \in Pids |-> NoUin] /\ m.bridges = [u \in Uins |-> NoBridge]
      /\ m.obj = [i \in Bridges |-> FreeBridge] /\ m.threw = FALSE
      /\ disposal = "no" /\ bound = [p \in Pids |-> NoUin]
  BY DEF Init
<1>2. FreeBridge \in Bridge /\ FreeBridge.st = "free" /\ FreeBridge.pids = {}
  BY DEF FreeBridge, Bridge
<1>3. m \in Manager
  BY <1>2 DEF Init, Manager
<1>4. TypeOK
  BY <1>1, <1>3 DEF TypeOK
<1>5. Sound(m) /\ Peopled(m)
  BY <1>1, <1>2, <1>3
     DEF Sound, Peopled, Owned, Alive, Current, Gated, OpenUngated, Active
<1>6. MappedWhileLoggedIn
  BY <1>1 DEF MappedWhileLoggedIn
<1> QED BY <1>4, <1>5, <1>6 DEF IInv

LEMMA OnHookLoginHolds ==
    ASSUME IInv, NEW p \in Pids, NEW u \in Uins, OnHookLogin(p, u)
    PROVE  IInv'
<1>1. /\ bound \in [Pids -> Uins \cup {NoUin}] /\ bound' = [bound EXCEPT ![p] = u]
      /\ disposal' = disposal /\ m.own \in [Pids -> Uins \cup {NoUin}]
  BY DEF IInv, TypeOK, Manager, OnHookLogin
<1>2. Sound(m') /\ Peopled(m')
      /\ m'.own = IF disposal # "no" THEN m.own ELSE [m.own EXCEPT ![p] = u]
  <2>1. CASE disposal # "no"
    BY <2>1 DEF IInv, OnHookLogin
  <2>2. CASE disposal = "no"
    <3>1. PICK new \in NewFor(u) : m' = BindPid(m, p, u, new)
      BY <2>2 DEF OnHookLogin
    <3>2. m.bridges[u] = NoBridge => new \in Bridges /\ m.obj[new].st = "free"
      BY <3>1 DEF NewFor
    <3> QED BY <2>2, <3>1, <3>2, BindSound DEF IInv
  <2> QED BY <2>1, <2>2
<1>3. TypeOK'
  BY <1>1, <1>2 DEF IInv, TypeOK, Sound
<1>4. MappedWhileLoggedIn'
  BY <1>1, <1>2, BridgeAssumption DEF IInv, MappedWhileLoggedIn
<1> QED BY <1>2, <1>3, <1>4 DEF IInv, Sound, Peopled, Owned, Alive, Current, Gated, OpenUngated, Active

\* packetClientForPid finds the sender of every mapped process.
LEMMA SenderFound ==
    ASSUME NEW x, Sound(x), NEW p \in Pids
    PROVE  ~SenderMissing(x, p)
<1>1. x.own \in [Pids -> Uins \cup {NoUin}] /\ x.bridges \in [Uins -> Bridges \cup {NoBridge}]
  BY DEF Sound, Manager
<1> QED BY <1>1 DEF Sound, Owned, SenderMissing

LEMMA OnPacketHolds ==
    ASSUME IInv, NEW p \in Pids, NEW u \in Uins, OnPacket(p, u)
    PROVE  IInv'
<1>1. /\ bound[p] # NoUin /\ bound' = bound /\ disposal' = disposal
      /\ m.own \in [Pids -> Uins \cup {NoUin}]
  BY DEF IInv, TypeOK, Manager, OnPacket
<1>2. Sound(m') /\ Peopled(m')
      /\ m'.own = IF disposal # "no" THEN m.own ELSE [m.own EXCEPT ![p] = u]
  <2>1. CASE disposal # "no"
    BY <2>1 DEF IInv, OnPacket
  <2>2. CASE disposal = "no"
    <3>1. ~SenderMissing(m, p) /\ m.own[p] # NoUin
      BY <1>1, <2>2, SenderFound DEF IInv, MappedWhileLoggedIn
    <3>2. PICK new \in NewFor(u) : m' = BindPid(m, p, u, new)
      BY <2>2, <3>1 DEF OnPacket
    <3>3. m.bridges[u] = NoBridge => new \in Bridges /\ m.obj[new].st = "free"
      BY <3>2 DEF NewFor
    <3> QED BY <2>2, <3>2, <3>3, BindSound DEF IInv
  <2> QED BY <2>1, <2>2
<1>3. TypeOK'
  BY <1>1, <1>2 DEF IInv, TypeOK, Sound
<1>4. MappedWhileLoggedIn'
  BY <1>1, <1>2, BridgeAssumption DEF IInv, MappedWhileLoggedIn
<1> QED BY <1>2, <1>3, <1>4 DEF IInv, Sound, Peopled, Owned, Alive, Current, Gated, OpenUngated, Active

LEMMA OnPidDisconnectedHolds ==
    ASSUME IInv, NEW p \in Pids, OnPidDisconnected(p)
    PROVE  IInv'
<1>1. /\ bound \in [Pids -> Uins \cup {NoUin}] /\ bound' = [bound EXCEPT ![p] = NoUin]
      /\ disposal' = disposal /\ m.own \in [Pids -> Uins \cup {NoUin}]
  BY DEF IInv, TypeOK, Manager, OnPidDisconnected
<1>2. Sound(m') /\ Peopled(m')
      /\ m'.own = [m.own EXCEPT ![p] = NoUin]
  <2>1. CASE m.own[p] = NoUin
    BY <1>1, <2>1 DEF IInv, OnPidDisconnected
  <2>2. CASE m.own[p] # NoUin
    BY <2>2, DetachSound DEF IInv, OnPidDisconnected
  <2> QED BY <2>1, <2>2
<1>3. TypeOK'
  BY <1>1, <1>2 DEF IInv, TypeOK, Sound
<1>4. MappedWhileLoggedIn'
  BY <1>1, <1>2 DEF IInv, MappedWhileLoggedIn
<1> QED BY <1>2, <1>3, <1>4 DEF IInv, Sound, Peopled, Owned, Alive, Current, Gated, OpenUngated, Active

\* A change of health leaves everything the invariants speak of alone.
LEMMA OnPidReceiveHealthChangedHolds ==
    ASSUME IInv, NEW p \in Pids, NEW ok \in BOOLEAN, OnPidReceiveHealthChanged(p, ok)
    PROVE  IInv'
<1> DEFINE i == m.bridges[m.own[p]]
           c == SetPidReceiveHealthy(m.obj[i], p, ok)
<1>1. CASE disposal # "no"
  BY <1>1 DEF IInv, TypeOK, MappedWhileLoggedIn, OnPidReceiveHealthChanged, Sound, Peopled, Owned,
              Alive, Current, Gated, OpenUngated, Active
<1>2. CASE disposal = "no"
  <2>1. /\ m.own \in [Pids -> Uins \cup {NoUin}]
        /\ m.bridges \in [Uins -> Bridges \cup {NoBridge}]
        /\ m.obj \in [Bridges -> Bridge]
        /\ m \in Manager /\ m.threw = FALSE
        /\ m.own[p] # NoUin /\ ~SenderMissing(m, p)
    BY <1>2, SenderFound
       DEF IInv, Sound, Manager, MappedWhileLoggedIn, OnPidReceiveHealthChanged
  <2>2. i \in Bridges
    BY <2>1 DEF SenderMissing
  <2>3. /\ c \in Bridge
        /\ c.st = m.obj[i].st /\ c.uin = m.obj[i].uin /\ c.gate = m.obj[i].gate
        /\ c.pids = m.obj[i].pids /\ c.disposing = m.obj[i].disposing
    BY <2>1, <2>2, HealthMethod
  <2>4. m' = [m EXCEPT !.obj[i] = c] /\ disposal' = disposal /\ bound' = bound
    BY <1>2, <2>1 DEF OnPidReceiveHealthChanged
  <2> HIDE DEF c, i
  <2>5. /\ m' \in Manager /\ m'.threw = FALSE /\ m'.own = m.own /\ m'.bridges = m.bridges
        /\ m'.obj = [m.obj EXCEPT ![i] = c]
    BY <2>1, <2>2, <2>3, <2>4 DEF Manager
  <2>6. \A j \in Bridges : /\ m'.obj[j].st = m.obj[j].st /\ m'.obj[j].uin = m.obj[j].uin
                           /\ m'.obj[j].gate = m.obj[j].gate
                           /\ m'.obj[j].pids = m.obj[j].pids
                           /\ m'.obj[j].disposing = m.obj[j].disposing
    BY <2>1, <2>2, <2>3, <2>5
  <2>7. Owned(m') /\ Current(m') /\ Gated(m') /\ OpenUngated(m')
    BY <2>5, <2>6 DEF IInv, Sound, Owned, Current, Gated, OpenUngated, Active
  <2>8. Alive(m') /\ Peopled(m')
    BY <2>1, <2>5, <2>6 DEF IInv, Sound, Alive, Peopled, Active
  <2>9. TypeOK' /\ MappedWhileLoggedIn'
    BY <2>4, <2>5 DEF IInv, TypeOK, MappedWhileLoggedIn
  <2> QED BY <2>5, <2>7, <2>8, <2>9
          DEF IInv, Sound, Peopled, Owned, Alive, Current, Gated, OpenUngated, Active
<1> QED BY <1>1, <1>2

LEMMA DisposeHolds == ASSUME IInv, Dispose PROVE IInv'
BY DEF IInv, TypeOK, MappedWhileLoggedIn, Dispose, Sound, Peopled, Owned, Alive, Current, Gated,
       OpenUngated, Active

\* disposeSessions: the Bridges in the map are those that hold processes, so
\* with them closed and the maps cleared nothing is attached to anything.
LEMMA DisposeSessionsHolds == ASSUME IInv, DisposeSessions PROVE IInv'
<1> DEFINE held(i) == \E u \in Uins : m.bridges[u] = i
<1>1. /\ m.own \in [Pids -> Uins \cup {NoUin}]
      /\ m.bridges \in [Uins -> Bridges \cup {NoBridge}]
      /\ m.obj \in [Bridges -> Bridge]
      /\ m \in Manager /\ m.threw = FALSE
  BY DEF IInv, Sound, Manager
<1>2. /\ disposal' = "done" /\ bound' = bound
      /\ m'.own = [p \in Pids |-> NoUin]
      /\ m'.bridges = [u \in Uins |-> NoBridge]
      /\ m'.obj = [i \in Bridges |-> IF held(i) THEN BridgeDispose(m.obj[i]) ELSE m.obj[i]]
      /\ m'.threw = FALSE
      /\ m' = [own |-> m'.own, bridges |-> m'.bridges, obj |-> m'.obj, threw |-> FALSE]
  BY <1>1 DEF DisposeSessions, Manager
<1>3. ASSUME NEW i \in Bridges
      PROVE  /\ m'.obj[i] \in Bridge
             /\ m'.obj[i].st = m.obj[i].st /\ m'.obj[i].uin = m.obj[i].uin
             /\ m'.obj[i].gate = m.obj[i].gate
             /\ held(i) => m'.obj[i].pids = {} /\ m'.obj[i].disposing = TRUE
             /\ ~held(i) => m'.obj[i] = m.obj[i]
  <2> DEFINE c == BridgeDispose(m.obj[i])
  <2>1. /\ c \in Bridge /\ c.st = m.obj[i].st /\ c.uin = m.obj[i].uin /\ c.gate = m.obj[i].gate
        /\ c.disposing = TRUE /\ c.pids = {}
    BY <1>1, DisposeMethod
  <2> HIDE DEF c
  <2>2. m'.obj[i] = IF held(i) THEN c ELSE m.obj[i]
    BY <1>2 DEF c
  <2> HIDE DEF held
  <2> QED BY <1>1, <2>1, <2>2
<1>4. m' \in Manager
  <2>1. m'.obj \in [Bridges -> Bridge]
    BY <1>2, <1>3
  <2> QED BY <1>2, <2>1 DEF Manager
<1>5. ASSUME NEW i \in Bridges
      PROVE  m'.obj[i].pids = {}
  <2>1. CASE held(i)
    BY <1>3, <2>1
  <2>2. CASE ~held(i)
    <3>1. m.obj[i].pids = {}
      BY <1>1, <2>2 DEF IInv, Sound, Owned, Bridge
    <3> QED BY <1>3, <2>2, <3>1
  <2> QED BY <2>1, <2>2
<1>6. Owned(m') /\ Alive(m') /\ Peopled(m')
  BY <1>2, <1>5 DEF Owned, Alive, Peopled
<1>7. Current(m')
  <2> SUFFICES ASSUME NEW i \in Bridges, Active(m', i)
               PROVE  m'.obj[i].uin \in Uins /\ m'.obj[i].disposing
    BY DEF Current
  <2>1. Active(m, i)
    BY <1>3 DEF Active
  <2>2. m.obj[i].uin \in Uins /\ (~m.obj[i].disposing => held(i))
    BY <2>1 DEF IInv, Sound, Current
  <2> HIDE DEF held
  <2> QED BY <1>3, <2>2
<1>8. Gated(m') /\ OpenUngated(m')
  BY <1>3, ZenonT(40) DEF IInv, Sound, Gated, OpenUngated, Active
<1>9. TypeOK' /\ MappedWhileLoggedIn'
  BY <1>2, <1>4 DEF IInv, TypeOK, MappedWhileLoggedIn
<1> QED BY <1>2, <1>4, <1>6, <1>7, <1>8, <1>9
        DEF IInv, Sound, Peopled, Owned, Alive, Current, Gated, OpenUngated, Active

\* A database opens only when it waits for nothing.
LEMMA DatabaseOpensHolds ==
    ASSUME IInv, NEW i \in Bridges, NEW ok \in BOOLEAN, DatabaseOpens(i, ok)
    PROVE  IInv'
<1>1. /\ m.own \in [Pids -> Uins \cup {NoUin}]
      /\ m.bridges \in [Uins -> Bridges \cup {NoBridge}]
      /\ m.obj \in [Bridges -> Bridge]
      /\ m \in Manager /\ m.threw = FALSE
  BY DEF IInv, Sound, Manager
<1> DEFINE st == IF ok THEN "open" ELSE "broken"
           c == [m.obj[i] EXCEPT !.st = st]
<1>2. m' = [m EXCEPT !.obj[i] = c] /\ disposal' = disposal /\ bound' = bound
  BY <1>1 DEF DatabaseOpens, Manager
<1>3. st \in {"open", "broken"}
  OBVIOUS
<1> HIDE DEF st
<1>4. /\ c \in Bridge /\ c.st = st /\ c.uin = m.obj[i].uin /\ c.gate = m.obj[i].gate
      /\ c.pids = m.obj[i].pids /\ c.disposing = m.obj[i].disposing
  BY <1>1, <1>3 DEF Bridge
<1> HIDE DEF c
<1>5. /\ m' \in Manager /\ m'.threw = FALSE /\ m'.own = m.own /\ m'.bridges = m.bridges
      /\ m'.obj = [m.obj EXCEPT ![i] = c]
  BY <1>1, <1>2, <1>4 DEF Manager
<1>6. \A j \in Bridges : /\ m'.obj[j].uin = m.obj[j].uin /\ m'.obj[j].gate = m.obj[j].gate
                         /\ m'.obj[j].pids = m.obj[j].pids
                         /\ m'.obj[j].disposing = m.obj[j].disposing
                         /\ m'.obj[j].st = IF j = i THEN st ELSE m.obj[j].st
  BY <1>1, <1>4, <1>5
<1>7. m.obj[i].st = "waiting" /\ m.obj[i].gate = {}
  BY DEF DatabaseOpens
<1>8. \A j \in Bridges : Active(m', j) <=> Active(m, j)
  BY <1>3, <1>6, <1>7 DEF Active
<1>9. Owned(m') /\ Current(m') /\ Gated(m') /\ OpenUngated(m')
  BY <1>5, <1>6, <1>7, <1>8 DEF IInv, Sound, Owned, Current, Gated, OpenUngated
<1>10. Alive(m') /\ Peopled(m')
  BY <1>1, <1>5, <1>6, <1>8 DEF IInv, Sound, Alive, Peopled
<1>11. TypeOK' /\ MappedWhileLoggedIn'
  BY <1>2, <1>5 DEF IInv, TypeOK, MappedWhileLoggedIn
<1> QED BY <1>5, <1>9, <1>10, <1>11
        DEF IInv, Sound, Peopled, Owned, Alive, Current, Gated, OpenUngated, Active

\* The Bridge that settles is not in the map, holds no process and is active
\* no more, so those that waited for it may go on.
LEMMA CloseSettlesHolds ==
    ASSUME IInv, NEW i \in Bridges, NEW ok \in BOOLEAN, CloseSettles(i, ok)
    PROVE  IInv'
<1>1. /\ m.own \in [Pids -> Uins \cup {NoUin}]
      /\ m.bridges \in [Uins -> Bridges \cup {NoBridge}]
      /\ m.obj \in [Bridges -> Bridge]
      /\ m \in Manager /\ m.threw = FALSE
  BY DEF IInv, Sound, Manager
<1>2. m.obj[i].disposing /\ Active(m, i) /\ disposal' = disposal /\ bound' = bound
  BY DEF CloseSettles, Active
<1> DEFINE failed == CloseFailed(m.obj[i])
           after(j) == Released(m.obj[j], i)
<1>3. /\ m'.own = m.own /\ m'.bridges = m.bridges /\ m'.threw = FALSE
      /\ m'.obj = [j \in Bridges |-> IF j = i THEN (IF ok THEN FreeBridge ELSE failed)
                                     ELSE after(j)]
      /\ m' = [own |-> m'.own, bridges |-> m'.bridges, obj |-> m'.obj, threw |-> FALSE]
  BY <1>1 DEF CloseSettles, Manager
<1>4. /\ failed \in Bridge /\ failed.st = "failed" /\ failed.pids = m.obj[i].pids
      /\ FreeBridge \in Bridge /\ FreeBridge.st = "free" /\ FreeBridge.pids = {}
  <2>1. failed \in Bridge /\ failed.st = "failed" /\ failed.pids = m.obj[i].pids
    BY <1>1, FailedMethod
  <2>2. FreeBridge \in Bridge /\ FreeBridge.st = "free" /\ FreeBridge.pids = {}
    BY DEF Bridge, FreeBridge
  <2> QED BY <2>1, <2>2
<1>5. ASSUME NEW j \in Bridges
      PROVE  /\ after(j) \in Bridge /\ after(j).st = m.obj[j].st /\ after(j).uin = m.obj[j].uin
             /\ after(j).gate = m.obj[j].gate \ {i}
             /\ after(j).pids = m.obj[j].pids /\ after(j).disposing = m.obj[j].disposing
  BY <1>1 DEF Bridge, Released
<1> HIDE DEF failed, after
<1>6. ASSUME NEW u \in Uins PROVE m.bridges[u] # i
  BY <1>1, <1>2, BridgeAssumption DEF IInv, Sound, Alive
<1>7. m.obj[i].pids = {}
  BY <1>1, <1>6 DEF IInv, Sound, Owned, Bridge
<1>8. /\ m'.obj[i].st \in {"free", "failed"} /\ m'.obj[i].pids = {}
      /\ \A j \in Bridges \ {i} : m'.obj[j] = after(j)
      /\ m'.obj \in [Bridges -> Bridge]
  BY <1>3, <1>4, <1>5, <1>7
<1>9. m' \in Manager
  BY <1>1, <1>3, <1>8 DEF Manager
<1>10. ~Active(m', i) /\ \A j \in Bridges \ {i} : Active(m', j) <=> Active(m, j)
  BY <1>5, <1>8 DEF Active
<1>11. Owned(m')
  BY <1>1, <1>3, <1>5, <1>6, <1>7, <1>8 DEF IInv, Sound, Owned
<1>12. Alive(m') /\ Peopled(m')
  BY <1>1, <1>3, <1>5, <1>6, <1>8, <1>10 DEF IInv, Sound, Alive, Peopled
<1>13. Current(m')
  BY <1>3, <1>5, <1>8, <1>10 DEF IInv, Sound, Current
<1>14. Gated(m')
  BY <1>5, <1>8, <1>10 DEF IInv, Sound, Gated
<1>15. OpenUngated(m')
  BY <1>5, <1>8 DEF IInv, Sound, OpenUngated
<1>16. TypeOK' /\ MappedWhileLoggedIn'
  BY <1>2, <1>3, <1>9 DEF IInv, TypeOK, MappedWhileLoggedIn
<1> QED BY <1>3, <1>9, <1>11, <1>12, <1>13, <1>14, <1>15, <1>16
        DEF IInv, Sound, Peopled, Owned, Alive, Current, Gated, OpenUngated, Active

-----------------------------------------------------------------------------
(* The theorems.                                                           *)

LEMMA NextHolds == IInv /\ [Next]_vars => IInv'
<1> SUFFICES ASSUME IInv, [Next]_vars PROVE IInv'
  OBVIOUS
<1>1. CASE UNCHANGED vars
  BY <1>1 DEF vars, IInv, TypeOK, MappedWhileLoggedIn, Sound, Peopled, Owned, Alive, Current,
              Gated, OpenUngated, Active
<1>2. CASE \E p \in Pids, u \in Uins : OnHookLogin(p, u)
  BY <1>2, OnHookLoginHolds
<1>3. CASE \E p \in Pids, u \in Uins : OnPacket(p, u)
  BY <1>3, OnPacketHolds
<1>4. CASE \E p \in Pids : OnPidDisconnected(p)
  BY <1>4, OnPidDisconnectedHolds
<1>5. CASE \E p \in Pids, ok \in BOOLEAN : OnPidReceiveHealthChanged(p, ok)
  BY <1>5, OnPidReceiveHealthChangedHolds
<1>6. CASE Dispose
  BY <1>6, DisposeHolds
<1>7. CASE DisposeSessions
  BY <1>7, DisposeSessionsHolds
<1>8. CASE \E i \in Bridges, ok \in BOOLEAN : DatabaseOpens(i, ok)
  BY <1>8, DatabaseOpensHolds
<1>9. CASE \E i \in Bridges, ok \in BOOLEAN : CloseSettles(i, ok)
  BY <1>9, CloseSettlesHolds
<1> QED BY <1>1, <1>2, <1>3, <1>4, <1>5, <1>6, <1>7, <1>8, <1>9 DEF Next

\* The inductive invariant holds in every behaviour of the manager.
THEOREM Invariance == Spec => []IInv
BY InitHolds, NextHolds, PTL DEF Spec

\* The manager's state has its type.
THEOREM TypeCorrect == Spec => []TypeOK
<1>1. IInv => TypeOK
  BY DEF IInv
<1> QED BY <1>1, Invariance, PTL

\* "A PID can never remain attached to two Bridges": the mapping of processes
\* to accounts and the Bridges' connections agree.
THEOREM OwnershipCorrect == Spec => []PidOwnership
<1>1. IInv => PidOwnership
  BY DEF IInv, Sound, Owned, PidOwnership
<1> QED BY <1>1, Invariance, PTL

\* No "BridgeManager invariant violated" error is thrown.
THEOREM AssertionsHold == Spec => []NoInvariantThrown
<1>1. IInv => NoInvariantThrown
  BY DEF IInv, Sound, NoInvariantThrown
<1> QED BY <1>1, Invariance, PTL

\* Every Bridge in the map is alive, carries its account and holds a process.
THEOREM MapIsLive == Spec => []BridgesAreAttached
<1>1. IInv => BridgesAreAttached
  BY DEF IInv, Sound, Alive, Peopled, BridgesAreAttached
<1> QED BY <1>1, Invariance, PTL

\* A process is mapped exactly while its session is logged in, until disposal.
THEOREM MappingFollowsLogin == Spec => []MappedWhileLoggedIn
<1>1. IInv => MappedWhileLoggedIn
  BY DEF IInv
<1> QED BY <1>1, Invariance, PTL

\* An account's identity database is open in at most one Bridge.
THEOREM DatabaseExclusive == Spec => []ExclusiveDatabase
<1>1. IInv => ExclusiveDatabase
  BY DEF IInv, Sound, Gated, OpenUngated, Active, ExclusiveDatabase
<1> QED BY <1>1, Invariance, PTL
=============================================================================
