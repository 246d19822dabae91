----------------------- MODULE SingleFlightCacheProofs -----------------------
(***************************************************************************)
(* Proofs about SingleFlightCache, for any keys, any number of loads, any  *)
(* TTL and any limit of the timer.                                         *)
(*                                                                         *)
(* The inductive invariant has one part for the map of entries and its     *)
(* timer, and one for the map of pending loads; each is stated over values *)
(* of those variables, so that a lemma can speak of the ones a step leaves *)
(* behind.                                                                 *)
(***************************************************************************)
EXTENDS SingleFlightCache, SequenceTheorems, TLAPS

\* What is kept of a map, its timer and the clock.  The entries' times are
\* past, so that what is appended is the youngest.
Kept(map, due, time) ==
    /\ map \in Seq(Entry) /\ due \in Nat
    /\ \A i \in DOMAIN map : ~map[i].stale /\ map[i].at <= time
    /\ \A i, j \in DOMAIN map : i < j => map[i].at <= map[j].at /\ map[i].key # map[j].key
    /\ map # <<>> => due # NoTimer /\ due <= map[1].at + TTL

\* What is kept of the slots and the loads.  A load that is not out of date is the one in
\* its key's slot, so that a second one cannot have started.
Slots(slot, load) ==
    /\ slot \in [Keys -> Tasks \cup {NoTask}]
    /\ load \in [Tasks -> Task]
    /\ \A k \in Keys : slot[k] # NoTask =>
         load[slot[k]].st # "free" /\ load[slot[k]].key = k /\ ~load[slot[k]].stale
    /\ \A t \in Tasks : load[t].st # "free" /\ ~load[t].stale => slot[load[t].key] = t

\* An empty map has no timer, so that its first entry gets one of its own.
IdleTimer == fresh = <<>> => timerDue = NoTimer

IInv ==
    /\ now \in Nat /\ disposed \in BOOLEAN
    /\ Kept(fresh, timerDue, now)
    /\ Slots(inflight, task)
    /\ DisposedIsEmpty /\ IdleTimer

\* Where the entries of `fresh` go when the one at position n is deleted.
Source(i, n) == IF i < n THEN i ELSE i + 1

-----------------------------------------------------------------------------
(* The map.                                                                *)

\* Deleting position n from a sequence keeps the others in their order.
LEMMA Deletion ==
    ASSUME NEW S, NEW q \in Seq(S), NEW n \in 1..Len(q)
    PROVE  LET r == SubSeq(q, 1, n - 1) \o SubSeq(q, n + 1, Len(q))
           IN  /\ r \in Seq(S)
               /\ Len(r) = Len(q) - 1
               /\ \A i \in 1..Len(r) : r[i] = q[Source(i, n)]
<1> DEFINE a == SubSeq(q, 1, n - 1)
           b == SubSeq(q, n + 1, Len(q))
<1>1. a \in Seq(S) /\ Len(a) = n - 1 /\ \A i \in 1..(n - 1) : a[i] = q[i]
  OBVIOUS
<1>2. b \in Seq(S) /\ Len(b) = Len(q) - n /\ \A i \in 1..(Len(q) - n) : b[i] = q[n + i]
  <2>1. b \in Seq(S)
    OBVIOUS
  <2>2. Len(b) = Len(q) - n
    OBVIOUS
  <2>3. \A i \in 1..(Len(q) - n) : b[i] = q[n + i]
    OBVIOUS
  <2> HIDE DEF b
  <2> QED BY <2>1, <2>2, <2>3
<1> HIDE DEF a, b
<1>3. a \o b \in Seq(S) /\ Len(a \o b) = Len(q) - 1
  <2>1. a \o b \in Seq(S) /\ Len(a \o b) = Len(a) + Len(b)
    BY <1>1, <1>2, ConcatProperties
  <2>2. Len(q) \in Nat /\ n \in Nat
    OBVIOUS
  <2>3. Len(a \o b) = Len(q) - 1
    BY <1>1, <1>2, <2>1, <2>2
  <2> QED BY <2>1, <2>3
<1>4. ASSUME NEW i \in 1..(Len(q) - 1)
      PROVE  (a \o b)[i] = q[Source(i, n)]
  <2>1. CASE i < n
    BY <1>1, <1>2, <2>1 DEF Source
  <2>2. CASE ~(i < n)
    <3>1. (a \o b)[i] = b[i - (n - 1)] /\ i - (n - 1) \in 1..(Len(q) - n)
      BY <1>1, <1>2, <2>2
    <3> QED BY <1>2, <2>2, <3>1 DEF Source
  <2> QED BY <2>1, <2>2
<1> QED BY <1>3, <1>4 DEF a, b

\* Deleting the first n leaves the rest.
LEMMA Dropping ==
    ASSUME NEW S, NEW q \in Seq(S), NEW n \in 0..Len(q)
    PROVE  LET r == SubSeq(q, n + 1, Len(q))
           IN  /\ r \in Seq(S)
               /\ Len(r) = Len(q) - n
               /\ \A i \in 1..(Len(q) - n) : r[i] = q[n + i]
<1> DEFINE r == SubSeq(q, n + 1, Len(q))
<1>1. n + 1 \in 1..(Len(q) + 1) /\ Len(q) \in Nat /\ n \in Nat
  OBVIOUS
<1>2. r \in Seq(S)
  BY <1>1
<1>3. Len(r) = Len(q) - n
  <2>1. CASE n = Len(q)
    BY <1>1, <2>1
  <2>2. CASE n < Len(q)
    BY <1>1, <2>2
  <2> QED BY <1>1, <2>1, <2>2
<1>4. \A i \in 1..(Len(q) - n) : r[i] = q[n + i]
  OBVIOUS
<1> HIDE DEF r
<1>5. r \in Seq(S) /\ Len(r) = Len(q) - n /\ \A i \in 1..(Len(q) - n) : r[i] = q[n + i]
  BY <1>2, <1>3, <1>4
<1> QED BY <1>5 DEF r

\* fresh.delete(key): the other entries stay, in their order, and none of
\* them has the key.
LEMMA Deleting ==
    ASSUME IInv, NEW k \in Keys
    PROVE  LET r == Without(k)
               at(i) == IF Cached(k) THEN Source(i, IndexOf(k)) ELSE i
           IN  /\ r \in Seq(Entry)
               /\ \A i \in DOMAIN r : at(i) \in DOMAIN fresh /\ r[i] = fresh[at(i)]
               /\ \A i, j \in DOMAIN r : i < j => at(i) < at(j)
               /\ \A i \in DOMAIN r : r[i].key # k
               /\ r # <<>> => fresh # <<>>
<1>1. fresh \in Seq(Entry) /\ DOMAIN fresh = 1..Len(fresh) /\ Len(fresh) \in Nat
  BY DEF IInv, Kept
<1>2. CASE ~Cached(k)
  <2>1. Without(k) = fresh
    BY <1>2 DEF Without
  <2>2. \A i \in DOMAIN fresh : fresh[i].key # k
    BY <1>2 DEF Cached
  <2> QED BY <1>1, <1>2, <2>1, <2>2
<1>3. CASE Cached(k)
  <2> DEFINE n == IndexOf(k)
             r == SubSeq(fresh, 1, n - 1) \o SubSeq(fresh, n + 1, Len(fresh))
  <2>1. n \in 1..Len(fresh) /\ fresh[n].key = k
    BY <1>1, <1>3 DEF Cached, IndexOf
  <2>2. Without(k) = r
    BY <1>3 DEF Without
  <2> HIDE DEF n
  <2>3. /\ r \in Seq(Entry)
        /\ Len(r) = Len(fresh) - 1
        /\ \A i \in 1..Len(r) : r[i] = fresh[Source(i, n)]
    BY <1>1, <2>1, Deletion
  <2> HIDE DEF r
  <2>4. DOMAIN r = 1..(Len(fresh) - 1)
    BY <2>3
  <2>5. \A i \in DOMAIN r : Source(i, n) \in DOMAIN fresh /\ Source(i, n) # n
    BY <1>1, <2>1, <2>4 DEF Source
  <2>6. \A i, j \in DOMAIN r : i < j => Source(i, n) < Source(j, n)
    BY <1>1, <2>1, <2>4 DEF Source
  <2>7. \A i \in DOMAIN r : r[i].key # k
    <3> SUFFICES ASSUME NEW i \in DOMAIN r PROVE fresh[Source(i, n)].key # k
      BY <2>3, <2>4
    <3>1. Source(i, n) \in DOMAIN fresh /\ (Source(i, n) < n \/ n < Source(i, n))
      BY <1>1, <2>1, <2>4, <2>5 DEF Source
    <3> QED BY <1>1, <2>1, <3>1 DEF IInv, Kept
  <2>8. fresh # <<>>
    BY <1>1, <2>1
  <2> QED BY <1>3, <2>2, <2>3, <2>4, <2>5, <2>6, <2>7, <2>8 DEF n
<1> QED BY <1>2, <1>3

\* The rest of the map is kept as the whole was.
LEMMA DeletingKept ==
    ASSUME IInv, NEW k \in Keys
    PROVE  /\ Kept(Without(k), timerDue, now)
           /\ Kept(Without(k), CancelExpiryIfEmpty(Without(k)), now)
<1> DEFINE r == Without(k)
           at(i) == IF Cached(k) THEN Source(i, IndexOf(k)) ELSE i
<1>1. /\ r \in Seq(Entry)
      /\ \A i \in DOMAIN r : at(i) \in DOMAIN fresh /\ r[i] = fresh[at(i)]
      /\ \A i, j \in DOMAIN r : i < j => at(i) < at(j)
      /\ r # <<>> => fresh # <<>>
  BY Deleting
<1> HIDE DEF r, at
<1>2. Kept(fresh, timerDue, now) /\ now \in Nat /\ TTL \in Nat
  BY CacheAssumption DEF IInv
<1>3. \A i \in DOMAIN r : ~r[i].stale /\ r[i].at <= now
  BY <1>1, <1>2 DEF Kept
<1>4. \A i, j \in DOMAIN r : i < j => r[i].at <= r[j].at /\ r[i].key # r[j].key
  BY <1>1, <1>2 DEF Kept
<1>5. ASSUME r # <<>>
      PROVE  timerDue # NoTimer /\ timerDue <= r[1].at + TTL
  <2>1. 1 \in DOMAIN r /\ 1 \in DOMAIN fresh /\ fresh # <<>>
    BY <1>1, <1>2, <1>5 DEF Kept
  <2>2. /\ at(1) \in DOMAIN fresh /\ r[1] = fresh[at(1)] /\ DOMAIN fresh = 1..Len(fresh)
        /\ Len(fresh) \in Nat
    BY <1>1, <1>2, <2>1 DEF Kept
  <2>3. fresh[1].at \in Nat /\ fresh[at(1)].at \in Nat /\ timerDue \in Nat
    <3>1. fresh[1] \in Entry /\ fresh[at(1)] \in Entry /\ timerDue \in Nat
      BY <1>2, <2>1, <2>2 DEF Kept
    <3> QED BY <3>1 DEF Entry
  <2>4. fresh[1].at <= fresh[at(1)].at
    <3>1. CASE at(1) = 1
      BY <2>3, <3>1
    <3>2. CASE at(1) # 1
      BY <1>2, <2>1, <2>2, <3>2 DEF Kept
    <3> QED BY <3>1, <3>2
  <2> QED BY <1>2, <2>1, <2>2, <2>3, <2>4 DEF Kept
<1>6. Kept(r, timerDue, now)
  BY <1>1, <1>2, <1>3, <1>4, <1>5 DEF Kept
<1>7. Kept(r, CancelExpiryIfEmpty(r), now)
  <2>1. CASE r = <<>>
    BY <1>6, <2>1 DEF Kept, CancelExpiryIfEmpty, NoTimer
  <2>2. CASE r # <<>>
    BY <1>6, <2>2 DEF CancelExpiryIfEmpty
  <2> QED BY <2>1, <2>2
<1> QED BY <1>6, <1>7 DEF r

\* scheduleExpiry: a new timer is due no later than the first entry expires.
LEMMA Scheduling ==
    ASSUME IInv, NEW map \in Seq(Entry), map # <<>>, now < map[1].at + TTL
    PROVE  LET due == ScheduleExpiry(map, NoTimer)
           IN  due \in Nat /\ due # NoTimer /\ due <= map[1].at + TTL
<1>1. /\ now \in Nat /\ TTL \in Nat /\ MaxDelay \in Nat /\ MaxDelay # 0
      /\ map[1].at \in Nat
  <2>1. map[1] \in Entry
    OBVIOUS
  <2> QED BY <2>1, CacheAssumption DEF IInv, Entry
<1> QED BY <1>1 DEF ScheduleExpiry, Least, Greatest, NoTimer

\* An entry stored now goes to the end of the map, where the youngest belongs.
LEMMA StoringKept ==
    ASSUME IInv, NEW k \in Keys, TTL > 0
    PROVE  LET map == Append(Without(k), [key |-> k, at |-> now, stale |-> FALSE])
           IN  Kept(map, ScheduleExpiry(map, timerDue), now)
<1> DEFINE r == Without(k)
           e == [key |-> k, at |-> now, stale |-> FALSE]
           map == Append(r, e)
           due == ScheduleExpiry(map, timerDue)
<1>1. Kept(r, timerDue, now) /\ (r # <<>> => fresh # <<>>) /\ \A i \in DOMAIN r : r[i].key # k
  BY DeletingKept, Deleting
<1>2. now \in Nat /\ TTL \in Nat /\ e \in Entry /\ Kept(fresh, timerDue, now)
  BY CacheAssumption DEF IInv, Entry
<1> HIDE DEF r
<1>3. e.key = k /\ e.at = now /\ e.stale = FALSE
  OBVIOUS
<1> HIDE DEF e
<1>4. r \in Seq(Entry) /\ DOMAIN r = 1..Len(r) /\ Len(r) \in Nat
  BY <1>1 DEF Kept
<1>5. /\ map \in Seq(Entry) /\ map # <<>> /\ Len(map) = Len(r) + 1
      /\ \A i \in 1..Len(r) : map[i] = r[i]
      /\ map[Len(r) + 1] = e
  BY <1>2, <1>4, AppendProperties
<1> HIDE DEF map
<1>6. DOMAIN map = 1..(Len(r) + 1)
  BY <1>5
<1>7. \A i \in DOMAIN map : ~map[i].stale /\ map[i].at <= now
  BY <1>1, <1>2, <1>3, <1>4, <1>5, <1>6 DEF Kept
<1>8. \A i, j \in DOMAIN map : i < j => map[i].at <= map[j].at /\ map[i].key # map[j].key
  <2> SUFFICES ASSUME NEW i \in DOMAIN map, NEW j \in DOMAIN map, i < j
               PROVE  map[i].at <= map[j].at /\ map[i].key # map[j].key
    OBVIOUS
  <2>1. i \in DOMAIN r /\ map[i] = r[i]
    BY <1>4, <1>5, <1>6
  <2>2. CASE j = Len(r) + 1
    BY <1>1, <1>3, <1>5, <2>1, <2>2 DEF Kept
  <2>3. CASE j # Len(r) + 1
    <3>1. j \in DOMAIN r /\ map[j] = r[j]
      BY <1>4, <1>5, <1>6, <2>3
    <3> QED BY <1>1, <2>1, <3>1 DEF Kept
  <2> QED BY <2>2, <2>3
<1>9. due \in Nat /\ due # NoTimer /\ due <= map[1].at + TTL
  <2>1. CASE timerDue # NoTimer
    <3>1. due = timerDue
      BY <2>1 DEF ScheduleExpiry
    <3>2. timerDue \in Nat
      BY <1>1 DEF Kept
    <3>3. timerDue <= map[1].at + TTL
      <4>1. CASE r # <<>>
        BY <1>1, <1>4, <1>5, <4>1 DEF Kept
      <4>2. CASE r = <<>>
        <5>1. fresh # <<>> /\ fresh \in Seq(Entry) /\ 1 \in DOMAIN fresh
          BY <1>2, <2>1 DEF IInv, IdleTimer, Kept
        <5>2. fresh[1] \in Entry
          BY <5>1
        <5>3. fresh[1].at \in Nat /\ fresh[1].at <= now /\ timerDue <= fresh[1].at + TTL
          BY <1>2, <5>1, <5>2 DEF Kept, Entry
        <5>4. map[1].at = now
          BY <1>3, <1>4, <1>5, <4>2
        <5> QED BY <1>2, <3>2, <5>3, <5>4
      <4> QED BY <4>1, <4>2
    <3> QED BY <2>1, <3>1, <3>2, <3>3
  <2>2. CASE timerDue = NoTimer
    <3>1. r = <<>> /\ map[1] = e
      BY <1>1, <1>4, <1>5, <2>2 DEF Kept
    <3>2. now < map[1].at + TTL
      BY <1>2, <1>3, <3>1
    <3> QED BY <1>5, <2>2, <3>2, Scheduling
  <2> QED BY <2>1, <2>2
<1> HIDE DEF due
<1>10. Kept(map, due, now)
  BY <1>5, <1>7, <1>8, <1>9 DEF Kept
<1> QED BY <1>10 DEF due, map, r, e

\* The expiry timer's callback: what has not expired is kept, and a timer set
\* for its first entry.
LEMMA ExpiringKept ==
    ASSUME IInv, NEW n \in 0..Len(fresh),
           n < Len(fresh) => ~Expired(fresh[n + 1])
    PROVE  LET map == SubSeq(fresh, n + 1, Len(fresh))
           IN  /\ Kept(map, ScheduleExpiry(map, NoTimer), now)
               /\ map = <<>> => ScheduleExpiry(map, NoTimer) = NoTimer
<1> DEFINE map == SubSeq(fresh, n + 1, Len(fresh))
           due == ScheduleExpiry(map, NoTimer)
<1>1. fresh \in Seq(Entry) /\ DOMAIN fresh = 1..Len(fresh) /\ Len(fresh) \in Nat /\ n \in Nat
  BY DEF IInv, Kept
<1>2. /\ map \in Seq(Entry) /\ Len(map) = Len(fresh) - n
      /\ \A i \in 1..(Len(fresh) - n) : map[i] = fresh[n + i]
  BY <1>1, Dropping
<1> HIDE DEF map
<1>4. DOMAIN map = 1..(Len(fresh) - n)
  BY <1>2
<1>5. \A i \in DOMAIN map : n + i \in DOMAIN fresh /\ map[i] = fresh[n + i]
  BY <1>1, <1>2, <1>4
<1>6. \A i \in DOMAIN map : ~map[i].stale /\ map[i].at <= now
  BY <1>5 DEF IInv, Kept
<1>7. \A i, j \in DOMAIN map : i < j => map[i].at <= map[j].at /\ map[i].key # map[j].key
  <2> SUFFICES ASSUME NEW i \in DOMAIN map, NEW j \in DOMAIN map, i < j
               PROVE  map[i].at <= map[j].at /\ map[i].key # map[j].key
    OBVIOUS
  <2>1. n + i < n + j
    BY <1>1, <1>4
  <2> QED BY <1>5, <2>1 DEF IInv, Kept
<1>8. CASE map = <<>>
  <2>1. due = NoTimer
    BY <1>8 DEF ScheduleExpiry
  <2>2. due \in Nat
    BY <2>1 DEF NoTimer
  <2> HIDE DEF due
  <2>3. Kept(map, due, now)
    BY <1>2, <1>6, <1>7, <1>8, <2>2 DEF Kept
  <2> QED BY <2>1, <2>3 DEF due, map
<1>9. CASE map # <<>>
  <2>1. 1 \in DOMAIN map /\ n < Len(fresh)
    BY <1>1, <1>2, <1>4, <1>9
  <2>2. map[1] = fresh[n + 1] /\ map[1] \in Entry
    BY <1>2, <1>5, <2>1
  <2>3. now < map[1].at + TTL
    <3>1. ~(now - map[1].at >= TTL)
      BY <2>1, <2>2 DEF Expired
    <3>2. map[1].at \in Nat /\ now \in Nat /\ TTL \in Nat
      BY <2>2, CacheAssumption DEF Entry, IInv
    <3> QED BY <3>1, <3>2
  <2>4. due \in Nat /\ due # NoTimer /\ due <= map[1].at + TTL
    BY <1>2, <1>9, <2>3, Scheduling
  <2> HIDE DEF due
  <2>5. Kept(map, due, now)
    BY <1>2, <1>6, <1>7, <2>4 DEF Kept
  <2> QED BY <1>9, <2>5 DEF due, map
<1> QED BY <1>8, <1>9

-----------------------------------------------------------------------------
(* The slots.                                                              *)

\* A load is started only for a key whose slot is empty.
LEMMA Starting ==
    ASSUME Slots(inflight, task), NEW k \in Keys, inflight[k] = NoTask,
           NEW t \in Tasks, task[t].st = "free"
    PROVE  Slots([inflight EXCEPT ![k] = t],
                 [task EXCEPT ![t] = [st |-> "loading", key |-> k, stale |-> FALSE]])
<1> DEFINE e == [st |-> "loading", key |-> k, stale |-> FALSE]
           slot == [inflight EXCEPT ![k] = t]
           load == [task EXCEPT ![t] = e]
<1>1. e \in Task /\ e.st = "loading" /\ e.key = k /\ e.stale = FALSE
  BY DEF Task, TaskState
<1> HIDE DEF e
<1>2. /\ slot \in [Keys -> Tasks \cup {NoTask}] /\ load \in [Tasks -> Task]
      /\ slot[k] = t /\ \A j \in Keys : j # k => slot[j] = inflight[j]
      /\ load[t] = e /\ \A u \in Tasks : u # t => load[u] = task[u]
  BY <1>1 DEF Slots
<1> HIDE DEF slot, load
<1>3. NoTask \notin Tasks /\ \A u \in Tasks : task[u].key \in Keys
  BY CacheAssumption DEF Slots, Task
<1>4. Slots(slot, load)
  BY <1>1, <1>2, <1>3 DEF Slots
<1> QED BY <1>4 DEF slot, load, e

\* this.load comes back: the load keeps its key, its slot and its history.
LEMMA Settling ==
    ASSUME Slots(inflight, task), NEW t \in Tasks, task[t].st = "loading"
    PROVE  Slots(inflight, [task EXCEPT ![t].st = "settling"])
<1> DEFINE load == [task EXCEPT ![t].st = "settling"]
<1>1. load \in [Tasks -> Task]
  BY DEF Slots, Task, TaskState
<1>2. \A u \in Tasks : /\ load[u].st = "free" <=> task[u].st = "free"
                       /\ load[u].key = task[u].key /\ load[u].stale = task[u].stale
  BY DEF Slots, Task
<1> HIDE DEF load
<1>3. Slots(inflight, load)
  BY <1>1, <1>2 DEF Slots
<1> QED BY <1>3 DEF load

\* `.finally` frees the load and no slot but its own.
LEMMA Freeing ==
    ASSUME Slots(inflight, task), NEW t \in Tasks, task[t].st = "settling"
    PROVE  Slots([k \in Keys |->
                    IF k = task[t].key /\ inflight[k] = t THEN NoTask ELSE inflight[k]],
                 [task EXCEPT ![t] = FreeTask])
<1> DEFINE slot == [k \in Keys |->
                      IF k = task[t].key /\ inflight[k] = t THEN NoTask ELSE inflight[k]]
           load == [task EXCEPT ![t] = FreeTask]
<1>1. FreeTask \in Task /\ FreeTask.st = "free"
  BY CacheAssumption DEF FreeTask, Task, TaskState
<1>2. /\ slot \in [Keys -> Tasks \cup {NoTask}] /\ load \in [Tasks -> Task]
      /\ \A k \in Keys : slot[k] = IF k = task[t].key /\ inflight[k] = t
                                     THEN NoTask ELSE inflight[k]
      /\ load[t] = FreeTask /\ \A u \in Tasks : u # t => load[u] = task[u]
  BY <1>1 DEF Slots
<1> HIDE DEF slot, load
<1>3. NoTask \notin Tasks /\ \A u \in Tasks : task[u].key \in Keys
  BY CacheAssumption DEF Slots, Task
<1>4. ASSUME NEW k \in Keys PROVE slot[k] # t
  <2>1. CASE inflight[k] = t
    <3>1. task[t].key = k
      BY <1>3, <2>1 DEF Slots
    <3> QED BY <1>2, <1>3, <2>1, <3>1
  <2>2. CASE inflight[k] # t
    BY <1>2, <1>3, <2>2
  <2> QED BY <2>1, <2>2
<1>5. Slots(slot, load)
  BY <1>1, <1>2, <1>3, <1>4 DEF Slots
<1> QED BY <1>5 DEF slot, load

\* Invalidation empties the slots of the keys and outdates their loads.
LEMMA Outdating ==
    ASSUME Slots(inflight, task), NEW ks \in SUBSET Keys,
           NEW slot \in [Keys -> Tasks \cup {NoTask}],
           \A k \in Keys : slot[k] = IF k \in ks THEN NoTask ELSE inflight[k]
    PROVE  Slots(slot, Outdate(ks))
<1> DEFINE load == Outdate(ks)
<1>1. load \in [Tasks -> Task]
  <2>1. ASSUME NEW u \in Tasks PROVE task[u] \in Task /\ [task[u] EXCEPT !.stale = TRUE] \in Task
    <3>1. task[u] \in Task
      BY DEF Slots
    <3> QED BY <3>1 DEF Task
  <2> QED BY <2>1 DEF Outdate
<1>2. \A u \in Tasks :
        /\ load[u].st = task[u].st /\ load[u].key = task[u].key
        /\ task[u].st # "free" /\ ~load[u].stale => task[u].key \notin ks /\ ~task[u].stale
        /\ task[u].key \notin ks => load[u] = task[u]
  <2>1. \A u \in Tasks : task[u] \in Task
    BY DEF Slots
  <2> QED BY <2>1 DEF Outdate, Task
<1> HIDE DEF load
<1>3. NoTask \notin Tasks /\ \A u \in Tasks : task[u].key \in Keys
  BY CacheAssumption DEF Slots, Task
<1>4. ASSUME NEW k \in Keys, slot[k] # NoTask
      PROVE  load[slot[k]].st # "free" /\ load[slot[k]].key = k /\ ~load[slot[k]].stale
  <2>1. slot[k] = inflight[k] /\ k \notin ks /\ inflight[k] \in Tasks
    BY <1>4 DEF Slots
  <2>2. task[slot[k]].st # "free" /\ task[slot[k]].key = k /\ ~task[slot[k]].stale
    BY <2>1, <1>4 DEF Slots
  <2> QED BY <1>2, <2>1, <2>2
<1>5. ASSUME NEW u \in Tasks, load[u].st # "free", ~load[u].stale
      PROVE  slot[load[u].key] = u
  <2>1. task[u].st # "free" /\ ~task[u].stale /\ task[u].key \notin ks /\ load[u].key = task[u].key
    BY <1>2, <1>5
  <2> QED BY <1>3, <2>1 DEF Slots
<1>6. Slots(slot, load)
  BY <1>1, <1>4, <1>5 DEF Slots
<1> QED BY <1>6 DEF load

\* No entry, no timer.
LEMMA EmptyKept == ASSUME NEW time \in Nat PROVE Kept(<<>>, NoTimer, time)
  BY DEF Kept, NoTimer

-----------------------------------------------------------------------------
(* The steps.                                                              *)

LEMMA InitHolds == Init => IInv
<1> SUFFICES ASSUME Init PROVE IInv
  OBVIOUS
<1>1. FreeTask \in Task /\ FreeTask.st = "free"
  BY CacheAssumption DEF FreeTask, Task, TaskState
<1>2. Slots(inflight, task)
  BY <1>1 DEF Init, Slots
<1>3. Kept(fresh, timerDue, now)
  BY EmptyKept DEF Init
<1> QED BY <1>2, <1>3 DEF Init, IInv, DisposedIsEmpty, IdleTimer

\* get: what it drops had expired, and a load it starts finds the slot empty.
LEMMA GetHolds ==
    ASSUME IInv, NEW k \in Keys, NEW force \in BOOLEAN, Get(k, force)
    PROVE  IInv'
<1>1. Kept(fresh, timerDue, now)'
  <2>1. \/ fresh' = fresh /\ timerDue' = timerDue
        \/ fresh' = Without(k) /\ timerDue' = CancelExpiryIfEmpty(Without(k))
    BY DEF Get
  <2>2. now' = now /\ Kept(fresh, timerDue, now)
    BY DEF Get, IInv
  <2> QED BY <2>1, <2>2, DeletingKept
<1>2. Slots(inflight, task)'
  <2>0. Slots(inflight, task)
    BY DEF IInv
  <2>1. CASE UNCHANGED <<inflight, task>>
    BY <2>0, <2>1
  <2>2. CASE ~UNCHANGED <<inflight, task>>
    <3>1. PICK t \in Tasks :
            /\ inflight[k] = NoTask /\ task[t].st = "free"
            /\ task' = [task EXCEPT ![t] = [st |-> "loading", key |-> k, stale |-> FALSE]]
            /\ inflight' = [inflight EXCEPT ![k] = t]
      BY <2>2 DEF Get
    <3> QED BY <2>0, <3>1, Starting
  <2> QED BY <2>1, <2>2
<1>3. ~disposed' /\ now' \in Nat /\ disposed' \in BOOLEAN
  BY DEF Get, IInv
<1>4. IdleTimer'
  BY DEF Get, IInv, IdleTimer, CancelExpiryIfEmpty
<1> QED BY <1>1, <1>2, <1>3, <1>4 DEF IInv, DisposedIsEmpty

\* A load's answer is stored only from the key's slot, so it is up to date
\* and the cache is not disposed.
LEMMA LoadResolvedHolds ==
    ASSUME IInv, NEW t \in Tasks, NEW cacheable \in BOOLEAN, LoadResolved(t, cacheable)
    PROVE  IInv'
<1> DEFINE k == task[t].key
           stores == inflight[k] = t /\ TTL > 0 /\ cacheable
           e == [key |-> k, at |-> now, stale |-> task[t].stale]
<1>1. Slots(inflight, task) /\ Kept(fresh, timerDue, now) /\ NoTask \notin Tasks
  BY CacheAssumption DEF IInv
<1>2. k \in Keys /\ task[t].stale \in BOOLEAN
  BY <1>1 DEF Slots, Task
<1>3. Slots(inflight, task)'
  BY <1>1, Settling DEF LoadResolved
<1>4. CASE stores
  <2>1. ~task[t].stale
    BY <1>1, <1>2, <1>4 DEF Slots
  <2>2. e = [key |-> k, at |-> now, stale |-> FALSE]
    BY <1>2, <2>1
  <2>3. /\ fresh' = Append(Without(k), e)
        /\ timerDue' = ScheduleExpiry(Append(Without(k), e), timerDue)
        /\ now' = now /\ disposed' = disposed
    BY <1>4 DEF LoadResolved
  <2>4. Kept(fresh', timerDue', now')
    BY <1>2, <1>4, <2>2, <2>3, StoringKept
  <2>5. ~disposed
    BY <1>1, <1>2, <1>4 DEF IInv, DisposedIsEmpty
  <2>6. fresh' # <<>>
    <3>1. Without(k) \in Seq(Entry)
      BY <1>2, Deleting
    <3> QED BY <2>3, <3>1
  <2> QED BY <1>3, <2>3, <2>4, <2>5, <2>6 DEF IInv, DisposedIsEmpty, IdleTimer
<1>5. CASE ~stores
  <2>1. UNCHANGED <<fresh, timerDue, now, disposed, inflight>>
    BY <1>5 DEF LoadResolved
  <2> QED BY <1>3, <2>1 DEF IInv, DisposedIsEmpty, IdleTimer
<1> QED BY <1>4, <1>5

LEMMA LoadRejectedHolds ==
    ASSUME IInv, NEW t \in Tasks, LoadRejected(t)
    PROVE  IInv'
<1>1. Slots(inflight, task)'
  BY Settling DEF LoadRejected, IInv
<1> QED BY <1>1 DEF LoadRejected, IInv, DisposedIsEmpty, IdleTimer

LEMMA FinallyHolds ==
    ASSUME IInv, NEW t \in Tasks, Finally(t)
    PROVE  IInv'
<1>1. Slots(inflight, task)'
  BY Freeing DEF Finally, IInv
<1>2. DisposedIsEmpty'
  BY DEF Finally, IInv, DisposedIsEmpty
<1> QED BY <1>1, <1>2 DEF Finally, IInv, IdleTimer

LEMMA InvalidateHolds ==
    ASSUME IInv, NEW k \in Keys, Invalidate(k)
    PROVE  IInv'
<1>1. /\ inflight' \in [Keys -> Tasks \cup {NoTask}]
      /\ \A j \in Keys : inflight'[j] = IF j \in {k} THEN NoTask ELSE inflight[j]
  BY DEF Invalidate, IInv, Slots
<1>2. Slots(inflight', task')
  <2>1. Slots(inflight, task) /\ task' = Outdate({k})
    BY DEF Invalidate, IInv
  <2>2. Slots(inflight', Outdate({k}))
    BY <1>1, <2>1, Outdating
  <2> QED BY <2>1, <2>2
<1>3. Kept(fresh', timerDue', now')
  BY DeletingKept DEF Invalidate
<1>4. IdleTimer'
  BY DEF Invalidate, IdleTimer, CancelExpiryIfEmpty
<1>5. ASSUME disposed
      PROVE  fresh' = <<>> /\ timerDue' = NoTimer /\ \A j \in Keys : inflight'[j] = NoTask
  <2>1. fresh = <<>> /\ \A j \in Keys : inflight[j] = NoTask
    BY <1>5 DEF IInv, DisposedIsEmpty
  <2>2. Without(k) = <<>>
    BY <2>1 DEF Without, Cached
  <2> QED BY <1>1, <2>1, <2>2 DEF Invalidate, CancelExpiryIfEmpty
<1> QED BY <1>2, <1>3, <1>4, <1>5 DEF Invalidate, IInv, DisposedIsEmpty

\* clear and dispose leave nothing.
LEMMA EmptiedHolds ==
    ASSUME IInv, Clear \/ Dispose
    PROVE  IInv'
<1>1. /\ fresh' = <<>> /\ timerDue' = NoTimer /\ now' = now /\ disposed' \in BOOLEAN
      /\ inflight' = [k \in Keys |-> NoTask] /\ task' = Outdate(Keys)
  BY DEF Clear, Dispose, CancelExpiryIfEmpty, IInv
<1>2. Slots(inflight', task')
  <2>1. Slots(inflight, task)
    BY DEF IInv
  <2>2. /\ inflight' \in [Keys -> Tasks \cup {NoTask}]
        /\ \A k \in Keys : inflight'[k] = IF k \in Keys THEN NoTask ELSE inflight[k]
    BY <1>1
  <2>3. Slots(inflight', Outdate(Keys))
    BY <2>1, <2>2, Outdating
  <2> QED BY <1>1, <2>3
<1>3. Kept(fresh', timerDue', now')
  BY <1>1, EmptyKept DEF IInv
<1> QED BY <1>1, <1>2, <1>3 DEF IInv, DisposedIsEmpty, IdleTimer

LEMMA TickHolds == ASSUME IInv, Tick PROVE IInv'
<1>1. \A i \in DOMAIN fresh : fresh[i].at \in Nat
  <2>1. \A i \in DOMAIN fresh : fresh[i] \in Entry
    BY DEF IInv, Kept
  <2> QED BY <2>1 DEF Entry
<1>2. Kept(fresh, timerDue, now + 1)
  BY <1>1 DEF IInv, Kept
<1> QED BY <1>2 DEF Tick, IInv, DisposedIsEmpty, IdleTimer

\* The timer is set, so the cache is not disposed.
LEMMA ExpireHolds == ASSUME IInv, Expire PROVE IInv'
<1>1. PICK n \in 0..Len(fresh) :
        /\ n < Len(fresh) => ~Expired(fresh[n + 1])
        /\ fresh' = SubSeq(fresh, n + 1, Len(fresh))
  BY DEF Expire
<1>2. timerDue' = ScheduleExpiry(fresh', NoTimer) /\ now' = now
  BY DEF Expire
<1>3. Kept(fresh', timerDue', now') /\ (fresh' = <<>> => timerDue' = NoTimer)
  BY <1>1, <1>2, ExpiringKept
<1>4. ~disposed' /\ disposed' \in BOOLEAN
  BY DEF Expire, IInv, DisposedIsEmpty
<1> QED BY <1>2, <1>3, <1>4 DEF Expire, IInv, DisposedIsEmpty, IdleTimer

LEMMA NextHolds == IInv /\ [Next]_vars => IInv'
<1> SUFFICES ASSUME IInv, [Next]_vars PROVE IInv'
  OBVIOUS
<1>1. CASE UNCHANGED vars
  BY <1>1 DEF vars, IInv, DisposedIsEmpty, IdleTimer
<1>2. CASE \E k \in Keys, force \in BOOLEAN : Get(k, force)
  BY <1>2, GetHolds
<1>3. CASE \E t \in Tasks, cacheable \in BOOLEAN : LoadResolved(t, cacheable)
  BY <1>3, LoadResolvedHolds
<1>4. CASE \E t \in Tasks : LoadRejected(t)
  BY <1>4, LoadRejectedHolds
<1>5. CASE \E t \in Tasks : Finally(t)
  BY <1>5, FinallyHolds
<1>6. CASE \E k \in Keys : Invalidate(k)
  BY <1>6, InvalidateHolds
<1>7. CASE Clear \/ Dispose
  BY <1>7, EmptiedHolds
<1>8. CASE Tick
  BY <1>8, TickHolds
<1>9. CASE Expire
  BY <1>9, ExpireHolds
<1> QED BY <1>1, <1>2, <1>3, <1>4, <1>5, <1>6, <1>7, <1>8, <1>9 DEF Next

-----------------------------------------------------------------------------
(* What the cache promises, for every value of the constants.              *)

\* The inductive invariant holds throughout every behaviour of
\* single-flight-cache.ts.
THEOREM Invariance == Spec => []IInv
<1>1. Init => IInv
  BY InitHolds
<1>2. IInv /\ [Next]_vars => IInv'
  BY NextHolds
<1> QED BY <1>1, <1>2, PTL DEF Spec

\* The maps, the timer and the flag keep their types.
THEOREM TypeCorrect == Spec => []TypeOK
<1>1. IInv => TypeOK
  BY DEF IInv, Kept, Slots, TypeOK
<1> QED BY <1>1, Invariance, PTL

\* invalidate, clear and dispose detach an entry and its pending load for
\* good: get() never hands out what was requested before them.
THEOREM NeverStale == Spec => []NoStaleAnswer
<1>1. IInv => NoStaleAnswer
  BY DEF IInv, Kept, Slots, NoStaleAnswer
<1> QED BY <1>1, Invariance, PTL

\* However many loads overlap, two of one key are never both up to date.
THEOREM OneLoadPerKey == Spec => []SingleFlight
<1>1. IInv => SingleFlight
  BY DEF IInv, Slots, SingleFlight
<1> QED BY <1>1, Invariance, PTL

\* dispose leaves nothing behind and nothing comes back, whatever was pending.
THEOREM DisposedStaysEmpty == Spec => []DisposedIsEmpty
<1>1. IInv => DisposedIsEmpty
  BY DEF IInv
<1> QED BY <1>1, Invariance, PTL

\* The map's insertion order is its expiry order, which the loop of the
\* timer's callback relies on.
THEOREM ExpiryOrder == Spec => []OrderedByExpiry
<1>1. IInv => OrderedByExpiry
  BY DEF IInv, Kept, OrderedByExpiry
<1> QED BY <1>1, Invariance, PTL

\* The one timer is never late for the oldest entry, for any TTL and any
\* longest delay.
THEOREM TimerSuffices == Spec => []TimerCoversOldest
<1>1. IInv => TimerCoversOldest
  BY DEF IInv, Kept, TimerCoversOldest
<1> QED BY <1>1, Invariance, PTL
=============================================================================
