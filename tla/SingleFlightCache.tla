-------------------------- MODULE SingleFlightCache --------------------------
(***************************************************************************)
(* The TTL cache with request de-duplication of                            *)
(* packages/common/src/single-flight-cache.ts, used in front of upstream   *)
(* roster and profile requests.                                            *)
(*                                                                         *)
(* Between two awaits JavaScript runs one turn at a time, so an action is  *)
(* one synchronous piece of the code: a call of a public method, the       *)
(* continuation of `await this.load(key)`, the `.finally` callback that    *)
(* runs in a later microtask, or the callback of the expiry timer.         *)
(*                                                                         *)
(* A promise is known only by its identity, so a task is a member of Tasks.*)
(* A task whose `.finally` has run is referenced by nothing in the cache   *)
(* and its identifier is used again.  A TTL that is not finite, with which *)
(* no timer is ever set, is left out.                                      *)
(***************************************************************************)
EXTENDS Naturals, Sequences

CONSTANTS
    Keys,       \* the keys callers ask for
    Tasks,      \* promise identities: how many loads may be under way at once
    NoTask,     \* "no promise": inflight has no entry for a key
    TTL,        \* ttlMs
    MaxDelay,   \* the longest delay a timer takes (2^31 - 1 in Node)
    MaxTime     \* bound on the clock, for model checking

ASSUME CacheAssumption ==
    /\ Keys # {}
    /\ NoTask \notin Tasks
    /\ TTL \in Nat
    /\ MaxDelay \in Nat \ {0}
    /\ MaxTime \in Nat

VARIABLES
    now,        \* Date.now(), which is taken to be monotonic
    fresh,      \* the Map `fresh` in its iteration (= insertion) order
    inflight,   \* the Map `inflight`: key -> promise
    task,       \* what each promise identity stands for
    timerDue,   \* when expiryTimer fires; NoTimer when it is undefined
    disposed

vars == <<now, fresh, inflight, task, timerDue, disposed>>

-----------------------------------------------------------------------------
(* A task is free, is awaiting this.load, or has come back from it and     *)
(* waits for its `.finally`.  `stale` and the entry's `stale` are history: *)
(* the key was invalidated or cleared after the load began.                *)

NoTimer == 0

TaskState == {"free", "loading", "settling"}

Task == [st: TaskState, key: Keys, stale: BOOLEAN]

\* An identifier in no use; its key means nothing.
FreeTask == [st |-> "free", key |-> CHOOSE k \in Keys : TRUE, stale |-> FALSE]

Entry == [key: Keys, at: Nat, stale: BOOLEAN]

Cached(k) == \E i \in DOMAIN fresh : fresh[i].key = k

IndexOf(k) == CHOOSE i \in DOMAIN fresh : fresh[i].key = k

\* fresh.delete(key)
Without(k) ==
    IF Cached(k)
      THEN SubSeq(fresh, 1, IndexOf(k) - 1) \o SubSeq(fresh, IndexOf(k) + 1, Len(fresh))
      ELSE fresh

Expired(e) == now - e.at >= TTL

Least(a, b) == IF a < b THEN a ELSE b

Greatest(a, b) == IF a > b THEN a ELSE b

\* cancelExpiryIfEmpty(), on the map the method leaves behind
CancelExpiryIfEmpty(map) == IF map = <<>> THEN NoTimer ELSE timerDue

\* scheduleExpiry(), on the map and the timer handle it finds.  Saturating
\* subtraction is enough because the delay is at least 1 anyway.
ScheduleExpiry(map, due) ==
    IF due # NoTimer \/ map = <<>>
      THEN due
      ELSE LET expiry == map[1].at + TTL
               left   == IF expiry > now THEN expiry - now ELSE 0
           IN  now + Greatest(1, Least(MaxDelay, left))

-----------------------------------------------------------------------------
Init ==
    /\ now = 0
    /\ fresh = <<>>
    /\ inflight = [k \in Keys |-> NoTask]
    /\ task = [t \in Tasks |-> FreeTask]
    /\ timerDue = NoTimer
    /\ disposed = FALSE

\* get(key, {force}).  A disposed cache rejects and an unexpired entry is
\* returned, and neither changes anything.  Otherwise an expired entry is dropped and the
\* caller joins the pending load or starts one.
Get(k, force) ==
    LET hit     == Cached(k)
        expired == hit /\ Expired(fresh[IndexOf(k)])
        served  == hit /\ ~expired /\ ~force
        map     == IF expired THEN Without(k) ELSE fresh
    IN
    /\ ~disposed /\ ~served
    /\ fresh' = map
    /\ timerDue' = IF expired THEN CancelExpiryIfEmpty(map) ELSE timerDue
    /\ \/ /\ inflight[k] # NoTask
          /\ UNCHANGED <<inflight, task>>
       \/ /\ inflight[k] = NoTask
          /\ \E t \in Tasks :
               /\ task[t].st = "free"
               /\ task' = [task EXCEPT ![t] = [st |-> "loading", key |-> k, stale |-> FALSE]]
               /\ inflight' = [inflight EXCEPT ![k] = t]
    /\ UNCHANGED <<now, disposed>>

\* Mutant: the value is stored without asking whether the task is still the
\* pending one.
LoadResolvedUnchecked(t, cacheable) ==
    LET k == task[t].key
        map == IF TTL > 0 /\ cacheable
                 THEN Append(Without(k), [key |-> k, at |-> now, stale |-> task[t].stale])
                 ELSE fresh
    IN
    /\ task[t].st = "loading"
    /\ task' = [task EXCEPT ![t].st = "settling"]
    /\ fresh' = map
    /\ timerDue' = ScheduleExpiry(map, timerDue)
    /\ UNCHANGED <<now, inflight, disposed>>

\* `await this.load(key)` comes back with a value: it is stored, at the end
\* of the map, only while this task is still the key's pending one.
LoadResolved(t, cacheable) ==
    LET k      == task[t].key
        stores == inflight[k] = t /\ TTL > 0 /\ cacheable
        map    == IF stores
                    THEN Append(Without(k), [key |-> k, at |-> now, stale |-> task[t].stale])
                    ELSE fresh
    IN
    /\ task[t].st = "loading"
    /\ task' = [task EXCEPT ![t].st = "settling"]
    /\ fresh' = map
    /\ timerDue' = IF stores THEN ScheduleExpiry(map, timerDue) ELSE timerDue
    /\ UNCHANGED <<now, inflight, disposed>>

\* this.load(key) rejects: nothing is stored, the rejection propagates.
LoadRejected(t) ==
    /\ task[t].st = "loading"
    /\ task' = [task EXCEPT ![t].st = "settling"]
    /\ UNCHANGED <<now, fresh, inflight, timerDue, disposed>>

\* Mutant: `.finally` clears the slot of whoever holds it.
FinallyUnchecked(t) ==
    /\ task[t].st = "settling"
    /\ task' = [task EXCEPT ![t] = FreeTask]
    /\ inflight' = [inflight EXCEPT ![task[t].key] = NoTask]
    /\ UNCHANGED <<now, fresh, timerDue, disposed>>

\* The `.finally` callback.
Finally(t) ==
    /\ task[t].st = "settling"
    /\ task' = [task EXCEPT ![t] = FreeTask]
    /\ inflight' = [k \in Keys |->
                      IF k = task[t].key /\ inflight[k] = t THEN NoTask ELSE inflight[k]]
    /\ UNCHANGED <<now, fresh, timerDue, disposed>>

\* History: every load of these keys that is under way is now out of date.
Outdate(ks) ==
    [t \in Tasks |-> IF task[t].st # "free" /\ task[t].key \in ks
                       THEN [task[t] EXCEPT !.stale = TRUE] ELSE task[t]]

Invalidate(k) ==
    /\ fresh' = Without(k)
    /\ inflight' = [inflight EXCEPT ![k] = NoTask]
    /\ timerDue' = CancelExpiryIfEmpty(Without(k))
    /\ task' = Outdate({k})
    /\ UNCHANGED <<now, disposed>>

Clear ==
    /\ fresh' = <<>>
    /\ inflight' = [k \in Keys |-> NoTask]
    /\ timerDue' = CancelExpiryIfEmpty(<<>>)
    /\ task' = Outdate(Keys)
    /\ UNCHANGED <<now, disposed>>

Dispose ==
    /\ disposed' = TRUE
    /\ fresh' = <<>>
    /\ inflight' = [k \in Keys |-> NoTask]
    /\ timerDue' = CancelExpiryIfEmpty(<<>>)
    /\ task' = Outdate(Keys)
    /\ UNCHANGED now

Tick ==
    /\ now < MaxTime
    /\ now' = now + 1
    /\ UNCHANGED <<fresh, inflight, task, timerDue, disposed>>

\* Mutant: the callback releases what has expired and does not arm the timer again.
ExpireOnce ==
    /\ timerDue # NoTimer /\ timerDue <= now
    /\ \E n \in 0..Len(fresh) :
         /\ \A i \in 1..n : Expired(fresh[i])
         /\ n < Len(fresh) => ~Expired(fresh[n + 1])
         /\ fresh' = SubSeq(fresh, n + 1, Len(fresh))
    /\ timerDue' = NoTimer
    /\ UNCHANGED <<now, inflight, task, disposed>>

\* The timer's callback: the loop deletes entries from the front of the map and
\* breaks at the first one that has not expired; then the timer is armed again.
\* A timer may fire late.
Expire ==
    /\ timerDue # NoTimer /\ timerDue <= now
    /\ \E n \in 0..Len(fresh) :
         /\ \A i \in 1..n : Expired(fresh[i])
         /\ n < Len(fresh) => ~Expired(fresh[n + 1])
         /\ fresh' = SubSeq(fresh, n + 1, Len(fresh))
    /\ timerDue' = ScheduleExpiry(fresh', NoTimer)
    /\ UNCHANGED <<now, inflight, task, disposed>>

Next ==
    \/ \E k \in Keys, force \in BOOLEAN : Get(k, force)
    \/ \E t \in Tasks, cacheable \in BOOLEAN : LoadResolved(t, cacheable)
    \/ \E t \in Tasks : LoadRejected(t)
    \/ \E t \in Tasks : Finally(t)
    \/ \E k \in Keys : Invalidate(k)
    \/ Clear
    \/ Dispose
    \/ Tick
    \/ Expire

\* The event loop runs a timer that is due and a queued microtask.  Nothing
\* is assumed of the upstream load.
Fairness ==
    /\ WF_vars(Expire)
    /\ \A t \in Tasks : WF_vars(Finally(t))

Spec == Init /\ [][Next]_vars /\ Fairness

-----------------------------------------------------------------------------
TypeOK ==
    /\ now \in Nat
    /\ fresh \in Seq(Entry)
    /\ inflight \in [Keys -> Tasks \cup {NoTask}]
    /\ task \in [Tasks -> Task]
    /\ timerDue \in Nat
    /\ disposed \in BOOLEAN

\* What get() may hand out, a cached entry or a pending load to join, was
\* never requested from upstream before the key was last invalidated, cleared
\* or the cache disposed: "Detach the entry and its pending load".
NoStaleAnswer ==
    /\ \A i \in DOMAIN fresh : ~fresh[i].stale
    /\ \A k \in Keys : inflight[k] # NoTask =>
         /\ task[inflight[k]].st # "free"
         /\ task[inflight[k]].key = k
         /\ ~task[inflight[k]].stale

\* "de-dupes concurrent callers onto a single load()": two loads of one key
\* overlap only when an invalidation came between their starts.
SingleFlight ==
    \A t, u \in Tasks :
        /\ task[t].st # "free" /\ task[u].st # "free"
        /\ task[t].key = task[u].key
        /\ ~task[t].stale /\ ~task[u].stale
        => t = u

\* A disposed cache holds nothing, whatever loads were pending.
DisposedIsEmpty ==
    disposed => /\ fresh = <<>>
                /\ timerDue = NoTimer
                /\ \A k \in Keys : inflight[k] = NoTask

\* "Keep insertion order aligned with expiry, including refreshes": the
\* callback's break at the first unexpired entry relies on it.
OrderedByExpiry ==
    \A i, j \in DOMAIN fresh :
        i < j => fresh[i].at <= fresh[j].at /\ fresh[i].key # fresh[j].key

\* One timer covers every entry: while something is cached, the timer is set
\* for no later than the expiry of the oldest entry.
TimerCoversOldest ==
    fresh # <<>> => timerDue # NoTimer /\ timerDue <= fresh[1].at + TTL

\* "Expired values are released even while idle."
ExpiredReleased ==
    \A k \in Keys :
        (Cached(k) /\ Expired(fresh[IndexOf(k)]))
          ~> ~(Cached(k) /\ Expired(fresh[IndexOf(k)]))
=============================================================================
