# SnowLuma in TLA+

SnowLuma attaches to running QQ clients, takes their packets through a hook
library and a local pipe, and offers each logged-in account as a OneBot
service. This directory models its core: the life of one attached process and
the requests on its pipe, the ownership of processes by accounts, the handoff of
an account's OneBot service from one login to the next, the network adapters of
that service, the migration of its message database, and the caches in front of
upstream requests. TLC checks the models on small instances and TLAPS proves the
safety properties of all of them for every value of the constants.

## The system and its parts

| Part (source under `src/packages`) | State | Operations | Hard behaviour |
| --- | --- | --- | --- |
| `HookSession` (`bridge/src/hook-session.ts`, `hook-status.ts`) | flags of one process (injected, connected, logged in), pipe client, timers, a promise chain of operations | load, unload, refresh; pipe up/down, process gone; frames, socket closes, timers, dispose | commands are serialised, frames and timers are not and run between their awaits |
| `HookPacketClient` (`bridge/src/hook-packet-client.ts`) | outbound health of the request path | sendPacket | a request may fail after the logout |
| `HookManager` (`bridge/src/hook-manager.ts`) | sessions by PID, known accounts, auto-load attempts | watcher callbacks, user commands, dispose | retries on every tick |
| `PipeWatcher` (`bridge/src/pipe-watcher.ts`) | the last snapshot of processes and pipes | poll | forced and background polls overlap |
| `QqHookClient` (`bridge/src/qq-hook-client.ts`) | two sockets, pending requests by id | connect, request, frames, close | timeouts race late answers, ids wrap |
| `BridgeManager`, `Bridge` (`core/src/bridge`) | PID -> account, account -> Bridge, connections, closing Bridges | login, packet, disconnect, health, dispose | an account returns while its former Bridge still closes its database |
| `IdentityService` (`protocol/src/identity-service.ts`) | identity database, write queue, membership cache | open, read, write, close | writes that fail and are retried |
| `SingleFlightCache` (`common/src/single-flight-cache.ts`) | entries with expiry, pending loads, one timer | get, invalidate, clear, dispose | invalidation while a load is pending |
| `OneBotManager`, `OneBotInstance` (`onebot/src`) | instances and retiring instances by account | attach, detach, reload, dispose | a new session waits for the retiring one |
| `NetworkManager` and adapters (`onebot/src/network`) | a FIFO of operations, adapters with their listeners, sockets and reconnect timers | reconcile, shutdown, forced release, dispatch | a failed reload whose rollback may fail too; a forced release in the middle of an operation |
| Message store and its migration (`onebot/src/message-store*.ts`, `media-store-migration.ts`) | SQLite tables, a migration state and cursors on disk | store, recall, migrate in batches | crashes between statements, a cancelled worker beside the next one, live writes to the rows being migrated |
| History sync, media, streams (`onebot/src`) | cursors, chunks on disk | sync, expire | an abort between two steps |
| SDK, MCP server, WebSocket library, logging | pending calls, tasks, sockets, files | call, reconnect, rotate | reconnection with calls pending |
| Codecs, OIDB services, conversions, WebUI | none, or presentation | | data, not control |

The flow of control: the watcher polls; `HookManager` turns its edges into
operations of the PID's `HookSession`; the session connects its client, and the
frames of the client become the events `login`, `packet`, `disconnected` and
`receive-health-changed`. `BridgeManager` is called synchronously with each of
them, maps the PID to an account and creates, feeds or closes that account's
`Bridge`. The OneBot layer follows the Bridges.

`PROJECT.json` lists every part with what is modelled of it, and the hazards:
the places where the code is hard to test.

## Modules

| Module | Models | Read with |
| --- | --- | --- |
| `HookSession` | one session, the watcher callbacks of `HookManager` for its PID, the outbound health of `HookPacketClient`, what the session sees of its client | `hook-session.ts` |
| `SessionContract` | abstract: what a session promises its listeners | implemented by `HookSession` (`ContractKept`) |
| `BridgeManager` | the manager, its Bridges' connections and the gate of their databases; its environment is sessions that keep `SessionContract` | `manager.ts`, `bridge.ts` |
| `OneBotManager` | the manager for one account: its instance, retiring instances, waiting start and database task | `manager.ts`, `instance.ts`, `message-store-migration-task.ts` of `onebot/src` |
| `QqHookClient` | the control pipe of one client and the requests that share it | `qq-hook-client.ts` |
| `NetworkManager` | the operations of one account's network manager and the transports of its adapters | `network-manager.ts`, `adapter.ts` and the adapters of `onebot/src/network` |
| `MessageStoreMigration` | the migration worker of one account's database, session after session, and the live store's writes | `message-store-migration.ts`, `message-store-migration-worker.ts`, `media-store-migration.ts`, `message-store.ts` |
| `SingleFlightCache` | the cache | `single-flight-cache.ts` |
| `BridgeManagerProofs`, `SingleFlightCacheProofs`, `QqHookClientProofs`, `HookSessionProofs`, `OneBotManagerProofs`, `MessageStoreMigrationProofs`, `NetworkManagerProofs` | theorems about the module they extend | |
| `NetworkManagerApplyProofs` | theorems on what reconciling achieves; extends `NetworkManagerProofs` | |
| `MC*` | the modules as TLC runs them; constants in the `.cfg` files | |

How the code is read in all of them: JavaScript runs one turn to its next
`await`, so an action is one synchronous turn, with every call it makes. A
promise chain is a queue and a program counter that says at which `await` its
head is suspended. An object known only by its identity (a promise, a Bridge)
is a member of a constant set, and an identity that nothing refers to is used
again. Texts, logs and names are left out. Operators whose comment begins with
"Mutant" are not part of a model: each is a definition with one plausible
slip, kept to show that a property notices it.

### HookSession

The record `s` is the object, its fields the class's fields. A method is an
operator from the record to the record (`TearDown`, `ApplyStatus`,
`HandleLoginState`, `HandlePacket`, `ReconcilePipeUp`, ...), so an action reads like the
handler: the calls in the source's order, then `Commit`, which lets the
listeners of the emitted events run inside the turn. `s.queue`, `s.op` and
`s.pc` are `opChain`. A queued close or deadline compares its client or watch
with the current one when it runs; the model marks it `skip` at the moment it
is superseded. `bound` and `shown` are what the listeners have made of the
events: the account they hold the PID for, and the health the Bridge shows. A
packet moves the PID to the account it names, as a login does, and the receive
watchdog with it; `s.uin` follows only the login frames. So `bound` may differ
from `s.uin`, and `HeldWhileLoggedIn` says what remains: the PID is held exactly
while the session is logged in, and the watchdog is on one of the two accounts. It
need not be on the holder's: a repeated login frame puts it back on `s.uin` and,
being no news, moves nothing else. `SessionContract` speaks of the login alone,
`s.uin` while `s.loggedIn`.

Simplifications: a failed runtime always has another status than -39;
`cancelConnectAttempt` has no effect of its own, since a handshake may end at
any time; the native injector returns; listeners do not throw; the identity
hints of `detectLoginOnce` touch none of this state. Left out: the auto-load
branch of the tick, after which the tick does not retry the connection of that
session; and the new control pipe that a request opens when it finds the old one
closed, before the queued close tears the client down.

### BridgeManager

`m.own` is `pidToUin_`, `m.bridges` the map of Bridges, `m.obj` the Bridge
objects with their connections, `m.threw` records that one of the manager's
"invariant violated" errors was thrown. `OnHookLogin`, `OnPacket`,
`OnPidDisconnected`, `OnPidReceiveHealthChanged`, `Dispose` (and the microtask
in which it closes the Bridges) are the callbacks; `DatabaseOpens` and
`CloseSettles` are the continuations of a Bridge's asynchronous part. `gate` is
the set of earlier closes a new Bridge's database waits for. A Bridge whose
close failed is not counted as holding the database. Before it closes, a Bridge
waits for the packets it is still working on; the model has no packets in work,
and the wait is part of the time a close may take (`CloseSettles`).

The environment is one session per PID that keeps `SessionContract`, and
reports health only while logged in. `HookSession` breaks that last assumption
(the finding `HealthOnlyWhenBound`); `NoInvariantThrown` says that this is the
only way in which the assertions of `manager.ts` can fail.

### OneBotManager

`session` is the account's present Bridge as `BridgeManager` announces it;
Bridges are numbered in the order in which they come, and an instance is known
by the Bridge it was made for. `m.instance`, `m.retiring` and `m.pending` are
the maps' entries for the account, `m.mig` its database task, `m.failed` and
`m.startFailed` the recorded lifecycle failures. `m.obj` holds each instance
with what its startup, its closing and the manager's `dispose()` await;
`m.hand[b]` is the suspended `finishRetiringBeforeStart` of Bridge `b`, which
goes on after its start was called off, so that several may wait on one
instance. `DisposeSettles` ends an attempt of `instance.dispose()` for all who
share it, successfully or not; `HandoffTimesOut` is the release deadline.

An instance that was forced closed counts as released: `forceRelease()` is "best-effort",
and what the adapters make of it is in `NetworkManager`, whose finding
`ForcedStaysReleased` shows where this is too hopeful. `Idle` says that
the continuations of settled promises have run; timers, worker reports and
further settlements wait for it, sessions and `dispose()` do not.
Accounts share only `dispose()`, which waits for all of them, so one is enough.
Left out: arming the history sync, configuration reloads, progress figures.

### QqHookClient

`call[r]` is one `send()` or `sendAckOnly()`, its `pc` the `await` it is at: the
shared connection, its place in `controlWriteChain`, its write, its
acknowledgement, its reply. `client.acks` and `client.replies` are the tables by
request id, and hold the call whose promise they settle; `ack` and `reply` of a
call name the call whose frame settled it, which `OwnAnswer` compares. `link`
and `gen` are the control socket; a write belongs to the socket it was queued
for. A call that is over keeps nothing but its id, under which answers may
still come.

`IdMod` stands for 2^32. Two bounds replace what 2^32 makes certain: the ids do
not come round while a call that left the tables still awaits its write's
callback (`MayRegister`), and an answer to a call that was given up does not
outlive a turn of the ids (`Register`). A pending call may: its id is skipped.
Any answer may be lost, late, out of order or an error. Left out: the recv pipe
(in `HookSession`), `waitForLogin`, the encoding of frames.

### NetworkManager

The record `m` is the manager: `map` its adapters by name, `ad[n][k]` the
adapter object of a name and a kind, `op` the operation at the head of
`operationTail` with the name it is at, `queue` those behind it. `op.pc` names
the call of `open()` or `close()` by its place in the code: `create`; `heal`,
`reclose`, `reopen` and their rollback `backclose`, `backopen` in
`reloadSameKind`; `replace`, `substitute`, `cleanup`, `restore` and `reinstate`
in `replaceKind`; `retire` and `shut`. `Continue` is what the code does after
each, successful or not. A server adapter (wsServer, httpServer) owns a listener
that binds and closes asynchronously and may fail either way; a client owns a
socket or a reconnect timer. `last` is what the last reconciliation answered,
with the ghost `clean`: nothing has failed since it began. A port is taken when
another adapter of the manager has it; other programs are part of the failures.

Left out: the httpClient, which owns no transport; the second server of an
httpServer with WebSocket; a change between wsServer and httpServer, since the
two are one kind here and only the change between server and client replaces an
adapter; inbound actions, except that a close may wait for them, and a close of
a server that owns nothing does not; `register`, `openAll` and `closeOne`, which only tests call. Two
adapters of one plan cannot exchange their ports, since each is opened before
the next is closed: the code reports the error and so does the model, and
`PortsApart`, which holds of the plans of the run, leaves the case out. A forced close while a listener is being
bound may leave `open()` unsettled for ever.

### MessageStoreMigration

`db` is what survives a crash: the columns of the table, the rows, the state of
the migration and of the media copy. A row is known by what the migration looks
at: is its event there, does it have its direction and its client sequence, is
its sequence said to be the server's (`sa`), and is it (`real`, which no code
can see). `w[k]` is a worker thread, of the present session or a cancelled one
that has not noticed yet; each action is one statement or one transaction. The
live store's writes come between any two of them once the database is ready.
`Crash` and failures stop a worker anywhere; a close cancels it; `Start` is the
manager's next attempt.

A cancelled worker may put the phase `migrating` back over `complete`; the next
start completes it again, which is why `CompleteMeansDone` reads in one
direction. One batch of the media copy, from its `cancelled()` check through its
read of the source to its transaction, is one step; in the code a cancelled
worker may commit that batch a little later, which only inserts rows of the
source and may put the cursor back. Not a property, since no code claims it: a private recall finds its
message by direction, which a legacy row gets only when it is classified, so a
recall that comes first leaves the row readable. A malformed row of the old
media tables stops every attempt at the same place; the model's rows are well
formed.

### SingleFlightCache

`fresh` is the Map in its insertion order, `inflight` the pending promise of
each key, `timerDue` the single expiry timer. `stale` in a load or an entry is history:
the key was invalidated after the load began. The clock is monotonic and the
TTL finite.

## Runs

| Run | Checks | Shows |
| --- | --- | --- |
| `sfc` | `NoStaleAnswer`, `SingleFlight`, `TimerCoversOldest`, `ExpiredReleased` | nothing invalidated is ever answered, one load per key, a clamped timer releases every expired entry |
| `session` | `HeldWhileLoggedIn`, `LoginIsBacked`, `DeadlineEndsOnConnect`, `ReconcileWhileAwaitingLogin`, `OnePipeUp`, `StaleOnlyWhenArmed`, `ContractKept` | the session's bookkeeping agrees with what its listeners heard, and it implements `SessionContract` |
| `session_live` | `CommandsRun`, `KeepsConnecting` | no command waits forever, no session is stranded under a live pipe |
| `bridge` | `PidOwnership`, `NoInvariantThrown`, `BridgesAreAttached`, `MappedWhileLoggedIn`, `ExclusiveDatabase`, `GateOpens` | ownership is consistent, an account's database is open once, and a waiting database is opened or given up |
| `onebot` | `OneGeneration`, `ServesPresentSession`, `ZombiesObservable`, `DisposedCleanly`, `FailuresStand`, `SessionServed` | two generations never hold the adapters together, a late release starts nothing for a closed Bridge, a failed release stays visible, and a release that hangs does not keep the next session offline |
| `hookclient` | `OwnAnswer`, `TablesMatchCalls`, `CallsSettle` | an answer reaches the request it is for although ids come round, the tables leak nothing, and every request ends, with or without an answer, as long as writes do |
| `network` | `NothingStrays`, `AppliedOrVisible`, `ReconcileHeals`, `ShutdownReleases` | no transport is orphaned by a rollback or a late event, a plan that was not applied shows, the next reconciliation in which nothing fails repairs everything, and a shutdown that reports success has released all |
| `migration` | `CompleteMeansDone`, `ClassifiedByContent`, `UsableMeansPrepared`, `MigrationCompletes` | crashes, cancelled workers and live writes neither leave a row unclassified nor classify it by what it was, and the migration completes once faults cease |
| `network_force` | `ForcedStaysReleased` (violated) | finding 4 |
| `session_health` | `HealthOnlyWhenBound` (violated) | finding 1 |
| `session_shown` | `ShownHealthAgrees` (violated) | finding 2 |
| `session_unload` | `IdleStatusIsAvailable` (violated) | finding 3 |

`TypeOK` is checked in `session`, `onebot`, `network` and `migration`, and is a
conjunct of `TablesMatchCalls`. Of `SingleFlightCache` and `BridgeManager` it is
only proved, and so are `DisposedIsEmpty` and `OrderedByExpiry`. Every other
invariant of a passing run is checked and proved.

**Bounds.** `sfc`: two keys, so that entries have an order; three loads, so
that a key may have an abandoned load, a newer one and another key's; a TTL of
2 with timers of at most 1, so that a timer fires before anything has expired,
and 4 units of time. `session`: two accounts, so that QQ can switch; a queue of
two operations, which lets an event arrive behind a command and behind a close;
one command (the queue also holds the watcher's events), one request in flight.
`session_live`: two commands, no packets and one account, since neither bears
on the queue. `bridge`: two PIDs and two accounts, so that a PID leaves a Bridge
that another holds; three Bridge identities, so that two Bridges of one account
may close while a third waits. `onebot`: three logins of the account, so that an
instance retires, a handoff is called off and another waits for the same
instance. `hookclient`: three calls on two ids, so that the third one's id comes
round while one is pending and another was given up, and two connections. `network`: two names and two
ports, so that a port moves from one adapter to another; five plans that rebind,
move, disable, remove and change the kind; one operation waiting behind the one
under way; two failures, so that a rollback fails as well. `migration`: two
workers, so that a cancelled one runs beside its successor; a group and a
private message in batches of two, so that the first batch is full and a row that
changed under it comes back in a short one; two faults and one live write. Symmetry is not used: where
it would help, liveness is checked.
Guards with `Room`, `MaxCmds`, `MaxReqs`, `MaxTime`, `MaxQueue`, `MaxConns`, `Faults` and `Writes` are bounds of the models
and not conditions of the code. `session`, `session_live`, `onebot` and the three runs named last do not
check deadlock: a disposed session whose process is gone has stopped, and so has
one whose commands are used up, or an account whose logins are.

**Fairness.** The event loop runs due timers and queued microtasks
(`Expire`, `Finally` in the cache). `HookSession` assumes that an operation at
the head of `opChain` goes on: a handshake because `connectWithTimeout` bounds it
(`HandshakeBounded`, a definition of its own: without it `CommandsRun` fails), the
others because the poll and the injector return; and that the watcher's interval comes round while
a poll would have an effect. In `BridgeManager` SQLite's open and close return,
successfully or not. In `OneBotManager` the release deadline and the retry timer
fire and the database worker reports or exits; nothing is assumed of a release, a
startup or a notice, any of which may hang. In `QqHookClient` microtasks, timers and socket events come, a handshake ends
(HookSession's deadline closes the client), and a write ends, which holds only
while the peer reads its pipe or leaves: no code bounds a write. In
`MessageStoreMigration` a worker goes on until a fault stops it, and the manager
starts the next one. Nothing is assumed of QQ, the user or the network: no
login, packet, answer or connection has to come. Where an action's enabling
condition is costly to evaluate, weak fairness is written with the condition
spelled out.

**Findings.**

1. `session_health`: a request that QQ refuses (status -39) after the account has
   logged out makes the session report bad health for a PID that no account
   holds; `BridgeManager` throws its "receive health for unmapped PID" inside
   the sender's call.
2. `session_shown`: every packet passes through `Bridge.bindPid`, which sets
   the PID healthy, while the session still reports its request path as bad.
3. `session_unload`: an unload that finds the pipe still up sets `connecting`,
   which nothing corrects when the pipe goes down, although the settled status is
   documented as a function of the flags.

4. `network_force`: a reconciliation under way when the adapters are released by
   force goes on, and binds for the old generation the ports the release was to
   free for the next session. A server that was closed by force also swallows a
   later failure of its close, so that the manager drops it with its listener;
   `NothingStrays` and `ShutdownReleases` except such a server.

## Proofs

Every component has an inductive invariant `IInv`, with `Init => IInv` and
`IInv /\ [Next]_vars => IInv'` proved by a lemma per action, and each theorem
follows from it. Where the model's operators take the state as an argument, as a
method takes its object, the invariant does too and there is a lemma per
operator: a handler calls several, and the proof of its action is the chain of
their lemmas.

The assumptions are those the modules name, and TLC evaluates them in every
run: the "none" values differ from the real ones and the numbers are numbers
(`BridgeAssumption`, `CacheAssumption`, `SessionAssumption`, `LoginsAssumption`,
`MaxConnsAssumption`, `CallsAssumption`, the two `BoundsAssumption`s), there are
more than two request ids (`IdModAssumption`; the code has 2^32), messages are
numbered by finitely many hashes (`HashesAssumption`), and the names of the adapters are
finitely many numbers, which stand for the order of the configuration, each plan
being for some of them (`NamesAssumption`, `PortsAssumption`, `PlansAssumption`).
The bounds on faults, queues, commands and logins are arbitrary numbers in the
proofs. One theorem has a hypothesis of its own, `PortsApart`.

**BridgeManager**, for any processes, accounts and Bridges: `TypeCorrect`,
`OwnershipCorrect`, `AssertionsHold`, `MapIsLive`, `MappingFollowsLogin`,
`DatabaseExclusive`. None of the properties is inductive alone. `Owned`,
`Alive`, `Peopled` and `Current` tie the two maps to the objects: a PID is in
exactly the Bridge its account maps to, that Bridge is alive, and a Bridge that
is not being disposed of is the one in the map. `DatabaseExclusive` needs
`Gated`: of two live Bridges of an account one waits for the other, because a
Bridge is created only when the former one has been put among the closing ones; with
`OpenUngated`, an open database waits for nobody, so two cannot be open. The
state between two calls of a callback is weaker: a new Bridge may hold no PID
yet (`Sound` without `Peopled`).

**SingleFlightCache**, for any keys, loads, TTL and longest delay:
`TypeCorrect`, `NeverStale`, `OneLoadPerKey`, `DisposedStaysEmpty`,
`ExpiryOrder`, `TimerSuffices`. `Kept` strengthens the entries' part: their
times are past, so that an appended one is the youngest, and `IdleTimer` says
that an empty map has no timer, so that a timer found running was set for an
entry no younger than any there is. `Slots` strengthens the loads' part: a load
that is not out of date is the one in its key's slot, so an empty slot
permits a new one.

**QqHookClient**, for any calls, ids and connections: `AnswersAreOwn`
(`OwnAnswer`), `TablesAreExact` (`TablesMatchCalls`), `ChainIsExact`. Neither
property is inductive without the other, and both need more. `DistinctIds`: two
calls in flight never have one id, even when the tables have already lost one of
them, because the `catch` of `send()` deletes by id and would take another call's
entry. `AnswersFindOwn`: an answer still to come finds its own call under its
id, or nobody. `ChainMatchesCalls`: the chain has every call that awaits
its write once, so a write that ends ends the write of its head.

**HookSession**, for any accounts and bounds: `HeldExactlyWhileLoggedIn`
(`HeldWhileLoggedIn`), `LoginsAreBacked`, `DeadlinesEnd`, `ReconcilesWhileAwaiting`, `PipeUpsCoalesce`,
`StaleNeedsArming`, `TypesHold`, and `SessionKeepsContract`, the refinement of
`SessionContract`. `Wired` is what the properties lack: a client that is not
connected is in the handshake of the operation under way, so a frame or a close
that arrives between two awaits finds the session as that operation left it. `Sane`
holds inside a turn as well, `Reconciled` only at its end. Each handler
is shown to be one of five kinds of turn (silent, a login, the end of one, a
packet, a change of health) with the events it emits and the account it leaves
watched; from these, and not from the handlers, follow both `HeldWhileLoggedIn`
and the contract's steps.

**OneBotManager**, for any number of logins: `GenerationsAreSeparate`,
`OnlyThePresentIsServed`, `ZombiesStayObservable`, `DisposeIsClean`,
`FailuresAreCurrent`, `TypesHold`. `Exclusive` (nothing retires while the
database is prepared or an instance runs) gives `OneGeneration` together with
`Observable`. It is kept because of `Handing`: the handoff of the waiting start
has every retiring instance still before it, so when it ends none is left, and
because of `Serves`: while a start waits there is no instance and no database
task. `Truthful` says that what a suspended caller has been told of a release is
true still. `Recorded` is the argument for `FailuresStand`: a failure on record
is of an instance that is not released, or of one that somebody has been told was,
who takes the record back when he goes on.

**MessageStoreMigration**, for any messages, batch size, number of workers and
media rows, with any number of faults and live writes: `CompletionIsTrue`,
`ClassificationIsTrue`, `UsableIsPrepared`, `TypesHold`. `WorkerSound` says that
what a worker remembers has not been undone: the columns it found, the media
it copied, a count of zero. `Grows(d, e)` is what one step may do to a database, and
every worker, cancelled ones included, stays sound across it; so an action of
one needs no look at the others. `RowSound`: a row that is not classified still
shows by its content what it is. A worker that commits a batch writes only rows
that are as it read them, so what it computed is true of them.

**NetworkManager**, for any names, ports and plans: `TransportsAreKept`
(`NothingStrays`), `ClosedMeansReleased` (`ShutdownReleases`), `TypesHold` and,
in `NetworkManagerApplyProofs`, `AppliesOrShows` (`AppliedOrVisible`) and
`ReconcilingHeals` (`ReconcileHeals`). `Calling` says for each place `op.pc` what
the map and the plan have for the name there, `Awaiting` what the call has done
to the adapter while it waits, `Owned` that no adapter holds anything outside the
map except the one being restored. An operation touches one name at a
time: the invariant is split into the part about the other names (`Base`), which
`Frame` carries over, and the part about its own (`Here`), so that the thirteen
places of `Continue` are proved one by one.

The second invariant is about the plan and holds while the manager accepts
plans, which is until a shutdown or a forced release. `Applying`: a name that is done fits the
plan or shows that it does not; one that is still to come serves what it was
configured for, or shows a failure, because a reload that skips an adapter whose
configuration is unchanged relies on it. `Healing`: as long as nothing has
failed, no error is recorded, the operation is at none of the places of a
rollback, and names are taken in their order. Then a server that is opened must
find its port free, and this is where `PortsApart` is needed: no adapter of a plan goes to a
port that one after it in a plan has or has yet to leave. The code opens each
adapter before it closes the next, so for other plans it reports the error and
does not heal at once. `PortsApart` is not an assumption of the model:
`AppliedOrVisible` is proved without it, and `MCNetworkManager` has TLC evaluate
it on the plans of the run.

**Only model-checked**: all liveness (`ExpiredReleased`, `GateOpens`,
`CommandsRun`, `KeepsConnecting`, `SessionServed`, `CallsSettle`,
`MigrationCompletes`), which rests on fairness and is out of the prover's reach.
The findings are counterexamples, and have nothing to prove.

## Not modelled, and the plan

Not modelled: injection and native calls, file discovery of accounts, codecs,
OIDB services and message conversion (data), the WebUI and HTTP shell. Some
behaviours of modelled parts have no property, since the code promises nothing
about them: a refresh queued before `dispose()` runs after it and opens a client
on a session nobody owns; a handoff whose release fails leaves an open session
without an instance until the account logs in again; `OneBotManager.dispose()`
waits without a deadline for a release that hangs; a peer that stops reading
stalls every request behind the one being written; a recall misses a row that is
still to be classified.

Next, in this order:

1. Proofs: action properties from the same invariants, for what a step may not
   undo: in the migration that once rows have versions, no classified row comes
   back to be classified (`Grows`), in the manager of an account that an instance
   once released is not heard of again.
2. `PipeWatcher` (overlapping polls, failed enumerations), with the contract that
   `HookSession` now assumes, and `HookManager`: accounts, auto-load attempts.
3. `OneBotManager` composed with `BridgeManager` through the session callbacks,
   and with `NetworkManager` through `forceRelease()`.
4. History sync; the identity service's write queue.
5. SDK client, MCP tasks, log rotation, the close handshake of the WebSocket library.
