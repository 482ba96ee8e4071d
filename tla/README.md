# A TLA+ model of the IoP location-based network node

The program (`src/src/`) is one server of a peer-to-peer network in which every
node knows its geographical neighbourhood well and the rest of the world
roughly. This directory holds TLA+ modules of its core, TLC configurations that
check them on small instances, and TLAPS proofs of the main invariants for every
instance. Line numbers refer to the files under `src/src/` unless a path says
otherwise.

## 1. The system

### Components

| Component | State | Operations that change it | Used by |
|---|---|---|---|
| `Node` (`locnet.cpp`) | none of its own: it reads and writes the node table | `SafeStoreNode`, called by `Accept/RenewColleague`, `Accept/RenewNeighbour`, `RenewNodeRelations`, `RenewNeighbours`, `InitializeWorld`, `InitializeNeighbourhood`, `MergeSplits`, `DiscoverUnknownAreas`; `ExpireOldNodes`, `RegisterService`, `DeregisterService`, `DetectedExternalAddress` | dispatchers, threads of `main.cpp` |
| `SpatiaLiteDatabase` (`spatialdb.cpp`) | tables `nodes` and `services` in an SQLite file, the cached self entry `_myNodeInfo`, the listener registry | `Store`, `Update`, `Remove`, `ExpireOldNodes`, the constructor | `Node` |
| `ThreadSafeChangeListenerRegistry`, `NeighbourChangeProtoBufNotifier` (`spatialdb.cpp`, `server.cpp`) | map from session id to listener | `AddListener`, `RemoveListener`, `OnRegistered`, `Deregister`, `AddedNode`/`UpdatedNode`/`RemovedNode` | the database (every change), local services |
| `ProtoBufClientSession`, `AsyncProtoBufTcpChannel`, `NetworkDispatcher`, `DispatchingTcpServer` (`server.cpp`, `network.cpp`) | pending requests, two id counters, the socket, the message loop | `SendRequest`, `SendMessage`, `ResponseArrived`, `Dispatch`, `AsyncServeMessageHandler`, `AsyncMessageLoopHandler` | notifiers, proxies of remote nodes |
| Dispatchers and converters (`messaging.cpp`) | none | translate messages to calls and back | the message loops |
| `main.cpp` | the threads | start-up order: listen to nodes, reactor thread, `EnsureMapFilled`, listen to services and clients, maintenance thread, discovery thread | |
| `config.cpp`, `basic.cpp` | values | parsing, value types | everybody |

### How they interact

* One **reactor** thread reads all sockets and runs all request handlers. The
  **main** thread fills the map at start-up. The **maintenance** thread renews
  relations and expires rows, the **discovery** thread merges and explores, and
  each (de)registration of a service starts a detached thread that runs
  `RenewNeighbours`.
* All of them call `SafeStoreNode`, which reads the table (`Load`, counts,
  lists), asks the remote node for its permission when we are the initiator of
  the relation, and then writes (`Store` or `Update`). No lock spans the steps.
* All of them share one SQLite connection opened with a full mutex. A statement
  is atomic; `Store`, `Update` and `Remove` are sequences of statements outside
  any transaction.
* A change calls every registered listener on the changing thread; the listener
  sends a request to its local service over the session the reactor reads.

### What is hard

Stale reads in `SafeStoreNode` and in the read-modify-write of the self entry;
an expiration round working on the result of an earlier query; multi-statement
database calls that interleave or are cut by the end of the process;
`sqlite3_changes` of a shared connection; matching responses to requests with
two counters; a response arriving after its timeout; a message loop ended by one
failing handler; the empty registration key of the listeners; the reactor
waiting for itself; the neighbour limit that is exceeded on purpose and must come
down again; two nodes that write the two sides of one relation at different
times, with calls that cross, are lost or are served after their sender gave up;
a search over lists that grow while they are worked off. `PROJECT.json` lists each hazard at its line with the properties
aimed at it.

### What makes each component correct

* Node: our own row is permanent and unique; nothing but first-hand positions is
  stored; a neighbour is not downgraded; an excess of neighbours goes away;
  the reactor asks no remote node while it serves a relation request; colleagues'
  bubbles are disjoint.
* Nodes among each other: a relation is the same on both sides and somebody
  renews it; what disagrees is forgotten; a service becomes known to neighbours;
  a client's exploration is answered.
* Bootstrap: it ends, it gives up only when nobody is left to ask, and a node
  somebody would have joins.
* Database: rows appear, are renewed and disappear only as `NodeTable` says;
  a call nobody interferes with does what it reports; a round of expiration finds
  its rows; services belong to rows; a registered service stays registered.
* Listeners: each subscriber is registered, nobody removes another's listener,
  who has left is not called (the first and the last do not hold, see
  `listeners_second` and `listeners_left`).
* Sessions: a response reaches its own request, a promise is set once, an open
  connection is read, the pending requests are those without a response.

## 2. Modules

| Module | Contents |
|---|---|
| `NodeTable` | abstract specification of the node table: what its readers may rely on |
| `LocNetNode` | class `Node`, its threads and the environment of remote nodes |
| `SpatialDb` | class `SpatiaLiteDatabase`, one action per SQL statement |
| `Session` | one connection: requests, responses, the message loop |
| `ChangeListeners` | the registry and the notifiers |
| `Peers` | nodes that all run the code: relations, roles, renewal, exploration, lost and late calls |
| `Bootstrap` | `EnsureMapFilled`: which nodes are asked, and when the search ends |
| `MC…` | small instances for TLC |
| `LocNetNodeProofs`, `SpatialDbProofs`, `SessionProofs`, `ChangeListenersProofs`, `BootstrapProofs` | theorems about each component |
| `PeersProofs`, `PeersRelationProofs` | types of `Peers`; its relations, pair by pair |

Operators named as faulty variants (`CheckRankOffByOne`, `DeleteAgain`, …) are
used by no specification. Each is a plausible mistake in the operator that
follows it, kept to show that a property notices the difference.

### LocNetNode

`nodes` is the table: position, relation, role and the ticks until `expiresAt`.
Each thread has a step `pc`, the caller of `SafeStoreNode` (`job`), its argument
(`plan`), the relation `Load` found (`stored`), the position to be written
(`fresh`) and the entries its loop has left (`todo`). The steps of
`SafeStoreNode` are the statements between which other threads can run: `Load`,
`CheckBubble`, `CountNeighbours`, `CheckLimit`, `CheckRank`, `AskAccepted` /
`AskFailed` (the remote call), `WriteEntry`. The callers are `Request`/`Reply`
(the four handlers, on the reactor), `RenewNodeRelations`, `RenewNeighbours`,
`EnsureMapFilled` with `InitializeMap`, `MergeSplits`, `DiscoverNode`.
Expiration is `QueryExpired` and one `Remove` per row. `Restart` ends the process
at any step and runs the constructor of the database on the file that is left.

Three details of the code decide properties and are kept: the own row's
`expiresAt` is `max(time_t)` truncated to a 32-bit integer, so by its value that
row is always expired; `neighboursByDistance[target - 1]` may not exist, in which
case the comparison is a free choice; the answer to a permission request replaces
the planned entry after all checks were made.

Remote nodes are the environment. They send any request at any time, answer with
any of their own positions, deny or do not answer, and tell any position of
others. `InitializeWorld` and `InitializeNeighbourhood` are abstracted to the calls of
`SafeStoreNode` they make, with any candidate (`Bootstrap` has the choice of
candidates, `Peers` has both ends of a call). Services, contacts and ports are
left out here (`SpatialDb` has the services). `DiscoverNode` makes its two queries,
for a node to ask and for the node it is told of, in one step. `said` is a history variable: the
positions each node has stated of itself.

### SpatialDb

`relation`, `old` and `services` are the two tables, `changes` is
`sqlite3_changes`, `self` the services of `_myNodeInfo`. A call goes through
`Insert` or `Update`, `CheckUpdated`, `ClearServices`, `InsertService` per
service, `ServicesStored`, `NotifyStored`; a removal through `Remove` (its
`Load`), `RemoveServices`, `Delete`, `CheckDeleted`, `NotifyRemoved`, and then
`NotifyExpired`, since `ExpireOldNodes` notifies a second time. `Restart` may
happen between any two statements. One subscribed local service stands for the
listeners; `view` is the neighbourhood it has been told of. `alone`, `hit` and
`registered` are history variables used by properties only.

The SQLite data types are reduced to what a constraint distinguishes: a primary
key violation makes `INSERT` fail, a missing row makes `UPDATE` and `DELETE`
affect nothing. The foreign key of `services` is declared but not enforced, as
SQLite needs `PRAGMA foreign_keys` and the program never gives it.

### Session

The class is used in two ways, chosen once by `waits`: a connection to a remote
node, used by one thread at a time whose `Dispatch` waits for the answer
(`TRUE`), and a connection accepted from a local service, on which any thread
that changes the table sends notifications (`FALSE`). `SendRequest` takes its id under the lock;
`SetId` and `WriteMessage` are the unlocked read and increment of the channel's
own counter, so the increment may start from either value. The peer follows the
protocol: it answers a request at most once, with the id it read, in any order,
late or never. `kept` says whether an object beside the loop holds the session;
without one, the end of the loop closes the socket. A subscription may add such an
object: its listener, unless `AddListener` ignores it.

### ChangeListeners

`AddListener` looks up `sessionId`, which is empty until `OnRegistered`, so the
key is the empty string (`NoId`) for every listener. `Change` copies the registry,
`Notify` and `NotifyFailed` are the calls made from the copy. `NotifyFailed` is the
`catch` of the notifier, which deregisters: by then the listener has the id of its
connection, `RemoveListener` erases that key, and the entry under the empty key
stays. In this code no listener ever leaves the registry.

### Peers

`row[a][b]` is what a's table holds about b; `call[a][t]` the remote call one of
a's four callers waits for (the reactor while it explores for a client, the
maintenance loop, `RenewNeighbours`, and whoever contacts new nodes); `late` the
requests whose sender has given up. `SafeStoreNode` consults the table and asks;
`Accept` is the handler at the other side, on its reactor, which writes first (its
`Load` and its write are one step here; `LocNetNode` has them apart);
`Finish` delivers the answer, on the asker's reactor, and writes as the initiator.
`Timeout` may come at any moment, `AcceptLate` serves what was timed out.
`Explore` blocks the reactor, which then neither serves nor delivers. Time is
counted in maintenance periods, which are hours, while calls end within seconds:
`Tick` waits for the calls of its period. The limits of the neighbourhood and the
bubbles, which `LocNetNode` has, are left out. `broken` and `sound` are history
variables: a pair is broken from the moment a call between the two times out, is
overtaken by another write of its row, or a process ends, until a call that
nothing disturbed succeeds.

What two nodes go through, all found as states of this module:

* Two nodes contact each other at the same time. Each accepts the other first,
  so both `Store` calls fail; both rows say Acceptor, nobody renews, and both
  rows expire although no message was lost.
* The answer to an upgrade is lost. One side has a Neighbour it expects to be
  renewed, the other a Colleague it renews, and every renewal is refused as a
  downgrade until both rows expire. A colleague plan loaded before the row became
  a neighbour has the same effect.
* A request that timed out is served later and turns the roles round.
* Renewals carry the node info of the configuration, so what a neighbour that is
  the acceptor knows of a node's services never changes (`peers_services`).

### Bootstrap

`phase` is where the thread is, and the other variables are the locals of the two
functions: `tried`, `atSeed` and `cands` of `InitializeWorld`; `near`, `queue` and
`asked` of `InitializeNeighbourhood`. One pass of a loop is one step, with every
outcome of its calls: no connection, an exception after the node was stored or
after the count was told, or an answer. The tables of the other nodes are fixed
(`tables`), but each may or may not have an entry of ours when it answers.
`SafeStoreNode` is reduced to whether it stores: the remote node must be
`willing`, and a table that is not empty may refuse for reasons `LocNetNode`
models. `Accept` is the reactor, which adds rows at any moment. The candidate
vector is a set, since its order is that of `ORDER BY RANDOM()`; the queue of the
second function is a sequence. Other nodes are not at our own position: the
assertion of line 644 is not modelled.

Two behaviours follow that the properties allow for. `triedNodes` holds addresses
without ports, so of several nodes behind one address only one is tried in a
round, and two failing seeds of one address are not noticed as "all seed nodes
tried and failed" (line 581). The seeds are shuffled once, before the retry
loop, and the first one that answers ends the loop over them: as long as it leads
nowhere, the same seeds are used in the same order every time.

## 3. Runs

All passing runs check deadlock, except `session`: a connection may end, and the
requests are bounded.

| Run | Instance | Checks |
|---|---|---|
| `node_growth` | reactor, discovery and one detached renewer, 2 other nodes of which one moves, 1 random node per merge, 1 discovery attempt, 1 restart | `SelfUntouched`, `NoHearsay`, `ReactorNeverAsks`, `IInv` |
| `node_maintenance` | maintenance and reactor thread, 2 other nodes that do not move, fairness | `TypeOK`, `ExpiredStillStored`, `DowngradeNeedsRace`, `ExcessNeighboursExpire`, refinement of `NodeTable` |
| `db_statements` | 2 threads, 1 other node, 1 service, 1 restart | `DbInv`, `AloneInv`, `UncontendedCall`, `RemovalsFindTheirRow`, `ServiceLostByRace`, refinement of `NodeTable` |
| `session` | 2 senders, waiting or notifying, 5 requests, all kinds of peer requests | `SessionInv`, `ResponseMeetsItsRequest`, `OpenConnectionIsRead`, `PendingUnanswered`, `PromiseSetOnce` |
| `listeners` | 2 connections, 2 threads, 3 subscriptions | `RegistryInv`, `NotDisplaced` |
| `peers` | 2 nodes, entries live 2 periods, 2 outside events per period, fairness | `TypeOK`, `PeersInv`, `CrossingCallsAgree`, `ExpiresOnlyBroken`, `RelationsSettle`, `NodesKeepServing` |
| `bootstrap` | 3 other nodes, two behind one address, 4 networks, 4 sets of willing nodes, 5 lists of seeds, fairness | `BootInv`, `WorldExhausted`, `NeighboursExhausted`, `RoundEnds`, `Joins` |

The other runs end with a counterexample; each states a sentence of the
repository that the code does not keep, quoted under `findings` in
`PROJECT.json`.

| Run | What the trace shows |
|---|---|
| `node_bubbles` | the nearest colleague does not overlap, a farther one with a larger bubble does |
| `listeners_second` | the second subscriber is answered and not registered |
| `listeners_left` | a listener that deregistered after a failed notification is still in the registry |
| `peers_services` | a service that stays registered never reaches a neighbour with the acceptor's role |
| `peers_explore` | the node asked by an exploration answers, and the answer is given up undelivered, in a network so calm that no other caller gives up an answered call |

Weaker forms of what the code intends are checked where the intention itself
fails. `DowngradeNeedsRace`: a colleague plan read before the row became a
neighbour does overwrite it, but nothing else downgrades a neighbour.
`UncontendedCall`: a call that another thread disturbs may read the other's
`sqlite3_changes`, or leave services without a row; undisturbed calls do not.
`ServiceLostByRace`: `DetectedExternalAddress` and its like write back the self
entry they copied, so a service registered in between is lost; a write of that
entry that no other call overlaps loses none. `ReactorNeverAsks` is about relation
requests; the handler of an exploration does wait on the reactor
(`peers_explore`). `ExpiredStillStored` says that a round of expiration meets its rows, not that
they are still expired: a row renewed after the query is removed fresh.
`ResponseMeetsItsRequest` and `OpenConnectionIsRead` are about connections with
one waiting thread: two notifying threads may send one id twice, and the response
to the second finds no request, which ends the reader of an open connection.
`CrossingCallsAgree` and `ExpiresOnlyBroken` are about pairs that are not broken,
and `RelationsSettle` says how the broken ones end.
The same traces end a renewal with the "implementation problem" of line 439, when
the neighbour is removed between `Load` and the neighbour list (`CheckRank`).
On an accepted connection a request whose handler throws ends the reader too
(`ServeRequest` with `"failing"`), while a subscribed listener keeps the
connection open. A neighbour stored between `GetNeighbourNodes` and `AddListener`
is never reported to the subscriber.

### Bounds

* Two other nodes and `TargetSize = 1`: one neighbour within the limit and one in
  excess, the smallest neighbourhood in which rank, limit and excess all occur.
  `node_bubbles` uses three nodes, the smallest number in which the nearest
  colleague and the overlapped one differ.
* `Lifetime = 1`: a row is fresh or expired. Properties depend on no other value.
* `MaxRestarts`: one restart reaches every table a stopped process can leave; the
  restarted process reads nothing else. `node_growth` has one, after which discovery
  does not run again; `node_maintenance` has none, to keep it small; the theorems
  cover any number.
* One other node and one service type in `SpatialDb`: every call is about one row,
  and two threads contend for it. `DbInvariance` covers rounds of many rows.
* Positions in `MCLocNetNode` lie on one line from our own. Distances are
  chosen, in units of 100 m, and the bubbles are `log10(d + 2500) * 501 - 1700` at them.
* `MergeCount = 1`, `DiscoveryAttempts = 1`: one pass of each loop; the loops
  carry nothing from one entry to the next but the table.
* `node_growth` explores no state in which another node's row has aged
  (`NoTimePasses`): without the maintenance thread nobody reads `expiresAt`.
* Two threads at work at a time: the reactor and the maintenance thread in
  `node_maintenance` (which also fills the map, as the main thread does at start-up),
  the reactor and either discovery or a renewer in `node_growth` (the constraint
  `OneAtATime`). The races are between pairs of threads; the theorems cover any
  set of threads, all at work together.
* `MaxRequests = 5`: several timed-out requests pending at once, for two senders.
* Two nodes in `Peers`: a relation is between two, and a third would only add
  events. `Lifetime = 2`: a renewal may fail once without the entry being lost.
  Two events per period: two calls that cross, or a call and the end of a
  process; with one event neither simultaneous contact nor a call overtaken by
  another happens. The two refutations need one event per period only.
* Three other nodes in `Bootstrap`: a seed, a node it leads to, and one behind the
  seed's address. `TargetSize = 2` is small enough for answers to be cut (our own
  entry takes a place) and large enough for lists of random nodes to be complete,
  which `Joins` relies on.

### Fairness

`LocNetNode!FairSpec`: weak fairness of each thread's steps, of `Reply` and of
`Tick` (threads are scheduled by the operating system and time passes; the remote
call ends by its timeout, `AskFailed`), and strong fairness of `InitializeDone`:
a round of exploration tries each node it hears of once (`triedNodes`,
`askedNodeIds`), so it ends. No fairness is assumed of requests or of accepting
answers. `Peers!FairSpec`: the threads and
the clock go on, as a whole; a period has finitely many steps and `Tick` waits
until all its calls have ended, so that no single thread starves. Nothing outside
(contacts, services, crashes, restarts) has to happen, and `RelationsSettle` asks for
agreement only once it has stopped happening (`calm`). `Bootstrap!FairSpec`: the
searching thread runs, and the maintenance thread, which bootstraps again, comes
to an empty table; nodes need not expire nor call. Runs that refute an action
property use `FairSpec` too, so that no trace relies on a thread that has stopped.

## 4. Proofs

All theorems hold for every value of the constants that satisfies the named
assumptions (`ThreadsAssumption`, `NodesAssumption`, `BoundsAssumption`,
`NullAssumption`; `DbAssumption`; `SessionAssumption`; `ListenersAssumption`; the ones of
`Peers` and `Bootstrap`). TLC evaluates them in every run. Each inductive
invariant is also an invariant of a run.

**LocNetNode.** `Invariance` proves the inductive invariant `IInv`, from which
`TypeCorrect`, `SelfRowSafe`, `OnlyFirstHand`, `ExpirationCompletes`,
`ReactorFree` and `DowngradeOnlyByRace` follow. The properties are not inductive
by themselves: that our row survives `WriteEntry` needs to know that a thread
past the checks has a plan for another node (`CheckedPlan`); that a written
position is first-hand needs the provenance of `fresh` along the call
(`StatedPositions`: an acceptor writes what the requestor said, an initiator what
it was answered); that the reactor asks nobody needs that its plan is always an
acceptor's (`ReactorServes`). `DowngradeOnlyByRace` shows that the check of
`SafeStoreNode` is right for what `Load` returned, so that only a stale read
breaks the promise of line 379. `Refinement` maps the table to `NodeTable`: lemma
`TableSteps` says which actions touch the table, the lemmas `TableWrite`,
`TableRemove` and `TableAge` map these.

**SpatialDb.** `DbInvariance` proves `DbInv`; `DbTypeCorrect` and
`RoundFindsItsRows` follow and `DbRefinement` shows that the statements
implement `NodeTable`. The strengthening says that only the maintenance thread
removes (`CallsWellFormed`), that what it removes is an entry of its current
round (`RemovesOfRound`), and that writers never turn a row into "Self"
(`SelfRowOnly`).

`UncontendedCalls` (a call nobody disturbs does what it reports) and
`ServicesLostOnlyByRace` follow from a second inductive invariant, `AloneInv`
(`AloneInvariance`): for a thread that has been alone since its call began it says
what the statements before its current one have done. `CallProgress` has one line
per label: the row is written before the services are cleared, the services stored
and those pending make up the argument, `sqlite3_changes` still counts this
thread's own statement. The other threads are idle, which is why a call that
starts ends the solitude of this one instead of invalidating what it knows. The last
line, about the cached self entry, is what `ServicesLostOnlyByRace` needs: an
undisturbed write of our own entry takes away only what it was asked to.

**Session.** For any number of senders: `PromiseInvariance`, `PromisesSetOnce`,
`PendingIsUnanswered`, `SessionInvariance`; `ResponsesMatch` and
`LoopOutlivesTimeouts` speak of connections with `waits`. `PendingUnanswered` is
what makes `PromiseInv` inductive: a promise in the map has no value yet, so none is
set twice, and nothing but a response takes an entry away, so the map grows with
every request that is never answered. The further strengthening is
that on these at most one thread is between its request and its answer
(`Exclusive`), so that the two counters advance together (`CountersAligned`) and
what is on the wire is still pending (`WireAligned`): a request that timed out
keeps its entry, and that is why a late response does not end the reader.

**ChangeListeners.** `RegistryInvariance` proves `RegistryInv`: a listener not yet
registered has no session id, so that the empty key is the only one in use, and
erasing by the id of a connection removes nothing: who has deregistered, and what
a notifying thread has still to call, is registered. That is the negation of
`LeftIsGone` as soon as anybody has left. `ListenerNotDisplaced`
and `OneListenerOnly` follow: no listener pushes out another, and the registry
cannot hold two.

**Peers.** `PeersTypeCorrect` proves `TypeOK`, which is inductive because it says
with `CallsTyped` that only the reactor waits for explorations and that an
answered call has an answer: whatever is written or served late was a relation
request.

`PeersInvariance` proves `PeersInv`, from which `CallsAgree` and `NoUnbrokenExpiry`
follow, for any number of nodes and any `Lifetime` above one period. Two quiescent
nodes agree, but between the two writes of a call they do not, so agreement is
not inductive. `PeersInv` says for every ordered pair a, b what is true in between:

* `SoundTogether`: of the calls between two nodes all are sound or none is, and
  all are unless the pair is broken. One call that goes wrong spoils those that
  cross it, so no call may repair a pair behind the back of another.
* `AcceptedStays`: what b accepted stays in b's table, fresh, until a was told. A
  crossing call of b cannot lower it, since `SafeStoreNode` refuses to downgrade.
* `UpgradeFollows`: if b holds a as a neighbour, then so does a, or a call of a
  that was accepted as a neighbour is on its way back.
* `RenewedInTime`: in an unbroken pair no row is older than one period; a row only
  the other side has renewed will be renewed by a call already accepted; if neither
  side has, the initiator's maintenance still has the entry before it (`Renews`);
  and one of the two is the initiator, or is about to become it. The last part is
  where two crossing calls matter: each leaves the roles (Acceptor, Acceptor)
  for a while.

A step is about one pair. `StepOfPair` reduces it to that pair: `OtherPairs` and
`PairFrame` show that a pair whose rows and calls are left alone keeps its
invariant, and `PairInTrouble` that a pair in trouble has nothing to keep. There is
then one lemma per action (`AcceptPairs`, `SuccessPairs`, `AskPairs`, `ExpirePairs`,
`CrashPairs`, `TickPairs`, …), and one of the `…Addressed` lemmas for the rest.

**Bootstrap.** `BootInvariance` proves `BootInv` for every finite set of nodes,
network, list of seeds and choice of failures; `WorldIsExhausted` and
`NeighboursAreExhausted` follow. What makes it inductive: every node heard of was
tried, has failed, or still is in the list (`WorldInv`, `FillInv`), across the
passes that take from the list and append to it; the reactor only adds rows, so
that a target once reached stays reached (lemma `AcceptInv`); and a list of
closest nodes has no repetition (lemma `ClosestType`), which is why the walk never
goes to ourselves.

**Only model-checked.** Liveness (`ExcessNeighboursExpire`, `RelationsSettle`, `NodesKeepServing`, `RoundEnds`, `Joins`), which is outside the
prover's reach, and the refuted properties. Every safety invariant and action
property of a passing run is a theorem.

## 5. Not modelled

* The hops of `ExploreNetworkNodesByDistance` after the first: no behaviour
  reaches them. The other read-only requests, except those bootstrap makes: they
  change no state.
* Other nodes' tables changing while a node bootstraps.
* Message framing, partial reads and writes, the byte level of `SendMessage`.
* Field-by-field conversions, configuration, logging, shutdown.
* Failures of SQLite itself (disk full, corruption).
* Vendored libraries (`extlib`), generated protocol buffer code, packaging.

## 6. Plan

Done: all modules, runs and theorems above. Next:

1. **Proofs**: the steps below the liveness properties that need no fairness, as
   that a measure of the two searches of `Bootstrap` decreases with each pass; how a
   broken pair of `Peers` is repaired or forgotten.
2. **Framing**: partial reads and writes, if the sizes of messages and socket
   buffers are worth a model; today a message is one step.
3. **Converters**: address and status conversions as operators with a reference
   definition.
