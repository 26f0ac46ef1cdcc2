# Verification of ris

`ris` is a routing information service. Programs register *services* (names
with an end point) and *payloads* (ids, for instance users) with a **region**;
regions publish what they have; **trackers** follow all regions and answer
where a service or a payload can be reached; a **bus** carries messages to the
regions so found. This directory holds TLA+ modules of the protocol between
regions and trackers, of the tracker's table, of the transfer of snapshots, of
the sessions of the client libraries and of the bus, the TLC runs that check
them, and proofs of their main invariants. Paths below are those of the
repository, under `src/`.

## Inventory

| component | state | operations | what makes it correct |
|---|---|---|---|
| `RIRegionTable` (`src/region/regiontable.cxx`) | region with `version`; lists and indexes of services and payloads | add/rm service and payload, announce (1 s), repeat entries (60 s), farewell, build a snapshot | each version stands for one content; each change is published under the version it makes |
| `RIRegionActor` (`regionactor.cxx`) | loop, table, sockets | API handlers, `$TERM`, shutdown order | farewell is sent; no thread waits for another for ever |
| `RIPublisher`, `ribroker`, `RISubscriber` | sockets | one message per change, PUB -> XSUB/XPUB -> SUB | FIFO per region; may lose |
| `RITrackerTable` (`src/tracker/trackertable.cxx`) | lists of regions, services and payloads in order of the last publication; indexes by name | `on...` handlers, `merge`, `onCheckTimer` (20 ms), `buildSnapshot`, lookups with round robin | an entry is what its region has or had; no entry without its region; silent entries go |
| `PubTracker` (`pubtracker.cxx`) | `m_factories`, capacity 4 | start, feed, drop and complete a factory | one factory per unknown region, each of them erased in the end |
| `RegionFactory` (`regionfactory.cxx`) | snapshot client, cache, product | start, `onSnapshotCompleted`, stop | its product is a state of the region or nothing |
| `RegionSubCacher`, `PubData` | queue of updates | push, `present` | accepts a consistent continuation of the snapshot and nothing else |
| `RegionProduct` | region, two ordered lists, two indexes | snapshot builder and observer | lists and indexes agree, order of last publication |
| `SnapshotService`, `SnapshotServiceWorker`, `SnapshotClient`, `SnapshotClientWorker` (`src/snapshot/`) | workers per requester (capacity 4); stage of the client | request, 100 items per period, sync signals, timeouts on both sides | a completed transfer is the whole package; every transfer ends |
| `SnapshotFeature` | package handed from the loop to the service's thread | `buildSnapshot` (waits for the loop), `onRequest` | a snapshot is atomic; the wait ends |
| `BusProcesser` (`src/region/busprocesser.cxx`) | ready workers in order, queued messages | message from the bus, message from a worker | a worker gets one message per READY; what it could not deliver is reported to a sender that asked (`bus.proto:9`, item 1 of `TODO`; finding 4) |
| `RITrackerActor`, `TrackerSession`, `RegionSession`, `BusReceiver` | sockets | requests with a 1 s timeout | an answer belongs to its request; a route was one of the tracker's when it was asked for |
| `BusSender`, `BusMsgReply` (`src/buscli/`) | expected payloads, count | collect replies and failures | complete means that everybody answered |
| `BusBroker`, `BusWorker`, `BusBackend` (`src/busbroker/`) | unfinished; a `BusWorker` has a `TrackerSession` | `do_work`: group payloads by region and forward, report those without a route | a message goes to the regions of its payloads |
| `FromRegionFactory`, `SubCacher` | not instantiated anywhere | - | - |

How they interact. A region's actor runs one `zloop`: API handlers, timers and
snapshot requests are callbacks of it, so each is atomic. Publications go
through the publisher, the broker and the subscriber into the loop of the
tracker's actor. `RITrackerTable` is the first handler of a chain: messages of a
region it knows it applies; the others it hands to `PubTracker`, which starts a
factory for an announcement and gives every later message of that region to the
factory's cache. The factory's `SnapshotClient` runs a thread of its own that
fetches the snapshot from the region's `SnapshotService` (a thread too, which
asks the region's loop for the package through `SnapshotFeature`) and signals
the tracker's loop. There the cached updates are replayed and the product is
merged into the table.

Hard behaviours: a snapshot races with the publications it must be matched
with; publications are lost; regions crash, restart with version 0, or say
farewell with a message that may be lost; two regions claim one payload; the
tracker is replaced; timers remove entries while messages are under way;
factories are limited. A transfer is cut into periods while the table changes,
and either side may vanish between two of them. Threads wait for each other
when an actor stops. Replies carry nothing that names their request, so a late
one meets the next call; sockets connect again by themselves, also to a region that
was started anew. Workers of a region report, die and come back while messages
arrive. `PROJECT.json` lists each hazard at the line where it bites
with the properties that guard it.

## Modules

| module | models |
|---|---|
| `RouteTable` | abstract: what a tracker's table promises to those who ask it for routes |
| `SnapshotRead` | abstract: what the transfer of a snapshot promises |
| `Lists` | what the program erases from its lists, what of a queue survives a broken connection, as operators |
| `SyncReplay` | `RegionSubCacher::present` and `RegionProduct`'s handlers as operators in closed form |
| `SubCacher` | the same call as the loop it is, on the product's ordered lists |
| `RegionSync` | regions, lossy channels, the tracker's table, `PubTracker`, factories, timers and restarts, composed |
| `RegionSyncInv` | the inductive invariant of `RegionSync` |
| `RegionSyncRoutes` | `RegionSync` as an implementation of `RouteTable` |
| `TrackerTable` | `RITrackerTable`: lists, indexes, ages, timer, round robin, snapshot; implements `RouteTable` |
| `SnapshotTransfer` | `SnapshotFeature`, service, workers and clients, with the loop that owns the table; implements `SnapshotRead` |
| `Api` | `RegionSession` and `TrackerSession` with the handlers of both actors, over `RouteTable` |
| `Bus` | `BusSender`, `BusMsgReply`, `BusWorker::do_work`, `BusProcesser`, `BusReceiver` |
| `MCTrackerTable`, `MCSnapshotTransfer`, `MCApi`, `MCBus` | symmetry sets and the tables to transfer |
| `OperatorLemmas` | lemmas about lists, what is erased from them and concatenations of them; the replay theorem `ReplayExact` |
| `RegionSyncProofs` | of `RegionSync`: types, the inductive invariant, `TableExact`, `NoOrphans`, `FactoriesSound`, the refinement of `RouteTable` |
| `RegionSyncOrderProofs` | `NoRollback`, `LosslessExact` |
| `TrackerTableProofs` | of `TrackerTable`: types, `IndexExact`, `TurnsKept`, `NothingLongOver`, `SnapshotWhole`, the refinement of `RouteTable` |
| `BusProofs` | of `Bus`: types, `CompletedExact`, `InOnePlace`, `OneAtATime` |
| `SubCacherProofs` | of `SubCacher`: types, `PresentExact`, `RecentLast` |
| `SnapshotTransferProofs` | of `SnapshotTransfer`: types, `InStep`, `SuccessHasRegions`, `NoStall`, `OnePeriodInFlight`, the refinement of `SnapshotRead` |
| `ApiProofs` | `TypeOK`, `LateByTimeouts`, `RoutesFresh`, `Barrier`, `VersionsGrow` of `Api` |

How they compose. `RegionSync` takes a snapshot in one step, `BuildSnapshot`, and
a transfer that succeeds hands over exactly that; `SnapshotTransfer` shows that
the code's periods and signals amount to it (`AtomicRead`), and `SnapshotDone`,
`SnapshotFailed` are the `Done` and `Fail` of `SnapshotRead`. `RegionSync` and
`TrackerTable` model one table from two sides, who sent what and when against
lists and clocks, and both are shown to behave like `RouteTable`; `Api` then
uses `RouteTable` itself as the table behind the tracker's handlers. `Bus` uses
of `Api` that a route reply may be late.

### RegionSync

One variable per piece of state, indexed by region: `version` and `content` are
the region's table (names only; both lists as one set), `chan` the messages on
their way to the tracker, `known`, `tver`, `tsvc` and `owner` the tracker's
`m_regions_index`, versions, services and payload owners, `factory`, `snap` and
`updates` the factory's stage, the snapshot built for it and the cached updates.

Each callback of a loop is one action. `AddService` ... `RmPayload` change the
table and publish (`Change`); `PubRegion` and `PubRepeated` are the timers;
`StopRegion` is the destructor's farewell, `CrashRegion` a death without one.
`RecvRegion` ... `RecvRmPayload` are the subscriber's handlers together with the
table's and, for an unknown region, `PubTracker`'s. `BuildSnapshot` is the
region's loop answering `SnapshotFeature`; `SnapshotDone` is the client's signal
in the tracker's loop with replay and merge; `SnapshotFailed` and
`SnapshotNotStarted` are the other two ways a client ends. `CheckTimer` is
`onCheckTimer`, `RestartTracker` a new tracker process.

Abstractions. Time is not counted: a timer may fire at any time, and what it
removes is what can be that old. The code's figures (announcement each second,
repetition each 60 s, timeouts of 30 s and 125 s) say that only a region that is
down, or an entry the region no longer has, stays silent so long once its
messages are drained (`Silent`, `Unheard`); the fault `"silence"` lifts even
this. `CheckTimer` removes any set of such entries in one tick where the code
takes them from the front of its lists, three regions and 100 entries at most.
A tick that repeats several entries is several `PubRepeated` steps; the loop can
do nothing else between them, so the model has more behaviours than the code.
A publication is lost or kept when it is sent. Data other than names (end
points, idc) does not influence the control and is left out. Requests that the
region's API refuses (bad or duplicate names) change nothing and are no steps.

History variables: `hist` (the content of a region at each version of each of
its runs), `inc` and `tinc` (runs), `synced` (nothing missed since the merge),
`losses`, and the message fields `inc` and `fresh` (the message that first
carried its version). The code's guards do not read them.

### SubCacher

The state of one call: the remaining queue, the product, `expect_version`, the
stage of the two loops. Initial states are every snapshot (in every list order)
with every cache of up to `MaxUpdates` updates whose first is the announcement
that started the factory. It connects the closed forms of `SyncReplay`, which
the proofs use, to the code.

### TrackerTable

The three lists are sequences in the code's order, each entry with its age in
ticks; the indexes of regions and payloads are the sets of their keys, the index
of services gives for each name the regions whose entries it points to, in the
order of the round robin. An iterator is named by the key of the entry it points
to, so `IndexExact` is what makes each iterator valid and each entry findable.

`merge` and the handlers `onRegion` ... `onRmPayload` are an action each (a
message about a region the table does not know changes nothing here), so are
`robinRouteService` and `onCheckTimer`; `Tick` lets a unit of time pass, once the
timer's callback has run in it. `PutServices`, `PutPayloads` and `Drop` are the
list operations the handlers share. `buildSnapshot` is the package the table
gives to `SnapshotFeature`. End points and versions decide nothing in these
functions and are left out.

A product has some of the services and payloads, in any order (`Orders`), and
comes with the ages its entries have after the transfer, and these are all the
same in the model; in the code they differ by at most the time of a
transfer, which `MergeAge` bounds.

### SnapshotTransfer

One step per callback of the three loops: of the actor that owns the table
(`Change`, `onRequest`, `Stop`, `Stopped`), of the service's thread
(`onSnapshotReq`, `refuse`, `onBuilt`, `onSyncSignal`, `onTimer`,
`onPipeReadable`) and of a client's worker (one action per function of its
`ZLoopReader`: `onReqReadable`, `pullSnapshotBegin`, `pullRegionBegin`,
`pullRegionOrFinish`, `pullRegionBody`, and the timer). `buildSnapshot` of
`SnapshotFeature` blocks the service's thread: `svc` is then the client it asks
for, and no other action of the thread is enabled. `package` is the member the
two threads share; `left` what a worker has still to send.

A client is one transfer (requester ids are new for each). Its
`SnapshotClientWorker`, `SnapshotClient` and caller are one actor: `finished` and
`gaveUp` are the worker's end, `done` and `failed` what the caller is told, `stop`
the caller's, at any time. Where the service's ROUTER is mandatory a send fails
for a client that is gone, at any item of a period.

`period` is the configured `period_count`; `SnapshotCtx::load` takes any, so one
message per period is among those checked and proved about.

Faults, at most `MaxFaults`: a connection that breaks and is made again
(`Break`), a timeout that fires although something is on its way (a hop slower
than a timeout), a send that fails to a client that lives. Without a fault a
timer fires only when nothing is under way that would put it off (`stalled`).
`Break` cuts any run of messages (`Torn`) out of what is on the way in either
direction: the end, the beginning or the middle. Where the ROUTER is not
mandatory (release builds) messages sent while the peer is away are dropped one
by one and later ones arrive, and a run cut out of the queue after the sending is
the same to the client. `broken` remembers whose connection broke.

What a client does with a message it does not expect depends on its state:
it gives up, `pullRegionOrFinish` only logs it and goes on. `cause` is
"unexpected" in each of these cases, also when what follows the request is no
answer to it, and "refused" only for an answer that refuses.

### Api

A session has the queue of its requests, the queue of its replies and at most
one call it waits for. `Call` is the common part of all synchronous calls,
`Return` and `TimeOut` its two ends, `Async` the common part of the four
asynchronous ones. The actors' handlers take one request each and answer it if
a reply is wanted. Requests and replies carry the number of their call, for the
properties only: `accepted` compares what the code compares, the type of the
reply and for two of the calls the target. `UpdateTable` is any step of
`RouteTable`: the tracker's table changes while requests are on their way.
`since` remembers what that table would have answered since the call.

Two faults, together at most `MaxBreaks`. `Break` cuts a run of messages out of a
session's queues (`Torn`). `Restart` is a region that dies and is started anew,
with an empty table and version 0, behind sessions whose DEALER connects again
without their notice: what it had received is lost, with the replies that had
not left, while requests still in the sessions' sockets reach the new one. `run`
counts the restarts and a reply carries it, which no message of the code does;
`seen` is what a session was told last.

### Bus

A message is named by its id; `toBroker` is the queue of the one `BusWorker`;
`toRegion` and `answers` are sets (the path behind it may reorder); `msgs` and
`pool` are `BusProcesser::m_msgs` and `m_workers` in order; `deaths` counts how
often a worker died or lost its connection. `do_work` uses the first answer its
`TrackerSession` reads, which after a timeout (`getPayloadsRouteInfo`) is the one to an earlier request: `late` holds the
payloads of the requests still to be answered. What lies between `do_work` and
the region, and between the region and the sender, does not exist in the
repository in a working form and is external (see *Not modelled*); the same
holds for workers that reply, since `BusReceiver::reply` always returns before
it sends.

## What the runs check

| run | module | question | result |
|---|---|---|---|
| `subcacher_present` | SubCacher | `PresentExact`: the loop accepts, and produces, exactly what the closed forms say. `RecentLast`: the lists come out in order of last publication | holds |
| `sync_faults` | RegionSync | `TableExact`, `NoOrphans`, `FactoriesSound`, `NoRollback` for one region under crashes, restarts, refused transfers, a lost message and premature timeouts | holds |
| `sync_regions` | RegionSyncRoutes | `IInv` (the proofs' invariant, with `TableExact` and `NoOrphans`), `LosslessExact`, `FactoriesSound`, `NoRollback`, `AnswersRoutes` for three regions, two factories, one contested payload, one unreachable region and a restarted tracker | holds |
| `sync_settles` | RegionSync | `Converges`, `Forgotten` under fairness, with a crash, a restart and a lost message | holds |
| `sync_slow_snapshot` | RegionSync | `Discovered` when snapshots may span an announcement | violated |
| `sync_unreachable` | RegionSync | `NoEmptyRegion` when a snapshot address cannot be connected to | violated |
| `tracker_table` | TrackerTable | `IndexExact`, `NothingLongOver`, `SnapshotWhole`, `TurnsKept`, `AnswersRoutes` for three regions with a service and a payload | holds |
| `snapshot_transfer` | SnapshotTransfer | `InStep`, `NoStall`, `SuccessHasRegions`, `OnePeriodInFlight`, `AtomicRead`, and under fairness `ClientsFinish`, `SlotsFreed`, for two clients and room for one, periods of one message and of two, with a fault and a stop | holds |
| `snapshot_stop` | SnapshotTransfer | `StopCompletes` for one client, without a fault | violated |
| `api` | Api | `LateByTimeouts`, `RoutesFresh`, `Barrier`, `VersionsGrow` for three sessions, with a broken connection or a restart of the region | holds |
| `bus` | Bus | `CompletedExact`, `InOnePlace`, `OneAtATime` for three messages and two workers | holds |
| `bus_unloaded` | Bus | `UnloadedReported`, the same instance with two messages | violated |

Each passing run of a module with a `TypeOK` checks that as well.

The properties:

- `TableExact` - an entry whose versions all arrived with the change that made
  them (`synced`) is what the region had at that version: same services; the
  payloads it owns are the region's; a payload no other region ever had is
  owned. A hole in the versions is noticed by `present()` as long as no
  repetition covers it; `synced` is false for the entries where one did.
- `LosslessExact` - with nothing lost and no crash or restart of the region every
  entry is of this kind, and equals the region's present state once the messages are
  drained.
- `NoOrphans` - nothing in the table points to a region outside it.
- `FactoriesSound` - no factory for a known region (so `merge` never refuses a
  product), at most `Capacity` factories.
- `NoRollback` - as long as the region is in its first run its entry's version
  never goes back, although messages older than the snapshot's build may still
  arrive: they went into the cache.
- `AnswersRoutes` (`RegionSyncRoutes`, `TrackerTable`) - what the table answers is a
  behaviour of `RouteTable`: a region enters with all it has in one step, entries
  are only made for regions that are in, and a region that leaves takes
  everything of it along in the same step.
- `Converges`, `Forgotten` - what a region has is in the table for good when it
  stays up and stops changing; a region that stays down disappears with its
  factory.
- `IndexExact` - no two entries of one key, every entry indexed, every index entry
  with an entry behind it, no entry of a region that is not in the table.
- `NothingLongOver` - the timer stops at the first young entry and merged entries
  are appended with older stamps, and still nothing outlives its timeout by more
  than the age a product may have and the calls its limit costs.
- `TurnsKept` - a region's place in the round robin of a service is put back only
  by being asked, whatever joins, leaves, repeats or times out meanwhile.
- `SnapshotWhole` - a snapshot of the tracker holds what the table routes, once.
- `AtomicRead` - a client that is told of success holds the table of one moment
  after it asked; every other one is told of an error. A client whose connection
  broke may be told of success and miss whole regions, or items, since
  `pullRegionOrFinish` goes on after a message it does not expect; it holds
  nothing the table of that moment had not, and no item under a wrong region. It
  is the refinement of `SnapshotRead`.
- `InStep` - wherever the periods end, whatever is refused or timed out and
  whatever happens to the connections of others, a client never meets a message
  its state has no place for, unless its own connection broke. Two exceptions
  are what the code does: the snapshot of a table without regions, and periods of
  one message, where the sync signal comes in place of the first region.
- `SuccessHasRegions` - of these two exceptions none is ever told as a success,
  not even when lost messages hide the one that was out of place: who is told of
  success was given a region, in periods of two at least.
- `NoStall` - without faults no client of a service that lives times out.
- `OnePeriodInFlight` - never more on the way than a period and its signal, and
  the answer to the request; one signal at most on the way back.
- `ClientsFinish`, `SlotsFreed`, `StopCompletes` - a caller is told how its transfer
  ended; a client that vanished gives its place back; an actor that is told to
  stop stops.
- `LateByTimeouts` - what a call returns is the answer to it or to an earlier call
  of the session, by no more calls than have timed out.
- `RoutesFresh` - as long as none of a session's calls timed out, a call for
  routes returns what the table said at one moment between the call and its
  return, for all the payloads of one call together.
- `Barrier` - when a synchronous call returns and none has timed out, everything
  sent before it, asynchronous or not, has been done.
- `VersionsGrow` - the versions a session is told never go ahead of the region's,
  and never back, but once for each time the region was restarted; no reply of
  its life before follows one of the life after.
- `CompletedExact` - a collection that is complete has an answer for each payload of
  its message, and none twice, whatever answers to earlier messages come between.
- `InOnePlace`, `OneAtATime` - a message is kept, with one worker, or gone; a worker
  has one message at a time, and at most one more for each time it died: a READY
  from before that is read when it is back counts once more. Failing sends, late
  routes and the deaths of others do not matter.
- `UnloadedReported` - when nothing is on the way any more and a sender that asked
  for failures still waits, what the region keeps of its message is among the
  failures it has. Violated (finding 4).

### Bounds

`MaxVersion`, `MaxInc`, `MaxChan`, `MaxUpdates` and `MaxLoss` bound the version,
the runs of a region, messages in flight, cached updates and losses; each is a
guard of the action that would exceed it. `sync_faults` has 3 versions, 2 runs, 2
messages in flight, 3 cached updates and 1 loss: enough for a snapshot between
two changes with a third cached behind it, for a gap with and without a
repetition that covers it, and for updates of two runs in one cache.
`sync_regions` keeps the same for three regions and one payload with 2 versions
and one message each in flight, with fewer factories than regions; regions are
not symmetric there (one is unreachable), so symmetry is not used.
`subcacher_present` goes up to 3 updates over 3 versions, any kinds and names,
including sequences no region sends.

`tracker_table` has no bound but the age: three regions, a service and a payload,
a region's timeout of one tick and an entry's of two (the code's are 30 s and
125 s), limits of two per call where there are three regions and three entries
of the service, and products that are up to one tick old: a list out of order,
a limit that is reached and a region that goes while its entries are young all
occur. Ages stay finite because the entries go, which `NothingLongOver` is about.

`snapshot_transfer` has two clients for one place, periods of one message and of
two, and tables whose packages have two messages and seven: in periods of two
that is one and four, one of them ending in each of the client's states that can
see a signal; one fault (`MaxFaults`) and a stop at any moment. `snapshot_stop`
needs one client and no fault. A service of the code has
capacity 4 and periods of 100; that a client is one transfer keeps the run
finite, and clients share nothing but the places.

`api` has two RegionSessions, so that results of one cross changes of the other,
and a TrackerSession; four calls (`MaxCalls`) over the sessions of the region and
three (`TrackerCalls`) over that of the tracker, which is enough for a handshake,
a call that times out and one that reads the reply of its predecessor, and one
broken connection or restart (`MaxBreaks`). The two actors share nothing, neither
tables nor sessions, so what can happen with both is what can happen with each:
the constraint `OneActor` leaves it at behaviours in which only one kind of
session has called. `bus` has three messages
(`MaxMessages`), a mark of two, so that the third message drops the first, two
workers and a fault (`MaxFaults`: a worker that dies, a send that fails, a tracker
that is late). Sessions of a kind, regions, payloads and workers are
interchangeable where a run declares symmetry; no liveness is checked there.

Deadlock is checked in `tracker_table`, whose clock never stops. In the other
runs it is not: the bounds, a finished call in `SubCacher`, and an actor that
has stopped with all its clients served really end the system.

### Fairness

`FairSpec` assumes that messages are delivered (`WF` of `Deliver`: the
subscriber reads its socket whenever it is readable), that a transfer ends (`WF`
of `FactoryStep`: the client's timeout of 3 s ends it otherwise), and that timers
keep firing: `SF` for the announcement, for the repetition of each entry and for
the expiry of each entry, since a timer callback may be disabled again and again
by the bounds or by a message just received but its time comes in every period.
Starting, stopping, changes and faults are never fair. `Prompt` restricts
announcements and repetitions to moments when no transfer runs and nothing is on
its way; it says that a transfer takes less than a second, and the run
`sync_slow_snapshot` shows what happens without it.

`FairSpec` of `SnapshotTransfer`: the loops run and read what arrives (`WF` of the
thread's, the actor's and the client's callbacks), and the two timeouts fire once
nothing is under way that would put them off (`WF` of the timers under `stalled`).
Nobody has to start, to change the table, to stop or to break anything. Weak
fairness suffices, for no step of another client or of the table disables these
callbacks: what is on the way to somebody waits in a queue of its own, and a
thread that is asked for one package answers it before it reads again.

`snapshot_transfer` checks its safety and its liveness in one run of `FairSpec`.

The other modules make no assumption of fairness.

## Findings

1. **A slow snapshot is never accepted** (`regionsubcacher.cxx:82`,
   `sync_slow_snapshot`). `present()` wants the update behind the match to carry
   the next version. An announcement cached during the transfer repeats the
   version, so the product is dropped and the next announcement starts anew. A
   region whose snapshot regularly takes longer than the second between two
   announcements stays unknown for ever. `test/test_ris.cxx:369` demands that
   regions of 50000 payloads (about 500 round trips of a transfer) be known
   after six seconds.
2. **An empty region enters the table** (`snapshotclient.cxx:96`,
   `sync_unreachable`). A client whose worker cannot connect signals 0. For a
   region at version 0 the empty product "presents" and is merged under the
   empty id, which `ritypes.cxx:95` asserts never to exist when regions are sent
   to a client. A wildcard
   address, like the one `test/region.conf` names as the default for
   `snapshot_address` (`tcp://*:6502`), is announced as it is and can be bound but
   not connected to.
3. **An actor that stops can wait for ever** (`snapshotfeature.cxx:21`,
   `snapshot_stop`). The service's thread waits in `buildSnapshot` for the loop of
   the actor, without a limit. A request that arrives after that loop has ended
   on `$TERM` and before the thread has read its own leaves the two waiting for
   each other: the actor's thread in `zactor_destroy` of the service, the
   service's for an answer of a loop that is over. A region then never says
   farewell; `test/test_ris.cxx:443` destroys a region while trackers run and `:448`
   demands that a second later it is forgotten. `RITrackerActor` is built the
   same way.

4. **What a region cannot deliver is not reported** (`busprocesser.cxx:94`,
   `bus_unloaded`). `proto/bus.proto:9-10` says of a message whose sender asks for
   failures that "broker and region will send a reply message to sender if there
   are bad payloads". The region sends none. A message that finds no worker is
   put into `m_msgs`; no function takes it out when a worker becomes ready, and
   above the mark the oldest is dropped in silence. The sender waits for its
   timeout. Item 1 of `TODO` names the missing half: the region's `BusProcesser` is to
   return the payloads it did not load when the sender asks for them.

One thing the runs show contradicts no line of the repository and is left as a
property: after one timeout a session may return the answer to the previous call
for ever (`LateByTimeouts` allows exactly that).

## What is proved

For every value of the constants that the modules' assumptions allow (any sets of
regions, services, payloads, sessions, clients, workers and tables, any bounds,
any limits and timeouts, any faults). `TableAssumption`, `BusAssumption` and
`BoundsAssumption` want the sets that are counted or put in order to be
finite, which a program's memory makes them. `TablesAssumption` says that what is
transferred is a list of regions, each with a list of items. A period may have
any number of messages.

| theorem | module | statement |
|---|---|---|
| `ReplayExact` | OperatorLemmas | if the snapshot is the state at version v and each update behind the match is the change that made the next version, the replay is the state at the last version |
| `TypeCorrect` | RegionSyncProofs | `Spec => []TypeOK` |
| `Invariant` | RegionSyncProofs | `Spec => []IInv` |
| `MergedEntriesExact` | RegionSyncProofs | `Spec => []TableExact` |
| `NothingOrphaned` | RegionSyncProofs | `Spec => []NoOrphans` |
| `FactoriesAlwaysSound` | RegionSyncProofs | `Spec => []FactoriesSound` |
| `RegionsAreRoutes` | RegionSyncProofs | `Spec => AnswersRoutes`: `RegionSync` implements `RouteTable` |
| `NeverRolledBack` | RegionSyncOrderProofs | `Spec => NoRollback` |
| `LosslessEntriesExact` | RegionSyncOrderProofs | `Spec => []LosslessExact` |
| `TableTyped` | TrackerTableProofs | `Spec => []TypeOK` |
| `TableIndexExact` | TrackerTableProofs | `Spec => []IndexExact` |
| `TableTurnsKept` | TrackerTableProofs | `Spec => TurnsKept` |
| `TableAnswersRoutes` | TrackerTableProofs | `Spec => AnswersRoutes`: `TrackerTable` implements `RouteTable` |
| `TableNothingLongOver` | TrackerTableProofs | `Spec => []NothingLongOver` |
| `TableSnapshotWhole` | TrackerTableProofs | `Spec => []SnapshotWhole` |
| `BusTyped` | BusProofs | `Spec => []TypeOK` |
| `BusCompletedExact` | BusProofs | `Spec => []CompletedExact` |
| `BusInOnePlace` | BusProofs | `Spec => []InOnePlace` |
| `BusOneAtATime` | BusProofs | `Spec => []OneAtATime` |
| `SubTyped` | SubCacherProofs | `Spec => []TypeOK` |
| `SubPresentExact` | SubCacherProofs | `Spec => []PresentExact` |
| `SubRecentLast` | SubCacherProofs | `Spec => []RecentLast` |
| `TypeCorrect` | SnapshotTransferProofs | `Spec => []TypeOK`: with it the workers never exceed the capacity |
| `TransferInStep` | SnapshotTransferProofs | `Spec => []InStep` |
| `TransferSuccess` | SnapshotTransferProofs | `Spec => []SuccessHasRegions` |
| `TransferNoStall` | SnapshotTransferProofs | `Spec => []NoStall` |
| `TransferOnePeriod` | SnapshotTransferProofs | `Spec => []OnePeriodInFlight` |
| `TransferAtomicRead` | SnapshotTransferProofs | `Spec => AtomicRead`: `SnapshotTransfer` implements `SnapshotRead` |
| `ApiTyped` | ApiProofs | `Spec => []TypeOK`: with it the version never exceeds the number of requests made |
| `RoutesAreFresh` | ApiProofs | `Spec => []RoutesFresh` |
| `AnswersLate` | ApiProofs | `Spec => []LateByTimeouts` |
| `CallsAreBarriers` | ApiProofs | `Spec => []Barrier` |
| `VersionsNeverBack` | ApiProofs | `Spec => VersionsGrow` |

`TableExact` is not inductive: a merge is right because the messages in the cache
are true, and these are true because they were when they were sent. `IInv` adds
that. `HistoryTrue` says that a region's history ends in its present and is
empty beyond; `MessagesTrue` that every message, in flight or cached, agrees with
the history at the version and run it carries and, if fresh, is the step that
led there; `SnapshotsTrue` that a built snapshot is a past state; `EntriesPast`
that a synced entry names a version that existed. The argument: history only
grows, so that true statements about the past stay true under every step of a
region; each handler of the tracker carries truths from the channel to the cache
or the table; a merge is `ReplayExact`, where `NoOrphans` gives that the region
had no services in the table before and `Exclusive` that nobody took its
payloads. `ReplayExact` is proved by induction on the length of the replay. The library's
induction theorems have a parameter that is an operator, which the provers
cannot instantiate; the inductions here take the least counterexample instead
(`NatLeast` and `NatSet` of `OperatorLemmas`: a set of numbers that has 0 and with
each number the next has them all).

`FactoriesSound` needs that the regions with a factory are finitely many, which
holds although the regions need not be: `FactoriesInv` adds it, and each handler
starts one factory at most, ends some, or takes a region in whose factory it
ends in the same step.

`RegionsAreRoutes` maps each action to a step of `RouteTable` or to none: an update
or a repetition to `Provide` or `Carry`, a merge to `Enter`, everything that removes
something to `Leave`. The one that is not plain is `Leave`: that nothing is left of
a region that goes is `NoOrphans` of the state the step reaches, so the
refinement rests on `IInv`. The entry of the empty id (finding 2) is a region
without services there.

`NoRollback` needs the order in which versions travel: `OrderInv` says of a region
in its first run that the versions in its channel do not decrease and do not
exceed its own, and that no update in the cache and no entry in the table is
newer than a message still in the channel (farewells, of version 0, excepted).
A merge keeps it because the product has the version of the last update cached,
which is `Consecutive` at the end of the cache.

`LosslessExact` adds to `IInv` and `OrderInv` that nothing is missing. `Fits` has three
parts. `ChainFits`: the versions from the entry, or from the last cached update,
through the channel to the region follow one another, each either repeated or one
more with the change that made it, so that `Consecutive` in a cache means fresh
updates only. `StageFits`: a region with an entry has no factory, a region without
a factory no cache, and an entry is synced. `EndFits`: a region that ended has its
farewell as the last message, and no entry when the channel is empty; so that what
`Unheard` lets time out, when it belongs to a region with an entry, would be in the
entry and not in the region's content with nothing under way, which `TableExact`
excludes.

`IndexExact` and the types of `TrackerTable` are inductive together: each handler
keeps them because it takes a key from a list and its index in the same call.
`AnswersRoutes` and `TurnsKept` follow step by step from them; that nothing a region
provided is left when it goes is `IndexExact` of the state reached, as in
`RegionsAreRoutes`. `NothingLongOver` is not inductive, for the age of one entry says
nothing about when the timer will come to it. `Timely` says of each list that an
entry is older than one before it by at most `MergeAge`, and that its age and the
calls of the timer that its place still costs (its place divided by the limit) are
together not above the bound. A tick adds one to the age; a call of the timer
takes one limit's worth of entries from the front or stops at one that is young,
behind which nothing is older by more than `MergeAge`; since lists have no key
twice, no place is beyond the number of keys. `SnapshotWhole` rests on what a
concatenation of blocks contains (`Flatten...` in `OperatorLemmas`).

In `Bus` nothing records where a message is. `Track` says that there are functions
of the message's id (`place`, who holds it, which payloads were routed) with which
all queues and sets agree; each action moves one message from one place to the
next. `InOnePlace` follows as the places are different, `CompletedExact` since what
was routed and what was reported as failed are disjoint although a late route may
be another message's. `OneAtATime` adds `Tokens`: reports under way, places in the
pool and messages of a worker are together no more than one, if it is connected,
and one for each time it died: every step turns one into another, and a death
leaves behind what a worker that was connected had.

`SubInv` follows the loops of `present()`: what is taken is a prefix of the cache;
before the match no update has the snapshot's version; behind it the product is
`Replayed` of the prefix, and in each list whatever stands behind an entry that was
published was published after it (`Ordered`). The sets of lists are those without
repetition, which `Touched` keeps.

The type invariant of `SnapshotTransfer` contains `Cardinality(workers) <= Capacity`,
which is not a matter of types: the service compares the capacity when a request
arrives and adds the worker when the feature has answered. `Places` says that
between the two the place of the client asked for stays free, since the service
takes no other request meanwhile.

The other theorems about it share the invariant `FlowInv`. `Script(t)` is all that a
client of the table `t` is sent, the answer to its request and the package. For a
client whose connection did not break `Follows(c, p)` says that it has read `p`
messages of it: its stage and its builder are what these `p` messages make of them
(`Reads`), what is on its way is the part of the script behind `p`, with at most
one sync signal, at the end (`Flight`). What the service's worker keeps is the end
of the script (`Remains`), for a client whose connection broke, too. A worker
dropped leaves a client waiting, never out of step. `Turns` says that between
service and client one of the two queues is empty, so that neither sends while
the other does; losses keep that, and a table that changes meanwhile does not
matter since the package was built from `taken`. `Lively` adds, as long as there is no fault and the
loop runs, that for a client that waits something is under way that ends in its
last message. `InStep` follows by comparing the message at `p + 1` with the stage:
where in the script a region begins is `Layout`, that a client in a region finds an
item or the region's end next is `BodyRead`, between two regions `BetweenRead`. With
periods of two or more the first signal comes behind the second message of the
package, which is why only shorter ones put it where a region has to begin.

What holds after a loss is `HeldInv`. There the client no longer knows its place,
but order survives: what is on the way is, but for signals, a subsequence of the
script between the last message read and the last one sent (`Ordered`, `Holding`),
and cutting a run out of a subsequence leaves one (`TornThins`). So a client that
reads a region holds items of that region, or has read past its end (the end or
the next beginning was lost) and then never meets the end it waits for, since
region ids differ (`InRegion`); only from within a region does it come to
`RegionOrFinish`, and only from there to a success. That gives `SuccessHasRegions`,
where `Short` says that in periods of one message nobody gets past the first
signal, and the `Done` of `AtomicRead` for broken clients. `AtomicRead` follows step
by step: at the end of the script the builder is the whole table, or parts of it.

`LateByTimeouts` and `Barrier` follow from the order of the calls' numbers.
`CallsInv` says of each session that the numbers grow through `replies` and then
through `requests` (asynchronous requests have none); that the oldest of them lags
behind the present call by no more than `late`; that nothing follows the call a
session waits for; and that with `late` = 0 nothing is in a queue once a call has
returned. Losing messages anywhere in a queue, in a break or a restart, keeps all
of it: `Less` says of a queue that it is a subsequence of another. `VersionsInv` says
that the moments (run and version) in a session's replies grow from the one it
was told last to the region's present one; a restart begins a later run.
`FreshInv` says of a call that waits that its request stands unchanged in the
queue or its reply is one of `since`, and that what the table says now is; with
`late` = 0 no other reply can come first. That the version never exceeds the number of requests
made, which `TypeOK` bounds it by, needs to know which request made which version:
`Spent` says that of the calls so far some are used up, as many as the version at
least, and of the others each session has as many as its queue is long. Each
handler uses up one of its session's, and lost requests leave some over.

Only model-checked: liveness (`Converges`, `Forgotten`, `Discovered`,
`ClientsFinish`, `SlotsFreed`, `StopCompletes`), which is out of the prover's reach, and
`Discovered`, `NoEmptyRegion`, `UnloadedReported`, which do not hold.
Every invariant and action property of the passing runs is a theorem.

## Not modelled

Of the bus:

- `BusBroker` and `BusBackend`. The broker is not finished in the source: the
  header of the message to forward is built and not sent, a region's answer has
  no way back to the sender, the backend logs what it is told, and a PUSH socket
  of one side meets a ROUTER of the other. There is no behaviour to be faithful
  to yet. `Bus` takes `do_work` from it and has the path on either side as an
  external one that may delay and reorder.
- `BusReceiver::reply` as far as it would send: it returns -1 since `m_last_msg_id`
  is never set. A worker of the model that replies is another program's.
- An answer that comes twice for one payload of a message is counted twice by
  `BusMsgReply` (`isCompleted` compares with `==`); the model's workers answer for a
  payload once.

Of the rest:

- `FromRegionFactory` and `SubCacher`: predecessors of `RegionFactory` and
  `RegionSubCacher` that nothing instantiates.
- Programs' mains, configuration and the C API: start-up code. What they
  set is a constant of the modules, or a variable that is set once (`period`).
- The XSUB/XPUB proxy of `ribroker` is a part of `RegionSync`'s channel.
- The wrap of the 32 bit version, which takes years of changes.
- ZeroMQ, czmq and the submodule `zmqx` (empty in this repository): external, modelled
  by how the code uses them: FIFO per connection, loss when a peer is missing,
  slow or gone. The framing of REQ and REP is a part of that.
- protobuf conversions and `ritypes.cxx`, apart from what they check (`NoEmptyRegion`)
  and that they stamp what arrives with the time (`onRegion` and the others of
  `TrackerTable`).

Hazards without a property, with the reason in `PROJECT.json`: the reference
`onCheckTimer` passes into an entry that is erased before its last use (a log
line), a region whose snapshots always fail and that takes a factory each time
(nothing in the code keeps it from others for ever or promises that), and
`BusReceiver::reply`, which has no effect.
