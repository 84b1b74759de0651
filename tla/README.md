# Verification of the UAV telemetry service

TLA+ models of the Go services in `src/`, checked with TLC on small instances,
and TLAPS proofs of what matters most for instances of every size.
File paths below are relative to `src/`.

## 1. The system

Drones (in the repository: `cmd/simulator`) report through sensor stations to a
gRPC server, which validates and fuses the samples, keeps the last known state of
each target, and publishes to NATS JetStream. Geofence replicas consume the
telemetry, detect zone entries and exits, and write history and breaches to
PostgreSQL. A notifier turns breach alerts into webhook and Telegram messages.
A fleet service manages the operator's own drones and missions.

    simulator --gRPC--> server: Ingestor --queue--> workers --+--> JetStream drone.telemetry.<p>
                                                              +--> Hub --> gRPC viewers
    drone.telemetry.<p> --> geofence: ZoneChecker --> drone.alerts
                                      HistoryWriter --> Postgres
                                      SwarmDetector, alarms --> zone_presence, swarm rows
                                      Replay --gRPC--> server (recorded samples again)
                        --> server:   livetargets.Store
    drone.alerts        --> geofence: BreachJournal --> Postgres
                        --> notifier: Dispatcher --> sinks
    fleet (HTTP) <--> Postgres

### Inventory

| Component | State | Operations | What is hard | What makes it correct |
|---|---|---|---|---|
| Ingestor, `internal/usecase/ingest.go` | bounded queue, `closed`, sync.Map of last states, counters | Submit, worker, evictLoop, Shutdown | a channel that is sent to and closed; a CAS loop against concurrent handlers and an evictor; drain | no send after close, each sample counted once, complete drain, newest state kept, Shutdown returns |
| Stream handlers, `internal/delivery/grpc/handler.go`, `subscribe.go` | one goroutine per stream | StreamTelemetry, SubscribeTelemetry | outlive the start of a shutdown | healthy ones end when the server stops |
| Hub, `internal/broadcast/hub.go` | subscriber channels, `closed` | Subscribe, Unsubscribe, Broadcast, Close | channels closed from two places while others send | no send on, and no double close of, a channel; slow viewers delay nobody |
| Publisher, `internal/queue/natspub/publisher.go` | outstanding async acks | Publish, PublishAlert, Flush | an accepted publish is not yet stored | nothing outstanding after a drain |
| Server life cycle, `cmd/server/main.go` | shutdown sequence and its deadline | run | four stages share ten seconds | exit always happens; nothing lost in time |
| Notifier, `internal/notify` | cooldown map, dispatch in progress | handle, dispatch, allow | at-least-once delivery, lost acks, partly failing sinks, crashes | ack only after delivery, cooldown kept, retries |
| Fleet manager, `internal/fleet/manager.go` | drones, missions, numbers; database rows | nine requests, tick, Load | memory first and database later, locks dropped in the middle, restarts | a live mission is flown by its drone, numbers unique, flights end |
| ZoneChecker, `internal/geofence/zonechecker.go` | zones and last timestamp per drone | Process, ActiveAlarms, prune | workers reorder messages, alerts are sent after the unlock, a redelivery after a crash | each entry raises one alert |
| HistoryWriter and BreachJournal, `history.go`, `journal.go` | batch; rows | collect, flush, record | batches against AckWait, repeated inserts | acked means stored, no duplicates |
| Fuser, `internal/fusion` | per shard: tracks, byObservation, grid; a counter of track numbers | Resolve, Sweep | three indexes that must agree; the clock is read before the lock, so a call may act with an older instant than the call before it; cell borders | the indexes agree, one key of a station per track, no track goes before its TTL |
| Replay manager, `internal/replay/manager.go`, `cmd/geofence/replaypub.go` | runs and their goroutines; one shared gRPC stream | Start, Cancel, SetSpeed, SetPaused, play, Close | a limit counted over statuses against goroutines; a run started after Close has waited; cancellation against completion | the limit holds for goroutines, whatever publishes can be cancelled, nothing is sent after Close, Close returns |
| Station registry, `internal/stations/registry.go` | sync.Map of objects with atomics | Observe, reportTransitions | racing first observations, a window reset between two atomics, forgetting against observing | one object per station, silence is reported |
| Live targets, `internal/livetargets/aggregator.go` | sync.Map of targets | Observe, EvictLoop | callbacks of two partitions and the evictor on one key | the newest state is kept, silent targets go |
| Swarm detector, `swarm.go`, `cluster.go` | positions, swarms and their IDs | Observe, Evaluate | any map order, a distance that is not symmetric, identity across evaluations | groups are those of the distance relation, a group keeps its ID |
| Zone caches, `zoneindex.go`, `customzonecache.go`, `friendly.go` with their handlers | a snapshot per cache beside two tables | handlers that commit and reload, periodic reloads | an older load that finishes last, failing loads, changes by other replicas | bounded staleness |
| Partitioning, `internal/partition/partition.go` | none | Of, AssignedPartitions | Go's remainder of a negative number, counts below 1 | every position has a partition, every partition one replica |
| Alarms across replicas, `cmd/geofence/shardstate.go`, `postgres/shardstate.go` | rows of zone_presence per replica | publish, sum the fresh rows | a drone that changes replicas, failed publications, dead replicas | a held zone stays alarmed, a left zone does not for long |
| Migrations and seeding, `migrate.go`, `seed.go`, `setup.go` | schema version, rows, an advisory lock | Migrate, SeedOblasts, ListZones | replicas start together, lose the lock's connection or die in between | each migration once and in order; who seeds knows all oblasts |
| Classifier, anomaly detector | per-drone features | Classify, Check | floating point | not modelled |
| Retention | none | a periodic DELETE | - | not modelled |
| Configuration, TLS, tracing, health, HTTP presentation, SSE, certgen, simulator, frontend | no shared mutable state of their own | - | - | not modelled |

`PROJECT.json` lists the hazards at the line where each of them bites, and the
properties aimed at them.

## 2. Modules

### Ingestor, IngestorProofs, MCIngestor

Models `ingest.go` and the loop of `handler.go`. Every step ends at an access
to state that goroutines share. A Submit call is `Submit` (RLock, closed check,
validation, counting), `StoreLoad`, `StoreInsert` and `StoreSwap` (the
LoadOrStore/CompareAndSwap loop of storeLastKnown), and `Enqueue` (the
non-blocking send and RUnlock). `WorkerTake`, `PublishOK`, `PublishFailed`,
`Broadcasted` and `WorkerExit` are the worker; `EvictTick`, `EvictScan` and
`EvictExit` the eviction goroutine, with one step for looking at an entry and
another for deleting it; `ShutdownLock`, `ShutdownClose` and `ShutdownReturn`
are Shutdown. A writer waiting for the RWMutex keeps new readers out, as in Go.
A sample is reduced to the drone the resolver returned and its timestamp.

### Hub (ServicesProofs)

`hub.go` and the handler of `subscribe.go`. Broadcast holds the read lock
over one send per subscriber (`BroadcastSend`, dropping on a full buffer);
Subscribe, Unsubscribe and Close hold the write lock. The handler is in its
select (`loop`), inside stream.Send (`send`, which a stalled client may hold for
ever) or on its deferred Unsubscribe.

### Server, ServerProofs, MCServer

Composes the two: the workers of the Ingestor are the broadcasters of the Hub,
their publishes leave an ack outstanding (`unacked`). `MainStep` is the shutdown sequence of
`cmd/server/main.go`: close the hub, GracefulStop or Stop when the ten
seconds are over, Ingestor.Shutdown, Flush, exit.

### DurableConsumer, Notifier, NotifierProofs, MCNotifier

DurableConsumer is JetStream (external): deliveries, AckWait,
NakWithDelay and MaxDeliver with the parameters the code gives. Acks and naks may
be lost, and AckWait also runs while a message waits in the client's buffer.
Notifier is `dispatcher.go` and `cooldown.go`: the gate is charged before the
sinks are called (`HandleDispatch`), each sink returns on its own
(`SinkReturns`; an error may hide a message that did arrive), and
`HandleReturns` acks or asks for redelivery. `Crash` loses buffer, gate and dispatch.

### Fleet, FleetProofs, MCFleet, MCFleetFusion

`manager.go` with the store `postgres/fleet.go`. Each request is its locked part
(AddDrone ... Recall) followed, outside the lock, by its database call
(`StoreDrone`, `StoreMission`, or the failing ones with the roll-back the code
makes). A failing save may be an error after the commit: the row is then there although
memory has taken the change back. CreateMission has two locked parts with the zone query
between them. `Tick` flies all drones, one whose mission has vanished home (`Stray`);
`TickSave` writes the missions that ended. `Restart` is a crash and Load.

### ZoneChecker, MCZoneChecker (WorkerProofs)

`zonechecker.go` over DurableConsumer, with the replicas that own the partitions.
A worker takes a message and looks up its zones (`Locate`), compares them under
the lock (`Diff`, or `DiffStale` for a sample that is not newer), publishes the
alerts after the lock (`PublishAlert`, whose errors the code only logs) and
acknowledges (`Ack`). Every locked part prunes first; `ActiveAlarms` prunes as
well. `decided` is a history variable: the events a replica has found for the
drones it still remembers. The zones a position lies in are an input here; the
index that answers the lookup is modelled in Registries.

### HistoryWriter, BreachJournal, Geofence, GeofenceProofs, MCGeofence

`history.go` and `journal.go`, composed as the goroutines of one geofence process
that can be stopped (with the final flush) or killed. A save may fail, also after
its commit, and each ack of a batch may be lost. The clock stands still in this composition: AckWait
and NakDelay of 0 let a message come again at any moment, which includes every
real timing. Operators' status changes are part of the journal.

### Fusion, FusionProofs

`fuser.go`: each shard has a lock, so `Resolve` (resolve with pruneLocked,
trackForLocked, the filter update, reindexLocked and the observation) is one step, and
`SweepStart`/`SweepShard` walk the shards one lock at a time. What makes the
component hard stays: both read the clock before they wait for the lock, so each
step draws a lag, and instants are kept as ages relative to the present. Kalman
filter and gates are floating point: an update may move a track to any place, and any
track of the neighbouring cells may pass the gates.

### LiveTargets, Stations (ServicesProofs)

`aggregator.go` and `registry.go` at the grain of single operations on the
sync.Map and the atomics. `ObserveTarget`, `LoadTarget` and `SwapTarget` are one
Observe of a partition's callback, with its retry loop; `EvictTargets`,
`VisitTarget` and `DeleteTarget` are the eviction, which decides with the entry it has
seen and deletes the key. `ObserveStation` (the clock), `LoadStation`, `InsertStation`,
`AddSample` and `StoreLastSeen` are one Observe of a stream, `CheckStation` to
`ForgetStation` the checks of Run. The history variable `windowAdds` counts what streams have
added to an object since its windowStart was last stored: the window may hold less than
that, but not more (`WindowNotInflated`), except between the two stores of `ResetWindow`,
where the code does have the old count beside the new start.

### Replay (ServicesProofs)

`manager.go` with the publisher all its runs share (`replaypub.go`) and the cleanup in
`setup.go`. A Start is `StartReplay` (the query), `AddRun` (limit, number, prune) and
`Launch` (wg.Go); Cancel and the controls are a look-up and what follows outside
the lock. `PublishSample`, `PublishSampleFails`, `BurstOver`, `ReplayTick` and
`ReplayCancelled` are the goroutine, `StreamBreaks` the environment, `BaseCancel`,
`WaitReturns` and `ClosePublisher` the end of the process.

### Swarms (WorkerProofs)

`swarm.go` and `cluster.go`. `Evaluate` is one step under the detector's lock: prune,
cluster by union-find in any order, match the clusters with the known swarms
by overlap, number the rest. Near is a relation that need not be symmetric, because the
code scales a degree of longitude at the latitude of the first point.
`SwarmsAreGroups` compares the union-find with what clusters are by definition.

### Registries (WorkerProofs)

The three caches, the two tables behind them, the handlers that change a table and reload
(`CreateCustomZone`, `DeleteCustomZone`, `AddFriendlySquawk`, `DeleteFriendlySquawk`,
`HandlerReads`/`HandlerFails`), the goroutines (`RunTick`, `RunFails`) and the atomic
store that ends a load (`Store`). A snapshot is the number of commits it has seen of
the table its query reads. `ChangedElsewhere` is any of the same statements made by
another replica, which this one learns of by its ticker only.

### Partition, Presence (WorkerProofs)

Partition has `Of` and `AssignedPartitions` as operators. Presence composes them with the
presence a replica publishes: `Report` is a sample that reaches the owner of its
partition, `ReportStale` one that comes late or again and only says that the drone is still
heard of, `PublishZonePresence` one replacement of a replica's rows, which may fail,
`Die` and `Restart` a replica that goes and returns. The history variables follow
the drones: `heldFor` says how long a drone has reported from inside without a gap, and
`outsideFor` how long ago a sample last showed a drone inside, or kept it where a replica
remembers it.

### Startup (WorkerProofs)

newDependencies of replicas that start together: the advisory lock, the check and the
transaction of each migration, the count and the inserts of the seeding, ListZones. Every
step may fail or the process die (`StartAgain`), and the connection that holds the
lock may break while the migrations go on over others (`LoseLock`).

### MCServices, MCGeofenceParts, MCFleetFusion: sums of independent parts

Modules without a common variable cannot affect each other, and interleaving them would
only multiply their states. These three choose one part in the first state and let it
run; the others stay in their initial states. That checks each part completely, and
one run serves several. Each of them joins the type invariants of its parts in one.
ServicesProofs and WorkerProofs, which hold the proofs about such parts, extend
MCServices and MCGeofenceParts; their theorems speak of each part's own
specification, and one more of the sum. Where parts do share state they are composed by interleaving:
Server (Ingestor, Hub, publisher), Geofence (history, journal), Replay (manager,
publisher, process), Registries (caches, tables, handlers) and Presence
(partitions, replicas, rows).

## 3. Runs

| Run | Shows |
|---|---|
| ingestor | two streams, a worker, the evictor and a Shutdown on one drone: no send on a closed queue, counters add up, the drain is complete, the last state only moves forward, Shutdown returns |
| hub_and_services | Hub: no send on, and no second close of, a channel; Close ends every handler whose client reads, so no Broadcast waits for the others. LiveTargets: no target goes back in time. Stations: a station counts in one object, no window counts more than its station, nor a sample from before it began, silence is reported. Replay: never more goroutines than the limit, each of them listed, nothing sent after Close, cancelled runs end, Close returns |
| server | a shutdown within its deadline loses nothing; the logged totals add up; run returns whatever clients and JetStream do |
| server_drain | violated: see finding 1 |
| notifier | dispatches of one key are a window apart; an alert is acknowledged only when delivered or within the window of its key; none is forgotten before MaxDeliver attempts |
| notifier_throttled | violated: see finding 2 |
| fleet_and_fusion | Fleet: a live mission goes on being flown by its drone, unless AddDrone takes the drone back because it could not be saved; mission numbers are unique. Fusion: the indexes agree, stations never fuse with themselves, keys keep their track until its TTL |
| fleet_live | every flight ends, also when its drone or its mission is taken back by the failed save of another request |
| fleet_orphan | violated: see finding 3 |
| zones_and_parts | ZoneChecker: the events of a drone and zone alternate in time order, whatever workers and redeliveries do. Registries: a cache misses a change for a bounded time only. Startup: migrations once and in order, a seeder knows all oblasts, nothing stays half seeded without a fault, and with one only the end of the file is missing. Swarms: disjoint groups that agree with their definition and keep their IDs. Presence: a zone stays alarmed while a drone is inside, and not for long after |
| zones_once | violated: see finding 4 |
| geofence | acknowledged means stored; closed breaches are never reopened; samples are stored or were tried MaxDeliver times |

### Bounds

* Ingestor: two streams and one drone are the smallest instance in which CAS loops
  race each other and the evictor; the third sample gives the race an entry to
  start from. Timestamps 1..2 give older, equal and newer samples, a queue of one
  is full and empty within two steps, and StateTTL 0 with two clock values makes
  entries expire. Workers share only the queue and the counters, and one is enough
  for TLC; the theorems hold for any number. The composed server has
  a clock that stands still, so that the evictor scans without finding anything
  to delete: eviction is the business of the run ingestor.
* Two viewers with buffers of one and two broadcasters: a full buffer, a viewer
  that leaves and one that stays, and Close between two sends of a broadcast.
* Notifier: three deliveries, two sinks, one crash, a window of two and a clock up
  to three: a failed dispatch comes again inside and outside the window. The
  second alert is an unwanted exit. AckWait 0 lets JetStream deliver again at any
  time, the worst case.
* ZoneChecker: a sample inside and a newer one outside the zone, each delivered up
  to twice to two workers, and a friendly one: both orders of processing, and
  repetition of either, occur. StaleAfter 0 lets pruning hit between any two.
* Geofence: batches of two from two readable and one unreadable message, so that a
  batch is full, partial, mixed, and partly acknowledged.
* One drone, two missions and two requests: every race the fleet manager allows is between
  two requests, or a request and the ticker, on one drone. Battery 3 with
  thresholds 1 gives a full, a low and an empty level. Saves of drones and of missions
  fail, before or after the commit. In fleet_live two clients are needed as well: while
  the save of one is under way the other launches what it has just put in memory, and the
  failing save then leaves a drone en route for a mission that is no longer there. Two
  waypoints and a battery of 4 make a flight of several ticks, and one mission is enough,
  because a flight has one.
* LiveTargets: two callbacks on one target are every race there is on a key of the
  map; timestamps 1..2 are older, equal and newer; TTL 1 and a clock to 2 let an entry
  expire and be replaced while the evictor looks at it.
* Stations: two streams and two observations race for the first object and for the
  counters of one. Online 0, offline 1, forgotten 2 and a clock to 3 reach every status
  and the forgetting, and a fresh observation during each of them.
* Replay: a limit of one and two runs let a second Start meet a run that is over by status and
  not by goroutine; two requests race a Cancel with a Start, and both with Close. Two
  samples at double speed make bursts of more than one. One break fails a run in the middle.
* Fusion: two keys of one station and one of another are the smallest set in which tracks must merge
  and must not; three places in two shards have neighbours within a shard and over a
  border; TTL 2, pruning period 1 and lag 1 let a late call see a track as younger
  and as older than another call did; two tracks suffice to confuse indexes. Ages
  beyond TTL plus lag are all alike, so these bounds on ages lose nothing.
* Registries: two changes, one failing load and one handler against a goroutine with an
  interval of two make an older snapshot replace a newer one and be repaired. The three
  caches run together because handlers of one table reload two of them.
* Startup: two replicas, two migrations and three oblasts (so that a gap in the middle would show) with one fault and one lost lock: both
  in Migrate at once, and a death between any two steps.
* Swarms: four drones in three places, of which two are near from one side only: two groups of
  two, one of four, merges and splits. Evaluate tries every order of the drones.
* Presence: three partitions over two replicas, so that one replica owns two; windows of 2 and 3 are
  longer than one missed publication. Ages are kept up to where they make no difference.

Symmetry is used only in runs without liveness properties.
fleet_and_fusion also has a view: TLC visits one of the states that differ only in how far
a stored mission had got, since Load is the only reader of the rows and makes planned
missions of all that were live.

### Fairness

Weak fairness is given to goroutines that can run and to nothing else. Clients
need neither send nor read, operators need not act, JetStream need not
acknowledge. Strong fairness stands at two places, the evictor's exit and a replay's
cancellation: Go's select chooses at random between a ready ticker and a closed channel. In Server the
ten-second deadline is fair, being a timer. In Notifier JetStream delivers
what is due and Send returns, which its timeout guarantees. In Geofence JetStream
delivers, callbacks run and the flush ticker fires; no save has to succeed. In
Fleet the ticker ticks. Stations assumes only that the goroutine of Run keeps running,
LiveTargets nothing. In Replay goroutines that can run do, the requests
need not come, and a select with a tick and a done context both ready does
not take the tick for ever (strong fairness of `ReplayCancelled`); Send returns, see
the hazard at `replaypub.go:61`.

## 4. Findings

1. *Graceful shutdown with drain* (`README.md`): GracefulStop and Flush share one
   ten-second context. A stream that stays open uses it up, Flush returns at once and the process exits with
   unacknowledged messages (`server_drain`).
2. *Acking only when delivery succeeds* (`README.md`): the cooldown is charged
   before the dispatch; the redelivery of a failed dispatch arrives inside the
   window, is throttled and acknowledged. The breach is never notified (`notifier_throttled`).
3. *A mission needs an existing drone* (`internal/fleet/manager.go`): CreateMission
   releases its lock for the zone query and does not look at the drone again;
   RemoveDrone in between succeeds (`fleet_orphan`).
4. *An alarm once per entry* (`README.md`): zone state is kept per replica and
   telemetry is partitioned by one-degree cells. A drone that crosses a cell border
   inside one zone is unknown to the next replica, which raises the alarm again
   (`zones_once`).

## 5. Proofs

Every safety invariant and every action property that a run checks is a theorem, for
every value of the constants, but for `SwarmsAreGroups` (see the end of this section).
Most needed an invariant that is inductive; each was checked by TLC on the instance of
its run before it was proved.

### Assumptions

The named assumptions of the modules: sizes and bounds are natural numbers, positive
where the code makes them so (there is an oblast in the file that is seeded); the sets of processes are finite; LowBattery is below
FullBattery, and the status thresholds of a station are in order (the defaults the code
falls back to); a cache is loaded less often than a query may take; there is a
position. Three are needed for arguments that count: `IsFiniteSet` of the feeds of a
station, of the drones of an alarm and of the drones of the detector. TLC evaluates all
of them in the runs. One theorem has a hypothesis of its own:

* `ZoneStaysAlarmed` assumes that the longest time between two stored publications
  (`MaxHeld`) is within the alarm window and the freshness of a row. With the
  code's one second between publications, six of a window and five of freshness, that
  is so for up to four publications that fail in a row.

### Ingestor, Server, Hub

* **Ingestor.** `IngestorInv` is inductive: TypeOK, `SubmitInv` (a handler in
  Submit has a sample, and one about to swap holds an entry older than it),
  `NoSendOnClosedQueue`, `Accounting` and `ExitInv` (a worker of a live context
  exits only when the queue is closed and drained; Shutdown returns only after the
  workers). SubmitInv is what makes a successful swap move forward, whatever
  happened since the load; ExitInv with NoSendOnClosedQueue is why nothing is put
  into the queue once a worker has gone. The counting argument needs that
  the sets of readers and of publishing workers change by one element in each
  step, which the lemmas on finite sets provide.
* **Server.** `ServerImplementsIngestor` and `ServerImplementsHub` are the refinements:
  each step of the composed server is, for the ingestor's variables and for the hub's
  with its workers as broadcasters, a step of that component or a stutter. So the
  theorems about the ingestor hold inside the server. `ShutdownInv` adds what
  the shutdown sequence contributes: run flushes only after a Shutdown has returned, nobody cancels
  the workers' context, no more acks are outstanding than messages were published. With
  DrainedOnReturn it gives `ShutdownLosesNothing` and `FinalTotalsAddUp`.
* **Hub.** `HubSafe`: HubTypeOK with ChannelsSafe is inductive as it stands, because
  OpenIffRegistered says which handlers may hold an open channel.

### Live targets, stations, replay

* **LiveTargets.** `TargetsInv`: an entry that a callback means to replace is not newer
  than its own. That makes every successful CAS move forward (`TargetsForward`); a
  deletion and a new entry are not a step back, as for the code.
* **Stations.** That an object's window never holds more samples than the object is a
  statement about calls in progress: `WindowsBehind` subtracts the calls that have
  counted a sample and not yet added it to the window. `ObservesBound` counts calls that
  have made an object or owe a sample, so that the bounds of the model are never what
  stops a call half-way; `ObjectsKnown` keeps every stream and the checker
  on objects that the map holds or has held. `WindowNotInflated` goes through every
  interleaving of a stream's additions with the two stores of the checker (`WindowNext`).
* **Replay.** `ReplayInv`: a run is running in the map from the moment Start adds it
  until play sets its final state (`RunningIsPlaying`), and a handler that is about to launch
  a run holds one that has not been launched (`RequestsKnown`). Limit and listing follow:
  pruning removes only runs that are over. `PublisherClosed` gives
  `ReplaySilentAfterClose`, for runs that start after wg.Wait as well.

### Notifier, fleet, fusion

* **Notifier.** `DispatchInv` (as long as no Send failed, every sink whose Send
  has returned was reached) and `GateInv` (the gate holds the time of the latest
  dispatch of each key, unless its window is over) are inductive with TypeOK.
  GateInv is needed because pruning deletes entries: it says that only expired ones
  go. They give `CooldownHolds` and `AcksAreJustified` for every window, the
  disabled one (0) included, where the latter says that acknowledged means delivered.
* **Fleet.** `FleetInv` says of missions in memory, of rows, and of rows on their way
  that each names a known drone and bears a number given out. Requests write after the unlock,
  so what is on its way has to be part of it: a restart reads whatever
  has arrived. The numbers after a restart start from the largest row, which
  `LargestNumber` finds. `LiveMissionsAreFlown` assumes nothing of the saves: every drone
  flies the live missions that name it at first (it has none), and goes on doing so
  (`FliesItsMissions`; so it has at most one) until a roll-back of AddDrone (`AddUndone`)
  takes it out of memory with a mission it was launched on meanwhile, as
  `manager.go:148-152` does. That step strands the mission, and no other step of an
  operator, a failing save, the ticker or a restart can. It is one case per action.
* **Fusion.** `FusionInv` adds one fact to the properties the run checks: `Numbered`,
  all tracks of all shards carry numbers up to the counter. It is needed because a new
  track must be unknown to every shard, which the agreement of one shard's
  maps does not say. StationsNeverFuse in turn needs IndexesAgree: a key that
  byObservation leads to a track joins it without another look at its
  station. A call of resolve is first reduced to its two outcomes (`ResolveCases`: a
  track that is left is moved, or one is made), then one lemma each shows
  that the outcome keeps the invariant.

### The geofence worker

* **History and journal.** TypeOK with AckedIsStored is inductive; each component's steps
  keep its own half, and a restart loses only what was not acknowledged.
  `SettledBreachesStaySettled` needs the types alone: an insert of a known breach changes nothing.
* **Zone checker.** `ZoneEventsAlternate` is an argument about sets of events, since
  workers meet samples in any order: `Tells` says that the events of a drone and zone so
  far alternate by timestamp, that the replica's map has the zone iff one more was an
  entry, and that no event is newer than the last timestamp. A stale sample adds nothing;
  another adds at the end at most one event of the kind that is due (`EventAdded`).
* **Zone caches.** `RegistryLag`: a load in progress misses only what was committed since
  it read, and a snapshot only what was committed since the goroutine's last stored read, or one query
  timeout before. The time since that read is `failures * Every + sinceTick` plus an
  interval while a round is in progress. `CachesCatchUp` follows by arithmetic.
* **Startup.** `MigrationsOK` (applied from the first on, and a replica has seen
  those before its own applied, with or without the lock) and `SeedingOK` (a replica that
  inserts an oblast has the earlier ones in the table; without a fault somebody
  finishes a table that is half filled). `StartupKeepsTail` adds that the table is always
  a beginning of the file, since a replica inserts in order and gives up at the first error.
* **Alarms.** `AlarmsOfGhostsFade`: a row that counts a drone was written within the
  window after a sample last showed or kept it inside, and a stale sample counts as such only
  where the drone is remembered. `ZoneStaysAlarmed` follows the drone: for every k up to the
  time it has been inside there is a replica that heard it within k seconds and has counted it since, or has not yet
  published in these k seconds (`HeldIsCarried`); at k = MaxHeld the first must be true.
* **Partitioning.** `PositionHasPartition` and `EveryPartitionHasOneOwner` are
  arithmetic, for all counts, also those below 1 that the code treats as 1.
* **Swarms.** `SwarmsStayDisjoint` and `SwarmsKeepIdentity` hold for every relation of nearness: the
  clusters are classes of points with one root, whatever the union-find makes roots.
  `NumbersGivenOut` counts the numbers of the new clusters: the k-th new one gets
  the k-th number after the last, so that none collides or is left out. A swarm whose drones meet no
  other is claimed by the cluster that has them (`SwarmClaimed`).

### Model-checked only

* Liveness and ENABLED are outside what this prover does: ShutdownReturns,
  CloseEndsViewers, MainExits, SettledOrExhausted, SamplesStored, FlightsEnd,
  SilenceIsReported and ReplaysEnd.
* `SwarmsAreGroups`. That drones are disjointly grouped is proved; that the groups are
  the connected components of the distance relation depends on what the fold over all
  unions computes, and needs an induction along the fold that is out of the prover's reach.

## 6. Not modelled

* *Classifier and anomaly detector*: floating-point heuristics over the features of one
  drone, without concurrency or failure. Also the arithmetic of the Kalman filter, of
  distances and of drone positions, where a model lets every outcome happen.
* *Retention*: a periodic DELETE of old rows, which only list, history, heatmap and replay
  queries read; those queries change nothing and are left out too.
* *Server start-up and stream creation*: sequential, before anything is shared. The
  component is therefore "partly".
* *HTTP presentation, metrics, SSE*: they read what the modelled components keep. A
  slow SSE client delays only its own handler.
* *Configuration, TLS, tracing, health, certgen, logging*: parsing and wiring of
  libraries.
* *Simulator and frontend*: not part of the service.

Four hazards in `PROJECT.json` have no property, because nothing in the repository
promises what would be violated: saves of the fleet service that overtake each
other, an alert JetStream refuses, a second track of a drone that
crosses a coarse cell, and a swarm that flickers because two drones at the edge of the radius
are near from one side only. Three more are covered in part, as their notes say: what a
Snapshot reads between the two stores of a window reset, the oblasts that stay missing
after a seeding that failed (the property says how many may, not that they
come), and the second alarm of a drone after a crash of its replica. One more, a Send that flow control blocks for ever, is
excluded by the fairness above.

## 7. Plan

1. The rest of the refinements: the replicas' consumers as an abstract at-least-once
   queue, and the server's publisher against the accounting of its acks.
2. ZoneChecker and Registries composed: lookups against an index that changes under them.
3. Fleet: the store after a restart, with saves that overtake each other.
