---------------------------- MODULE ZoneChecker -----------------------------
(***************************************************************************)
(* The zone checkers of the geofence replicas                              *)
(* (internal/geofence/zonechecker.go).  Each replica consumes the          *)
(* telemetry partitions it owns, with several workers; for every sample it *)
(* compares the zones that contain the position with those the drone was   *)
(* in, under a lock, and publishes entered and exited alerts after it.     *)
(*                                                                         *)
(* A telemetry message stands for its sample: drone, timestamp, the zones  *)
(* around its position and the replica that owns its partition are         *)
(* functions of the message.  The zone index does not change.              *)
(***************************************************************************)
EXTENDS DurableConsumer

CONSTANTS
    Replicas, Workers,   \* geofence replicas, and the workers of each
    Drones, Zones,
    DroneOf, TsOf,       \* drone and timestamp of a message
    ZonesOf,             \* ZoneLocator.Containing of its position
    OwnerOf,             \* the replica that owns its partition
    Unchecked,           \* messages that do not decode or carry a friendly squawk
    MaxTimestamp,        \* bound on the timestamps
    PruneEvery,          \* pruneStateEvery
    StaleAfter,          \* staleDroneStateAfter
    NoMsg,               \* stands for no message
    MaxCrashes           \* bound on the crashes

ASSUME ZoneCheckerAssumption ==
    /\ NoMsg \notin Msgs /\ Unchecked \subseteq Msgs
    /\ DroneOf \in [Msgs -> Drones] /\ TsOf \in [Msgs -> 1..MaxTimestamp]
    /\ ZonesOf \in [Msgs -> SUBSET Zones] /\ OwnerOf \in [Msgs -> Replicas]
    /\ {MaxTimestamp, PruneEvery, StaleAfter, MaxCrashes} \subseteq Nat

Alerts == [drone : Drones, zone : Zones, event : {"entered", "exited"}, ts : 1..MaxTimestamp]

VARIABLES
    state,      \* per replica and drone: zones, lastTimestamp and lastSeen
    lastPrune,  \* per replica
    step,       \* where each worker stands: idle, located, alert
    msg,        \* the message it processes
    todo,       \* the alerts it still has to publish
    alerts,     \* the alerts in the stream drone.alerts
    decided,    \* per replica: the events diffZones found, for the drones it remembers
    crashes

checkVars == <<state, lastPrune, decided>>
workVars  == <<step, msg, todo>>
vars      == <<streamVars, buffer, clock, checkVars, workVars, alerts, crashes>>

Unknown == [zones |-> {}, lastTimestamp |-> 0, lastSeen |-> -1]

Init ==
    /\ ConsumerInit
    /\ state = [r \in Replicas |-> [d \in Drones |-> Unknown]]
    /\ lastPrune = [r \in Replicas |-> -PruneEvery]
    /\ step = [r \in Replicas |-> [w \in Workers |-> "idle"]]
    /\ msg = [r \in Replicas |-> [w \in Workers |-> NoMsg]]
    /\ todo = [r \in Replicas |-> [w \in Workers |-> {}]]
    /\ alerts = {}
    /\ decided = [r \in Replicas |-> {}]
    /\ crashes = 0

-----------------------------------------------------------------------------
(* The lock-protected part.                                                *)

\* The drones pruneLocked forgets.
Forgotten(r) ==
    IF clock - lastPrune[r] < PruneEvery THEN {}
    ELSE {d \in Drones : state[r][d] # Unknown /\ clock - state[r][d].lastSeen > StaleAfter}

\* state and lastPrune of r after pruneLocked.
Pruned(r) == [d \in Drones |-> IF d \in Forgotten(r) THEN Unknown ELSE state[r][d]]
PrunedAt(r) == IF clock - lastPrune[r] < PruneEvery THEN lastPrune[r] ELSE clock

\* The events diffZones finds for a sample, given the zones the drone was in.
Events(m, was) ==
    LET event(z, e) == [drone |-> DroneOf[m], zone |-> z, event |-> e, ts |-> TsOf[m]]
    IN  {event(z, "entered") : z \in ZonesOf[m] \ was}
        \cup {event(z, "exited") : z \in was \ ZonesOf[m]}

Remembered(r) == {e \in decided[r] : e.drone \notin Forgotten(r)}

\* Mutant: a sample is never too old.
StaleNever(r, m) == FALSE

\* A sample not newer than what the replica knows of the drone.
Stale(r, m) ==
    LET known == Pruned(r)[DroneOf[m]]
    IN  known # Unknown /\ TsOf[m] <= known.lastTimestamp

\* Mutant: the state is stamped with the time of the next pruning.
SeenLater(r, m) ==
    [zones |-> ZonesOf[m], lastTimestamp |-> TsOf[m], lastSeen |-> clock + PruneEvery]

\* What the replica keeps of a sample it accepts.
Seen(r, m) == [zones |-> ZonesOf[m], lastTimestamp |-> TsOf[m], lastSeen |-> clock]

-----------------------------------------------------------------------------
(* The workers.                                                            *)

\* The position of the first message for r in the client buffers.
First(r) ==
    CHOOSE i \in DOMAIN buffer :
        OwnerOf[buffer[i]] = r /\ \A j \in 1..(i - 1) : OwnerOf[buffer[j]] # r

HasMessage(r) == \E i \in DOMAIN buffer : OwnerOf[buffer[i]] = r
Without(i) == SubSeq(buffer, 1, i - 1) \o SubSeq(buffer, i + 1, Len(buffer))

\* The positions of the messages for other replicas, from the first to the last.
OthersInOrder(r) ==
    LET others == {i \in DOMAIN buffer : OwnerOf[buffer[i]] # r}
    IN  {kept \in [1..Cardinality(others) -> others] :
           \A j, k \in DOMAIN kept : j < k => kept[j] < kept[k]}

\* Malformed and friendly samples are acknowledged without a check.
Skip(r, w) ==
    /\ step[r][w] = "idle" /\ HasMessage(r)
    /\ buffer[First(r)] \in Unchecked
    /\ buffer' = Without(First(r))
    /\ Settle(buffer[First(r)])
    /\ UNCHANGED <<clock, checkVars, workVars, alerts, crashes>>

\* A worker takes a message and looks its zones up, before the lock.
Locate(r, w) ==
    /\ step[r][w] = "idle" /\ HasMessage(r)
    /\ buffer[First(r)] \notin Unchecked
    /\ buffer' = Without(First(r))
    /\ step' = [step EXCEPT ![r][w] = "located"]
    /\ msg' = [msg EXCEPT ![r][w] = buffer[First(r)]]
    /\ UNCHANGED <<streamVars, clock, checkVars, todo, alerts, crashes>>

\* diffZones for a sample that is too old: only lastSeen moves.
DiffStale(r, w) ==
    LET m == msg[r][w] IN
    /\ step[r][w] = "located"
    /\ Stale(r, m)
    /\ state' = [state EXCEPT ![r] = [Pruned(r) EXCEPT ![DroneOf[m]].lastSeen = clock]]
    /\ lastPrune' = [lastPrune EXCEPT ![r] = PrunedAt(r)]
    /\ decided' = [decided EXCEPT ![r] = Remembered(r)]
    /\ step' = [step EXCEPT ![r][w] = "alert"]
    /\ UNCHANGED <<streamVars, buffer, clock, msg, todo, alerts, crashes>>

\* diffZones for a newer sample: the events are found and the state replaced.
Diff(r, w) ==
    LET m == msg[r][w]
        found == Events(m, Pruned(r)[DroneOf[m]].zones)
    IN
    /\ step[r][w] = "located"
    /\ ~Stale(r, m)
    /\ state' = [state EXCEPT ![r] = [Pruned(r) EXCEPT ![DroneOf[m]] = Seen(r, m)]]
    /\ lastPrune' = [lastPrune EXCEPT ![r] = PrunedAt(r)]
    /\ decided' = [decided EXCEPT ![r] = Remembered(r) \cup found]
    /\ todo' = [todo EXCEPT ![r][w] = found]
    /\ step' = [step EXCEPT ![r][w] = "alert"]
    /\ UNCHANGED <<streamVars, buffer, clock, msg, alerts, crashes>>

\* PublishAlert, entered zones first.  An error is only logged, and the alert
\* may have been stored all the same.
PublishAlert(r, w) ==
    /\ step[r][w] = "alert"
    /\ \E a \in todo[r][w] :
         /\ a.event = "exited" => \A b \in todo[r][w] : b.event = "exited"
         /\ alerts' \in {alerts, alerts \cup {a}}
         /\ todo' = [todo EXCEPT ![r][w] = @ \ {a}]
    /\ UNCHANGED <<streamVars, buffer, clock, checkVars, step, msg, crashes>>

\* The message is acknowledged whatever became of its alerts.
Ack(r, w) ==
    /\ step[r][w] = "alert" /\ todo[r][w] = {}
    /\ Settle(msg[r][w])
    /\ step' = [step EXCEPT ![r][w] = "idle"]
    /\ msg' = [msg EXCEPT ![r][w] = NoMsg]
    /\ UNCHANGED <<buffer, clock, checkVars, todo, alerts, crashes>>

\* An HTTP request for the active alarms prunes the state.
ActiveAlarms(r) ==
    /\ Forgotten(r) # {} \/ PrunedAt(r) # lastPrune[r]
    /\ state' = [state EXCEPT ![r] = Pruned(r)]
    /\ lastPrune' = [lastPrune EXCEPT ![r] = PrunedAt(r)]
    /\ decided' = [decided EXCEPT ![r] = Remembered(r)]
    /\ UNCHANGED <<streamVars, buffer, clock, workVars, alerts, crashes>>

\* A replica dies and starts again with nothing in memory.
Crash(r) ==
    /\ crashes < MaxCrashes
    /\ crashes' = crashes + 1
    /\ \E kept \in OthersInOrder(r) : buffer' = [k \in DOMAIN kept |-> buffer[kept[k]]]
    /\ state' = [state EXCEPT ![r] = [d \in Drones |-> Unknown]]
    /\ lastPrune' = [lastPrune EXCEPT ![r] = -PruneEvery]
    /\ decided' = [decided EXCEPT ![r] = {}]
    /\ step' = [step EXCEPT ![r] = [w \in Workers |-> "idle"]]
    /\ msg' = [msg EXCEPT ![r] = [w \in Workers |-> NoMsg]]
    /\ todo' = [todo EXCEPT ![r] = [w \in Workers |-> {}]]
    /\ UNCHANGED <<streamVars, clock, alerts>>

Broker(A) == A /\ UNCHANGED <<checkVars, workVars, alerts, crashes>>

WorkerStep(r, w) ==
    Skip(r, w) \/ Locate(r, w) \/ DiffStale(r, w) \/ Diff(r, w) \/ PublishAlert(r, w) \/ Ack(r, w)

\* The bounds are reached and nothing is in progress.
Idle ==
    /\ StreamIdle
    /\ \A r \in Replicas, w \in Workers : step[r][w] = "idle"
    /\ UNCHANGED vars

Next ==
    \/ \E m \in Msgs : Broker(Publish(m)) \/ Broker(Deliver(m))
    \/ Broker(Tick)
    \/ \E r \in Replicas :
         (\E w \in Workers : WorkerStep(r, w)) \/ ActiveAlarms(r) \/ Crash(r)
    \/ Idle

Spec == Init /\ [][Next]_vars

-----------------------------------------------------------------------------
(* Properties.                                                             *)

\* The shapes of the variables.
TypeOK ==
    /\ ConsumerTypeOK
    /\ state \in [Replicas -> [Drones ->
         {Unknown} \cup [zones : SUBSET Zones, lastTimestamp : 1..MaxTimestamp, lastSeen : 0..MaxClock]]]
    /\ lastPrune \in [Replicas -> Int]
    /\ step \in [Replicas -> [Workers -> {"idle", "located", "alert"}]]
    /\ msg \in [Replicas -> [Workers -> Msgs \cup {NoMsg}]]
    /\ todo \in [Replicas -> [Workers -> SUBSET Alerts]]
    /\ alerts \subseteq Alerts
    /\ decided \in [Replicas -> SUBSET Alerts]

\* The event of drone and zone that comes right before e, if any.
Before(r, e) ==
    {f \in decided[r] : f.drone = e.drone /\ f.zone = e.zone /\ f.ts < e.ts}

\* For as long as a replica remembers a drone, its events of each zone go
\* entered, exited, entered, ... in the order of their timestamps, however the
\* workers interleave and whatever is redelivered; and the zones kept for the
\* drone are those it entered last.
EventsAlternate ==
    \A r \in Replicas : \A d \in Drones, z \in Zones :
      LET all == {e \in decided[r] : e.drone = d /\ e.zone = z}
          in  == {e \in all : e.event = "entered"}
          out == all \ in
      IN
      /\ \A e, f \in all : e.ts = f.ts => e = f
      /\ \A e \in all :
           e.event = "entered" <=>
               Cardinality(Before(r, e) \cap in) = Cardinality(Before(r, e) \cap out)
      /\ (z \in state[r][d].zones) <=> (Cardinality(in) = Cardinality(out) + 1)

\* The entries of drone d into zone z along its track of checked samples.
Track(d) == {m \in Msgs \ Unchecked : DroneOf[m] = d}
TrueEntries(d, z) ==
    {m \in Track(d) :
        /\ z \in ZonesOf[m]
        /\ \A n \in Track(d) : TsOf[n] < TsOf[m] =>
             \/ z \notin ZonesOf[n]
             \/ \E o \in Track(d) : TsOf[n] < TsOf[o] /\ TsOf[o] < TsOf[m] /\ z \notin ZonesOf[o]}

\* The alarm of a zone is raised "once per entry": no more entered alerts of a
\* drone and zone than entries on the drone's track.
OncePerEntry ==
    \A d \in Drones, z \in Zones :
        Cardinality({a \in alerts : a.drone = d /\ a.zone = z /\ a.event = "entered"})
            <= Cardinality(TrueEntries(d, z))

=============================================================================
