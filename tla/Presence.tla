------------------------------ MODULE Presence ------------------------------
(***************************************************************************)
(* The zone alarms the geofence replicas show together                     *)
(* (cmd/geofence/shardstate.go, internal/repository/postgres/shardstate.go *)
(* and ZoneChecker.ActiveAlarms): once per interval a replica replaces its *)
(* rows of zone_presence, and a request for the alarms sums the rows that  *)
(* are fresh.  A drone is heard by the replica that owns the partition of  *)
(* its position, and on the way over a partition border it changes         *)
(* replicas without being forgotten by the one it leaves.                  *)
(*                                                                         *)
(* One zone is enough: zones do not touch each other.  Instants are kept   *)
(* as ages, up to the age from which they make no difference.  The swarms  *)
(* of a replica are published by the same loop in the same way.            *)
(***************************************************************************)
EXTENDS Partition, FiniteSets

CONSTANTS
    Flyers,        \* drones
    NumReplicas,   \* shardCount
    NumPartitions, \* partitionCount
    AlarmWindow,   \* alarmActiveWindow
    PublishEvery,  \* shardStateInterval
    Fresh,         \* shardStateFresh
    MaxMissed,     \* bound: publications of a replica that fail in a row
    MaxDeaths      \* bound: replicas that die

ASSUME PresenceAssumption ==
    /\ IsFiniteSet(Flyers)
    /\ NumReplicas \in Nat \ {0} /\ NumPartitions \in Nat \ {0}
    /\ {AlarmWindow, MaxMissed, MaxDeaths} \subseteq Nat
    /\ PublishEvery \in Nat \ {0} /\ Fresh \in Nat \ {0}

ReplicaIDs == 0..(NumReplicas - 1)

\* The replica whose zone checker hears a position in partition p.
OwnerOfPartition(p) ==
    CHOOSE r \in ReplicaIDs : p \in AssignedPartitions(NumPartitions, r, NumReplicas)

MaxSeen == AlarmWindow + 1
MaxHeld == PublishEvery * (MaxMissed + 1)
MaxSince == AlarmWindow + Fresh + 1

VARIABLES
    seen,       \* per replica and drone: age of lastSeen, MaxSeen when unknown or older
    within,     \* per replica: the drones last seen inside the zone
    rowCount,  \* per replica: the drones its row counts, 0 for no row
    rowAge,     \* per replica: age of updated_at
    ticker,     \* per replica: age of the last tick of publishShardState
    missed,     \* per replica: publications that failed since the last one stored
    alive,      \* replicas that run
    deaths,
    heldFor,    \* per drone: how long it has reported from inside without a gap
    outsideFor  \* how long ago a sample last showed or kept a drone inside somewhere

checkerVars == <<seen, within>>
rowVars == <<rowCount, rowAge, ticker, missed>>
trailVars == <<heldFor, outsideFor>>
presenceVars == <<checkerVars, rowVars, alive, deaths, trailVars>>

NotInside == -1

PresenceInit ==
    /\ seen = [r \in ReplicaIDs |-> [d \in Flyers |-> MaxSeen]]
    /\ within = [r \in ReplicaIDs |-> {}]
    /\ rowCount = [r \in ReplicaIDs |-> 0]
    /\ rowAge = [r \in ReplicaIDs |-> Fresh]
    /\ ticker = [r \in ReplicaIDs |-> 0]
    /\ missed = [r \in ReplicaIDs |-> 0]
    /\ alive = ReplicaIDs
    /\ deaths = 0
    /\ heldFor = [d \in Flyers |-> NotInside]
    /\ outsideFor = MaxSince

Earliest(a, b) == IF a < b THEN a ELSE b

\* ActiveAlarms of replica r: drones inside the zone, heard within the window.
ActiveAlarmsOf(r) == Cardinality({d \in within[r] : seen[r][d] <= AlarmWindow})

\* Mutant: rows of replicas that stopped publishing keep counting.
FreshEver(r) == TRUE

\* A row updated within shardStateFresh.
IsFresh(r) == rowAge[r] < Fresh

\* ActiveZoneAlarms: whether the sum over the fresh rows is positive.
Alarmed == \E r \in ReplicaIDs : IsFresh(r) /\ rowCount[r] > 0

-----------------------------------------------------------------------------
(* Actions.                                                                *)

\* A sample of drone d in partition p is processed by the owner, if it runs;
\* a drone reports from inside or from outside the zone.
Report(d, p, isInside) ==
    LET r == OwnerOfPartition(p) IN
    /\ r \in alive
    /\ seen' = [seen EXCEPT ![r][d] = 0]
    /\ within' = [within EXCEPT ![r] = IF isInside THEN @ \cup {d} ELSE @ \ {d}]
    /\ heldFor' = [heldFor EXCEPT ![d] = IF ~isInside THEN NotInside
                                         ELSE IF @ = NotInside THEN 0 ELSE @]
    /\ outsideFor' = IF isInside THEN 0 ELSE outsideFor
    /\ UNCHANGED <<rowVars, alive, deaths>>

\* A sample that is not newer than the last one the owner has of the drone, redelivered
\* or late: the drone counts as heard, where it was.
ReportStale(d, p) ==
    LET r == OwnerOfPartition(p) IN
    /\ r \in alive /\ (d \in within[r] \/ seen[r][d] < MaxSeen)
    /\ seen' = [seen EXCEPT ![r][d] = 0]
    /\ outsideFor' = IF d \in within[r] THEN 0 ELSE outsideFor
    /\ UNCHANGED <<within, heldFor, rowVars, alive, deaths>>

\* Mutant: a failed publication has deleted the old rows already.
LeaveRows(r) ==
    /\ rowCount' = [rowCount EXCEPT ![r] = 0]
    /\ UNCHANGED rowAge

\* A publication that fails leaves the rows as they are: the batch is one
\* implicit transaction.
KeepRows(r) == UNCHANGED <<rowCount, rowAge>>

\* A tick of publishShardState: PublishZonePresence deletes the rows of the
\* replica and inserts a row for a zone with drones, and is retried by no one.
PublishZonePresence(r) ==
    /\ r \in alive /\ ticker[r] = PublishEvery
    /\ ticker' = [ticker EXCEPT ![r] = 0]
    /\ \/ /\ rowCount' = [rowCount EXCEPT ![r] = ActiveAlarmsOf(r)]
          /\ rowAge' = [rowAge EXCEPT ![r] = IF ActiveAlarmsOf(r) > 0 THEN 0 ELSE Fresh]
          /\ missed' = [missed EXCEPT ![r] = 0]
       \/ /\ missed[r] < MaxMissed
          /\ missed' = [missed EXCEPT ![r] = @ + 1]
          /\ KeepRows(r)
    /\ UNCHANGED <<checkerVars, alive, deaths, trailVars>>

\* A replica dies: its memory is lost, its rows stay.  What it heard may not be
\* counted again before it is back.
Die(r) ==
    /\ r \in alive /\ deaths < MaxDeaths
    /\ deaths' = deaths + 1
    /\ alive' = alive \ {r}
    /\ seen' = [seen EXCEPT ![r] = [d \in Flyers |-> MaxSeen]]
    /\ within' = [within EXCEPT ![r] = {}]
    /\ heldFor' = [d \in Flyers |-> NotInside]
    /\ UNCHANGED <<rowVars, outsideFor>>

\* The replica is started again, with a new ticker.
Restart(r) ==
    /\ r \notin alive
    /\ alive' = alive \cup {r}
    /\ ticker' = [ticker EXCEPT ![r] = 0]
    /\ missed' = [missed EXCEPT ![r] = 0]
    /\ UNCHANGED <<checkerVars, rowCount, rowAge, deaths, trailVars>>

\* Some replica has heard the drone in the current second and has it inside.
Heard(d) == \E r \in ReplicaIDs : d \in within[r] /\ seen[r][d] = 0

\* A second passes, unless a ticker that is due has not been served.
PresenceTick ==
    /\ \A r \in alive : ticker[r] < PublishEvery
    /\ seen' = [r \in ReplicaIDs |-> [d \in Flyers |-> Earliest(seen[r][d] + 1, MaxSeen)]]
    /\ rowAge' = [r \in ReplicaIDs |-> Earliest(rowAge[r] + 1, Fresh)]
    /\ rowCount' = [r \in ReplicaIDs |-> IF IsFresh(r) THEN rowCount[r] ELSE 0]
    /\ ticker' = [r \in ReplicaIDs |-> IF r \in alive THEN ticker[r] + 1 ELSE 0]
    /\ heldFor' = [d \in Flyers |->
          IF heldFor[d] # NotInside /\ Heard(d) THEN Earliest(heldFor[d] + 1, MaxHeld) ELSE NotInside]
    /\ outsideFor' = Earliest(outsideFor + 1, MaxSince)
    /\ UNCHANGED <<within, missed, alive, deaths>>

PresenceNext ==
    \/ \E d \in Flyers, p \in PartitionIDs(NumPartitions), isInside \in BOOLEAN :
           Report(d, p, isInside)
    \/ \E d \in Flyers, p \in PartitionIDs(NumPartitions) : ReportStale(d, p)
    \/ \E r \in ReplicaIDs : PublishZonePresence(r) \/ Die(r) \/ Restart(r)
    \/ PresenceTick

PresenceSpec == PresenceInit /\ [][PresenceNext]_presenceVars

-----------------------------------------------------------------------------
(* Properties.                                                             *)

\* The shapes of the variables.
PresenceTypeOK ==
    /\ seen \in [ReplicaIDs -> [Flyers -> 0..MaxSeen]]
    /\ within \in [ReplicaIDs -> SUBSET Flyers]
    /\ rowCount \in [ReplicaIDs -> 0..Cardinality(Flyers)]
    /\ rowAge \in [ReplicaIDs -> 0..Fresh]
    /\ ticker \in [ReplicaIDs -> 0..PublishEvery]
    /\ missed \in [ReplicaIDs -> 0..MaxMissed]
    /\ alive \subseteq ReplicaIDs
    /\ deaths \in 0..MaxDeaths
    /\ heldFor \in [Flyers -> NotInside..MaxHeld]
    /\ outsideFor \in 0..MaxSince

\* "An oblast stays alarmed while at least one drone is inside its buffer"
\* (README.md:28), also while the drone wanders over partition borders and the
\* replicas fail some of their publications: once it has been inside for a full
\* round of publications the zone is alarmed, until it leaves, falls silent or a
\* replica dies.
AlarmHeld ==
    (\E d \in Flyers : heldFor[d] = MaxHeld /\ \A r \in alive : ticker[r] < PublishEvery)
        => Alarmed

\* No replica keeps an alarm up for a drone it lost to another replica, and no
\* row outlives its replica, for longer than the two windows together; only a late or
\* redelivered sample keeps a drone where a replica last saw it for one more window.
GhostsFade == outsideFor = MaxSince => ~Alarmed

=============================================================================
