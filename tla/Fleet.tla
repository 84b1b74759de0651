------------------------------- MODULE Fleet --------------------------------
(***************************************************************************)
(* The fleet manager (internal/fleet/manager.go) and its Postgres store    *)
(* (internal/repository/postgres/fleet.go).                                *)
(*                                                                         *)
(* Drones and missions live in memory under one mutex; every request first *)
(* changes memory under the lock and then, outside it, the database.  The  *)
(* ticker flies the drones and saves the missions that ended.  A restart   *)
(* rebuilds memory from the database.                                      *)
(*                                                                         *)
(* Positions are abstracted to whether the next waypoint (or the base) is  *)
(* reached in a tick; battery levels are integers with the code's          *)
(* thresholds as constants.  The totals kept for /metrics are left out.    *)
(***************************************************************************)
EXTENDS Integers, FiniteSets

CONSTANTS
    Drones,          \* drone identifiers
    Clients,         \* HTTP requests in progress
    NoDrone,         \* stands for no drone
    MaxMission,      \* bound: missions are numbered 1..MaxMission
    Waypoints,       \* waypoints of every mission
    FullBattery, LowBattery, DrainPerTick, HoverDrain, ChargePerTick,
    Failing,         \* the store calls that may fail: "drone", "mission"
    MaxCrashes       \* bound on the restarts of the process

ASSUME FleetAssumption ==
    /\ NoDrone \notin Drones
    /\ MaxMission \in Nat /\ Waypoints \in Nat \ {0} /\ MaxCrashes \in Nat
    /\ FullBattery \in Nat /\ LowBattery \in Nat /\ LowBattery < FullBattery
    /\ {DrainPerTick, HoverDrain, ChargePerTick} \subseteq Nat \ {0}
    /\ Failing \subseteq {"drone", "mission"}

VARIABLES
    drone,      \* m.drones, Grounded when absent
    mission,    \* m.missions, NoMission when absent
    nextID,     \* m.nextID
    request,    \* what each request still has to do after its locked part
    saves,      \* missions the ticker still has to save
    dbDrones,   \* rows of fleet_drones
    dbMission,  \* rows of fleet_missions, NoMission when absent
    crashes

memory == <<drone, mission, nextID>>
store  == <<dbDrones, dbMission>>
vars   == <<memory, request, saves, store, crashes>>

MissionIDs == 1..MaxMission
InFlight   == {"en-route", "holding", "returning"}
Live       == {"active", "paused"}
NoMission  == [state |-> "none", drone |-> NoDrone, progress |-> 0]
Absent     == [status |-> "none", battery |-> 0, mission |-> 0]
AtBase     == [status |-> "idle", battery |-> FullBattery, mission |-> 0]
Idle       == [op |-> "idle", drone |-> NoDrone, id |-> 0, row |-> NoMission]

DroneRecords ==
    [status : InFlight \cup {"none", "idle", "charging"},
     battery : 0..FullBattery, mission : 0..MaxMission]
MissionRecords ==
    [state : Live \cup {"none", "planned", "completed", "aborted"},
     drone : Drones \cup {NoDrone}, progress : 0..Waypoints]
Requests ==
    [op : {"idle", "saveDrone", "deleteDrone", "guard", "saveNew", "save", "deleteMission"},
     drone : Drones \cup {NoDrone}, id : 0..MaxMission, row : MissionRecords]

HasDrone(d)   == drone[d].status # "none"
HasMission(m) == mission[m].state # "none"

\* The fleet of the first start, with the drones the migration inserts.
Init ==
    /\ dbDrones = Drones
    /\ dbMission = [m \in MissionIDs |-> NoMission]
    /\ drone = [d \in Drones |-> AtBase]
    /\ mission = [m \in MissionIDs |-> NoMission]
    /\ nextID = 0
    /\ request = [c \in Clients |-> Idle]
    /\ saves = {}
    /\ crashes = 0

-----------------------------------------------------------------------------
(* The locked part of each request.                                        *)

Free(c) == request[c].op = "idle"
Then(c, op, d, m, row) ==
    request' = [request EXCEPT ![c] = [op |-> op, drone |-> d, id |-> m, row |-> row]]

AddDrone(c, d) ==
    /\ Free(c)
    /\ ~HasDrone(d)
    /\ drone' = [drone EXCEPT ![d] = AtBase]
    /\ Then(c, "saveDrone", d, 0, NoMission)
    /\ UNCHANGED <<mission, nextID, saves, store, crashes>>

\* RemoveDrone refuses a drone in flight or with an unfinished mission.
RemoveDrone(c, d) ==
    /\ Free(c)
    /\ HasDrone(d) /\ drone[d].status \notin InFlight
    /\ \A m \in MissionIDs :
         mission[m].drone = d => mission[m].state \in {"none", "completed", "aborted"}
    /\ drone' = [drone EXCEPT ![d] = Absent]
    /\ Then(c, "deleteDrone", d, 0, NoMission)
    /\ UNCHANGED <<mission, nextID, saves, store, crashes>>

\* CreateMission, first locked part: the drone exists.
CreateCheck(c, d) ==
    /\ Free(c)
    /\ HasDrone(d)
    /\ Then(c, "guard", d, 0, NoMission)
    /\ UNCHANGED <<memory, saves, store, crashes>>

\* The zone guard fails or finds a restricted waypoint.
CreateRefused(c) ==
    /\ request[c].op = "guard"
    /\ request' = [request EXCEPT ![c] = Idle]
    /\ UNCHANGED <<memory, saves, store, crashes>>

\* CreateMission, second locked part: the drone is not looked up again.
CreateMission(c) ==
    /\ request[c].op = "guard"
    /\ nextID < MaxMission
    /\ LET new == [state |-> "planned", drone |-> request[c].drone, progress |-> 0] IN
       /\ nextID' = nextID + 1
       /\ mission' = [mission EXCEPT ![nextID + 1] = new]
       /\ Then(c, "saveNew", request[c].drone, nextID + 1, new)
    /\ UNCHANGED <<drone, saves, store, crashes>>

DeleteMission(c, m) ==
    /\ Free(c)
    /\ HasMission(m) /\ mission[m].state \notin Live
    /\ mission' = [mission EXCEPT ![m] = NoMission]
    /\ Then(c, "deleteMission", NoDrone, m, NoMission)
    /\ UNCHANGED <<drone, nextID, saves, store, crashes>>

\* mutateMission: m and its drone get new records, and m is to be saved.
Mutate(c, m, newMission, newDrone) ==
    /\ mission' = [mission EXCEPT ![m] = newMission]
    /\ drone' = [drone EXCEPT ![mission[m].drone] = newDrone]
    /\ Then(c, "save", NoDrone, m, newMission)
    /\ UNCHANGED <<nextID, saves, store, crashes>>

\* mutateMission finds the mission and its drone.
Found(c, m) == Free(c) /\ HasMission(m) /\ HasDrone(mission[m].drone)

\* Mutant: Launch does not look at the drone's status.
LaunchBusy(c, m) ==
    /\ Found(c, m)
    /\ mission[m].state \in {"planned", "aborted", "completed"}
    /\ LET d == drone[mission[m].drone] IN
       /\ d.battery > LowBattery
       /\ Mutate(c, m, [mission[m] EXCEPT !.state = "active", !.progress = 0],
                       [d EXCEPT !.status = "en-route", !.mission = m])

Launch(c, m) ==
    /\ Found(c, m)
    /\ mission[m].state \in {"planned", "aborted", "completed"}
    /\ LET d == drone[mission[m].drone] IN
       /\ d.status \notin InFlight
       /\ d.battery > LowBattery
       /\ Mutate(c, m, [mission[m] EXCEPT !.state = "active", !.progress = 0],
                       [d EXCEPT !.status = "en-route", !.mission = m])

Pause(c, m) ==
    /\ Found(c, m)
    /\ mission[m].state = "active"
    /\ LET d == drone[mission[m].drone] IN
       Mutate(c, m, [mission[m] EXCEPT !.state = "paused"],
                    [d EXCEPT !.status = IF @ = "en-route" THEN "holding" ELSE @])

Resume(c, m) ==
    /\ Found(c, m)
    /\ mission[m].state = "paused"
    /\ LET d == drone[mission[m].drone] IN
       Mutate(c, m, [mission[m] EXCEPT !.state = "active"],
                    [d EXCEPT !.status = IF @ = "holding" THEN "en-route" ELSE @])

Abort(c, m) ==
    /\ Found(c, m)
    /\ mission[m].state \in Live
    /\ LET d == drone[mission[m].drone] IN
       Mutate(c, m, [mission[m] EXCEPT !.state = "aborted"], [d EXCEPT !.status = "returning"])

\* Recall aborts the mission the drone is flying, if it is live.
Recall(c, d) ==
    /\ Free(c)
    /\ drone[d].status \in InFlight
    /\ drone' = [drone EXCEPT ![d].status = "returning"]
    /\ LET m == drone[d].mission IN
       IF m \in MissionIDs /\ mission[m].state \in Live
       THEN LET row == [mission[m] EXCEPT !.state = "aborted"] IN
            /\ mission' = [mission EXCEPT ![m] = row]
            /\ Then(c, "save", NoDrone, m, row)
       ELSE UNCHANGED <<mission, request>>
    /\ UNCHANGED <<nextID, saves, store, crashes>>

-----------------------------------------------------------------------------
(* The store, after the lock is released.                                  *)

Done(c) == request' = [request EXCEPT ![c] = Idle]

\* The tables once the statement of request c has been committed.
DronesStored(c) ==
    IF request[c].op = "saveDrone" THEN dbDrones \cup {request[c].drone}
    ELSE dbDrones \ {request[c].drone}
MissionStored(c) == [dbMission EXCEPT ![request[c].id] = request[c].row]

StoreDrone(c) ==
    /\ request[c].op \in {"saveDrone", "deleteDrone"}
    /\ dbDrones' = DronesStored(c)
    /\ Done(c)
    /\ UNCHANGED <<memory, saves, dbMission, crashes>>

\* SaveDrone or DeleteDrone returns an error, the row committed all the same or not.
\* A failed SaveDrone takes the drone back out of memory.
StoreDroneFails(c) ==
    /\ request[c].op \in {"saveDrone", "deleteDrone"}
    /\ "drone" \in Failing
    /\ drone' = IF request[c].op = "saveDrone"
                THEN [drone EXCEPT ![request[c].drone] = Absent] ELSE drone
    /\ dbDrones' \in {dbDrones, DronesStored(c)}
    /\ Done(c)
    /\ UNCHANGED <<mission, nextID, saves, dbMission, crashes>>

\* SaveMission writes the copy taken under the lock, DeleteMission nothing.
StoreMission(c) ==
    /\ request[c].op \in {"saveNew", "save", "deleteMission"}
    /\ dbMission' = MissionStored(c)
    /\ Done(c)
    /\ UNCHANGED <<memory, saves, dbDrones, crashes>>

\* The call returns an error, the row committed all the same or not.  A failed
\* save of a new mission takes it back out of memory.
StoreMissionFails(c) ==
    /\ request[c].op \in {"saveNew", "save", "deleteMission"}
    /\ "mission" \in Failing
    /\ mission' = IF request[c].op = "saveNew"
                  THEN [mission EXCEPT ![request[c].id] = NoMission] ELSE mission
    /\ dbMission' \in {dbMission, MissionStored(c)}
    /\ Done(c)
    /\ UNCHANGED <<drone, nextID, saves, dbDrones, crashes>>

-----------------------------------------------------------------------------
(* The ticker.                                                             *)

\* Mutant: the level is only clamped at the top.
ClampNot(v) == IF v > FullBattery THEN FullBattery ELSE v

\* clampBattery.
Clamp(v) == IF v < 0 THEN 0 ELSE IF v > FullBattery THEN FullBattery ELSE v

\* d flies a mission that is still in the map.
Flying(d) ==
    /\ drone[d].status = "en-route"
    /\ drone[d].mission \in MissionIDs /\ HasMission(drone[d].mission)

\* advanceMission: the state and progress of mission m flown by drone d.
Advanced(m, d, reached) ==
    LET progress == mission[m].progress + (IF reached THEN 1 ELSE 0) IN
    CASE Clamp(drone[d].battery - DrainPerTick) <= LowBattery ->
           [mission[m] EXCEPT !.state = "aborted"]
      [] Clamp(drone[d].battery - DrainPerTick) > LowBattery
         /\ mission[m].progress >= Waypoints ->
           [mission[m] EXCEPT !.state = "completed"]
      [] OTHER ->
           [mission[m] EXCEPT !.progress = progress,
                              !.state = IF progress >= Waypoints THEN "completed" ELSE @]

\* Mutant: nobody looks after a drone without a mission.
NeverStray(d) == FALSE

\* d is under way for a mission that is no longer in the map.
Stray(d) == drone[d].status = "en-route" /\ ~Flying(d)

\* The switch of tick for one drone.
Ticked(d, reached) ==
    LET s == drone[d].status IN
    CASE Flying(d) ->
           [drone[d] EXCEPT
              !.battery = Clamp(@ - DrainPerTick),
              !.status = IF Advanced(drone[d].mission, d, reached).state \in {"aborted", "completed"}
                         THEN "returning" ELSE @]
      [] Stray(d) -> [drone[d] EXCEPT !.status = "returning"]
      [] s = "holding" ->
           [drone[d] EXCEPT
              !.battery = Clamp(@ - HoverDrain),
              !.status = IF Clamp(drone[d].battery - HoverDrain) <= LowBattery
                         THEN "returning" ELSE @]
      [] s = "returning" ->
           LET battery == Clamp(drone[d].battery - HoverDrain) IN
           IF reached
           THEN [status |-> IF battery >= FullBattery THEN "idle" ELSE "charging",
                 battery |-> battery, mission |-> 0]
           ELSE [drone[d] EXCEPT !.battery = battery]
      [] s = "charging" ->
           LET battery == Clamp(drone[d].battery + ChargePerTick) IN
           [drone[d] EXCEPT !.battery = battery,
                            !.status = IF battery >= FullBattery THEN "idle" ELSE @]
      [] OTHER -> drone[d]

\* What tick does to mission m, through the drone that flies it.
TickedMission(m, reached) ==
    LET d == mission[m].drone IN
    IF ~HasMission(m) \/ drone[d].mission # m THEN mission[m]
    ELSE CASE Flying(d) -> Advanced(m, d, reached[d])
           [] drone[d].status = "holding" /\ mission[m].state = "paused"
              /\ Clamp(drone[d].battery - HoverDrain) <= LowBattery ->
                [mission[m] EXCEPT !.state = "aborted"]
           [] OTHER -> mission[m]

\* tick handles every drone under one lock; Run saves the missions it ended.
Tick ==
    /\ saves = {}
    /\ \E reached \in [Drones -> BOOLEAN] :
         /\ drone' = [d \in Drones |-> Ticked(d, reached[d])]
         /\ mission' = [m \in MissionIDs |-> TickedMission(m, reached)]
         /\ saves' = {[id |-> m, row |-> mission'[m]] :
                        m \in {n \in MissionIDs : mission'[n].state # mission[n].state}}
    /\ UNCHANGED <<nextID, request, store, crashes>>

\* Run's SaveMission: an error is only logged.
TickSave ==
    /\ \E s \in saves :
         /\ saves' = saves \ {s}
         /\ dbMission' \in {[dbMission EXCEPT ![s.id] = s.row]}
                           \cup (IF "mission" \in Failing THEN {dbMission} ELSE {})
    /\ UNCHANGED <<memory, request, dbDrones, crashes>>

\* Load: drones at their base and charged, missions in flight planned again.
Loaded(row) ==
    IF row.state \in Live THEN [row EXCEPT !.state = "planned", !.progress = 0] ELSE row

\* The highest mission number stored, 0 when there is none.
MaxSeq ==
    CHOOSE n \in 0..MaxMission :
        /\ n = 0 \/ dbMission[n] # NoMission
        /\ \A m \in MissionIDs : dbMission[m] # NoMission => m <= n

\* Mutant: Load starts numbering from zero.
RestartFromZero ==
    /\ crashes < MaxCrashes
    /\ crashes' = crashes + 1
    /\ drone' = [d \in Drones |-> IF d \in dbDrones THEN AtBase ELSE Absent]
    /\ mission' = [m \in MissionIDs |-> Loaded(dbMission[m])]
    /\ nextID' = 0
    /\ request' = [c \in Clients |-> Idle]
    /\ saves' = {}
    /\ UNCHANGED store

\* The process stops, with requests in progress, and starts again.
Restart ==
    /\ crashes < MaxCrashes
    /\ crashes' = crashes + 1
    /\ drone' = [d \in Drones |-> IF d \in dbDrones THEN AtBase ELSE Absent]
    /\ mission' = [m \in MissionIDs |-> Loaded(dbMission[m])]
    /\ nextID' = MaxSeq
    /\ request' = [c \in Clients |-> Idle]
    /\ saves' = {}
    /\ UNCHANGED store

-----------------------------------------------------------------------------
Next ==
    \/ \E c \in Clients :
         \/ \E d \in Drones : AddDrone(c, d) \/ RemoveDrone(c, d) \/ CreateCheck(c, d) \/ Recall(c, d)
         \/ CreateRefused(c) \/ CreateMission(c)
         \/ \E m \in MissionIDs :
              Launch(c, m) \/ Pause(c, m) \/ Resume(c, m) \/ Abort(c, m) \/ DeleteMission(c, m)
         \/ StoreDrone(c) \/ StoreDroneFails(c) \/ StoreMission(c) \/ StoreMissionFails(c)
    \/ Tick \/ TickSave \/ Restart

Spec == Init /\ [][Next]_vars

\* The ticker goes on ticking, and its saves return.
FairSpec == Spec /\ WF_vars(Tick) /\ WF_vars(TickSave)

-----------------------------------------------------------------------------
(* Properties.                                                             *)

\* The shapes of the variables.
TypeOK ==
    /\ drone \in [Drones -> DroneRecords]
    /\ mission \in [MissionIDs -> MissionRecords]
    /\ nextID \in 0..MaxMission
    /\ request \in [Clients -> Requests]
    /\ saves \subseteq [id : MissionIDs, row : MissionRecords]
    /\ dbDrones \subseteq Drones
    /\ dbMission \in [MissionIDs -> MissionRecords]
    /\ crashes \in 0..MaxCrashes

\* The live missions of d are flown by d: one that is active with d en route,
\* one that is paused with d holding.  So d has one of them at most.
FliesItsMissions(d) ==
    \A m \in MissionIDs : mission[m].drone = d /\ mission[m].state \in Live =>
        /\ HasDrone(d)
        /\ drone[d].mission = m
        /\ drone[d].status = IF mission[m].state = "active" THEN "en-route" ELSE "holding"

\* AddDrone takes d back out of memory, because it could not be saved.
AddUndone(d) ==
    \E c \in Clients : request[c].op = "saveDrone" /\ request[c].drone = d /\ StoreDroneFails(c)

\* Every live mission goes on being flown by its own drone, whatever operators,
\* failing saves, the ticker and a restart do and in any order, with one
\* exception: a drone that could not be saved is removed even if it was sent out
\* meanwhile.
LiveStaysFlown ==
    [][\A d \in Drones : FliesItsMissions(d) => FliesItsMissions(d)' \/ AddUndone(d)]_vars

\* A mission number is never given to a second mission while the first one
\* exists, in memory or in the database, restarts included.
NumbersNotReused ==
    \A m \in MissionIDs : HasMission(m) \/ dbMission[m] # NoMission => m <= nextID

\* The battery brings every drone home: one that is en route or holding ends
\* up returning or grounded, however often it is paused and resumed.
FlightsEnd ==
    \A d \in Drones :
        (drone[d].status \in {"en-route", "holding"})
            ~> (drone[d].status \notin {"en-route", "holding"})

\* The manager's own rule for a mission, "an existing drone": a mission that
\* is still to be flown names a drone of the fleet.
PlannedHasDrone ==
    \A m \in MissionIDs : mission[m].state = "planned" => HasDrone(mission[m].drone)

=============================================================================
