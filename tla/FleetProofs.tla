----------------------------- MODULE FleetProofs -----------------------------
(***************************************************************************)
(* Proofs about the fleet manager, for every number of drones, missions    *)
(* and requests in progress.                                               *)
(***************************************************************************)
EXTENDS MCFleetFusion, FusionProofs, WellFoundedInduction

\* A set of numbers up to N has a largest one.
LEMMA LargestNumber ==
    ASSUME NEW N \in Nat, NEW S \in SUBSET (0..N), S # {}
    PROVE  \E n \in S : \A m \in S : m <= n
  <1> DEFINE T == {N - n : n \in S}
  <1>1. T \subseteq Nat /\ T # {}
    <2>1. \A n \in S : n \in Nat /\ n <= N
      OBVIOUS
    <2>2. \A n \in S : N - n \in Nat
      BY <2>1
    <2>3. PICK n : n \in S
      OBVIOUS
    <2>4. N - n \in T
      BY <2>3
    <2> QED
      BY <2>2, <2>4
  <1>2. PICK t \in T : \A u \in T : ~(<<u, t>> \in OpToRel(<, Nat))
    BY <1>1, NatLessThanWellFounded, WFMin
  <1>3. \A u \in T : ~(u < t)
    <2>1. \A u \in T : u \in Nat /\ t \in Nat
      BY <1>1
    <2> QED
      BY <1>2, <2>1 DEF OpToRel
  <1>4. PICK n \in S : t = N - n
    OBVIOUS
  <1>5. \A m \in S : ~(N - m < N - n)
    BY <1>3, <1>4
  <1>6. \A m \in S : m \in Int /\ n \in Int
    OBVIOUS
  <1> QED
    BY <1>5, <1>6

Own(row) == row.state # "none" => row.drone \in Drones

MissionsOK ==
    /\ mission \in [MissionIDs -> MissionRecords]
    /\ \A m \in MissionIDs : Own(mission[m]) /\ (HasMission(m) => m <= nextID)

RowsOK ==
    /\ dbMission \in [MissionIDs -> MissionRecords]
    /\ \A m \in MissionIDs : Own(dbMission[m]) /\ (dbMission[m] # NoMission => m <= nextID)

\* What a request has still to write carries a number already given.
RequestsOK ==
    /\ request \in [Clients -> Requests]
    /\ \A c \in Clients : /\ Own(request[c].row) /\ request[c].id <= nextID
                          /\ request[c].op \in {"guard", "saveDrone"}
                               => request[c].drone \in Drones

SavesOK ==
    /\ saves \subseteq [id : MissionIDs, row : MissionRecords]
    /\ \A s \in saves : Own(s.row) /\ s.id <= nextID

FleetOK ==
    /\ drone \in [Drones -> DroneRecords] /\ nextID \in 0..MaxMission
    /\ dbDrones \subseteq Drones /\ crashes \in 0..MaxCrashes

\* Every mission, in memory, in a row or on its way to one, names a drone that has
\* been added and bears a number that has been given.
FleetInv == FleetOK /\ MissionsOK /\ RowsOK /\ RequestsOK /\ SavesOK

\* The records the code writes have the shapes of the variables.
LEMMA Records ==
    /\ NoMission \in MissionRecords /\ Own(NoMission) /\ NoMission.state = "none"
    /\ AtBase \in DroneRecords /\ AtBase.status = "idle"
    /\ Absent \in DroneRecords /\ Absent.status = "none"
    /\ Idle \in Requests /\ Own(Idle.row) /\ Idle.id = 0 /\ Idle.op = "idle"
  <1> USE FleetAssumption
  <1>1. NoMission \in MissionRecords /\ Own(NoMission) /\ NoMission.state = "none"
    BY DEF NoMission, MissionRecords, Own
  <1>2. Idle \in Requests /\ Own(Idle.row) /\ Idle.id = 0 /\ Idle.op = "idle"
    BY <1>1 DEF Idle, Requests
  <1>3. /\ AtBase \in DroneRecords /\ AtBase.status = "idle"
        /\ Absent \in DroneRecords /\ Absent.status = "none"
    BY DEF AtBase, Absent, DroneRecords
  <1> QED
    BY <1>1, <1>2, <1>3

\* The fleet of the first start.
LEMMA FleetInitInv == Init => FleetInv
  <1> SUFFICES ASSUME Init PROVE FleetInv
    OBVIOUS
  <1> USE FleetAssumption, Records DEF Init
  <1>1. FleetOK
    BY DEF FleetOK
  <1>2. MissionsOK /\ RowsOK
    BY DEF MissionsOK, RowsOK, HasMission
  <1>3. RequestsOK /\ SavesOK
    BY DEF RequestsOK, SavesOK
  <1> QED
    BY <1>1, <1>2, <1>3 DEF FleetInv

\* What the locked part of a request leaves to be written.
LEMMA ThenKeeps ==
    ASSUME RequestsOK, NEW c \in Clients,
           NEW op \in {"idle", "saveDrone", "deleteDrone", "guard", "saveNew", "save",
                       "deleteMission"},
           NEW d \in Drones \cup {NoDrone}, NEW m \in 0..MaxMission, NEW row \in MissionRecords,
           Then(c, op, d, m, row), Own(row), op \in {"guard", "saveDrone"} => d \in Drones,
           nextID \in Nat, nextID' \in Nat, nextID <= nextID', m <= nextID'
    PROVE  RequestsOK'
  <1>1. [op |-> op, drone |-> d, id |-> m, row |-> row] \in Requests
    BY DEF Requests
  <1>2. request' \in [Clients -> Requests]
    BY <1>1 DEF Then, RequestsOK
  <1>3. /\ request'[c] = [op |-> op, drone |-> d, id |-> m, row |-> row]
        /\ \A b \in Clients \ {c} : request'[b] = request[b]
    BY DEF Then, RequestsOK
  <1>4. \A b \in Clients : request[b].id \in Nat
    BY FleetAssumption DEF RequestsOK, Requests
  <1> QED
    BY <1>2, <1>3, <1>4 DEF RequestsOK

\* A request that is over.
LEMMA DoneKeeps ==
    ASSUME RequestsOK, NEW c \in Clients, request' = [request EXCEPT ![c] = Idle],
           nextID \in Nat, nextID' = nextID
    PROVE  RequestsOK'
  BY Records, FleetAssumption DEF RequestsOK

\* A mission that gets a new record keeps its number.
LEMMA MissionKeeps ==
    ASSUME MissionsOK, NEW m \in MissionIDs, NEW row \in MissionRecords, Own(row),
           mission' = [mission EXCEPT ![m] = row], row.state # "none" => m <= nextID',
           nextID \in Nat, nextID' \in Nat, nextID <= nextID'
    PROVE  MissionsOK'
  <1>1. \A n \in MissionIDs : n \in Int
    BY DEF MissionIDs
  <1> QED
    BY <1>1 DEF MissionsOK, HasMission

\* Numbers only grow between restarts, so what bears one keeps its claim to it.
LEMMA NumbersKeep ==
    ASSUME nextID \in Nat, nextID' \in Nat, nextID <= nextID'
    PROVE  /\ MissionsOK /\ UNCHANGED mission => MissionsOK'
           /\ RowsOK /\ UNCHANGED dbMission => RowsOK'
           /\ RequestsOK /\ UNCHANGED request => RequestsOK'
           /\ SavesOK /\ UNCHANGED saves => SavesOK'
  <1>1. \A n \in MissionIDs : n \in Int
    BY DEF MissionIDs
  <1>2. RequestsOK => \A c \in Clients : request[c].id \in Int
    BY FleetAssumption DEF RequestsOK, Requests
  <1>3. SavesOK => \A s \in saves : s.id \in Int
    BY <1>1 DEF SavesOK
  <1>4. MissionsOK /\ UNCHANGED mission => MissionsOK'
    BY <1>1 DEF MissionsOK, HasMission
  <1>5. RowsOK /\ UNCHANGED dbMission => RowsOK'
    BY <1>1 DEF RowsOK
  <1>6. RequestsOK /\ UNCHANGED request => RequestsOK'
    BY <1>2 DEF RequestsOK
  <1>7. SavesOK /\ UNCHANGED saves => SavesOK'
    BY <1>3 DEF SavesOK
  <1> QED
    BY <1>4, <1>5, <1>6, <1>7

\* mutateMission: the drone and the mission are in their maps.
LEMMA MutateKeeps ==
    ASSUME FleetInv, NEW c \in Clients, NEW m \in MissionIDs,
           NEW newMission \in MissionRecords, NEW newDrone \in DroneRecords,
           Found(c, m), newMission.drone = mission[m].drone,
           Mutate(c, m, newMission, newDrone)
    PROVE  FleetInv'
  <1> USE FleetAssumption DEF FleetInv
  <1>1. /\ nextID \in Nat /\ nextID' = nextID /\ m <= nextID /\ m \in 0..MaxMission
        /\ nextID' \in Nat /\ nextID <= nextID' /\ m <= nextID'
    BY DEF Found, Mutate, FleetOK, MissionsOK, MissionIDs, HasMission
  <1>5. Own(newMission)
    BY DEF Found, MissionsOK, Own, HasMission
  <1>6. drone' \in [Drones -> DroneRecords]
    BY DEF Mutate, FleetOK
  <1>7. UNCHANGED <<saves, dbDrones, dbMission, crashes>>
    BY DEF Mutate, store
  <1>2. FleetOK' /\ RowsOK' /\ SavesOK'
    BY <1>1, <1>6, <1>7, NumbersKeep DEF FleetOK
  <1>3. MissionsOK'
    BY <1>1, <1>5, MissionKeeps DEF Mutate
  <1>4. RequestsOK'
    BY <1>1, <1>5, ThenKeeps DEF Mutate
  <1> QED
    BY <1>2, <1>3, <1>4

\* The locked part of every request.
LEMMA RequestInv ==
    ASSUME FleetInv, NEW c \in Clients,
           \/ \E d \in Drones : AddDrone(c, d) \/ RemoveDrone(c, d) \/ CreateCheck(c, d) \/ Recall(c, d)
           \/ CreateRefused(c) \/ CreateMission(c)
           \/ \E m \in MissionIDs :
                Launch(c, m) \/ Pause(c, m) \/ Resume(c, m) \/ Abort(c, m) \/ DeleteMission(c, m)
    PROVE  FleetInv'
  <1> USE FleetAssumption, Records DEF FleetInv
  <1>1. nextID \in Nat /\ nextID <= MaxMission /\ 0 \in 0..MaxMission
    BY DEF FleetOK
  <1>2. ASSUME NEW d \in Drones, AddDrone(c, d) \/ RemoveDrone(c, d)
        PROVE  FleetInv'
    <2>1. FleetOK' /\ nextID' = nextID
      BY <1>2 DEF AddDrone, RemoveDrone, FleetOK, store
    <2>2. MissionsOK' /\ RowsOK' /\ SavesOK'
      BY <1>1, <1>2, <2>1, NumbersKeep DEF AddDrone, RemoveDrone, store
    <2>3. RequestsOK'
      BY <1>1, <1>2, <2>1, ThenKeeps DEF AddDrone, RemoveDrone
    <2> QED
      BY <2>1, <2>2, <2>3
  <1>3. ASSUME NEW d \in Drones, CreateCheck(c, d)
        PROVE  FleetInv'
    <2>1. FleetOK' /\ nextID' = nextID
      BY <1>3 DEF CreateCheck, FleetOK, store, memory
    <2>2. MissionsOK' /\ RowsOK' /\ SavesOK'
      BY <1>1, <1>3, <2>1, NumbersKeep DEF CreateCheck, store, memory
    <2>3. RequestsOK'
      BY <1>1, <1>3, <2>1, ThenKeeps DEF CreateCheck
    <2> QED
      BY <2>1, <2>2, <2>3
  <1>4. ASSUME NEW d \in Drones, Recall(c, d)
        PROVE  FleetInv'
    <2> DEFINE m == drone[d].mission
               row == [mission[m] EXCEPT !.state = "aborted"]
    <2>1. [drone[d] EXCEPT !.status = "returning"] \in DroneRecords
      BY DEF FleetOK, DroneRecords, InFlight
    <2>2. FleetOK' /\ nextID' = nextID
      BY <1>4, <2>1 DEF Recall, FleetOK, store, DroneRecords
    <2>3. RowsOK' /\ SavesOK'
      BY <1>1, <1>4, <2>2, NumbersKeep DEF Recall, store
    <2>4. CASE m \in MissionIDs /\ mission[m].state \in Live
      <3>1. mission' = [mission EXCEPT ![m] = row] /\ Then(c, "save", NoDrone, m, row)
        BY <1>4, <2>4 DEF Recall
      <3>2. row \in MissionRecords /\ Own(row)
        BY <2>4 DEF MissionsOK, MissionRecords, Own, Live
      <3>3. m <= nextID /\ m \in 0..MaxMission
        BY <1>1, <2>4 DEF MissionsOK, HasMission, Live, MissionIDs
      <3>6. nextID' \in Nat /\ nextID <= nextID' /\ m <= nextID'
        BY <1>1, <2>2, <3>3
      <3> HIDE DEF m, row
      <3>4. MissionsOK'
        BY <1>1, <2>4, <3>1, <3>2, <3>6, MissionKeeps
      <3>5. RequestsOK'
        BY <1>1, <3>1, <3>2, <3>3, <3>6, ThenKeeps
      <3> QED
        BY <2>2, <2>3, <3>4, <3>5
    <2>5. CASE ~(m \in MissionIDs /\ mission[m].state \in Live)
      <3>1. UNCHANGED <<mission, request>>
        BY <1>4, <2>5 DEF Recall
      <3> QED
        BY <1>1, <2>2, <2>3, <3>1, NumbersKeep
    <2> QED
      BY <2>4, <2>5
  <1>5. CASE CreateRefused(c)
    <2>1. FleetOK' /\ nextID' = nextID
      BY <1>5 DEF CreateRefused, FleetOK, store, memory
    <2>2. MissionsOK' /\ RowsOK' /\ SavesOK'
      BY <1>1, <1>5, <2>1, NumbersKeep DEF CreateRefused, store, memory
    <2>3. RequestsOK'
      BY <1>1, <1>5, <2>1, DoneKeeps DEF CreateRefused
    <2> QED
      BY <2>1, <2>2, <2>3
  <1>6. CASE CreateMission(c)
    <2> DEFINE new == [state |-> "planned", drone |-> request[c].drone, progress |-> 0]
    <2>1. /\ nextID < MaxMission /\ nextID' = nextID + 1
          /\ mission' = [mission EXCEPT ![nextID + 1] = new]
          /\ Then(c, "saveNew", request[c].drone, nextID + 1, new)
          /\ UNCHANGED <<drone, saves, store, crashes>>
      BY <1>6 DEF CreateMission
    <2>2. request[c].drone \in Drones
      BY <1>6 DEF CreateMission, RequestsOK
    <2>3. new \in MissionRecords /\ Own(new)
      BY <2>2 DEF MissionRecords, Own, Live
    <2>4. nextID + 1 \in MissionIDs /\ nextID + 1 \in 0..MaxMission /\ nextID' \in Nat
          /\ nextID <= nextID'
      BY <1>1, <2>1 DEF MissionIDs
    <2>5. FleetOK'
      BY <2>1, <2>4 DEF FleetOK, store
    <2>6. MissionsOK'
      <3>1. nextID + 1 <= nextID'
        BY <2>1, <2>4
      <3> HIDE DEF new
      <3> QED
        BY <1>1, <2>1, <2>3, <2>4, <3>1, MissionKeeps
    <2>7. RowsOK' /\ SavesOK'
      BY <1>1, <2>1, <2>4, NumbersKeep DEF store
    <2>8. RequestsOK'
      BY <1>1, <2>1, <2>2, <2>3, <2>4, ThenKeeps
    <2> QED
      BY <2>5, <2>6, <2>7, <2>8
  <1>7. ASSUME NEW m \in MissionIDs, DeleteMission(c, m)
        PROVE  FleetInv'
    <2>1. FleetOK' /\ nextID' = nextID
      BY <1>7 DEF DeleteMission, FleetOK, store
    <2>2. RowsOK' /\ SavesOK'
      BY <1>1, <1>7, <2>1, NumbersKeep DEF DeleteMission, store
    <2>3. m <= nextID /\ m \in 0..MaxMission
      BY <1>1, <1>7 DEF DeleteMission, MissionsOK, MissionIDs
    <2>6. nextID' \in Nat /\ nextID <= nextID'
      BY <1>1, <2>1
    <2>4. MissionsOK'
      BY <1>1, <1>7, <2>6, MissionKeeps DEF DeleteMission
    <2>5. RequestsOK'
      BY <1>1, <1>7, <2>1, <2>3, ThenKeeps DEF DeleteMission
    <2> QED
      BY <2>1, <2>2, <2>4, <2>5
  <1>8. ASSUME NEW m \in MissionIDs, Launch(c, m) \/ Pause(c, m) \/ Resume(c, m) \/ Abort(c, m)
        PROVE  FleetInv'
    <2>1. Found(c, m) /\ mission[m].drone \in Drones
      BY <1>8 DEF Launch, Pause, Resume, Abort, Found, MissionsOK, Own, HasMission
    <2>2. PICK d \in DroneRecords : d = drone[mission[m].drone]
      BY <2>1 DEF FleetOK
    <2>3. PICK newMission \in MissionRecords, newDrone \in DroneRecords :
             /\ newMission.drone = mission[m].drone
             /\ Mutate(c, m, newMission, newDrone)
      <3>1. mission[m] \in MissionRecords
        BY DEF MissionsOK
      <3>2. CASE Launch(c, m)
        <4> DEFINE newMission == [mission[m] EXCEPT !.state = "active", !.progress = 0]
                   newDrone == [d EXCEPT !.status = "en-route", !.mission = m]
        <4>1. Mutate(c, m, newMission, newDrone)
          BY <2>2, <3>2 DEF Launch
        <4>2. newMission \in MissionRecords /\ newMission.drone = mission[m].drone
          <5>1. 0 \in 0..Waypoints
            OBVIOUS
          <5> QED
            BY <3>1, <5>1 DEF MissionRecords, Live
        <4>3. m \in 0..MaxMission
          BY DEF MissionIDs
        <4>4. newDrone \in DroneRecords
          BY <2>2, <4>3 DEF DroneRecords, InFlight
        <4> QED
          BY <4>1, <4>2, <4>4
      <3>3. CASE Pause(c, m)
        <4> DEFINE newMission == [mission[m] EXCEPT !.state = "paused"]
                   newDrone == [d EXCEPT !.status = IF @ = "en-route" THEN "holding" ELSE @]
        <4>1. Mutate(c, m, newMission, newDrone)
          BY <2>2, <3>3 DEF Pause
        <4>2. newMission \in MissionRecords /\ newMission.drone = mission[m].drone
          BY <3>1 DEF MissionRecords, Live
        <4>3. newDrone \in DroneRecords
          BY <2>2 DEF DroneRecords, InFlight
        <4> QED
          BY <4>1, <4>2, <4>3
      <3>4. CASE Resume(c, m)
        <4> DEFINE newMission == [mission[m] EXCEPT !.state = "active"]
                   newDrone == [d EXCEPT !.status = IF @ = "holding" THEN "en-route" ELSE @]
        <4>1. Mutate(c, m, newMission, newDrone)
          BY <2>2, <3>4 DEF Resume
        <4>2. newMission \in MissionRecords /\ newMission.drone = mission[m].drone
          BY <3>1 DEF MissionRecords, Live
        <4>3. newDrone \in DroneRecords
          BY <2>2 DEF DroneRecords, InFlight
        <4> QED
          BY <4>1, <4>2, <4>3
      <3>5. CASE Abort(c, m)
        <4> DEFINE newMission == [mission[m] EXCEPT !.state = "aborted"]
                   newDrone == [d EXCEPT !.status = "returning"]
        <4>1. Mutate(c, m, newMission, newDrone)
          BY <2>2, <3>5 DEF Abort
        <4>2. newMission \in MissionRecords /\ newMission.drone = mission[m].drone
          BY <3>1 DEF MissionRecords
        <4>3. newDrone \in DroneRecords
          BY <2>2 DEF DroneRecords, InFlight
        <4> QED
          BY <4>1, <4>2, <4>3
      <3> QED
        BY <1>8, <3>2, <3>3, <3>4, <3>5
    <2> QED
      BY <2>1, <2>3, MutateKeeps
  <1> QED
    BY <1>2, <1>3, <1>4, <1>5, <1>6, <1>7, <1>8

\* The store's part of every request, with its failures.
LEMMA StoreInv ==
    ASSUME FleetInv, NEW c \in Clients,
           StoreDrone(c) \/ StoreDroneFails(c) \/ StoreMission(c) \/ StoreMissionFails(c)
    PROVE  FleetInv'
  <1> USE FleetAssumption, Records DEF FleetInv
  <1>1. /\ nextID \in Nat /\ nextID' = nextID /\ UNCHANGED <<saves, crashes>>
        /\ request' = [request EXCEPT ![c] = Idle]
        /\ request[c] \in Requests
    BY DEF StoreDrone, StoreDroneFails, StoreMission, StoreMissionFails, memory, Done, FleetOK,
           RequestsOK
  <1>2. nextID' \in Nat /\ nextID <= nextID'
    BY <1>1
  <1>3. RequestsOK' /\ SavesOK'
    BY <1>1, <1>2, DoneKeeps, NumbersKeep
  <1>4. CASE StoreDrone(c)
    <2>1. dbDrones' \subseteq Drones
      BY <1>1, <1>4 DEF StoreDrone, DronesStored, FleetOK, RequestsOK
    <2> QED
      BY <1>1, <1>3, <1>4, <2>1, NumbersKeep DEF StoreDrone, FleetOK, memory
  <1>5. CASE StoreDroneFails(c)
    <2>1. drone' \in [Drones -> DroneRecords]
      BY <1>5 DEF StoreDroneFails, FleetOK
    <2>2. dbDrones' \subseteq Drones
      BY <1>1, <1>5 DEF StoreDroneFails, DronesStored, FleetOK, RequestsOK
    <2> QED
      BY <1>1, <1>3, <1>5, <2>1, <2>2, NumbersKeep DEF StoreDroneFails, FleetOK
  <1>6. dbMission' \in {dbMission, MissionStored(c)} => RowsOK'
    <2>1. Own(request[c].row) /\ request[c].id <= nextID /\ request[c].row \in MissionRecords
      BY <1>1 DEF RequestsOK, Requests
    <2> QED
      BY <1>1, <2>1 DEF RowsOK, MissionStored
  <1>7. CASE StoreMission(c)
    <2>1. RowsOK' /\ UNCHANGED <<drone, mission, dbDrones>>
      BY <1>6, <1>7 DEF StoreMission, memory
    <2> QED
      BY <1>1, <1>3, <2>1, NumbersKeep DEF FleetOK
  <1>8. CASE StoreMissionFails(c)
    <2>1. MissionsOK'
      BY <1>1, <1>8 DEF StoreMissionFails, MissionsOK, HasMission
    <2>2. RowsOK' /\ UNCHANGED <<drone, dbDrones>>
      BY <1>6, <1>8 DEF StoreMissionFails
    <2> QED
      BY <1>1, <1>3, <2>1, <2>2 DEF FleetOK
  <1> QED
    BY <1>4, <1>5, <1>7, <1>8

\* advanceMission and the switch of tick keep the records' shapes, the mission's drone
\* and whether there is a mission at all.
LEMMA TickRecords ==
    ASSUME FleetInv, NEW reached \in [Drones -> BOOLEAN]
    PROVE  /\ \A d \in Drones : Ticked(d, reached[d]) \in DroneRecords
           /\ \A m \in MissionIDs :
                /\ TickedMission(m, reached) \in MissionRecords
                /\ TickedMission(m, reached).drone = mission[m].drone
                /\ TickedMission(m, reached).state = "none" <=> mission[m].state = "none"
  <1> USE FleetAssumption DEF FleetInv
  <1>1. \A v \in Int : Clamp(v) \in 0..FullBattery
    BY DEF Clamp
  <1>2. ASSUME NEW d \in Drones PROVE Ticked(d, reached[d]) \in DroneRecords
    <2>1. /\ drone[d] \in DroneRecords /\ drone[d].battery \in Int
          /\ Clamp(drone[d].battery - DrainPerTick) \in 0..FullBattery
          /\ Clamp(drone[d].battery - HoverDrain) \in 0..FullBattery
          /\ Clamp(drone[d].battery + ChargePerTick) \in 0..FullBattery
          /\ 0 \in 0..MaxMission
      BY <1>1 DEF FleetOK, DroneRecords
    <2> HIDE DEF Clamp, Advanced, Flying
    <2>2. CASE Flying(d)
      BY <2>1, <2>2 DEF Ticked, Flying, DroneRecords, InFlight
    <2>3. CASE Stray(d)
      BY <2>1, <2>3 DEF Ticked, Stray, DroneRecords, InFlight
    <2>4. CASE drone[d].status = "holding"
      BY <2>1, <2>4 DEF Ticked, Flying, Stray, DroneRecords, InFlight
    <2>5. CASE drone[d].status = "returning"
      BY <2>1, <2>5 DEF Ticked, Flying, Stray, DroneRecords, InFlight
    <2>6. CASE drone[d].status = "charging"
      BY <2>1, <2>6 DEF Ticked, Flying, Stray, DroneRecords, InFlight
    <2>7. CASE drone[d].status \in {"none", "idle"}
      BY <2>1, <2>7 DEF Ticked, Flying, Stray
    <2> QED
      BY <2>1, <2>2, <2>3, <2>4, <2>5, <2>6, <2>7 DEF Stray, DroneRecords, InFlight
  <1>3. ASSUME NEW m \in MissionIDs
        PROVE  /\ TickedMission(m, reached) \in MissionRecords
               /\ TickedMission(m, reached).drone = mission[m].drone
               /\ TickedMission(m, reached).state = "none" <=> mission[m].state = "none"
    <2>1. mission[m] \in MissionRecords /\ (HasMission(m) => mission[m].drone \in Drones)
      BY DEF MissionsOK, Own, HasMission
    <2>2. ASSUME NEW d \in Drones, HasMission(m)
          PROVE  /\ Advanced(m, d, reached[d]) \in MissionRecords
                 /\ Advanced(m, d, reached[d]).drone = mission[m].drone
                 /\ Advanced(m, d, reached[d]).state # "none"
      <3>1. Clamp(drone[d].battery - DrainPerTick) \in Int
        BY <1>1 DEF FleetOK, DroneRecords
      <3>2. mission[m].progress \in 0..Waypoints
        BY <2>1 DEF MissionRecords
      <3>3. CASE Clamp(drone[d].battery - DrainPerTick) <= LowBattery
        BY <2>1, <2>2, <3>1, <3>3 DEF Advanced, MissionRecords
      <3>4. CASE /\ Clamp(drone[d].battery - DrainPerTick) > LowBattery
                 /\ mission[m].progress >= Waypoints
        BY <2>1, <2>2, <3>1, <3>4 DEF Advanced, MissionRecords
      <3>5. CASE /\ ~(Clamp(drone[d].battery - DrainPerTick) <= LowBattery)
                 /\ mission[m].progress < Waypoints
        <4>1. mission[m].progress + (IF reached[d] THEN 1 ELSE 0) \in 0..Waypoints
          BY <3>2, <3>5
        <4> QED
          BY <2>1, <2>2, <3>1, <3>2, <3>5, <4>1 DEF Advanced, MissionRecords, HasMission
      <3> QED
        BY <3>1, <3>2, <3>3, <3>4, <3>5
    <2>3. CASE ~HasMission(m) \/ drone[mission[m].drone].mission # m
      BY <2>1, <2>3 DEF TickedMission
    <2>4. CASE HasMission(m) /\ drone[mission[m].drone].mission = m
      <3>1. mission[m].drone \in Drones
        BY <2>1, <2>4
      <3>2. CASE Flying(mission[m].drone)
        <4>1. TickedMission(m, reached) = Advanced(m, mission[m].drone, reached[mission[m].drone])
          BY <2>4, <3>2 DEF TickedMission, Flying
        <4> QED
          BY <2>2, <2>4, <3>1, <4>1 DEF HasMission
      <3>3. CASE ~Flying(mission[m].drone)
        BY <2>1, <2>4, <3>3 DEF TickedMission, MissionRecords, HasMission, Flying
      <3> QED
        BY <3>2, <3>3
    <2> QED
      BY <2>3, <2>4
  <1> QED
    BY <1>2, <1>3

\* The ticker and its saves.
LEMMA FleetTickInv ==
    ASSUME FleetInv, Tick \/ TickSave
    PROVE  FleetInv'
  <1> USE FleetAssumption DEF FleetInv
  <1>1. nextID \in Nat
    BY DEF FleetOK
  <1>2. CASE Tick
    <2>1. PICK reached \in [Drones -> BOOLEAN] :
             /\ drone' = [d \in Drones |-> Ticked(d, reached[d])]
             /\ mission' = [m \in MissionIDs |-> TickedMission(m, reached)]
             /\ saves' = {[id |-> m, row |-> mission'[m]] :
                            m \in {n \in MissionIDs : mission'[n].state # mission[n].state}}
      BY <1>2 DEF Tick
    <2>2. UNCHANGED <<nextID, request, store, crashes>>
      BY <1>2 DEF Tick
    <2>3. /\ \A d \in Drones : Ticked(d, reached[d]) \in DroneRecords
          /\ \A m \in MissionIDs :
                /\ TickedMission(m, reached) \in MissionRecords
                /\ TickedMission(m, reached).drone = mission[m].drone
                /\ TickedMission(m, reached).state = "none" <=> mission[m].state = "none"
      BY TickRecords
    <2>4. \A m \in MissionIDs :
            /\ mission'[m] \in MissionRecords
            /\ mission'[m].drone = mission[m].drone
            /\ mission'[m].state = "none" <=> mission[m].state = "none"
      BY <2>1, <2>3
    <2>5. FleetOK'
      BY <2>1, <2>2, <2>3 DEF FleetOK, store
    <2>6. mission' \in [MissionIDs -> MissionRecords]
      BY <2>1, <2>3
    <2>7. MissionsOK'
      BY <2>2, <2>4, <2>6 DEF MissionsOK, HasMission, Own
    <2>8. RowsOK' /\ RequestsOK'
      BY <1>1, <2>2, NumbersKeep DEF store
    <2>9. SavesOK'
      <3>1. ASSUME NEW s \in saves'
            PROVE  /\ s \in [id : MissionIDs, row : MissionRecords]
                   /\ Own(s.row) /\ s.id <= nextID'
        <4>1. PICK m \in MissionIDs :
                 s = [id |-> m, row |-> mission'[m]] /\ mission'[m].state # mission[m].state
          BY <2>1, <3>1
        <4>2. mission[m].state # "none"
          BY <2>4, <4>1
        <4>3. mission[m].drone \in Drones /\ m <= nextID
          BY <4>2 DEF MissionsOK, Own, HasMission
        <4> QED
          BY <2>2, <2>4, <4>1, <4>3 DEF Own
      <3> QED
        BY <3>1 DEF SavesOK
    <2> QED
      BY <2>5, <2>7, <2>8, <2>9
  <1>3. CASE TickSave
    <2>1. PICK s \in saves : /\ saves' = saves \ {s}
                             /\ dbMission' \in {[dbMission EXCEPT ![s.id] = s.row], dbMission}
      BY <1>3 DEF TickSave
    <2>2. UNCHANGED <<memory, request, dbDrones, crashes>>
      BY <1>3 DEF TickSave
    <2>3. s.row \in MissionRecords /\ Own(s.row) /\ s.id <= nextID
      BY DEF SavesOK
    <2>4. RowsOK'
      BY <2>1, <2>2, <2>3 DEF RowsOK, memory
    <2>5. SavesOK'
      BY <2>1, <2>2 DEF SavesOK, memory
    <2> QED
      BY <1>1, <2>2, <2>4, <2>5, NumbersKeep DEF FleetOK, memory
  <1> QED
    BY <1>2, <1>3

\* Load: the numbering goes on from the highest number stored.
LEMMA MaxSeqBounds ==
    ASSUME RowsOK
    PROVE  /\ MaxSeq \in 0..MaxMission
           /\ \A m \in MissionIDs : dbMission[m] # NoMission => m <= MaxSeq
  <1> DEFINE S == {0} \cup {m \in MissionIDs : dbMission[m] # NoMission}
  <1>1. S \in SUBSET (0..MaxMission) /\ S # {} /\ MaxMission \in Nat
    BY FleetAssumption DEF MissionIDs
  <1>2. PICK n \in S : \A m \in S : m <= n
    BY <1>1, LargestNumber
  <1>3. /\ n \in 0..MaxMission
        /\ n = 0 \/ dbMission[n] # NoMission
        /\ \A m \in MissionIDs : dbMission[m] # NoMission => m <= n
    BY <1>1, <1>2
  <1> QED
    BY <1>3 DEF MaxSeq

\* A restart forgets what was on its way and takes from the database what memory is.
LEMMA RestartInv ==
    ASSUME FleetInv, Restart
    PROVE  FleetInv'
  <1> USE FleetAssumption, Records DEF FleetInv
  <1>1. /\ nextID' = MaxSeq /\ MaxSeq \in 0..MaxMission /\ MaxSeq \in Nat
        /\ \A m \in MissionIDs : dbMission[m] # NoMission => m <= MaxSeq
    BY MaxSeqBounds DEF Restart
  <1>2. FleetOK'
    <2>1. drone' \in [Drones -> DroneRecords]
      BY DEF Restart
    <2> QED
      BY <1>1, <2>1 DEF Restart, FleetOK, store
  <1>3. RowsOK'
    BY <1>1 DEF Restart, RowsOK, store
  <1>4. MissionsOK'
    <2>1. \A m \in MissionIDs :
            /\ Loaded(dbMission[m]) \in MissionRecords /\ Own(Loaded(dbMission[m]))
            /\ Loaded(dbMission[m]).state # "none" => dbMission[m] # NoMission
      <3> SUFFICES ASSUME NEW m \in MissionIDs
                   PROVE  /\ Loaded(dbMission[m]) \in MissionRecords /\ Own(Loaded(dbMission[m]))
                          /\ Loaded(dbMission[m]).state # "none" => dbMission[m] # NoMission
        OBVIOUS
      <3>1. dbMission[m] \in MissionRecords /\ Own(dbMission[m]) /\ 0 \in 0..Waypoints
        BY DEF RowsOK
      <3>2. CASE dbMission[m].state \in Live
        BY <3>1, <3>2 DEF Loaded, MissionRecords, Own, Live
      <3>3. CASE dbMission[m].state \notin Live
        BY <3>1, <3>3 DEF Loaded
      <3> QED
        BY <3>2, <3>3
    <2> QED
      BY <1>1, <2>1 DEF Restart, MissionsOK, HasMission
  <1>5. RequestsOK' /\ SavesOK'
    BY <1>1 DEF Restart, RequestsOK, SavesOK
  <1> QED
    BY <1>2, <1>3, <1>4, <1>5

\* Every step of the manager keeps the invariant.
LEMMA FleetNextInv == FleetInv /\ [Next]_vars => FleetInv'
  <1> SUFFICES ASSUME FleetInv, [Next]_vars PROVE FleetInv'
    OBVIOUS
  <1>1. CASE UNCHANGED vars
    BY <1>1 DEF vars, memory, store, FleetInv, FleetOK, MissionsOK, RowsOK, RequestsOK,
                SavesOK, HasMission
  <1> QED
    BY <1>1, RequestInv, StoreInv, FleetTickInv, RestartInv DEF Next

\* manager.go, fleet.go: the invariant of memory, rows and what is on its way.
THEOREM FleetInvHolds == Spec => []FleetInv
  BY FleetInitInv, FleetNextInv, PTL DEF Spec

\* manager.go: a number is not given to a second mission while the first exists, in
\* memory or in the database, whatever saves fail and however often it restarts.
THEOREM MissionNumbers == Spec => []NumbersNotReused
  <1>1. FleetInv => NumbersNotReused
    BY DEF FleetInv, MissionsOK, RowsOK, NumbersNotReused
  <1> QED
    BY <1>1, FleetInvHolds, PTL

-----------------------------------------------------------------------------
(* Live missions.                                                          *)

\* A drone that flies its missions has one live mission at most.
LEMMA OneLiveMission ==
    ASSUME NEW e \in Drones, FliesItsMissions(e), NEW m \in MissionIDs, NEW n \in MissionIDs,
           mission[m].state \in Live, mission[n].state \in Live,
           mission[m].drone = e, mission[n].drone = e
    PROVE  m = n
  BY DEF FliesItsMissions

\* mutateMission keeps the rule if it gives the mission and its drone records that fit,
\* and no other mission of that drone is live; other drones do not notice.
LEMMA MutateFlown ==
    ASSUME FleetInv, NEW e \in Drones, FliesItsMissions(e), NEW c \in Clients,
           NEW m \in MissionIDs, NEW newMission, NEW newDrone,
           Found(c, m), Mutate(c, m, newMission, newDrone),
           newMission.drone = mission[m].drone,
           mission[m].drone = e =>
              /\ newMission.state \in Live =>
                   /\ newDrone.mission = m
                   /\ newDrone.status = IF newMission.state = "active" THEN "en-route" ELSE "holding"
              /\ \A n \in MissionIDs \ {m} : mission[n].drone = e => mission[n].state \notin Live
    PROVE  FliesItsMissions(e)'
  <1> PICK d : d = mission[m].drone
    OBVIOUS
  <1>1. d \in Drones
    BY DEF Found, FleetInv, MissionsOK, Own, HasMission
  <1>2. mission'[m] = newMission /\ \A n \in MissionIDs \ {m} : mission'[n] = mission[n]
    BY DEF Mutate, FleetInv, MissionsOK
  <1>3. drone'[d] = newDrone /\ \A f \in Drones \ {d} : drone'[f] = drone[f]
    BY <1>1 DEF Mutate, FleetInv, FleetOK
  <1>4. ASSUME NEW n \in MissionIDs, mission'[n].drone = e, mission'[n].state \in Live
        PROVE  /\ drone'[e].status # "none"
               /\ drone'[e].mission = n
               /\ drone'[e].status = IF mission'[n].state = "active" THEN "en-route" ELSE "holding"
    <2>1. CASE n = m
      <3>1. d = e /\ newMission.state \in Live
        BY <1>2, <1>4, <2>1
      <3> QED
        BY <1>2, <1>3, <2>1, <3>1
    <2>2. CASE n # m
      <3>1. mission'[n] = mission[n]
        BY <1>2, <2>2
      <3>2. d # e
        BY <1>4, <2>2, <3>1
      <3> QED
        BY <1>3, <1>4, <3>1, <3>2 DEF FliesItsMissions, HasDrone
    <2> QED
      BY <2>1, <2>2
  <1> QED
    BY <1>4 DEF FliesItsMissions, HasDrone

\* Launch wants a drone that is not in flight, and a live mission has one that is; Pause,
\* Resume and Abort are about the live mission of the drone itself.
LEMMA OperatorFlown ==
    ASSUME FleetInv, NEW e \in Drones, FliesItsMissions(e), NEW c \in Clients,
           NEW m \in MissionIDs, Launch(c, m) \/ Pause(c, m) \/ Resume(c, m) \/ Abort(c, m)
    PROVE  FliesItsMissions(e)'
  <1>1. mission[m] \in MissionRecords /\ mission[m].drone \in Drones /\ Found(c, m)
    BY DEF Launch, Pause, Resume, Abort, Found, FleetInv, MissionsOK, Own, HasMission
  <1> PICK d : d = drone[mission[m].drone]
    OBVIOUS
  <1>2. d \in DroneRecords
    BY <1>1 DEF FleetInv, FleetOK
  <1>3. mission[m].state \in Live /\ mission[m].drone = e => \A n \in MissionIDs \ {m} :
           mission[n].drone = e => mission[n].state \notin Live
    BY OneLiveMission
  <1>4. CASE Launch(c, m)
    <2> DEFINE newMission == [mission[m] EXCEPT !.state = "active", !.progress = 0]
               newDrone == [d EXCEPT !.status = "en-route", !.mission = m]
    <2>1. Mutate(c, m, newMission, newDrone)
      BY <1>4 DEF Launch
    <2>2. newMission.drone = mission[m].drone /\ newMission.state = "active"
      BY <1>1 DEF MissionRecords
    <2>3. newDrone.mission = m /\ newDrone.status = "en-route"
      BY <1>2 DEF DroneRecords
    <2>4. mission[m].drone = e =>
             \A n \in MissionIDs : mission[n].drone = e => mission[n].state \notin Live
      BY <1>4 DEF Launch, FliesItsMissions, InFlight
    <2> QED
      BY <1>1, <2>1, <2>2, <2>3, <2>4, MutateFlown
  <1>5. CASE Pause(c, m)
    <2> DEFINE newMission == [mission[m] EXCEPT !.state = "paused"]
               newDrone == [d EXCEPT !.status = IF @ = "en-route" THEN "holding" ELSE @]
    <2>1. Mutate(c, m, newMission, newDrone) /\ mission[m].state = "active"
      BY <1>5 DEF Pause
    <2>2. newMission.drone = mission[m].drone /\ newMission.state = "paused"
      BY <1>1 DEF MissionRecords
    <2>3. mission[m].drone = e => newDrone.mission = m /\ newDrone.status = "holding"
      BY <1>2, <2>1 DEF DroneRecords, FliesItsMissions, Live
    <2> QED
      BY <1>1, <1>3, <2>1, <2>2, <2>3, MutateFlown DEF Live
  <1>6. CASE Resume(c, m)
    <2> DEFINE newMission == [mission[m] EXCEPT !.state = "active"]
               newDrone == [d EXCEPT !.status = IF @ = "holding" THEN "en-route" ELSE @]
    <2>1. Mutate(c, m, newMission, newDrone) /\ mission[m].state = "paused"
      BY <1>6 DEF Resume
    <2>2. newMission.drone = mission[m].drone /\ newMission.state = "active"
      BY <1>1 DEF MissionRecords
    <2>3. mission[m].drone = e => newDrone.mission = m /\ newDrone.status = "en-route"
      BY <1>2, <2>1 DEF DroneRecords, FliesItsMissions, Live
    <2> QED
      BY <1>1, <1>3, <2>1, <2>2, <2>3, MutateFlown DEF Live
  <1>7. CASE Abort(c, m)
    <2> DEFINE newMission == [mission[m] EXCEPT !.state = "aborted"]
               newDrone == [d EXCEPT !.status = "returning"]
    <2>1. Mutate(c, m, newMission, newDrone) /\ mission[m].state \in Live
      BY <1>7 DEF Abort
    <2>2. newMission.drone = mission[m].drone /\ newMission.state = "aborted"
      BY <1>1 DEF MissionRecords
    <2> QED
      BY <1>1, <1>3, <2>1, <2>2, MutateFlown DEF Live
  <1> QED
    BY <1>4, <1>5, <1>6, <1>7

\* The other requests: AddDrone and RemoveDrone concern a drone without live missions,
\* and Recall aborts the one its drone flies.
LEMMA RequestFlown ==
    ASSUME FleetInv, NEW e \in Drones, FliesItsMissions(e), NEW c \in Clients,
           \/ \E d \in Drones : AddDrone(c, d) \/ RemoveDrone(c, d) \/ CreateCheck(c, d) \/ Recall(c, d)
           \/ CreateRefused(c) \/ CreateMission(c)
           \/ \E m \in MissionIDs : DeleteMission(c, m)
    PROVE  FliesItsMissions(e)'
  <1>1. drone \in [Drones -> DroneRecords] /\ mission \in [MissionIDs -> MissionRecords]
        /\ nextID \in Nat
    BY DEF FleetInv, FleetOK, MissionsOK
  <1>2. ASSUME NEW d \in Drones, AddDrone(c, d)
        PROVE  FliesItsMissions(e)'
    <2>1. d = e => \A m \in MissionIDs : mission[m].state \in Live => mission[m].drone # e
      BY <1>2 DEF AddDrone, FliesItsMissions
    <2> QED
      BY <1>1, <1>2, <2>1 DEF AddDrone, FliesItsMissions, HasDrone
  <1>3. ASSUME NEW d \in Drones, RemoveDrone(c, d)
        PROVE  FliesItsMissions(e)'
    <2>1. \A m \in MissionIDs : mission[m].state \in Live => mission[m].drone # d
      BY <1>3 DEF RemoveDrone, Live
    <2> QED
      BY <1>1, <1>3, <2>1 DEF RemoveDrone, FliesItsMissions, HasDrone
  <1>4. ASSUME NEW d \in Drones, Recall(c, d)
        PROVE  FliesItsMissions(e)'
    <2>1. /\ drone' = [drone EXCEPT ![d].status = "returning"]
          /\ \A f \in Drones \ {d} : drone'[f] = drone[f]
      BY <1>1, <1>4 DEF Recall
    <2>2. \A m \in MissionIDs : mission'[m].state \in Live /\ mission'[m].drone = e
             => mission'[m] = mission[m] /\ e # d
      <3>1. CASE drone[d].mission \in MissionIDs /\ mission[drone[d].mission].state \in Live
        <4>1. mission' = [mission EXCEPT ![drone[d].mission] =
                            [mission[drone[d].mission] EXCEPT !.state = "aborted"]]
          BY <1>4, <3>1 DEF Recall
        <4>2. mission'[drone[d].mission].state = "aborted"
              /\ \A m \in MissionIDs \ {drone[d].mission} : mission'[m] = mission[m]
          BY <1>1, <3>1, <4>1 DEF MissionRecords
        <4> QED
          BY <4>2 DEF FliesItsMissions, Live
      <3>2. CASE ~(drone[d].mission \in MissionIDs /\ mission[drone[d].mission].state \in Live)
        BY <1>4, <3>2 DEF Recall, FliesItsMissions
      <3> QED
        BY <3>1, <3>2
    <2> QED
      BY <2>1, <2>2 DEF FliesItsMissions, HasDrone
  <1>5. CASE CreateMission(c)
    <2>1. /\ drone' = drone
          /\ \A m \in MissionIDs : m # nextID + 1 => mission'[m] = mission[m]
          /\ nextID + 1 \in MissionIDs => mission'[nextID + 1].state = "planned"
      BY <1>1, <1>5 DEF CreateMission
    <2> QED
      BY <2>1 DEF FliesItsMissions, Live, HasDrone
  <1>6. ASSUME NEW m \in MissionIDs, DeleteMission(c, m)
        PROVE  FliesItsMissions(e)'
    <2>1. /\ drone' = drone /\ mission'[m].state = "none"
          /\ \A n \in MissionIDs \ {m} : mission'[n] = mission[n]
      BY <1>1, <1>6, Records DEF DeleteMission
    <2> QED
      BY <2>1 DEF FliesItsMissions, Live, HasDrone
  <1>7. CASE UNCHANGED <<drone, mission>>
    BY <1>7 DEF FliesItsMissions, HasDrone
  <1> QED
    BY <1>2, <1>3, <1>4, <1>5, <1>6, <1>7 DEF CreateCheck, CreateRefused, memory

\* The store takes a drone out of memory only after a failed SaveDrone; a mission it
\* takes out is not live any more.
LEMMA StoreFlown ==
    ASSUME FleetInv, NEW e \in Drones, FliesItsMissions(e), NEW c \in Clients,
           StoreDrone(c) \/ StoreDroneFails(c) \/ StoreMission(c) \/ StoreMissionFails(c),
           ~AddUndone(e)
    PROVE  FliesItsMissions(e)'
  <1>1. drone'[e] = drone[e]
    <2>1. drone \in [Drones -> DroneRecords]
      BY DEF FleetInv, FleetOK
    <2>2. CASE StoreDroneFails(c)
      <3>1. ~(request[c].op = "saveDrone" /\ request[c].drone = e)
        BY <2>2 DEF AddUndone
      <3> QED
        BY <2>1, <2>2, <3>1 DEF StoreDroneFails
    <2>3. CASE StoreDrone(c) \/ StoreMission(c) \/ StoreMissionFails(c)
      BY <2>3 DEF StoreDrone, StoreMission, StoreMissionFails, memory
    <2> QED
      BY <2>2, <2>3
  <1>2. \A m \in MissionIDs : mission'[m] = mission[m] \/ mission'[m] = NoMission
    BY DEF StoreDrone, StoreDroneFails, StoreMission, StoreMissionFails, memory,
           FleetInv, MissionsOK
  <1> QED
    BY <1>1, <1>2, Records DEF FliesItsMissions, Live, HasDrone

\* A tick ends missions or leaves them live, and a drone whose mission stays live goes
\* on as it was.
LEMMA TickFlown ==
    ASSUME FleetInv, NEW d \in Drones, FliesItsMissions(d), Tick
    PROVE  FliesItsMissions(d)'
  <1> USE FleetAssumption
  <1>1. PICK reached \in [Drones -> BOOLEAN] :
           /\ drone' = [e \in Drones |-> Ticked(e, reached[e])]
           /\ mission' = [m \in MissionIDs |-> TickedMission(m, reached)]
    BY DEF Tick
  <1>2. ASSUME NEW m \in MissionIDs, mission'[m].drone = d, mission'[m].state \in Live
        PROVE  /\ drone'[d].status # "none"
               /\ drone'[d].mission = m
               /\ drone'[d].status = IF mission'[m].state = "active" THEN "en-route" ELSE "holding"
    <2>1. mission[m] \in MissionRecords /\ mission[m].drone = d
      BY <1>1, <1>2, TickRecords DEF FleetInv, MissionsOK
    <2>2. TickedMission(m, reached).state \in Live
      BY <1>1, <1>2
    <2>3. mission[m].state \in Live
      BY <2>1, <2>2 DEF TickedMission, Advanced, Live, MissionRecords
    <2>4. /\ drone[d].mission = m /\ HasMission(m)
          /\ drone[d].status = IF mission[m].state = "active" THEN "en-route" ELSE "holding"
          /\ drone[d] \in DroneRecords
      BY <2>1, <2>3 DEF FliesItsMissions, HasMission, Live, FleetInv, FleetOK
    <2>5. CASE mission[m].state = "active"
      <3>1. Flying(d) /\ drone[d].status = "en-route"
        BY <2>4, <2>5 DEF Flying
      <3>2. TickedMission(m, reached) = Advanced(m, d, reached[d])
        BY <2>1, <2>4, <3>1 DEF TickedMission, Flying
      <3>3. Advanced(m, d, reached[d]).state = "active"
        BY <2>1, <2>2, <2>5, <3>2 DEF Advanced, Live, MissionRecords
      <3>4. Ticked(d, reached[d]).mission = m /\ Ticked(d, reached[d]).status = "en-route"
        BY <2>4, <3>1, <3>3 DEF Ticked, Stray, Flying, DroneRecords
      <3> QED
        BY <1>1, <2>1, <2>4, <3>2, <3>3, <3>4 DEF HasDrone
    <2>6. CASE mission[m].state = "paused"
      <3>1. drone[d].status = "holding" /\ ~Flying(d)
        BY <2>4, <2>6 DEF Flying
      <3>2. /\ TickedMission(m, reached).state = "paused"
            /\ ~(Clamp(drone[d].battery - HoverDrain) <= LowBattery)
        BY <2>1, <2>2, <2>4, <2>6, <3>1 DEF TickedMission, Live, MissionRecords
      <3>3. Ticked(d, reached[d]).mission = m /\ Ticked(d, reached[d]).status = "holding"
        BY <2>4, <3>1, <3>2 DEF Ticked, Stray, DroneRecords
      <3> QED
        BY <1>1, <2>1, <2>4, <3>2, <3>3 DEF HasDrone
    <2> QED
      BY <2>3, <2>5, <2>6 DEF Live
  <1> QED
    BY <1>2 DEF FliesItsMissions, HasDrone

\* Load makes planned missions of the live ones it finds in the database.
LEMMA RestartFlown ==
    ASSUME FleetInv, NEW e \in Drones, Restart
    PROVE  FliesItsMissions(e)'
  <1>1. \A m \in MissionIDs : Loaded(dbMission[m]).state \notin Live
    BY DEF Loaded, Live, FleetInv, RowsOK, MissionRecords
  <1> QED
    BY <1>1 DEF Restart, FliesItsMissions

\* manager.go: at first every drone flies its live missions, having none, and it goes on
\* flying them, so that it never has two, whatever operators, ticks, failing saves and
\* restarts do; only AddDrone, when the drone cannot be saved, takes one out of memory
\* without looking at its missions.
THEOREM LiveMissionsAreFlown ==
    Spec => (\A d \in Drones : FliesItsMissions(d)) /\ LiveStaysFlown
  <1>1. FleetInv /\ [Next]_vars
          => [\A d \in Drones : FliesItsMissions(d) => FliesItsMissions(d)' \/ AddUndone(d)]_vars
    <2> SUFFICES ASSUME FleetInv, Next, NEW d \in Drones, FliesItsMissions(d), ~AddUndone(d)
                 PROVE  FliesItsMissions(d)'
      OBVIOUS
    <2>1. CASE TickSave
      BY <2>1 DEF memory, FliesItsMissions, HasDrone, TickSave
    <2> QED
      BY <2>1, OperatorFlown, RequestFlown, StoreFlown, TickFlown, RestartFlown DEF Next
  <1>2. Init => \A d \in Drones : FliesItsMissions(d)
    BY DEF Init, FliesItsMissions, NoMission, Live
  <1> QED
    BY <1>1, <1>2, FleetInvHolds, PTL DEF Spec, LiveStaysFlown

-----------------------------------------------------------------------------
(* The fleet manager and the fusion engine side by side.                   *)

\* manager.go and fuser.go: the variables of both keep their shapes, with the battery of a
\* drone clamped to its range and every number of a mission within the bound.
THEOREM PartsTyped == PartsSpec => []PartsTypeOK
  <1>1. PartsInit => Init /\ FusionInit
    BY DEF PartsInit
  <1>2. [PartsNext]_<<part, vars, fusionVars>> => [Next]_vars /\ [FusionNext]_fusionVars
    BY DEF PartsNext
  <1>3. PartsSpec => Spec /\ FusionSpec
    BY <1>1, <1>2, PTL DEF PartsSpec, Spec, FusionSpec
  <1>4. FleetInv => TypeOK
    BY DEF FleetInv, FleetOK, MissionsOK, RowsOK, RequestsOK, SavesOK, TypeOK
  <1>5. []TypeOK /\ []FusionTypeOK => []PartsTypeOK
    <2>1. TypeOK /\ FusionTypeOK => PartsTypeOK
      BY DEF PartsTypeOK
    <2> QED
      BY <2>1, PTL
  <1> QED
    BY <1>3, <1>4, <1>5, FleetInvHolds, TypeCorrect, PTL

=============================================================================
