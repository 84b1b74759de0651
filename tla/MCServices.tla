----------------------------- MODULE MCServices -----------------------------
(***************************************************************************)
(* Small instances, for TLC, of four services that share no state: the     *)
(* broadcast hub, the live targets, the station registry and replay.       *)
(* The first state picks the service that is at work; the others stay in   *)
(* their initial states.  Services without common variables cannot affect  *)
(* each other, so this checks each of them completely, and their state     *)
(* spaces add up instead of multiplying.                                   *)
(***************************************************************************)
EXTENDS Hub, LiveTargets, Stations, Replay

CONSTANTS v1, v2, b1, b2, m1, p1, p2, d1, f1, f2, q1, q2

VARIABLE service

ServicesInit ==
    /\ service \in {"hub", "targets", "stations", "replay"}
    /\ HubInit /\ TargetsInit /\ StationsInit /\ ReplayInit

ServicesNext ==
    /\ UNCHANGED service
    /\ \/ /\ service = "hub"
          /\ HubNext /\ UNCHANGED <<targetVars, stationVars, replayVars>>
       \/ /\ service = "targets"
          /\ TargetsNext /\ UNCHANGED <<hubVars, stationVars, replayVars>>
       \/ /\ service = "stations"
          /\ StationsNext /\ UNCHANGED <<hubVars, targetVars, replayVars>>
       \/ /\ service = "replay"
          /\ ReplayNext /\ UNCHANGED <<hubVars, targetVars, stationVars>>

servicesVars == <<service, hubVars, targetVars, stationVars, replayVars>>

\* The fair actions of a service that is not at work are disabled: none is
\* enabled in the initial states.
ServicesFairness == HubFairness /\ StationsFairness /\ ReplayFairness

ServicesSpec == ServicesInit /\ [][ServicesNext]_servicesVars /\ ServicesFairness

\* The variables of every service keep their shapes.
ServicesTypeOK == HubTypeOK /\ TargetsTypeOK /\ StationsTypeOK /\ ReplayTypeOK
=============================================================================
