--------------------------- MODULE MCFleetFusion ----------------------------
(***************************************************************************)
(* Small instances, for TLC, of two parts that share no state: the fleet   *)
(* manager and the fusion engine of the server.  As in MCServices the      *)
(* first state picks the part that is at work, so that their state spaces  *)
(* add up.                                                                 *)
(***************************************************************************)
EXTENDS MCFleet, Fusion

CONSTANTS s1, s2

\* Station s1 observes two drones and s2 one; the last two places of three are in
\* the second shard.
MCObsKeys == {<<s1, 1>>, <<s1, 2>>, <<s2, 1>>}
MCShardOf == <<1, 2, 2>>

VARIABLE part

PartsInit == part \in {"fleet", "fusion"} /\ Init /\ FusionInit

PartsNext ==
    /\ UNCHANGED part
    /\ \/ part = "fleet" /\ Next /\ UNCHANGED fusionVars
       \/ part = "fusion" /\ FusionNext /\ UNCHANGED vars

PartsSpec == PartsInit /\ [][PartsNext]_<<part, vars, fusionVars>>

\* The rows of fleet_missions are read by Load alone, which makes planned missions of
\* the live ones: two states that differ only in that have the same behaviours, and
\* TLC need visit one of them.
StoreAsRead ==
    <<part, memory, request, saves, dbDrones,
      [m \in MissionIDs |-> Loaded(dbMission[m])], crashes, fusionVars>>

\* The variables of both parts keep their shapes.
PartsTypeOK == TypeOK /\ FusionTypeOK
=============================================================================
