-------------------------- MODULE MCGeofenceParts ---------------------------
(***************************************************************************)
(* Small instances, for TLC, of parts of the geofence worker that share no *)
(* state as they are modelled: the zone checker, the registries, the       *)
(* startup, the swarm detector and the shared alarms.                      *)
(* As in MCServices, the first state picks the part that is at work, so    *)
(* that their state spaces add up instead of multiplying.                  *)
(***************************************************************************)
EXTENDS MCZoneChecker, Registries, Startup, Swarms, Presence

CONSTANTS s1, s2, a1, a2, a3, a4, h1

\* Places in a row; the last two are in reach of each other from one side only.
MCNear == {<<1, 1>>, <<2, 2>>, <<3, 3>>, <<1, 2>>, <<2, 1>>, <<2, 3>>}

VARIABLE part

PartsInit ==
    /\ part \in {"zones", "registries", "startup", "swarms", "presence"}
    /\ Init /\ RegistriesInit /\ StartupInit /\ SwarmsInit /\ PresenceInit

Others(working) ==
    /\ working # "zones"      => UNCHANGED vars
    /\ working # "registries" => UNCHANGED registryVars
    /\ working # "startup"    => UNCHANGED startupVars
    /\ working # "swarms"     => UNCHANGED swarmVars
    /\ working # "presence"   => UNCHANGED presenceVars

PartsNext ==
    /\ UNCHANGED part
    /\ \/ part = "zones" /\ Next /\ Others("zones")
       \/ part = "registries" /\ RegistriesNext /\ Others("registries")
       \/ part = "startup" /\ StartupNext /\ Others("startup")
       \/ part = "swarms" /\ SwarmsNext /\ Others("swarms")
       \/ part = "presence" /\ PresenceNext /\ Others("presence")

partsVars ==
    <<part, vars, registryVars, startupVars, swarmVars, presenceVars>>

PartsSpec == PartsInit /\ [][PartsNext]_partsVars

\* The variables of every part keep their shapes.
PartsTypeOK == TypeOK /\ RegistriesTypeOK /\ StartupTypeOK /\ SwarmsTypeOK /\ PresenceTypeOK
=============================================================================
