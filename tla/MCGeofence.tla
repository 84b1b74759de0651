----------------------------- MODULE MCGeofence -----------------------------
(* Small instances of Geofence for TLC.                                    *)
EXTENDS Geofence, TLC

CONSTANTS m1, m2, m3, k1, k2, a1

\* m3 does not decode.
MCRowOf == (m1 :> k1) @@ (m2 :> k2) @@ (m3 :> k1)
=============================================================================
