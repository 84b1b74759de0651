---------------------------- MODULE MCZoneChecker ---------------------------
(* Small instances of ZoneChecker for TLC.                                 *)
EXTENDS ZoneChecker, TLC

CONSTANTS r1, r2, w1, w2, d1, z1, m1, m2, m3

MCDroneOf == [m \in Msgs |-> d1]

\* One drone inside the zone and then outside; m3 has a friendly squawk.
MCTsOf    == (m1 :> 1) @@ (m2 :> 2) @@ (m3 :> 2)
MCZonesOf == (m1 :> {z1}) @@ (m2 :> {}) @@ (m3 :> {z1})
MCOwnerOf == [m \in Msgs |-> r1]

\* Two samples inside one zone, in partitions of different replicas.
MCInside    == [m \in Msgs |-> {z1}]
MCTwoTs     == (m1 :> 1) @@ (m2 :> 2)
MCTwoOwners == (m1 :> r1) @@ (m2 :> r2)

Symmetry == Permutations({w1, w2})
=============================================================================
