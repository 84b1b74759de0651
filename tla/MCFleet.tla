------------------------------ MODULE MCFleet -------------------------------
(* Small instances of Fleet for TLC.                                       *)
EXTENDS Fleet, TLC

CONSTANTS d1, d2, c1, c2

Symmetry == Permutations({c1, c2})
=============================================================================
