------------------------------ MODULE MCServer ------------------------------
(* Small instances of Server for TLC.                                      *)
EXTENDS Server, TLC

CONSTANTS s1, s2, w1, w2, main1, d1, v1, v2

Symmetry == Permutations({s1, s2}) \cup Permutations({w1, w2}) \cup Permutations({v1, v2})
=============================================================================
