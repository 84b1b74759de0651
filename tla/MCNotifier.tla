----------------------------- MODULE MCNotifier -----------------------------
(* Small instances of Notifier for TLC.                                    *)
EXTENDS Notifier, TLC

CONSTANTS m1, m2, k1, k2, sinkA, sinkB

\* Two alerts of different keys.
MCKeyOfTwo == (m1 :> k1) @@ (m2 :> k2)
\* A single alert.
MCKeyOf1 == (m1 :> k1)

Symmetry == Permutations({sinkA, sinkB})
=============================================================================
