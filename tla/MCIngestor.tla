----------------------------- MODULE MCIngestor -----------------------------
(* Small instances of Ingestor for TLC.                                    *)
EXTENDS Ingestor

CONSTANTS s1, s2, w1, c1, d1

=============================================================================
