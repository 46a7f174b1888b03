--------------------------- MODULE MCMetricsLedger ---------------------------
(***************************************************************************)
(* MetricsLedger for TLC.  The writers run the same program, and no        *)
(* property names one of them, so states that differ by a permutation of   *)
(* them are checked once.                                                  *)
(***************************************************************************)
EXTENDS MetricsLedger, TLC

WriterSymmetry == Permutations(Writers)
=============================================================================
