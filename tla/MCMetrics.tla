----------------------------- MODULE MCMetrics -----------------------------
(***************************************************************************)
(* Metrics for TLC: two requests, so that one is counted while the other   *)
(* is, and before or after a scrape, and two buckets, so that one is shown *)
(* cumulated.  The requests are alike.                                     *)
(***************************************************************************)
EXTENDS Metrics

MCBuckets == <<"le1", "le2">>
Symmetry == Permutations(Requests)
=============================================================================
