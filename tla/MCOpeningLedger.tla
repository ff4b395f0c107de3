---------------------------- MODULE MCOpeningLedger ----------------------------
(* OpeningLedger for TLC: two drivers, each free to enroll or to prove, two  *)
(* enrollments, and a budget that one proof fits, a second one only if it    *)
(* shares a column, and never a disjoint one.                                *)
EXTENDS OpeningLedger, TLC

Symmetry == Permutations(Drivers) \cup Permutations(Columns)
================================================================================
