---------------------------- MODULE MCConnection ----------------------------
(***************************************************************************)
(* The small instance of Connection for the safety properties: event       *)
(* threads are alike.                                                      *)
(***************************************************************************)
EXTENDS Connection, TLC

Symmetry == Permutations(EvThreads)
=============================================================================
