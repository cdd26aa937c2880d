--------------------------- MODULE MCEventThreads ---------------------------
(***************************************************************************)
(* Small instances of EventThreads for TLC.                                *)
(***************************************************************************)
EXTENDS EventThreads_proofs

CONSTANTS t1, t2, t3

TwoThreads == <<t1, t2>>
OneThread == <<t1>>
=============================================================================
