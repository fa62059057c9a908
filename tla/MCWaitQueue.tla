---------------------------- MODULE MCWaitQueue ----------------------------
(***************************************************************************)
(* WaitQueue on three calls, all alike, so they may be permuted.           *)
(***************************************************************************)
EXTENDS WaitQueue, TLC

Symmetry == Permutations(Calls)
=============================================================================
