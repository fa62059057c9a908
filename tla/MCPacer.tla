------------------------------ MODULE MCPacer ------------------------------
(***************************************************************************)
(* Pacer on a few calls, all alike, so they may be permuted.               *)
(***************************************************************************)
EXTENDS Pacer, TLC

Symmetry == Permutations(Calls)
=============================================================================
