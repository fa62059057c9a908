-------------------------- MODULE MCWarmupLimiter --------------------------
(***************************************************************************)
(* WarmupLimiter on a few calls, all alike, so they may be permuted.  The  *)
(* options give a threshold of two permits, a pot of four, a cold interval *)
(* of three stable ones and a cool-down interval equal to the stable one.  *)
(***************************************************************************)
EXTENDS WarmupLimiter, TLC

Symmetry == Permutations(Calls)

MCOptions == [stable |-> 3, warmup |-> 12, coldFactor |-> 3]
=============================================================================
