-------------------------- MODULE MCQueuedLimiter --------------------------
(***************************************************************************)
(* QueuedLimiter on a few calls, all alike, so they may be permuted, with  *)
(* the scheduler's options of MCWarmupLimiter.                             *)
(***************************************************************************)
EXTENDS QueuedLimiter, TLC

Symmetry == Permutations(Calls)

MCOptions == [stable |-> 2, warmup |-> 8, coldFactor |-> 3]
=============================================================================
