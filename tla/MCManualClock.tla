---------------------------- MODULE MCManualClock ----------------------------
(***************************************************************************)
(* ManualClock on a few sleeps, all alike, so they may be permuted.  Two   *)
(* sleeps can fall due at one instant, and one advance can wake several.   *)
(***************************************************************************)
EXTENDS ManualClock, TLC

Symmetry == Permutations(Sleeps)

MCDurations == -1..3
MCSteps == -1..2
=============================================================================
