------------------------------- MODULE MCDrive -------------------------------
(***************************************************************************)
(* Drive on scripts of up to four callers.  A stable interval of an odd   *)
(* number of ticks lets callers through between two microseconds.          *)
(***************************************************************************)
EXTENDS Drive

MCSleeps == 1..4
MCOptions == [stable |-> 3, warmup |-> 12, coldFactor |-> 3]
=============================================================================
