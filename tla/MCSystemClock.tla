---------------------------- MODULE MCSystemClock ----------------------------
(***************************************************************************)
(* SystemClock on two sleeps.  A millisecond is three ticks, so that a     *)
(* timer may be early by one or two, and a timer can be asked for two      *)
(* milliseconds: the longest sleep outlasts it several times over.         *)
(***************************************************************************)
EXTENDS SystemClock

MCDurations == {-1, 0, 1, 3, 14}
=============================================================================
