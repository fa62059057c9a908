-------------------------------- MODULE Clock --------------------------------
(***************************************************************************)
(* The Clock of src/clock/clock.ts as its two implementations see it: the  *)
(* promises of its sleeps, and the contract both must keep.                *)
(***************************************************************************)
EXTENDS Instants

CONSTANTS
    Sleeps,       \* the calls of sleep(); each is made at most once
    Cancellable,  \* those that pass an AbortSignal
    Durations     \* what callers pass to sleep(), in ticks, negative included

ASSUME ClockAssumption ==
    /\ Cancellable \subseteq Sleeps
    /\ Durations \subseteq Int

VARIABLES
    phase,  \* of each sleep's promise
    asked,  \* history: the nanos each sleep was called with
    wakeAt  \* of each sleep

Phases == {"new", "asleep", "resolved", "rejected"}

(***************************************************************************)
(* The clock is a Clock: above all, no sleep resolves before as long as it *)
(* was asked for has passed since it was called.                           *)
(***************************************************************************)
Contract == INSTANCE ClockContract WITH until <- wakeAt, nanos <- asked

ImplementsClock == Contract!Spec

=============================================================================
