------------------------------ MODULE Instants ------------------------------
(***************************************************************************)
(* How every part of the package reads the time, src/clock/clock.ts.       *)
(*                                                                         *)
(* Every instant and every duration is an integer number of ticks (the     *)
(* code's nanoseconds), measured from the originNanos of the object that   *)
(* reads it.  Such an object thinks in microseconds: NowMicros truncates   *)
(* an instant to a multiple of Micro ticks.                                *)
(*                                                                         *)
(* JavaScript runs one handler at a time, so each handler is one action.   *)
(* A handler may read the clock several times and a real clock moves       *)
(* between the reads, by at most MaxGap ticks in a handler.                *)
(***************************************************************************)
EXTENDS Integers

CONSTANTS
    Micro,    \* ticks per microsecond (1000 in the code)
    MaxGap,   \* bound: how far the clock moves inside one handler
    MaxTime   \* bound: where the modelled clock stops

ASSUME InstantsAssumption ==
    /\ Micro \in Nat \ {0}
    /\ MaxGap \in Nat
    /\ MaxTime \in Nat

VARIABLE now  \* what clock.now() returns

\* A slip, used by no behaviour: a clock that is rounded up, not truncated.
RoundedUp(t) == ((t + Micro - 1) \div Micro) * Micro

NowMicros(t) == (t \div Micro) * Micro

\* The values that n successive clock reads of one handler may return.
Reads(n) ==
    {r \in [1..n -> now..(now + MaxGap)] :
        /\ \A i \in 1..(n - 1) : r[i] <= r[i + 1]
        /\ r[n] <= MaxTime}

\* Time passes, by any amount; a ManualClock is advanced by any amount.
TimePasses == now' \in (now + 1)..MaxTime

=============================================================================
