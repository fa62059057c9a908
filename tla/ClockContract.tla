---------------------------- MODULE ClockContract ----------------------------
(***************************************************************************)
(* What src/clock/clock.ts asks of every Clock: now() never decreases;     *)
(* sleep(nanos) resolves at once when nanos is zero or less, may otherwise *)
(* resolve late and never early, and is rejected when its signal aborts.   *)
(* A sleep settles once.                                                   *)
(***************************************************************************)
EXTENDS Integers

CONSTANTS
    Sleeps,       \* the calls of sleep(); each is made at most once
    Cancellable,  \* those that pass an AbortSignal
    Durations,    \* what callers pass as nanos
    MaxTime       \* bound: where the modelled clock stops

VARIABLES
    now,    \* what now() returns
    phase,  \* "new", "asleep", "resolved" or "rejected"
    nanos,  \* what each call was asked to sleep
    until   \* the moment of each call plus its nanos, if it had to wait

vars == <<now, phase, nanos, until>>

Init ==
    /\ now \in Nat
    /\ phase = [s \in Sleeps |-> "new"]
    /\ nanos = [s \in Sleeps |-> 0]
    /\ until = [s \in Sleeps |-> 0]

TimePasses == now' \in now..MaxTime

Unasked(u) == phase'[u] = phase[u] /\ nanos'[u] = nanos[u] /\ until'[u] = until[u]

\* The moment of the call is some time in the step, in which the clock moves.
Call(s) ==
    /\ phase[s] = "new"
    /\ TimePasses
    /\ \A u \in Sleeps \ {s} : Unasked(u)
    /\ \/ phase'[s] = "rejected" /\ s \in Cancellable
       \/ \E n \in Durations :
            /\ nanos'[s] = n
            /\ \/ n <= 0 /\ phase'[s] = "resolved"
               \/ \E moment \in now..now' :
                    /\ n > 0 /\ until'[s] = moment + n
                    /\ \/ phase'[s] = "asleep"
                       \/ phase'[s] = "resolved" /\ until'[s] <= now'

\* Some sleeps resolve, none of them early.
Wake ==
    /\ TimePasses
    /\ \E group \in SUBSET {s \in Sleeps : phase[s] = "asleep"} :
        /\ \A s \in group : until[s] <= now'
        /\ phase' = [s \in Sleeps |-> IF s \in group THEN "resolved" ELSE phase[s]]
    /\ UNCHANGED <<nanos, until>>

Cancel(s) ==
    /\ s \in Cancellable
    /\ phase[s] = "asleep"
    /\ phase' = [phase EXCEPT ![s] = "rejected"]
    /\ UNCHANGED <<now, nanos, until>>

Next ==
    \/ \E s \in Sleeps : Call(s) \/ Cancel(s)
    \/ Wake

Spec == Init /\ [][Next]_vars

=============================================================================
