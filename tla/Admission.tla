------------------------------ MODULE Admission ------------------------------
(***************************************************************************)
(* What every limiter of this package promises, whatever curve sets its    *)
(* prices and however it holds its callers.  Each admitted call buys a     *)
(* stretch of a single timeline, priced at no less than Price ticks a      *)
(* permit; stretches never overlap and never start in the past, so idle    *)
(* time buys no burst; a call proceeds only once its stretch has begun; a  *)
(* call that gives up forfeits its stretch, which nobody else ever gets; a *)
(* call that is not admitted leaves no trace.  Lag and Early measure how   *)
(* much a limiter loses by counting time in whole microseconds.            *)
(***************************************************************************)
EXTENDS Integers

CONSTANTS
    Calls,    \* the calls made to the limiter
    Price,    \* the least price of one permit, in ticks
    Lag,      \* how far the clock a stretch is sold on may lag the true one
    Early,    \* how long before its stretch a call may go through
    MaxTime   \* bound: where the modelled clock stops

VARIABLES
    now,      \* the time
    sold,     \* the timeline is sold up to here
    slot,     \* where each admitted call's stretch begins
    permits,  \* how many permits each call asked for
    phase     \* "outside", "waiting", "through", "gone"

vars == <<now, sold, slot, permits, phase>>

Init ==
    /\ now \in 0..MaxTime
    /\ sold = 0
    /\ slot = [c \in Calls |-> 0]
    /\ permits = [c \in Calls |-> 0]
    /\ phase = [c \in Calls |-> "outside"]

TimePasses == now' \in now..MaxTime

\* A call that is admitted, to wait or to proceed at once.
Admit(c) ==
    /\ phase[c] = "outside"
    /\ TimePasses
    /\ \A d \in Calls \ {c} :
        slot'[d] = slot[d] /\ permits'[d] = permits[d] /\ phase'[d] = phase[d]
    /\ permits'[c] > 0
    /\ slot'[c] >= sold
    /\ slot'[c] >= now - Lag
    /\ sold' >= slot'[c] + permits'[c] * Price
    /\ \/ phase'[c] = "waiting"
       \/ phase'[c] = "through" /\ slot'[c] <= now' + Early

\* Some of those waiting go through, each no earlier than its slot.
GoThrough ==
    /\ TimePasses
    /\ \E group \in SUBSET {c \in Calls : phase[c] = "waiting"} :
        /\ \A c \in group : slot[c] <= now' + Early
        /\ phase' = [c \in Calls |-> IF c \in group THEN "through" ELSE phase[c]]
    /\ UNCHANGED <<sold, slot, permits>>

\* A caller gives up; its stretch of the timeline stays sold.
GiveUp(c) ==
    /\ phase[c] = "waiting"
    /\ phase' = [phase EXCEPT ![c] = "gone"]
    /\ UNCHANGED <<now, sold, slot, permits>>

Next ==
    \/ \E c \in Calls : Admit(c) \/ GiveUp(c)
    \/ GoThrough

Spec == Init /\ [][Next]_vars

=============================================================================
