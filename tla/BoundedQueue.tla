---------------------------- MODULE BoundedQueue ----------------------------
(***************************************************************************)
(* A WaitQueue whose owner bounds it: what Pacer and QueuedLimiter share,  *)
(* from src/pacing/slot.ts and pacing-constants.ts.  An owner is told how  *)
(* long a caller would wait and refuses it, or has it wait.                *)
(***************************************************************************)
EXTENDS WaitQueue

CONSTANTS
    Permits,      \* what callers pass as permits, invalid values included
    Timeouts,     \* what callers pass as timeoutMs, in ticks, invalid values
                  \* included; MaxDelay or more is as good as Infinity
    MaxDelay,     \* maxQueueDelayMicros, in ticks
    MaxDepth      \* maxQueueDepth

ASSUME BoundsAssumption ==
    /\ Permits \subseteq Int
    /\ Timeouts \subseteq Int
    /\ MaxDelay \in Nat \ {0}
    /\ MaxDepth \in Nat \ {0}
    /\ 1..MaxDelay \subseteq Waits   \* the queue serves whatever it is told

Larger(a, b) == IF a >= b THEN a ELSE b
Smaller(a, b) == IF a <= b THEN a ELSE b

-----------------------------------------------------------------------------
(***************************************************************************)
(* Slips, as in WaitQueue.                                                 *)
(***************************************************************************)
\* A queue that is exactly full takes one more.
OneTooMany(wait, limit) ==
    \/ waiting > MaxDepth
    \/ wait > Smaller(MaxDelay, limit)

\* A caller's own timeout may extend past the standing bound.
TimeoutExtends(wait, limit) ==
    \/ waiting >= MaxDepth
    \/ wait > limit

-----------------------------------------------------------------------------
\* checkBounds() throws: the depth bound first, then the tighter delay bound.
OutOfBounds(wait, limit) ==
    \/ waiting >= MaxDepth
    \/ wait > Smaller(MaxDelay, limit)

\* What acquire() rejects before it has looked at the clock or the queue: a
\* signal already aborted, a bad permits or a bad timeoutMs.
Malformed(c) ==
    \/ c \in Cancellable
    \/ \E n \in Permits : n < 1
    \/ \E limit \in Timeouts : limit < 0

(***************************************************************************)
(* The depth bound holds of the callers really held.                       *)
(***************************************************************************)
DepthBounded == Cardinality(Held) <= MaxDepth

=============================================================================
