---------------------------- MODULE QueuedLimiter ----------------------------
(***************************************************************************)
(* A queue with bounds in front of a scheduler, src/pacing/                *)
(* queued-limiter.ts, with the warm-up limiter as the scheduler: it asks   *)
(* how long a call would wait, decides, lets the scheduler reserve, and    *)
(* has its WaitQueue hold the caller for as long as the scheduler says.    *)
(*                                                                         *)
(* Each of these steps reads the clock for itself.  The scheduler counts   *)
(* microseconds from its own construction, Lead ticks before the queue's:  *)
(* the two truncate at different instants.  The scheduler's ticket and the *)
(* history of slots are on the scheduler's time, now on the queue's.       *)
(***************************************************************************)
EXTENDS BoundedQueue, SmoothWarmingUp

CONSTANTS
    Options,  \* the scheduler's options
    Lead      \* how much earlier than the queue the scheduler was constructed

ASSUME LimiterAssumption == WholeOptions(Options) /\ Lead \in Nat

K == DeriveConstants(Options)

VARIABLES
    state,    \* the scheduler's pot and ticket
    outcome,  \* what acquire() made of each call
    slot,     \* history: the ticket each call was granted
    permits,  \* history: the permits it was granted for
    agreed    \* history: the longest wait each call had agreed to

limiterVars == <<state, outcome, slot, permits, agreed>>
allVars == <<vars, limiterVars>>

LimiterInit ==
    /\ Init
    /\ state = ColdState(K)
    /\ outcome = [c \in Calls |-> "uncalled"]
    /\ slot = [c \in Calls |-> 0]
    /\ permits = [c \in Calls |-> 0]
    /\ agreed = [c \in Calls |-> 0]

\* The scheduler's own nowMicros().
SchedulerMicros(t) == NowMicros(t + Lead)

-----------------------------------------------------------------------------
(***************************************************************************)
(* Slips, as in WaitQueue.                                                 *)
(***************************************************************************)
\* The caller waits until the end of its stretch.
WaitsForTheEnd(n, t) == Reserve(K, state, n, t).nextFree - t

-----------------------------------------------------------------------------
\* The scheduler's peekWaitMicros() and what its reserveMicros(n) returns.
PeekWait(t) == GrantTime(K, state, t) - t
ReservedWait(n, t) == GrantTime(K, state, t) - t

\* reserveMicros(n), called when the scheduler's time is t.
ReserveFrom(c, n, t) ==
    /\ state' = Reserve(K, state, n, t)
    /\ slot' = [slot EXCEPT ![c] = GrantTime(K, state, t)]
    /\ permits' = [permits EXCEPT ![c] = n]

Fail(c) ==
    /\ outcome[c] = "uncalled"
    /\ Malformed(c)
    /\ outcome' = [outcome EXCEPT ![c] = "failed"]
    /\ UNCHANGED <<vars, state, slot, permits, agreed>>

\* A well-formed call for n permits with the given limit.
Called(c, n, limit) ==
    /\ outcome[c] = "uncalled"
    /\ n >= 1
    /\ limit >= 0

\* checkBounds() refuses, and the scheduler is never asked to reserve.
Refuse(c) ==
    \E n \in Permits, limit \in Timeouts, r \in Reads(1) :
        /\ Called(c, n, limit)
        /\ OutOfBounds(PeekWait(SchedulerMicros(r[1])), limit)
        /\ outcome' = [outcome EXCEPT ![c] = "refused"]
        /\ now' = r[1]
        /\ UNCHANGED <<state, slot, permits, agreed, queue, head, waiting, armed,
                       status, grant, timer, wakeAt>>

\* The bounds are checked on the wait as peeked at r1 and the reservation is
\* made at r2, with a wait that may have shrunk to nothing.
Pass(c) ==
    \E n \in Permits, limit \in Timeouts, r \in Reads(2) :
        LET t == SchedulerMicros(r[2])
        IN  /\ Called(c, n, limit)
            /\ ~ OutOfBounds(PeekWait(SchedulerMicros(r[1])), limit)
            /\ ReservedWait(n, t) <= 0
            /\ ReserveFrom(c, n, t)
            /\ outcome' = [outcome EXCEPT ![c] = "passed"]
            /\ agreed' = [agreed EXCEPT ![c] = Smaller(MaxDelay, limit)]
            /\ now' = r[2]
            /\ UNCHANGED <<queue, head, waiting, armed, status, grant, timer,
                           wakeAt>>

Queue(c) ==
    \E n \in Permits, limit \in Timeouts, r \in Reads(5) :
        LET t == SchedulerMicros(r[2])
        IN  /\ Called(c, n, limit)
            /\ ~ OutOfBounds(PeekWait(SchedulerMicros(r[1])), limit)
            /\ ReservedWait(n, t) > 0
            /\ ReserveFrom(c, n, t)
            /\ outcome' = [outcome EXCEPT ![c] = "queued"]
            /\ agreed' = [agreed EXCEPT ![c] = Smaller(MaxDelay, limit)]
            /\ Enqueue(c, ReservedWait(n, t), <<r[3], r[4], r[5]>>)

\* What happens to those already queued is the queue's business.
QueueStep(c) ==
    /\ \/ Abort(c)
       \/ TimerFire(c)
       \/ TimerThen(c)
       \/ TimerCatch(c)
    /\ UNCHANGED limiterVars

LimiterNext ==
    \/ \E c \in Calls :
        \/ Fail(c)
        \/ Refuse(c)
        \/ Pass(c)
        \/ Queue(c)
        \/ QueueStep(c)
    \/ Tick /\ UNCHANGED limiterVars
    \/ Rest /\ UNCHANGED limiterVars

LimiterSpec == LimiterInit /\ [][LimiterNext]_allVars

-----------------------------------------------------------------------------
(***************************************************************************)
(* No caller is made to wait longer than the standing bound and its own    *)
(* timeout allow, although the wait that was checked is not the wait that  *)
(* was reserved, nor the one the queue serves.                             *)
(***************************************************************************)
AgreedWaitKept ==
    \A c \in Calls : outcome[c] = "queued" => grant[c] <= now + agreed[c]

(***************************************************************************)
(* The queue lets a caller go less than a microsecond before its ticket,   *)
(* or later by no more than the clock moves in acquire().  That it may be  *)
(* before at all is more than queued-limiter.test.ts, line 52, says: the   *)
(* queue truncates its own clock, from an origin of its own.               *)
(***************************************************************************)
GrantIsTicket ==
    \A c \in Calls : outcome[c] = "queued" =>
        /\ slot[c] < grant[c] + Lead + Micro
        /\ grant[c] + Lead < slot[c] + MaxGap + Micro

(***************************************************************************)
(* Limiter, scheduler and queue together keep the promise of Admission, on *)
(* the scheduler's time; the stable interval is the least price.           *)
(***************************************************************************)
PhaseOf(o, s) ==
    CASE o = "passed" -> "through"
      [] o = "queued" /\ s = "held" -> "waiting"
      [] o = "queued" /\ s = "released" -> "through"
      [] o = "queued" /\ s = "aborted" -> "gone"
      [] OTHER -> "outside"

Phase == [c \in Calls |-> PhaseOf(outcome[c], status[c])]

Timeline == INSTANCE Admission WITH
    now <- now + Lead, MaxTime <- MaxTime + Lead, sold <- state.nextFree,
    phase <- Phase, Price <- K.stable, Lag <- Micro - 1, Early <- Micro - 1

ImplementsAdmission == Timeline!Spec

=============================================================================
