-------------------------------- MODULE Pacer --------------------------------
(***************************************************************************)
(* The virtual-slot pacer, src/pacing/pacer.ts with slot.ts: one timestamp *)
(* says where the timeline is sold up to; a caller is refused, let through *)
(* at once, or handed to the WaitQueue it is composed with.                *)
(*                                                                         *)
(* The pacer and its queue count time from the same origin, so the module  *)
(* extends the queue's and shares its variables; calls of acquire() take   *)
(* the place of the queue's unconstrained callers.  One call is one        *)
(* action: the pacer's own reading of the clock, the bounds, the           *)
(* reservation and the queue's wait() all run before the first await.      *)
(***************************************************************************)
EXTENDS BoundedQueue

CONSTANT Interval  \* intervalMicros, in ticks

ASSUME PacerAssumption == Interval \in Nat \ {0}

VARIABLES
    nextSlot,  \* nextSlotMicros, in ticks
    outcome,   \* what acquire() made of each call
    slot,      \* history: the slot reserved for each call
    permits    \* history: the permits it was reserved for

slotVars == <<nextSlot, outcome, slot, permits>>
pacerVars == <<vars, slotVars>>

Outcomes == {"uncalled", "failed", "refused", "passed", "queued"}

PacerInit ==
    /\ Init
    /\ nextSlot = 0
    /\ outcome = [c \in Calls |-> "uncalled"]
    /\ slot = [c \in Calls |-> 0]
    /\ permits = [c \in Calls |-> 0]

-----------------------------------------------------------------------------
(***************************************************************************)
(* Slips: what a definition below would be with one plausible mistake.  No *)
(* behaviour uses them; each property is shown to notice one of them.      *)
(***************************************************************************)
\* The next slot is counted from now and not from the slot granted.
ChargedFromNow(c, n, t) ==
    /\ nextSlot' = t + n * Interval
    /\ slot' = [slot EXCEPT ![c] = Larger(nextSlot, t)]
    /\ permits' = [permits EXCEPT ![c] = n]

-----------------------------------------------------------------------------
\* waitForNextSlotMicros(): how long a caller arriving at t would wait.
WaitForNextSlot(t) == Larger(0, nextSlot - t)

\* reserveSlot(): a slot in the past is pulled up to t, and the cost of n
\* permits follows it.
ReserveSlot(c, n, t) ==
    LET granted == Larger(nextSlot, t)
    IN  /\ nextSlot' = granted + n * Interval
        /\ slot' = [slot EXCEPT ![c] = granted]
        /\ permits' = [permits EXCEPT ![c] = n]

Fail(c) ==
    /\ outcome[c] = "uncalled"
    /\ Malformed(c)
    /\ outcome' = [outcome EXCEPT ![c] = "failed"]
    /\ UNCHANGED <<vars, nextSlot, slot, permits>>

\* A well-formed call for n permits with the given limit.
Called(c, n, limit) ==
    /\ outcome[c] = "uncalled"
    /\ n >= 1
    /\ limit >= 0

\* checkBounds() refuses; acquire() throws, tryAcquire() answers false.
Refuse(c) ==
    \E n \in Permits, limit \in Timeouts, r \in Reads(1) :
        LET t == NowMicros(r[1])
        IN  /\ Called(c, n, limit)
            /\ OutOfBounds(WaitForNextSlot(t), limit)
            /\ outcome' = [outcome EXCEPT ![c] = "refused"]
            /\ now' = r[1]
            /\ UNCHANGED <<nextSlot, slot, permits, queue, head, waiting,
                           armed, status, grant, timer, wakeAt>>

\* The slot is now: the caller proceeds without touching the queue.
Pass(c) ==
    \E n \in Permits, limit \in Timeouts, r \in Reads(1) :
        LET t == NowMicros(r[1])
        IN  /\ Called(c, n, limit)
            /\ ~ OutOfBounds(WaitForNextSlot(t), limit)
            /\ WaitForNextSlot(t) = 0
            /\ ReserveSlot(c, n, t)
            /\ outcome' = [outcome EXCEPT ![c] = "passed"]
            /\ now' = r[1]
            /\ UNCHANGED <<queue, head, waiting, armed, status, grant, timer,
                           wakeAt>>

\* The slot is later: the caller is told how long to wait and queues.  The
\* queue adds that wait to a reading of its own.
Queue(c) ==
    \E n \in Permits, limit \in Timeouts, r \in Reads(4) :
        LET t == NowMicros(r[1])
        IN  /\ Called(c, n, limit)
            /\ ~ OutOfBounds(WaitForNextSlot(t), limit)
            /\ WaitForNextSlot(t) > 0
            /\ ReserveSlot(c, n, t)
            /\ outcome' = [outcome EXCEPT ![c] = "queued"]
            /\ Enqueue(c, WaitForNextSlot(t), <<r[2], r[3], r[4]>>)

\* What happens to those already queued is the queue's business.
QueueStep(c) ==
    /\ \/ Abort(c)
       \/ TimerFire(c)
       \/ TimerThen(c)
       \/ TimerCatch(c)
    /\ UNCHANGED slotVars

PacerNext ==
    \/ \E c \in Calls :
        \/ Fail(c)
        \/ Refuse(c)
        \/ Pass(c)
        \/ Queue(c)
        \/ QueueStep(c)
    \/ Tick /\ UNCHANGED slotVars
    \/ Rest /\ UNCHANGED slotVars

PacerSpec == PacerInit /\ [][PacerNext]_pacerVars

-----------------------------------------------------------------------------
PacerTypeOK ==
    /\ TypeOK
    /\ nextSlot \in Nat
    /\ outcome \in [Calls -> Outcomes]
    /\ slot \in [Calls -> Nat]
    /\ permits \in [Calls -> Nat]

Admitted == {c \in Calls : outcome[c] \in {"passed", "queued"}}

End(c) == slot[c] + permits[c] * Interval

(***************************************************************************)
(* Whatever mixture of permits, idle periods and cancellations, no two     *)
(* admitted calls share a stretch of the timeline, and all of it is sold.  *)
(***************************************************************************)
SlotsDisjoint ==
    \A c, d \in Admitted : c # d => End(c) <= slot[d] \/ End(d) <= slot[c]

(***************************************************************************)
(* Nobody proceeds before the slot it was sold, although the wait crosses  *)
(* from the pacer's reading of the clock to the queue's, and from the      *)
(* queue's to the clock that sleeps.                                       *)
(***************************************************************************)
Proceeded == {c \in Calls : outcome[c] = "passed" \/ status[c] = "released"}

NeverEarly == \A c \in Proceeded : slot[c] <= now

(***************************************************************************)
(* Callers stand in the queue in the order of their slots, even when the   *)
(* clock moves between the pacer's reading and the queue's.                *)
(***************************************************************************)
QueuedInSlotOrder ==
    \A i, j \in 1..Len(queue) : i < j => slot[queue[i]] < slot[queue[j]]

(***************************************************************************)
(* The queue holds a caller to its slot, give or take what the clock moves *)
(* during acquire().                                                       *)
(***************************************************************************)
GrantIsSlot ==
    \A c \in Calls : outcome[c] = "queued" =>
        slot[c] <= grant[c] /\ grant[c] < slot[c] + MaxGap + Micro

(***************************************************************************)
(* Tombstones are not counted by the depth bound, so a flood of callers    *)
(* that cancel is held back by the delay bound alone: the slots they       *)
(* forfeit are never handed on, and so the entries not yet due, tombstones *)
(* included, fit in MaxDelay.                                              *)
(***************************************************************************)
Pending == {i \in Undrained : slot[queue[i]] > now}

BacklogFitsDelay ==
    Pending # {} => (Cardinality(Pending) - 1) * Interval < MaxDelay

(***************************************************************************)
(* A caller that need not wait does not look at the queue, in which others *)
(* may still be held although they are due, when the timer's handler is    *)
(* late (pacer.ts, lines 71-74).  It costs them nothing: those it passes   *)
(* by could have left at least a whole stretch ago.                        *)
(***************************************************************************)
OvertakesOnlyTheOverdue ==
    [][\A c \in Calls : outcome[c] # "passed" /\ outcome'[c] = "passed"
          => \A d \in Held : End(d) <= now']_pacerVars

(***************************************************************************)
(* The inductive invariant: the invariants above but BacklogFitsDelay,     *)
(* that of the queue, and what they rest on. A call has been handed to the *)
(* queue if and only if its outcome says so, and the timeline is sold up   *)
(* to the end of the latest stretch at least.                              *)
(***************************************************************************)
HandedOver == \A c \in Calls : status[c] # "new" <=> outcome[c] = "queued"

SoldToTheEnd == \A c \in Admitted : permits[c] >= 1 /\ End(c) <= nextSlot

PacerInv ==
    /\ IndInv
    /\ PacerTypeOK
    /\ HandedOver
    /\ SoldToTheEnd
    /\ SlotsDisjoint
    /\ NeverEarly
    /\ GrantIsSlot
    /\ QueuedInSlotOrder
    /\ DepthBounded

(***************************************************************************)
(* The pacer keeps the promise of Admission: a permit costs Interval, and  *)
(* nobody is early by even a tick.                                         *)
(***************************************************************************)
PhaseOf(o, s) ==
    CASE o = "passed" -> "through"
      [] o = "queued" /\ s = "held" -> "waiting"
      [] o = "queued" /\ s = "released" -> "through"
      [] o = "queued" /\ s = "aborted" -> "gone"
      [] OTHER -> "outside"

Phase == [c \in Calls |-> PhaseOf(outcome[c], status[c])]

Timeline == INSTANCE Admission WITH
    sold <- nextSlot, phase <- Phase,
    Price <- Interval, Lag <- Micro - 1, Early <- 0

ImplementsAdmission == Timeline!Spec

(***************************************************************************)
(* What README.md (line 267) and wait-queue.ts (lines 18-19) claim: a new  *)
(* arrival can never be due before someone already queued.                 *)
(***************************************************************************)
DueInOrder == GrantsAscend

=============================================================================
