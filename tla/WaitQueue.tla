------------------------------ MODULE WaitQueue ------------------------------
(***************************************************************************)
(* The queue that holds admitted callers until their wait has elapsed,     *)
(* src/pacing/wait-queue.ts, together with the sleeps it starts on the     *)
(* clock.                                                                  *)
(*                                                                         *)
(* Time is as in Instants, measured from the queue's originNanos.  A grant *)
(* may lie between two microseconds, because a wait may (1e6 / rate is     *)
(* seldom whole).                                                          *)
(*                                                                         *)
(* Each handler is one action.  A sleep settles in one step (TimerFire, or *)
(* the abort in Reset) and its .then handler runs in a later one           *)
(* (TimerThen, TimerCatch): anything, new callers and aborts included, may *)
(* happen in between.                                                      *)
(***************************************************************************)
EXTENDS Instants, Sequences, FiniteSets, Listing

CONSTANTS
    Calls,        \* the calls of wait(); each is made at most once
    Cancellable,  \* those that pass an AbortSignal
    Waits,        \* the waits, in ticks, a caller may be told to serve
    None          \* no timer armed (undefined in the code)

ASSUME WaitQueueAssumption ==
    /\ Cancellable \subseteq Calls
    /\ Waits \subseteq Nat \ {0}
    /\ None \notin Calls

VARIABLES
    queue,    \* the entries, oldest first, drained ones and tombstones included
    head,     \* how many entries at the front have been drained
    waiting,  \* the counter behind the depth getter
    armed,    \* the sleep whose controller is in this.armed, or None
    status,   \* of each call's promise
    grant,    \* grantMicros of each call's entry, in ticks
    timer,    \* of each sleep; a sleep bears the name of the call that started
              \* its chain, and the sleep a drain starts continues the chain
    wakeAt    \* when each sleep is due

vars == <<now, queue, head, waiting, armed, status, grant, timer, wakeAt>>

Statuses == {"new", "held", "released", "aborted"}
TimerStates == {"none", "sleeping", "fired", "aborted"}

\* The positions not yet drained, and the callers waiting.
Undrained == (head + 1)..Len(queue)
Held == {c \in Calls : status[c] = "held"}

Init ==
    /\ now = 0
    /\ queue = <<>>
    /\ head = 0
    /\ waiting = 0
    /\ armed = None
    /\ status = [c \in Calls |-> "new"]
    /\ grant = [c \in Calls |-> 0]
    /\ timer = [c \in Calls |-> "none"]
    /\ wakeAt = [c \in Calls |-> 0]

-----------------------------------------------------------------------------
(***************************************************************************)
(* Slips: what a definition below would be with one plausible mistake.  No *)
(* behaviour uses them; each property is shown to notice one of them.      *)
(***************************************************************************)
\* wait() stores the wait and not the instant it ends.
GrantIsTheWait(t, w) == w

\* unshift() for push().
JoinedAtFront(c) == <<c>> \o queue

\* reset() forgets to clear this.armed.
ResetKeepsArmed ==
    /\ queue' = <<>>
    /\ head' = 0
    /\ armed' = armed
    /\ timer' = [timer EXCEPT ![armed] = "aborted"]

\* The abort listener is not removed when the caller is released.
ListeningForEver(c) ==
    c \in Cancellable /\ status[c] \in {"held", "released"}

\* drain() filters the queue instead of popping its front.
EveryoneDue(t, h) ==
    {c \in Held : grant[c] <= NowMicros(t)}

-----------------------------------------------------------------------------
(***************************************************************************)
(* arm(), called with the queue as the handler leaves it: one sleep for    *)
(* the head entry, unless one is armed or nobody is left.  a is this.armed *)
(* and tm the sleeps when arm() is called, id names the sleep it starts,   *)
(* t and s are the clock reads of arm() and of clock.sleep().  A sleep of  *)
(* no time settles at once.                                                *)
(***************************************************************************)
Arm(id, a, tm, t, s) ==
    \/ /\ a # None \/ head' = Len(queue')
       /\ armed' = a
       /\ timer' = tm
       /\ UNCHANGED wakeAt
    \/ /\ a = None
       /\ head' < Len(queue')
       /\ armed' = id
       /\ LET left == grant'[queue'[head' + 1]] - NowMicros(t)
          IN  \/ /\ left > 0
                 /\ timer' = [tm EXCEPT ![id] = "sleeping"]
                 /\ wakeAt' = [wakeAt EXCEPT ![id] = s + left]
              \/ /\ left <= 0
                 /\ timer' = [tm EXCEPT ![id] = "fired"]
                 /\ wakeAt' = [wakeAt EXCEPT ![id] = s]

GrantMicros(t, w) == NowMicros(t) + w

Joined(c) == Append(queue, c)

(***************************************************************************)
(* wait(w): the grant is counted from the queue's own reading r[1] of the  *)
(* clock, the entry goes to the back, and arm() runs.  The last guard is   *)
(* the model's: only waits that end before the modelled clock stops.       *)
(***************************************************************************)
Enqueue(c, w, r) ==
    /\ status[c] = "new"
    /\ status' = [status EXCEPT ![c] = "held"]
    /\ grant' = [grant EXCEPT ![c] = GrantMicros(r[1], w)]
    /\ queue' = Joined(c)
    /\ head' = head
    /\ waiting' = waiting + 1
    /\ Arm(c, armed, timer, r[2], r[3])
    /\ now' = r[3]
    /\ r[1] + w + Micro + MaxGap <= MaxTime

Wait(c) == \E w \in Waits, r \in Reads(3) : Enqueue(c, w, r)

\* The sleeps, once the armed one is aborted; one that has fired stays so.
AfterAbort ==
    [id \in Calls |->
        IF id = armed /\ timer[id] = "sleeping" THEN "aborted" ELSE timer[id]]

(***************************************************************************)
(* reset(), once the last waiting caller has gone: forget the entries and  *)
(* abort the armed sleep.  Aborting a sleep that has already fired changes *)
(* nothing: its listener is gone and its handler will still run.           *)
(***************************************************************************)
Reset ==
    /\ queue' = <<>>
    /\ head' = 0
    /\ armed' = None
    /\ timer' = AfterAbort

\* onAbort is subscribed while the caller is held, and no longer.
Listening(c) == c \in Cancellable /\ status[c] = "held"

\* onAbort: the caller's signal fires.
Abort(c) ==
    /\ Listening(c)
    /\ status' = [status EXCEPT ![c] = "aborted"]
    /\ waiting' = waiting - 1
    /\ IF waiting' = 0 THEN Reset
                       ELSE UNCHANGED <<queue, head, armed, timer>>
    /\ UNCHANGED <<now, grant, wakeAt>>

\* Those the loop resolves if it stops at h: a tombstone has nobody to wake.
Leaving(t, h) == {queue[i] : i \in (head + 1)..h} \cap Held

\* Whether what is left of the array is worth moving to the front.
MostlyDrained(h) == 2 * h > Len(queue)

(***************************************************************************)
(* drain(), up to its call of arm(): h is where the loop stops.  Entries   *)
(* due at t leave from the front, tombstones silently, the others by       *)
(* resolving their caller; then the array is emptied, compacted or kept.   *)
(***************************************************************************)
Drain(t, h) ==
    /\ \A i \in (head + 1)..h : grant[queue[i]] <= NowMicros(t)
    /\ h < Len(queue) => grant[queue[h + 1]] > NowMicros(t)
    /\ status' = [c \in Calls |->
                     IF c \in Leaving(t, h) THEN "released" ELSE status[c]]
    /\ waiting' = waiting - Cardinality(Leaving(t, h))
    /\ \/ h = Len(queue) /\ queue' = <<>> /\ head' = 0
       \/ /\ h < Len(queue)
          /\ MostlyDrained(h)
          /\ queue' = SubSeq(queue, h + 1, Len(queue))
          /\ head' = 0
       \/ h < Len(queue) /\ ~ MostlyDrained(h) /\ queue' = queue /\ head' = h

\* The clock resolves a sleep, never before it is due.
TimerFire(id) ==
    /\ timer[id] = "sleeping"
    /\ wakeAt[id] <= now
    /\ timer' = [timer EXCEPT ![id] = "fired"]
    /\ UNCHANGED <<now, queue, head, waiting, armed, status, grant, wakeAt>>

\* The fulfilment handler arm() attached to a sleep.
TimerThen(id) ==
    /\ timer[id] = "fired"
    /\ \E r \in Reads(3), h \in head..Len(queue) :
        /\ Drain(r[1], h)
        /\ grant' = grant
        /\ Arm(id, None, [timer EXCEPT ![id] = "none"], r[2], r[3])
        /\ now' = r[3]

\* The rejection handler arm() attached to a sleep.
TimerCatch(id) ==
    /\ timer[id] = "aborted"
    /\ timer' = [timer EXCEPT ![id] = "none"]
    /\ armed' = None
    /\ UNCHANGED <<now, queue, head, waiting, status, grant, wakeAt>>

Tick ==
    /\ TimePasses
    /\ UNCHANGED <<queue, head, waiting, armed, status, grant, timer, wakeAt>>

\* The modelled clock has stopped and nobody is waiting.
Rest ==
    /\ now = MaxTime
    /\ Held = {}
    /\ UNCHANGED vars

Next ==
    \/ \E c \in Calls :
        \/ Wait(c)
        \/ Abort(c)
        \/ TimerFire(c)
        \/ TimerThen(c)
        \/ TimerCatch(c)
    \/ Tick
    \/ Rest

Spec == Init /\ [][Next]_vars

\* Time passes, the clock wakes its sleepers and the runtime runs handlers.
Fairness ==
    /\ WF_vars(Tick)
    /\ \A id \in Calls : /\ WF_vars(TimerFire(id))
                         /\ WF_vars(TimerThen(id))
                         /\ WF_vars(TimerCatch(id))

FairSpec == Spec /\ Fairness

-----------------------------------------------------------------------------
TypeOK ==
    /\ now \in 0..MaxTime
    /\ queue \in Seq(Calls)
    /\ head \in Nat
    /\ waiting \in Nat
    /\ armed \in Calls \cup {None}
    /\ status \in [Calls -> Statuses]
    /\ grant \in [Calls -> Nat]
    /\ timer \in [Calls -> TimerStates]
    /\ wakeAt \in [Calls -> Nat]

(***************************************************************************)
(* A sleep that will look at the queue's head soon enough: its handler is  *)
(* already due to run, or it wakes within a microsecond of the head's      *)
(* grant (the queue truncates its clock; the clock moves inside arm()).    *)
(***************************************************************************)
Covers(id) ==
    \/ timer[id] = "fired"
    \/ /\ timer[id] = "sleeping"
       /\ wakeAt[id] < grant[queue[head + 1]] + Micro + MaxGap

(***************************************************************************)
(* Nobody is forgotten: while an entry is undrained, a live sleep covers   *)
(* the head.  armed is overwritten by handlers of sleeps that were armed   *)
(* for an earlier generation of the queue, and a caller left with no sleep *)
(* would wait for ever.                                                    *)
(***************************************************************************)
HeadIsCovered == head < Len(queue) => \E id \in Calls : Covers(id)

(***************************************************************************)
(* The armed sleep is a sleep for the present head: arm() returns early on *)
(* the strength of this alone.                                             *)
(***************************************************************************)
ArmedIsForHead == armed # None => head < Len(queue) /\ Covers(armed)

(***************************************************************************)
(* The queue and its callers agree: a caller is held exactly while it has  *)
(* an undrained entry that is no tombstone, and the counter, which is      *)
(* moved by wait(), by onAbort and by drain() and decides when reset()     *)
(* throws the whole queue away, is the number of held callers.             *)
(***************************************************************************)
HeldAreQueued == Held \subseteq {queue[i] : i \in Undrained}

DrainedAreSettled == \A i \in 1..head : status[queue[i]] # "held"

DepthIsHeld == waiting = Cardinality(Held)

QueueMatchesCallers == HeldAreQueued /\ DrainedAreSettled /\ DepthIsHeld

(***************************************************************************)
(* Compaction works: drained entries never outnumber the undrained ones.   *)
(***************************************************************************)
Compacted == 2 * head <= Len(queue)

(***************************************************************************)
(* The inductive invariant: the properties above, and what they rest on.   *)
(* Every call has at most one entry, no entry before it calls wait(), and  *)
(* no sleep in its name before then either.                                *)
(***************************************************************************)
OneEntryEach ==
    /\ \A i, j \in 1..Len(queue) : queue[i] = queue[j] => i = j
    /\ \A i \in 1..Len(queue) : status[queue[i]] # "new"

NewIsIdle == \A c \in Calls : status[c] = "new" => timer[c] = "none"

IndInv ==
    /\ TypeOK
    /\ OneEntryEach
    /\ NewIsIdle
    /\ IsFiniteSet(Held)
    /\ QueueMatchesCallers
    /\ Compacted
    /\ ArmedIsForHead
    /\ HeadIsCovered

(***************************************************************************)
(* Callers leave in the order they came: nobody held is released while     *)
(* someone queued before it stays held.  The slice of a compaction and the *)
(* tombstones must not disturb it.                                         *)
(***************************************************************************)
ArrivalOrder ==
    [][\A i, j \in Undrained :
          /\ i < j
          /\ queue[i] \in Held /\ queue[j] \in Held
          /\ status'[queue[j]] = "released"
          => status'[queue[i]] = "released"]_vars

(***************************************************************************)
(* The queue keeps the promise of HoldingLine: seen through Line, which    *)
(* hides drained entries and tombstones, every handler either lets the     *)
(* whole due front of the line go, or removes one canceller, or nothing.   *)
(***************************************************************************)
Earlier ==
    {<<queue[p[1]], queue[p[2]]>> : p \in {q \in Undrained \X Undrained : q[1] < q[2]}}

Line == Listed(Held \cap {queue[i] : i \in Undrained}, Earlier)

Promise == INSTANCE HoldingLine WITH line <- Line, due <- grant

ImplementsHoldingLine == Promise!Spec

(***************************************************************************)
(* Everyone held is released or aborts, if time passes and handlers run.   *)
(***************************************************************************)
EveryoneLeaves ==
    \A c \in Calls : status[c] = "held" ~> status[c] \in {"released", "aborted"}

(***************************************************************************)
(* What the class comment claims (lines 10-12): a single timer.  One sleep *)
(* at most is live, that is, still has to wake and drain.                  *)
(***************************************************************************)
SingleTimer == Cardinality({id \in Calls : timer[id] = "sleeping"}) <= 1

(***************************************************************************)
(* What the class comment claims (lines 18-19): callers are enqueued with  *)
(* non-decreasing grant times.                                             *)
(***************************************************************************)
GrantsAscend ==
    \A i, j \in Undrained : i < j => grant[queue[i]] <= grant[queue[j]]

=============================================================================
