----------------------------- MODULE ManualClock -----------------------------
(***************************************************************************)
(* The clock that moves only when told to, src/clock/manual-clock.ts.      *)
(* Every test of the package that involves time rests on it.               *)
(*                                                                         *)
(* advance() resolves promises but runs none of their continuations, so it *)
(* is one action.  A sleep has a signal of its own; a signal that several  *)
(* sleeps share is several aborts in a row.                                *)
(***************************************************************************)
EXTENDS Clock, SequencesExt, Listing

CONSTANT Steps  \* what callers pass to advance(), in ticks, negative included

ASSUME ManualClockAssumption == Steps \subseteq Int

VARIABLES
    sleepQueue,  \* the sleepers, in the order they started
    started,     \* history: the sleeps that queued, in that order
    woken        \* history: the sleeps advance() resolved, in that order

vars == <<now, sleepQueue, phase, asked, wakeAt, started, woken>>

Init ==
    /\ now = 0
    /\ sleepQueue = <<>>
    /\ phase = [s \in Sleeps |-> "new"]
    /\ asked = [s \in Sleeps |-> 0]
    /\ wakeAt = [s \in Sleeps |-> 0]
    /\ started = <<>>
    /\ woken = <<>>

-----------------------------------------------------------------------------
Asleep == ToSet(sleepQueue)

\* The orders in which sleepers are queued, and in which they wake.
IsBefore(s, u, seq) ==
    \E i, j \in DOMAIN seq : i < j /\ seq[i] = s /\ seq[j] = u

Queued == {p \in Asleep \X Asleep : IsBefore(p[1], p[2], sleepQueue)}

Sooner ==
    {p \in Asleep \X Asleep :
        \/ wakeAt[p[1]] < wakeAt[p[2]]
        \/ wakeAt[p[1]] = wakeAt[p[2]] /\ p \in Queued}

-----------------------------------------------------------------------------
(***************************************************************************)
(* Slips, as in WaitQueue.                                                 *)
(***************************************************************************)
\* advance() does not sort.
AsQueued(ready) == Listed(ready, Queued)

\* An aborted sleeper stays in the queue.
NotDropped(s) == sleepQueue

\* The wait is taken for the instant.
WakeAtIsTheWait(n) == n

-----------------------------------------------------------------------------
Due(s, t) == wakeAt[s] <= t

WakeAt(n) == now + n

\* ready.sort(): by wake time, and Array.prototype.sort is stable.
InWakeOrder(ready) == Listed(ready, Sooner)

\* advance(n), for an n that is not negative.
AdvanceBy(n) ==
    LET t == now + n
        ready == {s \in Asleep : Due(s, t)}
    IN  /\ t <= MaxTime
        /\ now' = t
        /\ sleepQueue' = Listed(Asleep \ ready, Queued)
        /\ phase' = [s \in Sleeps |->
                        IF s \in ready THEN "resolved" ELSE phase[s]]
        /\ woken' = woken \o InWakeOrder(ready)
        /\ UNCHANGED <<asked, wakeAt, started>>

\* A negative n throws and leaves the time alone.
Advance == \E n \in Steps : n >= 0 /\ AdvanceBy(n)

\* sleep() with a signal that has already fired.
SleepAborted(s) ==
    /\ s \in Cancellable
    /\ phase[s] = "new"
    /\ phase' = [phase EXCEPT ![s] = "rejected"]
    /\ UNCHANGED <<now, sleepQueue, asked, wakeAt, started, woken>>

\* sleep(n): it resolves at once when there is nothing to wait for.
SleepFor(s, n) ==
    /\ phase[s] = "new"
    /\ asked' = [asked EXCEPT ![s] = n]
    /\ \/ /\ n <= 0
          /\ phase' = [phase EXCEPT ![s] = "resolved"]
          /\ wakeAt' = [wakeAt EXCEPT ![s] = now]
          /\ UNCHANGED <<sleepQueue, started>>
       \/ /\ n > 0
          /\ phase' = [phase EXCEPT ![s] = "asleep"]
          /\ wakeAt' = [wakeAt EXCEPT ![s] = WakeAt(n)]
          /\ sleepQueue' = Append(sleepQueue, s)
          /\ started' = Append(started, s)
    /\ UNCHANGED <<now, woken>>

Sleep(s) == \E n \in Durations : SleepFor(s, n)

Dropped(s) == Listed(Asleep \ {s}, Queued)

\* onAbort
Abort(s) ==
    /\ s \in Cancellable
    /\ phase[s] = "asleep"
    /\ phase' = [phase EXCEPT ![s] = "rejected"]
    /\ sleepQueue' = Dropped(s)
    /\ UNCHANGED <<now, asked, wakeAt, started, woken>>

Next ==
    \/ Advance
    \/ \E s \in Sleeps : SleepAborted(s) \/ Sleep(s) \/ Abort(s)

Spec == Init /\ [][Next]_vars

-----------------------------------------------------------------------------
(***************************************************************************)
(* Types, and that the queue holds exactly those asleep, each once: an     *)
(* abort leaves nothing behind.                                            *)
(***************************************************************************)
TypeOK ==
    /\ now \in 0..MaxTime
    /\ sleepQueue \in Seq(Sleeps)
    /\ phase \in [Sleeps -> Phases]
    /\ asked \in [Sleeps -> Int]
    /\ wakeAt \in [Sleeps -> Nat]
    /\ started \in Seq(Sleeps)
    /\ woken \in Seq(Sleeps)
    /\ Asleep = {s \in Sleeps : phase[s] = "asleep"}
    /\ IsInjective(sleepQueue)

(***************************************************************************)
(* Sleepers wake in wake-time order, ties in the order they started (lines *)
(* 49-53), and not only those woken by the same advance: the order of all  *)
(* that was ever woken does not depend on how the time was cut up, for an  *)
(* advance leaves nobody behind that it made due.                          *)
(***************************************************************************)
NobodyOverdue == \A s \in Sleeps : phase[s] = "asleep" => wakeAt[s] > now

WokenInOrder ==
    /\ NobodyOverdue
    /\ \A i, j \in DOMAIN woken : i < j =>
        \/ wakeAt[woken[i]] < wakeAt[woken[j]]
        \/ /\ wakeAt[woken[i]] = wakeAt[woken[j]]
           /\ IsBefore(woken[i], woken[j], started)

=============================================================================
