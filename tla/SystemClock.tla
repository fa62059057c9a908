----------------------------- MODULE SystemClock -----------------------------
(***************************************************************************)
(* The real clock, src/clock/system-clock.ts: it reads process.hrtime and  *)
(* sleeps with setTimeout, whose timers keep a millisecond clock of their  *)
(* own.  They fire when so many of its milliseconds have begun, which may  *)
(* be early by hrtime, by almost a whole one, and they cannot be asked for *)
(* long delays.  Instants are counted from a tick of that clock.           *)
(***************************************************************************)
EXTENDS Clock

CONSTANTS
    Milli,         \* ticks per millisecond (1000000 in the code)
    MaxTimeoutMs,  \* MAX_TIMEOUT_MS
    None           \* no timer

ASSUME SystemClockAssumption ==
    /\ Milli \in Nat \ {0}
    /\ MaxTimeoutMs \in Nat \ {0}
    /\ None \notin Int

VARIABLES
    timer,   \* of each sleep: the millisecond its timer is due, or None
    checks   \* history: how often check() has run for each sleep

systemVars == <<now, phase, asked, wakeAt, timer, checks>>

SystemInit ==
    /\ now = 0
    /\ phase = [s \in Sleeps |-> "new"]
    /\ wakeAt = [s \in Sleeps |-> 0]
    /\ timer = [s \in Sleeps |-> None]
    /\ asked = [s \in Sleeps |-> 0]
    /\ checks = [s \in Sleeps |-> 0]

-----------------------------------------------------------------------------
(***************************************************************************)
(* Slips, as in WaitQueue.                                                 *)
(***************************************************************************)
InMillis(ticks) == (ticks + Milli - 1) \div Milli

\* The delay is not capped.
Uncapped(remaining) == InMillis(remaining)

\* The timer is taken at its word, to the millisecond.
CloseEnough(remaining) == remaining < Milli

\* onAbort does not clear the timer.
TimerKept(s) == timer

\* A timer that fires early is not set again.
NoSecondTimer(s, due) == [timer EXCEPT ![s] = IF @ = None THEN due ELSE None]

-----------------------------------------------------------------------------
DelayMs(remaining) ==
    IF InMillis(remaining) <= MaxTimeoutMs THEN InMillis(remaining) ELSE MaxTimeoutMs

HasPassed(remaining) == remaining <= 0

\* The millisecond clock of the timers.
TimerMillis(t) == t \div Milli

\* setTimeout(), called at t: a delay it cannot honour becomes 1 ms.
TimeoutDue(t, ms) == TimerMillis(t) + IF ms <= MaxTimeoutMs THEN ms ELSE 1

Rearmed(s, due) == [timer EXCEPT ![s] = due]

\* check(), which reads the clock at t; at is the sleep's wakeAt.
Check(s, at, t) ==
    /\ checks' = [checks EXCEPT ![s] = @ + 1]
    /\ \/ /\ HasPassed(at - t)
          /\ phase' = [phase EXCEPT ![s] = "resolved"]
          /\ timer' = [timer EXCEPT ![s] = None]
       \/ /\ ~ HasPassed(at - t)
          /\ phase' = [phase EXCEPT ![s] = "asleep"]
          /\ timer' = Rearmed(s, TimeoutDue(t, DelayMs(at - t)))
    /\ now' = t

\* sleep(n) with an aborted signal.
SleepNot(s) ==
    /\ phase[s] = "new"
    /\ s \in Cancellable
    /\ phase' = [phase EXCEPT ![s] = "rejected"]
    /\ UNCHANGED <<now, wakeAt, timer, asked, checks>>

\* sleep(n): wakeAt is counted from one reading and checked on another.
TimedSleep(s) ==
    \E n \in Durations, r \in Reads(2) :
        /\ phase[s] = "new"
        /\ wakeAt' = [wakeAt EXCEPT ![s] = r[1] + n]
        /\ asked' = [asked EXCEPT ![s] = n]
        /\ Check(s, r[1] + n, r[2])
        /\ r[1] + n + 2 * Milli <= MaxTime  \* bound: it ends before the clock

\* The runtime runs check() once the timer is due by its own clock, or later.
TimerFires(s) ==
    /\ timer[s] # None
    /\ timer[s] <= TimerMillis(now)
    /\ \E r \in Reads(1) : Check(s, wakeAt[s], r[1])
    /\ UNCHANGED <<wakeAt, asked>>

Cleared(s) == [timer EXCEPT ![s] = None]

\* onAbort
AbortTimer(s) ==
    /\ s \in Cancellable
    /\ phase[s] = "asleep"
    /\ phase' = [phase EXCEPT ![s] = "rejected"]
    /\ timer' = Cleared(s)
    /\ UNCHANGED <<now, wakeAt, asked, checks>>

Tick ==
    /\ TimePasses
    /\ UNCHANGED <<phase, wakeAt, timer, asked, checks>>

\* The modelled clock has stopped and nobody is asleep.
Rest ==
    /\ now = MaxTime
    /\ \A s \in Sleeps : phase[s] # "asleep"
    /\ UNCHANGED systemVars

SystemNext ==
    \/ \E s \in Sleeps :
        \/ SleepNot(s)
        \/ TimedSleep(s)
        \/ TimerFires(s)
        \/ AbortTimer(s)
    \/ Tick
    \/ Rest

SystemSpec == SystemInit /\ [][SystemNext]_systemVars

\* Time passes and the runtime fires timers that are due.
FairSystemSpec ==
    /\ SystemSpec
    /\ WF_systemVars(Tick)
    /\ \A s \in Sleeps : WF_systemVars(TimerFires(s))

-----------------------------------------------------------------------------
(***************************************************************************)
(* Types, and that a sleep has a timer for as long as it is asleep and no  *)
(* longer: one that is over cannot keep the process alive (lines 23-24),   *)
(* one that is not has not been forgotten after an early or capped timer.  *)
(***************************************************************************)
SystemTypeOK ==
    /\ now \in 0..MaxTime
    /\ phase \in [Sleeps -> Phases]
    /\ wakeAt \in [Sleeps -> Int]
    /\ timer \in [Sleeps -> Nat \cup {None}]
    /\ \A s \in Sleeps : timer[s] # None <=> phase[s] = "asleep"
    /\ asked \in [Sleeps -> Int]
    /\ checks \in [Sleeps -> Nat]

(***************************************************************************)
(* Checking again does not become spinning, although timers are early by   *)
(* up to a millisecond: a sleep runs check() once for each timer of the    *)
(* longest kind that its time has room for, to the millisecond, and three  *)
(* times more at the most.                                                 *)
(***************************************************************************)
ChecksAreFew ==
    \A s \in Sleeps : checks[s] > 3 =>
        (checks[s] - 3) * (MaxTimeoutMs * Milli) < asked[s] + Milli

(***************************************************************************)
(* Every sleep ends.                                                       *)
(***************************************************************************)
EverySleepEnds == \A s \in Sleeps : phase[s] = "asleep" ~> phase[s] # "asleep"

=============================================================================
