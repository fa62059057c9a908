-------------------------------- MODULE Drive --------------------------------
(***************************************************************************)
(* The driver every benchmark scenario runs on, bench/lib/drive.mjs, with  *)
(* the ManualClock it advances and one limiter of Baselines: callers       *)
(* arrive as a script says, and it records when each was let through.      *)
(*                                                                         *)
(* The driver keeps its own count of microseconds beside the clock's       *)
(* nanoseconds, and it sees a caller only when it stops to flush the       *)
(* microtasks.  Its loop is cut at that await.  Sleeps is 1..n: a caller   *)
(* is its place in the script, and the script is chosen at the start.      *)
(***************************************************************************)
EXTENDS ManualClock, Baselines

CONSTANTS
    Sizes,       \* the permits a caller may ask for
    Moments,     \* when a caller may arrive, in ticks
    StepMicros,  \* options.stepMicros
    MaxMicros    \* options.maxMicros

ASSUME DriveAssumption ==
    /\ Sizes \subseteq Nat \ {0}
    /\ Moments \subseteq Nat
    /\ StepMicros \in Nat \ {0}
    /\ MaxMicros \in Nat
    /\ IsFiniteSet(Sleeps) /\ Sleeps = 1..Cardinality(Sleeps)

VARIABLES
    kind, limiter,  \* the limiter driven
    script,         \* arrivals, sorted by time
    pc,             \* where the loop is
    nowMicros,      \* the driver's time
    issued,         \* nextToIssue
    pending,        \* callers issued and not yet settled
    grant           \* grantMicros of each record; NotYet, or NotAtAll if refused

driveVars == <<kind, limiter, script, pc, nowMicros, issued, pending, grant>>
allVars == <<vars, driveVars>>

NotYet == -1
NotAtAll == -2

Scripts ==
    {s \in UNION {[1..n -> [at : Moments, permits : Sizes]] : n \in Sleeps} :
        \A i \in 1..(Len(s) - 1) : s[i].at <= s[i + 1].at}

DriveInit ==
    /\ Init
    /\ kind \in Kinds
    /\ limiter = NewLimiter(kind)
    /\ script \in Scripts
    /\ pc = "issue"
    /\ nowMicros = 0
    /\ issued = 0
    /\ pending = 0
    /\ grant = [c \in Sleeps |-> NotYet]

-----------------------------------------------------------------------------
(***************************************************************************)
(* Slips, as in WaitQueue.                                                 *)
(***************************************************************************)
\* The way to the next stop is cut to whole microseconds, not rounded up.
Truncated(ticks) == ticks \div Micro

\* The driver jumps to the next arrival although somebody is waiting.
JumpsAhead(next) == IF next < MaxTime THEN next ELSE now + StepMicros * Micro

-----------------------------------------------------------------------------
Arrived == issued < Len(script) /\ script[issued + 1].at <= nowMicros * Micro

\* Step 1: a caller that has arrived reserves, and sleeps or is refused.
Issue ==
    LET c == issued + 1
        answer == AcquireFrom(kind, limiter, script[c].permits, now)
    IN  /\ pc = "issue"
        /\ Arrived
        /\ issued' = c
        /\ pending' = pending + 1
        /\ limiter' = answer.state
        /\ \/ answer.ok /\ SleepFor(c, answer.wait)
           \/ /\ ~ answer.ok
              /\ phase' = [phase EXCEPT ![c] = "rejected"]
              /\ UNCHANGED <<now, sleepQueue, asked, wakeAt, started, woken>>
        /\ UNCHANGED <<kind, script, pc, nowMicros, grant>>

\* Step 2: the callbacks of the promises that have settled run.
Settled == {c \in 1..issued : grant[c] = NotYet /\ phase[c] # "asleep"}

Noted(c) == IF phase[c] = "resolved" THEN nowMicros ELSE NotAtAll

Flush ==
    /\ pc = "issue"
    /\ ~ Arrived
    /\ grant' = [c \in Sleeps |-> IF c \in Settled THEN Noted(c) ELSE grant[c]]
    /\ pending' = pending - Cardinality(Settled)
    /\ pc' = IF issued = Len(script) /\ pending' = 0 THEN "done" ELSE "move"
    /\ UNCHANGED <<vars, kind, limiter, script, nowMicros, issued>>

\* Where step 3 goes: one step, or straight to the next arrival if nobody waits.
NextArrival == IF issued < Len(script) THEN script[issued + 1].at ELSE MaxTime

Target(next) ==
    IF pending > 0 THEN Least(now + StepMicros * Micro, next) ELSE next

WholeMicros(ticks) == Most(1, (ticks + Micro - 1) \div Micro)

\* Steps 3 and 4: time moves on, unless it has gone on for too long.
Move ==
    LET delta == WholeMicros(Target(NextArrival) - now)
    IN  /\ pc = "move"
        /\ AdvanceBy(delta * Micro)
        /\ nowMicros' = nowMicros + delta
        /\ pc' = IF nowMicros' > MaxMicros THEN "gaveUp" ELSE "issue"
        /\ UNCHANGED <<kind, limiter, script, issued, pending, grant>>

Ended == pc \in {"done", "gaveUp"} /\ UNCHANGED allVars

DriveNext == Issue \/ Flush \/ Move \/ Ended

\* The event loop goes on.
DriveSpec ==
    DriveInit /\ [][DriveNext]_allVars /\ WF_allVars(Issue \/ Flush \/ Move)

-----------------------------------------------------------------------------
Admitted == {c \in 1..issued : phase[c] # "rejected"}

(***************************************************************************)
(* Each limiter keeps its rate, whoever comes when.  The evenly paced and  *)
(* the warm-up ones leave an interval for each permit; the bucket lets     *)
(* through what it held, or one caller larger than that, and what flowed   *)
(* in since; a window takes its limit, or one caller alone.                *)
(***************************************************************************)
PermitsOf(group) ==
    SumFunctionOnSet([c \in DOMAIN script |-> script[c].permits], group)

KeepsRate(c, d) ==
    CASE kind = "tokenBucket" ->
           (PermitsOf(c..d) - Most(Capacity, script[c].permits)) * Interval
               <= wakeAt[d] - wakeAt[c]
      [] kind = "fixedWindow" ->
           wakeAt[c] \div Window = wakeAt[d] \div Window
               => c = d \/ PermitsOf(c..d) <= Limit
      [] OTHER -> c < d => wakeAt[c] + script[c].permits * Interval <= wakeAt[d]

AdmitsWithinRate == \A c, d \in Admitted : c <= d => KeepsRate(c, d)

(***************************************************************************)
(* "Grant times are accurate to the step, rounded up" (bench/run.mjs, line *)
(* 43), also when several callers are let through at one stop, between two *)
(* microseconds, or after a jump over idle time; and a drive that is done  *)
(* has an answer for every caller.                                         *)
(***************************************************************************)
GrantsToTheStep ==
    /\ \A c \in Admitted : grant[c] # NotYet =>
        /\ wakeAt[c] <= grant[c] * Micro
        /\ grant[c] * Micro < wakeAt[c] + StepMicros * Micro
    /\ pc = "done" => \A c \in DOMAIN script : grant[c] # NotYet

(***************************************************************************)
(* A drive comes to an end.  It gives up only when somebody arrives or is  *)
(* due beyond the last step before maxMicros, not because it lost someone  *)
(* (step 4: a caller that never resolves is a bug).                        *)
(***************************************************************************)
TooLate(c) ==
    LET last == (MaxMicros - StepMicros) * Micro
    IN  IF c <= issued THEN grant[c] = NotYet /\ wakeAt[c] > last
                       ELSE script[c].at > last

Finishes ==
    <>(\/ pc = "done"
       \/ pc = "gaveUp" /\ \E c \in DOMAIN script : TooLate(c))

=============================================================================
