---------------------------- MODULE WarmupLimiter ----------------------------
(***************************************************************************)
(* The warm-up limiter, src/warmup/smooth-warming-up.ts and                *)
(* warmup-limiter.ts: the arithmetic of SmoothWarmingUp driven by a clock, *)
(* with calls of acquire() and tryAcquire() that wait by sleeping.         *)
(*                                                                         *)
(* Every call sleeps for itself.  The ticket it is granted is counted from *)
(* one reading of the clock and its sleep from a later one.  Tickets, the  *)
(* code's doubles, are kept finer than the clock counts: in units, Grain   *)
(* to a tick.  A sleep is a whole number of ticks.                         *)
(***************************************************************************)
EXTENDS Instants, SmoothWarmingUp, FiniteSets

CONSTANTS
    Calls,        \* the calls made to the limiter
    Cancellable,  \* those that pass an AbortSignal
    Permits,      \* what callers pass as permits, invalid values included
    Timeouts,     \* what callers of tryAcquire() pass as timeoutMs, in units,
                  \* invalid values included; Forever is as good as Infinity
    Options,      \* the limiter's options, times in units
    MaxSafe,      \* Number.MAX_SAFE_INTEGER, in units
    Grain         \* units to a tick of the clock

ASSUME WarmupAssumption ==
    /\ Cancellable \subseteq Calls
    /\ Permits \subseteq Int
    /\ Timeouts \subseteq Int
    /\ WholeOptions(Options)
    /\ MaxSafe \in Nat
    /\ Grain \in Nat \ {0}

\* An instant of the clock, counted in units.
Units(t) == t * Grain

Forever == Units(MaxTime)

K == DeriveConstants(Options)

VARIABLES
    state,     \* storedPermits, in shares, and nextFreeTicketMicros, in units
    outcome,   \* of each call
    wakeAt,    \* when the sleep of each call is due, in ticks
    slot,      \* history: the ticket each call was granted
    permits,   \* history: the permits it was granted for
    deadline,  \* history: the latest ticket each call had agreed to
    taken      \* history: the permits sold so far

histories == <<slot, permits, deadline, taken>>
vars == <<now, state, outcome, wakeAt, histories>>

Outcomes == {"uncalled", "failed", "refused", "sleeping", "through", "gone"}

Init ==
    /\ now = 0
    /\ state = ColdState(K)
    /\ outcome = [c \in Calls |-> "uncalled"]
    /\ wakeAt = [c \in Calls |-> 0]
    /\ slot = [c \in Calls |-> 0]
    /\ permits = [c \in Calls |-> 0]
    /\ deadline = [c \in Calls |-> 0]
    /\ taken = 0

-----------------------------------------------------------------------------
(***************************************************************************)
(* Slips, as in WaitQueue.                                                 *)
(***************************************************************************)
\* The sleep is cut to whole nanoseconds, not rounded up.
CutToNanos(w) == w \div Grain

\* The timeout is compared in whole microseconds.
ComparedInMicros(w, limit) == w \div Units(Micro) <= limit \div Units(Micro)

\* The largest request leaves no room for what the pot costs.
NoHeadroom == MaxSafe \div K.stable

-----------------------------------------------------------------------------
\* The largest request, so that a full pot and the rest cost less than MaxSafe.
MaxPermitsPerCall ==
    LET most == (2 * MaxSafe - 3 * Options.warmup) \div (2 * K.stable)
    IN  IF most >= 1 THEN most ELSE 1

\* checkPermit() lets n pass.
Allowed(n) == n >= 1 /\ n <= MaxPermitsPerCall

\* nowMicros()
MicrosAt(t) == Units(NowMicros(t))

\* peekWaitMicros(): the wait of a call that would reserve at t.
PeekWait(t) == GrantTime(K, state, t) - t

Fits(wait, limit) == wait <= limit

\* Math.ceil(waitMicros * 1000): a tick is a nanosecond.
SleepTime(wait) == (wait + Grain - 1) \div Grain

\* An aborted signal, a bad permits or a bad timeoutMs.
Fail(c) ==
    /\ outcome[c] = "uncalled"
    /\ \/ c \in Cancellable
       \/ \E n \in Permits : ~ Allowed(n)
       \/ \E limit \in Timeouts : limit < 0
    /\ outcome' = [outcome EXCEPT ![c] = "failed"]
    /\ UNCHANGED <<now, state, wakeAt, histories>>

(***************************************************************************)
(* acquire() for n permits up to its await: the machine reads t, the clock *)
(* that sleeps reads s.  A sleep of no time is over at once.  The guard on *)
(* wakeAt is the model's: only sleeps that end before the modelled clock.  *)
(***************************************************************************)
Start(c, n, t, s) ==
    /\ Allowed(n)
    /\ LET grant == GrantTime(K, state, t)
           sleep == SleepTime(grant - t)
       IN  /\ slot' = [slot EXCEPT ![c] = grant]
           /\ wakeAt' = [wakeAt EXCEPT ![c] = s + sleep]
           /\ s + sleep <= MaxTime
           /\ outcome' = [outcome EXCEPT
                            ![c] = IF sleep <= 0 THEN "through" ELSE "sleeping"]
    /\ state' = Reserve(K, state, n, t)
    /\ permits' = [permits EXCEPT ![c] = n]
    /\ taken' = taken + n
    /\ now' = s

Acquire(c) ==
    \E n \in Permits, r \in Reads(2) :
        /\ outcome[c] = "uncalled"
        /\ Start(c, n, MicrosAt(r[1]), r[2])
        /\ deadline' = [deadline EXCEPT ![c] = Forever]

\* tryAcquire() peeks, and if the wait fits it calls acquire(), which reads
\* the clock again.
TryAcquire(c) ==
    \E n \in Permits, limit \in Timeouts, r \in Reads(3) :
        /\ outcome[c] = "uncalled"
        /\ limit >= 0
        /\ Fits(PeekWait(MicrosAt(r[1])), limit)
        /\ Start(c, n, MicrosAt(r[2]), r[3])
        /\ deadline' = [deadline EXCEPT ![c] = MicrosAt(r[1]) + limit]

TryRefuse(c) ==
    \E n \in Permits, limit \in Timeouts, r \in Reads(1) :
        /\ outcome[c] = "uncalled"
        /\ Allowed(n)
        /\ limit >= 0
        /\ ~ Fits(PeekWait(MicrosAt(r[1])), limit)
        /\ outcome' = [outcome EXCEPT ![c] = "refused"]
        /\ now' = r[1]
        /\ UNCHANGED <<state, wakeAt, histories>>

\* The sleep of a call is over: the call returns.
Wake(c) ==
    /\ outcome[c] = "sleeping"
    /\ wakeAt[c] <= now
    /\ outcome' = [outcome EXCEPT ![c] = "through"]
    /\ UNCHANGED <<now, state, wakeAt, histories>>

\* The signal of a sleeping call fires: it forfeits what it reserved.
Abort(c) ==
    /\ c \in Cancellable
    /\ outcome[c] = "sleeping"
    /\ outcome' = [outcome EXCEPT ![c] = "gone"]
    /\ UNCHANGED <<now, state, wakeAt, histories>>

Tick ==
    /\ TimePasses
    /\ UNCHANGED <<state, outcome, wakeAt, histories>>

\* The modelled clock has stopped and nobody is asleep.
Rest ==
    /\ now = MaxTime
    /\ \A c \in Calls : outcome[c] # "sleeping"
    /\ UNCHANGED vars

Next ==
    \/ \E c \in Calls :
        \/ Fail(c)
        \/ Acquire(c)
        \/ TryAcquire(c)
        \/ TryRefuse(c)
        \/ Wake(c)
        \/ Abort(c)
    \/ Tick
    \/ Rest

Spec == Init /\ [][Next]_vars

-----------------------------------------------------------------------------
TypeOK ==
    /\ now \in 0..MaxTime
    /\ state.stored \in 0..FullPot(K)
    /\ state.nextFree \in Nat
    /\ outcome \in [Calls -> Outcomes]
    /\ wakeAt \in [Calls -> 0..MaxTime]
    /\ slot \in [Calls -> Nat]
    /\ permits \in [Calls -> Nat]
    /\ deadline \in [Calls -> Nat]
    /\ taken \in Nat

Admitted == {c \in Calls : outcome[c] \in {"sleeping", "through", "gone"}}

(***************************************************************************)
(* The warm-up cannot be beaten: however the calls are spread out, grouped *)
(* or cancelled, and however long the limiter idles between them, selling  *)
(* so many permits takes no less of the timeline than taking them in one   *)
(* go from the full pot of a cold start.  Each call may round its price    *)
(* down by less than a unit.                                               *)
(***************************************************************************)
NoFasterThanCold ==
    AreaOf(K, FullPot(K), taken)
      <= AreaUnits(K) * (state.nextFree + Cardinality(Admitted))

(***************************************************************************)
(* What the pot charges is the area under the curve that cost.ts, lines    *)
(* 8-10, speaks of: a share costs the mean of the heights at its two ends, *)
(* the dearest first, and a purchase costs what its parts would in turn,   *)
(* across the threshold as on either side of it.                           *)
(***************************************************************************)
Height(x) ==
    LET above == x - Shares(K, K.threshold)
    IN  PermitsToTime(K, IF above > 0 THEN above ELSE 0)

AreaIsIntegral ==
    LET pot == state.stored
    IN  /\ \A x \in 1..pot : StoredPermitsArea(K, x, 1) = Height(x) + Height(x - 1)
        /\ \A a \in 0..pot : \A b \in 0..(pot - a) :
              StoredPermitsArea(K, pot, a + b) =
                  StoredPermitsArea(K, pot, a) + StoredPermitsArea(K, pot - a, b)

(***************************************************************************)
(* The cost of one call is exact, from whatever pot it is taken: the       *)
(* headroom of one and a half warm-up periods, what a full pot costs, is   *)
(* enough (smooth-warming-up.ts, lines 35-40).  One permit is let through  *)
(* at any rate.                                                            *)
(***************************************************************************)
OneCallIsExact ==
    /\ 2 * StoredPermitsArea(K, FullPot(K), FullPot(K)) = 3 * Options.warmup * AreaUnits(K)
    /\ \A n \in 2..MaxPermitsPerCall : CostOf(K, state, n) <= MaxSafe

(***************************************************************************)
(* Nobody sleeps for a ticket beyond its timeout, although tryAcquire()    *)
(* takes the decision on an earlier reading of the clock than the one it   *)
(* reserves on.                                                            *)
(***************************************************************************)
SlotBeforeDeadline ==
    \A c \in Calls : outcome[c] \in {"sleeping", "gone"} => slot[c] <= deadline[c]

(***************************************************************************)
(* A call returns no earlier than its ticket, though the ticket may fall   *)
(* between two nanoseconds.  By the sleep's account it is late by no more  *)
(* than the clock moves in acquire() and less than a microsecond, which is *)
(* what truncating the clock and rounding up the sleep come to.            *)
(***************************************************************************)
WakesAtSlot ==
    \A c \in Admitted :
        /\ slot[c] <= Units(wakeAt[c])
        /\ Units(wakeAt[c]) < slot[c] + Units(MaxGap + Micro)

(***************************************************************************)
(* The limiter keeps the promise of Admission.  A permit costs at least    *)
(* the stable interval: the curve is never below it.                       *)
(***************************************************************************)
Phase ==
    [c \in Calls |->
        CASE outcome[c] = "sleeping" -> "waiting"
          [] outcome[c] \in {"through", "gone"} -> outcome[c]
          [] OTHER -> "outside"]

Timeline == INSTANCE Admission WITH
    now <- Units(now), MaxTime <- Forever,
    sold <- state.nextFree, phase <- Phase,
    Price <- K.stable, Lag <- Units(Micro - 1), Early <- 0

ImplementsAdmission == Timeline!Spec

=============================================================================
