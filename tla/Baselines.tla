------------------------------ MODULE Baselines ------------------------------
(***************************************************************************)
(* The limiters the benchmarks drive: the textbook ones of                 *)
(* bench/lib/baselines.mjs and the package's own, as bench/scenarios.mjs   *)
(* builds them, each a pure function of its state, the permits asked for   *)
(* and the time.  An answer is the state left, and the sleep it asks of    *)
(* the clock or a refusal.                                                 *)
(*                                                                         *)
(* Times are in ticks.  The token bucket counts in shares, Interval to a   *)
(* token, of which a tick earns one.                                       *)
(***************************************************************************)
EXTENDS SmoothWarmingUp

CONSTANTS
    Options,    \* CONFIG; its stable interval is everyone's
    Capacity,   \* of the token bucket, in tokens
    Window,     \* windowMs, in ticks
    Limit,      \* permits in a window
    MaxDelay    \* maxQueueDelayMs of the composed limiter, in ticks

ASSUME BaselinesAssumption ==
    /\ WholeOptions(Options)
    /\ Capacity \in Nat \ {0}
    /\ Window \in Nat \ {0}
    /\ Limit \in Nat \ {0}
    /\ MaxDelay \in Nat

K == DeriveConstants(Options)
Interval == K.stable

Kinds ==
    {"fixedRate", "pacer", "tokenBucket", "fixedWindow", "warmup", "composed"}

Most(a, b) == IF a >= b THEN a ELSE b

Granted(s, wait) == [ok |-> TRUE, state |-> s, wait |-> wait]
Refused(s) == [ok |-> FALSE, state |-> s, wait |-> 0]

\* The limiters as their constructors leave them when the clock says 0.
NewFixedRate == [nextFree |-> 0]
NewTokenBucket == [tokens |-> Capacity * Interval, last |-> 0]
NewFixedWindow == [window |-> -1, used |-> 0]

NewLimiter(kind) ==
    CASE kind \in {"fixedRate", "pacer"} -> NewFixedRate
      [] kind = "tokenBucket" -> NewTokenBucket
      [] kind = "fixedWindow" -> NewFixedWindow
      [] OTHER -> ColdState(K)

-----------------------------------------------------------------------------
(***************************************************************************)
(* A slip, as in WaitQueue: unused tokens pile up.                         *)
(***************************************************************************)
BucketOverflows(s, n, t) ==
    LET left == s.tokens + (t - s.last) - n * Interval
    IN  Granted([tokens |-> left, last |-> t], Most(0, -left))

-----------------------------------------------------------------------------
FixedRate(s, n, t) ==
    LET grant == Most(s.nextFree, t)
    IN  Granted([nextFree |-> grant + n * Interval], grant - t)

\* A negative balance is the reservation.
TokenBucket(s, n, t) ==
    LET left == Least(Capacity * Interval, s.tokens + (t - s.last)) - n * Interval
    IN  Granted([tokens |-> left, last |-> t], Most(0, -left))

\* The loop turns once at most, for an empty window takes anybody.
FixedWindow(s, n, t) ==
    LET current == t \div Window
        here == IF current > s.window THEN [window |-> current, used |-> 0] ELSE s
        full == here.used > 0 /\ here.used + n > Limit
        mine == IF full THEN [window |-> here.window + 1, used |-> 0] ELSE here
    IN  Granted([mine EXCEPT !.used = @ + n], Most(0, mine.window * Window - t))

Warmup(s, n, t) == Granted(Reserve(K, s, n, t), GrantTime(K, s, t) - t)

\* new QueuedLimiter(warmupLimiter, { maxQueueDelayMs }, clock)
Composed(s, n, t) ==
    IF GrantTime(K, s, t) - t > MaxDelay THEN Refused(s) ELSE Warmup(s, n, t)

(***************************************************************************)
(* acquire() of each kind.  The Pacer, its bounds set wide, sells the      *)
(* stretches of FixedRate.  A WaitQueue, here and in Composed, holds a     *)
(* caller as a sleep of its own would: the driver's clock only ever stands *)
(* at whole microseconds, and nobody cancels.                              *)
(***************************************************************************)
AcquireFrom(kind, s, n, t) ==
    CASE kind \in {"fixedRate", "pacer"} -> FixedRate(s, n, t)
      [] kind = "tokenBucket" -> TokenBucket(s, n, t)
      [] kind = "fixedWindow" -> FixedWindow(s, n, t)
      [] kind = "warmup" -> Warmup(s, n, t)
      [] kind = "composed" -> Composed(s, n, t)

=============================================================================
