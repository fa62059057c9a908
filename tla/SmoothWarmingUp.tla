-------------------------- MODULE SmoothWarmingUp --------------------------
(***************************************************************************)
(* The arithmetic of the warm-up limiter, src/warmup/constants.ts,         *)
(* cost.ts, state.ts and reserve.ts: pure functions of a pot of stored     *)
(* permits, a next free ticket and the time.                               *)
(*                                                                         *)
(* Units.  Times are integers, in ticks.  Stored permits are counted in    *)
(* shares, coolDownInterval shares to a permit, for then one tick of idle  *)
(* time earns exactly one share and a full pot is warmupPeriod shares.     *)
(* The curve is an area, exact in integers; CostOf rounds it down to a     *)
(* tick where the code's doubles keep a fraction.                          *)
(***************************************************************************)
EXTENDS Integers

Least(a, b) == IF a <= b THEN a ELSE b

\* The options whose derived constants are whole numbers.
WholeOptions(o) ==
    LET cold == o.stable * o.coldFactor
        threshold == o.warmup \div (2 * o.stable)
        max == threshold + (2 * o.warmup) \div (o.stable + cold)
    IN  /\ o \in [stable : Int, warmup : Int, coldFactor : Int]
        /\ o.stable > 0 /\ o.warmup > 0 /\ o.coldFactor > 1
        /\ o.warmup % (2 * o.stable) = 0
        /\ (2 * o.warmup) % (o.stable + cold) = 0
        /\ max > threshold
        /\ (cold - o.stable) % (max - threshold) = 0
        /\ o.warmup % max = 0

\* deriveConstants()
DeriveConstants(o) ==
    LET cold == o.stable * o.coldFactor
        threshold == o.warmup \div (2 * o.stable)
        max == threshold + (2 * o.warmup) \div (o.stable + cold)
    IN  [stable    |-> o.stable,
         cold      |-> cold,
         threshold |-> threshold,
         max       |-> max,
         slope     |-> (cold - o.stable) \div (max - threshold),
         coolDown  |-> o.warmup \div max]

Shares(k, n) == n * k.coolDown

FullPot(k) == Shares(k, k.max)

\* permitsToTime(): the height of the curve, in ticks per coolDown permits.
PermitsToTime(k, above) == k.stable * k.coolDown + above * k.slope

\* An area is counted in AreaUnits(k) to a tick.
AreaUnits(k) == 2 * k.coolDown * k.coolDown

-----------------------------------------------------------------------------
(***************************************************************************)
(* Slips, as in WaitQueue.                                                 *)
(***************************************************************************)
\* The flat part is charged for all that is taken.
FlatIsNotReduced(k, stored, take) ==
    LET above == stored - Shares(k, k.threshold)
        takeAbove == IF above > 0 THEN Least(above, take) ELSE 0
    IN  takeAbove * (PermitsToTime(k, above) + PermitsToTime(k, above - takeAbove))
          + take * 2 * k.stable * k.coolDown

\* The pot is not capped.
PotOverflows(k, s, t) ==
    IF t > s.nextFree
    THEN [stored |-> s.stored + (t - s.nextFree), nextFree |-> t]
    ELSE s

\* Idle time fills the pot but the ticket stays in the past.
TicketNotMoved(k, s, t) ==
    IF t > s.nextFree
    THEN [stored |-> Least(FullPot(k), s.stored + (t - s.nextFree)),
          nextFree |-> s.nextFree]
    ELSE s

-----------------------------------------------------------------------------
\* storedPermitsToWaitTime(): the area under the curve of the shares taken,
\* those above the threshold first.
StoredPermitsArea(k, stored, take) ==
    LET above == stored - Shares(k, k.threshold)
        takeAbove == IF above > 0 THEN Least(above, take) ELSE 0
    IN  takeAbove * (PermitsToTime(k, above) + PermitsToTime(k, above - takeAbove))
          + (take - takeAbove) * 2 * k.stable * k.coolDown

\* resync(): idle time becomes stored permits.
Resync(k, s, t) ==
    IF t > s.nextFree
    THEN [stored |-> Least(FullPot(k), s.stored + (t - s.nextFree)),
          nextFree |-> t]
    ELSE s

\* A slip: the cost is taken from the pot as it is after spending.
CostAfterSpending(k, s, n) ==
    LET spend == Least(Shares(k, n), s.stored)
        fresh == Shares(k, n) - spend
    IN  (StoredPermitsArea(k, s.stored - spend, spend) + fresh * 2 * k.stable * k.coolDown)
          \div AreaUnits(k)

\* The area n permits take from a pot of stored shares: those the pot does not
\* hold are fresh, and cost the stable interval.
AreaOf(k, stored, n) ==
    LET spend == Least(Shares(k, n), stored)
        fresh == Shares(k, n) - spend
    IN  StoredPermitsArea(k, stored, spend) + fresh * 2 * k.stable * k.coolDown

\* What reserve() adds to the ticket for n permits, from a pot in state s.
CostOf(k, s, n) == AreaOf(k, s.stored, n) \div AreaUnits(k)

\* reserve(): the state it leaves; the caller is granted the ticket as it was.
Reserve(k, s, n, t) ==
    LET r == Resync(k, s, t)
    IN  [stored |-> r.stored - Least(Shares(k, n), r.stored),
         nextFree |-> r.nextFree + CostOf(k, r, n)]

GrantTime(k, s, t) == Resync(k, s, t).nextFree

\* A new limiter is cold.
ColdState(k) == [stored |-> FullPot(k), nextFree |-> 0]

=============================================================================
