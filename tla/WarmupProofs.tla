---------------------------- MODULE WarmupProofs ----------------------------
(***************************************************************************)
(* Proofs about WarmupLimiter, for all options, every set of calls, every  *)
(* MaxSafe, every grain of the clock and every grain of its tickets.       *)
(***************************************************************************)
EXTENDS WarmupLimiter, ArithmeticProofs, FiniteSetTheorems

(***************************************************************************)
(* The strengthening: what has left the pot is no more than what has been  *)
(* sold.                                                                   *)
(***************************************************************************)
PotHoldsTheRest == FullPot(K) <= state.stored + Shares(K, taken)

WarmupInv ==
    /\ TypeOK
    /\ IsFiniteSet(Admitted)
    /\ PotHoldsTheRest
    /\ NoFasterThanCold
    /\ SlotBeforeDeadline
    /\ WakesAtSlot

-----------------------------------------------------------------------------
(***************************************************************************)
(* The constants of the limiter.                                           *)
(***************************************************************************)
LEMMA LimiterCurve ==
    /\ IsCurve(K) /\ K.stable \in Nat \ {0}
    /\ FullPot(K) \in Nat /\ FullPot(K) = Options.warmup /\ Options.warmup \in Nat
<1>1. WholeOptions(Options)
  BY WarmupAssumption
<1>2. IsCurve(K) /\ FullPot(K) = Options.warmup /\ Options.warmup \in Nat
  BY <1>1, DerivedIsCurve DEF K
<1> QED
  BY <1>2 DEF IsCurve

(***************************************************************************)
(* MaxPermitsPerCall leaves room for what a full pot costs.                *)
(***************************************************************************)
LEMMA LargestFits ==
    ASSUME NEW n \in 2..MaxPermitsPerCall
    PROVE  n \in Nat /\ n * (2 * K.stable) <= 2 * MaxSafe - 3 * Options.warmup
<1> DEFINE room == 2 * MaxSafe - 3 * Options.warmup
           most == room \div (2 * K.stable)
           b == 2 * K.stable
<1>1. room \in Int /\ b \in Nat \ {0}
  BY LimiterCurve, WarmupAssumption
<1>2. most = room \div b
  OBVIOUS
<1> HIDE DEF room, b
<1>3. most \in Int /\ b * most <= room
  BY <1>1, <1>2, SMTT(30)
<1>4. MaxPermitsPerCall = IF most >= 1 THEN most ELSE 1
  BY DEF MaxPermitsPerCall, room, b
<1> HIDE DEF most
<1>5. n \in Nat /\ most \in Nat /\ n <= most
  BY <1>3, <1>4
<1>6. n * b <= most * b
  BY <1>1, <1>5, ProductAscends
<1>7. n * b \in Nat /\ most * b \in Nat /\ most * b = b * most
  BY <1>1, <1>5, ProductIsNat, SMTT(30)
<1> QED
  BY <1>1, <1>3, <1>5, <1>6, <1>7 DEF room, b

-----------------------------------------------------------------------------
(***************************************************************************)
(* Counting the clock in units.                                            *)
(***************************************************************************)
LEMMA UnitsIsNat == ASSUME NEW a \in Nat PROVE Units(a) \in Nat
<1>1. Grain \in Nat
  BY WarmupAssumption
<1> QED
  BY <1>1, ProductIsNat DEF Units

LEMMA UnitsAdd ==
    ASSUME NEW a \in Nat, NEW b \in Nat
    PROVE  Units(a + b) = Units(a) + Units(b)
<1>1. Grain \in Nat
  BY WarmupAssumption
<1>2. (a + b) * Grain = a * Grain + b * Grain
  BY <1>1, SMTT(30)
<1> QED
  BY <1>2 DEF Units

LEMMA UnitsAscend ==
    ASSUME NEW a \in Nat, NEW b \in Nat, a <= b
    PROVE  Units(a) <= Units(b)
<1>1. Grain \in Nat
  BY WarmupAssumption
<1> QED
  BY <1>1, ProductAscends DEF Units

(***************************************************************************)
(* The machine's reading of the clock is no later than the clock, and less *)
(* than a microsecond behind it.                                           *)
(***************************************************************************)
LEMMA MicrosAtBounds ==
    ASSUME NEW r \in Nat
    PROVE  /\ MicrosAt(r) \in Nat /\ MicrosAt(r) <= Units(r)
           /\ Units(Micro - 1) \in Nat /\ Units(r) <= MicrosAt(r) + Units(Micro - 1)
<1> DEFINE m == NowMicros(r)
<1>1. m \in Nat /\ m <= r /\ r < m + Micro
  BY NowMicrosBounds
<1>2. Micro \in Nat /\ Micro - 1 \in Nat
  BY InstantsAssumption
<1> HIDE DEF m
<1>3. m + (Micro - 1) \in Nat /\ r <= m + (Micro - 1)
  BY <1>1, <1>2
<1>4. /\ Units(m) \in Nat /\ Units(m) <= Units(r) /\ Units(Micro - 1) \in Nat
      /\ Units(m + (Micro - 1)) = Units(m) + Units(Micro - 1)
      /\ Units(r) <= Units(m + (Micro - 1))
  BY <1>1, <1>2, <1>3, UnitsIsNat, UnitsAdd, UnitsAscend
<1> QED
  BY <1>4 DEF MicrosAt, m

(***************************************************************************)
(* A sleep covers its wait, and exceeds it by less than a tick.            *)
(***************************************************************************)
LEMMA SleepCovers ==
    ASSUME NEW wait \in Nat
    PROVE  /\ SleepTime(wait) \in Nat
           /\ wait <= Units(SleepTime(wait)) /\ Units(SleepTime(wait)) < wait + Grain
           /\ SleepTime(wait) <= 0 <=> wait <= 0
<1> DEFINE sleep == SleepTime(wait)
<1>1. Grain \in Nat \ {0}
  BY WarmupAssumption
<1>2. sleep = (wait + Grain - 1) \div Grain
  BY DEF SleepTime
<1> HIDE DEF sleep
<1>3. /\ sleep \in Nat /\ sleep * Grain <= wait + Grain - 1
      /\ wait + Grain - 1 < sleep * Grain + Grain
  BY <1>1, <1>2, SMTT(30)
<1>4. sleep * Grain \in Nat
  BY <1>1, <1>3, ProductIsNat
<1>5. wait <= sleep * Grain /\ sleep * Grain < wait + Grain
  BY <1>1, <1>3, <1>4
<1>6. sleep = 0 => wait = 0
  BY <1>1, <1>5
<1>7. wait = 0 => sleep = 0
  <2> SUFFICES ASSUME wait = 0, 1 <= sleep PROVE FALSE
    BY <1>3
  <2>1. 1 * Grain <= sleep * Grain
    BY <1>1, <1>3, ProductAscends
  <2> QED
    BY <1>1, <1>4, <1>5, <2>1
<1> QED
  BY <1>3, <1>5, <1>6, <1>7 DEF Units, sleep

-----------------------------------------------------------------------------
(***************************************************************************)
(* A step that sells nothing and leaves no call freshly asleep preserves   *)
(* the invariant.                                                          *)
(***************************************************************************)
LEMMA QuietInv ==
    ASSUME WarmupInv, now' \in 0..MaxTime, UNCHANGED <<state, wakeAt, histories>>,
           outcome' \in [Calls -> Outcomes], Admitted' = Admitted,
           \A c \in Calls : outcome'[c] \in {"sleeping", "gone"} =>
               outcome[c] \in {"sleeping", "gone"}
    PROVE  WarmupInv'
<1>1. TypeOK'
  BY DEF WarmupInv, TypeOK, histories
<1>2. IsFiniteSet(Admitted)' /\ PotHoldsTheRest' /\ NoFasterThanCold' /\ WakesAtSlot'
  BY DEF WarmupInv, PotHoldsTheRest, NoFasterThanCold, WakesAtSlot, histories
<1>3. SlotBeforeDeadline'
  BY DEF WarmupInv, SlotBeforeDeadline, histories
<1> QED
  BY <1>1, <1>2, <1>3 DEF WarmupInv

(***************************************************************************)
(* One call changes its outcome: who else is admitted stays as it was.     *)
(***************************************************************************)
LEMMA OneOutcome ==
    ASSUME TypeOK, NEW c \in Calls, NEW o \in Outcomes,
           outcome' = [outcome EXCEPT ![c] = o]
    PROVE  /\ outcome' \in [Calls -> Outcomes] /\ outcome'[c] = o
           /\ \A d \in Calls \ {c} : outcome'[d] = outcome[d]
           /\ (outcome[c] \in {"uncalled"} /\ o \in {"failed", "refused"}) => Admitted' = Admitted
           /\ (outcome[c] \in {"sleeping"} /\ o \in {"through", "gone"}) => Admitted' = Admitted
           /\ (outcome[c] = "uncalled" /\ o \in {"sleeping", "through"}) =>
                 Admitted' = Admitted \cup {c} /\ c \notin Admitted
BY DEF TypeOK, Outcomes, Admitted

(***************************************************************************)
(* What acquire() does from a reading r of the machine's clock to a        *)
(* reading s of the clock that sleeps.                                     *)
(***************************************************************************)
LEMMA StartFacts ==
    ASSUME TypeOK, NEW c \in Calls, NEW n \in Permits,
           NEW r \in Nat, NEW s \in Nat, r <= s, s <= r + MaxGap,
           Start(c, n, MicrosAt(r), s)
    PROVE  LET t == MicrosAt(r)
               grant == GrantTime(K, state, t)
               before == Resync(K, state, t)
               wake == s + SleepTime(grant - t)
           IN  /\ n \in Nat /\ n >= 1
               /\ state' = Reserve(K, state, n, t) /\ taken' = taken + n /\ now' = s
               /\ t \in Nat /\ t <= Units(r) /\ Units(r) <= t + Units(Micro - 1)
               /\ grant \in Nat /\ t <= grant /\ state.nextFree <= grant
               /\ state.nextFree <= t => grant = t
               /\ t < state.nextFree => grant = state.nextFree
               /\ slot' = [slot EXCEPT ![c] = grant]
               /\ permits' = [permits EXCEPT ![c] = n]
               /\ wakeAt' = [wakeAt EXCEPT ![c] = wake]
               /\ wake \in 0..MaxTime
               /\ grant <= Units(wake)
               /\ Units(wake) < grant + Units(MaxGap + Micro)
               /\ outcome' = [outcome EXCEPT
                                ![c] = IF grant <= t THEN "through" ELSE "sleeping"]
               /\ before.stored \in 0..FullPot(K)
               /\ state.stored <= before.stored
               /\ before.nextFree = grant
<1> DEFINE t == MicrosAt(r)
           grant == GrantTime(K, state, t)
           before == Resync(K, state, t)
           sleep == SleepTime(grant - t)
           wake == s + sleep
<1>1. n \in Nat /\ n >= 1
  BY WarmupAssumption DEF Start, Allowed
<1>2. /\ state' = Reserve(K, state, n, t) /\ taken' = taken + n /\ now' = s
      /\ slot' = [slot EXCEPT ![c] = grant]
      /\ permits' = [permits EXCEPT ![c] = n]
      /\ wakeAt' = [wakeAt EXCEPT ![c] = wake]
      /\ wake <= MaxTime
      /\ outcome' = [outcome EXCEPT
                       ![c] = IF sleep <= 0 THEN "through" ELSE "sleeping"]
  BY DEF Start
<1>3. t \in Nat /\ t <= Units(r) /\ Units(r) <= t + Units(Micro - 1)
  BY MicrosAtBounds
<1> HIDE DEF t
<1>4. /\ before.stored \in 0..FullPot(K) /\ state.stored <= before.stored
      /\ grant \in Nat /\ before.nextFree = grant
      /\ t <= grant /\ state.nextFree <= grant
      /\ state.nextFree <= t => grant = t
      /\ t < state.nextFree => grant = state.nextFree
  <2>1. FullPot(K) \in Nat /\ state.stored \in 0..FullPot(K) /\ state.nextFree \in Nat
    BY LimiterCurve DEF TypeOK
  <2> QED
    BY <1>3, <2>1, ResyncFills
<1> HIDE DEF grant, before
<1>5. /\ sleep \in Nat
      /\ sleep <= 0 <=> grant <= t
      /\ grant - t <= Units(sleep) /\ Units(sleep) < (grant - t) + Grain
  <2> DEFINE wait == grant - t
  <2>1. wait \in Nat /\ (wait <= 0 <=> grant <= t)
    BY <1>3, <1>4
  <2> HIDE DEF wait
  <2>2. /\ SleepTime(wait) \in Nat
        /\ SleepTime(wait) <= 0 <=> wait <= 0
        /\ wait <= Units(SleepTime(wait)) /\ Units(SleepTime(wait)) < wait + Grain
    BY <2>1, SleepCovers
  <2> QED
    BY <2>1, <2>2 DEF wait
<1> HIDE DEF sleep
<1>6. wake \in 0..MaxTime /\ Units(wake) = Units(s) + Units(sleep)
  <2>1. Units(s + sleep) = Units(s) + Units(sleep)
    BY <1>5, UnitsAdd
  <2> QED
    BY <1>2, <1>5, <2>1, InstantsAssumption
<1>7. /\ Units(r) \in Nat /\ Units(s) \in Nat /\ Units(sleep) \in Nat
      /\ Units(MaxGap) \in Nat /\ Units(Micro - 1) \in Nat
      /\ Units(r) <= Units(s) /\ Units(s) <= Units(r) + Units(MaxGap)
      /\ Units(MaxGap + Micro) = Units(MaxGap) + Units(Micro - 1) + Grain
  <2>1. MaxGap \in Nat /\ Micro - 1 \in Nat /\ Micro \in Nat /\ r + MaxGap \in Nat
        /\ Micro = (Micro - 1) + 1
    BY InstantsAssumption
  <2>2. /\ Units(r) \in Nat /\ Units(s) \in Nat /\ Units(sleep) \in Nat
        /\ Units(MaxGap) \in Nat /\ Units(Micro - 1) \in Nat
        /\ Units(r) <= Units(s) /\ Units(s) <= Units(r + MaxGap)
        /\ Units(r + MaxGap) = Units(r) + Units(MaxGap)
        /\ Units(MaxGap + Micro) = Units(MaxGap) + Units(Micro)
        /\ Units((Micro - 1) + 1) = Units(Micro - 1) + Units(1)
    <3>1. /\ Units(r) \in Nat /\ Units(s) \in Nat /\ Units(sleep) \in Nat
          /\ Units(MaxGap) \in Nat /\ Units(Micro - 1) \in Nat
      BY <1>5, <2>1, UnitsIsNat
    <3>2. Units(r) <= Units(s) /\ Units(s) <= Units(r + MaxGap)
      BY <2>1, UnitsAscend
    <3>3. /\ Units(r + MaxGap) = Units(r) + Units(MaxGap)
          /\ Units(MaxGap + Micro) = Units(MaxGap) + Units(Micro)
          /\ Units((Micro - 1) + 1) = Units(Micro - 1) + Units(1)
      BY <2>1, UnitsAdd, 1 \in Nat
    <3> QED
      BY <3>1, <3>2, <3>3
  <2>3. Units(1) = Grain /\ Grain \in Nat
    BY WarmupAssumption DEF Units
  <2>4. Units((Micro - 1) + 1) = Units(Micro)
    BY <2>1
  <2> QED
    BY <2>2, <2>3, <2>4
<1>8. grant <= Units(wake) /\ Units(wake) < grant + Units(MaxGap + Micro)
  <2>1. Grain \in Nat
    BY WarmupAssumption
  <2> HIDE DEF wake
  <2> QED
    BY <1>3, <1>4, <1>5, <1>6, <1>7, <2>1
<1> HIDE DEF wake
<1>9. outcome' = [outcome EXCEPT ![c] = IF grant <= t THEN "through" ELSE "sleeping"]
  BY <1>2, <1>5
<1>10. /\ n \in Nat /\ n >= 1
       /\ state' = Reserve(K, state, n, t) /\ taken' = taken + n /\ now' = s
       /\ t \in Nat /\ t <= Units(r) /\ Units(r) <= t + Units(Micro - 1)
       /\ grant \in Nat /\ t <= grant /\ state.nextFree <= grant
       /\ state.nextFree <= t => grant = t
       /\ t < state.nextFree => grant = state.nextFree
       /\ slot' = [slot EXCEPT ![c] = grant]
       /\ permits' = [permits EXCEPT ![c] = n]
       /\ wakeAt' = [wakeAt EXCEPT ![c] = wake]
       /\ wake \in 0..MaxTime
       /\ grant <= Units(wake)
       /\ Units(wake) < grant + Units(MaxGap + Micro)
       /\ before.stored \in 0..FullPot(K)
       /\ state.stored <= before.stored
       /\ before.nextFree = grant
  BY <1>1, <1>2, <1>3, <1>4, <1>6, <1>8
<1> QED
  BY <1>9, <1>10, Zenon DEF t, grant, before, sleep, wake

(***************************************************************************)
(* Selling n permits keeps the price of all that was sold.                 *)
(***************************************************************************)
LEMMA SaleKeepsPrice ==
    ASSUME WarmupInv, NEW t \in Nat, NEW n \in Nat, NEW c, c \notin Admitted,
           state' = Reserve(K, state, n, t), taken' = taken + n,
           Admitted' = Admitted \cup {c}
    PROVE  /\ state'.stored \in 0..FullPot(K) /\ state'.nextFree \in Nat
           /\ PotHoldsTheRest' /\ NoFasterThanCold' /\ IsFiniteSet(Admitted)'
<1> DEFINE r == Resync(K, state, t)
           cost == CostOf(K, r, n)
           full == FullPot(K)
           unit == AreaUnits(K)
           sold == AreaOf(K, full, taken)
           cards == Cardinality(Admitted)
<1>1. /\ IsCurve(K) /\ full \in Nat /\ taken \in Nat
      /\ state.stored \in 0..full /\ state.nextFree \in Nat
  BY LimiterCurve DEF WarmupInv, TypeOK
<1>2. /\ r.stored \in 0..full /\ state.stored <= r.stored
      /\ r.nextFree \in Nat /\ state.nextFree <= r.nextFree
  BY <1>1, ResyncFills
<1>3. /\ state'.stored \in 0..full /\ Shares(K, n) \in Nat
      /\ r.stored <= state'.stored + Shares(K, n)
      /\ cost \in Nat /\ state'.nextFree = r.nextFree + cost
      /\ state'.nextFree \in Nat
  <2>1. r = Resync(K, state, t)
    OBVIOUS
  <2>2. state'.nextFree = r.nextFree + cost
    BY DEF Reserve
  <2> HIDE DEF r
  <2>3. state'.stored \in 0..full
    BY <1>1, <2>1, ReservationSells
  <2>4. Shares(K, n) \in Nat
    BY <1>1, <2>1, ReservationSells
  <2>5. r.stored <= state'.stored + Shares(K, n)
    BY <1>1, <2>1, ReservationSells
  <2>6. cost \in Nat
    BY <1>1, <2>1, ReservationSells
  <2>7. state'.nextFree \in Nat
    BY <1>1, <2>1, ReservationSells
  <2> QED
    BY <2>2, <2>3, <2>4, <2>5, <2>6, <2>7
<1> HIDE DEF r
<1>4. Shares(K, taken) \in Nat /\ Shares(K, taken + n) = Shares(K, taken) + Shares(K, n)
  <2>1. K.coolDown \in Nat
    BY <1>1 DEF IsCurve
  <2> QED
    BY <1>1, <2>1, SMTT(30) DEF Shares
<1>5. full <= r.stored + Shares(K, taken)
  BY <1>1, <1>2, <1>4 DEF WarmupInv, PotHoldsTheRest
<1>6. PotHoldsTheRest'
  <2>1. full <= state'.stored + Shares(K, taken + n)
    BY <1>1, <1>2, <1>3, <1>4, <1>5
  <2> QED
    BY <2>1 DEF PotHoldsTheRest
<1>7. IsFiniteSet(Admitted') /\ cards \in Nat /\ Cardinality(Admitted') = cards + 1
  BY FS_AddElement, FS_CardinalityType DEF WarmupInv
<1>8. AreaOf(K, full, taken + n) <= sold + AreaOf(K, r.stored, n)
  BY <1>1, <1>2, <1>5, NextCostsLess
<1>9. /\ AreaOf(K, r.stored, n) \in Nat
      /\ AreaOf(K, r.stored, n) <= unit * (cost + 1)
      /\ unit \in Nat \ {0}
  BY <1>1, <1>2, CostBounds
<1>10. sold \in Nat /\ AreaOf(K, full, taken + n) \in Nat
  <2>1. taken + n \in Nat /\ [stored |-> full].stored \in Nat
    BY <1>1
  <2>2. /\ AreaOf(K, [stored |-> full].stored, taken) \in Nat
        /\ AreaOf(K, [stored |-> full].stored, taken + n) \in Nat
    BY <1>1, <2>1, CostBounds
  <2> QED
    BY <2>2
<1>11. sold <= unit * (state.nextFree + cards)
  BY DEF WarmupInv, NoFasterThanCold
<1>12. unit * (state.nextFree + cards) + unit * (cost + 1)
         = unit * (state.nextFree + cards + cost + 1)
  BY <1>1, <1>3, <1>7, <1>9, SMTT(30)
<1>13. unit * (state.nextFree + cards + cost + 1) <= unit * (state'.nextFree + (cards + 1))
  <2> DEFINE a == state.nextFree + cards + cost + 1
             b == state'.nextFree + (cards + 1)
  <2>1. a \in Nat /\ b \in Nat /\ a <= b
    BY <1>1, <1>2, <1>3, <1>7
  <2> HIDE DEF a, b
  <2>2. unit * a <= unit * b
    BY <1>9, <2>1, ProductAscends
  <2> QED
    BY <2>2 DEF a, b
<1>14. /\ unit * (state.nextFree + cards) \in Nat /\ unit * (cost + 1) \in Nat
       /\ unit * (state'.nextFree + (cards + 1)) \in Nat
  <2>1. state.nextFree + cards \in Nat /\ cost + 1 \in Nat /\ state'.nextFree + (cards + 1) \in Nat
    BY <1>1, <1>3, <1>7
  <2> QED
    BY <1>9, <2>1, ProductIsNat
<1> HIDE DEF cost, unit, sold, cards, full
<1>15. AreaOf(K, full, taken + n) <= unit * (state'.nextFree + (cards + 1))
  BY <1>8, <1>9, <1>10, <1>11, <1>12, <1>13, <1>14
<1>16. NoFasterThanCold'
  BY <1>7, <1>15 DEF NoFasterThanCold, full, unit
<1> QED
  BY <1>3, <1>6, <1>7, <1>16 DEF full

(***************************************************************************)
(* An admitted call keeps the invariant, and is a step of the timeline.    *)
(***************************************************************************)
LEMMA StartInv ==
    ASSUME WarmupInv, NEW c \in Calls, outcome[c] = "uncalled", NEW n \in Permits,
           NEW r \in Nat, NEW s \in Nat, now <= r, r <= s, s <= r + MaxGap, s <= MaxTime,
           Start(c, n, MicrosAt(r), s),
           deadline' \in [Calls -> Nat],
           \A d \in Calls \ {c} : deadline'[d] = deadline[d],
           MicrosAt(r) < state.nextFree => state.nextFree <= deadline'[c]
    PROVE  WarmupInv' /\ Timeline!Admit(c)
<1> DEFINE t == MicrosAt(r)
           grant == GrantTime(K, state, t)
           wake == s + SleepTime(grant - t)
           fate == IF grant <= t THEN "through" ELSE "sleeping"
<1>1. TypeOK /\ now \in Nat /\ state.nextFree \in Nat /\ taken \in Nat
  BY DEF WarmupInv, TypeOK
<1>2. /\ n \in Nat /\ n >= 1
      /\ state' = Reserve(K, state, n, t) /\ taken' = taken + n /\ now' = s
      /\ t \in Nat /\ t <= Units(r) /\ Units(r) <= t + Units(Micro - 1)
      /\ grant \in Nat /\ t <= grant /\ state.nextFree <= grant
      /\ state.nextFree <= t => grant = t
      /\ t < state.nextFree => grant = state.nextFree
      /\ slot' = [slot EXCEPT ![c] = grant]
      /\ permits' = [permits EXCEPT ![c] = n]
      /\ wakeAt' = [wakeAt EXCEPT ![c] = wake]
      /\ wake \in 0..MaxTime /\ grant <= Units(wake)
      /\ Units(wake) < grant + Units(MaxGap + Micro)
      /\ outcome' = [outcome EXCEPT ![c] = fate]
  BY <1>1, StartFacts
<1>3. state'.nextFree >= grant + n * K.stable
  <2> DEFINE before == Resync(K, state, t)
  <2>1. /\ IsCurve(K) /\ FullPot(K) \in Nat
        /\ state.stored \in 0..FullPot(K) /\ state.nextFree \in Nat
    BY <1>1, LimiterCurve DEF TypeOK
  <2>2. before.nextFree = grant
    BY <1>1, StartFacts
  <2>3. before = Resync(K, state, t)
    OBVIOUS
  <2> HIDE DEF before, t, grant
  <2>4. before.nextFree + n * K.stable <= state'.nextFree
    BY <1>2, <2>1, <2>3, ReservationSells
  <2>5. state'.nextFree \in Nat
    BY <1>2, <2>1, <2>3, ReservationSells
  <2>6. n * K.stable \in Nat
    BY <1>2, LimiterCurve, ProductIsNat
  <2> QED
    BY <1>2, <2>2, <2>4, <2>5, <2>6
<1>4. MicrosAt(r) < state.nextFree => state.nextFree <= deadline'[c]
  OBVIOUS
<1> HIDE DEF grant, wake
<1>5. fate \in Outcomes /\ fate \in {"sleeping", "through"}
  BY DEF Outcomes
<1>6. /\ outcome' \in [Calls -> Outcomes] /\ outcome'[c] = fate
      /\ \A d \in Calls \ {c} : outcome'[d] = outcome[d]
      /\ Admitted' = Admitted \cup {c} /\ c \notin Admitted
  <2> HIDE DEF fate
  <2> QED
    BY <1>1, <1>2, <1>5, OneOutcome
<1>7. /\ state'.stored \in 0..FullPot(K) /\ state'.nextFree \in Nat
      /\ PotHoldsTheRest' /\ NoFasterThanCold' /\ IsFiniteSet(Admitted)'
  BY <1>2, <1>6, SaleKeepsPrice
<1>8. /\ slot' \in [Calls -> Nat] /\ permits' \in [Calls -> Nat]
      /\ wakeAt' \in [Calls -> 0..MaxTime]
      /\ slot'[c] = grant /\ permits'[c] = n /\ wakeAt'[c] = wake
      /\ \A d \in Calls \ {c} :
            slot'[d] = slot[d] /\ permits'[d] = permits[d] /\ wakeAt'[d] = wakeAt[d]
  BY <1>1, <1>2 DEF TypeOK
<1>9. TypeOK'
  <2>1. now' \in 0..MaxTime /\ taken' \in Nat
    BY <1>1, <1>2
  <2> QED
    BY <1>6, <1>7, <1>8, <2>1 DEF TypeOK
<1>10. SlotBeforeDeadline'
  <2> SUFFICES ASSUME NEW d \in Calls, outcome'[d] \in {"sleeping", "gone"}
               PROVE  slot'[d] <= deadline'[d]
    BY DEF SlotBeforeDeadline
  <2>1. CASE d = c
    <3>1. t < grant
      BY <1>2, <1>6, <2>1
    <3>2. t < state.nextFree /\ grant = state.nextFree
      BY <1>1, <1>2, <3>1
    <3> QED
      BY <1>4, <1>8, <2>1, <3>2
  <2>2. CASE d # c
    <3>1. slot[d] <= deadline[d]
      BY <1>6, <2>2 DEF WarmupInv, SlotBeforeDeadline
    <3> QED
      BY <1>8, <2>2, <3>1
  <2> QED
    BY <2>1, <2>2
<1>11. WakesAtSlot'
  <2> SUFFICES ASSUME NEW d \in Admitted'
               PROVE  /\ slot'[d] <= Units(wakeAt'[d])
                      /\ Units(wakeAt'[d]) < slot'[d] + Units(MaxGap + Micro)
    BY DEF WakesAtSlot, Units
  <2>1. CASE d = c
    BY <1>2, <1>8, <2>1
  <2>2. CASE d # c
    <3>1. d \in Admitted /\ d \in Calls
      BY <1>6, <2>2 DEF Admitted
    <3>2. /\ slot[d] <= Units(wakeAt[d])
          /\ Units(wakeAt[d]) < slot[d] + Units(MaxGap + Micro)
      BY <3>1 DEF WarmupInv, WakesAtSlot
    <3> QED
      BY <1>8, <2>2, <3>1, <3>2
  <2> QED
    BY <2>1, <2>2
<1>12. WarmupInv'
  BY <1>7, <1>9, <1>10, <1>11 DEF WarmupInv
<1>13. Phase[c] = "outside"
  BY DEF Phase
<1>14. /\ \A d \in Calls \ {c} : Phase'[d] = Phase[d]
       /\ \/ Phase'[c] = "waiting"
          \/ Phase'[c] = "through" /\ slot'[c] <= Units(now') + 0
  <2>1. \A d \in Calls \ {c} : Phase'[d] = Phase[d]
    BY <1>6 DEF Phase
  <2>2. CASE grant <= t
    <3>1. Phase'[c] = "through"
      BY <1>6, <2>2 DEF Phase
    <3>2. slot'[c] <= Units(now') + 0
      <4>1. Units(r) <= Units(s) /\ Units(r) \in Nat /\ Units(s) \in Nat
        BY UnitsIsNat, UnitsAscend
      <4> HIDE DEF t
      <4> QED
        BY <1>2, <1>8, <2>2, <4>1
    <3> QED
      BY <2>1, <3>1, <3>2
  <2>3. CASE ~ (grant <= t)
    <3>1. Phase'[c] = "waiting"
      BY <1>6, <2>3 DEF Phase
    <3> QED
      BY <2>1, <3>1
  <2> QED
    BY <2>2, <2>3
<1>15. Units(now') \in Units(now)..Forever
  <2>1. MaxTime \in Nat /\ now <= s
    BY <1>1, InstantsAssumption
  <2>2. /\ Units(now) \in Nat /\ Units(s) \in Nat /\ Units(MaxTime) \in Nat
        /\ Units(now) <= Units(s) /\ Units(s) <= Units(MaxTime)
    BY <1>1, <2>1, UnitsIsNat, UnitsAscend
  <2> QED
    BY <1>2, <2>2 DEF Forever
<1>16. slot'[c] >= state.nextFree /\ slot'[c] >= Units(now) - Units(Micro - 1)
  <2>1. /\ Units(now) <= Units(r) /\ Units(r) \in Nat /\ Units(now) \in Nat
        /\ Units(Micro - 1) \in Nat
    BY <1>1, UnitsIsNat, UnitsAscend, MicrosAtBounds
  <2> HIDE DEF t
  <2> QED
    BY <1>1, <1>2, <1>8, <2>1
<1>17. permits'[c] > 0 /\ state'.nextFree >= slot'[c] + permits'[c] * K.stable
  BY <1>2, <1>3, <1>8
<1>18. Timeline!Admit(c)
  BY <1>8, <1>13, <1>14, <1>15, <1>16, <1>17 DEF Timeline!Admit, Timeline!TimePasses, Units
<1> QED
  BY <1>12, <1>18

(***************************************************************************)
(* The two ways to be admitted.                                            *)
(***************************************************************************)
LEMMA AcquireInv ==
    ASSUME WarmupInv, NEW c \in Calls, Acquire(c)
    PROVE  WarmupInv' /\ Timeline!Admit(c)
<1>1. now \in 0..MaxTime /\ deadline \in [Calls -> Nat] /\ MaxTime \in Nat
  BY InstantsAssumption DEF WarmupInv, TypeOK
<1>2. PICK n \in Permits, r \in Reads(2) :
        /\ outcome[c] = "uncalled"
        /\ Start(c, n, MicrosAt(r[1]), r[2])
        /\ deadline' = [deadline EXCEPT ![c] = Forever]
  BY DEF Acquire
<1>3. /\ r[1] \in Nat /\ r[2] \in Nat /\ r[2] <= MaxTime
      /\ now <= r[1] /\ r[1] <= r[2] /\ r[2] <= r[1] + MaxGap
  BY <1>1, TwoReadings
<1>4. /\ deadline' \in [Calls -> Nat] /\ deadline'[c] = Forever /\ Forever \in Nat
      /\ \A d \in Calls \ {c} : deadline'[d] = deadline[d]
  BY <1>1, <1>2, UnitsIsNat DEF Forever
<1>5. MicrosAt(r[1]) < state.nextFree => state.nextFree <= deadline'[c]
  <2>1. TypeOK /\ state.nextFree \in Nat
    BY DEF WarmupInv, TypeOK
  <2> DEFINE grant == GrantTime(K, state, MicrosAt(r[1]))
             wake == r[2] + SleepTime(grant - MicrosAt(r[1]))
  <2>2. grant \in Nat /\ state.nextFree <= grant /\ grant <= Units(wake) /\ wake \in 0..MaxTime
    BY <1>2, <1>3, <2>1, StartFacts
  <2> HIDE DEF grant, wake
  <2>3. Units(wake) <= Forever /\ Units(wake) \in Nat
    BY <1>1, <2>2, UnitsIsNat, UnitsAscend DEF Forever
  <2> QED
    BY <1>4, <2>1, <2>2, <2>3
<1> QED
  BY <1>2, <1>3, <1>4, <1>5, StartInv

LEMMA TryAcquireInv ==
    ASSUME WarmupInv, NEW c \in Calls, TryAcquire(c)
    PROVE  WarmupInv' /\ Timeline!Admit(c)
<1>1. now \in 0..MaxTime /\ deadline \in [Calls -> Nat]
  BY DEF WarmupInv, TypeOK
<1>2. PICK n \in Permits, limit \in Timeouts, r \in Reads(3) :
        /\ outcome[c] = "uncalled"
        /\ limit >= 0
        /\ Fits(PeekWait(MicrosAt(r[1])), limit)
        /\ Start(c, n, MicrosAt(r[2]), r[3])
        /\ deadline' = [deadline EXCEPT ![c] = MicrosAt(r[1]) + limit]
  BY DEF TryAcquire
<1>3. /\ r[1] \in Nat /\ r[2] \in Nat /\ r[3] \in Nat /\ r[3] <= MaxTime
      /\ now <= r[1] /\ r[1] <= r[2] /\ r[2] <= r[3] /\ r[3] <= r[2] + MaxGap
      /\ now <= r[2]
  <2>1. /\ r[1] \in Nat /\ r[2] \in Nat /\ r[3] \in 0..MaxTime
        /\ now <= r[1] /\ r[1] <= r[2] /\ r[2] <= r[3]
        /\ r[3] \in Nat /\ r[3] <= r[2] + MaxGap
    BY <1>1, ReadsAscend
  <2> QED
    BY <1>1, <2>1, InstantsAssumption
<1>4. limit \in Nat /\ MicrosAt(r[1]) \in Nat
  BY <1>2, <1>3, MicrosAtBounds, WarmupAssumption
<1>5. /\ deadline' \in [Calls -> Nat] /\ deadline'[c] = MicrosAt(r[1]) + limit
      /\ \A d \in Calls \ {c} : deadline'[d] = deadline[d]
  BY <1>1, <1>2, <1>4
<1>6. state.nextFree <= MicrosAt(r[1]) + limit
  <2> DEFINE grant == GrantTime(K, state, MicrosAt(r[1]))
  <2>1. /\ FullPot(K) \in Nat /\ state.stored \in 0..FullPot(K) /\ state.nextFree \in Nat
    BY LimiterCurve DEF WarmupInv, TypeOK
  <2>2. grant \in Nat /\ state.nextFree <= grant
    BY <1>4, <2>1, ResyncFills
  <2>3. grant - MicrosAt(r[1]) <= limit
    BY <1>2 DEF Fits, PeekWait
  <2> HIDE DEF grant
  <2> QED
    BY <1>4, <2>1, <2>2, <2>3
<1> QED
  BY <1>2, <1>3, <1>5, <1>6, StartInv

-----------------------------------------------------------------------------
LEMMA WarmupInitInv == Init => WarmupInv
<1> SUFFICES ASSUME Init PROVE WarmupInv
  OBVIOUS
<1>1. /\ state.stored = FullPot(K) /\ state.nextFree = 0 /\ taken = 0
  BY DEF Init, ColdState
<1>2. IsCurve(K) /\ FullPot(K) \in Nat
  BY LimiterCurve
<1>3. TypeOK
  BY <1>1, <1>2, InstantsAssumption DEF Init, TypeOK, Outcomes
<1>4. Admitted = {} /\ SlotBeforeDeadline /\ WakesAtSlot
  BY DEF Init, Admitted, SlotBeforeDeadline, WakesAtSlot
<1>5. IsFiniteSet(Admitted) /\ Cardinality(Admitted) = 0
  BY <1>4, FS_EmptySet
<1>6. Shares(K, 0) = 0
  <2>1. K.coolDown \in Nat
    BY <1>2 DEF IsCurve
  <2> QED
    BY <2>1 DEF Shares
<1>7. PotHoldsTheRest
  BY <1>1, <1>2, <1>6 DEF PotHoldsTheRest
<1>8. AreaOf(K, FullPot(K), 0) = 0
  <2> DEFINE u == Above(K, FullPot(K))
  <2>1. /\ u \in Nat /\ FlatPrice(K) \in Nat
        /\ AreaOf(K, FullPot(K), 0) = 0 * FlatPrice(K) + K.slope * (u * u - Left(u, 0) * Left(u, 0))
    BY <1>2, <1>6, AreaOfFormula
  <2>2. K.slope \in Nat
    BY <1>2 DEF IsCurve
  <2> HIDE DEF u
  <2>3. Left(u, 0) = u
    BY <2>1 DEF Left
  <2>4. u * u - Left(u, 0) * Left(u, 0) = 0
    <3>1. u * u \in Nat
      BY <2>1, ProductIsNat
    <3> QED
      BY <2>3, <3>1
  <2> QED
    BY <2>1, <2>2, <2>4, SMTT(30)
<1>9. NoFasterThanCold
  <2>1. AreaUnits(K) \in Nat
    BY <1>1, <1>2, CostBounds
  <2> QED
    BY <1>1, <1>5, <1>8, <2>1 DEF NoFasterThanCold
<1> QED
  BY <1>3, <1>4, <1>5, <1>7, <1>9 DEF WarmupInv

(***************************************************************************)
(* The steps that sell nothing.                                            *)
(***************************************************************************)
LEMMA UnsoldInv ==
    ASSUME WarmupInv, NEW c \in Calls,
           Fail(c) \/ TryRefuse(c) \/ Wake(c) \/ Abort(c)
    PROVE  WarmupInv'
<1>1. TypeOK /\ now \in 0..MaxTime
  BY DEF WarmupInv, TypeOK
<1>2. CASE Fail(c)
  BY <1>1, <1>2, OneOutcome, QuietInv DEF Fail, Outcomes
<1>3. CASE TryRefuse(c)
  <2>1. PICK r \in Reads(1) : now' = r[1]
    BY <1>3 DEF TryRefuse
  <2>2. now' \in 0..MaxTime
    BY <1>1, <2>1, FirstReading, InstantsAssumption
  <2> QED
    BY <1>1, <1>3, <2>2, OneOutcome, QuietInv DEF TryRefuse, Outcomes
<1>4. CASE Wake(c)
  BY <1>1, <1>4, OneOutcome, QuietInv DEF Wake, Outcomes
<1>5. CASE Abort(c)
  BY <1>1, <1>5, OneOutcome, QuietInv DEF Abort, Outcomes
<1> QED
  BY <1>2, <1>3, <1>4, <1>5

LEMMA WarmupNextInv == WarmupInv /\ [Next]_vars => WarmupInv'
<1> SUFFICES ASSUME WarmupInv, [Next]_vars PROVE WarmupInv'
  OBVIOUS
<1>1. TypeOK /\ now \in 0..MaxTime
  BY DEF WarmupInv, TypeOK
<1>2. ASSUME now' \in 0..MaxTime, UNCHANGED <<state, outcome, wakeAt, histories>>
      PROVE  WarmupInv'
  BY <1>1, <1>2, QuietInv DEF TypeOK, Admitted
<1>3. ASSUME Tick PROVE WarmupInv'
  <2>1. now' \in 0..MaxTime
    BY <1>1, <1>3, InstantsAssumption DEF Tick, TimePasses
  <2> QED
    BY <1>2, <1>3, <2>1 DEF Tick
<1>4. ASSUME Rest \/ UNCHANGED vars PROVE WarmupInv'
  BY <1>1, <1>2, <1>4 DEF Rest, vars
<1> QED
  BY <1>3, <1>4, AcquireInv, TryAcquireInv, UnsoldInv DEF Next

-----------------------------------------------------------------------------
(***************************************************************************)
(* The strengthened invariant holds in every behaviour of the limiter.     *)
(***************************************************************************)
THEOREM WarmupInvariant == Spec => []WarmupInv
BY WarmupInitInv, WarmupNextInv, PTL DEF Spec

(***************************************************************************)
(* The pot stays between empty and full, whatever idles and spends it.     *)
(***************************************************************************)
THEOREM WarmupTypes == Spec => []TypeOK
<1>1. WarmupInv => TypeOK
  BY DEF WarmupInv
<1> QED
  BY <1>1, WarmupInvariant, PTL

(***************************************************************************)
(* The warm-up cannot be beaten: no order, grouping, cancelling or spacing *)
(* of the calls makes the permits sold cheaper than one purchase from the  *)
(* full pot of a cold start, but for a unit of rounding a call.            *)
(***************************************************************************)
THEOREM WarmupCannotBeBeaten == Spec => []NoFasterThanCold
<1>1. WarmupInv => NoFasterThanCold
  BY DEF WarmupInv
<1> QED
  BY <1>1, WarmupInvariant, PTL

(***************************************************************************)
(* What cost.ts charges is the area under the curve, for every curve that  *)
(* constants.ts derives in whole numbers.                                  *)
(***************************************************************************)
THEOREM ChargesTheArea == Spec => []AreaIsIntegral
<1>1. ASSUME TypeOK PROVE AreaIsIntegral
  <2> DEFINE pot == state.stored
  <2>1. IsCurve(K) /\ pot \in Nat
    BY <1>1, LimiterCurve DEF TypeOK
  <2> HIDE DEF pot
  <2>2. ASSUME NEW x \in 1..pot
        PROVE  StoredPermitsArea(K, x, 1) = Height(x) + Height(x - 1)
    <3>1. /\ x \in Nat /\ x >= 1 /\ x - 1 \in Nat
          /\ Shares(K, K.threshold) \in Nat
      BY <2>1, ProductIsNat DEF IsCurve, Shares
    <3>2. \A y \in Nat : Height(y) = PermitsToTime(K, Above(K, y))
      BY <3>1 DEF Height, Above
    <3> QED
      BY <2>1, <3>1, <3>2, ShareCosts
  <2>3. ASSUME NEW a \in 0..pot, NEW b \in 0..(pot - a)
        PROVE  StoredPermitsArea(K, pot, a + b) =
                 StoredPermitsArea(K, pot, a) + StoredPermitsArea(K, pot - a, b)
    BY <2>1, PartsAddUp
  <2> QED
    BY <2>2, <2>3 DEF AreaIsIntegral, pot
<1> QED
  BY <1>1, WarmupTypes, PTL

(***************************************************************************)
(* The headroom of one and a half warm-up periods in maxPermitsPerCall is  *)
(* what a full pot costs, and is enough for every call from every pot.     *)
(***************************************************************************)
THEOREM EveryCallIsExact == Spec => []OneCallIsExact
<1>1. ASSUME TypeOK PROVE OneCallIsExact
  <2>1. WholeOptions(Options) /\ MaxSafe \in Nat
    BY WarmupAssumption
  <2>2. 2 * StoredPermitsArea(K, FullPot(K), FullPot(K)) = 3 * Options.warmup * AreaUnits(K)
    <3> DEFINE c == K.coolDown * K.coolDown
               a == StoredPermitsArea(K, FullPot(K), FullPot(K))
               w == Options.warmup
    <3>1. a = 3 * w * c
      BY <2>1, FullPotArea DEF K
    <3>2. K.coolDown \in Nat /\ c \in Nat /\ w \in Nat
      BY LimiterCurve, ProductIsNat DEF IsCurve
    <3>3. AreaUnits(K) = 2 * c
      BY <3>2, SMTT(30) DEF AreaUnits
    <3> HIDE DEF a, c, w
    <3>4. 2 * (3 * w * c) = 3 * w * (2 * c)
      BY <3>2, SMTT(30)
    <3> QED
      BY <3>1, <3>3, <3>4 DEF a, w
  <2>3. ASSUME NEW n \in 2..MaxPermitsPerCall PROVE CostOf(K, state, n) <= MaxSafe
    <3>1. n \in Nat /\ n * (2 * K.stable) <= 2 * MaxSafe - 3 * Options.warmup
      BY LargestFits
    <3>2. state.stored \in Nat /\ state.stored <= FullPot(K)
      BY <1>1, LimiterCurve DEF TypeOK
    <3> QED
      BY <2>1, <3>1, <3>2, CostCeiling DEF K
  <2> QED
    BY <2>2, <2>3 DEF OneCallIsExact
<1> QED
  BY <1>1, WarmupTypes, PTL

(***************************************************************************)
(* Nobody sleeps for a ticket beyond its timeout, although the decision is *)
(* taken on an earlier reading of the clock than the reservation.          *)
(***************************************************************************)
THEOREM SleepersAreOnTime == Spec => []SlotBeforeDeadline
<1>1. WarmupInv => SlotBeforeDeadline
  BY DEF WarmupInv
<1> QED
  BY <1>1, WarmupInvariant, PTL

(***************************************************************************)
(* Every sleeper returns no earlier than its ticket, and later by no more  *)
(* than the clock moves in acquire() and less than a microsecond, whatever *)
(* fraction of a nanosecond the ticket has.                                *)
(***************************************************************************)
THEOREM SleepersWakeAtSlot == Spec => []WakesAtSlot
<1>1. WarmupInv => WakesAtSlot
  BY DEF WarmupInv
<1> QED
  BY <1>1, WarmupInvariant, PTL

-----------------------------------------------------------------------------
(***************************************************************************)
(* The steps of the timeline that admit nobody.                            *)
(***************************************************************************)
LEMMA TimelinePasses ==
    ASSUME WarmupInv, now' \in now..MaxTime
    PROVE  /\ Timeline!TimePasses
           /\ Units(now) \in 0..Forever /\ Units(now') \in Nat
<1>1. now \in Nat /\ now <= MaxTime /\ now' \in Nat /\ MaxTime \in Nat
  BY InstantsAssumption DEF WarmupInv, TypeOK
<1>2. /\ Units(now) \in Nat /\ Units(now') \in Nat /\ Units(MaxTime) \in Nat
      /\ Units(now) <= Units(MaxTime)
      /\ Units(now) <= Units(now') /\ Units(now') <= Units(MaxTime)
  <2> DEFINE later == now'
  <2>1. later \in Nat /\ now <= later /\ later <= MaxTime
    BY <1>1
  <2> HIDE DEF later
  <2>2. /\ Units(now) \in Nat /\ Units(later) \in Nat /\ Units(MaxTime) \in Nat
        /\ Units(now) <= Units(MaxTime)
        /\ Units(now) <= Units(later) /\ Units(later) <= Units(MaxTime)
    BY <1>1, <2>1, UnitsIsNat, UnitsAscend
  <2> QED
    BY <2>2 DEF later
<1>3. Units(now') \in Units(now)..Forever /\ Units(now) \in 0..Forever
  BY <1>2 DEF Forever
<1> QED
  BY <1>2, <1>3 DEF Timeline!TimePasses, Units

LEMMA TimelineWaits ==
    ASSUME WarmupInv, now' \in now..MaxTime, Phase' = Phase,
           UNCHANGED <<state, slot, permits>>
    PROVE  Timeline!Next
<1> DEFINE group == {}
<1>1. group \in SUBSET {c \in Calls : Phase[c] = "waiting"}
  OBVIOUS
<1>2. Phase' = [c \in Calls |-> IF c \in group THEN "through" ELSE Phase[c]]
  BY DEF Phase
<1>3. \A c \in group : slot[c] <= Units(now)' + 0
  OBVIOUS
<1>4. UNCHANGED <<state.nextFree, slot, permits>>
  OBVIOUS
<1> HIDE DEF group
<1>5. Timeline!GoThrough
  BY <1>1, <1>2, <1>3, <1>4, TimelinePasses DEF Timeline!GoThrough
<1> QED
  BY <1>5 DEF Timeline!Next

LEMMA TimelineWakes ==
    ASSUME WarmupInv, NEW c \in Calls, Wake(c)
    PROVE  Timeline!Next
<1>1. /\ outcome[c] = "sleeping" /\ wakeAt[c] <= now /\ now' = now
      /\ outcome' = [outcome EXCEPT ![c] = "through"]
      /\ UNCHANGED <<state, slot, permits>>
  BY DEF Wake, histories
<1>2. TypeOK /\ now \in Nat /\ now \in 0..MaxTime
  BY DEF WarmupInv, TypeOK
<1> DEFINE group == {c}
<1>3. group \in SUBSET {d \in Calls : Phase[d] = "waiting"}
  BY <1>1 DEF Phase
<1>4. Phase' = [d \in Calls |-> IF d \in group THEN "through" ELSE Phase[d]]
  <2>1. outcome'[c] = "through" /\ \A d \in Calls \ {c} : outcome'[d] = outcome[d]
    BY <1>1, <1>2 DEF TypeOK
  <2> QED
    BY <2>1 DEF Phase
<1>5. slot[c] <= Units(now)' + 0
  <2>1. slot[c] <= Units(wakeAt[c])
    BY <1>1 DEF WarmupInv, WakesAtSlot, Admitted
  <2>2. slot[c] \in Nat /\ wakeAt[c] \in Nat
    BY <1>2, InstantsAssumption DEF TypeOK
  <2>3. /\ Units(wakeAt[c]) \in Nat /\ Units(now) \in Nat
        /\ Units(wakeAt[c]) <= Units(now)
    BY <1>1, <1>2, <2>2, UnitsIsNat, UnitsAscend
  <2>4. slot[c] <= Units(now) + 0
    BY <2>1, <2>2, <2>3
  <2> QED
    BY <1>1, <2>4 DEF Units
<1>6. now' \in now..MaxTime /\ UNCHANGED <<state.nextFree, slot, permits>>
  BY <1>1, <1>2, InstantsAssumption
<1>7. \A d \in group : slot[d] <= Units(now)' + 0
  BY <1>5
<1> HIDE DEF group
<1>8. Timeline!GoThrough
  BY <1>3, <1>4, <1>6, <1>7, TimelinePasses DEF Timeline!GoThrough
<1> QED
  BY <1>8 DEF Timeline!Next

LEMMA TimelineGivesUp ==
    ASSUME WarmupInv, NEW c \in Calls, Abort(c)
    PROVE  Timeline!GiveUp(c)
<1>1. /\ outcome[c] = "sleeping" /\ outcome' = [outcome EXCEPT ![c] = "gone"]
      /\ UNCHANGED <<now, state, slot, permits>>
  BY DEF Abort, histories
<1>2. outcome'[c] = "gone" /\ \A d \in Calls \ {c} : outcome'[d] = outcome[d]
  BY <1>1 DEF WarmupInv, TypeOK
<1>3. Phase[c] = "waiting" /\ Phase' = [Phase EXCEPT ![c] = "gone"]
  BY <1>1, <1>2 DEF Phase
<1> QED
  BY <1>1, <1>3 DEF Timeline!GiveUp, Units

\* A call that is not admitted stays outside.
LEMMA StaysOutside ==
    ASSUME WarmupInv, NEW c \in Calls, outcome[c] = "uncalled",
           NEW o \in {"failed", "refused"}, outcome' = [outcome EXCEPT ![c] = o]
    PROVE  Phase' = Phase
<1>1. outcome'[c] = o /\ \A d \in Calls \ {c} : outcome'[d] = outcome[d]
  BY DEF WarmupInv, TypeOK
<1> QED
  BY <1>1 DEF Phase

LEMMA TimelineInit == Init => Timeline!Init
<1> SUFFICES ASSUME Init PROVE Timeline!Init
  OBVIOUS
<1>1. state.nextFree = 0 /\ Units(now) \in 0..Forever
  <2>1. now = 0 /\ state.nextFree = 0 /\ 0 \in Nat /\ MaxTime \in Nat
    BY InstantsAssumption DEF Init, ColdState
  <2>2. Units(0) \in Nat /\ Units(MaxTime) \in Nat /\ Units(0) <= Units(MaxTime)
    BY <2>1, UnitsIsNat, UnitsAscend
  <2> QED
    BY <2>1, <2>2 DEF Forever
<1>2. Phase = [c \in Calls |-> "outside"]
  BY DEF Init, Phase
<1> QED
  BY <1>1, <1>2 DEF Init, Timeline!Init

LEMMA TimelineNext == WarmupInv /\ [Next]_vars => [Timeline!Next]_(Timeline!vars)
<1> SUFFICES ASSUME WarmupInv, [Next]_vars
             PROVE  Timeline!Next \/ UNCHANGED Timeline!vars
  OBVIOUS
<1>1. now \in 0..MaxTime /\ now \in Nat
  BY DEF WarmupInv, TypeOK
<1>2. ASSUME NEW c \in Calls, Fail(c) PROVE Timeline!Next
  <2>1. Phase' = Phase
    BY <1>2, StaysOutside DEF Fail
  <2> QED
    BY <1>1, <1>2, <2>1, TimelineWaits, InstantsAssumption DEF Fail, histories
<1>3. ASSUME NEW c \in Calls, Acquire(c) \/ TryAcquire(c) PROVE Timeline!Next
  BY <1>3, AcquireInv, TryAcquireInv DEF Timeline!Next
<1>4. ASSUME NEW c \in Calls, TryRefuse(c) PROVE Timeline!Next
  <2>1. PICK r \in Reads(1) : now' = r[1]
    BY <1>4 DEF TryRefuse
  <2>2. now' \in now..MaxTime
    BY <1>1, <2>1, FirstReading, InstantsAssumption
  <2>3. Phase' = Phase
    BY <1>4, StaysOutside DEF TryRefuse
  <2> QED
    BY <1>4, <2>2, <2>3, TimelineWaits DEF TryRefuse, histories
<1>5. ASSUME NEW c \in Calls, Abort(c) PROVE Timeline!Next
  BY <1>5, TimelineGivesUp DEF Timeline!Next
<1>6. ASSUME Tick PROVE Timeline!Next
  <2>1. now' \in now..MaxTime /\ Phase' = Phase
    BY <1>1, <1>6, InstantsAssumption DEF Tick, TimePasses, Phase
  <2> QED
    BY <1>6, <2>1, TimelineWaits DEF Tick, histories
<1>7. ASSUME Rest \/ UNCHANGED vars PROVE UNCHANGED Timeline!vars
  BY <1>7 DEF Rest, vars, histories, Timeline!vars, Phase, Units
<1> QED
  BY <1>2, <1>3, <1>4, <1>5, <1>6, <1>7, TimelineWakes DEF Next

(***************************************************************************)
(* The warm-up limiter keeps the promise every limiter makes: stretches of *)
(* one timeline, never overlapping, each permit priced at the stable       *)
(* interval or more, nobody through before its own, nobody's resold.       *)
(***************************************************************************)
THEOREM WarmupKeepsPromise == Spec => ImplementsAdmission
BY TimelineInit, TimelineNext, WarmupInvariant, PTL
   DEF Spec, ImplementsAdmission, Timeline!Spec
=============================================================================
