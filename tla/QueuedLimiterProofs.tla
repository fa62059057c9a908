------------------------- MODULE QueuedLimiterProofs -------------------------
(***************************************************************************)
(* Proofs about QueuedLimiter, for all whole options of the scheduler,     *)
(* every lead of its clock, every pair of bounds and every set of calls.   *)
(***************************************************************************)
EXTENDS QueuedLimiter, WaitQueueProofs

Outcomes == {"uncalled", "failed", "refused", "passed", "queued"}

LimiterTypeOK ==
    /\ TypeOK
    /\ state.stored \in 0..FullPot(K)
    /\ state.nextFree \in Nat
    /\ outcome \in [Calls -> Outcomes]
    /\ slot \in [Calls -> Nat]
    /\ permits \in [Calls -> Nat]
    /\ agreed \in [Calls -> Nat]

\* A call is in the queue's hands exactly if its outcome says so.
HandedOver == \A c \in Calls : status[c] # "new" <=> outcome[c] = "queued"

(***************************************************************************)
(* The inductive invariant: the queue's own, and what ties the queue's     *)
(* grants to the scheduler's tickets.                                      *)
(***************************************************************************)
LimiterInv ==
    /\ IndInv
    /\ LimiterTypeOK
    /\ HandedOver
    /\ DepthBounded
    /\ AgreedWaitKept
    /\ GrantIsTicket

-----------------------------------------------------------------------------
(***************************************************************************)
(* The readings of a call that queues: one to check the bounds, one of the *)
(* scheduler's, three of the queue's.                                      *)
(***************************************************************************)
LEMMA FiveReadings ==
    ASSUME now \in 0..MaxTime, NEW r \in Reads(5)
    PROVE  /\ r[1] \in Nat /\ r[2] \in Nat /\ r[3] \in Nat /\ r[5] \in 0..MaxTime
           /\ now <= r[1] /\ r[1] <= r[2] /\ r[2] <= r[3] /\ r[3] <= r[5]
           /\ r[3] <= r[2] + MaxGap
           /\ <<r[3], r[4], r[5]>> \in Reads(3)
<1> DEFINE rest == <<r[3], r[4], r[5]>>
<1>1. \A i \in 1..5 : r[i] \in now..(now + MaxGap)
  BY DEF Reads
<1>2. \A i \in 1..(5 - 1) : r[i] <= r[i + 1]
  BY DEF Reads
<1>3. r[5] <= MaxTime
  BY DEF Reads
<1>4. r[1] <= r[2] /\ r[2] <= r[3] /\ r[3] <= r[4] /\ r[4] <= r[5]
  <2>1. 1 \in 1..(5 - 1) /\ 2 \in 1..(5 - 1) /\ 3 \in 1..(5 - 1) /\ 4 \in 1..(5 - 1)
    OBVIOUS
  <2> QED
    BY <1>2, <2>1
<1>5. /\ r[1] \in now..(now + MaxGap) /\ r[2] \in now..(now + MaxGap)
      /\ r[3] \in now..(now + MaxGap) /\ r[4] \in now..(now + MaxGap)
      /\ r[5] \in now..(now + MaxGap)
  BY <1>1
<1>6. rest \in [1..3 -> now..(now + MaxGap)]
  BY <1>5
<1>7. rest[1] = r[3] /\ rest[2] = r[4] /\ rest[3] = r[5]
  OBVIOUS
<1>8. \A i \in 1..(3 - 1) : rest[i] <= rest[i + 1]
  <2> SUFFICES ASSUME NEW i \in 1..(3 - 1) PROVE rest[i] <= rest[i + 1]
    OBVIOUS
  <2>1. i = 1 \/ i = 2
    OBVIOUS
  <2> QED
    BY <1>4, <1>7, <2>1
<1> HIDE DEF rest
<1>9. rest \in Reads(3)
  BY <1>3, <1>6, <1>7, <1>8 DEF Reads
<1> QED
  BY <1>3, <1>4, <1>5, <1>9, InstantsAssumption DEF rest

(***************************************************************************)
(* The constants of the scheduler.                                         *)
(***************************************************************************)
LEMMA SchedulerCurve ==
    IsCurve(K) /\ FullPot(K) \in Nat /\ K.stable \in Nat /\ Lead \in Nat
<1>1. WholeOptions(Options) /\ Lead \in Nat
  BY LimiterAssumption
<1>2. IsCurve(K) /\ FullPot(K) = Options.warmup /\ Options.warmup \in Nat
  BY <1>1, DerivedIsCurve DEF K
<1> QED
  BY <1>1, <1>2 DEF IsCurve

(***************************************************************************)
(* What the scheduler reads at an instant t of the queue's time.           *)
(***************************************************************************)
LEMMA SchedulerReads ==
    ASSUME NEW t \in Nat
    PROVE  /\ SchedulerMicros(t) \in Nat
           /\ SchedulerMicros(t) <= t + Lead
           /\ t + Lead < SchedulerMicros(t) + Micro
<1>1. t + Lead \in Nat
  BY SchedulerCurve
<1> QED
  BY <1>1, NowMicrosBounds DEF SchedulerMicros

LEMMA SchedulerAscends ==
    ASSUME NEW s \in Nat, NEW t \in Nat, s <= t
    PROVE  SchedulerMicros(s) <= SchedulerMicros(t)
<1>1. s + Lead \in Nat /\ t + Lead \in Nat /\ s + Lead <= t + Lead
  BY SchedulerCurve
<1> QED
  BY <1>1, NowMicrosAscends DEF SchedulerMicros

(***************************************************************************)
(* The scheduler grants the ticket it finds, or the present when that is   *)
(* past; so the wait it peeks can only shrink until it reserves.           *)
(***************************************************************************)
LEMMA GrantIsLater ==
    ASSUME LimiterTypeOK, NEW t \in Nat
    PROVE  /\ GrantTime(K, state, t) \in Nat
           /\ state.nextFree <= GrantTime(K, state, t)
           /\ t <= GrantTime(K, state, t)
           /\ PeekWait(t) \in Nat
           /\ \A n : ReservedWait(n, t) = PeekWait(t)
           /\ PeekWait(t) > 0 => GrantTime(K, state, t) = state.nextFree
           /\ PeekWait(t) <= 0 => GrantTime(K, state, t) = t
<1> DEFINE g == GrantTime(K, state, t)
<1>1. /\ g \in Nat /\ t <= g /\ state.nextFree <= g
      /\ state.nextFree <= t => g = t
      /\ t < state.nextFree => g = state.nextFree
  BY SchedulerCurve, ResyncFills DEF LimiterTypeOK
<1>2. state.nextFree \in Nat
  BY DEF LimiterTypeOK
<1>3. PeekWait(t) = g - t /\ \A n : ReservedWait(n, t) = g - t
  BY DEF PeekWait, ReservedWait
<1> HIDE DEF g
<1> QED
  BY <1>1, <1>2, <1>3 DEF g

LEMMA WaitShrinks ==
    ASSUME LimiterTypeOK, NEW s \in Nat, NEW t \in Nat, s <= t
    PROVE  PeekWait(t) <= PeekWait(s)
<1>1. PeekWait(t) = GrantTime(K, state, t) - t /\ PeekWait(s) = GrantTime(K, state, s) - s
  BY DEF PeekWait
<1>2. /\ PeekWait(t) > 0 => GrantTime(K, state, t) = state.nextFree
      /\ state.nextFree <= GrantTime(K, state, s) /\ state.nextFree \in Nat
      /\ PeekWait(t) \in Nat /\ PeekWait(s) \in Nat
      /\ GrantTime(K, state, s) \in Nat /\ GrantTime(K, state, t) \in Nat
  BY GrantIsLater DEF LimiterTypeOK
<1> QED
  BY <1>1, <1>2

(***************************************************************************)
(* What is agreed to is within both bounds.                                *)
(***************************************************************************)
LEMMA BoundsKept ==
    ASSUME TypeOK, NEW limit \in Timeouts, limit >= 0,
           NEW w \in Nat, ~ OutOfBounds(w, limit)
    PROVE  /\ Smaller(MaxDelay, limit) \in Nat
           /\ w <= Smaller(MaxDelay, limit) /\ w <= MaxDelay
           /\ waiting + 1 <= MaxDepth
<1>1. limit \in Int /\ MaxDelay \in Nat /\ MaxDepth \in Nat /\ waiting \in Nat
  BY BoundsAssumption DEF TypeOK
<1>2. ~ (waiting >= MaxDepth) /\ ~ (w > Smaller(MaxDelay, limit))
  BY DEF OutOfBounds
<1> QED
  BY <1>1, <1>2 DEF Smaller

(***************************************************************************)
(* A reservation leaves a state of the scheduler, sells no less than the   *)
(* stable interval a permit, and notes what it sold.                       *)
(***************************************************************************)
LEMMA ReservationNoted ==
    ASSUME LimiterTypeOK, NEW c \in Calls, NEW n \in Nat, NEW t \in Nat,
           ReserveFrom(c, n, t)
    PROVE  /\ state'.stored \in 0..FullPot(K) /\ state'.nextFree \in Nat
           /\ slot' \in [Calls -> Nat] /\ permits' \in [Calls -> Nat]
           /\ slot'[c] = GrantTime(K, state, t) /\ permits'[c] = n
           /\ \A d \in Calls \ {c} : slot'[d] = slot[d] /\ permits'[d] = permits[d]
           /\ n * K.stable \in Nat
           /\ slot'[c] + n * K.stable <= state'.nextFree
<1>1. /\ state' = Reserve(K, state, n, t)
      /\ slot' = [slot EXCEPT ![c] = GrantTime(K, state, t)]
      /\ permits' = [permits EXCEPT ![c] = n]
  BY DEF ReserveFrom
<1>2. /\ slot \in [Calls -> Nat] /\ permits \in [Calls -> Nat]
      /\ state.stored \in 0..FullPot(K) /\ state.nextFree \in Nat
  BY DEF LimiterTypeOK
<1>3. GrantTime(K, state, t) \in Nat
  BY GrantIsLater
<1> DEFINE before == Resync(K, state, t)
<1>4. before.nextFree = GrantTime(K, state, t)
  BY DEF GrantTime
<1>5. before = Resync(K, state, t)
  OBVIOUS
<1> HIDE DEF before
<1>6. /\ state'.stored \in 0..FullPot(K) /\ state'.nextFree \in Nat
      /\ before.nextFree + n * K.stable <= state'.nextFree
  BY <1>1, <1>2, <1>5, SchedulerCurve, ReservationSells
<1>7. n * K.stable \in Nat
  BY SchedulerCurve, ProductIsNat
<1> QED
  BY <1>1, <1>2, <1>3, <1>4, <1>6, <1>7

-----------------------------------------------------------------------------
(***************************************************************************)
(* Steps that leave the scheduler alone preserve the invariant.            *)
(***************************************************************************)
LEMMA DepthFollows ==
    ASSUME LimiterInv, IndInv', waiting' <= waiting
    PROVE  DepthBounded'
<1>1. waiting = Cardinality(Held) /\ waiting' = Cardinality(Held')
  BY DEF LimiterInv, IndInv, QueueMatchesCallers, DepthIsHeld
<1>2. waiting \in Nat /\ waiting' \in Nat /\ waiting <= MaxDepth /\ MaxDepth \in Nat
  BY <1>1, BoundsAssumption DEF LimiterInv, IndInv, TypeOK, DepthBounded
<1> QED
  BY <1>1, <1>2 DEF DepthBounded

LEMMA LimiterSettles ==
    ASSUME LimiterInv, IndInv', Settling, UNCHANGED limiterVars
    PROVE  LimiterInv'
<1>1. /\ state' = state /\ outcome' = outcome /\ slot' = slot
      /\ permits' = permits /\ agreed' = agreed /\ grant' = grant
  BY DEF limiterVars, Settling
<1>2. LimiterTypeOK'
  BY <1>1 DEF LimiterInv, LimiterTypeOK, IndInv
<1>3. HandedOver'
  BY <1>1 DEF LimiterInv, HandedOver, Settling
<1>4. DepthBounded'
  BY DepthFollows DEF Settling
<1>5. AgreedWaitKept'
  <2> SUFFICES ASSUME NEW c \in Calls, outcome[c] = "queued"
               PROVE  grant[c] <= now' + agreed[c]
    BY <1>1 DEF AgreedWaitKept
  <2>1. grant[c] <= now + agreed[c]
    BY DEF LimiterInv, AgreedWaitKept
  <2>2. /\ grant[c] \in Nat /\ agreed[c] \in Nat
        /\ now \in Nat /\ now' \in Nat /\ now <= now'
    BY DEF LimiterInv, LimiterTypeOK, TypeOK, IndInv, Settling
  <2> QED
    BY <2>1, <2>2
<1>6. GrantIsTicket'
  BY <1>1 DEF LimiterInv, GrantIsTicket
<1> QED
  BY <1>2, <1>3, <1>4, <1>5, <1>6 DEF LimiterInv

(***************************************************************************)
(* A call that never reaches the queue leaves the queue as it was.         *)
(***************************************************************************)
LEMMA LimiterPassesBy ==
    ASSUME LimiterInv, NEW c \in Calls, NEW o \in {"failed", "refused", "passed"},
           outcome[c] = "uncalled",
           outcome' = [outcome EXCEPT ![c] = o],
           now <= now', now' \in 0..MaxTime,
           UNCHANGED <<queue, head, waiting, armed, status, grant, timer, wakeAt>>,
           state'.stored \in 0..FullPot(K), state'.nextFree \in Nat,
           slot' \in [Calls -> Nat], permits' \in [Calls -> Nat],
           agreed' \in [Calls -> Nat],
           \A d \in Calls \ {c} : slot'[d] = slot[d] /\ agreed'[d] = agreed[d]
    PROVE  LimiterInv'
<1>1. IndInv'
  BY QuietInv DEF LimiterInv
<1>2. outcome \in [Calls -> Outcomes]
  BY DEF LimiterInv, LimiterTypeOK
<1>3. outcome'[c] = o /\ \A d \in Calls \ {c} : outcome'[d] = outcome[d]
  BY <1>2
<1>4. LimiterTypeOK'
  BY <1>1, <1>2 DEF LimiterTypeOK, IndInv, Outcomes
<1>5. HandedOver'
  BY <1>3 DEF LimiterInv, HandedOver
<1>6. DepthBounded'
  BY <1>1, DepthFollows DEF LimiterInv, IndInv, TypeOK
<1>7. AgreedWaitKept'
  <2> SUFFICES ASSUME NEW d \in Calls, outcome'[d] = "queued"
               PROVE  grant[d] <= now' + agreed'[d]
    BY DEF AgreedWaitKept
  <2>1. d # c /\ outcome[d] = "queued" /\ agreed'[d] = agreed[d]
    BY <1>3
  <2>2. grant[d] <= now + agreed[d]
    BY <2>1 DEF LimiterInv, AgreedWaitKept
  <2>3. grant[d] \in Nat /\ agreed[d] \in Nat /\ now \in Nat /\ now' \in Nat
    BY DEF LimiterInv, LimiterTypeOK, TypeOK
  <2> QED
    BY <2>1, <2>2, <2>3
<1>8. GrantIsTicket'
  BY <1>3 DEF LimiterInv, GrantIsTicket
<1> QED
  BY <1>1, <1>4, <1>5, <1>6, <1>7, <1>8 DEF LimiterInv

(***************************************************************************)
(* A call that passes: what it takes with it.                              *)
(***************************************************************************)
LEMMA PassFacts ==
    ASSUME LimiterTypeOK, NEW c \in Calls, Pass(c)
    PROVE  \E n \in Nat \ {0}, r \in Nat :
             LET t == SchedulerMicros(r)
             IN  /\ outcome[c] = "uncalled"
                 /\ outcome' = [outcome EXCEPT ![c] = "passed"]
                 /\ ReserveFrom(c, n, t) /\ t \in Nat
                 /\ GrantTime(K, state, t) = t
                 /\ now <= r /\ now' = r /\ r \in 0..MaxTime
                 /\ agreed' \in [Calls -> Nat]
                 /\ \A d \in Calls \ {c} : agreed'[d] = agreed[d]
                 /\ UNCHANGED <<queue, head, waiting, armed, status, grant, timer,
                                wakeAt>>
<1>1. PICK n \in Permits, limit \in Timeouts, r \in Reads(2) :
        /\ Called(c, n, limit)
        /\ ~ OutOfBounds(PeekWait(SchedulerMicros(r[1])), limit)
        /\ ReservedWait(n, SchedulerMicros(r[2])) <= 0
        /\ ReserveFrom(c, n, SchedulerMicros(r[2]))
        /\ outcome' = [outcome EXCEPT ![c] = "passed"]
        /\ agreed' = [agreed EXCEPT ![c] = Smaller(MaxDelay, limit)]
        /\ now' = r[2]
        /\ UNCHANGED <<queue, head, waiting, armed, status, grant, timer, wakeAt>>
  BY DEF Pass
<1>2. now \in 0..MaxTime /\ now \in Nat /\ TypeOK /\ agreed \in [Calls -> Nat]
  BY SMTT(30) DEF LimiterTypeOK, TypeOK
<1>3. /\ r[1] \in Nat /\ r[2] \in 0..MaxTime /\ r[2] \in Nat
      /\ now <= r[1] /\ r[1] <= r[2]
  BY <1>2, TwoReadings
<1>4. now <= r[2]
  BY <1>2, <1>3
<1>5. n \in Nat \ {0} /\ limit >= 0 /\ outcome[c] = "uncalled"
  BY <1>1, BoundsAssumption DEF Called
<1>6. /\ SchedulerMicros(r[1]) \in Nat /\ SchedulerMicros(r[2]) \in Nat
  BY <1>3, SchedulerReads
<1>7. GrantTime(K, state, SchedulerMicros(r[2])) = SchedulerMicros(r[2])
  BY <1>1, <1>6, GrantIsLater
<1>8. Smaller(MaxDelay, limit) \in Nat
  BY <1>1, <1>2, <1>5, <1>6, BoundsKept, GrantIsLater
<1>9. /\ agreed' \in [Calls -> Nat]
      /\ \A d \in Calls \ {c} : agreed'[d] = agreed[d]
  BY <1>1, <1>2, <1>8
<1> QED
  BY <1>1, <1>3, <1>4, <1>5, <1>6, <1>7, <1>9

LEMMA LimiterPassInv ==
    ASSUME LimiterInv, NEW c \in Calls, Pass(c)
    PROVE  LimiterInv'
<1>1. LimiterTypeOK
  BY DEF LimiterInv
<1>2. PICK n \in Nat \ {0}, r \in Nat :
        /\ outcome[c] = "uncalled"
        /\ outcome' = [outcome EXCEPT ![c] = "passed"]
        /\ ReserveFrom(c, n, SchedulerMicros(r)) /\ SchedulerMicros(r) \in Nat
        /\ now <= r /\ now' = r /\ r \in 0..MaxTime
        /\ agreed' \in [Calls -> Nat]
        /\ \A d \in Calls \ {c} : agreed'[d] = agreed[d]
        /\ UNCHANGED <<queue, head, waiting, armed, status, grant, timer, wakeAt>>
  BY <1>1, PassFacts
<1>3. /\ state'.stored \in 0..FullPot(K) /\ state'.nextFree \in Nat
      /\ slot' \in [Calls -> Nat] /\ permits' \in [Calls -> Nat]
      /\ \A d \in Calls \ {c} : slot'[d] = slot[d]
  BY <1>1, <1>2, ReservationNoted
<1> QED
  BY <1>2, <1>3, LimiterPassesBy

(***************************************************************************)
(* A call that queues.  The wait that was checked was peeked earlier than  *)
(* it was reserved, hence at least as long; the grant is counted from a    *)
(* third reading, later by what the clock moved in acquire().              *)
(***************************************************************************)
LEMMA QueueFacts ==
    ASSUME LimiterTypeOK, NEW c \in Calls, Queue(c)
    PROVE  \E n \in Nat \ {0}, w \in 1..MaxDelay, r \in Nat, rest \in Reads(3) :
             LET t == SchedulerMicros(r)
             IN  /\ outcome[c] = "uncalled"
                 /\ outcome' = [outcome EXCEPT ![c] = "queued"]
                 /\ ReserveFrom(c, n, t) /\ t \in Nat
                 /\ GrantTime(K, state, t) = t + w
                 /\ now <= r /\ r <= rest[1] /\ rest[1] <= r + MaxGap
                 /\ rest[1] \in Nat /\ rest[1] <= now' /\ now' \in 0..MaxTime
                 /\ now <= now'
                 /\ agreed' \in [Calls -> Nat] /\ w <= agreed'[c]
                 /\ \A d \in Calls \ {c} : agreed'[d] = agreed[d]
                 /\ waiting + 1 <= MaxDepth
                 /\ Enqueue(c, w, rest)
<1>1. PICK n \in Permits, limit \in Timeouts, r \in Reads(5) :
        /\ Called(c, n, limit)
        /\ ~ OutOfBounds(PeekWait(SchedulerMicros(r[1])), limit)
        /\ ReservedWait(n, SchedulerMicros(r[2])) > 0
        /\ ReserveFrom(c, n, SchedulerMicros(r[2]))
        /\ outcome' = [outcome EXCEPT ![c] = "queued"]
        /\ agreed' = [agreed EXCEPT ![c] = Smaller(MaxDelay, limit)]
        /\ Enqueue(c, ReservedWait(n, SchedulerMicros(r[2])), <<r[3], r[4], r[5]>>)
  BY DEF Queue
<1> DEFINE peeked == SchedulerMicros(r[1])
           t == SchedulerMicros(r[2])
           w == ReservedWait(n, t)
           rest == <<r[3], r[4], r[5]>>
<1>2. now \in 0..MaxTime /\ now \in Nat /\ TypeOK /\ agreed \in [Calls -> Nat]
  BY SMTT(30) DEF LimiterTypeOK, TypeOK
<1>3. /\ r[1] \in Nat /\ r[2] \in Nat /\ r[3] \in Nat /\ r[5] \in 0..MaxTime
      /\ now <= r[1] /\ r[1] <= r[2] /\ r[2] <= r[3] /\ r[3] <= r[5]
      /\ r[3] <= r[2] + MaxGap /\ rest \in Reads(3)
  BY <1>2, FiveReadings
<1>4. now <= r[2] /\ now <= r[5]
  BY <1>2, <1>3
<1>5. n \in Nat \ {0} /\ limit >= 0 /\ outcome[c] = "uncalled"
  BY <1>1, BoundsAssumption DEF Called
<1>6. peeked \in Nat /\ t \in Nat /\ peeked <= t
  BY <1>3, SchedulerReads, SchedulerAscends
<1>7. rest[1] = r[3] /\ now' = r[5]
  BY <1>1 DEF Enqueue
<1>8. /\ ~ OutOfBounds(PeekWait(peeked), limit)
      /\ w > 0 /\ ReserveFrom(c, n, t) /\ Enqueue(c, w, rest)
  BY <1>1
<1> HIDE DEF peeked, rest
<1>9. /\ w = PeekWait(t) /\ w \in Nat /\ w <= PeekWait(peeked) /\ PeekWait(peeked) \in Nat
      /\ w = GrantTime(K, state, t) - t /\ GrantTime(K, state, t) \in Nat
  BY <1>6, GrantIsLater, WaitShrinks DEF ReservedWait
<1> HIDE DEF w, t
<1>10. /\ Smaller(MaxDelay, limit) \in Nat
       /\ PeekWait(peeked) <= Smaller(MaxDelay, limit) /\ PeekWait(peeked) <= MaxDelay
       /\ waiting + 1 <= MaxDepth
  BY <1>2, <1>5, <1>8, <1>9, BoundsKept
<1>11. w \in 1..MaxDelay /\ w <= Smaller(MaxDelay, limit) /\ GrantTime(K, state, t) = t + w
  BY <1>6, <1>8, <1>9, <1>10, BoundsAssumption
<1>12. /\ agreed' \in [Calls -> Nat] /\ agreed'[c] = Smaller(MaxDelay, limit)
       /\ \A d \in Calls \ {c} : agreed'[d] = agreed[d]
  BY <1>1, <1>2, <1>10
<1> QED
  BY <1>1, <1>3, <1>4, <1>5, <1>6, <1>7, <1>8, <1>10, <1>11, <1>12 DEF t

LEMMA LimiterQueueInv ==
    ASSUME LimiterInv, NEW c \in Calls, Queue(c)
    PROVE  LimiterInv'
<1>0. LimiterTypeOK /\ IndInv /\ HandedOver
  BY DEF LimiterInv
<1>typ. /\ outcome \in [Calls -> Outcomes] /\ status \in [Calls -> Statuses]
        /\ grant \in [Calls -> Nat] /\ agreed \in [Calls -> Nat] /\ now \in Nat
  BY <1>0, SMTT(30) DEF LimiterTypeOK, TypeOK
<1>1. PICK n \in Nat \ {0}, w \in 1..MaxDelay, r \in Nat, rest \in Reads(3) :
        /\ outcome[c] = "uncalled"
        /\ outcome' = [outcome EXCEPT ![c] = "queued"]
        /\ ReserveFrom(c, n, SchedulerMicros(r)) /\ SchedulerMicros(r) \in Nat
        /\ GrantTime(K, state, SchedulerMicros(r)) = SchedulerMicros(r) + w
        /\ now <= r /\ r <= rest[1] /\ rest[1] <= r + MaxGap
        /\ rest[1] \in Nat /\ rest[1] <= now' /\ now' \in 0..MaxTime
        /\ now <= now'
        /\ agreed' \in [Calls -> Nat] /\ w <= agreed'[c]
        /\ \A d \in Calls \ {c} : agreed'[d] = agreed[d]
        /\ waiting + 1 <= MaxDepth
        /\ Enqueue(c, w, rest)
  BY <1>0, <1>typ, QueueFacts
<1>2. /\ status[c] = "new"
      /\ status' = [status EXCEPT ![c] = "held"]
      /\ grant' = [grant EXCEPT ![c] = NowMicros(rest[1]) + w]
      /\ waiting' = waiting + 1
  BY <1>1 DEF Enqueue, GrantMicros
<1>3. /\ state'.stored \in 0..FullPot(K) /\ state'.nextFree \in Nat
      /\ slot' \in [Calls -> Nat] /\ permits' \in [Calls -> Nat]
      /\ slot'[c] = SchedulerMicros(r) + w
      /\ \A d \in Calls \ {c} : slot'[d] = slot[d]
  BY <1>0, <1>typ, <1>1, ReservationNoted
<1>4. IndInv'
  <2>1. w \in Waits
    BY BoundsAssumption
  <2> QED
    BY <1>0, <1>typ, <1>1, <2>1, EnqueueInv
<1>5. /\ outcome'[c] = "queued" /\ status'[c] = "held"
      /\ grant'[c] = NowMicros(rest[1]) + w
      /\ \A d \in Calls \ {c} : /\ outcome'[d] = outcome[d] /\ status'[d] = status[d]
                                /\ grant'[d] = grant[d]
  BY <1>0, <1>typ, <1>1, <1>2
<1>6. LimiterTypeOK'
  BY <1>0, <1>typ, <1>1, <1>3, <1>4 DEF LimiterTypeOK, IndInv, Outcomes
<1>7. HandedOver'
  BY <1>0, <1>typ, <1>5 DEF HandedOver
<1>8. DepthBounded'
  <2>1. waiting' = Cardinality(Held')
    BY <1>4 DEF IndInv, QueueMatchesCallers, DepthIsHeld
  <2> QED
    BY <1>1, <1>2, <2>1 DEF DepthBounded
<1>9. /\ NowMicros(rest[1]) \in Nat /\ NowMicros(rest[1]) <= rest[1]
      /\ rest[1] < NowMicros(rest[1]) + Micro
      /\ SchedulerMicros(r) <= r + Lead /\ r + Lead < SchedulerMicros(r) + Micro
      /\ Lead \in Nat /\ Micro \in Nat /\ MaxGap \in Nat /\ now' \in Nat
  BY <1>1, NowMicrosBounds, SchedulerReads, SchedulerCurve, InstantsAssumption
<1>10. AgreedWaitKept'
  <2> SUFFICES ASSUME NEW d \in Calls, outcome'[d] = "queued"
               PROVE  grant'[d] <= now' + agreed'[d]
    BY DEF AgreedWaitKept
  <2>1. CASE d = c
    BY <1>1, <1>5, <1>9, <2>1
  <2>2. CASE d # c
    <3>1. grant[d] <= now + agreed[d] /\ grant[d] \in Nat /\ agreed[d] \in Nat
      BY <1>0, <1>typ, <1>5, <2>2 DEF LimiterInv, AgreedWaitKept
    <3>2. grant'[d] = grant[d] /\ agreed'[d] = agreed[d]
      BY <1>1, <1>5, <2>2
    <3> QED
      BY <1>0, <1>typ, <1>1, <1>9, <3>1, <3>2
  <2> QED
    BY <2>1, <2>2
<1>11. GrantIsTicket'
  <2> SUFFICES ASSUME NEW d \in Calls, outcome'[d] = "queued"
               PROVE  /\ slot'[d] < grant'[d] + Lead + Micro
                      /\ grant'[d] + Lead < slot'[d] + MaxGap + Micro
    BY DEF GrantIsTicket
  <2>1. CASE d = c
    BY <1>1, <1>3, <1>5, <1>9, <2>1
  <2>2. CASE d # c
    BY <1>3, <1>5, <2>2 DEF LimiterInv, GrantIsTicket
  <2> QED
    BY <2>1, <2>2
<1> QED
  BY <1>4, <1>6, <1>7, <1>8, <1>10, <1>11 DEF LimiterInv

-----------------------------------------------------------------------------
(***************************************************************************)
(* The invariant holds initially and is preserved, action by action.       *)
(***************************************************************************)
LEMMA LimiterInitInv == LimiterInit => LimiterInv
<1> SUFFICES ASSUME LimiterInit PROVE LimiterInv
  OBVIOUS
<1>1. IndInv
  BY InitInv DEF LimiterInit
<1>2. \A c \in Calls : outcome[c] = "uncalled" /\ status[c] = "new"
  BY DEF LimiterInit, Init
<1>3. state.stored \in 0..FullPot(K) /\ state.nextFree \in Nat
  BY SchedulerCurve DEF LimiterInit, ColdState
<1>4. LimiterTypeOK
  BY <1>1, <1>3 DEF LimiterInit, LimiterTypeOK, Outcomes, IndInv
<1>5. HandedOver /\ AgreedWaitKept /\ GrantIsTicket
  BY <1>2 DEF HandedOver, AgreedWaitKept, GrantIsTicket
<1>6. Held = {}
  BY <1>2 DEF Held
<1>7. DepthBounded
  BY <1>6, FS_EmptySet, BoundsAssumption DEF DepthBounded
<1> QED
  BY <1>1, <1>4, <1>5, <1>7 DEF LimiterInv

(***************************************************************************)
(* Every step of limiter, scheduler and queue preserves the invariant.     *)
(***************************************************************************)
LEMMA LimiterNextInv == LimiterInv /\ [LimiterNext]_allVars => LimiterInv'
<1> SUFFICES ASSUME LimiterInv, [LimiterNext]_allVars PROVE LimiterInv'
  OBVIOUS
<1>typ. /\ IndInv /\ LimiterTypeOK /\ now \in Nat /\ now \in 0..MaxTime
        /\ MaxTime \in Nat
  BY InstantsAssumption DEF LimiterInv, IndInv, TypeOK
<1>1. ASSUME NEW c \in Calls, Fail(c) PROVE LimiterInv'
  <2>1. /\ outcome[c] = "uncalled"
        /\ outcome' = [outcome EXCEPT ![c] = "failed"]
        /\ UNCHANGED <<now, state, slot, permits, agreed, queue, head, waiting,
                       armed, status, grant, timer, wakeAt>>
    BY <1>1 DEF Fail, vars
  <2>2. now <= now' /\ now' \in 0..MaxTime
    BY <1>typ, <2>1
  <2>3. /\ state'.stored \in 0..FullPot(K) /\ state'.nextFree \in Nat
        /\ slot' \in [Calls -> Nat] /\ permits' \in [Calls -> Nat]
        /\ agreed' \in [Calls -> Nat]
    BY <1>typ, <2>1 DEF LimiterTypeOK
  <2> QED
    BY <2>1, <2>2, <2>3, LimiterPassesBy
<1>2. ASSUME NEW c \in Calls, Refuse(c) PROVE LimiterInv'
  <2>1. PICK r \in Reads(1) :
          /\ outcome[c] = "uncalled"
          /\ outcome' = [outcome EXCEPT ![c] = "refused"]
          /\ now' = r[1]
          /\ UNCHANGED <<state, slot, permits, agreed, queue, head, waiting,
                         armed, status, grant, timer, wakeAt>>
    BY <1>2 DEF Refuse, Called
  <2>2. now <= now' /\ now' \in 0..MaxTime
    BY <1>typ, <2>1, FirstReading
  <2> QED
    BY <1>typ, <2>1, <2>2, LimiterPassesBy DEF LimiterTypeOK
<1>3. ASSUME NEW c \in Calls, Pass(c) PROVE LimiterInv'
  BY <1>3, LimiterPassInv
<1>4. ASSUME NEW c \in Calls, Queue(c) PROVE LimiterInv'
  BY <1>4, LimiterQueueInv
<1>5. ASSUME NEW c \in Calls, QueueStep(c) PROVE LimiterInv'
  <2>1. QueueSteps /\ UNCHANGED limiterVars
    BY <1>5 DEF QueueStep, QueueSteps
  <2> QED
    BY <1>typ, <2>1, QueueStepsSettle, LimiterSettles
<1>6. CASE Tick /\ UNCHANGED limiterVars
  <2>1. /\ now <= now' /\ now' \in 0..MaxTime
        /\ UNCHANGED <<queue, head, waiting, armed, status, grant, timer, wakeAt>>
    BY <1>typ, <1>6 DEF Tick, TimePasses
  <2>2. IndInv' /\ Settling
    BY <1>typ, <2>1, QuietInv, QuietSettles
  <2> QED
    BY <1>6, <2>2, LimiterSettles
<1>7. CASE UNCHANGED allVars
  <2>1. /\ now <= now' /\ now' \in 0..MaxTime /\ UNCHANGED limiterVars
        /\ UNCHANGED <<queue, head, waiting, armed, status, grant, timer, wakeAt>>
    BY <1>typ, <1>7 DEF allVars, vars
  <2>2. IndInv' /\ Settling
    BY <1>typ, <2>1, QuietInv, QuietSettles
  <2> QED
    BY <2>1, <2>2, LimiterSettles
<1>8. CASE Rest /\ UNCHANGED limiterVars
  BY <1>7, <1>8 DEF Rest, allVars
<1> QED
  BY <1>1, <1>2, <1>3, <1>4, <1>5, <1>6, <1>7, <1>8 DEF LimiterNext

(***************************************************************************)
(* The invariant of limiter, scheduler and queue.                          *)
(***************************************************************************)
THEOREM LimiterInvariant == LimiterSpec => []LimiterInv
  BY LimiterInitInv, LimiterNextInv, PTL DEF LimiterSpec

(***************************************************************************)
(* Nobody waits longer than it agreed to, although the bounds are checked  *)
(* on one reading of the clock and the wait is reserved and served on      *)
(* others.                                                                 *)
(***************************************************************************)
THEOREM AgreementsAreKept == LimiterSpec => []AgreedWaitKept
<1>1. LimiterInv => AgreedWaitKept
  BY DEF LimiterInv
<1> QED
  BY <1>1, LimiterInvariant, PTL

(***************************************************************************)
(* The queue's grant is the scheduler's ticket, to less than a microsecond *)
(* early and to the clock's movement late, however far apart their origins *)
(* lie.                                                                    *)
(***************************************************************************)
THEOREM GrantsAreTickets == LimiterSpec => []GrantIsTicket
<1>1. LimiterInv => GrantIsTicket
  BY DEF LimiterInv
<1> QED
  BY <1>1, LimiterInvariant, PTL

(***************************************************************************)
(* No more than maxQueueDepth callers are held.                            *)
(***************************************************************************)
THEOREM LimiterDepthBounded == LimiterSpec => []DepthBounded
<1>1. LimiterInv => DepthBounded
  BY DEF LimiterInv
<1> QED
  BY <1>1, LimiterInvariant, PTL

-----------------------------------------------------------------------------
(***************************************************************************)
(* What a limiter asks of its queue is something the queue's callers do.   *)
(***************************************************************************)
LEMMA LimiterStepIsQueueStep == LimiterInv /\ [LimiterNext]_allVars => [Next]_vars
<1> SUFFICES ASSUME LimiterInv, [LimiterNext]_allVars, ~ UNCHANGED vars
             PROVE  Next
  OBVIOUS
<1>0. LimiterTypeOK /\ now \in Nat /\ now \in 0..MaxTime
  BY DEF LimiterInv, LimiterTypeOK, TypeOK
<1>1. ASSUME NEW c \in Calls, Fail(c) PROVE FALSE
  BY <1>1 DEF Fail
<1>2. ASSUME NEW t \in Nat, now <= t, t <= MaxTime, now' = t,
             UNCHANGED <<queue, head, waiting, armed, status, grant, timer, wakeAt>>
      PROVE  Next
  <2>1. t # now
    BY <1>2 DEF vars
  <2>2. Tick
    BY <1>0, <1>2, <2>1, InstantsAssumption DEF Tick, TimePasses
  <2> QED
    BY <2>2 DEF Next
<1>3. ASSUME NEW c \in Calls, Refuse(c) PROVE Next
  <2>1. PICK r \in Reads(1) :
          /\ now' = r[1]
          /\ UNCHANGED <<queue, head, waiting, armed, status, grant, timer, wakeAt>>
    BY <1>3 DEF Refuse
  <2>2. r[1] \in Nat /\ now <= r[1] /\ r[1] <= MaxTime
    BY <1>0, FirstReading
  <2> QED
    BY <1>2, <2>1, <2>2
<1>4. ASSUME NEW c \in Calls, Pass(c) PROVE Next
  <2>1. PICK r \in Nat :
          /\ now <= r /\ now' = r /\ r \in 0..MaxTime
          /\ UNCHANGED <<queue, head, waiting, armed, status, grant, timer, wakeAt>>
    BY <1>0, <1>4, PassFacts
  <2> QED
    BY <1>2, <2>1
<1>5. ASSUME NEW c \in Calls, Queue(c) PROVE Next
  <2>1. PICK w \in 1..MaxDelay, rest \in Reads(3) : Enqueue(c, w, rest)
    BY <1>0, <1>5, QueueFacts
  <2>2. w \in Waits
    BY BoundsAssumption
  <2> QED
    BY <2>1, <2>2 DEF Wait, Next
<1>6. ASSUME NEW c \in Calls, QueueStep(c) PROVE Next
  BY <1>6 DEF QueueStep, Next
<1>7. CASE Tick \/ Rest
  BY <1>7 DEF Next
<1>8. CASE UNCHANGED allVars
  BY <1>8 DEF allVars
<1> QED
  BY <1>1, <1>3, <1>4, <1>5, <1>6, <1>7, <1>8 DEF LimiterNext

(***************************************************************************)
(* Every behaviour of the limiter is one of its queue: the theorems of     *)
(* WaitQueueProofs apply to it.                                            *)
(***************************************************************************)
THEOREM LimiterOwnsQueue == LimiterSpec => Spec
<1>1. LimiterInit => Init
  BY DEF LimiterInit
<1> QED
  BY <1>1, LimiterStepIsQueueStep, LimiterInvariant, PTL DEF LimiterSpec, Spec

(***************************************************************************)
(* Callers the limiter queued are released in the order they came.         *)
(***************************************************************************)
THEOREM LimiterReleasesInOrder == LimiterSpec => ArrivalOrder
  BY LimiterOwnsQueue, ReleasedInOrder

-----------------------------------------------------------------------------
(***************************************************************************)
(* QueuedLimiter implements Admission, on the scheduler's time.            *)
(***************************************************************************)
LEMMA Phases ==
    /\ \A s : PhaseOf("passed", s) = "through"
    /\ PhaseOf("queued", "held") = "waiting"
    /\ PhaseOf("queued", "released") = "through"
    /\ PhaseOf("queued", "aborted") = "gone"
    /\ \A o \in {"uncalled", "failed", "refused"} : \A s : PhaseOf(o, s) = "outside"
  BY DEF PhaseOf

(***************************************************************************)
(* A queue's clock that moves within its bound moves the scheduler's so.   *)
(***************************************************************************)
LEMMA LeadShifts ==
    ASSUME NEW a \in Nat, NEW b \in a..MaxTime
    PROVE  b + Lead \in (a + Lead)..(MaxTime + Lead)
<1>1. Lead \in Nat /\ MaxTime \in Nat
  BY SchedulerCurve, InstantsAssumption
<1>2. b \in Int /\ a <= b /\ b <= MaxTime
  BY <1>1
<1>3. /\ b + Lead \in Int /\ a + Lead \in Int /\ MaxTime + Lead \in Int
      /\ a + Lead <= b + Lead /\ b + Lead <= MaxTime + Lead
  BY <1>1, <1>2
<1> QED
  BY <1>3

(***************************************************************************)
(* A step in which time may pass and no call changes phase.                *)
(***************************************************************************)
LEMMA TimelineWaits ==
    ASSUME now \in Nat, now' \in now..MaxTime, Phase' = Phase,
           UNCHANGED <<state, slot, permits>>
    PROVE  Timeline!Next
<1> DEFINE group == {}
<1>1. group \in SUBSET {c \in Calls : Phase[c] = "waiting"}
  OBVIOUS
<1>2. Phase' = [c \in Calls |-> IF c \in group THEN "through" ELSE Phase[c]]
  BY DEF Phase
<1>3. \A c \in group : slot[c] <= (now' + Lead) + (Micro - 1)
  OBVIOUS
<1>4. now' + Lead \in (now + Lead)..(MaxTime + Lead)
  BY LeadShifts
<1> HIDE DEF group
<1>5. Timeline!GoThrough
  BY <1>1, <1>2, <1>3, <1>4 DEF Timeline!GoThrough, Timeline!TimePasses
<1> QED
  BY <1>5 DEF Timeline!Next

(***************************************************************************)
(* A step that admits one call, which the scheduler sees at a reading r of *)
(* the queue's clock.                                                      *)
(***************************************************************************)
LEMMA TimelineAdmits ==
    ASSUME LimiterInv, NEW c \in Calls, outcome[c] = "uncalled",
           NEW r \in Nat, now <= r,
           NEW n \in Nat \ {0}, ReserveFrom(c, n, SchedulerMicros(r)),
           NEW o \in {"passed", "queued"},
           outcome' = [outcome EXCEPT ![c] = o],
           now' \in now..MaxTime,
           \A d \in Calls \ {c} : status'[d] = status[d],
           \/ o = "queued" /\ status'[c] = "held"
           \/ o = "passed" /\ slot'[c] <= now' + Lead
    PROVE  Timeline!Next
<1> DEFINE t == SchedulerMicros(r)
<1>0. LimiterTypeOK
  BY DEF LimiterInv
<1>1. /\ now \in Nat /\ outcome \in [Calls -> Outcomes] /\ state.nextFree \in Nat
  BY <1>0 DEF LimiterTypeOK, TypeOK
<1>2. /\ t \in Nat /\ r + Lead < t + Micro
      /\ Micro \in Nat \ {0} /\ Lead \in Nat /\ MaxTime \in Nat
  BY SchedulerReads, SchedulerCurve, InstantsAssumption
<1>3. /\ slot'[c] = GrantTime(K, state, t) /\ permits'[c] = n
      /\ \A d \in Calls \ {c} : slot'[d] = slot[d] /\ permits'[d] = permits[d]
      /\ slot'[c] + n * K.stable <= state'.nextFree
      /\ state'.nextFree \in Nat /\ n * K.stable \in Nat
  BY <1>0, <1>1, <1>2, ReservationNoted
<1>4. /\ GrantTime(K, state, t) \in Nat
      /\ state.nextFree <= GrantTime(K, state, t) /\ t <= GrantTime(K, state, t)
  BY <1>0, <1>1, <1>2, GrantIsLater
<1> HIDE DEF t
<1>5. outcome'[c] = o /\ \A d \in Calls \ {c} : outcome'[d] = outcome[d]
  BY <1>1
<1>6. \A d \in Calls \ {c} : Phase'[d] = Phase[d]
  BY <1>5 DEF Phase
<1>7. Phase[c] = "outside"
  BY Phases DEF Phase
<1>8. \/ Phase'[c] = "waiting"
      \/ Phase'[c] = "through" /\ slot'[c] <= (now' + Lead) + (Micro - 1)
  <2>1. Phase'[c] = PhaseOf(o, status'[c])
    BY <1>5 DEF Phase
  <2>2. CASE o = "queued" /\ status'[c] = "held"
    BY <2>1, <2>2, Phases
  <2>3. CASE o = "passed" /\ slot'[c] <= now' + Lead
    <3>1. slot'[c] <= (now' + Lead) + (Micro - 1)
      BY <1>1, <1>2, <1>3, <1>4, <2>3
    <3> QED
      BY <2>1, <2>3, <3>1, Phases
  <2> QED
    BY <2>2, <2>3
<1>9. /\ slot'[c] >= state.nextFree
      /\ slot'[c] >= (now + Lead) - (Micro - 1)
      /\ state'.nextFree >= slot'[c] + permits'[c] * K.stable
      /\ permits'[c] > 0
  BY <1>1, <1>2, <1>3, <1>4
<1>10. now' + Lead \in (now + Lead)..(MaxTime + Lead)
  BY <1>1, LeadShifts
<1>11. Timeline!Admit(c)
  BY <1>3, <1>6, <1>7, <1>8, <1>9, <1>10 DEF Timeline!Admit, Timeline!TimePasses
<1> QED
  BY <1>11 DEF Timeline!Next

(***************************************************************************)
(* A fresh limiter is a fresh timeline.                                    *)
(***************************************************************************)
LEMMA TimelineInit == LimiterInit => Timeline!Init
<1> SUFFICES ASSUME LimiterInit PROVE Timeline!Init
  OBVIOUS
<1>1. \A c \in Calls : PhaseOf(outcome[c], status[c]) = "outside"
  BY Phases DEF LimiterInit
<1>2. Phase = [c \in Calls |-> "outside"]
  BY <1>1 DEF Phase
<1>3. now = 0 /\ state.nextFree = 0
  BY DEF LimiterInit, Init, ColdState
<1>4. now + Lead \in 0..(MaxTime + Lead)
  BY <1>3, SchedulerCurve, InstantsAssumption
<1> QED
  BY <1>2, <1>3, <1>4 DEF LimiterInit, Timeline!Init

(***************************************************************************)
(* What the queue does to the callers, as the timeline sees it.            *)
(***************************************************************************)
LEMMA TimelineOfQueue ==
    ASSUME LimiterInv, NEW c \in Calls, QueueStep(c)
    PROVE  Timeline!Next
<1>typ. /\ IndInv /\ now \in Nat /\ now \in 0..MaxTime /\ MaxTime \in Nat
        /\ status \in [Calls -> Statuses] /\ grant \in [Calls -> Nat]
        /\ slot \in [Calls -> Nat]
  BY InstantsAssumption DEF LimiterInv, LimiterTypeOK, TypeOK
<1>1. outcome' = outcome /\ UNCHANGED <<state, slot, permits>>
  BY DEF QueueStep, limiterVars
<1>2. CASE Abort(c)
  <2>1. /\ status[c] = "held" /\ now' = now
        /\ status' = [status EXCEPT ![c] = "aborted"]
    BY <1>2 DEF Abort, Listening
  <2>2. outcome[c] = "queued"
    BY <2>1 DEF LimiterInv, HandedOver
  <2>3. Phase[c] = "waiting"
    BY <2>1, <2>2, Phases DEF Phase
  <2>4. status'[c] = "aborted" /\ \A d \in Calls \ {c} : status'[d] = status[d]
    BY <1>typ, <2>1
  <2>5. /\ PhaseOf(outcome'[c], status'[c]) = "gone"
        /\ \A d \in Calls \ {c} :
              PhaseOf(outcome'[d], status'[d]) = PhaseOf(outcome[d], status[d])
    BY <1>1, <2>2, <2>4, Phases
  <2>6. Phase' = [Phase EXCEPT ![c] = "gone"]
    BY <2>5 DEF Phase
  <2>7. Timeline!GiveUp(c)
    BY <1>1, <2>1, <2>3, <2>6 DEF Timeline!GiveUp
  <2> QED
    BY <2>7 DEF Timeline!Next
<1>3. CASE TimerFire(c) \/ TimerCatch(c)
  <2>1. status' = status /\ now' = now
    BY <1>3 DEF TimerFire, TimerCatch
  <2>2. Phase' = Phase /\ now' \in now..MaxTime
    BY <1>typ, <1>1, <2>1 DEF Phase
  <2> QED
    BY <1>typ, <1>1, <2>2, TimelineWaits
<1>4. CASE TimerThen(c)
  <2>1. PICK r \in Reads(3), h \in head..Len(queue) : Drain(r[1], h) /\ now' = r[3]
    BY <1>4 DEF TimerThen
  <2> DEFINE group == Leaving(r[1], h)
  <2>2. status' = [d \in Calls |-> IF d \in group THEN "released" ELSE status[d]]
    BY <2>1 DEF Drain
  <2>3. \A d \in group : d \in Calls /\ status[d] = "held"
    BY DEF Leaving, Held
  <2> HIDE DEF group
  <2>4. \A d \in group : outcome[d] = "queued" /\ slot[d] < grant[d] + Lead + Micro
    BY <2>3 DEF LimiterInv, HandedOver, GrantIsTicket
  <2>5. Settling
    BY <1>typ, <1>4, TimerThenSettles
  <2>6. now' \in Nat /\ now' \in now..MaxTime
    BY <1>typ, <2>1, ReadsAscend
  <2>7. \A d \in group : slot[d] <= (now' + Lead) + (Micro - 1)
    <3> SUFFICES ASSUME NEW d \in group PROVE slot[d] <= (now' + Lead) + (Micro - 1)
      OBVIOUS
    <3>1. d \in Calls /\ status[d] = "held" /\ status'[d] = "released"
      BY <2>2, <2>3
    <3>2. grant[d] <= now' /\ grant[d] \in Nat /\ slot[d] \in Nat
      BY <1>typ, <2>5, <3>1 DEF Settling
    <3>3. Lead \in Nat /\ Micro \in Nat
      BY SchedulerCurve, InstantsAssumption
    <3> QED
      BY <2>4, <2>6, <3>2, <3>3
  <2>8. group \in SUBSET {d \in Calls : Phase[d] = "waiting"}
    BY <2>3, <2>4, Phases DEF Phase
  <2>9. \A d \in Calls : PhaseOf(outcome'[d], status'[d]) =
                         IF d \in group THEN "through" ELSE PhaseOf(outcome[d], status[d])
    <3> SUFFICES ASSUME NEW d \in Calls
                 PROVE  PhaseOf(outcome'[d], status'[d]) =
                          IF d \in group THEN "through" ELSE PhaseOf(outcome[d], status[d])
      OBVIOUS
    <3>1. CASE d \in group
      <4>1. outcome'[d] = "queued" /\ status'[d] = "released"
        BY <1>1, <2>2, <2>4, <3>1
      <4> QED
        BY <3>1, <4>1, Phases
    <3>2. CASE d \notin group
      <4>1. outcome'[d] = outcome[d] /\ status'[d] = status[d]
        BY <1>1, <2>2, <3>2
      <4> QED
        BY <3>2, <4>1
    <3> QED
      BY <3>1, <3>2
  <2>10. Phase' = [d \in Calls |-> IF d \in group THEN "through" ELSE Phase[d]]
    BY <2>9 DEF Phase
  <2>11. now' + Lead \in (now + Lead)..(MaxTime + Lead)
    BY <1>typ, <2>6, LeadShifts
  <2>12. Timeline!GoThrough
    BY <1>1, <2>7, <2>8, <2>10, <2>11 DEF Timeline!GoThrough, Timeline!TimePasses
  <2> QED
    BY <2>12 DEF Timeline!Next
<1> QED
  BY <1>2, <1>3, <1>4 DEF QueueStep

(***************************************************************************)
(* Every step of the limiter is a step of the timeline, or none.           *)
(***************************************************************************)
LEMMA TimelineNext == LimiterInv /\ [LimiterNext]_allVars => [Timeline!Next]_(Timeline!vars)
<1> SUFFICES ASSUME LimiterInv, [LimiterNext]_allVars
             PROVE  Timeline!Next \/ UNCHANGED Timeline!vars
  OBVIOUS
<1>0. LimiterTypeOK /\ MaxTime \in Nat
  BY InstantsAssumption DEF LimiterInv
<1>typ. /\ now \in Nat /\ now \in 0..MaxTime
        /\ outcome \in [Calls -> Outcomes] /\ status \in [Calls -> Statuses]
  BY <1>0 DEF LimiterTypeOK, TypeOK
<1>1. ASSUME NEW c \in Calls, outcome[c] = "uncalled",
             NEW o \in {"failed", "refused"},
             outcome' = [outcome EXCEPT ![c] = o], status' = status
      PROVE  Phase' = Phase
  <2>1. outcome'[c] = o /\ \A d \in Calls \ {c} : outcome'[d] = outcome[d]
    BY <1>typ, <1>1
  <2>2. \A d \in Calls : PhaseOf(outcome'[d], status'[d]) = PhaseOf(outcome[d], status[d])
    BY <1>1, <2>1, Phases
  <2> QED
    BY <2>2 DEF Phase
<1>2. ASSUME NEW c \in Calls, Fail(c) PROVE UNCHANGED Timeline!vars
  <2>1. Phase' = Phase
    BY <1>1, <1>2 DEF Fail, vars
  <2> QED
    BY <1>2, <2>1 DEF Fail, vars, Timeline!vars
<1>3. ASSUME NEW c \in Calls, Refuse(c) PROVE Timeline!Next
  <2>1. PICK r \in Reads(1) : outcome[c] = "uncalled" /\ now' = r[1]
    BY <1>3 DEF Refuse, Called
  <2>2. Phase' = Phase /\ UNCHANGED <<state, slot, permits>>
    BY <1>1, <1>3, <2>1 DEF Refuse
  <2>3. now' \in now..MaxTime
    BY <1>0, <1>typ, <2>1, FirstReading
  <2> QED
    BY <1>typ, <2>2, <2>3, TimelineWaits
<1>4. ASSUME NEW c \in Calls, Pass(c) PROVE Timeline!Next
  <2>1. PICK n \in Nat \ {0}, r \in Nat :
          /\ outcome[c] = "uncalled"
          /\ outcome' = [outcome EXCEPT ![c] = "passed"]
          /\ ReserveFrom(c, n, SchedulerMicros(r)) /\ SchedulerMicros(r) \in Nat
          /\ GrantTime(K, state, SchedulerMicros(r)) = SchedulerMicros(r)
          /\ now <= r /\ now' = r /\ r \in 0..MaxTime /\ status' = status
    BY <1>0, <1>4, PassFacts
  <2>2. slot'[c] <= now' + Lead
    BY <1>0, <2>1, ReservationNoted, SchedulerReads
  <2>3. now' \in now..MaxTime
    BY <1>0, <1>typ, <2>1
  <2> QED
    BY <2>1, <2>2, <2>3, TimelineAdmits
<1>5. ASSUME NEW c \in Calls, Queue(c) PROVE Timeline!Next
  <2>1. PICK n \in Nat \ {0}, w \in 1..MaxDelay, r \in Nat, rest \in Reads(3) :
          /\ outcome[c] = "uncalled"
          /\ outcome' = [outcome EXCEPT ![c] = "queued"]
          /\ ReserveFrom(c, n, SchedulerMicros(r))
          /\ now <= r /\ now' \in 0..MaxTime /\ now <= now'
          /\ Enqueue(c, w, rest)
    BY <1>0, <1>5, QueueFacts
  <2>2. status' = [status EXCEPT ![c] = "held"]
    BY <2>1 DEF Enqueue
  <2>3. status'[c] = "held" /\ \A d \in Calls \ {c} : status'[d] = status[d]
    BY <1>typ, <2>2
  <2>4. now' \in now..MaxTime
    BY <1>0, <1>typ, <2>1
  <2> QED
    BY <2>1, <2>3, <2>4, TimelineAdmits
<1>6. ASSUME NEW c \in Calls, QueueStep(c) PROVE Timeline!Next
  BY <1>6, TimelineOfQueue
<1>7. CASE Tick /\ UNCHANGED limiterVars
  <2>1. Phase' = Phase
    BY <1>7 DEF Tick, TimePasses, limiterVars, Phase
  <2>2. now' \in now..MaxTime
    BY <1>0, <1>typ, <1>7 DEF Tick, TimePasses
  <2> QED
    BY <1>typ, <1>7, <2>1, <2>2, TimelineWaits DEF limiterVars
<1>8. CASE UNCHANGED allVars
  BY <1>8 DEF allVars, vars, limiterVars, Timeline!vars, Phase
<1>9. CASE Rest /\ UNCHANGED limiterVars
  BY <1>8, <1>9 DEF Rest, allVars
<1> QED
  BY <1>2, <1>3, <1>4, <1>5, <1>6, <1>7, <1>8, <1>9 DEF LimiterNext

(***************************************************************************)
(* Limiter, scheduler and queue together keep the promise of Admission.    *)
(***************************************************************************)
THEOREM LimiterKeepsPromise == LimiterSpec => ImplementsAdmission
  BY TimelineInit, TimelineNext, LimiterInvariant, PTL
     DEF LimiterSpec, ImplementsAdmission, Timeline!Spec

=============================================================================
