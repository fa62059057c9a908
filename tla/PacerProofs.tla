----------------------------- MODULE PacerProofs -----------------------------
(***************************************************************************)
(* Proofs about Pacer, for every interval, every pair of bounds, every set *)
(* of calls and every grain of the clock, and, at the end, about the       *)
(* wrappers of Adapters that call it.                                      *)
(***************************************************************************)
EXTENDS Adapters, WaitQueueProofs

(***************************************************************************)
(* The readings of a call that queues: the pacer's, then the queue's       *)
(* three.                                                                  *)
(***************************************************************************)
LEMMA FourReadings ==
    ASSUME now \in 0..MaxTime, NEW r \in Reads(4)
    PROVE  /\ r[1] \in Nat /\ r[2] \in Nat
           /\ now <= r[1] /\ r[1] <= r[2] /\ r[2] <= r[1] + MaxGap
           /\ <<r[2], r[3], r[4]>> \in Reads(3)
<1> DEFINE rest == <<r[2], r[3], r[4]>>
<1>1. \A i \in 1..4 : r[i] \in now..(now + MaxGap)
  BY DEF Reads
<1>2. \A i \in 1..(4 - 1) : r[i] <= r[i + 1]
  BY DEF Reads
<1>3. r[4] <= MaxTime
  BY DEF Reads
<1>4. r[1] <= r[2] /\ r[2] <= r[3] /\ r[3] <= r[4]
  <2>1. 1 \in 1..(4 - 1) /\ 2 \in 1..(4 - 1) /\ 3 \in 1..(4 - 1)
    OBVIOUS
  <2> QED
    BY <1>2, <2>1
<1>5. /\ r[1] \in now..(now + MaxGap) /\ r[2] \in now..(now + MaxGap)
      /\ r[3] \in now..(now + MaxGap) /\ r[4] \in now..(now + MaxGap)
  BY <1>1
<1>6. rest \in [1..3 -> now..(now + MaxGap)]
  BY <1>5
<1>7. /\ rest[1] = r[2] /\ rest[2] = r[3] /\ rest[3] = r[4]
  OBVIOUS
<1>8. \A i \in 1..(3 - 1) : rest[i] <= rest[i + 1]
  <2> SUFFICES ASSUME NEW i \in 1..(3 - 1) PROVE rest[i] <= rest[i + 1]
    OBVIOUS
  <2>1. i = 1 \/ i = 2
    OBVIOUS
  <2> QED
    BY <1>4, <1>7, <2>1
<1> HIDE DEF rest
<1>9. rest \in Reads(3)
  BY <1>3, <1>6, <1>7, <1>8 DEF Reads
<1> QED
  BY <1>4, <1>5, <1>9, InstantsAssumption DEF rest

(***************************************************************************)
(* At least one permit costs at least one tick.                            *)
(***************************************************************************)
LEMMA CostIsPositive ==
    ASSUME NEW n \in Nat, n >= 1
    PROVE  n * Interval \in Nat /\ n * Interval >= 1
<1>1. Interval \in Nat /\ Interval >= 1
  BY PacerAssumption
<1>2. n * Interval \in Nat
  BY <1>1
<1>3. n * Interval = Interval + (n - 1) * Interval /\ (n - 1) * Interval >= 0
  BY <1>1, SMTT(30)
<1> QED
  BY <1>1, <1>2, <1>3

(***************************************************************************)
(* Steps that leave the timeline alone preserve the invariant.             *)
(***************************************************************************)
LEMMA SettlingInv ==
    ASSUME PacerInv, IndInv', Settling, UNCHANGED slotVars
    PROVE  PacerInv'
<1>1. /\ nextSlot' = nextSlot /\ outcome' = outcome
      /\ slot' = slot /\ permits' = permits /\ grant' = grant
      /\ Admitted' = Admitted
      /\ \A c \in Calls : End(c)' = End(c)
  BY DEF slotVars, Settling, Admitted, End
<1>2. now \in Nat /\ now' \in Nat /\ now <= now'
  BY DEF PacerInv, IndInv, TypeOK, Settling
<1>3. slot \in [Calls -> Nat] /\ grant \in [Calls -> Nat]
  BY DEF PacerInv, PacerTypeOK, TypeOK
<1>4. PacerTypeOK'
  BY <1>1 DEF PacerInv, PacerTypeOK, IndInv
<1>5. HandedOver'
  BY <1>1 DEF PacerInv, HandedOver, Settling
<1>6. SoldToTheEnd' /\ SlotsDisjoint' /\ GrantIsSlot'
  <2>1. SoldToTheEnd /\ SlotsDisjoint /\ GrantIsSlot
    BY DEF PacerInv
  <2>2. SoldToTheEnd'
    BY <1>1, <2>1 DEF SoldToTheEnd, Admitted
  <2>3. SlotsDisjoint'
    BY <1>1, <2>1 DEF SlotsDisjoint, Admitted
  <2>4. GrantIsSlot'
    BY <1>1, <2>1 DEF GrantIsSlot
  <2> QED
    BY <2>2, <2>3, <2>4
<1>7. NeverEarly'
  <2> SUFFICES ASSUME NEW c \in Calls,
                      outcome'[c] = "passed" \/ status'[c] = "released"
               PROVE  slot'[c] <= now'
    BY DEF NeverEarly, Proceeded
  <2>1. CASE outcome[c] = "passed" \/ status[c] = "released"
    <3>1. slot[c] <= now /\ slot[c] \in Nat
      BY <1>3, <2>1 DEF PacerInv, NeverEarly, Proceeded
    <3> QED
      BY <1>1, <1>2, <3>1
  <2>2. CASE status[c] = "held" /\ grant[c] <= now'
    <3>1. outcome[c] = "queued"
      BY <2>2 DEF PacerInv, HandedOver
    <3>2. slot[c] <= grant[c] /\ slot[c] \in Nat /\ grant[c] \in Nat
      BY <1>3, <3>1 DEF PacerInv, GrantIsSlot
    <3> QED
      BY <1>1, <1>2, <2>2, <3>2
  <2> QED
    BY <1>1, <2>1, <2>2 DEF Settling
<1>8. QueuedInSlotOrder'
  <2>1. PICK k \in Nat :
          /\ Len(queue') + k <= Len(queue)
          /\ \A i \in 1..Len(queue') : queue'[i] = queue[k + i]
    BY DEF Settling
  <2>2. Len(queue) \in Nat /\ Len(queue') \in Nat
    BY DEF PacerInv, IndInv, TypeOK
  <2> SUFFICES ASSUME NEW i \in 1..Len(queue'), NEW j \in 1..Len(queue'), i < j
               PROVE  slot'[queue'[i]] < slot'[queue'[j]]
    BY DEF QueuedInSlotOrder
  <2>3. k + i \in 1..Len(queue) /\ k + j \in 1..Len(queue) /\ k + i < k + j
    BY <2>1, <2>2
  <2>4. slot[queue[k + i]] < slot[queue[k + j]]
    BY <2>3 DEF PacerInv, QueuedInSlotOrder
  <2> QED
    BY <1>1, <2>1, <2>4
<1>9. DepthBounded'
  <2>1. waiting = Cardinality(Held) /\ waiting' = Cardinality(Held')
    BY DEF PacerInv, IndInv, QueueMatchesCallers, DepthIsHeld
  <2>2. waiting' <= waiting /\ waiting <= MaxDepth
    BY <2>1 DEF Settling, PacerInv, DepthBounded
  <2>3. waiting \in Nat /\ waiting' \in Nat
    BY DEF PacerInv, IndInv, TypeOK
  <2>4. waiting' <= MaxDepth
    BY <2>2, <2>3, BoundsAssumption
  <2> QED
    BY <2>1, <2>4 DEF DepthBounded
<1> QED
  BY <1>4, <1>5, <1>6, <1>7, <1>8, <1>9 DEF PacerInv

(***************************************************************************)
(* A call that is not admitted changes its own outcome and nothing else.   *)
(***************************************************************************)
LEMMA TurnedAwayInv ==
    ASSUME PacerInv, NEW c \in Calls, NEW o \in {"failed", "refused"},
           outcome[c] = "uncalled",
           outcome' = [outcome EXCEPT ![c] = o],
           now <= now', now' \in 0..MaxTime,
           UNCHANGED <<nextSlot, slot, permits, queue, head, waiting, armed,
                       status, grant, timer, wakeAt>>
    PROVE  PacerInv'
<1>1. IndInv'
  BY QuietInv DEF PacerInv
<1>2. outcome \in [Calls -> Outcomes] /\ slot \in [Calls -> Nat]
  BY DEF PacerInv, PacerTypeOK
<1>3. PacerTypeOK'
  BY <1>1, <1>2 DEF PacerInv, PacerTypeOK, Outcomes, IndInv
<1>4. \A d \in Calls : /\ outcome'[d] = "queued" <=> outcome[d] = "queued"
                       /\ outcome'[d] = "passed" <=> outcome[d] = "passed"
  BY <1>2
<1>5. Admitted' = Admitted /\ \A d \in Calls : End(d)' = End(d)
  BY <1>4 DEF Admitted, End
<1>6. HandedOver'
  BY <1>4 DEF PacerInv, HandedOver
<1>7. SoldToTheEnd'
  BY <1>5 DEF PacerInv, SoldToTheEnd, Admitted
<1>8. SlotsDisjoint'
  BY <1>5 DEF PacerInv, SlotsDisjoint, Admitted
<1>9. GrantIsSlot'
  BY <1>4 DEF PacerInv, GrantIsSlot
<1>10. NeverEarly'
  <2>1. Proceeded' = Proceeded
    BY <1>4 DEF Proceeded
  <2>2. now \in Nat /\ now' \in Nat
    BY DEF PacerInv, IndInv, TypeOK
  <2> SUFFICES ASSUME NEW d \in Proceeded PROVE slot[d] <= now'
    BY <2>1 DEF NeverEarly
  <2>3. slot[d] <= now /\ slot[d] \in Nat
    BY <1>2 DEF PacerInv, NeverEarly, Proceeded
  <2> QED
    BY <2>2, <2>3
<1>11. QueuedInSlotOrder'
  BY DEF PacerInv, QueuedInSlotOrder
<1>12. DepthBounded'
  BY DEF PacerInv, DepthBounded, Held
<1> QED
  BY <1>1, <1>3, <1>6, <1>7, <1>8, <1>9, <1>10, <1>11, <1>12 DEF PacerInv

(***************************************************************************)
(* Selling a stretch: it begins where the timeline was sold up to, or      *)
(* later, so it meets none of those sold before.                           *)
(***************************************************************************)
LEMMA ReserveSells ==
    ASSUME PacerTypeOK, SoldToTheEnd, SlotsDisjoint,
           NEW c \in Calls, outcome[c] = "uncalled",
           NEW n \in Nat, n >= 1, NEW t \in Nat, ReserveSlot(c, n, t),
           NEW o \in {"passed", "queued"},
           outcome' = [outcome EXCEPT ![c] = o]
    PROVE  /\ nextSlot' \in Nat
           /\ outcome' \in [Calls -> Outcomes]
           /\ slot' \in [Calls -> Nat] /\ permits' \in [Calls -> Nat]
           /\ slot'[c] = Larger(nextSlot, t)
           /\ \A d \in Calls \ {c} : slot'[d] = slot[d] /\ outcome'[d] = outcome[d]
           /\ \A d \in Admitted : d # c /\ slot[d] < slot'[c]
           /\ SoldToTheEnd'
           /\ SlotsDisjoint'
<1> DEFINE g == Larger(nextSlot, t)
<1>1. g \in Nat /\ nextSlot \in Nat /\ nextSlot <= g
  BY DEF PacerTypeOK, Larger
<1>2. /\ slot \in [Calls -> Nat] /\ permits \in [Calls -> Nat]
      /\ outcome \in [Calls -> Outcomes]
  BY DEF PacerTypeOK
<1>3. /\ nextSlot' = g + n * Interval
      /\ slot' = [slot EXCEPT ![c] = g]
      /\ permits' = [permits EXCEPT ![c] = n]
  BY DEF ReserveSlot
<1> HIDE DEF g
<1>4. n * Interval \in Nat /\ n * Interval >= 1
  BY CostIsPositive
<1>5. nextSlot' \in Nat /\ g <= nextSlot' /\ nextSlot <= nextSlot'
  BY <1>1, <1>3, <1>4
<1>6. /\ slot' \in [Calls -> Nat] /\ permits' \in [Calls -> Nat]
      /\ outcome' \in [Calls -> Outcomes]
      /\ slot'[c] = g /\ permits'[c] = n /\ outcome'[c] = o
  BY <1>1, <1>2, <1>3 DEF Outcomes
<1>7. \A d \in Calls \ {c} : /\ slot'[d] = slot[d] /\ permits'[d] = permits[d]
                             /\ outcome'[d] = outcome[d]
  BY <1>2, <1>3
<1>8. c \notin Admitted
  BY DEF Admitted
<1>9. Admitted' = Admitted \cup {c}
  BY <1>6, <1>7 DEF Admitted
<1>10. \A d \in Admitted : /\ d # c /\ d \in Calls
                           /\ slot[d] \in Nat /\ permits[d] \in Nat
                           /\ permits[d] >= 1
                           /\ permits[d] * Interval \in Nat
                           /\ permits[d] * Interval >= 1
                           /\ End(d) <= nextSlot
  <2> SUFFICES ASSUME NEW d \in Admitted
               PROVE  /\ d # c /\ d \in Calls
                      /\ slot[d] \in Nat /\ permits[d] \in Nat
                      /\ permits[d] >= 1
                      /\ permits[d] * Interval \in Nat
                      /\ permits[d] * Interval >= 1
                      /\ End(d) <= nextSlot
    OBVIOUS
  <2>1. d # c /\ d \in Calls
    BY <1>8 DEF Admitted
  <2>2. permits[d] >= 1 /\ End(d) <= nextSlot
    BY DEF SoldToTheEnd
  <2>3. slot[d] \in Nat /\ permits[d] \in Nat
    BY <1>2, <2>1
  <2> QED
    BY <2>1, <2>2, <2>3, CostIsPositive
<1>11. \A d \in Admitted : End(d) \in Nat /\ slot[d] < End(d) /\ End(d)' = End(d)
  BY <1>7, <1>10 DEF End
<1>12. End(c)' = nextSlot'
  BY <1>3, <1>6 DEF End
<1>13. \A d \in Admitted : End(d) <= g /\ slot[d] < g
  BY <1>1, <1>10, <1>11
<1>14. SoldToTheEnd'
  <2> SUFFICES ASSUME NEW d \in Admitted'
               PROVE  permits'[d] >= 1 /\ End(d)' <= nextSlot'
    BY DEF SoldToTheEnd
  <2>1. CASE d = c
    BY <1>5, <1>6, <1>12, <2>1
  <2>2. CASE d \in Admitted
    <3>1. permits'[d] = permits[d]
      BY <1>7, <1>10, <2>2
    <3> QED
      BY <1>1, <1>5, <1>10, <1>11, <2>2, <3>1
  <2> QED
    BY <1>9, <2>1, <2>2
<1>15. SlotsDisjoint'
  <2> SUFFICES ASSUME NEW d \in Admitted', NEW e \in Admitted', d # e
               PROVE  End(d)' <= slot'[e] \/ End(e)' <= slot'[d]
    BY DEF SlotsDisjoint
  <2>1. CASE d = c
    <3>1. e \in Admitted
      BY <1>9, <2>1
    <3> QED
      BY <1>6, <1>11, <1>13, <2>1, <3>1
  <2>2. CASE e = c
    <3>1. d \in Admitted
      BY <1>9, <2>2
    <3> QED
      BY <1>6, <1>11, <1>13, <2>2, <3>1
  <2>3. CASE d # c /\ e # c
    <3>1. d \in Admitted /\ e \in Admitted
      BY <1>9, <2>3
    <3>2. End(d) <= slot[e] \/ End(e) <= slot[d]
      BY <3>1 DEF SlotsDisjoint
    <3>3. slot'[d] = slot[d] /\ slot'[e] = slot[e]
      BY <1>7, <1>10, <3>1
    <3> QED
      BY <1>11, <3>1, <3>2, <3>3
  <2> QED
    BY <2>1, <2>2, <2>3
<1> QED
  BY <1>5, <1>6, <1>7, <1>10, <1>13, <1>14, <1>15 DEF g

(***************************************************************************)
(* Whoever stands in the queue has been admitted.                          *)
(***************************************************************************)
LEMMA QueuedAreAdmitted ==
    ASSUME PacerInv
    PROVE  \A i \in 1..Len(queue) : queue[i] \in Calls /\ outcome[queue[i]] = "queued"
<1> SUFFICES ASSUME NEW i \in 1..Len(queue)
             PROVE  queue[i] \in Calls /\ outcome[queue[i]] = "queued"
  OBVIOUS
<1>1. queue[i] \in Calls
  BY DEF PacerInv, IndInv, TypeOK
<1>2. status[queue[i]] # "new"
  BY DEF PacerInv, IndInv, OneEntryEach
<1> QED
  BY <1>1, <1>2 DEF PacerInv, HandedOver

(***************************************************************************)
(* A call that passes is sold a stretch that begins at its own reading.    *)
(***************************************************************************)
LEMMA PassInv ==
    ASSUME PacerInv, NEW c \in Calls, Pass(c)
    PROVE  PacerInv'
<1>1. PICK n \in Permits, limit \in Timeouts, r \in Reads(1) :
        /\ Called(c, n, limit)
        /\ WaitForNextSlot(NowMicros(r[1])) = 0
        /\ ReserveSlot(c, n, NowMicros(r[1]))
        /\ outcome' = [outcome EXCEPT ![c] = "passed"]
        /\ now' = r[1]
        /\ UNCHANGED <<queue, head, waiting, armed, status, grant, timer, wakeAt>>
  BY DEF Pass
<1> DEFINE t == NowMicros(r[1])
<1>typ. PacerTypeOK /\ SoldToTheEnd /\ SlotsDisjoint /\ HandedOver
  BY DEF PacerInv
<1>2. /\ r[1] \in Nat /\ now <= r[1] /\ r[1] <= MaxTime
      /\ t \in Nat /\ t <= r[1]
  <2>1. now \in 0..MaxTime
    BY <1>typ DEF PacerTypeOK, TypeOK
  <2> QED
    BY <2>1, FirstReading
<1>3. n \in Nat /\ n >= 1 /\ outcome[c] = "uncalled"
  BY <1>1, BoundsAssumption DEF Called
<1>4. now \in Nat /\ nextSlot \in Nat /\ slot \in [Calls -> Nat]
  BY <1>typ DEF PacerTypeOK, TypeOK
<1>5. Larger(nextSlot, t) = t
  BY <1>1, <1>2, <1>4 DEF WaitForNextSlot, Larger
<1>6. ReserveSlot(c, n, t) /\ outcome' = [outcome EXCEPT ![c] = "passed"]
  BY <1>1
<1>7. now' \in 0..MaxTime /\ now <= now' /\ t <= now'
  BY <1>1, <1>2, InstantsAssumption
<1> HIDE DEF t
<1>8. /\ nextSlot' \in Nat
      /\ outcome' \in [Calls -> Outcomes]
      /\ slot' \in [Calls -> Nat] /\ permits' \in [Calls -> Nat]
      /\ slot'[c] = t
      /\ \A d \in Calls \ {c} : slot'[d] = slot[d] /\ outcome'[d] = outcome[d]
      /\ SoldToTheEnd' /\ SlotsDisjoint'
  BY <1>typ, <1>2, <1>3, <1>5, <1>6, ReserveSells
<1>9. IndInv'
  BY <1>1, <1>7, QuietInv DEF PacerInv
<1>10. PacerTypeOK'
  BY <1>8, <1>9 DEF PacerTypeOK, IndInv
<1>11. outcome'[c] = "passed"
  BY <1>6, <1>typ DEF PacerTypeOK
<1>12. HandedOver'
  BY <1>1, <1>3, <1>8, <1>11, <1>typ DEF HandedOver
<1>13. GrantIsSlot'
  BY <1>1, <1>8, <1>11 DEF PacerInv, GrantIsSlot
<1>14. NeverEarly'
  <2> SUFFICES ASSUME NEW d \in Calls,
                      outcome'[d] = "passed" \/ status'[d] = "released"
               PROVE  slot'[d] <= now'
    BY DEF NeverEarly, Proceeded
  <2>1. CASE d = c
    BY <1>7, <1>8, <2>1
  <2>2. CASE d # c
    <3>1. outcome[d] = "passed" \/ status[d] = "released"
      BY <1>1, <1>8, <2>2
    <3>2. slot[d] <= now /\ slot[d] \in Nat /\ slot'[d] = slot[d]
      BY <1>4, <1>8, <2>2, <3>1 DEF PacerInv, NeverEarly, Proceeded
    <3> QED
      BY <1>2, <1>4, <1>1, <3>2
  <2> QED
    BY <2>1, <2>2
<1>15. QueuedInSlotOrder'
  <2>1. \A i \in 1..Len(queue) : slot'[queue[i]] = slot[queue[i]]
    BY <1>3, <1>8, QueuedAreAdmitted
  <2> QED
    BY <1>1, <2>1 DEF PacerInv, QueuedInSlotOrder
<1>16. DepthBounded'
  BY <1>1 DEF PacerInv, DepthBounded, Held
<1> QED
  BY <1>8, <1>9, <1>10, <1>12, <1>13, <1>14, <1>15, <1>16 DEF PacerInv

(***************************************************************************)
(* A call that queues: its grant, counted from the queue's reading, is its *)
(* slot, counted from the pacer's, put off by what passed between the two. *)
(***************************************************************************)
LEMMA QueueInv ==
    ASSUME PacerInv, NEW c \in Calls, Queue(c)
    PROVE  PacerInv'
<1>1. PICK n \in Permits, limit \in Timeouts, r \in Reads(4) :
        /\ Called(c, n, limit)
        /\ ~ OutOfBounds(WaitForNextSlot(NowMicros(r[1])), limit)
        /\ WaitForNextSlot(NowMicros(r[1])) > 0
        /\ ReserveSlot(c, n, NowMicros(r[1]))
        /\ outcome' = [outcome EXCEPT ![c] = "queued"]
        /\ Enqueue(c, WaitForNextSlot(NowMicros(r[1])), <<r[2], r[3], r[4]>>)
  BY DEF Queue
<1> DEFINE t == NowMicros(r[1])
           s == NowMicros(r[2])
           w == WaitForNextSlot(t)
           rest == <<r[2], r[3], r[4]>>
<1>typ. PacerTypeOK /\ SoldToTheEnd /\ SlotsDisjoint /\ HandedOver /\ IndInv
  BY DEF PacerInv
<1>2. now \in 0..MaxTime /\ now \in Nat /\ nextSlot \in Nat /\ waiting \in Nat
  BY <1>typ DEF PacerTypeOK, TypeOK
<1>3. /\ r[1] \in Nat /\ r[2] \in Nat
      /\ now <= r[1] /\ r[1] <= r[2] /\ r[2] <= r[1] + MaxGap
      /\ rest \in Reads(3)
  BY <1>2, FourReadings
<1>4. /\ t \in Nat /\ s \in Nat /\ t <= s /\ s <= r[2] /\ r[1] < t + Micro
  BY <1>3, NowMicrosBounds, NowMicrosAscends
<1>5. /\ n \in Nat /\ n >= 1 /\ outcome[c] = "uncalled"
      /\ limit \in Int
  BY <1>1, BoundsAssumption DEF Called
<1>6. /\ waiting < MaxDepth /\ w <= MaxDelay /\ w > 0
      /\ ReserveSlot(c, n, t) /\ outcome' = [outcome EXCEPT ![c] = "queued"]
      /\ Enqueue(c, w, rest)
  <2>1. w \in Int
    BY <1>2, <1>4 DEF WaitForNextSlot, Larger
  <2>2. w > 0 /\ ~ (waiting >= MaxDepth) /\ ~ (w > Smaller(MaxDelay, limit))
    BY <1>1 DEF OutOfBounds
  <2>3. waiting < MaxDepth /\ w <= MaxDelay
    BY <1>2, <1>5, <2>1, <2>2, BoundsAssumption DEF Smaller
  <2> QED
    BY <1>1, <2>2, <2>3
<1>7. w = nextSlot - t /\ w \in Nat /\ Larger(nextSlot, t) = nextSlot
  BY <1>2, <1>4, <1>6 DEF WaitForNextSlot, Larger
<1>8. w \in Waits
  <2>1. w \in 1..MaxDelay
    BY <1>6, <1>7, BoundsAssumption
  <2> QED
    BY <2>1, BoundsAssumption
<1>9. rest[1] = r[2] /\ rest[3] = r[4]
  OBVIOUS
<1>10. /\ status[c] = "new"
       /\ status' = [status EXCEPT ![c] = "held"]
       /\ grant' = [grant EXCEPT ![c] = s + w]
       /\ queue' = Append(queue, c)
       /\ waiting' = waiting + 1
       /\ now' = rest[3]
  BY <1>6, <1>9 DEF Enqueue, GrantMicros, Joined
<1> HIDE DEF t, s, w, rest
<1>11. IndInv'
  BY <1>typ, <1>3, <1>6, <1>8, EnqueueInv
<1>12. now' \in Nat /\ now <= now'
  BY <1>2, <1>3, <1>10, ReadsAscend
<1>13. /\ nextSlot' \in Nat
       /\ outcome' \in [Calls -> Outcomes]
       /\ slot' \in [Calls -> Nat] /\ permits' \in [Calls -> Nat]
       /\ slot'[c] = nextSlot
       /\ \A d \in Calls \ {c} : slot'[d] = slot[d] /\ outcome'[d] = outcome[d]
       /\ \A d \in Admitted : d # c /\ slot[d] < slot'[c]
       /\ SoldToTheEnd' /\ SlotsDisjoint'
  BY <1>typ, <1>4, <1>5, <1>6, <1>7, ReserveSells
<1>14. PacerTypeOK'
  BY <1>11, <1>13 DEF PacerTypeOK, IndInv
<1>15. /\ status \in [Calls -> Statuses] /\ grant \in [Calls -> Nat]
       /\ slot \in [Calls -> Nat] /\ outcome \in [Calls -> Outcomes]
  BY <1>typ DEF PacerTypeOK, TypeOK
<1>16. /\ outcome'[c] = "queued" /\ status'[c] = "held" /\ grant'[c] = s + w
       /\ \A d \in Calls \ {c} : status'[d] = status[d] /\ grant'[d] = grant[d]
  BY <1>6, <1>10, <1>15
<1>17. HandedOver'
  BY <1>13, <1>16, <1>typ DEF HandedOver
<1>18. GrantIsSlot'
  <2> SUFFICES ASSUME NEW d \in Calls, outcome'[d] = "queued"
               PROVE  slot'[d] <= grant'[d] /\ grant'[d] < slot'[d] + MaxGap + Micro
    BY DEF GrantIsSlot
  <2>1. CASE d = c
    <3>1. grant'[d] = s + (nextSlot - t) /\ slot'[d] = nextSlot
      BY <1>7, <1>13, <1>16, <2>1
    <3>2. MaxGap \in Nat /\ Micro \in Nat
      BY InstantsAssumption
    <3> QED
      BY <1>2, <1>3, <1>4, <3>1, <3>2
  <2>2. CASE d # c
    BY <1>13, <1>16, <2>2 DEF PacerInv, GrantIsSlot
  <2> QED
    BY <2>1, <2>2
<1>19. NeverEarly'
  <2> SUFFICES ASSUME NEW d \in Calls,
                      outcome'[d] = "passed" \/ status'[d] = "released"
               PROVE  slot'[d] <= now'
    BY DEF NeverEarly, Proceeded
  <2>1. d # c
    BY <1>16
  <2>2. outcome[d] = "passed" \/ status[d] = "released"
    BY <1>13, <1>16, <2>1
  <2>3. slot[d] <= now /\ slot[d] \in Nat /\ slot'[d] = slot[d]
    BY <1>13, <1>15, <2>1, <2>2 DEF PacerInv, NeverEarly, Proceeded
  <2> QED
    BY <1>2, <1>12, <2>3
<1>20. QueuedInSlotOrder'
  <2> SUFFICES ASSUME NEW i \in 1..Len(queue'), NEW j \in 1..Len(queue'), i < j
               PROVE  slot'[queue'[i]] < slot'[queue'[j]]
    BY DEF QueuedInSlotOrder
  <2>1. queue \in Seq(Calls) /\ Len(queue) \in Nat
    BY <1>typ DEF PacerTypeOK, TypeOK
  <2>2. /\ Len(queue') = Len(queue) + 1
        /\ queue'[Len(queue) + 1] = c
        /\ \A k \in 1..Len(queue) : queue'[k] = queue[k]
    BY <1>10, <2>1
  <2>3. i \in 1..Len(queue) /\ (j \in 1..Len(queue) \/ j = Len(queue) + 1)
    BY <2>1, <2>2
  <2>4. \A k \in 1..Len(queue) :
           queue[k] \in Admitted /\ slot'[queue[k]] = slot[queue[k]]
    BY <1>5, <1>13, QueuedAreAdmitted DEF Admitted
  <2>5. CASE j \in 1..Len(queue)
    <3>1. slot[queue[i]] < slot[queue[j]]
      BY <2>3, <2>5 DEF PacerInv, QueuedInSlotOrder
    <3> QED
      BY <2>2, <2>3, <2>4, <2>5, <3>1
  <2>6. CASE j = Len(queue) + 1
    <3>1. slot[queue[i]] < slot'[c]
      BY <1>13, <2>3, <2>4
    <3> QED
      BY <2>2, <2>3, <2>4, <2>6, <3>1
  <2> QED
    BY <2>3, <2>5, <2>6
<1>21. DepthBounded'
  <2>1. waiting' = Cardinality(Held')
    BY <1>11 DEF IndInv, QueueMatchesCallers, DepthIsHeld
  <2>2. waiting + 1 <= MaxDepth
    BY <1>2, <1>6, BoundsAssumption
  <2> QED
    BY <1>10, <2>1, <2>2 DEF DepthBounded
<1> QED
  BY <1>11, <1>13, <1>14, <1>17, <1>18, <1>19, <1>20, <1>21 DEF PacerInv

(***************************************************************************)
(* The invariant holds initially and is preserved, action by action.       *)
(***************************************************************************)
LEMMA PacerInitInv == PacerInit => PacerInv
<1> SUFFICES ASSUME PacerInit PROVE PacerInv
  OBVIOUS
<1>1. IndInv
  BY InitInv DEF PacerInit
<1>2. /\ \A c \in Calls : outcome[c] = "uncalled" /\ status[c] = "new"
      /\ queue = <<>>
  BY DEF PacerInit, Init
<1>3. PacerTypeOK
  BY <1>1 DEF PacerInit, PacerTypeOK, Outcomes, IndInv
<1>4. Held = {} /\ Admitted = {} /\ Proceeded = {} /\ Len(queue) = 0
  BY <1>2 DEF Held, Admitted, Proceeded
<1>5. HandedOver /\ SoldToTheEnd /\ SlotsDisjoint /\ NeverEarly /\ GrantIsSlot
  BY <1>2, <1>4 DEF HandedOver, SoldToTheEnd, SlotsDisjoint, NeverEarly, GrantIsSlot
<1>6. QueuedInSlotOrder
  BY <1>4 DEF QueuedInSlotOrder
<1>7. DepthBounded
  BY <1>4, FS_EmptySet, BoundsAssumption DEF DepthBounded
<1> QED
  BY <1>1, <1>3, <1>5, <1>6, <1>7 DEF PacerInv

(***************************************************************************)
(* Every step of pacer and queue preserves the invariant.                  *)
(***************************************************************************)
LEMMA PacerNextInv == PacerInv /\ [PacerNext]_pacerVars => PacerInv'
<1> SUFFICES ASSUME PacerInv, [PacerNext]_pacerVars PROVE PacerInv'
  OBVIOUS
<1>ind. IndInv /\ now \in Nat /\ now \in 0..MaxTime
  BY DEF PacerInv, IndInv, TypeOK
<1>1. ASSUME NEW c \in Calls, Fail(c) PROVE PacerInv'
  <2>1. /\ outcome[c] = "uncalled"
        /\ outcome' = [outcome EXCEPT ![c] = "failed"]
        /\ UNCHANGED <<now, nextSlot, slot, permits, queue, head, waiting,
                       armed, status, grant, timer, wakeAt>>
    BY <1>1 DEF Fail, vars
  <2>2. now <= now' /\ now' \in 0..MaxTime
    BY <1>ind, <2>1
  <2> QED
    BY <2>1, <2>2, TurnedAwayInv
<1>2. ASSUME NEW c \in Calls, Refuse(c) PROVE PacerInv'
  <2>1. PICK r \in Reads(1) :
          /\ outcome[c] = "uncalled"
          /\ outcome' = [outcome EXCEPT ![c] = "refused"]
          /\ now' = r[1]
          /\ UNCHANGED <<nextSlot, slot, permits, queue, head, waiting,
                         armed, status, grant, timer, wakeAt>>
    BY <1>2 DEF Refuse, Called
  <2>2. r[1] \in Nat /\ now <= r[1] /\ r[1] <= MaxTime
    BY <1>ind, FirstReading
  <2>3. now <= now' /\ now' \in 0..MaxTime
    BY <2>1, <2>2, InstantsAssumption
  <2> QED
    BY <2>1, <2>3, TurnedAwayInv
<1>3. ASSUME NEW c \in Calls, Pass(c) PROVE PacerInv'
  BY <1>3, PassInv
<1>4. ASSUME NEW c \in Calls, Queue(c) PROVE PacerInv'
  BY <1>4, QueueInv
<1>5. ASSUME NEW c \in Calls, QueueStep(c) PROVE PacerInv'
  <2>1. QueueSteps /\ UNCHANGED slotVars
    BY <1>5 DEF QueueStep, QueueSteps
  <2> QED
    BY <1>ind, <2>1, QueueStepsSettle, SettlingInv
<1>6. ASSUME now <= now', now' \in 0..MaxTime, UNCHANGED slotVars,
             UNCHANGED <<queue, head, waiting, armed, status, grant, timer, wakeAt>>
      PROVE  PacerInv'
  <2>1. IndInv'
    BY <1>ind, <1>6, QuietInv
  <2>2. Settling
    BY <1>ind, <1>6, QuietSettles
  <2> QED
    BY <1>6, <2>1, <2>2, SettlingInv
<1>7. CASE Tick /\ UNCHANGED slotVars
  <2>1. now <= now' /\ now' \in 0..MaxTime
    BY <1>ind, <1>7, InstantsAssumption DEF Tick, TimePasses
  <2> QED
    BY <1>6, <1>7, <2>1 DEF Tick, TimePasses
<1>8. CASE UNCHANGED pacerVars
  BY <1>ind, <1>6, <1>8 DEF pacerVars, vars, slotVars
<1>9. CASE Rest /\ UNCHANGED slotVars
  BY <1>8, <1>9 DEF Rest, pacerVars
<1> QED
  BY <1>1, <1>2, <1>3, <1>4, <1>5, <1>7, <1>8, <1>9 DEF PacerNext

(***************************************************************************)
(* The inductive invariant of pacer and queue together.                    *)
(***************************************************************************)
THEOREM PacerInvariant == PacerSpec => []PacerInv
  BY PacerInitInv, PacerNextInv, PTL DEF PacerSpec

(***************************************************************************)
(* Type correctness.                                                       *)
(***************************************************************************)
THEOREM PacerTypes == PacerSpec => []PacerTypeOK
<1>1. PacerInv => PacerTypeOK
  BY DEF PacerInv
<1> QED
  BY <1>1, PacerInvariant, PTL

(***************************************************************************)
(* No two admitted calls are ever sold the same stretch of the timeline.   *)
(***************************************************************************)
THEOREM NoStretchSoldTwice == PacerSpec => []SlotsDisjoint
<1>1. PacerInv => SlotsDisjoint
  BY DEF PacerInv
<1> QED
  BY <1>1, PacerInvariant, PTL

(***************************************************************************)
(* Nobody proceeds before the slot it was sold, however coarse the clock   *)
(* and however far it moves between the readings.                          *)
(***************************************************************************)
THEOREM NobodyIsEarly == PacerSpec => [](NeverEarly /\ GrantIsSlot)
<1>1. PacerInv => NeverEarly /\ GrantIsSlot
  BY DEF PacerInv
<1> QED
  BY <1>1, PacerInvariant, PTL

(***************************************************************************)
(* The queue is in the order of the slots, though not of the grants.       *)
(***************************************************************************)
THEOREM LineFollowsTimeline == PacerSpec => []QueuedInSlotOrder
<1>1. PacerInv => QueuedInSlotOrder
  BY DEF PacerInv
<1> QED
  BY <1>1, PacerInvariant, PTL

(***************************************************************************)
(* No more callers are held than maxQueueDepth.                            *)
(***************************************************************************)
THEOREM DepthIsBounded == PacerSpec => []DepthBounded
<1>1. PacerInv => DepthBounded
  BY DEF PacerInv
<1> QED
  BY <1>1, PacerInvariant, PTL

-----------------------------------------------------------------------------
(***************************************************************************)
(* Only a call that passes changes its outcome to passed.                  *)
(***************************************************************************)
LEMMA OnlyPassPasses ==
    ASSUME PacerInv, [PacerNext]_pacerVars, NEW c \in Calls,
           outcome[c] # "passed", outcome'[c] = "passed"
    PROVE  Pass(c)
<1>1. outcome \in [Calls -> Outcomes]
  BY DEF PacerInv, PacerTypeOK
<1>2. CASE UNCHANGED outcome
  BY <1>2
<1>3. ASSUME NEW d \in Calls,
             \/ outcome' = [outcome EXCEPT ![d] = "failed"]
             \/ outcome' = [outcome EXCEPT ![d] = "refused"]
             \/ outcome' = [outcome EXCEPT ![d] = "queued"]
      PROVE  FALSE
  BY <1>1, <1>3
<1>4. ASSUME NEW d \in Calls, Pass(d)
      PROVE  c = d
  <2>1. outcome' = [outcome EXCEPT ![d] = "passed"]
    BY <1>4 DEF Pass
  <2> QED
    BY <1>1, <2>1
<1>5. \/ UNCHANGED outcome
      \/ \E d \in Calls : Pass(d)
      \/ \E d \in Calls : \/ outcome' = [outcome EXCEPT ![d] = "failed"]
                          \/ outcome' = [outcome EXCEPT ![d] = "refused"]
                          \/ outcome' = [outcome EXCEPT ![d] = "queued"]
  BY DEF PacerNext, Fail, Refuse, Queue, QueueStep, pacerVars, slotVars
<1> QED
  BY <1>2, <1>3, <1>4, <1>5

(***************************************************************************)
(* A caller that need not wait overtakes only callers whose whole stretch  *)
(* is over.                                                                *)
(***************************************************************************)
THEOREM OvertakenAreOverdue == PacerSpec => OvertakesOnlyTheOverdue
<1> DEFINE Step == \A c \in Calls :
                      outcome[c] # "passed" /\ outcome'[c] = "passed"
                        => \A d \in Held : End(d) <= now'
<1>1. ASSUME PacerInv, [PacerNext]_pacerVars
      PROVE  Step
  <2> SUFFICES ASSUME NEW c \in Calls,
                      outcome[c] # "passed", outcome'[c] = "passed",
                      NEW d \in Held
               PROVE  End(d) <= now'
    OBVIOUS
  <2>1. Pass(c)
    BY <1>1, OnlyPassPasses
  <2>2. PICK r \in Reads(1) :
          WaitForNextSlot(NowMicros(r[1])) = 0 /\ now' = r[1]
    BY <2>1 DEF Pass
  <2>3. now \in 0..MaxTime /\ nextSlot \in Nat
    BY <1>1 DEF PacerInv, PacerTypeOK, TypeOK
  <2>4. /\ r[1] \in Nat
        /\ NowMicros(r[1]) \in Nat /\ NowMicros(r[1]) <= r[1]
    BY <2>3, FirstReading
  <2>5. nextSlot <= now'
    BY <2>2, <2>3, <2>4 DEF WaitForNextSlot, Larger
  <2>6. d \in Admitted
    BY <1>1 DEF PacerInv, HandedOver, Held, Admitted
  <2>7. End(d) <= nextSlot
    BY <1>1, <2>6 DEF PacerInv, SoldToTheEnd
  <2>8. End(d) \in Int
    <3>1. slot[d] \in Nat /\ permits[d] \in Nat /\ Interval \in Nat
      BY <1>1, <2>6, PacerAssumption DEF PacerInv, PacerTypeOK, Admitted
    <3> QED
      BY <3>1, SMTT(30) DEF End
  <2> QED
    BY <2>2, <2>3, <2>4, <2>5, <2>7, <2>8
<1>2. PacerInv /\ [PacerNext]_pacerVars => [Step]_pacerVars
  BY <1>1
<1> QED
  BY <1>2, PacerInvariant, PTL DEF PacerSpec, OvertakesOnlyTheOverdue

-----------------------------------------------------------------------------
(***************************************************************************)
(* Seen from the queue, the pacer is one more owner: what it does is to    *)
(* call wait(), or to let time pass.  All that is proved of the queue      *)
(* holds of the pacer's.                                                   *)
(***************************************************************************)
LEMMA PacerStepIsQueueStep == PacerInv /\ [PacerNext]_pacerVars => [Next]_vars
<1> SUFFICES ASSUME PacerInv, [PacerNext]_pacerVars PROVE [Next]_vars
  OBVIOUS
<1>0. now \in Nat /\ now \in 0..MaxTime /\ nextSlot \in Nat
  BY DEF PacerInv, PacerTypeOK, TypeOK
<1>1. ASSUME NEW r \in Reads(1), now' = r[1],
             UNCHANGED <<queue, head, waiting, armed, status, grant, timer, wakeAt>>
      PROVE  [Next]_vars
  <2>1. now' \in Nat /\ now <= now' /\ now' <= MaxTime
    BY <1>0, <1>1, FirstReading
  <2>2. CASE now' = now
    BY <1>1, <2>2 DEF vars
  <2>3. CASE now' # now
    <3>1. now' \in (now + 1)..MaxTime
      BY <1>0, <2>1, <2>3, InstantsAssumption
    <3> QED
      BY <1>1, <3>1 DEF Tick, TimePasses, Next
  <2> QED
    BY <2>2, <2>3
<1>2. ASSUME NEW c \in Calls, Fail(c) PROVE UNCHANGED vars
  BY <1>2 DEF Fail
<1>3. ASSUME NEW c \in Calls, Refuse(c) PROVE [Next]_vars
  BY <1>1, <1>3 DEF Refuse
<1>4. ASSUME NEW c \in Calls, Pass(c) PROVE [Next]_vars
  BY <1>1, <1>4 DEF Pass
<1>5. ASSUME NEW c \in Calls, Queue(c) PROVE Next
  <2>1. PICK n \in Permits, limit \in Timeouts, r \in Reads(4) :
          /\ limit >= 0
          /\ ~ OutOfBounds(WaitForNextSlot(NowMicros(r[1])), limit)
          /\ WaitForNextSlot(NowMicros(r[1])) > 0
          /\ Enqueue(c, WaitForNextSlot(NowMicros(r[1])), <<r[2], r[3], r[4]>>)
    BY <1>5 DEF Queue, Called
  <2>2. r[1] \in Nat /\ NowMicros(r[1]) \in Nat /\ <<r[2], r[3], r[4]>> \in Reads(3)
    BY <1>0, FourReadings, NowMicrosBounds
  <2> DEFINE w == WaitForNextSlot(NowMicros(r[1]))
  <2>3. w \in Int /\ w > 0 /\ limit \in Int
    BY <1>0, <2>1, <2>2, BoundsAssumption DEF WaitForNextSlot, Larger
  <2>4. ~ (w > Smaller(MaxDelay, limit))
    BY <2>1 DEF OutOfBounds
  <2>5. Enqueue(c, w, <<r[2], r[3], r[4]>>)
    BY <2>1
  <2> HIDE DEF w
  <2>6. w \in 1..MaxDelay
    BY <2>3, <2>4, BoundsAssumption DEF Smaller
  <2>7. w \in Waits
    BY <2>6, BoundsAssumption
  <2> QED
    BY <2>2, <2>5, <2>7 DEF Wait, Next
<1>6. ASSUME NEW c \in Calls, QueueStep(c) PROVE Next
  BY <1>6 DEF QueueStep, Next
<1>7. CASE Tick \/ Rest
  BY <1>7 DEF Next
<1>8. CASE UNCHANGED pacerVars
  BY <1>8 DEF pacerVars
<1> QED
  BY <1>2, <1>3, <1>4, <1>5, <1>6, <1>7, <1>8 DEF PacerNext

(***************************************************************************)
(* Every behaviour of pacer and queue is one of the queue: the theorems of *)
(* WaitQueueProofs apply to it.                                            *)
(***************************************************************************)
THEOREM PacerOwnsQueue == PacerSpec => Spec
<1>1. PacerInit => Init
  BY DEF PacerInit
<1> QED
  BY <1>1, PacerStepIsQueueStep, PacerInvariant, PTL DEF PacerSpec, Spec

(***************************************************************************)
(* Callers the pacer queued are released in the order they came.           *)
(***************************************************************************)
THEOREM PacerReleasesInOrder == PacerSpec => ArrivalOrder
  BY PacerOwnsQueue, ReleasedInOrder

-----------------------------------------------------------------------------
(***************************************************************************)
(* No slot is sold further ahead than the delay bound allows: what the     *)
(* bounds were checked against is what is reserved, and the clock only     *)
(* moves towards it.                                                       *)
(***************************************************************************)
SoldWithinDelay == \A c \in Admitted : slot[c] <= now + MaxDelay

(***************************************************************************)
(* What a step has to do to keep it.                                       *)
(***************************************************************************)
LEMMA SoldWithinDelayKept ==
    ASSUME PacerInv, PacerInv', SoldWithinDelay, now <= now',
           \A c \in Admitted' : \/ c \in Admitted /\ slot'[c] = slot[c]
                                \/ slot'[c] <= now' + MaxDelay
    PROVE  SoldWithinDelay'
<1> SUFFICES ASSUME NEW c \in Admitted' PROVE slot'[c] <= now' + MaxDelay
  BY DEF SoldWithinDelay
<1>1. now \in Nat /\ now' \in Nat /\ MaxDelay \in Nat
  BY BoundsAssumption DEF PacerInv, PacerTypeOK, TypeOK
<1>2. CASE c \in Admitted /\ slot'[c] = slot[c]
  <2>1. slot[c] \in Nat /\ slot[c] <= now + MaxDelay
    BY <1>2 DEF SoldWithinDelay, PacerInv, PacerTypeOK, Admitted
  <2> QED
    BY <1>1, <1>2, <2>1
<1> QED
  BY <1>2

(***************************************************************************)
(* A reservation at t, at the wait that passed the bounds.                 *)
(***************************************************************************)
LEMMA ReservedWithinDelay ==
    ASSUME PacerInv, NEW c \in Calls, NEW n, NEW limit \in Int,
           NEW t \in Nat, NEW later \in Nat, t <= later,
           ~ OutOfBounds(WaitForNextSlot(t), limit), ReserveSlot(c, n, t)
    PROVE  /\ slot'[c] <= later + MaxDelay
           /\ \A d \in Calls \ {c} : slot'[d] = slot[d]
<1>1. /\ nextSlot \in Nat /\ MaxDelay \in Nat /\ slot \in [Calls -> Nat]
      /\ slot' = [slot EXCEPT ![c] = Larger(nextSlot, t)]
  BY BoundsAssumption DEF PacerInv, PacerTypeOK, ReserveSlot
<1>2. WaitForNextSlot(t) \in Int /\ WaitForNextSlot(t) <= MaxDelay
  BY <1>1 DEF OutOfBounds, Smaller, WaitForNextSlot, Larger
<1>3. Larger(nextSlot, t) <= t + MaxDelay /\ Larger(nextSlot, t) \in Nat
  BY <1>1, <1>2 DEF WaitForNextSlot, Larger
<1> QED
  BY <1>1, <1>3

LEMMA SoldWithinDelayNext ==
    ASSUME PacerInv, PacerInv', SoldWithinDelay, [PacerNext]_pacerVars
    PROVE  SoldWithinDelay'
<1>typ. /\ now \in Nat /\ now \in 0..MaxTime /\ outcome \in [Calls -> Outcomes]
        /\ now' \in Nat /\ IndInv
  BY DEF PacerInv, PacerTypeOK, TypeOK
<1>1. ASSUME NEW c \in Calls, NEW o \in {"passed", "queued"},
             outcome' = [outcome EXCEPT ![c] = o], now <= now',
             slot'[c] <= now' + MaxDelay,
             \A d \in Calls \ {c} : slot'[d] = slot[d]
      PROVE  SoldWithinDelay'
  <2>1. \A d \in Calls \ {c} : d \in Admitted' => d \in Admitted
    BY <1>typ, <1>1 DEF Admitted
  <2>2. \A d \in Admitted' : d \in Calls
    BY DEF Admitted
  <2> QED
    BY <1>1, <2>1, <2>2, SoldWithinDelayKept
<1>2. ASSUME slot' = slot, outcome' = outcome, now <= now'
      PROVE  SoldWithinDelay'
  BY <1>2, SoldWithinDelayKept DEF Admitted
<1>3. ASSUME NEW c \in Calls, Fail(c) \/ Refuse(c) PROVE SoldWithinDelay'
  <2>1. PICK o \in {"failed", "refused"} : outcome' = [outcome EXCEPT ![c] = o]
    BY <1>3 DEF Fail, Refuse
  <2>2. Admitted' \subseteq Admitted
    BY <1>typ, <2>1 DEF Admitted
  <2>3. slot' = slot /\ now <= now'
    BY <1>typ, <1>3, FirstReading DEF Fail, Refuse, vars
  <2> QED
    BY <2>2, <2>3, SoldWithinDelayKept
<1>4. ASSUME NEW c \in Calls, Pass(c) PROVE SoldWithinDelay'
  <2>1. PICK n \in Permits, limit \in Timeouts, r \in Reads(1) :
          /\ ~ OutOfBounds(WaitForNextSlot(NowMicros(r[1])), limit)
          /\ ReserveSlot(c, n, NowMicros(r[1]))
          /\ outcome' = [outcome EXCEPT ![c] = "passed"]
          /\ now' = r[1]
    BY <1>4 DEF Pass
  <2>2. /\ r[1] \in Nat /\ now <= r[1] /\ limit \in Int
        /\ NowMicros(r[1]) \in Nat /\ NowMicros(r[1]) <= r[1]
    BY <1>typ, FirstReading, BoundsAssumption
  <2>3. /\ slot'[c] <= now' + MaxDelay
        /\ \A d \in Calls \ {c} : slot'[d] = slot[d]
    BY <2>1, <2>2, ReservedWithinDelay
  <2> QED
    BY <1>1, <2>1, <2>2, <2>3
<1>5. ASSUME NEW c \in Calls, Queue(c) PROVE SoldWithinDelay'
  <2>1. PICK n \in Permits, limit \in Timeouts, r \in Reads(4) :
          /\ ~ OutOfBounds(WaitForNextSlot(NowMicros(r[1])), limit)
          /\ ReserveSlot(c, n, NowMicros(r[1]))
          /\ outcome' = [outcome EXCEPT ![c] = "queued"]
          /\ now' = (<<r[2], r[3], r[4]>>)[3]
    BY <1>5 DEF Queue, Enqueue
  <2> DEFINE t == NowMicros(r[1])
             rest == <<r[2], r[3], r[4]>>
  <2>2. /\ r[1] \in Nat /\ now <= r[1] /\ r[1] <= rest[1]
        /\ t \in Nat /\ t <= r[1] /\ limit \in Int /\ rest \in Reads(3)
    BY <1>typ, FourReadings, NowMicrosBounds, BoundsAssumption
  <2>3. now' = rest[3]
    BY <2>1
  <2>4. ~ OutOfBounds(WaitForNextSlot(t), limit) /\ ReserveSlot(c, n, t)
    BY <2>1
  <2> HIDE DEF t, rest
  <2>5. rest[1] \in Nat /\ rest[2] \in Nat /\ rest[1] <= rest[2] /\ rest[2] <= rest[3]
    BY <1>typ, <2>2, ReadsAscend
  <2>6. t <= now' /\ now <= now'
    BY <1>typ, <2>2, <2>3, <2>5
  <2>7. /\ slot'[c] <= now' + MaxDelay
        /\ \A d \in Calls \ {c} : slot'[d] = slot[d]
    BY <1>typ, <2>2, <2>4, <2>6, ReservedWithinDelay
  <2> QED
    BY <1>1, <2>1, <2>6, <2>7
<1>6. ASSUME NEW c \in Calls, QueueStep(c) PROVE SoldWithinDelay'
  <2>1. Settling
    BY <1>typ, <1>6, QueueStepsSettle DEF QueueStep, QueueSteps
  <2> QED
    BY <1>2, <1>6, <2>1 DEF QueueStep, slotVars, Settling
<1>7. CASE (Tick \/ Rest) /\ UNCHANGED slotVars
  <2>1. now <= now'
    BY <1>typ, <1>7, InstantsAssumption DEF Tick, TimePasses, Rest, vars
  <2> QED
    BY <1>2, <1>7, <2>1 DEF slotVars
<1>8. CASE UNCHANGED pacerVars
  BY <1>typ, <1>2, <1>8 DEF pacerVars, vars, slotVars
<1> QED
  BY <1>3, <1>4, <1>5, <1>6, <1>7, <1>8 DEF PacerNext

(***************************************************************************)
(* Two entries of the queue are a whole interval apart.                    *)
(***************************************************************************)
LEMMA EntriesApart ==
    ASSUME PacerInv, NEW i \in 1..Len(queue), NEW j \in 1..Len(queue), i < j
    PROVE  slot[queue[i]] + Interval <= slot[queue[j]]
<1> DEFINE c == queue[i]
           d == queue[j]
<1>1. /\ c \in Calls /\ d \in Calls /\ c \in Admitted /\ d \in Admitted
  BY QueuedAreAdmitted DEF Admitted
<1>2. slot[c] < slot[d]
  BY DEF PacerInv, QueuedInSlotOrder
<1> HIDE DEF c, d
<1>3. /\ slot[c] \in Nat /\ slot[d] \in Nat /\ permits[c] \in Nat /\ permits[d] \in Nat
      /\ permits[c] >= 1 /\ permits[d] >= 1
  BY <1>1 DEF PacerInv, PacerTypeOK, SoldToTheEnd
<1>4. c # d
  BY <1>2, <1>3
<1>5. End(c) <= slot[d] \/ End(d) <= slot[c]
  BY <1>1, <1>4 DEF PacerInv, SlotsDisjoint
<1>6. /\ permits[c] * Interval \in Nat /\ permits[d] * Interval \in Nat
      /\ permits[d] * Interval >= 1 /\ Interval \in Nat
  BY <1>3, CostIsPositive, PacerAssumption
<1>7. Interval <= permits[c] * Interval
  <2>1. 1 * Interval <= permits[c] * Interval
    BY <1>3, <1>6, ProductAscends
  <2> QED
    BY <1>6, <2>1
<1>8. End(c) <= slot[d]
  BY <1>2, <1>3, <1>5, <1>6 DEF End
<1>9. slot[c] + Interval <= slot[d]
  BY <1>3, <1>6, <1>7, <1>8, SMTT(30) DEF End
<1> QED
  BY <1>9 DEF c, d

(***************************************************************************)
(* Numbers an interval apart have different quotients.                     *)
(***************************************************************************)
LEMMA QuotientsApart ==
    ASSUME NEW a \in Nat, NEW b \in Nat, NEW n \in Nat \ {0}, a + n <= b
    PROVE  a \div n < b \div n
<1> DEFINE q == a \div n
<1>1. q \in Nat /\ n * q <= a
  BY Floor
<1> HIDE DEF q
<1>2. (q + 1) * n = n * q + n
  BY <1>1, SMTT(30)
<1>3. n * q \in Nat
  BY <1>1, ProductIsNat
<1>4. (q + 1) * n <= b
  BY <1>1, <1>2, <1>3
<1>5. q + 1 <= b \div n
  BY <1>1, <1>4, FloorIsLargest
<1>6. b \div n \in Nat
  BY Floor
<1>7. q < b \div n
  BY <1>1, <1>5, <1>6
<1> QED
  BY <1>7 DEF q

(***************************************************************************)
(* The entries not yet due share out the delay bound between them: counted *)
(* in intervals from now, their slots are all different.                   *)
(***************************************************************************)
LEMMA BacklogCounted == PacerInv /\ SoldWithinDelay => BacklogFitsDelay
<1> SUFFICES ASSUME PacerInv, SoldWithinDelay, Pending # {}
             PROVE  (Cardinality(Pending) - 1) * Interval < MaxDelay
  BY DEF BacklogFitsDelay
<1>1. /\ now \in Nat /\ head \in Nat /\ Len(queue) \in Nat
      /\ MaxDelay \in Nat \ {0} /\ Interval \in Nat \ {0}
  BY BoundsAssumption, PacerAssumption DEF PacerInv, PacerTypeOK, TypeOK
<1> DEFINE ahead == [i \in Pending |-> slot[queue[i]] - (now + 1)]
           most == (MaxDelay - 1) \div Interval
           place == [i \in Pending |-> ahead[i] \div Interval]
<1>2. /\ most \in Nat /\ Interval * most <= MaxDelay - 1
  BY <1>1, Floor
<1>3. \A i \in Pending : i \in 1..Len(queue)
  BY <1>1 DEF Pending, Undrained
<1>4. ASSUME NEW i \in Pending
      PROVE  /\ slot[queue[i]] \in Nat /\ slot[queue[i]] > now
             /\ slot[queue[i]] <= now + MaxDelay
  <2>1. queue[i] \in Calls /\ queue[i] \in Admitted
    BY <1>3, QueuedAreAdmitted DEF Admitted
  <2> QED
    BY <2>1 DEF PacerInv, PacerTypeOK, SoldWithinDelay, Pending
<1>5. \A i \in Pending : /\ ahead[i] \in Nat /\ ahead[i] <= MaxDelay - 1
                         /\ ahead[i] = slot[queue[i]] - (now + 1)
  BY <1>1, <1>4
<1>6. ASSUME NEW i \in Pending, NEW j \in Pending, i < j
      PROVE  ahead[i] + Interval <= ahead[j]
  <2>1. slot[queue[i]] + Interval <= slot[queue[j]]
    BY <1>3, <1>6, EntriesApart
  <2> QED
    BY <1>1, <1>4, <1>5, <2>1, SMTT(30)
<1> HIDE DEF ahead
<1>7. \A i \in Pending : place[i] \in 0..most
  <2> SUFFICES ASSUME NEW i \in Pending PROVE ahead[i] \div Interval \in 0..most
    OBVIOUS
  <2> DEFINE q == ahead[i] \div Interval
             x == MaxDelay - 1
  <2>1. ahead[i] \in Nat /\ ahead[i] <= x /\ x \in Nat
    BY <1>1, <1>5
  <2>2. q \in Nat /\ Interval * q <= ahead[i] /\ Interval * q \in Nat
    BY <1>1, <2>1, Floor, ProductIsNat
  <2> HIDE DEF q
  <2>3. q * Interval = Interval * q
    BY <1>1, <2>2, SMTT(30)
  <2>4. q * Interval <= x
    BY <2>1, <2>2, <2>3
  <2> HIDE DEF x
  <2>5. q <= x \div Interval
    BY <1>1, <2>1, <2>2, <2>4, FloorIsLargest
  <2> QED
    BY <1>2, <2>2, <2>5 DEF q, x
<1>8. \A i \in Pending, j \in Pending : i < j => place[i] < place[j]
  BY <1>1, <1>5, <1>6, QuotientsApart
<1>9. place \in Injection(Pending, 0..most)
  <2>1. place \in [Pending -> 0..most]
    BY <1>7
  <2>2. ASSUME NEW i \in Pending, NEW j \in Pending, place[i] = place[j]
        PROVE  i = j
    <3>1. i \in Nat /\ j \in Nat /\ place[i] \in Nat /\ place[j] \in Nat
      BY <1>2, <1>3, <1>7
    <3>2. ~ (i < j) /\ ~ (j < i)
      BY <1>8, <2>2, <3>1
    <3> QED
      BY <3>1, <3>2
  <2> QED
    BY <2>1, <2>2 DEF Injection, IsInjective
<1> HIDE DEF place, most
<1>10. IsFiniteSet(0..most) /\ Cardinality(0..most) = most + 1
  BY <1>2, FS_Interval
<1>11. IsFiniteSet(Pending) /\ Cardinality(Pending) <= most + 1
  BY <1>9, <1>10, FS_Injection
<1>12. Cardinality(Pending) \in Nat /\ Cardinality(Pending) # 0
  BY <1>11, FS_CardinalityType, FS_EmptySet
<1> DEFINE k == Cardinality(Pending) - 1
<1>13. k \in Nat /\ k <= most
  BY <1>2, <1>11, <1>12
<1> HIDE DEF k
<1>14. k * Interval <= most * Interval
  BY <1>1, <1>2, <1>13, ProductAscends
<1>15. most * Interval = Interval * most /\ k * Interval \in Nat /\ Interval * most \in Nat
  BY <1>1, <1>2, <1>13, ProductIsNat, SMTT(30)
<1>16. k * Interval < MaxDelay
  BY <1>1, <1>2, <1>14, <1>15
<1> QED
  BY <1>16 DEF k

(***************************************************************************)
(* However many callers come and cancel, the delay bound alone holds back  *)
(* what stands in the queue and is not yet due.                            *)
(***************************************************************************)
THEOREM BacklogIsBounded == PacerSpec => [](SoldWithinDelay /\ BacklogFitsDelay)
<1>1. PacerInit => SoldWithinDelay
  BY DEF PacerInit, SoldWithinDelay, Admitted
<1>2. PacerInv /\ PacerInv' /\ SoldWithinDelay /\ [PacerNext]_pacerVars
        => SoldWithinDelay'
  BY SoldWithinDelayNext
<1> QED
  BY <1>1, <1>2, BacklogCounted, PacerInvariant, PTL DEF PacerSpec

-----------------------------------------------------------------------------
(***************************************************************************)
(* Pacer implements Admission.                                             *)
(***************************************************************************)
LEMMA Phases ==
    /\ \A s : PhaseOf("passed", s) = "through"
    /\ PhaseOf("queued", "held") = "waiting"
    /\ PhaseOf("queued", "released") = "through"
    /\ PhaseOf("queued", "aborted") = "gone"
    /\ \A o \in {"uncalled", "failed", "refused"} : \A s : PhaseOf(o, s) = "outside"
  BY DEF PhaseOf

(***************************************************************************)
(* A step in which time may pass and no call changes phase.                *)
(***************************************************************************)
LEMMA TimelineWaits ==
    ASSUME now' \in now..MaxTime, Phase' = Phase,
           UNCHANGED <<nextSlot, slot, permits>>
    PROVE  Timeline!Next
<1> DEFINE group == {}
<1>1. group \in SUBSET {c \in Calls : Phase[c] = "waiting"}
  OBVIOUS
<1>2. Phase' = [c \in Calls |-> IF c \in group THEN "through" ELSE Phase[c]]
  BY DEF Phase
<1>3. \A c \in group : slot[c] <= now' + 0
  OBVIOUS
<1> HIDE DEF group
<1>4. Timeline!GoThrough
  BY <1>1, <1>2, <1>3 DEF Timeline!GoThrough, Timeline!TimePasses
<1> QED
  BY <1>4 DEF Timeline!Next

(***************************************************************************)
(* A step that admits one call at t, the reading of the clock, truncated.  *)
(***************************************************************************)
LEMMA TimelineAdmits ==
    ASSUME PacerInv, NEW c \in Calls, outcome[c] = "uncalled",
           NEW r \in Nat, now <= r,
           NEW n \in Nat, n >= 1, ReserveSlot(c, n, NowMicros(r)),
           NEW o \in {"passed", "queued"},
           outcome' = [outcome EXCEPT ![c] = o],
           now' \in now..MaxTime,
           \A d \in Calls \ {c} : status'[d] = status[d],
           \/ o = "queued" /\ status'[c] = "held"
           \/ o = "passed" /\ slot'[c] <= now'
    PROVE  Timeline!Next
<1> DEFINE t == NowMicros(r)
<1>1. now \in Nat /\ nextSlot \in Nat /\ PacerTypeOK /\ SoldToTheEnd /\ SlotsDisjoint
  BY DEF PacerInv, PacerTypeOK, TypeOK
<1>2. t \in Nat /\ r < t + Micro /\ Micro \in Nat
  BY NowMicrosBounds, InstantsAssumption
<1>3. ReserveSlot(c, n, t)
  OBVIOUS
<1> HIDE DEF t
<1>4. /\ slot'[c] = Larger(nextSlot, t)
      /\ slot' \in [Calls -> Nat] /\ permits' \in [Calls -> Nat]
      /\ outcome' \in [Calls -> Outcomes]
      /\ \A d \in Calls \ {c} : slot'[d] = slot[d] /\ outcome'[d] = outcome[d]
  BY <1>1, <1>2, <1>3, ReserveSells
<1>5. /\ permits' = [permits EXCEPT ![c] = n]
      /\ nextSlot' = Larger(nextSlot, t) + n * Interval
      /\ outcome \in [Calls -> Outcomes] /\ permits \in [Calls -> Nat]
  BY <1>1, <1>3 DEF ReserveSlot, PacerTypeOK
<1>6. /\ permits'[c] = n /\ outcome'[c] = o
      /\ \A d \in Calls \ {c} : permits'[d] = permits[d]
  BY <1>5
<1>7. \A d \in Calls \ {c} : Phase'[d] = Phase[d]
  BY <1>4 DEF Phase
<1>8. Phase[c] = "outside"
  BY Phases DEF Phase
<1>9. \/ Phase'[c] = "waiting"
      \/ Phase'[c] = "through" /\ slot'[c] <= now' + 0
  <2>1. Phase'[c] = PhaseOf(o, status'[c])
    BY <1>6 DEF Phase
  <2>2. CASE o = "queued" /\ status'[c] = "held"
    BY <2>1, <2>2, Phases
  <2>3. CASE o = "passed" /\ slot'[c] <= now'
    <3>1. now' \in Nat
      BY <1>1
    <3> QED
      BY <2>1, <2>3, <3>1, Phases
  <2> QED
    BY <2>2, <2>3
<1>10. /\ slot'[c] >= nextSlot
       /\ slot'[c] >= now - (Micro - 1)
       /\ nextSlot' >= slot'[c] + permits'[c] * Interval
  <2>1. n * Interval \in Nat
    BY CostIsPositive
  <2>2. slot'[c] \in Nat /\ slot'[c] >= nextSlot /\ slot'[c] >= t
    BY <1>1, <1>2, <1>4 DEF Larger
  <2>3. slot'[c] >= now - (Micro - 1)
    BY <1>1, <1>2, <2>2
  <2> QED
    BY <1>4, <1>5, <1>6, <2>1, <2>2, <2>3
<1>11. Timeline!Admit(c)
  BY <1>4, <1>6, <1>7, <1>8, <1>9, <1>10 DEF Timeline!Admit, Timeline!TimePasses
<1> QED
  BY <1>11 DEF Timeline!Next

(***************************************************************************)
(* A fresh pacer is a fresh timeline.                                      *)
(***************************************************************************)
LEMMA TimelineInit == PacerInit => Timeline!Init
<1> SUFFICES ASSUME PacerInit PROVE Timeline!Init
  OBVIOUS
<1>1. \A c \in Calls : PhaseOf(outcome[c], status[c]) = "outside"
  BY Phases DEF PacerInit
<1>2. Phase = [c \in Calls |-> "outside"]
  BY <1>1 DEF Phase
<1> QED
  BY <1>2, InstantsAssumption DEF PacerInit, Init, Timeline!Init

(***************************************************************************)
(* What the queue does to the callers, as the timeline sees it: a cancel-  *)
(* ler gives up, a drain lets its group through, a timer changes nothing.  *)
(***************************************************************************)
LEMMA TimelineOfQueue ==
    ASSUME PacerInv, NEW c \in Calls, QueueStep(c)
    PROVE  Timeline!Next
<1>typ. /\ IndInv /\ now \in Nat /\ now \in 0..MaxTime
        /\ status \in [Calls -> Statuses] /\ grant \in [Calls -> Nat]
        /\ slot \in [Calls -> Nat]
  BY DEF PacerInv, PacerTypeOK, TypeOK
<1>1. outcome' = outcome /\ UNCHANGED <<nextSlot, slot, permits>>
  BY DEF QueueStep, slotVars
<1>2. CASE Abort(c)
  <2>1. /\ status[c] = "held" /\ now' = now
        /\ status' = [status EXCEPT ![c] = "aborted"]
    BY <1>2 DEF Abort, Listening
  <2>2. outcome[c] = "queued"
    BY <2>1 DEF PacerInv, HandedOver
  <2>3. Phase[c] = "waiting"
    BY <2>1, <2>2, Phases DEF Phase
  <2>4. status'[c] = "aborted" /\ \A d \in Calls \ {c} : status'[d] = status[d]
    BY <1>typ, <2>1
  <2>5. /\ PhaseOf(outcome'[c], status'[c]) = "gone"
        /\ \A d \in Calls \ {c} :
              PhaseOf(outcome'[d], status'[d]) = PhaseOf(outcome[d], status[d])
    BY <1>1, <2>2, <2>4, Phases
  <2>6. Phase' = [Phase EXCEPT ![c] = "gone"]
    BY <2>5 DEF Phase
  <2>7. Timeline!GiveUp(c)
    BY <1>1, <2>1, <2>3, <2>6 DEF Timeline!GiveUp
  <2> QED
    BY <2>7 DEF Timeline!Next
<1>3. CASE TimerFire(c) \/ TimerCatch(c)
  <2>1. status' = status /\ now' = now
    BY <1>3 DEF TimerFire, TimerCatch
  <2>2. Phase' = Phase /\ now' \in now..MaxTime
    BY <1>typ, <1>1, <2>1, InstantsAssumption DEF Phase
  <2> QED
    BY <1>1, <2>2, TimelineWaits
<1>4. CASE TimerThen(c)
  <2>1. PICK r \in Reads(3), h \in head..Len(queue) : Drain(r[1], h) /\ now' = r[3]
    BY <1>4 DEF TimerThen
  <2> DEFINE group == Leaving(r[1], h)
  <2>2. status' = [d \in Calls |-> IF d \in group THEN "released" ELSE status[d]]
    BY <2>1 DEF Drain
  <2>3. \A d \in group : d \in Calls /\ status[d] = "held"
    BY DEF Leaving, Held
  <2> HIDE DEF group
  <2>4. \A d \in group : outcome[d] = "queued" /\ slot[d] <= grant[d]
    BY <2>3 DEF PacerInv, HandedOver, GrantIsSlot
  <2>5. Settling
    BY <1>typ, <1>4, TimerThenSettles
  <2>6. now' \in Nat /\ now' \in now..MaxTime
    BY <1>typ, <2>1, ReadsAscend
  <2>7. \A d \in group : slot[d] <= now' + 0
    <3> SUFFICES ASSUME NEW d \in group PROVE slot[d] <= now' + 0
      OBVIOUS
    <3>1. d \in Calls /\ status[d] = "held" /\ status'[d] = "released"
      BY <2>2, <2>3
    <3>2. grant[d] <= now'
      BY <2>5, <3>1 DEF Settling
    <3> QED
      BY <1>typ, <2>4, <2>6, <3>1, <3>2
  <2>8. group \in SUBSET {d \in Calls : Phase[d] = "waiting"}
    BY <2>3, <2>4, Phases DEF Phase
  <2>9. \A d \in Calls : PhaseOf(outcome'[d], status'[d]) =
                         IF d \in group THEN "through" ELSE PhaseOf(outcome[d], status[d])
    <3> SUFFICES ASSUME NEW d \in Calls
                 PROVE  PhaseOf(outcome'[d], status'[d]) =
                          IF d \in group THEN "through" ELSE PhaseOf(outcome[d], status[d])
      OBVIOUS
    <3>1. CASE d \in group
      <4>1. outcome'[d] = "queued" /\ status'[d] = "released"
        BY <1>1, <2>2, <2>4, <3>1
      <4> QED
        BY <3>1, <4>1, Phases
    <3>2. CASE d \notin group
      <4>1. outcome'[d] = outcome[d] /\ status'[d] = status[d]
        BY <1>1, <2>2, <3>2
      <4> QED
        BY <3>2, <4>1
    <3> QED
      BY <3>1, <3>2
  <2>10. Phase' = [d \in Calls |-> IF d \in group THEN "through" ELSE Phase[d]]
    BY <2>9 DEF Phase
  <2>11. Timeline!GoThrough
    BY <1>1, <2>6, <2>7, <2>8, <2>10 DEF Timeline!GoThrough, Timeline!TimePasses
  <2> QED
    BY <2>11 DEF Timeline!Next
<1> QED
  BY <1>2, <1>3, <1>4 DEF QueueStep

(***************************************************************************)
(* Every step of pacer and queue is a step of the timeline, or none.       *)
(***************************************************************************)
LEMMA TimelineNext == PacerInv /\ [PacerNext]_pacerVars => [Timeline!Next]_(Timeline!vars)
<1> SUFFICES ASSUME PacerInv, [PacerNext]_pacerVars
             PROVE  Timeline!Next \/ UNCHANGED Timeline!vars
  OBVIOUS
<1>typ. /\ now \in Nat /\ now \in 0..MaxTime /\ nextSlot \in Nat
        /\ outcome \in [Calls -> Outcomes] /\ slot \in [Calls -> Nat]
        /\ status \in [Calls -> Statuses]
  BY DEF PacerInv, PacerTypeOK, TypeOK
<1>1. ASSUME NEW c \in Calls, outcome[c] = "uncalled",
             NEW o \in {"failed", "refused"},
             outcome' = [outcome EXCEPT ![c] = o], status' = status
      PROVE  Phase' = Phase
  <2>1. outcome'[c] = o /\ \A d \in Calls \ {c} : outcome'[d] = outcome[d]
    BY <1>typ, <1>1
  <2>2. \A d \in Calls : PhaseOf(outcome'[d], status'[d]) = PhaseOf(outcome[d], status[d])
    BY <1>1, <2>1, Phases
  <2> QED
    BY <2>2 DEF Phase
<1>2. ASSUME NEW c \in Calls, Fail(c) PROVE UNCHANGED Timeline!vars
  <2>1. Phase' = Phase
    BY <1>1, <1>2 DEF Fail, vars
  <2> QED
    BY <1>2, <2>1 DEF Fail, vars, Timeline!vars
<1>3. ASSUME NEW c \in Calls, Refuse(c) PROVE Timeline!Next
  <2>1. PICK r \in Reads(1) : outcome[c] = "uncalled" /\ now' = r[1]
    BY <1>3 DEF Refuse, Called
  <2>2. Phase' = Phase /\ UNCHANGED <<nextSlot, slot, permits>>
    BY <1>1, <1>3, <2>1 DEF Refuse
  <2>3. now' \in now..MaxTime
    BY <1>typ, <2>1, FirstReading, InstantsAssumption
  <2> QED
    BY <2>2, <2>3, TimelineWaits
<1>4. ASSUME NEW c \in Calls, Pass(c) PROVE Timeline!Next
  <2>1. PICK n \in Permits, r \in Reads(1) :
          /\ n >= 1 /\ outcome[c] = "uncalled"
          /\ WaitForNextSlot(NowMicros(r[1])) = 0
          /\ ReserveSlot(c, n, NowMicros(r[1]))
          /\ outcome' = [outcome EXCEPT ![c] = "passed"]
          /\ now' = r[1] /\ status' = status
    BY <1>4 DEF Pass, Called
  <2>2. /\ r[1] \in Nat /\ now <= r[1] /\ r[1] <= MaxTime
        /\ NowMicros(r[1]) \in Nat /\ NowMicros(r[1]) <= r[1]
    BY <1>typ, FirstReading
  <2>3. n \in Nat
    BY <2>1, BoundsAssumption
  <2>4. now' \in now..MaxTime
    BY <1>typ, <2>1, <2>2, InstantsAssumption
  <2>5. slot'[c] <= now'
    <3>1. Larger(nextSlot, NowMicros(r[1])) = NowMicros(r[1])
      BY <1>typ, <2>1, <2>2 DEF Larger, WaitForNextSlot
    <3>2. slot' = [slot EXCEPT ![c] = NowMicros(r[1])]
      BY <2>1, <3>1 DEF ReserveSlot
    <3> QED
      BY <1>typ, <2>1, <2>2, <3>2
  <2> QED
    BY <2>1, <2>2, <2>3, <2>4, <2>5, TimelineAdmits
<1>5. ASSUME NEW c \in Calls, Queue(c) PROVE Timeline!Next
  <2>1. PICK n \in Permits, r \in Reads(4) :
          /\ n >= 1 /\ outcome[c] = "uncalled"
          /\ ReserveSlot(c, n, NowMicros(r[1]))
          /\ outcome' = [outcome EXCEPT ![c] = "queued"]
          /\ status' = [status EXCEPT ![c] = "held"]
          /\ now' = (<<r[2], r[3], r[4]>>)[3]
    BY <1>5 DEF Queue, Called, Enqueue
  <2>2. r[1] \in Nat /\ now <= r[1] /\ <<r[2], r[3], r[4]>> \in Reads(3)
    BY <1>typ, FourReadings
  <2>3. n \in Nat
    BY <2>1, BoundsAssumption
  <2>4. now' \in now..MaxTime
    <3> DEFINE rest == <<r[2], r[3], r[4]>>
    <3>1. rest \in Reads(3) /\ now' = rest[3]
      BY <2>1, <2>2
    <3> HIDE DEF rest
    <3>2. /\ rest[1] \in Nat /\ rest[2] \in Nat /\ rest[3] \in 0..MaxTime
          /\ now <= rest[1] /\ rest[1] <= rest[2] /\ rest[2] <= rest[3]
      BY <1>typ, <3>1, ReadsAscend
    <3> QED
      BY <1>typ, <3>1, <3>2, InstantsAssumption
  <2>5. status'[c] = "held" /\ \A d \in Calls \ {c} : status'[d] = status[d]
    BY <1>typ, <2>1
  <2> QED
    BY <2>1, <2>2, <2>3, <2>4, <2>5, TimelineAdmits
<1>6. ASSUME NEW c \in Calls, QueueStep(c) PROVE Timeline!Next
  BY <1>6, TimelineOfQueue
<1>7. CASE Tick /\ UNCHANGED slotVars
  <2>1. Phase' = Phase
    BY <1>7 DEF Tick, TimePasses, slotVars, Phase
  <2>2. now' \in now..MaxTime
    BY <1>typ, <1>7, InstantsAssumption DEF Tick, TimePasses
  <2> QED
    BY <1>7, <2>1, <2>2, TimelineWaits DEF slotVars
<1>8. CASE UNCHANGED pacerVars
  BY <1>8 DEF pacerVars, vars, slotVars, Timeline!vars, Phase
<1>9. CASE Rest /\ UNCHANGED slotVars
  BY <1>8, <1>9 DEF Rest, pacerVars
<1> QED
  BY <1>2, <1>3, <1>4, <1>5, <1>6, <1>7, <1>8, <1>9 DEF PacerNext

(***************************************************************************)
(* Pacer and queue together keep the promise of Admission.                 *)
(***************************************************************************)
THEOREM PacerKeepsPromise == PacerSpec => ImplementsAdmission
  BY TimelineInit, TimelineNext, PacerInvariant, PTL
     DEF PacerSpec, ImplementsAdmission, Timeline!Spec

-----------------------------------------------------------------------------
(***************************************************************************)
(* What Retry-After promises, for any calls, wrappers, bounds and clock.   *)
(* Everything about the timeline comes from PacerInv: a wrapper only asks, *)
(* so a behaviour of the adapters is one of the pacer.                     *)
(***************************************************************************)

(***************************************************************************)
(* Rounding up to a unit, as Math.ceil does.                               *)
(***************************************************************************)
LEMMA RoundUpBounds ==
    ASSUME NEW u \in Nat \ {0}, NEW w \in Nat
    PROVE  /\ RoundUp(u, w) \in Nat
           /\ w <= RoundUp(u, w) /\ RoundUp(u, w) < w + u
           /\ \E k \in Nat : RoundUp(u, w) = k * u
<1> DEFINE k == (w + u - 1) \div u
           x == k * u
<1>1. k \in Nat
  BY SMTT(30)
<1>2. x <= w + u - 1 /\ w + u - 1 < x + u /\ x \in Nat
  BY SMTT(30)
<1>3. RoundUp(u, w) = k * u
  BY DEF RoundUp
<1> HIDE DEF k
<1> QED
  BY <1>1, <1>2, <1>3

(***************************************************************************)
(* Multiples of a unit that are less than a unit apart are equal.          *)
(***************************************************************************)
LEMMA MultiplesApart ==
    ASSUME NEW u \in Nat \ {0}, NEW j \in Nat, NEW k \in Nat, j * u < k * u
    PROVE  j * u + u <= k * u
<1>1. j < k
  <2> SUFFICES ASSUME k <= j PROVE FALSE
    OBVIOUS
  <2>1. j = k + (j - k) /\ j - k \in Nat
    OBVIOUS
  <2>2. j * u = k * u + (j - k) * u /\ (j - k) * u \in Nat
    BY <2>1, SMTT(30)
  <2> QED
    BY <2>2, SMTT(30)
<1>2. k = j + 1 + (k - j - 1) /\ k - j - 1 \in Nat
  BY <1>1
<1>3. k * u = j * u + u + (k - j - 1) * u /\ (k - j - 1) * u \in Nat
  BY <1>2, SMTT(30)
<1> QED
  BY <1>3, SMTT(30)

(***************************************************************************)
(* Rounded up to milliseconds and then to seconds, a wait grows by less    *)
(* than a second.                                                          *)
(***************************************************************************)
LEMMA RoundUpTwice ==
    ASSUME NEW m \in Nat \ {0}, NEW q \in Nat \ {0}, NEW w \in Nat
    PROVE  /\ RoundUp(q * m, RoundUp(m, w)) < w + q * m
           /\ w <= RoundUp(q * m, RoundUp(m, w))
           /\ \E k \in Nat : RoundUp(q * m, RoundUp(m, w)) = k * (q * m)
<1> DEFINE s == q * m
           x == RoundUp(m, w)
           y == RoundUp(s, x)
<1>1. s \in Nat \ {0}
  BY SMTT(30)
<1>2. /\ x \in Nat /\ w <= x /\ x < w + m
      /\ \E j \in Nat : x = j * m
  BY RoundUpBounds
<1>3. /\ y \in Nat /\ x <= y /\ y < x + s
      /\ \E k \in Nat : y = k * s
  <2> HIDE DEF s, x
  <2> QED
    BY <1>1, <1>2, RoundUpBounds
<1>4. PICK j \in Nat : x = j * m
  BY <1>2
<1>5. PICK k \in Nat : y = k * s
  BY <1>3
<1>6. y = (k * q) * m /\ k * q \in Nat /\ x + s = (j + q) * m /\ j + q \in Nat
  BY <1>4, <1>5, SMTT(30)
<1>7. (k * q) * m < (j + q) * m
  BY <1>3, <1>6
<1>8. (k * q) * m + m <= (j + q) * m
  <2> DEFINE a == k * q
             b == j + q
  <2>1. a \in Nat /\ b \in Nat /\ a * m < b * m
    BY <1>6, <1>7
  <2> HIDE DEF a, b
  <2>2. a * m + m <= b * m
    BY <2>1, MultiplesApart
  <2> QED
    BY <2>2 DEF a, b
<1>9. y + m <= x + s
  BY <1>6, <1>8
<1> QED
  <2> HIDE DEF s, x
  <2>1. y < w + s /\ w <= y
    <3> HIDE DEF y
    <3> QED
      BY <1>1, <1>2, <1>3, <1>9
  <2> QED
    BY <2>1, <1>3 DEF s, x

(***************************************************************************)
(* So many microseconds later, the truncated clock shows so many more.     *)
(***************************************************************************)
LEMMA NowMicrosShifts ==
    ASSUME NEW t \in Nat, NEW k \in Nat
    PROVE  NowMicros(t + k * Micro) = NowMicros(t) + k * Micro
<1>1. Micro \in Nat /\ Micro > 0
  BY InstantsAssumption
<1> DEFINE d == t \div Micro
<1>2. d \in Nat /\ d * Micro <= t /\ t < d * Micro + Micro
  BY <1>1, SMTT(30)
<1>3. (t + k * Micro) \div Micro = d + k
  BY <1>1, SMTT(30)
<1>4. (d + k) * Micro = d * Micro + k * Micro
  BY <1>1, <1>2, SMTT(30)
<1> QED
  BY <1>3, <1>4 DEF NowMicros

-----------------------------------------------------------------------------
(***************************************************************************)
(* What is known of errors and answers: a refused call, and no other, has  *)
(* an error, with the wait and the end of the timeline as they were when   *)
(* it was refused; nothing is sold to a call that is not admitted; and     *)
(* only a refused call is answered 429.                                    *)
(***************************************************************************)
ErrorFields == [reason : {"none", "depth", "delay"}, wait : Nat, at : Nat, sold : Nat]

Answers ==
    {"none", "next", "worked", "result", "429", "rejected", "false", "nextError"}

ErrorsAreTrue ==
    \A c \in Calls :
        /\ error[c].at <= now
        /\ error[c].wait = Larger(0, error[c].sold - NowMicros(error[c].at))

RefusedIs429 == \A c \in Calls : answer[c] = "429" => outcome[c] = "refused"

ErrorIfRefused == \A c \in Calls : Refused(c) <=> outcome[c] = "refused"

SoldIfAdmitted == \A c \in Calls : c \notin Admitted => permits[c] = 0

AdaptersInv ==
    /\ PacerInv
    /\ via \in [Calls -> Wrappers]
    /\ error \in [Calls -> ErrorFields]
    /\ answer \in [Calls -> Answers]
    /\ ErrorsAreTrue
    /\ RefusedIs429
    /\ ErrorIfRefused
    /\ SoldIfAdmitted

(***************************************************************************)
(* A request is a call, and an answer changes nothing the limiter knows.   *)
(***************************************************************************)
LEMMA AskingIsCalling == [AdaptersNext]_allVars => [PacerNext]_pacerVars
<1> SUFFICES ASSUME [AdaptersNext]_allVars PROVE [PacerNext]_pacerVars
  OBVIOUS
<1>1. ASSUME NEW c \in Calls, Ask(c) PROVE PacerNext
  BY <1>1 DEF Ask, PacerNext
<1>2. ASSUME NEW c \in Calls, Answer(c) PROVE UNCHANGED pacerVars
  BY <1>2 DEF Answer, pacerVars
<1>3. ASSUME NEW c \in Calls, QueueStep(c) PROVE PacerNext
  BY <1>3 DEF PacerNext
<1>4. CASE Tick /\ UNCHANGED <<slotVars, adapterVars>>
  BY <1>4 DEF PacerNext
<1>5. CASE UNCHANGED allVars
  BY <1>5 DEF allVars, pacerVars
<1> QED
  BY <1>1, <1>2, <1>3, <1>4, <1>5 DEF AdaptersNext

(***************************************************************************)
(* Time does not run backwards.                                            *)
(***************************************************************************)
LEMMA TimeAscends ==
    ASSUME PacerInv, [PacerNext]_pacerVars
    PROVE  now \in Nat /\ now' \in Nat /\ now <= now'
<1>1. now \in Nat /\ now \in 0..MaxTime
  BY DEF PacerInv, PacerTypeOK, TypeOK
<1>2. now' \in Nat
  BY PacerNextInv DEF PacerInv, PacerTypeOK, TypeOK
<1>3. [Next]_vars
  BY PacerStepIsQueueStep
<1>4. \/ now' = now
      \/ \E r \in Reads(3) : now' = r[3]
      \/ TimePasses
  BY <1>3 DEF Next, Wait, Enqueue, Abort, TimerFire, TimerThen, TimerCatch, Tick, Rest, vars
<1>5. now <= now'
  BY <1>1, <1>4, ReadsAscend, InstantsAssumption DEF TimePasses
<1> QED
  BY <1>1, <1>2, <1>5

(***************************************************************************)
(* A call that is refused, and what checkBounds() saw.                     *)
(***************************************************************************)
LEMMA RefusalIsByBounds ==
    ASSUME AdaptersInv, NEW c \in Calls, Refuse(c)
    PROVE  /\ outcome' = [outcome EXCEPT ![c] = "refused"]
           /\ UNCHANGED <<nextSlot, slot, permits, status>>
           /\ WaitForNextSlot(NowMicros(now')) \in Nat
           /\ WaitForNextSlot(NowMicros(now')) = 0 => waiting >= MaxDepth
<1>1. PICK limit \in Timeouts, r \in Reads(1) :
        /\ limit >= 0
        /\ OutOfBounds(WaitForNextSlot(NowMicros(r[1])), limit)
        /\ now' = r[1]
        /\ outcome' = [outcome EXCEPT ![c] = "refused"]
        /\ UNCHANGED <<nextSlot, slot, permits, status>>
  BY DEF Refuse, Called
<1>2. now \in 0..MaxTime /\ nextSlot \in Nat /\ waiting \in Nat
  BY DEF AdaptersInv, PacerInv, PacerTypeOK, TypeOK
<1>3. NowMicros(now') \in Nat
  BY <1>1, <1>2, FirstReading
<1>4. WaitForNextSlot(NowMicros(now')) \in Nat
  BY <1>2, <1>3 DEF WaitForNextSlot, Larger
<1>5. ASSUME WaitForNextSlot(NowMicros(now')) = 0
      PROVE  waiting >= MaxDepth
  <2>1. ~ (0 > Smaller(MaxDelay, limit))
    BY <1>1, BoundsAssumption DEF Smaller
  <2> QED
    BY <1>1, <1>5, <2>1 DEF OutOfBounds
<1> QED
  BY <1>1, <1>4, <1>5

(***************************************************************************)
(* Retry-After in the units of the module: whole seconds are whole         *)
(* microseconds, no less than the wait and by less than a second more.     *)
(***************************************************************************)
LEMMA WholeSeconds ==
    ASSUME NEW w \in Nat
    PROVE  LET y == RoundUp(Second, RoundUp(Milli, w))
           IN  /\ y < w + Second
               /\ w <= y
               /\ y \in Nat
               /\ \E k \in Nat : y = k * Micro
<1>1. /\ Micro \in Nat \ {0} /\ Milli \in Nat \ {0} /\ Second \in Nat \ {0}
      /\ Milli % Micro = 0 /\ Second % Milli = 0
  BY InstantsAssumption, AdaptersAssumption
<1> DEFINE q == Second \div Milli
           p == Milli \div Micro
           y == RoundUp(Second, RoundUp(Milli, w))
<1>2. q \in Nat \ {0} /\ Second = q * Milli
  BY <1>1, SMTT(30)
<1>3. p \in Nat \ {0} /\ Milli = p * Micro
  BY <1>1, SMTT(30)
<1> HIDE DEF q, p
<1>4. /\ y < w + Second /\ w <= y
      /\ \E k \in Nat : y = k * Second
  <2>1. LET z == RoundUp(q * Milli, RoundUp(Milli, w))
        IN  /\ z < w + q * Milli /\ w <= z
            /\ \E k \in Nat : z = k * (q * Milli)
    BY <1>1, <1>2, RoundUpTwice
  <2> QED
    BY <1>2, <2>1, Zenon
<1>5. PICK k \in Nat : y = k * Second
  BY <1>4
<1>6. y = (k * q * p) * Micro /\ k * q * p \in Nat
  BY <1>1, <1>2, <1>3, <1>5, SMTT(30)
<1>7. y \in Nat
  BY <1>1, <1>5, SMTT(30)
<1> QED
  BY <1>4, <1>6, <1>7

(***************************************************************************)
(* Once the timeline is sold up to no later than t, every call that is     *)
(* still held has its whole stretch behind it.                             *)
(***************************************************************************)
LEMMA HeldEndInTime ==
    ASSUME PacerInv, NEW t \in Nat, nextSlot <= t
    PROVE  \A d \in Held : End(d) <= t
<1> SUFFICES ASSUME NEW d \in Held PROVE End(d) <= t
  OBVIOUS
<1>1. d \in Admitted /\ d \in Calls
  BY DEF PacerInv, HandedOver, Held, Admitted
<1>2. End(d) <= nextSlot
  BY <1>1 DEF PacerInv, SoldToTheEnd
<1>3. slot[d] \in Nat /\ permits[d] \in Nat /\ Interval \in Nat /\ nextSlot \in Nat
  BY <1>1, PacerAssumption DEF PacerInv, PacerTypeOK
<1>4. End(d) \in Int
  BY <1>3, SMTT(30) DEF End
<1> QED
  BY <1>2, <1>3, <1>4

(***************************************************************************)
(* Only a request that is refused becomes refused.                         *)
(***************************************************************************)
LEMMA OnlyRefusing ==
    ASSUME AdaptersInv, [AdaptersNext]_allVars, NEW c \in Calls,
           outcome[c] # "refused", outcome'[c] = "refused"
    PROVE  Refuse(c) /\ error' = [error EXCEPT ![c] = RateLimitRejected]
<1>1. outcome \in [Calls -> Outcomes]
  BY DEF AdaptersInv, PacerInv, PacerTypeOK
<1>2. ~ UNCHANGED outcome
  OBVIOUS
<1>3. PICK d \in Calls : Ask(d)
  BY <1>2 DEF AdaptersNext, Answer, QueueStep, slotVars, allVars
<1>4. CASE \E o \in {"failed", "passed", "queued"} : outcome' = [outcome EXCEPT ![d] = o]
  BY <1>1, <1>4
<1>5. CASE Refuse(d) /\ error' = [error EXCEPT ![d] = RateLimitRejected]
  <2>1. outcome' = [outcome EXCEPT ![d] = "refused"]
    BY <1>5 DEF Refuse
  <2>2. c = d
    BY <1>1, <2>1
  <2> QED
    BY <1>5, <2>2
<1> QED
  BY <1>3, <1>4, <1>5 DEF Ask, Fail, Pass, Queue

(***************************************************************************)
(* The invariant holds initially and every step keeps it.                  *)
(***************************************************************************)
LEMMA AdaptersInitInv == AdaptersInit => AdaptersInv
<1> SUFFICES ASSUME AdaptersInit PROVE AdaptersInv
  OBVIOUS
<1>1. PacerInv
  BY PacerInitInv DEF AdaptersInit
<1>2. now = 0 /\ NowMicros(0) = 0
  <2>1. NowMicros(0) \in Nat /\ NowMicros(0) <= 0
    BY NowMicrosBounds
  <2> QED
    BY <2>1 DEF AdaptersInit, PacerInit, Init
<1>3. via \in [Calls -> Wrappers]
  BY AdaptersAssumption DEF AdaptersInit
<1>4. error \in [Calls -> ErrorFields] /\ \A c \in Calls : error[c] = NoError
  BY DEF AdaptersInit, NoError, ErrorFields
<1>5. ErrorsAreTrue
  BY <1>2, <1>4 DEF ErrorsAreTrue, NoError, Larger
<1>6. answer \in [Calls -> Answers] /\ RefusedIs429
  BY DEF AdaptersInit, Answers, RefusedIs429
<1>7. ErrorIfRefused /\ SoldIfAdmitted
  BY <1>4 DEF AdaptersInit, PacerInit, NoError, Refused, ErrorIfRefused, SoldIfAdmitted
<1> QED
  BY <1>1, <1>3, <1>4, <1>5, <1>6, <1>7 DEF AdaptersInv

(***************************************************************************)
(* A call gets an error when it is refused and a stretch when it is        *)
(* admitted.                                                               *)
(***************************************************************************)
LEMMA AskSettles ==
    ASSUME AdaptersInv, NEW c \in Calls, Ask(c)
    PROVE  ErrorIfRefused' /\ SoldIfAdmitted'
<1>1. /\ outcome \in [Calls -> Outcomes] /\ permits \in [Calls -> Nat]
      /\ error \in [Calls -> ErrorFields] /\ ErrorIfRefused /\ SoldIfAdmitted
  BY DEF AdaptersInv, PacerInv, PacerTypeOK
<1>2. outcome[c] = "uncalled" /\ ~ Refused(c) /\ permits[c] = 0
  <2>1. outcome[c] = "uncalled"
    BY DEF Ask, Fail, Pass, Queue, Refuse, Called
  <2> QED
    BY <1>1, <2>1 DEF ErrorIfRefused, SoldIfAdmitted, Admitted
<1>3. /\ \A d \in Calls \ {c} : outcome'[d] = outcome[d] /\ permits'[d] = permits[d]
      /\ outcome'[c] \in {"passed", "queued"} \/ permits'[c] = 0
  <2>1. CASE Fail(c) \/ Refuse(c)
    BY <1>1, <1>2, <2>1 DEF Fail, Refuse
  <2>2. CASE Pass(c) \/ Queue(c)
    BY <1>1, <2>2 DEF Pass, Queue, ReserveSlot
  <2> QED
    BY <2>1, <2>2 DEF Ask
<1>4. /\ \A d \in Calls \ {c} : error'[d] = error[d]
      /\ error'[c].reason # "none" <=> outcome'[c] = "refused"
  <2>1. CASE (Fail(c) \/ Pass(c) \/ Queue(c)) /\ error' = error
    <3>1. outcome'[c] # "refused"
      BY <1>1, <2>1 DEF Fail, Pass, Queue
    <3> QED
      BY <1>2, <2>1, <3>1 DEF Refused
  <2>2. CASE Refuse(c) /\ error' = [error EXCEPT ![c] = RateLimitRejected]
    <3>1. outcome'[c] = "refused"
      BY <1>1, <2>2 DEF Refuse
    <3>2. error'[c] = RateLimitRejected /\ \A d \in Calls \ {c} : error'[d] = error[d]
      BY <1>1, <2>2
    <3>3. RateLimitRejected.reason # "none"
      BY DEF RateLimitRejected
    <3> QED
      BY <3>1, <3>2, <3>3
  <2> QED
    BY <2>1, <2>2 DEF Ask
<1> QED
  BY <1>1, <1>3, <1>4 DEF ErrorIfRefused, SoldIfAdmitted, Refused, Admitted

\* One step, of any caller, event or timer, keeps the inductive invariant:
\* one case per action, and under it the conjuncts that action disturbs.
LEMMA AdaptersNextInv == AdaptersInv /\ [AdaptersNext]_allVars => AdaptersInv'
<1> SUFFICES ASSUME AdaptersInv, [AdaptersNext]_allVars PROVE AdaptersInv'
  OBVIOUS
<1>1. PacerInv /\ PacerInv' /\ [PacerNext]_pacerVars
  BY AskingIsCalling, PacerNextInv DEF AdaptersInv
<1>2. now \in Nat /\ now' \in Nat /\ now <= now'
  BY <1>1, TimeAscends
<1>3. /\ via \in [Calls -> Wrappers] /\ error \in [Calls -> ErrorFields]
      /\ outcome \in [Calls -> Outcomes] /\ answer \in [Calls -> Answers]
      /\ ErrorsAreTrue /\ RefusedIs429 /\ ErrorIfRefused /\ SoldIfAdmitted
  BY DEF AdaptersInv, PacerInv, PacerTypeOK
<1>4. \A c \in Calls : error[c].at \in Nat
  BY <1>3 DEF ErrorFields
<1>5. ASSUME error' = error
      PROVE  error' \in [Calls -> ErrorFields] /\ ErrorsAreTrue'
  BY <1>2, <1>3, <1>4, <1>5 DEF ErrorsAreTrue
<1>6. ASSUME answer' = answer, \A d \in Calls : outcome[d] = "refused" => outcome'[d] = "refused"
      PROVE  answer' \in [Calls -> Answers] /\ RefusedIs429'
  BY <1>3, <1>6 DEF RefusedIs429
<1>7. ASSUME NEW c \in Calls, Ask(c)
      PROVE  AdaptersInv'
  <2>1. via' = via /\ answer' = answer
    BY <1>7 DEF Ask
  <2>2. /\ outcome[c] = "uncalled"
        /\ \E o \in Outcomes : outcome' = [outcome EXCEPT ![c] = o]
    BY <1>7 DEF Ask, Fail, Pass, Queue, Refuse, Called, Outcomes
  <2>3. \A d \in Calls : outcome[d] = "refused" => outcome'[d] = "refused"
    BY <1>3, <2>2
  <2>4. answer' \in [Calls -> Answers] /\ RefusedIs429'
    BY <1>6, <2>1, <2>3
  <2>5. ErrorIfRefused' /\ SoldIfAdmitted'
    BY <1>7, AskSettles
  <2>6. CASE error' = error
    BY <1>1, <1>3, <1>5, <2>1, <2>4, <2>5, <2>6 DEF AdaptersInv
  <2>7. CASE Refuse(c) /\ error' = [error EXCEPT ![c] = RateLimitRejected]
    <3>1. WaitForNextSlot(NowMicros(now')) \in Nat /\ nextSlot \in Nat
      BY <1>1, <2>7, RefusalIsByBounds DEF PacerInv, PacerTypeOK
    <3>2. RateLimitRejected \in ErrorFields
      BY <1>2, <3>1 DEF RateLimitRejected, ErrorFields
    <3>3. error' \in [Calls -> ErrorFields]
      BY <1>3, <2>7, <3>2
    <3>4. /\ error'[c] = RateLimitRejected
          /\ \A d \in Calls \ {c} : error'[d] = error[d]
      BY <1>3, <2>7
    <3>5. /\ error'[c].at = now' /\ error'[c].sold = nextSlot
          /\ error'[c].wait = WaitForNextSlot(NowMicros(now'))
      BY <3>4 DEF RateLimitRejected
    <3>6. ErrorsAreTrue'
      <4> SUFFICES ASSUME NEW d \in Calls
                   PROVE  /\ error'[d].at <= now'
                          /\ error'[d].wait =
                                Larger(0, error'[d].sold - NowMicros(error'[d].at))
        BY DEF ErrorsAreTrue, NowMicros
      <4>1. CASE d = c
        BY <1>2, <3>5, <4>1 DEF WaitForNextSlot
      <4>2. CASE d # c
        BY <1>2, <1>3, <1>4, <3>4, <4>2 DEF ErrorsAreTrue
      <4> QED
        BY <4>1, <4>2
    <3> QED
      BY <1>1, <1>3, <2>1, <2>4, <2>5, <3>3, <3>6 DEF AdaptersInv
  <2> QED
    BY <1>7, <2>6, <2>7 DEF Ask
<1>8. ASSUME UNCHANGED <<outcome, permits, error>>
      PROVE  ErrorIfRefused' /\ SoldIfAdmitted'
  BY <1>3, <1>8 DEF ErrorIfRefused, SoldIfAdmitted, Refused, Admitted
<1>9. ASSUME NEW c \in Calls, Answer(c)
      PROVE  AdaptersInv'
  <2>1. UNCHANGED <<via, error, outcome, permits>>
    BY <1>9 DEF Answer, slotVars
  <2>2. via[c] \in Wrappers
    BY <1>3
  <2>3. AnswerIfAdmitted[via[c]] # "429" /\ AnswerIfThrown[via[c]] # "429"
    BY <2>2 DEF Wrappers, AnswerIfAdmitted, AnswerIfThrown
  <2>4. answer' \in [Calls -> Answers]
    <3>1. /\ AnswerIfAdmitted[via[c]] \in Answers
          /\ AnswerIfRefused[via[c]] \in Answers
          /\ AnswerIfThrown[via[c]] \in Answers
      BY <2>2 DEF Wrappers, AnswerIfAdmitted, AnswerIfRefused, AnswerIfThrown, Answers
    <3> QED
      BY <1>3, <1>9, <3>1 DEF Answer
  <2>5. RefusedIs429'
    <3> SUFFICES ASSUME NEW d \in Calls, answer'[d] = "429"
                 PROVE  outcome[d] = "refused"
      BY <2>1 DEF RefusedIs429
    <3>1. CASE d = c
      <4>1. \/ answer'[c] = AnswerIfAdmitted[via[c]]
            \/ outcome[c] = "refused"
            \/ answer'[c] = AnswerIfThrown[via[c]]
        BY <1>3, <1>9 DEF Answer
      <4> QED
        BY <2>3, <3>1, <4>1
    <3>2. CASE d # c
      BY <1>3, <1>9, <3>2 DEF Answer, RefusedIs429
    <3> QED
      BY <3>1, <3>2
  <2> QED
    BY <1>1, <1>3, <1>5, <1>8, <2>1, <2>4, <2>5 DEF AdaptersInv
<1>10. CASE UNCHANGED <<outcome, permits, via, error, answer>>
  BY <1>1, <1>3, <1>5, <1>6, <1>8, <1>10 DEF AdaptersInv
<1> QED
  BY <1>7, <1>9, <1>10 DEF AdaptersNext, QueueStep, slotVars, adapterVars, allVars

-----------------------------------------------------------------------------
(***************************************************************************)
(* A wrapper adds nothing to what its limiter does: behaviours of the      *)
(* adapters are behaviours of the pacer, and PacerProofs is about them.    *)
(***************************************************************************)
THEOREM AdaptersOnlyAsk == AdaptersSpec => PacerSpec
<1>1. AdaptersInit => PacerInit
  BY DEF AdaptersInit
<1> QED
  BY <1>1, AskingIsCalling, PTL DEF AdaptersSpec, PacerSpec

(***************************************************************************)
(* The inductive invariant of the adapters.                                *)
(***************************************************************************)
THEOREM AdaptersInvariant == AdaptersSpec => []AdaptersInv
  BY AdaptersInitInv, AdaptersNextInv, PTL DEF AdaptersSpec

(***************************************************************************)
(* RetryIsTimely: whoever was told to retry later and does, with nobody    *)
(* having been admitted since, need not wait.                              *)
(***************************************************************************)
THEOREM RetriesAreTimely == AdaptersSpec => []RetryIsTimely
<1>1. ASSUME AdaptersInv
      PROVE  RetryIsTimely
  <2> SUFFICES ASSUME NEW c \in Calls, answer[c] = "429"
               PROVE  /\ RetryAfter(c) < error[c].wait + Second
                      /\ now >= error[c].at + RetryAfter(c) /\ nextSlot = error[c].sold =>
                            /\ WaitForNextSlot(NowMicros(now)) = 0
                            /\ \A d \in Held : End(d) <= now
    BY DEF RetryIsTimely
  <2>1. /\ error[c].at \in Nat /\ error[c].wait \in Nat /\ error[c].sold \in Nat
        /\ error[c].wait = Larger(0, error[c].sold - NowMicros(error[c].at))
    BY <1>1 DEF AdaptersInv, ErrorFields, ErrorsAreTrue
  <2>2. /\ RetryAfter(c) < error[c].wait + Second
        /\ error[c].wait <= RetryAfter(c)
        /\ RetryAfter(c) \in Nat
        /\ \E k \in Nat : RetryAfter(c) = k * Micro
    BY <2>1, WholeSeconds DEF RetryAfter
  <2>3. ASSUME now >= error[c].at + RetryAfter(c), nextSlot = error[c].sold
        PROVE  /\ WaitForNextSlot(NowMicros(now)) = 0
               /\ \A d \in Held : End(d) <= now
    <3>1. now \in Nat /\ NowMicros(now) \in Nat /\ NowMicros(now) <= now
      BY <1>1, NowMicrosBounds DEF AdaptersInv, PacerInv, PacerTypeOK, TypeOK
    <3>2. PICK k \in Nat : RetryAfter(c) = k * Micro
      BY <2>2
    <3>3. NowMicros(error[c].at + RetryAfter(c)) = NowMicros(error[c].at) + RetryAfter(c)
      BY <2>1, <3>2, NowMicrosShifts
    <3>4. NowMicros(error[c].at + RetryAfter(c)) <= NowMicros(now)
      BY <2>1, <2>2, <2>3, <3>1, NowMicrosAscends
    <3>5. NowMicros(error[c].at) \in Nat
      BY <2>1, NowMicrosBounds
    <3>6. nextSlot <= NowMicros(now)
      BY <2>1, <2>2, <2>3, <3>1, <3>3, <3>4, <3>5 DEF Larger
    <3>7. nextSlot \in Nat
      BY <2>1, <2>3
    <3> QED
      BY <1>1, <3>1, <3>6, <3>7, HeldEndInTime DEF AdaptersInv, WaitForNextSlot, Larger
  <2> QED
    BY <2>2, <2>3
<1> QED
  BY <1>1, AdaptersInvariant, PTL

(***************************************************************************)
(* ZeroMeansOverdue: Retry-After: 0 is sent only when the queue is full of *)
(* callers that could all have left.                                       *)
(***************************************************************************)
THEOREM ZeroIsForTheOverdue == AdaptersSpec => ZeroMeansOverdue
<1> DEFINE Step == \A c \in Calls :
                      outcome[c] # "refused" /\ outcome'[c] = "refused"
                      /\ RetryAfter(c)' = 0
                        => error'[c].reason = "depth" /\ \A d \in Held : End(d) <= now'
<1>1. ASSUME AdaptersInv, [AdaptersNext]_allVars
      PROVE  Step
  <2> SUFFICES ASSUME NEW c \in Calls, outcome[c] # "refused", outcome'[c] = "refused",
                      RetryAfter(c)' = 0
               PROVE  error'[c].reason = "depth" /\ \A d \in Held : End(d) <= now'
    OBVIOUS
  <2>1. Refuse(c) /\ error' = [error EXCEPT ![c] = RateLimitRejected]
    BY <1>1, OnlyRefusing
  <2>2. /\ UNCHANGED <<nextSlot, slot, permits, status>>
        /\ WaitForNextSlot(NowMicros(now')) \in Nat
        /\ WaitForNextSlot(NowMicros(now')) = 0 => waiting >= MaxDepth
    BY <1>1, <2>1, RefusalIsByBounds
  <2>3. error'[c] = RateLimitRejected
    BY <1>1, <2>1 DEF AdaptersInv
  <2>4. /\ error'[c].wait = WaitForNextSlot(NowMicros(now'))
        /\ waiting >= MaxDepth => error'[c].reason = "depth"
    BY <2>3 DEF RateLimitRejected
  <2>5. error'[c].wait <= RoundUp(Second, RoundUp(Milli, error'[c].wait))
    BY <2>2, <2>4, WholeSeconds
  <2>6. WaitForNextSlot(NowMicros(now')) = 0
    BY <2>2, <2>4, <2>5 DEF RetryAfter, RoundUp
  <2>7. nextSlot \in Nat /\ now' \in Nat
    BY <1>1, AskingIsCalling, TimeAscends DEF AdaptersInv, PacerInv, PacerTypeOK
  <2>8. NowMicros(now') \in Nat /\ NowMicros(now') <= now'
    BY <2>7, NowMicrosBounds
  <2>9. nextSlot <= now'
    BY <2>6, <2>7, <2>8 DEF WaitForNextSlot, Larger
  <2> QED
    BY <1>1, <2>2, <2>4, <2>6, <2>7, <2>9, HeldEndInTime DEF AdaptersInv
<1>2. AdaptersInv /\ [AdaptersNext]_allVars => [Step]_allVars
  BY <1>1
<1> QED
  BY <1>2, AdaptersInvariant, PTL DEF AdaptersSpec, ZeroMeansOverdue

(***************************************************************************)
(* AnswersAreEarned: next() only on a stretch that was sold and has begun, *)
(* 429 only on a refusal, an error for anything else that went wrong.      *)
(***************************************************************************)
THEOREM EveryAnswerIsEarned == AdaptersSpec => AnswersAreEarned
<1> DEFINE Step == \A c \in Calls : answer'[c] # answer[c] =>
                      answer[c] = "none" /\ Earned(c, answer'[c])
<1>1. ASSUME AdaptersInv, [AdaptersNext]_allVars
      PROVE  Step
  <2> SUFFICES ASSUME NEW c \in Calls, answer'[c] # answer[c]
               PROVE  answer[c] = "none" /\ Earned(c, answer'[c])
    OBVIOUS
  <2>1. /\ answer \in [Calls -> Answers] /\ via[c] \in Wrappers
        /\ permits[c] \in Nat
        /\ Refused(c) <=> outcome[c] = "refused"
        /\ c \notin Admitted => ~ Sold(c)
        /\ c \in Admitted => Sold(c)
        /\ status[c] # "new" <=> outcome[c] = "queued"
        /\ c \in Proceeded => slot[c] <= now
    BY <1>1 DEF AdaptersInv, PacerInv, PacerTypeOK, ErrorIfRefused, SoldIfAdmitted,
                SoldToTheEnd, HandedOver, NeverEarly, Sold
  <2>2. Answer(c)
    <3>1. PICK d \in Calls : Answer(d)
      BY <1>1 DEF AdaptersNext, Ask, QueueStep, adapterVars, allVars
    <3>2. \A e \in Calls \ {d} : answer'[e] = answer[e]
      BY <2>1, <3>1 DEF Answer
    <3> QED
      BY <3>1, <3>2
  <2>3. CASE Proceeds(c) /\ answer'[c] = AnswerIfAdmitted[via[c]]
    <3>1. answer'[c] \in {"next", "worked", "result"}
      BY <2>1, <2>3 DEF AnswerIfAdmitted, Wrappers
    <3>2. c \in Proceeded /\ c \in Admitted /\ status[c] \notin {"held", "aborted"}
      BY <2>1, <2>3 DEF Proceeds, Proceeded, Admitted
    <3> QED
      BY <2>1, <2>2, <3>1, <3>2 DEF Earned, Answer
  <2>4. CASE outcome[c] = "refused" /\ answer'[c] = AnswerIfRefused[via[c]]
    <3>1. \/ answer'[c] \in {"429", "false"}
          \/ answer'[c] = "rejected" /\ via[c] = "guard"
      BY <2>1, <2>4 DEF AnswerIfRefused, Wrappers
    <3>2. Refused(c) /\ ~ Sold(c)
      BY <2>1, <2>4 DEF Admitted
    <3> QED
      BY <2>2, <3>1, <3>2 DEF Earned, Answer
  <2>5. CASE /\ outcome[c] = "failed" \/ status[c] = "aborted"
             /\ answer'[c] = AnswerIfThrown[via[c]]
    <3>1. answer'[c] \in {"nextError", "rejected"}
      BY <2>1, <2>5 DEF AnswerIfThrown, Wrappers
    <3>2. ~ Refused(c) /\ (Sold(c) => status[c] = "aborted")
      BY <2>1, <2>5 DEF Admitted
    <3> QED
      BY <2>2, <3>1, <3>2 DEF Earned, Answer
  <2> QED
    BY <2>1, <2>2, <2>3, <2>4, <2>5 DEF Answer
<1>2. AdaptersInv /\ [AdaptersNext]_allVars => [Step]_allVars
  BY <1>1
<1> QED
  BY <1>2, AdaptersInvariant, PTL DEF AdaptersSpec, AnswersAreEarned

=============================================================================
