--------------------------- MODULE WaitQueueProofs ---------------------------
(***************************************************************************)
(* Proofs about WaitQueue, for every set of calls, every grain of the      *)
(* clock and every bound.                                                  *)
(***************************************************************************)
EXTENDS WaitQueue, ArithmeticProofs, FiniteSetTheorems, SequenceTheorems

(***************************************************************************)
(* What arm() achieves.  If whatever was armed when it is called is a live *)
(* sleep for the head, then so is whatever is armed when it returns, and   *)
(* the head, if there is one, is covered.  No other sleep is disturbed.    *)
(***************************************************************************)
LEMMA ArmCovers ==
    ASSUME NEW id \in Calls, NEW a \in Calls \cup {None},
           NEW tm \in [Calls -> TimerStates],
           NEW t \in Nat, NEW s \in Nat, t <= s, s <= t + MaxGap,
           wakeAt \in [Calls -> Nat], grant' \in [Calls -> Nat],
           queue' \in Seq(Calls), head' \in Nat, head' <= Len(queue'),
           a # None =>
             /\ head' < Len(queue')
             /\ \/ tm[a] = "fired"
                \/ /\ tm[a] = "sleeping"
                   /\ wakeAt[a] < grant'[queue'[head' + 1]] + Micro + MaxGap,
           Arm(id, a, tm, t, s)
    PROVE  /\ armed' \in Calls \cup {None}
           /\ timer' \in [Calls -> TimerStates]
           /\ wakeAt' \in [Calls -> Nat]
           /\ ArmedIsForHead'
           /\ HeadIsCovered'
           /\ \A d \in Calls \ {id} : timer'[d] = tm[d]
<1> USE InstantsAssumption
<1>0. head' < Len(queue') => queue'[head' + 1] \in Calls
  OBVIOUS
<1>2. CASE a # None
  <2>1. armed' = a /\ timer' = tm /\ wakeAt' = wakeAt
    BY <1>2 DEF Arm
  <2>2. head' < Len(queue') /\ Covers(a)'
    <3>1. timer'[a] = tm[a] /\ wakeAt'[a] = wakeAt[a]
      BY <2>1
    <3> QED
      BY <1>2, <3>1 DEF Covers
  <2>3. a \in Calls
    BY <1>2
  <2>4. ArmedIsForHead' /\ HeadIsCovered'
    BY <2>1, <2>2, <2>3 DEF ArmedIsForHead, HeadIsCovered
  <2> QED
    BY <2>1, <2>3, <2>4
<1>3. CASE a = None /\ head' = Len(queue')
  <2>1. armed' = None /\ timer' = tm /\ wakeAt' = wakeAt
    BY <1>3 DEF Arm
  <2> QED
    BY <1>3, <2>1 DEF ArmedIsForHead, HeadIsCovered
<1>4. CASE a = None /\ head' < Len(queue')
  <2> DEFINE g == grant'[queue'[head' + 1]]
             left == g - NowMicros(t)
  <2>1. g \in Nat /\ NowMicros(t) \in Nat /\ NowMicros(t) <= t /\ t < NowMicros(t) + Micro
    BY <1>0, <1>4, NowMicrosBounds
  <2>2. armed' = id
    BY <1>4 DEF Arm
  <2>3. \/ /\ left > 0
           /\ timer' = [tm EXCEPT ![id] = "sleeping"]
           /\ wakeAt' = [wakeAt EXCEPT ![id] = s + left]
        \/ /\ left <= 0
           /\ timer' = [tm EXCEPT ![id] = "fired"]
           /\ wakeAt' = [wakeAt EXCEPT ![id] = s]
    BY <1>4 DEF Arm
  <2> HIDE DEF g
  <2>4. /\ timer' \in [Calls -> TimerStates]
        /\ \A d \in Calls \ {id} : timer'[d] = tm[d]
    BY <2>3 DEF TimerStates
  <2>5. wakeAt' \in [Calls -> Nat]
    <3>1. s \in Nat /\ (left > 0 => s + left \in Nat)
      BY <2>1
    <3> HIDE DEF left
    <3> QED
      BY <2>3, <3>1
  <2>6. \/ timer'[id] = "fired"
        \/ timer'[id] = "sleeping" /\ wakeAt'[id] < g + Micro + MaxGap
    <3>1. CASE left > 0
      <4>1. timer'[id] = "sleeping" /\ wakeAt'[id] = s + left
        BY <2>1, <2>3, <3>1
      <4> QED
        BY <2>1, <4>1
    <3>2. CASE left <= 0
      BY <2>1, <2>3, <3>2
    <3> QED
      BY <2>1, <3>1, <3>2
  <2>7. Covers(id)'
    BY <2>6 DEF Covers, g
  <2> QED
    BY <1>4, <2>2, <2>4, <2>5, <2>7 DEF ArmedIsForHead, HeadIsCovered
<1>5. a # None \/ head' = Len(queue') \/ head' < Len(queue')
  OBVIOUS
<1> QED
  BY <1>2, <1>3, <1>4, <1>5

(***************************************************************************)
(* wait() preserves the invariant: the newcomer stands behind everybody,   *)
(* so a head that was covered stays covered; a queue with nobody left to   *)
(* drain has nothing armed, so arm() starts a sleep for the newcomer.      *)
(***************************************************************************)
LEMMA EnqueueInv ==
    ASSUME IndInv, NEW c \in Calls, NEW w \in Waits, NEW r \in Reads(3),
           Enqueue(c, w, r)
    PROVE  IndInv'
<1>typ. TypeOK
  BY DEF IndInv
<1>one. OneEntryEach
  BY DEF IndInv
<1>new. NewIsIdle
  BY DEF IndInv
<1>fin. IsFiniteSet(Held)
  BY DEF IndInv
<1>mat. HeldAreQueued /\ DrainedAreSettled /\ DepthIsHeld
  BY DEF IndInv, QueueMatchesCallers
<1>cmp. Compacted
  BY DEF IndInv
<1>arm. ArmedIsForHead
  BY DEF IndInv
<1>sta. status \in [Calls -> Statuses]
  BY <1>typ DEF TypeOK
<1> HIDE DEF IndInv
<1>2. /\ status[c] = "new"
      /\ status' = [status EXCEPT ![c] = "held"]
      /\ grant' = [grant EXCEPT ![c] = NowMicros(r[1]) + w]
      /\ queue' = Append(queue, c)
      /\ head' = head
      /\ waiting' = waiting + 1
      /\ Arm(c, armed, timer, r[2], r[3])
      /\ now' = r[3]
  BY DEF Enqueue, GrantMicros, Joined
<1>3. /\ r[1] \in Nat /\ r[2] \in Nat /\ r[3] \in 0..MaxTime
      /\ r[2] <= r[3] /\ r[3] <= r[2] + MaxGap
  <2>1. now \in 0..MaxTime
    BY <1>typ DEF TypeOK
  <2> QED
    BY <2>1, ReadsAscend
<1>4. NowMicros(r[1]) + w \in Nat
  BY <1>3, NowMicrosBounds, WaitQueueAssumption
<1>5. /\ queue' \in Seq(Calls)
      /\ Len(queue) \in Nat
      /\ Len(queue') = Len(queue) + 1
      /\ \A i \in 1..Len(queue) : queue'[i] = queue[i] /\ queue[i] \in Calls
      /\ queue'[Len(queue) + 1] = c
  BY <1>typ, <1>2, AppendProperties DEF TypeOK
<1>6. \A i \in 1..Len(queue) : queue[i] # c
  BY <1>one, <1>2 DEF OneEntryEach
<1>7. head \in Nat /\ head <= Len(queue)
  BY <1>typ, <1>cmp, <1>5 DEF Compacted, TypeOK
<1>8. grant' \in [Calls -> Nat]
  BY <1>typ, <1>2, <1>4 DEF TypeOK
<1>9. /\ armed' \in Calls \cup {None}
      /\ timer' \in [Calls -> TimerStates]
      /\ wakeAt' \in [Calls -> Nat]
      /\ ArmedIsForHead'
      /\ HeadIsCovered'
      /\ \A d \in Calls \ {c} : timer'[d] = timer[d]
  <2>1. armed # None =>
           /\ head' < Len(queue')
           /\ \/ timer[armed] = "fired"
              \/ /\ timer[armed] = "sleeping"
                 /\ wakeAt[armed] < grant'[queue'[head' + 1]] + Micro + MaxGap
    <3>1. SUFFICES ASSUME armed # None
                   PROVE  /\ head' < Len(queue')
                          /\ grant'[queue'[head' + 1]] = grant[queue[head + 1]]
      BY <1>arm DEF ArmedIsForHead, Covers
    <3>2. head < Len(queue)
      BY <1>arm, <3>1 DEF ArmedIsForHead
    <3>3. head + 1 \in 1..Len(queue)
      BY <1>5, <1>7, <3>2
    <3>4. head' < Len(queue')
      BY <1>2, <1>5, <1>7, <3>2
    <3>5. /\ queue'[head' + 1] = queue[head + 1]
          /\ queue[head + 1] \in Calls /\ queue[head + 1] # c
      BY <1>2, <1>5, <1>6, <3>3
    <3>6. grant \in [Calls -> Nat]
      BY <1>typ DEF TypeOK
    <3> QED
      BY <1>2, <3>4, <3>5, <3>6
  <2>2. head' \in Nat /\ head' <= Len(queue')
    BY <1>2, <1>5, <1>7
  <2>3. /\ armed \in Calls \cup {None}
        /\ timer \in [Calls -> TimerStates]
        /\ wakeAt \in [Calls -> Nat]
        /\ r[2] \in Nat /\ r[3] \in Nat
    BY <1>typ, <1>3 DEF TypeOK
  <2>4. /\ r[3] <= r[2] + MaxGap /\ r[2] <= r[3]
        /\ grant' \in [Calls -> Nat]
        /\ queue' \in Seq(Calls)
        /\ Arm(c, armed, timer, r[2], r[3])
    BY <1>2, <1>3, <1>5, <1>8
  <2> QED
    BY <2>1, <2>2, <2>3, <2>4, ArmCovers
<1>10. TypeOK'
  BY <1>typ, <1>2, <1>3, <1>5, <1>8, <1>9 DEF TypeOK, Statuses
<1>11. OneEntryEach'
  <2>1. ASSUME NEW i \in 1..Len(queue'), NEW j \in 1..Len(queue'),
               queue'[i] = queue'[j]
        PROVE  i = j
    <3>1. (i \in 1..Len(queue) \/ i = Len(queue) + 1)
          /\ (j \in 1..Len(queue) \/ j = Len(queue) + 1)
      BY <1>5
    <3> QED
      BY <1>one, <1>5, <1>6, <2>1, <3>1 DEF OneEntryEach
  <2>2. ASSUME NEW i \in 1..Len(queue')
        PROVE  status'[queue'[i]] # "new"
    <3>1. CASE i \in 1..Len(queue)
      <4>1. queue'[i] = queue[i] /\ queue[i] \in Calls /\ queue[i] # c
        BY <1>5, <1>6, <3>1
      <4> QED
        BY <1>one, <1>sta, <1>2, <3>1, <4>1 DEF OneEntryEach
    <3>2. CASE i = Len(queue) + 1
      BY <1>sta, <1>2, <1>5, <3>2
    <3> QED
      BY <1>5, <3>1, <3>2
  <2> QED
    BY <2>1, <2>2 DEF OneEntryEach
<1>12. NewIsIdle'
  BY <1>new, <1>sta, <1>2, <1>9 DEF NewIsIdle
<1>13. Held' = Held \cup {c} /\ c \notin Held
  BY <1>sta, <1>2 DEF Held
<1>14. IsFiniteSet(Held)' /\ DepthIsHeld'
  BY <1>fin, <1>mat, <1>2, <1>13, FS_AddElement DEF DepthIsHeld
<1>15. HeldAreQueued'
  <2>1. ASSUME NEW d \in Held
        PROVE  \E i \in Undrained' : queue'[i] = d
    <3>1. PICK i \in Undrained : queue[i] = d
      BY <1>mat DEF HeldAreQueued
    <3>2. i \in 1..Len(queue) /\ i \in Undrained'
      BY <1>2, <1>5, <1>7 DEF Undrained
    <3> QED
      BY <1>5, <3>1, <3>2
  <2>2. \E i \in Undrained' : queue'[i] = c
    BY <1>2, <1>5, <1>7 DEF Undrained
  <2> QED
    BY <1>13, <2>1, <2>2 DEF HeldAreQueued
<1>16. DrainedAreSettled'
  <2> SUFFICES ASSUME NEW i \in 1..head
               PROVE  status'[queue'[i]] # "held"
    BY <1>2 DEF DrainedAreSettled
  <2>1. i \in 1..Len(queue)
    BY <1>5, <1>7
  <2>2. queue'[i] = queue[i] /\ queue[i] \in Calls /\ queue[i] # c
    BY <1>5, <1>6, <2>1
  <2> QED
    BY <1>mat, <1>sta, <1>2, <2>2 DEF DrainedAreSettled
<1>17. Compacted'
  BY <1>cmp, <1>2, <1>5, <1>7 DEF Compacted
<1> QED
  BY <1>9, <1>10, <1>11, <1>12, <1>14, <1>15, <1>16, <1>17
  DEF IndInv, QueueMatchesCallers

(***************************************************************************)
(* The initial state, with an empty queue and no sleep.                    *)
(***************************************************************************)
LEMMA InitInv == Init => IndInv
<1> SUFFICES ASSUME Init PROVE IndInv
  OBVIOUS
<1>1. Held = {} /\ Len(queue) = 0
  BY DEF Init, Held
<1>2. TypeOK
  BY InstantsAssumption DEF Init, TypeOK, Statuses, TimerStates
<1>3. IsFiniteSet(Held) /\ Cardinality(Held) = 0
  BY <1>1, FS_EmptySet
<1>4. QueueMatchesCallers
  BY <1>1, <1>3 DEF Init, QueueMatchesCallers, HeldAreQueued,
                    DrainedAreSettled, DepthIsHeld
<1>5. OneEntryEach /\ NewIsIdle /\ Compacted
  BY <1>1 DEF Init, OneEntryEach, NewIsIdle, Compacted
<1>6. ArmedIsForHead /\ HeadIsCovered
  BY <1>1 DEF Init, ArmedIsForHead, HeadIsCovered
<1> QED
  BY <1>2, <1>3, <1>4, <1>5, <1>6 DEF IndInv

(***************************************************************************)
(* onAbort preserves the invariant.  The counter reaches zero only with    *)
(* the last held caller, so reset() never throws a held caller away.       *)
(***************************************************************************)
LEMMA AbortInv ==
    ASSUME IndInv, NEW c \in Calls, Abort(c)
    PROVE  IndInv'
<1> USE DEF TypeOK
<1>1. /\ TypeOK /\ OneEntryEach /\ NewIsIdle /\ IsFiniteSet(Held)
      /\ QueueMatchesCallers /\ Compacted /\ ArmedIsForHead /\ HeadIsCovered
  BY DEF IndInv
<1>2. /\ status[c] = "held"
      /\ status' = [status EXCEPT ![c] = "aborted"]
      /\ waiting' = waiting - 1
      /\ now' = now /\ grant' = grant /\ wakeAt' = wakeAt
  BY DEF Abort, Listening
<1>3. Held' = Held \ {c} /\ c \in Held
  BY <1>1, <1>2 DEF Held
<1>4. IsFiniteSet(Held)' /\ Cardinality(Held') = Cardinality(Held) - 1
  BY <1>1, <1>3, FS_RemoveElement
<1>5. DepthIsHeld'
  BY <1>1, <1>2, <1>4 DEF QueueMatchesCallers, DepthIsHeld
<1>6. status' \in [Calls -> Statuses] /\ \A d \in Calls : status'[d] = "new" => status[d] = "new"
  BY <1>1, <1>2 DEF Statuses
<1>7. CASE waiting' = 0
  <2>1. /\ queue' = <<>> /\ head' = 0 /\ armed' = None
        /\ timer' = [id \in Calls |->
                        IF id = armed /\ timer[id] = "sleeping"
                        THEN "aborted" ELSE timer[id]]
    BY <1>7 DEF Abort, Reset, AfterAbort
  <2>2. Held' = {}
    BY <1>4, <1>5, <1>7, FS_EmptySet DEF DepthIsHeld
  <2>3. TypeOK'
    BY <1>1, <1>2, <1>6, <1>7, <2>1 DEF TimerStates
  <2>4. NewIsIdle'
    BY <1>1, <1>6, <2>1 DEF NewIsIdle
  <2>5. Len(queue') = 0
    BY <2>1
  <2>6. QueueMatchesCallers'
    BY <1>5, <2>1, <2>2, <2>5 DEF QueueMatchesCallers, HeldAreQueued, DrainedAreSettled
  <2>7. OneEntryEach' /\ Compacted' /\ ArmedIsForHead' /\ HeadIsCovered'
    BY <2>1, <2>5 DEF OneEntryEach, Compacted, ArmedIsForHead, HeadIsCovered
  <2> QED
    BY <1>4, <2>3, <2>4, <2>6, <2>7 DEF IndInv
<1>8. CASE waiting' # 0
  <2>1. queue' = queue /\ head' = head /\ armed' = armed /\ timer' = timer
    BY <1>8 DEF Abort
  <2>2. TypeOK' /\ Compacted'
    BY <1>1, <1>2, <1>4, <1>5, <1>6, <2>1, FS_CardinalityType
    DEF Compacted, DepthIsHeld
  <2>3. OneEntryEach' /\ NewIsIdle'
    BY <1>1, <1>6, <2>1 DEF OneEntryEach, NewIsIdle
  <2>4. HeldAreQueued'
    BY <1>1, <1>3, <2>1 DEF QueueMatchesCallers, HeldAreQueued, Undrained
  <2>5. DrainedAreSettled'
    BY <1>1, <1>2, <2>1 DEF QueueMatchesCallers, DrainedAreSettled
  <2>6. ArmedIsForHead' /\ HeadIsCovered'
    BY <1>1, <1>2, <2>1 DEF ArmedIsForHead, HeadIsCovered, Covers
  <2> QED
    BY <1>4, <1>5, <2>2, <2>3, <2>4, <2>5, <2>6 DEF IndInv, QueueMatchesCallers
<1> QED
  BY <1>7, <1>8

(***************************************************************************)
(* A sleep that fires keeps covering what it covered.                      *)
(***************************************************************************)
LEMMA TimerFireInv ==
    ASSUME IndInv, NEW id \in Calls, TimerFire(id)
    PROVE  IndInv'
<1> USE DEF TypeOK
<1>1. /\ TypeOK /\ OneEntryEach /\ NewIsIdle /\ IsFiniteSet(Held)
      /\ QueueMatchesCallers /\ Compacted /\ ArmedIsForHead /\ HeadIsCovered
  BY DEF IndInv
<1>2. /\ timer[id] = "sleeping"
      /\ timer' = [timer EXCEPT ![id] = "fired"]
      /\ UNCHANGED <<now, queue, head, waiting, armed, status, grant, wakeAt>>
  BY DEF TimerFire
<1>3. TypeOK' /\ NewIsIdle'
  BY <1>1, <1>2 DEF NewIsIdle, TimerStates
<1>4. Held' = Held
  BY <1>2 DEF Held
<1>5. OneEntryEach' /\ Compacted'
  BY <1>1, <1>2 DEF OneEntryEach, Compacted
<1>6. IsFiniteSet(Held)' /\ QueueMatchesCallers'
  BY <1>1, <1>2, <1>4 DEF QueueMatchesCallers, HeldAreQueued, Undrained,
                          DrainedAreSettled, DepthIsHeld
<1>7. \A d \in Calls : Covers(d) => Covers(d)'
  BY <1>1, <1>2 DEF Covers
<1>8. ArmedIsForHead' /\ HeadIsCovered'
  BY <1>1, <1>2, <1>7 DEF ArmedIsForHead, HeadIsCovered
<1> QED
  BY <1>3, <1>5, <1>6, <1>8 DEF IndInv

(***************************************************************************)
(* The handler of an aborted sleep takes this.armed away, perhaps from a   *)
(* sleep that a later wait() started; but that sleep goes on sleeping, and *)
(* the aborted one covered nobody.                                         *)
(***************************************************************************)
LEMMA TimerCatchInv ==
    ASSUME IndInv, NEW id \in Calls, TimerCatch(id)
    PROVE  IndInv'
<1> USE DEF TypeOK
<1>1. /\ TypeOK /\ OneEntryEach /\ NewIsIdle /\ IsFiniteSet(Held)
      /\ QueueMatchesCallers /\ Compacted /\ ArmedIsForHead /\ HeadIsCovered
  BY DEF IndInv
<1>2. /\ timer[id] = "aborted"
      /\ timer' = [timer EXCEPT ![id] = "none"]
      /\ armed' = None
      /\ UNCHANGED <<now, queue, head, waiting, status, grant, wakeAt>>
  BY DEF TimerCatch
<1>3. TypeOK' /\ NewIsIdle'
  BY <1>1, <1>2 DEF NewIsIdle, TimerStates
<1>4. Held' = Held
  BY <1>2 DEF Held
<1>5. OneEntryEach' /\ Compacted'
  BY <1>1, <1>2 DEF OneEntryEach, Compacted
<1>6. IsFiniteSet(Held)' /\ QueueMatchesCallers'
  BY <1>1, <1>2, <1>4 DEF QueueMatchesCallers, HeldAreQueued, Undrained,
                          DrainedAreSettled, DepthIsHeld
<1>7. \A d \in Calls : Covers(d) => Covers(d)'
  BY <1>1, <1>2 DEF Covers
<1>8. ArmedIsForHead' /\ HeadIsCovered'
  BY <1>1, <1>2, <1>7 DEF ArmedIsForHead, HeadIsCovered
<1> QED
  BY <1>3, <1>5, <1>6, <1>8 DEF IndInv

(***************************************************************************)
(* Dropping the first h elements of a sequence.                            *)
(***************************************************************************)
LEMMA SuffixProperties ==
    ASSUME NEW S, NEW s \in Seq(S), NEW h \in Nat, h < Len(s)
    PROVE  /\ SubSeq(s, h + 1, Len(s)) \in Seq(S)
           /\ Len(SubSeq(s, h + 1, Len(s))) = Len(s) - h
           /\ \A i \in 1..(Len(s) - h) :
                SubSeq(s, h + 1, Len(s))[i] = s[h + i]
<1>1. h + 1 \in Int /\ Len(s) \in Int /\ h + 1 <= Len(s)
  OBVIOUS
<1>2. \A i \in (h + 1)..Len(s) : s[i] \in S
  OBVIOUS
<1>3. /\ SubSeq(s, h + 1, Len(s)) \in Seq(S)
      /\ Len(SubSeq(s, h + 1, Len(s))) = Len(s) - (h + 1) + 1
      /\ \A i \in 1..(Len(s) - (h + 1) + 1) :
           SubSeq(s, h + 1, Len(s))[i] = s[(h + 1) + i - 1]
  BY <1>1, <1>2, SubSeqProperties
<1> QED
  BY <1>1, <1>3

(***************************************************************************)
(* What the loop of drain() and the compaction after it do to the callers  *)
(* and to their entries.                                                   *)
(***************************************************************************)
LEMMA DrainKeepsCallers ==
    ASSUME TypeOK, OneEntryEach, IsFiniteSet(Held), QueueMatchesCallers,
           Compacted, NEW t \in Nat, NEW h \in head..Len(queue), Drain(t, h)
    PROVE  /\ queue' \in Seq(Calls)
           /\ head' \in Nat /\ head' <= Len(queue')
           /\ waiting' \in Nat
           /\ status' \in [Calls -> Statuses]
           /\ \A c \in Calls : status'[c] = "new" => status[c] = "new"
           /\ OneEntryEach'
           /\ IsFiniteSet(Held)'
           /\ QueueMatchesCallers'
           /\ Compacted'
<1> USE DEF TypeOK
<1> DEFINE out == {queue[i] : i \in (head + 1)..h} \cap Held
<1>1. /\ head \in Nat /\ Len(queue) \in Nat /\ h \in Nat
      /\ head <= h /\ h <= Len(queue)
      /\ \A i \in 1..Len(queue) : queue[i] \in Calls
  OBVIOUS
<1>2. /\ status' = [c \in Calls |-> IF c \in out THEN "released" ELSE status[c]]
      /\ waiting' = waiting - Cardinality(out)
  BY DEF Drain, Leaving
<1>3. \/ h = Len(queue) /\ queue' = <<>> /\ head' = 0
      \/ /\ h < Len(queue)
         /\ queue' = SubSeq(queue, h + 1, Len(queue))
         /\ head' = 0
      \/ h < Len(queue) /\ 2 * h <= Len(queue) /\ queue' = queue /\ head' = h
  BY DEF Drain, MostlyDrained
<1>4. Held' = Held \ out /\ out \subseteq Held
  BY <1>2 DEF Held
<1>5. /\ IsFiniteSet(Held)'
      /\ Cardinality(Held') = Cardinality(Held) - Cardinality(out)
      /\ Cardinality(out) \in Nat
  <2>1. Held \cap out = out
    BY <1>4
  <2> HIDE DEF out
  <2>2. /\ IsFiniteSet(Held \ out)
        /\ Cardinality(Held \ out) = Cardinality(Held) - Cardinality(out)
    BY <2>1, FS_Difference
  <2>3. IsFiniteSet(out)
    BY <1>4, FS_Subset
  <2> QED
    BY <1>4, <2>2, <2>3, FS_CardinalityType
<1>6. waiting' \in Nat /\ DepthIsHeld'
  BY <1>2, <1>5, FS_CardinalityType DEF QueueMatchesCallers, DepthIsHeld
<1>7. /\ status' \in [Calls -> Statuses]
      /\ \A c \in Calls : status'[c] = "new" => status[c] = "new"
      /\ \A c \in Calls : status'[c] = "held" => status[c] = "held"
  BY <1>2 DEF Statuses
<1>8. \A i \in 1..h : status'[queue[i]] # "held"
  <2> SUFFICES ASSUME NEW i \in 1..h, status'[queue[i]] = "held"
               PROVE  FALSE
    OBVIOUS
  <2>1. i \in 1..Len(queue) /\ queue[i] \in Calls
    BY <1>1
  <2>2. status[queue[i]] = "held"
    BY <1>7, <2>1
  <2>3. i \in (head + 1)..h
    BY <1>1, <2>1, <2>2 DEF QueueMatchesCallers, DrainedAreSettled
  <2> QED
    BY <1>2, <2>1, <2>2, <2>3 DEF Held
<1>9. \A c \in Held' : \E i \in (h + 1)..Len(queue) : queue[i] = c
  <2> SUFFICES ASSUME NEW c \in Held'
               PROVE  \E i \in (h + 1)..Len(queue) : queue[i] = c
    OBVIOUS
  <2>1. c \in Held /\ status'[c] = "held"
    BY <1>4 DEF Held
  <2>2. PICK i \in (head + 1)..Len(queue) : queue[i] = c
    BY <2>1 DEF QueueMatchesCallers, HeldAreQueued, Undrained
  <2>3. ~ (i \in 1..h)
    BY <1>8, <2>1, <2>2
  <2> QED
    BY <1>1, <2>2, <2>3
<1> HIDE DEF out, TypeOK
<1>10. \A i \in 1..Len(queue) : status'[queue[i]] # "new"
  BY <1>1, <1>7 DEF OneEntryEach
<1>11. CASE h = Len(queue) /\ queue' = <<>> /\ head' = 0
  <2>1. Len(queue') = 0 /\ Held' = {}
    BY <1>1, <1>9, <1>11
  <2> QED
    BY <1>5, <1>6, <1>7, <1>11, <2>1
    DEF OneEntryEach, QueueMatchesCallers, HeldAreQueued, DrainedAreSettled, Compacted
<1>12. CASE /\ h < Len(queue)
            /\ queue' = SubSeq(queue, h + 1, Len(queue))
            /\ head' = 0
  <2>1. /\ queue' \in Seq(Calls)
        /\ Len(queue') = Len(queue) - h
        /\ \A i \in 1..(Len(queue) - h) : queue'[i] = queue[h + i]
    BY <1>1, <1>12, SuffixProperties
  <2>2. \A i \in 1..Len(queue') : h + i \in 1..Len(queue)
    <3> SUFFICES ASSUME NEW i \in 1..(Len(queue) - h)
                 PROVE  h + i \in 1..Len(queue)
      BY <2>1
    <3> QED
      BY <1>1
  <2>3. OneEntryEach'
    <3>1. ASSUME NEW i \in 1..Len(queue'), NEW j \in 1..Len(queue'),
                 queue'[i] = queue'[j]
          PROVE  i = j
      <4>1. queue[h + i] = queue[h + j]
        BY <2>1, <3>1
      <4>2. h + i = h + j
        BY <2>2, <4>1 DEF OneEntryEach
      <4> QED
        BY <1>1, <2>1, <4>2
    <3>2. ASSUME NEW i \in 1..Len(queue')
          PROVE  status'[queue'[i]] # "new"
      BY <1>10, <2>1, <2>2
    <3> QED
      BY <3>1, <3>2 DEF OneEntryEach
  <2>4. HeldAreQueued'
    <3> SUFFICES ASSUME NEW c \in Held'
                 PROVE  \E i \in 1..Len(queue') : queue'[i] = c
      <4>1. Undrained' = 1..Len(queue')
        BY <1>12 DEF Undrained
      <4> QED
        BY <4>1 DEF HeldAreQueued
    <3>1. PICK i \in (h + 1)..Len(queue) : queue[i] = c
      BY <1>9
    <3>2. i - h \in 1..Len(queue') /\ h + (i - h) = i
      BY <1>1, <2>1, <3>1
    <3> QED
      BY <2>1, <3>1, <3>2
  <2>5. DrainedAreSettled' /\ Compacted'
    BY <1>1, <1>12, <2>1 DEF DrainedAreSettled, Compacted
  <2>6. QueueMatchesCallers'
    BY <1>6, <2>4, <2>5 DEF QueueMatchesCallers
  <2>7. head' \in Nat /\ head' <= Len(queue')
    BY <1>1, <1>12, <2>1
  <2> QED
    BY <1>5, <1>6, <1>7, <2>1, <2>3, <2>5, <2>6, <2>7
<1>13. CASE h < Len(queue) /\ 2 * h <= Len(queue) /\ queue' = queue /\ head' = h
  <2>1. OneEntryEach'
    BY <1>10, <1>13 DEF OneEntryEach
  <2>2. HeldAreQueued'
    BY <1>9, <1>13 DEF HeldAreQueued, Undrained
  <2>3. DrainedAreSettled' /\ Compacted'
    BY <1>8, <1>13 DEF DrainedAreSettled, Compacted
  <2>4. queue \in Seq(Calls)
    BY DEF TypeOK
  <2> QED
    BY <1>1, <1>5, <1>6, <1>7, <1>13, <2>1, <2>2, <2>3, <2>4 DEF QueueMatchesCallers
<1> QED
  BY <1>3, <1>11, <1>12, <1>13

(***************************************************************************)
(* The handler of a sleep that fired, the newest or a stale one, preserves *)
(* the invariant: it drops this.armed, drains, and arms for the new head.  *)
(***************************************************************************)
LEMMA TimerThenInv ==
    ASSUME IndInv, NEW id \in Calls, TimerThen(id)
    PROVE  IndInv'
<1>1. /\ TypeOK /\ OneEntryEach /\ NewIsIdle /\ IsFiniteSet(Held)
      /\ QueueMatchesCallers /\ Compacted /\ ArmedIsForHead /\ HeadIsCovered
  BY DEF IndInv
<1>2. timer[id] = "fired"
  BY DEF TimerThen
<1>3. PICK r \in Reads(3), h \in head..Len(queue) :
        /\ Drain(r[1], h)
        /\ grant' = grant
        /\ Arm(id, None, [timer EXCEPT ![id] = "none"], r[2], r[3])
        /\ now' = r[3]
  BY DEF TimerThen
<1>4. /\ r[1] \in Nat /\ r[2] \in Nat /\ r[3] \in Nat /\ r[3] \in 0..MaxTime
      /\ r[2] <= r[3] /\ r[3] <= r[2] + MaxGap
  <2>1. now \in 0..MaxTime
    BY <1>1 DEF TypeOK
  <2> QED
    BY <2>1, ReadsAscend
<1>5. /\ queue' \in Seq(Calls)
      /\ head' \in Nat /\ head' <= Len(queue')
      /\ waiting' \in Nat
      /\ status' \in [Calls -> Statuses]
      /\ \A c \in Calls : status'[c] = "new" => status[c] = "new"
      /\ OneEntryEach'
      /\ IsFiniteSet(Held)'
      /\ QueueMatchesCallers'
      /\ Compacted'
  BY <1>1, <1>3, <1>4, DrainKeepsCallers
<1>6. /\ [timer EXCEPT ![id] = "none"] \in [Calls -> TimerStates]
      /\ wakeAt \in [Calls -> Nat] /\ grant' \in [Calls -> Nat]
  BY <1>1, <1>3 DEF TypeOK, TimerStates
<1>7. /\ armed' \in Calls \cup {None}
      /\ timer' \in [Calls -> TimerStates]
      /\ wakeAt' \in [Calls -> Nat]
      /\ ArmedIsForHead'
      /\ HeadIsCovered'
      /\ \A d \in Calls \ {id} : timer'[d] = [timer EXCEPT ![id] = "none"][d]
  <2> DEFINE tm == [timer EXCEPT ![id] = "none"]
  <2>1. None \in Calls \cup {None} /\ ~ (None # None)
    OBVIOUS
  <2>2. Arm(id, None, tm, r[2], r[3])
    BY <1>3
  <2>3. queue' \in Seq(Calls) /\ head' \in Nat /\ head' <= Len(queue')
    BY <1>5
  <2>4. tm \in [Calls -> TimerStates]
    BY <1>6
  <2> HIDE DEF tm
  <2>5. /\ armed' \in Calls \cup {None}
        /\ timer' \in [Calls -> TimerStates]
        /\ wakeAt' \in [Calls -> Nat]
        /\ ArmedIsForHead'
        /\ HeadIsCovered'
        /\ \A d \in Calls \ {id} : timer'[d] = tm[d]
    BY <1>4, <1>6, <2>1, <2>2, <2>3, <2>4, ArmCovers
  <2> QED
    BY <2>5 DEF tm
<1>8. TypeOK'
  BY <1>3, <1>4, <1>5, <1>6, <1>7 DEF TypeOK
<1>9. NewIsIdle'
  <2> SUFFICES ASSUME NEW c \in Calls, status'[c] = "new"
               PROVE  timer'[c] = "none"
    BY DEF NewIsIdle
  <2>1. timer[c] = "none"
    BY <1>1, <1>5 DEF NewIsIdle
  <2>2. c # id
    BY <1>2, <2>1
  <2> QED
    BY <1>1, <1>7, <2>1, <2>2 DEF TypeOK
<1> QED
  BY <1>5, <1>7, <1>8, <1>9 DEF IndInv

(***************************************************************************)
(* Time only brings wake-ups nearer; the invariant does not mention now.   *)
(***************************************************************************)
LEMMA QuietInv ==
    ASSUME IndInv, now' \in 0..MaxTime,
           UNCHANGED <<queue, head, waiting, armed, status, grant, timer, wakeAt>>
    PROVE  IndInv'
<1>1. TypeOK' /\ Held' = Held
  BY DEF IndInv, TypeOK, Held
<1>2. QueueMatchesCallers' /\ IsFiniteSet(Held)'
  BY <1>1 DEF IndInv, QueueMatchesCallers, HeldAreQueued, Undrained,
              DrainedAreSettled, DepthIsHeld
<1>3. ArmedIsForHead' /\ HeadIsCovered'
  BY DEF IndInv, ArmedIsForHead, HeadIsCovered, Covers
<1> QED
  BY <1>1, <1>2, <1>3 DEF IndInv, OneEntryEach, NewIsIdle, Compacted

(***************************************************************************)
(* Every step of the queue preserves the invariant.                        *)
(***************************************************************************)
LEMMA NextInv == IndInv /\ [Next]_vars => IndInv'
<1> SUFFICES ASSUME IndInv, [Next]_vars PROVE IndInv'
  OBVIOUS
<1>1. ASSUME NEW c \in Calls, Wait(c) PROVE IndInv'
  BY <1>1, EnqueueInv DEF Wait
<1>2. ASSUME NEW c \in Calls, Abort(c) PROVE IndInv'
  BY <1>2, AbortInv
<1>3. ASSUME NEW c \in Calls, TimerFire(c) PROVE IndInv'
  BY <1>3, TimerFireInv
<1>4. ASSUME NEW c \in Calls, TimerThen(c) PROVE IndInv'
  BY <1>4, TimerThenInv
<1>5. ASSUME NEW c \in Calls, TimerCatch(c) PROVE IndInv'
  BY <1>5, TimerCatchInv
<1>6. CASE Tick
  BY <1>6, QuietInv, InstantsAssumption DEF Tick, TimePasses, IndInv, TypeOK
<1>7. CASE Rest
  BY <1>7, QuietInv DEF Rest, vars, IndInv, TypeOK
<1>8. CASE UNCHANGED vars
  BY <1>8, QuietInv DEF vars, IndInv, TypeOK
<1> QED
  BY <1>1, <1>2, <1>3, <1>4, <1>5, <1>6, <1>7, <1>8 DEF Next

(***************************************************************************)
(* The inductive invariant holds of every behaviour of the queue.          *)
(***************************************************************************)
THEOREM QueueInvariant == Spec => []IndInv
  BY InitInv, NextInv, PTL DEF Spec

(***************************************************************************)
(* Type correctness.                                                       *)
(***************************************************************************)
THEOREM QueueTypeOK == Spec => []TypeOK
<1>1. IndInv => TypeOK
  BY DEF IndInv
<1> QED
  BY <1>1, QueueInvariant, PTL

(***************************************************************************)
(* No caller is ever left without a sleep that will come for it, however   *)
(* stale the handlers that overwrite this.armed.                           *)
(***************************************************************************)
THEOREM NobodyForgotten == Spec => [](HeadIsCovered /\ ArmedIsForHead)
<1>1. IndInv => HeadIsCovered /\ ArmedIsForHead
  BY DEF IndInv
<1> QED
  BY <1>1, QueueInvariant, PTL

(***************************************************************************)
(* The counter, the entries and the callers always agree, so that reset()  *)
(* discards tombstones only, and the depth the owner reads is exact.       *)
(***************************************************************************)
THEOREM CounterIsExact == Spec => [](QueueMatchesCallers /\ Compacted)
<1>1. IndInv => QueueMatchesCallers /\ Compacted
  BY DEF IndInv
<1> QED
  BY <1>1, QueueInvariant, PTL

(***************************************************************************)
(* Callers are released in the order in which they were queued.            *)
(***************************************************************************)
THEOREM ReleasedInOrder == Spec => ArrivalOrder
<1> DEFINE Ordered ==
      \A i, j \in Undrained :
         /\ i < j
         /\ queue[i] \in Held /\ queue[j] \in Held
         /\ status'[queue[j]] = "released"
         => status'[queue[i]] = "released"
<1>1. ASSUME IndInv, Next PROVE Ordered
  <2> SUFFICES ASSUME NEW i \in Undrained, NEW j \in Undrained, i < j,
                      queue[i] \in Held, queue[j] \in Held,
                      status'[queue[j]] = "released"
               PROVE  status'[queue[i]] = "released"
    OBVIOUS
  <2>0. TypeOK /\ OneEntryEach
    BY <1>1 DEF IndInv
  <2>1. /\ i \in 1..Len(queue) /\ j \in 1..Len(queue)
        /\ i \in (head + 1)..Len(queue) /\ j \in (head + 1)..Len(queue)
    BY <2>0 DEF TypeOK, Undrained
  <2>2. status[queue[j]] = "held" /\ status[queue[i]] = "held"
    BY DEF Held
  <2>3. ASSUME NEW c \in Calls, TimerThen(c)
        PROVE  status'[queue[i]] = "released"
    <3>1. PICK r \in Reads(3), h \in head..Len(queue) : Drain(r[1], h)
      BY <2>3 DEF TimerThen
    <3> DEFINE out == {queue[k] : k \in (head + 1)..h} \cap Held
    <3>2. status' = [d \in Calls |-> IF d \in out THEN "released" ELSE status[d]]
      BY <3>1 DEF Drain, Leaving
    <3>3. queue[j] \in out
      <4>1. queue[j] \in Calls
        BY <2>0, <2>1 DEF TypeOK
      <4> HIDE DEF out
      <4> QED
        BY <2>2, <3>2, <4>1
    <3>4. PICK k \in (head + 1)..h : queue[k] = queue[j]
      BY <3>3
    <3>5. k = j
      <4>1. k \in 1..Len(queue)
        <5>1. head \in Nat /\ Len(queue) \in Nat /\ h \in head..Len(queue)
          BY <2>0 DEF TypeOK
        <5> QED
          BY <3>4, <5>1
      <4> QED
        BY <2>0, <2>1, <3>4, <4>1 DEF OneEntryEach
    <3>6. i \in (head + 1)..h
      BY <2>0, <2>1, <3>5 DEF TypeOK
    <3>7. queue[i] \in Calls
      BY <2>0, <2>1 DEF TypeOK
    <3>8. queue[i] \in out
      BY <3>6
    <3> HIDE DEF out
    <3> QED
      BY <3>2, <3>7, <3>8
  <2>4. ASSUME NEW c \in Calls, Wait(c) PROVE FALSE
    <3>1. status' = [status EXCEPT ![c] = "held"]
      BY <2>4 DEF Wait, Enqueue
    <3> QED
      BY <2>0, <2>2, <3>1 DEF TypeOK
  <2>5. ASSUME NEW c \in Calls, Abort(c) PROVE FALSE
    <3>1. status' = [status EXCEPT ![c] = "aborted"]
      BY <2>5 DEF Abort, Listening
    <3> QED
      BY <2>0, <2>2, <3>1 DEF TypeOK
  <2>6. ASSUME NEW c \in Calls, TimerFire(c) \/ TimerCatch(c) PROVE FALSE
    BY <2>2, <2>6 DEF TimerFire, TimerCatch
  <2>7. ~ Tick /\ ~ Rest
    BY <2>2 DEF Tick, TimePasses, Rest, vars
  <2> QED
    BY <1>1, <2>3, <2>4, <2>5, <2>6, <2>7 DEF Next
<1>2. ASSUME IndInv, [Next]_vars PROVE [Ordered]_vars
  BY <1>1, <1>2
<1> QED
  BY <1>2, QueueInvariant, PTL DEF Spec, ArrivalOrder

-----------------------------------------------------------------------------
(***************************************************************************)
(* What the queue does by itself, from where its owner stands: promises    *)
(* already settled stay settled, no grant changes, a caller is released    *)
(* only when due, nobody is added and nobody changes places.               *)
(***************************************************************************)
QueueSteps == \E c \in Calls : Abort(c) \/ TimerFire(c) \/ TimerThen(c) \/ TimerCatch(c)

Settling ==
    /\ now <= now'
    /\ grant' = grant
    /\ waiting' <= waiting
    /\ \A c \in Calls : status'[c] = "new" <=> status[c] = "new"
    /\ \A c \in Calls : status'[c] = "released" =>
          \/ status[c] = "released"
          \/ status[c] = "held" /\ grant[c] <= now'
    /\ \E k \in Nat :
          /\ Len(queue') + k <= Len(queue)
          /\ \A i \in 1..Len(queue') : queue'[i] = queue[k + i]

(***************************************************************************)
(* An abort settles its own caller's promise; the queue keeps its entries  *)
(* or, after a reset, none.                                                *)
(***************************************************************************)
LEMMA AbortSettles ==
    ASSUME IndInv, NEW c \in Calls, Abort(c)
    PROVE  Settling
<1>1. TypeOK
  BY DEF IndInv
<1>2. /\ status[c] = "held"
      /\ status' = [status EXCEPT ![c] = "aborted"]
      /\ waiting' = waiting - 1
      /\ now' = now /\ grant' = grant
      /\ (queue' = <<>> \/ queue' = queue)
  BY DEF Abort, Listening, Reset
<1>3. /\ now' >= now /\ grant' = grant /\ waiting' <= waiting
  BY <1>1, <1>2 DEF TypeOK
<1>4. status \in [Calls -> Statuses]
  BY <1>1 DEF TypeOK
<1>5. \A d \in Calls : status'[d] = "new" <=> status[d] = "new"
  BY <1>2, <1>4
<1>6. \A d \in Calls : status'[d] = "released" => status[d] = "released"
  BY <1>2, <1>4
<1>7. \E k \in Nat :
        /\ Len(queue') + k <= Len(queue)
        /\ \A i \in 1..Len(queue') : queue'[i] = queue[k + i]
  <2>1. queue \in Seq(Calls) /\ Len(queue) \in Nat
    BY <1>1 DEF TypeOK
  <2>2. CASE queue' = <<>>
    <3>1. Len(queue') = 0
      BY <2>2
    <3> QED
      BY <2>1, <3>1
  <2>3. CASE queue' = queue
    <3>1. \A i \in 1..Len(queue') : queue'[i] = queue[0 + i]
      BY <2>1, <2>3
    <3>2. Len(queue') + 0 <= Len(queue) /\ 0 \in Nat
      BY <2>1, <2>3
    <3> QED
      BY <3>1, <3>2
  <2> QED
    BY <1>2, <2>2, <2>3
<1> QED
  BY <1>3, <1>5, <1>6, <1>7 DEF Settling

(***************************************************************************)
(* A drain releases callers that are due and leaves a suffix of the queue. *)
(***************************************************************************)
LEMMA TimerThenSettles ==
    ASSUME IndInv, NEW id \in Calls, TimerThen(id)
    PROVE  Settling
<1>1. TypeOK
  BY DEF IndInv
<1>2. PICK r \in Reads(3), h \in head..Len(queue) :
        /\ Drain(r[1], h)
        /\ grant' = grant
        /\ now' = r[3]
  BY DEF TimerThen
<1>3. /\ r[1] \in Nat /\ now <= r[1] /\ r[1] <= now' /\ now' \in Nat
      /\ NowMicros(r[1]) \in Nat /\ NowMicros(r[1]) <= r[1]
  <2>1. now \in 0..MaxTime
    BY <1>1 DEF TypeOK
  <2> QED
    <3>1. /\ r[1] \in Nat /\ r[2] \in Nat /\ r[3] \in Nat
          /\ now <= r[1] /\ r[1] <= r[2] /\ r[2] <= r[3]
      BY <2>1, ReadsAscend
    <3>2. r[1] <= r[3]
      BY <3>1
    <3> QED
      BY <1>2, <3>1, <3>2, NowMicrosBounds
<1>4. /\ head \in Nat /\ Len(queue) \in Nat /\ h \in Nat
      /\ head <= h /\ h <= Len(queue)
      /\ queue \in Seq(Calls) /\ now \in Nat /\ waiting \in Nat
      /\ status \in [Calls -> Statuses] /\ grant \in [Calls -> Nat]
  BY <1>1 DEF TypeOK
<1> DEFINE out == Leaving(r[1], h)
<1>5. /\ \A i \in (head + 1)..h : grant[queue[i]] <= NowMicros(r[1])
      /\ status' = [c \in Calls |-> IF c \in out THEN "released" ELSE status[c]]
      /\ waiting' = waiting - Cardinality(out)
  BY <1>2 DEF Drain
<1>6. \/ h = Len(queue) /\ queue' = <<>>
      \/ h < Len(queue) /\ queue' = SubSeq(queue, h + 1, Len(queue))
      \/ queue' = queue
  BY <1>2 DEF Drain
<1>7. \A c \in out : status[c] = "held" /\ grant[c] <= now'
  <2> SUFFICES ASSUME NEW c \in out
               PROVE  status[c] = "held" /\ grant[c] <= now'
    OBVIOUS
  <2>1. PICK i \in (head + 1)..h : queue[i] = c
    BY DEF Leaving
  <2>2. status[c] = "held" /\ c \in Calls
    BY DEF Leaving, Held
  <2>3. grant[c] <= NowMicros(r[1]) /\ grant[c] \in Nat
    BY <1>4, <1>5, <2>1, <2>2
  <2> QED
    BY <1>3, <2>2, <2>3
<1>8. waiting' <= waiting
  <2>1. out \subseteq Held
    BY DEF Leaving
  <2>2. IsFiniteSet(out)
    BY <2>1, FS_Subset DEF IndInv
  <2>3. Cardinality(out) \in Nat
    BY <2>2, FS_CardinalityType
  <2> QED
    BY <1>4, <1>5, <2>3
<1> HIDE DEF out
<1>9. \A c \in Calls : status'[c] = "new" <=> status[c] = "new"
  BY <1>5, <1>7
<1>10. \A c \in Calls : status'[c] = "released" =>
          \/ status[c] = "released"
          \/ status[c] = "held" /\ grant[c] <= now'
  BY <1>5, <1>7
<1>11. \E k \in Nat :
        /\ Len(queue') + k <= Len(queue)
        /\ \A i \in 1..Len(queue') : queue'[i] = queue[k + i]
  <2>1. CASE queue' = <<>>
    <3>1. Len(queue') = 0
      BY <2>1
    <3> QED
      BY <1>4, <3>1
  <2>2. CASE h < Len(queue) /\ queue' = SubSeq(queue, h + 1, Len(queue))
    <3>1. /\ Len(queue') = Len(queue) - h
          /\ \A i \in 1..(Len(queue) - h) : queue'[i] = queue[h + i]
      BY <1>4, <2>2, SuffixProperties
    <3>2. Len(queue') + h <= Len(queue)
      BY <1>4, <3>1
    <3> QED
      BY <1>4, <3>1, <3>2
  <2>3. CASE queue' = queue
    <3>1. \A i \in 1..Len(queue') : queue'[i] = queue[0 + i]
      BY <1>4, <2>3
    <3>2. Len(queue') + 0 <= Len(queue) /\ 0 \in Nat
      BY <1>4, <2>3
    <3> QED
      BY <3>1, <3>2
  <2> QED
    BY <1>6, <2>1, <2>2, <2>3
<1>12. now <= now' /\ grant' = grant
  BY <1>2, <1>3, <1>4
<1> QED
  BY <1>8, <1>9, <1>10, <1>11, <1>12 DEF Settling

(***************************************************************************)
(* A step that touches neither the queue nor its callers.                  *)
(***************************************************************************)
LEMMA QuietSettles ==
    ASSUME IndInv, now <= now', UNCHANGED <<queue, waiting, status, grant>>
    PROVE  Settling
<1>1. queue \in Seq(Calls) /\ Len(queue) \in Nat /\ waiting \in Nat
  BY DEF IndInv, TypeOK
<1>2. /\ 0 \in Nat /\ Len(queue') + 0 <= Len(queue)
      /\ \A i \in 1..Len(queue') : queue'[i] = queue[0 + i]
  BY <1>1
<1>3. \E k \in Nat :
        /\ Len(queue') + k <= Len(queue)
        /\ \A i \in 1..Len(queue') : queue'[i] = queue[k + i]
  BY <1>2
<1> QED
  BY <1>1, <1>3 DEF Settling

(***************************************************************************)
(* Every step the queue takes by itself keeps its invariant and settles.   *)
(***************************************************************************)
LEMMA QueueStepsSettle ==
    ASSUME IndInv, QueueSteps
    PROVE  IndInv' /\ Settling
<1>1. ASSUME NEW c \in Calls, Abort(c) PROVE IndInv' /\ Settling
  BY <1>1, AbortInv, AbortSettles
<1>2. ASSUME NEW c \in Calls, TimerFire(c) PROVE IndInv' /\ Settling
  <2>1. now <= now' /\ UNCHANGED <<queue, waiting, status, grant>>
    BY <1>2 DEF TimerFire, IndInv, TypeOK
  <2> QED
    BY <1>2, <2>1, TimerFireInv, QuietSettles
<1>3. ASSUME NEW c \in Calls, TimerThen(c) PROVE IndInv' /\ Settling
  BY <1>3, TimerThenInv, TimerThenSettles
<1>4. ASSUME NEW c \in Calls, TimerCatch(c) PROVE IndInv' /\ Settling
  <2>1. now <= now' /\ UNCHANGED <<queue, waiting, status, grant>>
    BY <1>4 DEF TimerCatch, IndInv, TypeOK
  <2> QED
    BY <1>4, <2>1, TimerCatchInv, QuietSettles
<1> QED
  BY <1>1, <1>2, <1>3, <1>4 DEF QueueSteps

-----------------------------------------------------------------------------
(***************************************************************************)
(* The queue implements HoldingLine: what its entries say of the order of  *)
(* two callers, and what each handler makes of the line.                   *)
(***************************************************************************)
EarlierIn(q, h) ==
    {<<q[p[1]], q[p[2]]>> : p \in {r \in ((h + 1)..Len(q)) \X ((h + 1)..Len(q)) : r[1] < r[2]}}

LEMMA EarlierAt ==
    ASSUME NEW q \in Seq(Calls), NEW h \in Nat,
           \A i, j \in 1..Len(q) : q[i] = q[j] => i = j,
           NEW i \in (h + 1)..Len(q), NEW j \in (h + 1)..Len(q)
    PROVE  <<q[i], q[j]>> \in EarlierIn(q, h) <=> i < j
<1> DEFINE At == (h + 1)..Len(q)
           Pairs == {r \in At \X At : r[1] < r[2]}
<1>1. At \subseteq 1..Len(q)
  OBVIOUS
<1>2. ASSUME <<q[i], q[j]>> \in EarlierIn(q, h)
      PROVE  i < j
  <2>1. PICK p \in Pairs : <<q[i], q[j]>> = <<q[p[1]], q[p[2]]>>
    BY <1>2 DEF EarlierIn
  <2>2. p[1] \in At /\ p[2] \in At /\ p[1] < p[2]
    OBVIOUS
  <2>3. q[i] = q[p[1]] /\ q[j] = q[p[2]]
    BY <2>1
  <2>4. i \in At /\ j \in At
    OBVIOUS
  <2> HIDE DEF Pairs, At
  <2>5. i = p[1] /\ j = p[2]
    BY <1>1, <2>2, <2>3, <2>4
  <2> QED
    BY <2>2, <2>5
<1>3. ASSUME i < j
      PROVE  <<q[i], q[j]>> \in EarlierIn(q, h)
  <2> DEFINE p == <<i, j>>
  <2>1. p \in Pairs /\ <<q[i], q[j]>> = <<q[p[1]], q[p[2]]>>
    BY <1>3
  <2> QED
    BY <2>1 DEF EarlierIn
<1> QED
  BY <1>2, <1>3

(***************************************************************************)
(* The line holds every held caller, in the order of their entries.        *)
(***************************************************************************)
LEMMA LineLists ==
    ASSUME NEW q \in Seq(Calls), NEW h \in Nat, NEW group \in SUBSET Calls,
           \A i, j \in 1..Len(q) : q[i] = q[j] => i = j,
           \A c \in group : \E i \in (h + 1)..Len(q) : q[i] = c
    PROVE  /\ group \cap {q[i] : i \in (h + 1)..Len(q)} = group
           /\ Orders(EarlierIn(q, h), group)
<1>1. group \cap {q[i] : i \in (h + 1)..Len(q)} = group
  OBVIOUS
<1> DEFINE At == (h + 1)..Len(q)
           R == EarlierIn(q, h)
<1>2. \A i, j \in At : <<q[i], q[j]>> \in R <=> i < j
  BY EarlierAt
<1>3. \A i \in At : i \in Int
  OBVIOUS
<1>4. \A c \in group : \E i \in At : q[i] = c
  OBVIOUS
<1> HIDE DEF At, R
<1>5. \A x \in group : <<x, x>> \notin R
  <2> SUFFICES ASSUME NEW x \in group PROVE <<x, x>> \notin R
    OBVIOUS
  <2>1. PICK i \in At : q[i] = x
    BY <1>4
  <2>2. ~ (i < i)
    BY <1>3
  <2> QED
    BY <1>2, <2>1, <2>2
<1>6. \A x, y \in group : x = y \/ <<x, y>> \in R \/ <<y, x>> \in R
  <2> SUFFICES ASSUME NEW x \in group, NEW y \in group, x # y
               PROVE  <<x, y>> \in R \/ <<y, x>> \in R
    OBVIOUS
  <2>1. PICK i \in At : q[i] = x
    BY <1>4
  <2>2. PICK j \in At : q[j] = y
    BY <1>4
  <2>3. i < j \/ j < i
    BY <1>3, <2>1, <2>2
  <2> QED
    BY <1>2, <2>1, <2>2, <2>3
<1>7. \A x, y, z \in group : <<x, y>> \in R /\ <<y, z>> \in R => <<x, z>> \in R
  <2> SUFFICES ASSUME NEW x \in group, NEW y \in group, NEW z \in group,
                      <<x, y>> \in R, <<y, z>> \in R
               PROVE  <<x, z>> \in R
    OBVIOUS
  <2>1. PICK i \in At : q[i] = x
    BY <1>4
  <2>2. PICK j \in At : q[j] = y
    BY <1>4
  <2>3. PICK k \in At : q[k] = z
    BY <1>4
  <2>4. i < j /\ j < k
    BY <1>2, <2>1, <2>2, <2>3
  <2>5. i < k
    BY <1>3, <2>4
  <2> QED
    BY <1>2, <2>1, <2>3, <2>5
<1>8. Orders(R, group)
  BY <1>5, <1>6, <1>7 DEF Orders
<1> QED
  BY <1>1, <1>8 DEF R

\* The line of a state in which the invariant holds, and of the next one.
LEMMA LineIsHeld ==
    ASSUME IndInv
    PROVE  /\ IsFiniteSet(Held) /\ Held \subseteq Calls
           /\ Orders(EarlierIn(queue, head), Held)
           /\ Line = Listed(Held, EarlierIn(queue, head))
           /\ Line \in Seq(Held) /\ Len(Line) = Cardinality(Held)
<1>1. /\ queue \in Seq(Calls) /\ head \in Nat /\ IsFiniteSet(Held)
      /\ Held \subseteq Calls
      /\ \A i, j \in 1..Len(queue) : queue[i] = queue[j] => i = j
      /\ \A c \in Held : \E i \in (head + 1)..Len(queue) : queue[i] = c
  BY DEF IndInv, TypeOK, OneEntryEach, QueueMatchesCallers, HeldAreQueued, Undrained, Held
<1>2. /\ Held \cap {queue[i] : i \in (head + 1)..Len(queue)} = Held
      /\ Orders(EarlierIn(queue, head), Held)
  BY <1>1, LineLists
<1>3. Line = Listed(Held, EarlierIn(queue, head))
  BY <1>2 DEF Line, Earlier, EarlierIn, Undrained
<1> QED
  BY <1>1, <1>2, <1>3, ListingIsSeq

LEMMA NextLineIsHeld ==
    ASSUME IndInv'
    PROVE  /\ Orders(EarlierIn(queue', head'), Held')
           /\ Line' = Listed(Held', EarlierIn(queue', head'))
<1>1. /\ queue' \in Seq(Calls) /\ head' \in Nat
      /\ Held' \subseteq Calls
      /\ \A i, j \in 1..Len(queue') : queue'[i] = queue'[j] => i = j
      /\ \A c \in Held' : \E i \in (head' + 1)..Len(queue') : queue'[i] = c
  BY DEF IndInv, TypeOK, OneEntryEach, QueueMatchesCallers, HeldAreQueued, Undrained, Held
<1>2. /\ Held' \cap {queue'[i] : i \in (head' + 1)..Len(queue')} = Held'
      /\ Orders(EarlierIn(queue', head'), Held')
  <2> DEFINE q == queue'
             h == head'
             group == Held'
  <2>1. /\ q \in Seq(Calls) /\ h \in Nat /\ group \in SUBSET Calls
        /\ \A i, j \in 1..Len(q) : q[i] = q[j] => i = j
        /\ \A c \in group : \E i \in (h + 1)..Len(q) : q[i] = c
    BY <1>1
  <2> HIDE DEF q, h, group
  <2>2. /\ group \cap {q[i] : i \in (h + 1)..Len(q)} = group
        /\ Orders(EarlierIn(q, h), group)
    BY <2>1, LineLists
  <2> QED
    BY <2>2 DEF q, h, group
<1>3. Line' = Listed(Held', EarlierIn(queue', head'))
  BY <1>2 DEF Line, Earlier, EarlierIn, Undrained
<1> QED
  BY <1>2, <1>3

\* Entries that only move forward together stay in order.
LEMMA SettlingKeepsOrder ==
    ASSUME IndInv, IndInv', Settling, Held' \subseteq Held
    PROVE  Line' = Listed(Held', EarlierIn(queue, head))
<1> DEFINE R == EarlierIn(queue, head)
           Q == EarlierIn(queue', head')
           At == (head + 1)..Len(queue)
           AtNext == (head' + 1)..Len(queue')
<1>1. /\ queue \in Seq(Calls) /\ head \in Nat
      /\ \A i, j \in 1..Len(queue) : queue[i] = queue[j] => i = j
      /\ \A c \in Held : \E i \in At : queue[i] = c
  BY DEF IndInv, TypeOK, OneEntryEach, QueueMatchesCallers, HeldAreQueued, Undrained
<1>2. /\ queue' \in Seq(Calls) /\ head' \in Nat
      /\ \A i, j \in 1..Len(queue') : queue'[i] = queue'[j] => i = j
      /\ \A c \in Held' : \E i \in AtNext : queue'[i] = c
  BY DEF IndInv, TypeOK, OneEntryEach, QueueMatchesCallers, HeldAreQueued, Undrained
<1>3. PICK k \in Nat :
        /\ Len(queue') + k <= Len(queue)
        /\ \A i \in 1..Len(queue') : queue'[i] = queue[k + i]
  BY DEF Settling
<1>4. \A i, j \in At : <<queue[i], queue[j]>> \in R <=> i < j
  BY <1>1, EarlierAt
<1>5. \A i, j \in AtNext : <<queue'[i], queue'[j]>> \in Q <=> i < j
  <2> DEFINE q == queue'
             h == head'
  <2>1. /\ q \in Seq(Calls) /\ h \in Nat
        /\ \A i, j \in 1..Len(q) : q[i] = q[j] => i = j
    BY <1>2
  <2> HIDE DEF q, h
  <2>2. \A i, j \in (h + 1)..Len(q) : <<q[i], q[j]>> \in EarlierIn(q, h) <=> i < j
    BY <2>1, EarlierAt
  <2> QED
    BY <2>2 DEF q, h
<1>6. At \subseteq 1..Len(queue) /\ AtNext \subseteq 1..Len(queue') /\ At \subseteq Int /\ AtNext \subseteq Int
  BY <1>1, <1>2
<1>7. \A i \in 1..Len(queue') : k + i \in 1..Len(queue)
  <2> SUFFICES ASSUME NEW i \in 1..Len(queue') PROVE k + i \in 1..Len(queue)
    OBVIOUS
  <2>1. Len(queue) \in Nat /\ Len(queue') \in Nat
    BY <1>1, <1>2, LenProperties
  <2> QED
    BY <1>3, <2>1
<1> HIDE DEF R, Q, At, AtNext
<1>8. \A c \in Held' : \E i \in AtNext : queue'[i] = c /\ k + i \in At /\ queue[k + i] = c
  <2> SUFFICES ASSUME NEW c \in Held'
               PROVE  \E i \in AtNext : queue'[i] = c /\ k + i \in At /\ queue[k + i] = c
    OBVIOUS
  <2>1. PICK i \in AtNext : queue'[i] = c
    BY <1>2
  <2>2. PICK j \in At : queue[j] = c
    BY <1>1
  <2>3. queue[k + i] = c
    BY <1>3, <1>6, <2>1
  <2>4. k + i = j
    BY <1>1, <1>6, <1>7, <2>1, <2>2, <2>3
  <2> QED
    BY <2>1, <2>2, <2>3, <2>4
<1>9. \A x, y \in Held' : <<x, y>> \in Q <=> <<x, y>> \in R
  <2> SUFFICES ASSUME NEW x \in Held', NEW y \in Held'
               PROVE  <<x, y>> \in Q <=> <<x, y>> \in R
    OBVIOUS
  <2>1. PICK i \in AtNext : queue'[i] = x /\ k + i \in At /\ queue[k + i] = x
    BY <1>8
  <2>2. PICK j \in AtNext : queue'[j] = y /\ k + j \in At /\ queue[k + j] = y
    BY <1>8
  <2>3. i < j <=> k + i < k + j
    BY <1>6
  <2> QED
    BY <1>4, <1>5, <2>1, <2>2, <2>3
<1>10. Listed(Held', Q) = Listed(Held', R)
  BY <1>9, OrdersAgree
<1>11. Line' = Listed(Held', EarlierIn(queue', head'))
  BY NextLineIsHeld
<1> QED
  BY <1>10, <1>11 DEF Q, R

(***************************************************************************)
(* wait() puts the caller at the end of the line.                          *)
(***************************************************************************)
LEMMA WaitIsJoin ==
    ASSUME IndInv, NEW c \in Calls, Wait(c)
    PROVE  Promise!Join(c)
<1>1. PICK w \in Waits, r \in Reads(3) : Enqueue(c, w, r)
  BY DEF Wait
<1>2. IndInv'
  BY <1>1, EnqueueInv
<1>3. /\ TypeOK /\ queue \in Seq(Calls) /\ head \in Nat /\ head <= Len(queue)
      /\ status \in [Calls -> Statuses] /\ grant \in [Calls -> Nat]
      /\ now \in 0..MaxTime /\ now \in Nat
  BY InstantsAssumption DEF IndInv, TypeOK, Compacted
<1>4. /\ status[c] = "new" /\ status' = [status EXCEPT ![c] = "held"]
      /\ \E g : grant' = [grant EXCEPT ![c] = g]
      /\ queue' = Append(queue, c) /\ head' = head /\ now' = r[3]
  BY <1>1 DEF Enqueue, Joined
<1>5. now' \in now..MaxTime
  BY <1>3, <1>4, ReadsAscend, SMTT(30)
<1>6. Held' = Held \cup {c} /\ c \notin Held
  BY <1>3, <1>4 DEF Held
<1> DEFINE R == EarlierIn(queue, head)
           Q == EarlierIn(queue', head')
           n == Len(queue)
<1>7. /\ n \in Nat /\ Len(queue') = n + 1 /\ queue'[n + 1] = c
      /\ \A i \in 1..n : queue'[i] = queue[i]
  BY <1>3, <1>4, AppendProperties
<1>8. \A d \in Held : \E i \in (head + 1)..n : queue[i] = d
  BY DEF IndInv, QueueMatchesCallers, HeldAreQueued, Undrained
<1>9. \A i, j \in (head + 1)..n : <<queue[i], queue[j]>> \in R <=> i < j
  BY <1>3, EarlierAt DEF IndInv, OneEntryEach
<1>10. \A i, j \in (head + 1)..(n + 1) : <<queue'[i], queue'[j]>> \in Q <=> i < j
  <2> DEFINE q == queue'
             h == head'
  <2>1. /\ q \in Seq(Calls) /\ h \in Nat /\ Len(q) = n + 1 /\ h = head
        /\ \A i, j \in 1..Len(q) : q[i] = q[j] => i = j
    BY <1>2, <1>4, <1>7 DEF IndInv, TypeOK, OneEntryEach
  <2> HIDE DEF q, h, n
  <2>2. \A i, j \in (h + 1)..Len(q) : <<q[i], q[j]>> \in EarlierIn(q, h) <=> i < j
    BY <2>1, EarlierAt
  <2> QED
    BY <2>1, <2>2 DEF q, h
<1>11. /\ (head + 1)..n \subseteq 1..n /\ (head + 1)..n \subseteq (head + 1)..(n + 1)
       /\ n + 1 \in (head + 1)..(n + 1)
       /\ \A i \in (head + 1)..n : i < n + 1 /\ ~ (n + 1 < i)
       /\ ~ (n + 1 < n + 1)
  BY <1>3, <1>7
<1> HIDE DEF R, Q, n
<1>12. \A x, y \in Held : <<x, y>> \in R <=> <<x, y>> \in Q
  <2> SUFFICES ASSUME NEW x \in Held, NEW y \in Held
               PROVE  <<x, y>> \in R <=> <<x, y>> \in Q
    OBVIOUS
  <2>1. PICK i \in (head + 1)..n : queue[i] = x
    BY <1>8
  <2>2. PICK j \in (head + 1)..n : queue[j] = y
    BY <1>8
  <2>3. queue'[i] = x /\ queue'[j] = y
    BY <1>7, <1>11, <2>1, <2>2
  <2> QED
    BY <1>9, <1>10, <1>11, <2>1, <2>2, <2>3
<1>13. <<c, c>> \notin Q /\ \A y \in Held : <<y, c>> \in Q /\ <<c, y>> \notin Q
  <2>1. <<c, c>> \notin Q
    BY <1>7, <1>10, <1>11
  <2>2. ASSUME NEW y \in Held
        PROVE  <<y, c>> \in Q /\ <<c, y>> \notin Q
    <3>1. PICK i \in (head + 1)..n : queue[i] = y
      BY <1>8
    <3>2. queue'[i] = y
      BY <1>7, <1>11, <3>1
    <3> QED
      BY <1>7, <1>10, <1>11, <3>2
  <2> QED
    BY <2>1, <2>2
<1>14. Line' = Append(Line, c)
  <2>1. IsFiniteSet(Held) /\ Orders(R, Held) /\ Line = Listed(Held, R)
    BY LineIsHeld DEF R
  <2>2. Listed(Held, R) = Listed(Held, Q) /\ Orders(Q, Held)
    BY <1>12, <2>1, OrdersAgree
  <2>3. Listed(Held \cup {c}, Q) = Append(Listed(Held, Q), c)
    BY <1>6, <1>13, <2>1, <2>2, ListedAppend
  <2>4. Line' = Listed(Held', Q)
    BY <1>2, NextLineIsHeld DEF Q
  <2> QED
    BY <1>6, <2>1, <2>2, <2>3, <2>4
<1>15. \A d \in Calls \ {c} : grant'[d] = grant[d]
  BY <1>3, <1>4
<1> QED
  BY <1>4, <1>5, <1>14, <1>15 DEF Promise!Join, Promise!TimePasses

(***************************************************************************)
(* onAbort takes its caller out of the line, reset() or not.               *)
(***************************************************************************)
LEMMA AbortIsCancel ==
    ASSUME IndInv, NEW c \in Calls, Abort(c)
    PROVE  Promise!Cancel(c)
<1>1. IndInv' /\ Settling
  BY AbortInv, AbortSettles
<1>2. /\ status[c] = "held" /\ c \in Cancellable
      /\ status' = [status EXCEPT ![c] = "aborted"]
      /\ now' = now /\ grant' = grant
  BY DEF Abort, Listening
<1>3. status \in [Calls -> Statuses]
  BY DEF IndInv, TypeOK
<1>4. c \in Held /\ Held' = Held \ {c}
  BY <1>2, <1>3 DEF Held
<1> DEFINE R == EarlierIn(queue, head)
<1>5. Line' = Listed(Held \ {c}, R)
  BY <1>1, <1>4, SettlingKeepsOrder
<1>6. /\ IsFiniteSet(Held) /\ Orders(R, Held) /\ Line = Listed(Held, R)
      /\ Len(Line) = Cardinality(Held)
  BY LineIsHeld
<1> HIDE DEF R
<1>7. PICK i \in 1..Cardinality(Held) :
        /\ Listed(Held, R)[i] = c
        /\ Listed(Held \ {c}, R) =
             SubSeq(Listed(Held, R), 1, i - 1)
               \o SubSeq(Listed(Held, R), i + 1, Cardinality(Held))
  BY <1>4, <1>6, ListedWithout
<1>8. /\ i \in 1..Len(Line) /\ Line[i] = c
      /\ Line' = SubSeq(Line, 1, i - 1) \o SubSeq(Line, i + 1, Len(Line))
  BY <1>5, <1>6, <1>7
<1> QED
  BY <1>2, <1>8 DEF Promise!Cancel

(***************************************************************************)
(* The handler of a sleep lets the whole due front of the line go, however *)
(* many tombstones lie in between; or nobody, and only time passes.        *)
(***************************************************************************)
LEMMA TimerThenIsRelease ==
    ASSUME IndInv, NEW id \in Calls, TimerThen(id)
    PROVE  Promise!Release \/ Promise!Tick
<1>1. IndInv' /\ Settling
  BY TimerThenInv, TimerThenSettles
<1>2. PICK r \in Reads(3), h \in head..Len(queue) :
        /\ Drain(r[1], h)
        /\ grant' = grant
        /\ now' = r[3]
  BY DEF TimerThen
<1>3. /\ queue \in Seq(Calls) /\ head \in Nat /\ Len(queue) \in Nat
      /\ status \in [Calls -> Statuses] /\ grant \in [Calls -> Nat]
      /\ now \in 0..MaxTime
      /\ \A i, j \in 1..Len(queue) : queue[i] = queue[j] => i = j
      /\ \A c \in Held : \E i \in (head + 1)..Len(queue) : queue[i] = c
  <2>1. /\ queue \in Seq(Calls) /\ head \in Nat /\ now \in 0..MaxTime
        /\ status \in [Calls -> Statuses] /\ grant \in [Calls -> Nat]
    BY DEF IndInv, TypeOK
  <2>2. \A i, j \in 1..Len(queue) : queue[i] = queue[j] => i = j
    BY DEF IndInv, OneEntryEach
  <2>3. \A c \in Held : \E i \in (head + 1)..Len(queue) : queue[i] = c
    BY DEF IndInv, QueueMatchesCallers, HeldAreQueued, Undrained
  <2>4. Len(queue) \in Nat
    BY <2>1, LenProperties
  <2> QED
    BY <2>1, <2>2, <2>3, <2>4
<1>4. /\ r[1] \in Nat /\ now' \in now..MaxTime /\ r[1] <= now' /\ now' \in Nat
      /\ NowMicros(r[1]) \in Nat /\ NowMicros(r[1]) <= r[1]
  <2>1. /\ r[1] \in Nat /\ r[2] \in Nat /\ r[3] \in Nat /\ r[3] \in 0..MaxTime
        /\ now <= r[1] /\ r[1] <= r[2] /\ r[2] <= r[3]
    BY <1>3, ReadsAscend
  <2>2. NowMicros(r[1]) \in Nat /\ NowMicros(r[1]) <= r[1]
    BY <2>1, NowMicrosBounds
  <2>3. now \in Int
    BY <1>3
  <2> QED
    BY <1>2, <2>1, <2>2, <2>3
<1> DEFINE D == Leaving(r[1], h)
           R == EarlierIn(queue, head)
           m == Cardinality(D)
           n == Cardinality(Held)
<1>5. /\ status' = [c \in Calls |-> IF c \in D THEN "released" ELSE status[c]]
      /\ \A i \in (head + 1)..h : grant[queue[i]] <= NowMicros(r[1])
  BY <1>2 DEF Drain
<1>6. D \in SUBSET Held /\ Held \subseteq Calls
  BY DEF Leaving, Held
<1>7. \A d \in D : grant[d] <= now'
  <2> SUFFICES ASSUME NEW d \in D PROVE grant[d] <= now'
    OBVIOUS
  <2>1. PICK i \in (head + 1)..h : queue[i] = d
    BY DEF Leaving
  <2>2. grant[d] \in Nat
    BY <1>3, <1>6
  <2> QED
    BY <1>4, <1>5, <2>1, <2>2
<1>8. \A d \in D, y \in Held \ D : <<y, d>> \notin R
  <2> SUFFICES ASSUME NEW d \in D, NEW y \in Held \ D, <<y, d>> \in R PROVE FALSE
    OBVIOUS
  <2>1. PICK j \in (head + 1)..h : queue[j] = d
    BY DEF Leaving
  <2>2. PICK i \in (head + 1)..Len(queue) : queue[i] = y
    BY <1>3
  <2>3. j \in (head + 1)..Len(queue)
    BY <1>3
  <2>4. i < j
    BY <1>3, <2>1, <2>2, <2>3, EarlierAt
  <2>5. i \in (head + 1)..h
    BY <1>3, <2>4
  <2> QED
    BY <2>2, <2>5 DEF Leaving
<1> HIDE DEF D
<1>9. Held' = Held \ D
  BY <1>3, <1>5, <1>6 DEF Held
<1>10. Line' = Listed(Held \ D, R)
  BY <1>1, <1>9, SettlingKeepsOrder
<1>11. /\ IsFiniteSet(Held) /\ Orders(R, Held) /\ Line = Listed(Held, R)
       /\ Line \in Seq(Held) /\ Len(Line) = n
  BY LineIsHeld
<1> HIDE DEF R
<1>12. /\ m \in 0..n
       /\ D = {Line[i] : i \in 1..m}
       /\ Line' = SubSeq(Line, m + 1, Len(Line))
  <2>1. /\ m \in 0..n
        /\ D = {Listed(Held, R)[i] : i \in 1..m}
        /\ Listed(Held \ D, R) = SubSeq(Listed(Held, R), m + 1, n)
    BY <1>6, <1>8, <1>11, ListedPrefix
  <2> QED
    BY <1>10, <1>11, <2>1
<1>13. n \in Nat
  BY <1>11, FS_CardinalityType
<1> HIDE DEF m, n
<1>14. CASE m = 0
  <2>1. Line' = Line
    BY <1>11, <1>12, <1>14, SubSeqFull
  <2>2. D = {}
    BY <1>12, <1>14
  <2>3. status' = status
    BY <1>3, <1>5, <2>2
  <2> QED
    BY <1>2, <1>4, <2>1, <2>3 DEF Promise!Tick, Promise!TimePasses
<1>15. CASE m # 0
  <2>1. m \in 1..Len(Line)
    BY <1>11, <1>12, <1>13, <1>15
  <2> QED
    BY <1>2, <1>4, <1>5, <1>7, <1>12, <2>1 DEF Promise!Release, Promise!TimePasses
<1> QED
  BY <1>14, <1>15

\* The other handlers and the clock leave the line alone.
LEMMA QuietIsTick ==
    ASSUME now' \in now..MaxTime, UNCHANGED <<queue, head, status, grant>>
    PROVE  Promise!Tick
<1>1. Line' = Line
  BY DEF Line, Earlier, Undrained, Held
<1> QED
  BY <1>1 DEF Promise!Tick, Promise!TimePasses

LEMMA PromiseInit == Init => Promise!Init
<1> SUFFICES ASSUME Init PROVE Promise!Init
  OBVIOUS
<1>1. IndInv /\ Held = {}
  BY InitInv DEF Init, Held
<1>2. Line \in Seq(Held) /\ Len(Line) = 0
  BY <1>1, LineIsHeld, FS_EmptySet
<1>3. Line = <<>>
  BY <1>2, EmptySeq
<1>4. grant \in [Calls -> {0}]
  BY DEF Init
<1> QED
  BY <1>3, <1>4 DEF Init, Promise!Init

LEMMA PromiseNext == IndInv /\ [Next]_vars => [Promise!Next]_(Promise!vars)
<1> SUFFICES ASSUME IndInv, [Next]_vars
             PROVE  Promise!Next \/ UNCHANGED Promise!vars
  OBVIOUS
<1>1. now \in 0..MaxTime /\ now \in Nat
  BY InstantsAssumption DEF IndInv, TypeOK
<1>2. ASSUME NEW c \in Calls, Wait(c) PROVE Promise!Join(c)
  BY <1>2, WaitIsJoin
<1>3. ASSUME NEW c \in Calls, Abort(c) PROVE Promise!Cancel(c)
  BY <1>3, AbortIsCancel
<1>4. ASSUME NEW c \in Calls, TimerThen(c) PROVE Promise!Release \/ Promise!Tick
  BY <1>4, TimerThenIsRelease
<1>5. ASSUME NEW c \in Calls, TimerFire(c) \/ TimerCatch(c) PROVE Promise!Tick
  BY <1>1, <1>5, QuietIsTick DEF TimerFire, TimerCatch
<1>6. CASE Tick
  <2>1. now' \in now..MaxTime
    BY <1>1, <1>6, InstantsAssumption DEF Tick, TimePasses
  <2> QED
    BY <1>6, <2>1, QuietIsTick DEF Tick, Promise!Next
<1>7. CASE UNCHANGED vars
  <2>1. now' \in now..MaxTime
    BY <1>1, <1>7 DEF vars
  <2> QED
    BY <1>7, <2>1, QuietIsTick DEF vars, Promise!Next
<1> QED
  BY <1>2, <1>3, <1>4, <1>5, <1>6, <1>7 DEF Next, Rest, Promise!Next

(***************************************************************************)
(* ImplementsHoldingLine: timers stale or not, tombstones, compaction, the *)
(* counter and reset() never show.  To its owner the queue is a line that  *)
(* callers leave in a group from the front once all of it is due, or from  *)
(* anywhere by cancelling.                                                 *)
(***************************************************************************)
THEOREM QueueKeepsPromise == Spec => ImplementsHoldingLine
  BY PromiseInit, PromiseNext, QueueInvariant, PTL
     DEF Spec, ImplementsHoldingLine, Promise!Spec

=============================================================================
