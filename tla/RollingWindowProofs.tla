------------------------- MODULE RollingWindowProofs -------------------------
(***************************************************************************)
(* Proofs about RollingWindow, for every length of the window, every       *)
(* number of buckets, every grain of the clock and any number of records.  *)
(***************************************************************************)
EXTENDS RollingWindow, ArithmeticProofs

(***************************************************************************)
(* The inductive invariant: the ring's shape, no bucket begins in the      *)
(* future, and the claim itself, for all later instants at once.           *)
(***************************************************************************)
StartsArePast == \A i \in DOMAIN buckets : buckets[i].start <= NowMicros(now)

WindowInv ==
    /\ TypeOK
    /\ StartsArePast
    /\ SnapshotIsLog

-----------------------------------------------------------------------------
(***************************************************************************)
(* A window is a whole number of buckets.                                  *)
(***************************************************************************)
LEMMA LapIsWindow ==
    /\ BucketCount \in Nat \ {0} /\ WindowLength \in Nat \ {0}
    /\ BucketLength \in Nat \ {0}
    /\ BucketLength * BucketCount = WindowLength
<1>1. /\ BucketCount \in Nat \ {0} /\ WindowLength \in Nat \ {0} /\ Micro \in Nat \ {0}
      /\ WindowLength % (BucketCount * Micro) = 0
  BY WindowAssumption, InstantsAssumption
<1> DEFINE lap == BucketCount * Micro
           q == WindowLength \div lap
           x == Micro * q
<1>2. lap \in Nat \ {0}
  BY <1>1, SMTT(30)
<1> HIDE DEF lap
<1>3. q \in Nat /\ lap * q = WindowLength
  BY <1>1, <1>2, ExactQuotient DEF lap
<1> HIDE DEF q
<1>4. x \in Nat /\ x * BucketCount = WindowLength
  <2>1. x * BucketCount = (BucketCount * Micro) * q
    BY <1>1, <1>3, SMTT(30)
  <2> QED
    BY <1>1, <1>3, <2>1, ProductIsNat DEF lap
<1> HIDE DEF x
<1>5. BucketLength = x
  <2>1. /\ BucketLength \in Nat /\ x <= BucketLength /\ BucketLength <= x
    BY <1>1, <1>4, Floor, FloorIsLargest DEF BucketLength
  <2> QED
    BY <1>4, <2>1
<1>6. x # 0
  BY <1>1, <1>4
<1> QED
  BY <1>1, <1>4, <1>5, <1>6

(***************************************************************************)
(* Where a bucket begins and which it is.                                  *)
(***************************************************************************)
LEMMA StartBounds ==
    ASSUME NEW t \in Nat
    PROVE  /\ t \div BucketLength \in Nat
           /\ StartOf(t) = BucketLength * (t \div BucketLength)
           /\ StartOf(t) \in Nat /\ StartOf(t) <= t
           /\ StartOf(t) % BucketLength = 0
           /\ Index(t) \in 0..(BucketCount - 1)
           /\ Index(StartOf(t)) = Index(t)
<1>1. BucketLength \in Nat \ {0} /\ BucketCount \in Nat \ {0}
  BY LapIsWindow
<1> DEFINE q == t \div BucketLength
<1>2. q \in Nat /\ t = BucketLength * q + (t % BucketLength) /\ t % BucketLength \in Nat
  BY <1>1, SMTT(30)
<1>3. Index(t) \in 0..(BucketCount - 1)
  <2>1. q % BucketCount \in 0..(BucketCount - 1)
    BY <1>1, <1>2, SMTT(30)
  <2> QED
    BY <2>1 DEF Index
<1> HIDE DEF q
<1>4. BucketLength * q \in Nat
  BY <1>1, <1>2, ProductIsNat
<1>5. StartOf(t) = BucketLength * q /\ StartOf(t) <= t
  BY <1>2, <1>4 DEF StartOf
<1>6. (BucketLength * q) \div BucketLength = q /\ (BucketLength * q) % BucketLength = 0
  BY <1>1, <1>2, MultipleDivides
<1>7. Index(StartOf(t)) = Index(t)
  BY <1>5, <1>6 DEF Index, q
<1> QED
  BY <1>2, <1>3, <1>4, <1>5, <1>6, <1>7 DEF q

LEMMA StartAscends ==
    ASSUME NEW s \in Nat, NEW t \in Nat, s % BucketLength = 0, s <= t
    PROVE  s <= StartOf(t)
<1>1. BucketLength \in Nat \ {0}
  BY LapIsWindow
<1> DEFINE a == s \div BucketLength
           b == t \div BucketLength
<1>2. a \in Nat /\ BucketLength * a = s
  BY <1>1, ExactQuotient
<1>3. b \in Nat /\ StartOf(t) = BucketLength * b
  BY StartBounds
<1>4. a <= b
  <2>1. a * BucketLength = BucketLength * a
    BY <1>1, <1>2, SMTT(30)
  <2>2. a * BucketLength <= t
    BY <1>2, <2>1
  <2> QED
    BY <1>1, <1>2, <2>2, FloorIsLargest
<1> HIDE DEF a, b
<1> QED
  BY <1>1, <1>2, <1>3, <1>4, ProductAscends

(***************************************************************************)
(* A bucket met again has come round: its old start is a window ago.       *)
(***************************************************************************)
LEMMA LapIsLong ==
    ASSUME NEW s \in Nat, NEW t \in Nat, s % BucketLength = 0,
           Index(s) = Index(t), s < StartOf(t)
    PROVE  s + WindowLength <= StartOf(t)
<1>1. /\ BucketLength \in Nat \ {0} /\ BucketCount \in Nat \ {0}
      /\ BucketLength * BucketCount = WindowLength
  BY LapIsWindow
<1> DEFINE a == s \div BucketLength
           b == t \div BucketLength
           n == BucketCount
           c == a \div n
           d == b \div n
<1>2. a \in Nat /\ BucketLength * a = s
  BY <1>1, ExactQuotient
<1>3. b \in Nat /\ StartOf(t) = BucketLength * b
  BY StartBounds
<1>4. a % n = b % n
  BY DEF Index
<1> HIDE DEF a, b
<1>5. a < b
  <2> SUFFICES ASSUME b <= a PROVE FALSE
    BY <1>2, <1>3
  <2>1. BucketLength * b <= BucketLength * a
    BY <1>1, <1>2, <1>3, ProductAscends
  <2>2. StartOf(t) \in Nat
    BY StartBounds
  <2> QED
    BY <1>2, <1>3, <2>1, <2>2
<1>6. /\ c \in Nat /\ d \in Nat /\ a % n \in Nat
      /\ a = n * c + (a % n) /\ b = n * d + (b % n)
  BY <1>1, <1>2, <1>3, SMTT(30)
<1> HIDE DEF c, d
<1>7. n * c \in Nat /\ n * d \in Nat /\ n * c < n * d
  BY <1>1, <1>2, <1>3, <1>4, <1>5, <1>6, ProductIsNat
<1>8. c + 1 <= d
  <2> SUFFICES ASSUME d <= c PROVE FALSE
    BY <1>6
  <2>1. n * d <= n * c
    BY <1>1, <1>6, ProductAscends
  <2> QED
    BY <1>7, <2>1
<1>9. n * (c + 1) <= n * d /\ n * (c + 1) = n * c + n
  <2>1. n * (c + 1) <= n * d
    BY <1>1, <1>6, <1>8, ProductAscends
  <2>2. n * (c + 1) = n * c + n
    BY <1>1, <1>6, SMTT(30)
  <2> QED
    BY <2>1, <2>2
<1>10. a + n <= b
  <2> DEFINE x == n * c
             y == n * d
             m == a % n
  <2>1. /\ x \in Nat /\ y \in Nat /\ m \in Nat /\ n \in Nat
        /\ a = x + m /\ b = y + m
    BY <1>1, <1>4, <1>6, <1>7
  <2>2. x + n <= y
    BY <1>7, <1>9
  <2> HIDE DEF x, y, m
  <2> QED
    BY <2>1, <2>2
<1>11. BucketLength * (a + n) <= BucketLength * b
  BY <1>1, <1>2, <1>3, <1>10, ProductAscends
<1>12. BucketLength * (a + n) = BucketLength * a + BucketLength * n
  BY <1>1, <1>2, SMTT(30)
<1> QED
  BY <1>1, <1>2, <1>3, <1>11, <1>12

-----------------------------------------------------------------------------
(***************************************************************************)
(* What a later snapshot or record may read.                               *)
(***************************************************************************)
LEMMA LaterInstants ==
    ASSUME now \in 0..MaxTime, NEW t \in Later
    PROVE  t \in Nat /\ NowMicros(now) \in Nat /\ NowMicros(now) <= t
<1>1. PICK u \in now..MaxTime : t = NowMicros(u)
  BY DEF Later
<1>2. now \in Nat /\ u \in Nat /\ now <= u
  BY <1>1, InstantsAssumption
<1> QED
  BY <1>1, <1>2, NowMicrosBounds, NowMicrosAscends

LEMMA LaterShrinks ==
    ASSUME now \in 0..MaxTime, now' \in 0..MaxTime, now <= now'
    PROVE  Later' \subseteq Later
<1>1. now \in Nat /\ now' \in Nat /\ MaxTime \in Nat
  BY InstantsAssumption
<1>2. \A u \in now'..MaxTime : u \in now..MaxTime
  BY <1>1
<1> QED
  BY <1>2 DEF Later

(***************************************************************************)
(* The clock never catches the window out: the error that bucketFor()      *)
(* throws when time runs backwards is never thrown.                        *)
(***************************************************************************)
LEMMA NeverBackwards ==
    ASSUME TypeOK, StartsArePast, NEW t \in Later
    PROVE  ~ WentBackwards(t)
<1>1. t \in Nat /\ NowMicros(now) \in Nat /\ NowMicros(now) <= t
  BY LaterInstants DEF TypeOK
<1> DEFINE i == Index(t)
           s == buckets[i].start
<1>2. StartOf(t) \in Nat /\ i \in DOMAIN buckets
  BY <1>1, StartBounds DEF TypeOK
<1>3. s \in {Never} \cup 0..MaxTime /\ s <= NowMicros(now)
  BY <1>2 DEF TypeOK, StartsArePast
<1>4. CASE s = Never
  BY <1>2, <1>4, LapIsWindow DEF WentBackwards, Never
<1>5. CASE s # Never
  <2>1. s \in Nat /\ s % BucketLength = 0
    BY <1>2, <1>3, <1>5, InstantsAssumption DEF TypeOK
  <2> HIDE DEF i, s
  <2>2. s <= t
    BY <1>1, <1>3, <2>1
  <2>3. s <= StartOf(t)
    BY <1>1, <2>1, <2>2, StartAscends
  <2> QED
    BY <1>2, <2>1, <2>3 DEF WentBackwards, i, s
<1> QED
  BY <1>4, <1>5

(***************************************************************************)
(* A step that records nothing.                                            *)
(***************************************************************************)
LEMMA QuietKeepsWindow ==
    ASSUME WindowInv, now' \in 0..MaxTime, now <= now', UNCHANGED <<buckets, log>>
    PROVE  WindowInv'
<1>typ. TypeOK /\ StartsArePast /\ SnapshotIsLog
  BY DEF WindowInv
<1>1. now \in 0..MaxTime /\ now \in Nat /\ now' \in Nat
  BY <1>typ, InstantsAssumption DEF TypeOK
<1>2. TypeOK'
  BY <1>typ DEF TypeOK, Index
<1>3. StartsArePast'
  <2>1. NowMicros(now) \in Nat /\ NowMicros(now') \in Nat /\ NowMicros(now) <= NowMicros(now')
    BY <1>1, NowMicrosBounds, NowMicrosAscends
  <2> SUFFICES ASSUME NEW i \in DOMAIN buckets PROVE buckets[i].start <= NowMicros(now')
    BY DEF StartsArePast
  <2>2. buckets[i].start <= NowMicros(now) /\ buckets[i].start \in {Never} \cup 0..MaxTime
    BY <1>typ DEF TypeOK, StartsArePast
  <2>3. buckets[i].start \in Int
    BY <2>2, LapIsWindow, InstantsAssumption DEF Never
  <2> QED
    BY <2>1, <2>2, <2>3
<1>4. SnapshotIsLog'
  <2>1. Later' \subseteq Later
    BY <1>1, LaterShrinks
  <2>2. \A t, k : Snapshot(t)[k]' = Snapshot(t)[k]
    BY DEF Snapshot, Live
  <2>3. \A k, times : Logged(k, times)' = Logged(k, times)
    BY DEF Logged
  <2> QED
    BY <1>typ, <2>1, <2>2, <2>3 DEF SnapshotIsLog
<1> QED
  BY <1>2, <1>3, <1>4 DEF WindowInv

\* record(kind, n) when the window reads t.
RecordAt(kind, n, t) ==
    /\ ~ WentBackwards(t)
    /\ buckets' = [buckets EXCEPT ![Index(t)] =
                     [BucketFor(t) EXCEPT !.count[kind] = @ + n]]
    /\ log' = Append(log, [at |-> t, kind |-> kind, n |-> n])

(***************************************************************************)
(* What record() leaves in the bucket it writes to: the counts it found if *)
(* the bucket is current, none if it is left from an earlier lap.          *)
(***************************************************************************)
LEMMA BucketWritten ==
    ASSUME TypeOK, NEW t \in 0..MaxTime,
           NEW kind \in Kinds, NEW n \in Nat \ {0}, RecordAt(kind, n, t)
    PROVE  /\ Index(t) \in DOMAIN buckets
           /\ DOMAIN buckets' = DOMAIN buckets
           /\ buckets' \in [0..(BucketCount - 1) ->
                              [start : {Never} \cup 0..MaxTime, count : [Kinds -> Nat]]]
           /\ buckets'[Index(t)].start = StartOf(t)
           /\ \A i \in DOMAIN buckets : i # Index(t) => buckets'[i] = buckets[i]
           /\ \/ /\ buckets[Index(t)].start = StartOf(t)
                 /\ \A k \in Kinds : buckets'[Index(t)].count[k] =
                      buckets[Index(t)].count[k] + (IF k = kind THEN n ELSE 0)
              \/ /\ \A u \in Nat : t <= u => ~ Live(buckets[Index(t)], u)
                 /\ buckets[Index(t)].start < StartOf(t)
                 /\ \A k \in Kinds : buckets'[Index(t)].count[k] =
                      (IF k = kind THEN n ELSE 0)
<1> DEFINE i == Index(t)
           old == buckets[i]
           new == BucketFor(t)
<1>1. /\ t \in Nat /\ StartOf(t) \in Nat /\ StartOf(t) <= t /\ i \in 0..(BucketCount - 1)
      /\ Index(StartOf(t)) = Index(t) /\ MaxTime \in Nat
  BY StartBounds, InstantsAssumption
<1>2. /\ DOMAIN buckets = 0..(BucketCount - 1)
      /\ old \in [start : {Never} \cup 0..MaxTime, count : [Kinds -> Nat]]
  BY <1>1 DEF TypeOK
<1>3. old.start # Never => old.start % BucketLength = 0 /\ Index(old.start) = i
  BY <1>1, <1>2 DEF TypeOK
<1>4. ~ (old.start > StartOf(t))
  BY DEF WentBackwards, RecordAt
<1>5. new = IF old.start = StartOf(t) THEN old ELSE [start |-> StartOf(t), count |-> Zeroes]
  BY DEF BucketFor, Wiped
<1>6. StartOf(t) \in 0..MaxTime
  BY <1>1
<1>7. /\ new \in [start : {Never} \cup 0..MaxTime, count : [Kinds -> Nat]]
      /\ new.start = StartOf(t)
  <2>1. Zeroes \in [Kinds -> Nat]
    BY DEF Zeroes
  <2> QED
    BY <1>2, <1>5, <1>6, <2>1
<1> HIDE DEF new
<1> DEFINE after == [new EXCEPT !.count[kind] = @ + n]
<1>8. /\ after \in [start : {Never} \cup 0..MaxTime, count : [Kinds -> Nat]]
      /\ after.start = StartOf(t)
      /\ \A k \in Kinds : after.count[k] = new.count[k] + (IF k = kind THEN n ELSE 0)
  <2>1. new.count \in [Kinds -> Nat] /\ new.count[kind] + n \in Nat
    BY <1>7
  <2>2. after.start = new.start /\ after.count = [new.count EXCEPT ![kind] = @ + n]
    BY <1>7
  <2>3. after.count \in [Kinds -> Nat]
    BY <2>1, <2>2
  <2>4. after \in [start : {Never} \cup 0..MaxTime, count : [Kinds -> Nat]]
    BY <1>7, <2>1
  <2>5. \A k \in Kinds : after.count[k] = new.count[k] + (IF k = kind THEN n ELSE 0)
    BY <2>1, <2>2
  <2> QED
    BY <1>7, <2>2, <2>4, <2>5
<1> HIDE DEF after
<1>9. buckets' = [buckets EXCEPT ![i] = after]
  BY DEF after, new, RecordAt
<1>10. /\ buckets' \in [0..(BucketCount - 1) ->
                          [start : {Never} \cup 0..MaxTime, count : [Kinds -> Nat]]]
       /\ DOMAIN buckets' = DOMAIN buckets
       /\ buckets'[i] = after /\ \A j \in DOMAIN buckets : j # i => buckets'[j] = buckets[j]
  BY <1>1, <1>2, <1>8, <1>9 DEF TypeOK
<1>11. \/ /\ old.start = StartOf(t)
          /\ \A k \in Kinds : after.count[k] = old.count[k] + (IF k = kind THEN n ELSE 0)
       \/ /\ \A u \in Nat : t <= u => ~ Live(old, u)
          /\ old.start < StartOf(t)
          /\ \A k \in Kinds : after.count[k] = (IF k = kind THEN n ELSE 0)
  <2>1. CASE old.start = StartOf(t)
    BY <1>5, <1>8, <2>1
  <2>2. CASE old.start # StartOf(t)
    <3>1. \A k \in Kinds : new.count[k] = 0
      BY <1>5, <2>2 DEF Zeroes
    <3>2. \A k \in Kinds : after.count[k] = (IF k = kind THEN n ELSE 0)
      BY <1>8, <3>1
    <3>3. old.start < StartOf(t) /\ old.start + WindowLength <= t
      <4>1. WindowLength \in Nat \ {0}
        BY LapIsWindow
      <4>2. CASE old.start = Never
        BY <1>1, <4>1, <4>2 DEF Never
      <4>3. CASE old.start # Never
        <5>1. old.start \in Nat /\ old.start % BucketLength = 0 /\ Index(old.start) = Index(t)
          BY <1>1, <1>2, <1>3, <4>3
        <5>2. old.start < StartOf(t)
          BY <1>1, <1>4, <2>2, <5>1
        <5>3. old.start + WindowLength <= StartOf(t)
          BY <1>1, <5>1, <5>2, LapIsLong
        <5> QED
          BY <1>1, <4>1, <5>1, <5>2, <5>3
      <4> QED
        BY <4>2, <4>3
    <3>4. old.start \in Int /\ WindowLength \in Nat
      BY <1>2, LapIsWindow, InstantsAssumption DEF Never
    <3>5. \A u \in Nat : t <= u => ~ Live(old, u)
      BY <1>1, <3>3, <3>4 DEF Live
    <3> QED
      BY <3>2, <3>3, <3>5
  <2> QED
    BY <2>1, <2>2
<1> QED
  BY <1>1, <1>2, <1>8, <1>10, <1>11

(***************************************************************************)
(* A record moves the counters of every later snapshot and the log alike.  *)
(***************************************************************************)
LEMMA SnapshotMoves ==
    ASSUME TypeOK, NEW t \in 0..MaxTime,
           NEW kind \in Kinds, NEW n \in Nat \ {0}, RecordAt(kind, n, t),
           NEW u \in Nat, t <= u, NEW k \in Kinds
    PROVE  /\ Snapshot(u)[k] \in Nat
           /\ Snapshot(u)'[k] = Snapshot(u)[k] +
                (IF k = kind /\ StartOf(t) > u - WindowLength THEN n ELSE 0)
<1> DEFINE i == Index(t)
           ring == DOMAIN buckets
           f == [j \in ring |-> buckets[j].count[k]]
           g == [j \in ring |-> buckets'[j].count[k]]
           old == {j \in ring : Live(buckets[j], u)}
           new == {j \in ring : Live(buckets'[j], u)}
           more == IF k = kind THEN n ELSE 0
<1>1. /\ i \in ring /\ ring = 0..(BucketCount - 1) /\ DOMAIN buckets' = ring
      /\ buckets' \in [0..(BucketCount - 1) ->
                         [start : {Never} \cup 0..MaxTime, count : [Kinds -> Nat]]]
      /\ buckets'[i].start = StartOf(t)
      /\ \A j \in ring : j # i => buckets'[j] = buckets[j]
      /\ \/ /\ buckets[i].start = StartOf(t)
            /\ buckets'[i].count[k] = buckets[i].count[k] + more
         \/ /\ ~ Live(buckets[i], u)
            /\ buckets'[i].count[k] = more
  <2>1. ring = 0..(BucketCount - 1)
    BY DEF TypeOK
  <2>2. /\ i \in ring /\ DOMAIN buckets' = ring
        /\ buckets' \in [0..(BucketCount - 1) ->
                           [start : {Never} \cup 0..MaxTime, count : [Kinds -> Nat]]]
        /\ buckets'[i].start = StartOf(t)
        /\ \A j \in ring : j # i => buckets'[j] = buckets[j]
    BY BucketWritten
  <2>3. \/ /\ buckets[i].start = StartOf(t)
           /\ \A l \in Kinds : buckets'[i].count[l] =
                buckets[i].count[l] + (IF l = kind THEN n ELSE 0)
        \/ /\ \A v \in Nat : t <= v => ~ Live(buckets[i], v)
           /\ buckets[i].start < StartOf(t)
           /\ \A l \in Kinds : buckets'[i].count[l] = (IF l = kind THEN n ELSE 0)
    BY BucketWritten
  <2> QED
    BY <2>1, <2>2, <2>3
<1>2. Snapshot(u)[k] = SumFunctionOnSet(f, old)
  BY DEF Snapshot
<1>3. Snapshot(u)'[k] = SumFunctionOnSet(g, new)
  BY <1>1 DEF Snapshot, Live
<1>4. IsFiniteSet(ring)
  <2>1. 0 \in Int /\ BucketCount - 1 \in Int
    BY LapIsWindow
  <2>2. IsFiniteSet(0..(BucketCount - 1))
    BY <2>1, FS_Interval
  <2> QED
    BY <1>1, <2>2
<1>5. IsFiniteSet(old) /\ IsFiniteSet(new) /\ old \subseteq ring /\ new \subseteq ring
  BY <1>4, FS_Subset
<1>6. \A j \in ring : f[j] \in Nat /\ g[j] \in Nat
  BY <1>1 DEF TypeOK
<1>7. \A j \in ring \ {i} : f[j] = g[j] /\ (j \in old <=> j \in new)
  BY <1>1
<1>8. i \in new <=> StartOf(t) > u - WindowLength
  BY <1>1 DEF Live
<1>9. \/ (i \in old <=> i \in new) /\ g[i] = f[i] + more
      \/ i \notin old /\ g[i] = more
  BY <1>1 DEF Live
<1>10. /\ more \in Nat
       /\ i \notin new => i \notin old
  <2>1. more \in Nat
    OBVIOUS
  <2> SUFFICES ASSUME i \in old, i \notin new PROVE FALSE
    BY <2>1
  <2> QED
    BY <1>9
<1>11. i \in ring
  BY <1>1
<1> HIDE DEF ring, f, g, old, new, more, i
<1>12. SumFunctionOnSet(f, old) \in Nat
  BY <1>5, <1>6, SumIsNat
<1>13. CASE i \notin new
  <2>1. \A j \in ring : j \in old => j \in new /\ f[j] = g[j]
    BY <1>7, <1>10, <1>13
  <2>2. \A j \in ring : j \in new => j \in old
    BY <1>7, <1>13
  <2>3. old = new
    BY <1>5, <2>1, <2>2
  <2>4. \A j \in old : f[j] = g[j]
    BY <1>5, <2>1
  <2>5. SumFunctionOnSet(f, old) = SumFunctionOnSet(g, new)
    BY <1>5, <2>3, <2>4, SumAgrees
  <2> QED
    BY <1>2, <1>3, <1>8, <1>12, <1>13, <2>5
<1>14. CASE i \in new
  <2>1. \A j \in new \ {i} : f[j] = g[j]
    BY <1>5, <1>7
  <2>2. IsFiniteSet(new) /\ \A j \in new : g[j] \in Nat
    BY <1>5, <1>6
  <2> DEFINE others == new \ {i}
  <2>3. IsFiniteSet(others) /\ \A j \in others : f[j] = g[j] /\ g[j] \in Nat
    BY <2>2, <2>1, FS_Subset
  <2>4. SumFunctionOnSet(g, new) = g[i] + SumFunctionOnSet(g, others)
    BY <1>14, <2>2, SumTakesOut
  <2> HIDE DEF others
  <2>5. SumFunctionOnSet(f, others) = SumFunctionOnSet(g, others)
    BY <2>3, SumAgrees
  <2>6. SumFunctionOnSet(g, others) \in Nat
    BY <2>3, SumIsNat
  <2>7. /\ SumFunctionOnSet(f, new \ {i}) \in Nat
        /\ SumFunctionOnSet(g, new) = g[i] + SumFunctionOnSet(f, new \ {i})
    BY <2>4, <2>5, <2>6 DEF others
  <2>8. new \ {i} = old \ {i}
    BY <1>5, <1>7
  <2>9. SumFunctionOnSet(g, new) = SumFunctionOnSet(f, old) + more
    <3>1. CASE i \in old
      <4>1. g[i] = f[i] + more /\ f[i] \in Nat
        BY <1>6, <1>9, <1>11, <3>1
      <4>2. SumFunctionOnSet(f, old) = f[i] + SumFunctionOnSet(f, old \ {i})
        BY <1>5, <1>6, <3>1, SumTakesOut
      <4>3. SumFunctionOnSet(f, new \ {i}) = SumFunctionOnSet(f, old \ {i})
        BY <2>8
      <4> QED
        BY <1>10, <2>7, <4>1, <4>2, <4>3
    <3>2. CASE i \notin old
      <4>1. g[i] = more
        BY <1>9, <1>14, <3>2
      <4>2. old \ {i} = old
        BY <3>2
      <4> QED
        BY <1>10, <1>12, <2>7, <2>8, <4>1, <4>2
    <3> QED
      BY <3>1, <3>2
  <2> QED
    BY <1>2, <1>3, <1>8, <1>12, <1>14, <2>9 DEF more
<1> QED
  BY <1>13, <1>14

LEMMA LogMoves ==
    ASSUME TypeOK, NEW t \in 0..MaxTime, NEW kind \in Kinds, NEW n \in Nat \ {0},
           RecordAt(kind, n, t), NEW k \in Kinds, NEW times
    PROVE  /\ Logged(k, times) \in Nat
           /\ Logged(k, times)' = Logged(k, times) +
                (IF k = kind /\ t \in times THEN n ELSE 0)
<1> DEFINE m == Len(log) + 1
           f == [j \in DOMAIN log |-> log[j].n]
           g == [j \in DOMAIN log' |-> log'[j].n]
           old == {j \in DOMAIN log : log[j].kind = k /\ log[j].at \in times}
           new == {j \in DOMAIN log' : log'[j].kind = k /\ log'[j].at \in times}
<1>1. /\ log \in Seq([at : 0..MaxTime, kind : Kinds, n : Nat \ {0}])
      /\ Len(log) \in Nat /\ DOMAIN log = 1..Len(log)
      /\ \A j \in DOMAIN log : log[j].n \in Nat
  <2> DEFINE Entries == [at : 0..MaxTime, kind : Kinds, n : Nat \ {0}]
  <2>1. log \in Seq(Entries)
    BY DEF TypeOK
  <2>2. \A e \in Entries : e.n \in Nat
    OBVIOUS
  <2> HIDE DEF Entries
  <2>3. Len(log) \in Nat /\ DOMAIN log = 1..Len(log) /\ \A j \in DOMAIN log : log[j] \in Entries
    BY <2>1
  <2> QED
    BY <2>1, <2>2, <2>3 DEF Entries
<1>2. /\ DOMAIN log' = 1..m /\ m \in Nat
      /\ log'[m] = [at |-> t, kind |-> kind, n |-> n]
      /\ \A j \in DOMAIN log : log'[j] = log[j]
  BY <1>1 DEF RecordAt
<1>3. m \notin DOMAIN log /\ m \in DOMAIN log' /\ DOMAIN log' = DOMAIN log \cup {m}
  BY <1>1, <1>2
<1>4. Logged(k, times) = SumFunctionOnSet(f, old) /\ Logged(k, times)' = SumFunctionOnSet(g, new)
  BY DEF Logged
<1>5. IsFiniteSet(DOMAIN log) /\ IsFiniteSet(DOMAIN log')
  BY <1>1, <1>2, FS_Interval
<1>6. IsFiniteSet(old) /\ IsFiniteSet(new) /\ old \subseteq DOMAIN log
  BY <1>5, FS_Subset
<1>7. /\ \A j \in DOMAIN log : f[j] \in Nat /\ f[j] = g[j] /\ (j \in old <=> j \in new)
      /\ g[m] = n
      /\ m \in new <=> (k = kind /\ t \in times)
      /\ \A j \in new : j = m \/ j \in DOMAIN log
      /\ m \notin old
  BY <1>1, <1>2, <1>3
<1>8. \A j \in new : g[j] \in Nat
  BY <1>7
<1> HIDE DEF f, g, old, new, m
<1>9. SumFunctionOnSet(f, old) \in Nat
  BY <1>6, <1>7, SumIsNat
<1>10. CASE m \in new
  <2>1. \A j \in new \ {m} : f[j] = g[j]
    BY <1>7
  <2>2. SumFunctionOnSet(g, new) = g[m] + SumFunctionOnSet(f, new \ {m})
    <3>1. IsFiniteSet(new) /\ IsFiniteSet(new \ {m})
      BY <1>6, FS_Subset
    <3>2. SumFunctionOnSet(f, new \ {m}) = SumFunctionOnSet(g, new \ {m})
      BY <2>1, <3>1, SumAgrees
    <3>3. SumFunctionOnSet(g, new) = g[m] + SumFunctionOnSet(g, new \ {m})
      BY <1>8, <1>10, <3>1, SumTakesOut
    <3> QED
      BY <3>2, <3>3
  <2>3. new \ {m} = old
    BY <1>6, <1>7
  <2>4. SumFunctionOnSet(g, new) = n + SumFunctionOnSet(f, old)
    BY <1>7, <2>2, <2>3
  <2> QED
    BY <1>4, <1>7, <1>9, <1>10, <2>4
<1>11. CASE m \notin new
  <2>1. new = old /\ \A j \in old : f[j] = g[j]
    BY <1>6, <1>7, <1>11
  <2>2. SumFunctionOnSet(f, old) = SumFunctionOnSet(g, new)
    BY <1>6, <2>1, SumAgrees
  <2> QED
    BY <1>4, <1>7, <1>9, <1>11, <2>2
<1> QED
  BY <1>10, <1>11

(***************************************************************************)
(* record() preserves the invariant.                                       *)
(***************************************************************************)
LEMMA RecordKeepsWindow ==
    ASSUME WindowInv, Record
    PROVE  WindowInv'
<1>typ. TypeOK /\ StartsArePast /\ SnapshotIsLog
  BY DEF WindowInv
<1>1. PICK kind \in Kinds, n \in Counts, r \in Reads(1) :
        /\ n >= 1
        /\ ~ WentBackwards(NowMicros(r[1]))
        /\ buckets' = [buckets EXCEPT ![Index(NowMicros(r[1]))] =
                         [BucketFor(NowMicros(r[1])) EXCEPT !.count[kind] = @ + n]]
        /\ log' = Append(log, [at |-> NowMicros(r[1]), kind |-> kind, n |-> n])
        /\ now' = r[1]
  BY DEF Record
<1> DEFINE t == NowMicros(r[1])
<1>2. /\ now \in 0..MaxTime /\ now' \in 0..MaxTime /\ now <= now'
      /\ n \in Nat \ {0} /\ t \in 0..MaxTime /\ t = NowMicros(now')
  <2>1. now \in 0..MaxTime /\ MaxTime \in Nat /\ n \in Int
    BY <1>typ, InstantsAssumption, WindowAssumption DEF TypeOK
  <2>2. /\ r[1] \in Nat /\ now <= r[1] /\ r[1] <= MaxTime
        /\ NowMicros(r[1]) \in Nat /\ NowMicros(r[1]) <= r[1]
    BY <2>1, FirstReading
  <2> QED
    BY <1>1, <2>1, <2>2
<1>3. RecordAt(kind, n, t)
  BY <1>1 DEF RecordAt
<1> HIDE DEF t
<1>4. /\ Index(t) \in DOMAIN buckets
      /\ DOMAIN buckets' = DOMAIN buckets
      /\ buckets' \in [0..(BucketCount - 1) ->
                         [start : {Never} \cup 0..MaxTime, count : [Kinds -> Nat]]]
      /\ buckets'[Index(t)].start = StartOf(t)
      /\ \A i \in DOMAIN buckets : i # Index(t) => buckets'[i] = buckets[i]
  BY <1>typ, <1>2, <1>3, BucketWritten
<1>5. t \in Nat /\ StartOf(t) <= t /\ StartOf(t) % BucketLength = 0
      /\ Index(StartOf(t)) = Index(t) /\ StartOf(t) \in Nat
  BY <1>2, StartBounds, InstantsAssumption
<1>6. TypeOK'
  <2>1. \A i \in DOMAIN buckets' : buckets'[i].start # Never =>
           buckets'[i].start % BucketLength = 0 /\ Index(buckets'[i].start) = i
    BY <1>typ, <1>4, <1>5 DEF TypeOK
  <2>2. log' \in Seq([at : 0..MaxTime, kind : Kinds, n : Nat \ {0}])
    BY <1>typ, <1>2, <1>3 DEF TypeOK, RecordAt
  <2> QED
    BY <1>2, <1>4, <2>1, <2>2 DEF TypeOK, Index
<1>7. StartsArePast'
  <2> SUFFICES ASSUME NEW i \in DOMAIN buckets PROVE buckets'[i].start <= t
    BY <1>2, <1>4 DEF StartsArePast
  <2>1. CASE i = Index(t)
    BY <1>4, <1>5, <2>1
  <2>2. CASE i # Index(t)
    <3>1. buckets[i].start <= NowMicros(now) /\ buckets[i].start \in {Never} \cup 0..MaxTime
      BY <1>typ DEF TypeOK, StartsArePast
    <3>2. buckets[i].start \in Int
      BY <3>1, LapIsWindow, InstantsAssumption DEF Never
    <3>3. NowMicros(now) \in Nat /\ NowMicros(now) <= t
      BY <1>2, NowMicrosBounds, NowMicrosAscends, InstantsAssumption
    <3> QED
      BY <1>4, <1>5, <2>2, <3>1, <3>2, <3>3
  <2> QED
    BY <2>1, <2>2
<1>8. SnapshotIsLog'
  <2> SUFFICES ASSUME NEW u \in Later', NEW k \in Kinds
               PROVE  Snapshot(u)'[k] =
                        Logged(k, {v \in 0..u : StartOf(v) > u - WindowLength})'
    BY DEF SnapshotIsLog, StartOf
  <2> DEFINE times == {v \in 0..u : StartOf(v) > u - WindowLength}
  <2>1. u \in Later
    BY <1>2, LaterShrinks
  <2>2. u \in Nat /\ t <= u
    <3>1. PICK v \in now'..MaxTime : u = NowMicros(v)
      BY DEF Later
    <3>2. now' \in Nat /\ v \in Nat /\ now' <= v
      BY <1>2, <3>1, InstantsAssumption
    <3> QED
      BY <1>2, <3>1, <3>2, NowMicrosBounds, NowMicrosAscends
  <2>3. Snapshot(u)[k] = Logged(k, times)
    BY <1>typ, <2>1 DEF SnapshotIsLog
  <2>4. /\ Snapshot(u)[k] \in Nat
        /\ Snapshot(u)'[k] = Snapshot(u)[k] +
             (IF k = kind /\ StartOf(t) > u - WindowLength THEN n ELSE 0)
    BY <1>typ, <1>2, <1>3, <2>2, SnapshotMoves
  <2>5. t \in times <=> StartOf(t) > u - WindowLength
    BY <1>5, <2>2
  <2> HIDE DEF times
  <2>6. Logged(k, times)' = Logged(k, times) + (IF k = kind /\ t \in times THEN n ELSE 0)
    BY <1>typ, <1>2, <1>3, LogMoves
  <2>7. Snapshot(u)'[k] = Logged(k, times)'
    BY <2>3, <2>4, <2>5, <2>6
  <2> QED
    BY <2>7 DEF times
<1> QED
  BY <1>6, <1>7, <1>8 DEF WindowInv

(***************************************************************************)
(* The invariant holds initially and is preserved.                         *)
(***************************************************************************)
LEMMA WindowInitInv == Init => WindowInv
<1> SUFFICES ASSUME Init PROVE WindowInv
  OBVIOUS
<1>1. /\ BucketCount \in Nat \ {0} /\ WindowLength \in Nat \ {0} /\ MaxTime \in Nat
  BY LapIsWindow, InstantsAssumption
<1> DEFINE ring == 0..(BucketCount - 1)
<1>2. /\ now = 0 /\ log = <<>>
      /\ buckets = [i \in ring |-> [start |-> Never, count |-> Zeroes]]
  BY DEF Init
<1>3. /\ DOMAIN buckets = ring
      /\ \A i \in ring : buckets[i].start = Never /\ buckets[i].count = Zeroes
  BY <1>2
<1>4. TypeOK
  <2>1. Zeroes \in [Kinds -> Nat]
    BY DEF Zeroes
  <2>2. buckets \in [ring -> [start : {Never} \cup 0..MaxTime, count : [Kinds -> Nat]]]
    BY <1>2, <2>1
  <2>3. log \in Seq([at : 0..MaxTime, kind : Kinds, n : Nat \ {0}])
    BY <1>2
  <2> QED
    BY <1>1, <1>2, <1>3, <2>2, <2>3 DEF TypeOK
<1>5. StartsArePast
  <2>1. NowMicros(now) \in Nat
    BY <1>2, NowMicrosBounds
  <2> QED
    BY <1>1, <1>3, <2>1 DEF StartsArePast, Never
<1>6. SnapshotIsLog
  <2> SUFFICES ASSUME NEW t \in Later, NEW k \in Kinds
               PROVE  Snapshot(t)[k] =
                        Logged(k, {u \in 0..t : StartOf(u) > t - WindowLength})
    BY DEF SnapshotIsLog
  <2> DEFINE f == [i \in DOMAIN buckets |-> buckets[i].count[k]]
             g == [i \in DOMAIN log |-> log[i].n]
             live == {i \in DOMAIN buckets : Live(buckets[i], t)}
             times == {u \in 0..t : StartOf(u) > t - WindowLength}
             lines == {i \in DOMAIN log : log[i].kind = k /\ log[i].at \in times}
  <2>1. Snapshot(t)[k] = SumFunctionOnSet(f, live)
    BY DEF Snapshot
  <2>2. Logged(k, times) = SumFunctionOnSet(g, lines)
    BY DEF Logged
  <2>3. t \in Nat
    BY <1>4, LaterInstants DEF TypeOK
  <2>4. \A i \in ring : ~ Live(buckets[i], t)
    BY <1>1, <1>3, <2>3 DEF Live, Never
  <2>5. live = {}
    BY <1>3, <2>4
  <2>6. lines = {}
    BY <1>2
  <2> HIDE DEF f, g, live, times, lines
  <2>7. IsFiniteSet({})
    BY FS_EmptySet
  <2>8. SumFunctionOnSet(f, {}) = 0 /\ SumFunctionOnSet(g, {}) = 0
    BY <2>7, SumUnfolds
  <2>9. Snapshot(t)[k] = Logged(k, times)
    BY <2>1, <2>2, <2>5, <2>6, <2>8
  <2> QED
    BY <2>9 DEF times
<1> QED
  BY <1>4, <1>5, <1>6 DEF WindowInv

LEMMA WindowNextInv == WindowInv /\ [Next]_vars => WindowInv'
<1> SUFFICES ASSUME WindowInv, [Next]_vars PROVE WindowInv'
  OBVIOUS
<1>1. now \in 0..MaxTime /\ MaxTime \in Nat
  BY InstantsAssumption DEF WindowInv, TypeOK
<1>2. CASE Record
  BY <1>2, RecordKeepsWindow
<1>3. CASE RecordThrows
  <2>1. PICK r \in Reads(1) : now' = r[1] /\ UNCHANGED <<buckets, log>>
    BY <1>3 DEF RecordThrows
  <2>2. now' \in 0..MaxTime /\ now <= now'
    BY <1>1, <2>1, FirstReading
  <2> QED
    BY <2>1, <2>2, QuietKeepsWindow
<1>4. CASE Tick
  <2>1. now' \in 0..MaxTime /\ now <= now'
    BY <1>1, <1>4 DEF Tick, TimePasses
  <2> QED
    BY <1>4, <2>1, QuietKeepsWindow DEF Tick
<1>5. CASE UNCHANGED vars
  <2>1. now' \in 0..MaxTime /\ now <= now'
    BY <1>1, <1>5 DEF vars
  <2> QED
    BY <1>5, <2>1, QuietKeepsWindow DEF vars
<1> QED
  BY <1>2, <1>3, <1>4, <1>5 DEF Next

-----------------------------------------------------------------------------
(***************************************************************************)
(* The inductive invariant of the window.                                  *)
(***************************************************************************)
THEOREM WindowInvariant == Spec => []WindowInv
  BY WindowInitInv, WindowNextInv, PTL DEF Spec

(***************************************************************************)
(* The ring keeps its shape: every bucket in use starts on a boundary that *)
(* belongs at its index.                                                   *)
(***************************************************************************)
THEOREM RingKeepsShape == Spec => []TypeOK
<1>1. WindowInv => TypeOK
  BY DEF WindowInv
<1> QED
  BY <1>1, WindowInvariant, PTL

(***************************************************************************)
(* Fixed memory costs nothing but resolution: whatever is recorded and     *)
(* however the ring goes round, a snapshot counts exactly what a log of    *)
(* every write would, for the buckets that began less than a window ago.   *)
(***************************************************************************)
THEOREM SnapshotsAreExact == Spec => []SnapshotIsLog
<1>1. WindowInv => SnapshotIsLog
  BY DEF WindowInv
<1> QED
  BY <1>1, WindowInvariant, PTL

(***************************************************************************)
(* bucketFor() never throws: on a monotonic clock no bucket is from the    *)
(* future, whatever was written and however often the ring went round.     *)
(***************************************************************************)
THEOREM TimeNeverRunsBack == Spec => [](\A t \in Later : ~ WentBackwards(t))
<1>1. WindowInv => \A t \in Later : ~ WentBackwards(t)
  BY NeverBackwards DEF WindowInv
<1> QED
  BY <1>1, WindowInvariant, PTL

=============================================================================
