--------------------------- MODULE ArithmeticProofs ---------------------------
(***************************************************************************)
(* Lemmas on the numbers the components share, with no component in sight: *)
(* first how a clock is read (Instants), for every grain of it; then the   *)
(* arithmetic of the warm-up curve (SmoothWarmingUp), for any curve; then  *)
(* sums over finite sets, as SumFunctionOnSet of Functions forms them;     *)
(* last finite sets listed in an order (Listing).                          *)
(***************************************************************************)
EXTENDS Instants, SmoothWarmingUp, Listing, FiniteSets, Functions,
        FiniteSetTheorems, SequenceTheorems, WellFoundedInduction, TLAPS

(***************************************************************************)
(* Truncating an instant to whole microseconds loses less than one.        *)
(***************************************************************************)
LEMMA NowMicrosBounds ==
    ASSUME NEW t \in Nat
    PROVE  /\ NowMicros(t) \in Nat
           /\ NowMicros(t) <= t
           /\ t < NowMicros(t) + Micro
<1>1. Micro \in Nat /\ Micro > 0
  BY InstantsAssumption
<1>2. t = Micro * (t \div Micro) + (t % Micro) /\ t % Micro \in 0..(Micro - 1)
  BY <1>1, SMTT(30)
<1>3. t \div Micro \in Nat
  BY <1>1, SMTT(30)
<1> DEFINE whole == Micro * (t \div Micro)
           rest == t % Micro
<1>4. NowMicros(t) = whole
  BY <1>1, <1>3 DEF NowMicros
<1>5. whole \in Nat /\ rest \in 0..(Micro - 1) /\ t = whole + rest
  BY <1>1, <1>2, <1>3
<1> HIDE DEF whole, rest
<1> QED
  BY <1>1, <1>4, <1>5

(***************************************************************************)
(* Truncation keeps the order of instants.                                 *)
(***************************************************************************)
LEMMA NowMicrosAscends ==
    ASSUME NEW s \in Nat, NEW t \in Nat, s <= t
    PROVE  NowMicros(s) <= NowMicros(t)
<1>1. Micro \in Nat /\ Micro > 0
  BY InstantsAssumption
<1> DEFINE p == s \div Micro
           q == t \div Micro
<1>2. p \in Nat /\ q \in Nat
  BY <1>1, SMTT(30)
<1>3. p <= q
  BY <1>1, SMTT(30)
<1>4. NowMicros(s) = p * Micro /\ NowMicros(t) = q * Micro
  BY DEF NowMicros
<1> HIDE DEF p, q
<1>5. q = p + (q - p) /\ q - p \in Nat
  BY <1>2, <1>3
<1>6. q * Micro = p * Micro + (q - p) * Micro /\ (q - p) * Micro \in Nat
  BY <1>1, <1>2, <1>5, SMTT(30)
<1>7. p * Micro \in Nat
  BY <1>1, <1>2
<1> QED
  BY <1>4, <1>6, <1>7

(***************************************************************************)
(* The first reading of a handler.                                         *)
(***************************************************************************)
LEMMA FirstReading ==
    ASSUME now \in 0..MaxTime, NEW r \in Reads(1)
    PROVE  /\ r[1] \in Nat /\ now <= r[1] /\ r[1] <= MaxTime
           /\ NowMicros(r[1]) \in Nat /\ NowMicros(r[1]) <= r[1]
<1>1. r[1] \in now..(now + MaxGap) /\ r[1] <= MaxTime
  BY DEF Reads
<1>2. r[1] \in Nat
  BY <1>1, InstantsAssumption
<1> QED
  BY <1>1, <1>2, NowMicrosBounds

(***************************************************************************)
(* The two readings of a handler that sleeps for what it found.            *)
(***************************************************************************)
LEMMA TwoReadings ==
    ASSUME now \in 0..MaxTime, NEW r \in Reads(2)
    PROVE  /\ r[1] \in Nat /\ r[2] \in 0..MaxTime /\ r[2] \in Nat
           /\ now <= r[1] /\ r[1] <= r[2] /\ r[2] <= r[1] + MaxGap
<1>1. 1 \in 1..2 /\ 2 \in 1..2 /\ 1 \in 1..(2 - 1)
  OBVIOUS
<1>2. /\ r[1] \in now..(now + MaxGap)
      /\ r[2] \in now..(now + MaxGap)
      /\ r[2] <= MaxTime
  BY <1>1 DEF Reads
<1>3. r[1] <= r[1 + 1]
  BY <1>1 DEF Reads
<1> QED
  BY <1>2, <1>3, InstantsAssumption

(***************************************************************************)
(* The readings of one handler ascend from now, within MaxGap and MaxTime. *)
(***************************************************************************)
LEMMA ReadsAscend ==
    ASSUME now \in 0..MaxTime, NEW r \in Reads(3)
    PROVE  /\ r[1] \in Nat /\ r[2] \in Nat /\ r[3] \in 0..MaxTime
           /\ now <= r[1] /\ r[1] <= r[2] /\ r[2] <= r[3]
           /\ r[3] <= now + MaxGap
           /\ r[3] \in Nat /\ r[3] <= r[2] + MaxGap
<1>1. 1 \in 1..3 /\ 2 \in 1..3 /\ 3 \in 1..3 /\ 1 \in 1..(3 - 1) /\ 2 \in 1..(3 - 1)
  OBVIOUS
<1>2. /\ r[1] \in now..(now + MaxGap)
      /\ r[2] \in now..(now + MaxGap)
      /\ r[3] \in now..(now + MaxGap)
      /\ r[3] <= MaxTime
  BY <1>1 DEF Reads
<1>3. r[1] <= r[1 + 1] /\ r[2] <= r[2 + 1]
  BY <1>1 DEF Reads
<1> QED
  BY <1>2, <1>3, InstantsAssumption

-----------------------------------------------------------------------------
\* What deriveConstants() returns, as far as the lemmas need it.
IsCurve(k) ==
    /\ k.stable \in Nat \ {0}
    /\ k.coolDown \in Nat \ {0}
    /\ k.slope \in Nat
    /\ k.threshold \in Nat
    /\ k.max \in Nat
    /\ k.threshold < k.max

\* The price of a share on the flat part, and the shares above the threshold.
FlatPrice(k) == 2 * k.stable * k.coolDown

Above(k, stored) ==
    IF stored > Shares(k, k.threshold) THEN stored - Shares(k, k.threshold) ELSE 0

-----------------------------------------------------------------------------
(***************************************************************************)
(* Exact division, and a product's sign.                                   *)
(***************************************************************************)
LEMMA ExactQuotient ==
    ASSUME NEW a \in Nat, NEW b \in Nat \ {0}, a % b = 0
    PROVE  a \div b \in Nat /\ b * (a \div b) = a
BY SMTT(30)

LEMMA ProductIsNat ==
    ASSUME NEW a \in Nat, NEW b \in Nat
    PROVE  a * b \in Nat
BY SMTT(30)

LEMMA ProductAscends ==
    ASSUME NEW a \in Nat, NEW b \in Nat, NEW c \in Nat, a <= b
    PROVE  a * c <= b * c /\ c * a <= c * b
<1>1. b = a + (b - a) /\ b - a \in Nat
  OBVIOUS
<1>2. b * c = a * c + (b - a) * c /\ (b - a) * c \in Nat
  BY <1>1, SMTT(30)
<1> QED
  BY <1>2, SMTT(30)

(***************************************************************************)
(* The arithmetic of deriveConstants(), where every division is exact.     *)
(***************************************************************************)
LEMMA ExactConstants ==
    ASSUME NEW stable \in Nat \ {0}, NEW warmup \in Nat \ {0},
           NEW factor \in Nat, factor > 1,
           NEW cold, cold = stable * factor,
           NEW threshold, threshold = warmup \div (2 * stable),
           NEW rest, rest = (2 * warmup) \div (stable + cold),
           NEW max, max = threshold + rest,
           NEW slope, slope = (cold - stable) \div (max - threshold),
           NEW coolDown, coolDown = warmup \div max,
           warmup % (2 * stable) = 0, (2 * warmup) % (stable + cold) = 0,
           max > threshold, (cold - stable) % (max - threshold) = 0,
           warmup % max = 0
    PROVE  /\ cold \in Nat /\ threshold \in Nat /\ max \in Nat /\ threshold < max
           /\ slope \in Nat /\ coolDown \in Nat \ {0}
           /\ max * coolDown = warmup
           /\ 2 * stable * threshold = warmup
           /\ (max - threshold) * (cold + stable) = 2 * warmup
           /\ (max - threshold) * slope = cold - stable
<1>1. cold \in Nat /\ cold - stable \in Nat
  <2>1. cold = stable + stable * (factor - 1)
    BY SMTT(30)
  <2>2. stable * (factor - 1) \in Nat
    BY ProductIsNat
  <2> QED
    BY <2>1, <2>2
<1>2. threshold \in Nat /\ (2 * stable) * threshold = warmup
  <2>1. 2 * stable \in Nat \ {0}
    BY SMTT(30)
  <2> QED
    BY <2>1, ExactQuotient
<1>3. rest \in Nat /\ (stable + cold) * rest = 2 * warmup
  <2>1. stable + cold \in Nat \ {0} /\ 2 * warmup \in Nat
    BY <1>1
  <2> QED
    BY <2>1, ExactQuotient
<1>4. max - threshold = rest /\ rest \in Nat \ {0} /\ max \in Nat \ {0}
  BY <1>2, <1>3
<1>5. slope \in Nat /\ rest * slope = cold - stable
  <2>1. slope = (cold - stable) \div rest /\ (cold - stable) % rest = 0
    BY <1>4
  <2> DEFINE d == cold - stable
  <2>2. d \in Nat /\ slope = d \div rest /\ d % rest = 0
    BY <1>1, <2>1
  <2> HIDE DEF d
  <2>3. d \div rest \in Nat /\ rest * (d \div rest) = d
    BY <1>4, <2>2, ExactQuotient
  <2>4. slope \in Nat /\ rest * slope = d
    BY <2>2, <2>3
  <2> QED
    BY <2>4 DEF d
<1>6. coolDown \in Nat /\ max * coolDown = warmup
  BY <1>4, ExactQuotient
<1>7. coolDown # 0
  <2> SUFFICES ASSUME coolDown = 0 PROVE FALSE
    OBVIOUS
  <2> QED
    BY <1>4, <1>6
<1>8. (max - threshold) * (cold + stable) = 2 * warmup
  BY <1>1, <1>3, <1>4, SMTT(30)
<1>9. (max - threshold) * slope = cold - stable
  BY <1>4, <1>5
<1> QED
  BY <1>1, <1>2, <1>4, <1>5, <1>6, <1>7, <1>8, <1>9

(***************************************************************************)
(* deriveConstants() yields a curve; a full pot lasts a warm-up period.    *)
(***************************************************************************)
LEMMA DerivedIsCurve ==
    ASSUME NEW o, WholeOptions(o)
    PROVE  LET k == DeriveConstants(o)
           IN  /\ IsCurve(k)
               /\ FullPot(k) = o.warmup
               /\ 2 * k.stable * k.threshold = o.warmup
               /\ (k.max - k.threshold) * (k.cold + k.stable) = 2 * o.warmup
               /\ (k.max - k.threshold) * k.slope = k.cold - k.stable
               /\ k.cold \in Nat /\ o.warmup \in Nat
<1> DEFINE k == DeriveConstants(o)
           cold == o.stable * o.coldFactor
           threshold == o.warmup \div (2 * o.stable)
           max == threshold + (2 * o.warmup) \div (o.stable + cold)
           slope == (cold - o.stable) \div (max - threshold)
           coolDown == o.warmup \div max
<1>1. /\ o.stable \in Nat \ {0} /\ o.warmup \in Nat \ {0}
      /\ o.coldFactor \in Nat /\ o.coldFactor > 1
      /\ o.warmup % (2 * o.stable) = 0
      /\ (2 * o.warmup) % (o.stable + cold) = 0
      /\ max > threshold
      /\ (cold - o.stable) % (max - threshold) = 0
      /\ o.warmup % max = 0
  BY DEF WholeOptions
<1>2. /\ k.stable = o.stable /\ k.cold = cold /\ k.threshold = threshold
      /\ k.max = max /\ k.slope = slope /\ k.coolDown = coolDown
  BY DEF DeriveConstants
<1>3. /\ cold \in Nat /\ threshold \in Nat /\ max \in Nat /\ threshold < max
      /\ slope \in Nat /\ coolDown \in Nat \ {0}
      /\ max * coolDown = o.warmup
      /\ 2 * o.stable * threshold = o.warmup
      /\ (max - threshold) * (cold + o.stable) = 2 * o.warmup
      /\ (max - threshold) * slope = cold - o.stable
  BY <1>1, ExactConstants, SMTT(30)
<1> HIDE DEF k, cold, threshold, max, slope, coolDown
<1>4. IsCurve(k)
  BY <1>1, <1>2, <1>3 DEF IsCurve
<1>5. FullPot(k) = o.warmup
  BY <1>2, <1>3 DEF FullPot, Shares
<1> QED
  BY <1>1, <1>2, <1>3, <1>4, <1>5 DEF k

-----------------------------------------------------------------------------
(***************************************************************************)
(* The area in one formula: every share costs the flat price, and those    *)
(* above the threshold the difference of two squares more.                 *)
(***************************************************************************)
LEMMA AreaFormula ==
    ASSUME NEW k, IsCurve(k), NEW stored \in Nat, NEW take \in Nat, take <= stored
    PROVE  /\ Above(k, stored) \in Nat /\ Above(k, stored - take) \in Nat
           /\ Above(k, stored - take) <= Above(k, stored)
           /\ Above(k, stored) - Above(k, stored - take) <= take
           /\ StoredPermitsArea(k, stored, take) =
                 take * FlatPrice(k)
                   + k.slope * (Above(k, stored) * Above(k, stored)
                                  - Above(k, stored - take) * Above(k, stored - take))
<1> DEFINE u == Above(k, stored)
           v == Above(k, stored - take)
           bottom == Shares(k, k.threshold)
           b == k.stable * k.coolDown
           s == k.slope
<1>1. bottom \in Nat /\ b \in Nat /\ s \in Nat
  BY ProductIsNat DEF IsCurve, Shares
<1>2. FlatPrice(k) = 2 * b
  <2>1. k.stable \in Nat /\ k.coolDown \in Nat
    BY DEF IsCurve
  <2> QED
    BY <2>1, SMTT(30) DEF FlatPrice
<1>3. /\ u = IF stored > bottom THEN stored - bottom ELSE 0
      /\ v = IF stored - take > bottom THEN stored - take - bottom ELSE 0
  BY DEF Above
<1> DEFINE takeAbove == IF stored - bottom > 0 THEN Least(stored - bottom, take) ELSE 0
<1>4. /\ StoredPermitsArea(k, stored, take) =
           takeAbove * ((b + (stored - bottom) * s) + (b + (stored - bottom - takeAbove) * s))
             + (take - takeAbove) * 2 * k.stable * k.coolDown
  BY DEF StoredPermitsArea, PermitsToTime
<1>5. \A x \in Int : x * 2 * k.stable * k.coolDown = x * (2 * b)
  <2>1. k.stable \in Nat /\ k.coolDown \in Nat
    BY DEF IsCurve
  <2> QED
    BY <2>1, SMTT(30)
<1> HIDE DEF bottom, b, s, u, v
<1>6. u \in Nat /\ v \in Nat /\ v <= u /\ u - v <= take /\ takeAbove = u - v
  BY <1>1, <1>3 DEF Least
<1>7. takeAbove * ((b + (stored - bottom) * s) + (b + (stored - bottom - takeAbove) * s))
        = (u - v) * ((b + u * s) + (b + v * s))
  <2>1. CASE stored > bottom
    <3>1. stored - bottom = u /\ stored - bottom - takeAbove = v
      BY <1>1, <1>3, <1>6, <2>1
    <3> HIDE DEF takeAbove
    <3> QED
      BY <1>6, <3>1
  <2>2. CASE ~ (stored > bottom)
    <3>1. u = 0 /\ v = 0 /\ takeAbove = 0
      BY <1>1, <1>3, <1>6, <2>2
    <3> HIDE DEF takeAbove
    <3>2. (u - v) * ((b + u * s) + (b + v * s)) = 0
      BY <1>1, <3>1, SMTT(30)
    <3>3. \A x \in Int : 0 * x = 0
      OBVIOUS
    <3> QED
      BY <1>1, <3>1, <3>2, <3>3, SMTT(30)
  <2> QED
    BY <2>1, <2>2
<1> HIDE DEF takeAbove
<1>8. StoredPermitsArea(k, stored, take) =
        (u - v) * ((b + u * s) + (b + v * s)) + (take - (u - v)) * (2 * b)
  BY <1>4, <1>5, <1>6, <1>7
<1>9. (u - v) * ((b + u * s) + (b + v * s)) + (take - (u - v)) * (2 * b)
        = take * (2 * b) + s * (u * u - v * v)
  BY <1>1, <1>6, SMTT(30)
<1> QED
  BY <1>2, <1>6, <1>8, <1>9 DEF u, v, s

(***************************************************************************)
(* A purchase costs what its parts cost in turn, and a share the mean of   *)
(* the heights at its ends.                                                *)
(***************************************************************************)
LEMMA PartsAddUp ==
    ASSUME NEW k, IsCurve(k), NEW pot \in Nat, NEW a \in Nat, NEW b \in Nat, a + b <= pot
    PROVE  StoredPermitsArea(k, pot, a + b) =
             StoredPermitsArea(k, pot, a) + StoredPermitsArea(k, pot - a, b)
<1> DEFINE u == Above(k, pot)
           v == Above(k, pot - a)
           w == Above(k, pot - (a + b))
           f == FlatPrice(k)
           s == k.slope
<1>1. s \in Nat /\ f \in Nat
  <2>1. k.stable \in Nat /\ k.coolDown \in Nat /\ s \in Nat
    BY DEF IsCurve
  <2> QED
    BY <2>1, SMTT(30) DEF FlatPrice
<1>2. /\ StoredPermitsArea(k, pot, a + b) = (a + b) * f + s * (u * u - w * w)
      /\ u \in Nat /\ w \in Nat
  BY AreaFormula
<1>3. StoredPermitsArea(k, pot, a) = a * f + s * (u * u - v * v) /\ v \in Nat
  BY AreaFormula
<1>4. StoredPermitsArea(k, pot - a, b) = b * f + s * (v * v - w * w)
  <2>1. pot - a \in Nat /\ b <= pot - a /\ (pot - a) - b = pot - (a + b)
    OBVIOUS
  <2> QED
    BY <2>1, AreaFormula
<1> HIDE DEF u, v, w, f, s
<1>5. (a + b) * f + s * (u * u - w * w) =
        (a * f + s * (u * u - v * v)) + (b * f + s * (v * v - w * w))
  BY <1>1, <1>2, <1>3, SMTT(30)
<1> QED
  BY <1>2, <1>3, <1>4, <1>5

LEMMA ShareCosts ==
    ASSUME NEW k, IsCurve(k), NEW x \in Nat, x >= 1
    PROVE  StoredPermitsArea(k, x, 1) =
             PermitsToTime(k, Above(k, x)) + PermitsToTime(k, Above(k, x - 1))
<1> DEFINE u == Above(k, x)
           v == Above(k, x - 1)
           b == k.stable * k.coolDown
           s == k.slope
<1>1. s \in Nat /\ b \in Nat /\ FlatPrice(k) = 2 * b
  <2>1. k.stable \in Nat /\ k.coolDown \in Nat /\ s \in Nat
    BY DEF IsCurve
  <2> QED
    BY <2>1, SMTT(30) DEF FlatPrice
<1>2. /\ u \in Nat /\ v \in Nat /\ v <= u /\ u - v <= 1
      /\ StoredPermitsArea(k, x, 1) = 1 * FlatPrice(k) + s * (u * u - v * v)
  BY AreaFormula
<1>3. u - v = 1 \/ (u = 0 /\ v = 0)
  <2>1. Shares(k, k.threshold) \in Nat
    BY ProductIsNat DEF IsCurve, Shares
  <2> QED
    BY <2>1 DEF Above
<1> HIDE DEF u, v, b, s
<1>4. u * u - v * v = u + v
  <2>1. CASE u = v + 1
    BY <1>2, <2>1, SMTT(30)
  <2>2. CASE u = 0 /\ v = 0
    BY <2>2
  <2> QED
    BY <1>2, <1>3, <2>1, <2>2
<1>5. s * (u * u - v * v) = u * s + v * s
  BY <1>1, <1>2, <1>4, SMTT(30)
<1>6. StoredPermitsArea(k, x, 1) = (b + u * s) + (b + v * s)
  <2>1. u * s \in Nat /\ v * s \in Nat
    BY <1>1, <1>2, ProductIsNat
  <2> QED
    BY <1>1, <1>2, <1>5, <2>1
<1> QED
  BY <1>6 DEF PermitsToTime, u, v, b, s

-----------------------------------------------------------------------------
\* What is left above the threshold of u shares once m are sold.
Left(u, m) == IF u > m THEN u - m ELSE 0

(***************************************************************************)
(* The area n permits take, whether the pot holds them or not.             *)
(***************************************************************************)
LEMMA AreaOfFormula ==
    ASSUME NEW k, IsCurve(k), NEW stored \in Nat, NEW n \in Nat
    PROVE  /\ Shares(k, n) \in Nat /\ Above(k, stored) \in Nat /\ FlatPrice(k) \in Nat
           /\ AreaOf(k, stored, n) =
                Shares(k, n) * FlatPrice(k)
                  + k.slope * (Above(k, stored) * Above(k, stored)
                                 - Left(Above(k, stored), Shares(k, n))
                                     * Left(Above(k, stored), Shares(k, n)))
<1> DEFINE m == Shares(k, n)
           u == Above(k, stored)
           spend == Least(m, stored)
           v == Above(k, stored - spend)
           f == FlatPrice(k)
           s == k.slope
<1>1. k.stable \in Nat /\ k.coolDown \in Nat /\ s \in Nat /\ k.threshold \in Nat
  BY DEF IsCurve
<1>2. m \in Nat /\ f \in Nat
  <2>1. m \in Nat
    BY <1>1, ProductIsNat DEF Shares
  <2>2. f \in Nat
    BY <1>1, SMTT(30) DEF FlatPrice
  <2> QED
    BY <2>1, <2>2
<1>3. \A x \in Int : x * 2 * k.stable * k.coolDown = x * f
  BY <1>1, SMTT(30) DEF FlatPrice
<1>4. spend \in Nat /\ spend <= stored /\ m - spend \in Nat
  BY <1>2 DEF Least
<1>5. /\ u \in Nat /\ v \in Nat
      /\ StoredPermitsArea(k, stored, spend) = spend * f + s * (u * u - v * v)
  <2> HIDE DEF spend
  <2> QED
    BY <1>4, AreaFormula
<1>6. v = Left(u, m)
  <2>1. Shares(k, k.threshold) \in Nat
    BY <1>1, ProductIsNat DEF Shares
  <2> HIDE DEF m
  <2> QED
    BY <1>2, <2>1 DEF Above, Left, Least
<1>7. AreaOf(k, stored, n) = StoredPermitsArea(k, stored, spend) + (m - spend) * f
  BY <1>3, <1>4 DEF AreaOf
<1> HIDE DEF m, u, spend, v, f, s
<1>8. spend * f + (m - spend) * f = m * f
  BY <1>2, <1>4, SMTT(30)
<1>9. AreaOf(k, stored, n) = m * f + s * (u * u - v * v)
  <2>1. spend * f \in Nat /\ (m - spend) * f \in Nat /\ s * (u * u - v * v) \in Int
    BY <1>1, <1>2, <1>4, <1>5, ProductIsNat, SMTT(30) DEF s
  <2> QED
    BY <1>5, <1>7, <1>8, <2>1
<1> QED
  BY <1>2, <1>5, <1>6, <1>9 DEF m, u, f, s

(***************************************************************************)
(* The difference of squares that a purchase adds.                         *)
(***************************************************************************)
LEMMA Squares ==
    ASSUME NEW u \in Nat, NEW v \in Nat, v <= u, NEW m \in Nat
    PROVE  /\ Left(u, m) \in Nat
           /\ 0 <= u * u - Left(u, m) * Left(u, m)
           /\ u * u - Left(u, m) * Left(u, m) <= u * u
           /\ v * v - Left(v, m) * Left(v, m) <= u * u - Left(u, m) * Left(u, m)
<1>1. CASE u <= m
  <2>1. Left(u, m) = 0 /\ Left(v, m) = 0
    BY <1>1 DEF Left
  <2>2. v * v <= u * v /\ u * v <= u * u /\ u * u \in Nat /\ v * v \in Nat /\ u * v \in Nat
    BY ProductAscends, ProductIsNat
  <2> QED
    BY <2>1, <2>2
<1>2. CASE u > m
  <2>1. Left(u, m) = u - m /\ u - m \in Nat
    BY <1>2 DEF Left
  <2>2. u * u - (u - m) * (u - m) = m * (u + (u - m))
    BY SMTT(30)
  <2>3. m * (u + (u - m)) \in Nat /\ (u - m) * (u - m) \in Nat
    BY <2>1, ProductIsNat
  <2>4. CASE v <= m
    <3>1. Left(v, m) = 0
      BY <2>4 DEF Left
    <3>2. v * v <= m * v /\ m * v <= m * (u + (u - m)) /\ v * v \in Nat /\ m * v \in Nat
      <4>1. v <= u + (u - m) /\ u + (u - m) \in Nat
        BY <2>1
      <4> QED
        BY <2>4, <4>1, ProductAscends, ProductIsNat
    <3> QED
      BY <2>1, <2>2, <2>3, <3>1, <3>2
  <2>5. CASE v > m
    <3>1. Left(v, m) = v - m /\ v - m \in Nat
      BY <2>5 DEF Left
    <3>2. v * v - (v - m) * (v - m) = m * (v + (v - m))
      BY SMTT(30)
    <3>3. m * (v + (v - m)) <= m * (u + (u - m))
      <4>1. v + (v - m) \in Nat /\ u + (u - m) \in Nat /\ v + (v - m) <= u + (u - m)
        BY <2>1, <3>1
      <4> QED
        BY <4>1, ProductAscends
    <3> QED
      BY <2>1, <2>2, <2>3, <3>1, <3>2, <3>3
  <2> QED
    BY <2>4, <2>5
<1> QED
  BY <1>1, <1>2

(***************************************************************************)
(* Rounding down to a tick.                                                *)
(***************************************************************************)
LEMMA Floor ==
    ASSUME NEW a \in Nat, NEW b \in Nat \ {0}
    PROVE  a \div b \in Nat /\ b * (a \div b) <= a /\ a <= b * (a \div b + 1)
BY SMTT(30)

LEMMA FloorIsLargest ==
    ASSUME NEW a \in Nat, NEW b \in Nat \ {0}, NEW x \in Nat
    PROVE  /\ x * b <= a => x <= a \div b
           /\ a <= x * b => a \div b <= x
<1> DEFINE q == a \div b
<1>1. q \in Nat /\ b * q <= a /\ a < b * q + b
  BY SMTT(30)
<1> HIDE DEF q
<1>2. ASSUME x * b <= a, q < x PROVE FALSE
  <2>1. q + 1 <= x /\ q + 1 \in Nat
    BY <1>1, <1>2
  <2>2. (q + 1) * b <= x * b
    BY <2>1, ProductAscends
  <2>3. (q + 1) * b = b * q + b
    BY <1>1, SMTT(30)
  <2>4. x * b \in Nat /\ b * q \in Nat
    BY <1>1, ProductIsNat
  <2> QED
    BY <1>1, <1>2, <2>2, <2>3, <2>4
<1>3. ASSUME a <= x * b, x < q PROVE FALSE
  <2>1. x + 1 <= q /\ x + 1 \in Nat
    BY <1>1, <1>3
  <2>2. b * (x + 1) <= b * q
    BY <1>1, <2>1, ProductAscends
  <2>3. b * (x + 1) = x * b + b
    BY SMTT(30)
  <2>4. x * b \in Nat /\ b * q \in Nat
    BY <1>1, ProductIsNat
  <2> QED
    BY <1>1, <1>3, <2>2, <2>3, <2>4
<1> QED
  BY <1>1, <1>2, <1>3 DEF q

(***************************************************************************)
(* What a call is charged: no less than the stable interval a permit, and  *)
(* less than the area by less than a tick.                                 *)
(***************************************************************************)
LEMMA CostBounds ==
    ASSUME NEW k, IsCurve(k), NEW s, s.stored \in Nat, NEW n \in Nat
    PROVE  /\ CostOf(k, s, n) \in Nat
           /\ n * k.stable <= CostOf(k, s, n)
           /\ AreaUnits(k) \in Nat \ {0}
           /\ AreaOf(k, s.stored, n) \in Nat
           /\ AreaOf(k, s.stored, n) <= AreaUnits(k) * (CostOf(k, s, n) + 1)
<1> DEFINE m == Shares(k, n)
           u == Above(k, s.stored)
           f == FlatPrice(k)
           a == AreaOf(k, s.stored, n)
           e == u * u - Left(u, m) * Left(u, m)
<1>1. k.stable \in Nat /\ k.coolDown \in Nat \ {0} /\ k.slope \in Nat
  BY DEF IsCurve
<1>2. /\ m \in Nat /\ u \in Nat /\ f \in Nat
      /\ a = m * f + k.slope * e
  BY AreaOfFormula
<1>3. e \in Nat
  <2> HIDE DEF u, m
  <2>1. Left(u, m) \in Nat /\ 0 <= e
    BY <1>2, Squares
  <2>2. u * u \in Nat /\ Left(u, m) * Left(u, m) \in Nat
    BY <1>2, <2>1, ProductIsNat
  <2> QED
    BY <2>1, <2>2
<1>4. m * f = (n * k.stable) * AreaUnits(k) /\ n * k.stable \in Nat
  BY <1>1, SMTT(30) DEF Shares, FlatPrice, AreaUnits
<1>5. AreaUnits(k) \in Nat \ {0}
  <2>1. k.coolDown * k.coolDown \in Nat /\ k.coolDown <= k.coolDown * k.coolDown
    <3>1. 1 * k.coolDown <= k.coolDown * k.coolDown
      BY <1>1, ProductAscends
    <3> QED
      BY <1>1, <3>1, ProductIsNat
  <2>2. AreaUnits(k) = 2 * (k.coolDown * k.coolDown)
    BY <1>1, SMTT(30) DEF AreaUnits
  <2> QED
    BY <1>1, <2>1, <2>2
<1> HIDE DEF m, u, f, e
<1>6. k.slope * e \in Nat /\ m * f \in Nat
  BY <1>1, <1>2, <1>3, ProductIsNat
<1>7. a \in Nat /\ (n * k.stable) * AreaUnits(k) <= a
  BY <1>2, <1>4, <1>6
<1> HIDE DEF a
<1>8. CostOf(k, s, n) = a \div AreaUnits(k)
  BY DEF CostOf, a
<1> QED
  BY <1>4, <1>5, <1>7, <1>8, Floor, FloorIsLargest DEF a

(***************************************************************************)
(* The more has been sold, the less the next permits cost: from a pot that *)
(* is at least as full as sales from a full one leave it, n permits cost   *)
(* no less than they would have as the next of those sales.                *)
(***************************************************************************)
LEMMA NextCostsLess ==
    ASSUME NEW k, IsCurve(k), NEW stored \in Nat, NEW sold \in Nat, NEW n \in Nat,
           FullPot(k) <= stored + Shares(k, sold)
    PROVE  AreaOf(k, FullPot(k), sold + n)
             <= AreaOf(k, FullPot(k), sold) + AreaOf(k, stored, n)
<1> DEFINE full == Above(k, FullPot(k))
           u == Above(k, stored)
           x == Shares(k, sold)
           m == Shares(k, n)
           v == Left(full, x)
           f == FlatPrice(k)
           s == k.slope
           q == Left(full, x + m)
           r == Left(u, m)
<1>1. /\ k.coolDown \in Nat /\ s \in Nat /\ k.max \in Nat /\ k.threshold \in Nat
      /\ sold + n \in Nat
  BY DEF IsCurve
<1>2. FullPot(k) \in Nat /\ Shares(k, k.threshold) \in Nat
  BY <1>1, ProductIsNat DEF FullPot, Shares
<1>3. Shares(k, sold + n) = x + m
  BY <1>1, SMTT(30) DEF Shares
<1>4. /\ x \in Nat /\ m \in Nat /\ full \in Nat /\ u \in Nat /\ f \in Nat
      /\ AreaOf(k, FullPot(k), sold) = x * f + s * (full * full - v * v)
      /\ AreaOf(k, FullPot(k), sold + n) = (x + m) * f + s * (full * full - q * q)
      /\ AreaOf(k, stored, n) = m * f + s * (u * u - r * r)
  BY <1>1, <1>2, <1>3, AreaOfFormula
<1>5. v \in Nat /\ v <= u
  <2>1. x \in Nat /\ FullPot(k) <= stored + x
    BY <1>4
  <2> HIDE DEF x
  <2> QED
    BY <1>2, <2>1 DEF Above, Left
<1>6. q = Left(v, m)
  BY <1>4 DEF Left
<1> HIDE DEF full, u, x, m, v, f, s, q, r
<1>7. v * v - q * q <= u * u - r * r /\ q \in Nat /\ r \in Nat
  <2>1. Left(v, m) \in Nat /\ Left(u, m) \in Nat
    BY <1>4, <1>5 DEF Left
  <2>2. v * v - Left(v, m) * Left(v, m) <= u * u - Left(u, m) * Left(u, m)
    BY <1>4, <1>5, Squares
  <2> QED
    BY <1>6, <2>1, <2>2 DEF r
<1> DEFINE d == v * v - q * q
           e == u * u - r * r
<1>8. d \in Nat /\ e \in Nat /\ d <= e
  <2>1. 0 <= v * v - Left(v, m) * Left(v, m)
    BY <1>4, <1>5, Squares
  <2>2. v * v \in Nat /\ q * q \in Nat /\ u * u \in Nat /\ r * r \in Nat
    BY <1>4, <1>5, <1>7, ProductIsNat
  <2> QED
    BY <1>6, <1>7, <2>1, <2>2
<1>9. s * d <= s * e
  <2> HIDE DEF d, e
  <2> QED
    BY <1>1, <1>8, ProductAscends
<1>10. /\ (x + m) * f = x * f + m * f
       /\ s * (full * full - q * q) = s * (full * full - v * v) + s * d
  BY <1>1, <1>4, <1>5, <1>7, SMTT(30)
<1>11. /\ x * f \in Int /\ m * f \in Int /\ s * (full * full - v * v) \in Int
       /\ s * d \in Int /\ s * e \in Int
  BY <1>1, <1>4, <1>5, <1>7, SMTT(30)
<1> QED
  BY <1>4, <1>9, <1>10, <1>11

(***************************************************************************)
(* A full pot costs one and a half warm-up periods.                        *)
(***************************************************************************)
LEMMA FullPotArea ==
    ASSUME NEW o, WholeOptions(o)
    PROVE  LET k == DeriveConstants(o)
               full == FullPot(k)
           IN  /\ full \in Nat /\ Above(k, full) \in Nat
               /\ StoredPermitsArea(k, full, full) = 3 * o.warmup * (k.coolDown * k.coolDown)
               /\ k.slope * (Above(k, full) * Above(k, full))
                    <= 3 * o.warmup * (k.coolDown * k.coolDown)
<1> DEFINE k == DeriveConstants(o)
           full == FullPot(k)
           st == k.stable
           cd == k.coolDown
           s == k.slope
           l == k.max - k.threshold
           w == o.warmup
           a == Above(k, full)
<1>1. /\ IsCurve(k) /\ full = w /\ w \in Nat
      /\ 2 * st * k.threshold = w /\ l * (k.cold + st) = 2 * w /\ l * s = k.cold - st
      /\ k.cold \in Nat
  BY DerivedIsCurve
<1> HIDE DEF k
<1>2. /\ st \in Nat /\ cd \in Nat \ {0} /\ s \in Nat /\ l \in Nat \ {0}
      /\ k.max \in Nat /\ k.threshold \in Nat
  BY <1>1 DEF IsCurve
<1>3. full = k.max * cd /\ Shares(k, k.threshold) = k.threshold * cd
  BY DEF FullPot, Shares
<1>4. a = l * cd
  <2>1. k.max * cd = k.threshold * cd + l * cd
    BY <1>2, SMTT(30)
  <2>2. l * cd \in Nat /\ 1 * cd <= l * cd /\ k.threshold * cd \in Nat
    BY <1>2, ProductIsNat, ProductAscends
  <2> HIDE DEF l, cd
  <2> QED
    BY <1>2, <1>3, <2>1, <2>2 DEF Above
<1>5. Above(k, full - full) = 0
  <2>1. full - full = 0
    BY <1>1
  <2>2. k.threshold * cd \in Nat
    BY <1>2, ProductIsNat
  <2> QED
    BY <1>3, <2>1, <2>2 DEF Above
<1>6. /\ StoredPermitsArea(k, full, full) = full * FlatPrice(k) + s * (a * a - 0 * 0)
      /\ a \in Nat
  BY <1>1, <1>5, AreaFormula
<1>7. full * FlatPrice(k) = (k.max * cd) * (2 * st * cd)
  BY <1>3 DEF FlatPrice
<1> DEFINE c == cd * cd
<1>8. (k.max * cd) * (2 * st * cd) = (2 * st * k.threshold + 2 * (st * l)) * c
  BY <1>2, SMTT(30)
<1>9. s * (a * a - 0 * 0) = ((l * s) * l) * c /\ s * (a * a) = ((l * s) * l) * c
  BY <1>2, <1>4, SMTT(30)
<1>10. (l * s) * l = 2 * w - 2 * (st * l)
  <2>1. (k.cold - st) * l = l * (k.cold + st) - 2 * (st * l)
    BY <1>1, <1>2, SMTT(30)
  <2> QED
    BY <1>1, <2>1
<1>11. c \in Nat /\ st * l \in Nat /\ (l * s) * l \in Nat
  BY <1>2, ProductIsNat
<1> HIDE DEF full, st, cd, s, l, w, a, c
<1>12. /\ full * FlatPrice(k) = (w + 2 * (st * l)) * c
       /\ s * (a * a - 0 * 0) = (2 * w - 2 * (st * l)) * c
       /\ s * (a * a) = (2 * w - 2 * (st * l)) * c
  BY <1>1, <1>7, <1>8, <1>9, <1>10
<1>13. (w + 2 * (st * l)) * c + (2 * w - 2 * (st * l)) * c = 3 * w * c
  BY <1>1, <1>11, SMTT(30)
<1>14. (w + 2 * (st * l)) * c \in Nat
  BY <1>1, <1>11, ProductIsNat
<1>15. (2 * w - 2 * (st * l)) * c \in Nat
  BY <1>1, <1>10, <1>11, ProductIsNat
<1>16. s * (a * a) <= 3 * w * c
  BY <1>12, <1>13, <1>14, <1>15
<1>17. StoredPermitsArea(k, full, full) = 3 * w * c
  BY <1>6, <1>12, <1>13
<1> QED
  BY <1>1, <1>6, <1>16, <1>17 DEF k, full, w, a, c, cd, s

(***************************************************************************)
(* What leaves room for a full pot costs no more than the limit.           *)
(***************************************************************************)
LEMMA CostCeiling ==
    ASSUME NEW o, WholeOptions(o), NEW s, s.stored \in Nat,
           s.stored <= FullPot(DeriveConstants(o)),
           NEW n \in Nat, NEW limit \in Nat,
           n * (2 * DeriveConstants(o).stable) <= 2 * limit - 3 * o.warmup
    PROVE  CostOf(DeriveConstants(o), s, n) <= limit
<1> DEFINE k == DeriveConstants(o)
           full == FullPot(k)
           c == k.coolDown * k.coolDown
           m == Shares(k, n)
           u == Above(k, s.stored)
           top == Above(k, full)
           e == u * u - Left(u, m) * Left(u, m)
           w == o.warmup
           a == AreaOf(k, s.stored, n)
<1>1. IsCurve(k) /\ w \in Nat
  BY DerivedIsCurve
<1>2. full \in Nat /\ top \in Nat /\ k.slope * (top * top) <= 3 * w * c
  BY FullPotArea
<1>3. n * (2 * k.stable) <= 2 * limit - 3 * w /\ s.stored <= full
  OBVIOUS
<1> HIDE DEF k
<1>4. k.stable \in Nat /\ k.coolDown \in Nat /\ k.slope \in Nat /\ c \in Nat
  BY <1>1, ProductIsNat DEF IsCurve
<1>5. /\ m \in Nat /\ u \in Nat /\ FlatPrice(k) \in Nat
      /\ a = m * FlatPrice(k) + k.slope * e
  BY <1>1, AreaOfFormula
<1>6. m * FlatPrice(k) = (n * (2 * k.stable)) * c
  BY <1>4, SMTT(30) DEF Shares, FlatPrice
<1>7. AreaUnits(k) = 2 * c
  BY <1>4, SMTT(30) DEF AreaUnits
<1>8. AreaUnits(k) \in Nat \ {0} /\ a \in Nat
  BY <1>1, CostBounds
<1>9. u <= top
  <2>1. Shares(k, k.threshold) \in Nat
    BY <1>1, ProductIsNat DEF IsCurve, Shares
  <2> HIDE DEF full
  <2> QED
    BY <1>2, <1>3, <2>1 DEF Above
<1> HIDE DEF full, c, m, u, top, a
<1>10. e \in Nat /\ e <= top * top
  <2>1. Left(u, m) \in Nat /\ 0 <= e /\ e <= u * u
    BY <1>5, Squares
  <2>2. u * u <= top * u /\ top * u <= top * top
    BY <1>2, <1>5, <1>9, ProductAscends
  <2>3. /\ u * u \in Nat /\ top * u \in Nat /\ top * top \in Nat
        /\ Left(u, m) * Left(u, m) \in Nat
    BY <1>2, <1>5, <2>1, ProductIsNat
  <2> QED
    BY <2>1, <2>2, <2>3
<1> HIDE DEF e
<1>11. k.slope * e <= 3 * w * c
  <2>1. top * top \in Nat
    BY <1>2, ProductIsNat
  <2>2. k.slope * e <= k.slope * (top * top)
    BY <1>4, <1>10, <2>1, ProductAscends
  <2>3. k.slope * e \in Nat /\ k.slope * (top * top) \in Nat /\ 3 * w * c \in Nat
    BY <1>1, <1>4, <1>10, <2>1, ProductIsNat
  <2> QED
    BY <1>2, <2>2, <2>3
<1>12. a <= limit * AreaUnits(k)
  <2> DEFINE p == n * (2 * k.stable)
  <2>1. p \in Nat
    BY <1>4, ProductIsNat
  <2> HIDE DEF p
  <2>2. p + 3 * w <= 2 * limit
    BY <1>1, <1>3, <2>1 DEF p
  <2>3. (p + 3 * w) * c <= (2 * limit) * c
    BY <1>1, <1>4, <2>1, <2>2, ProductAscends
  <2>4. (p + 3 * w) * c = p * c + 3 * w * c /\ (2 * limit) * c = limit * (2 * c)
    BY <1>1, <1>4, <2>1, SMTT(30)
  <2>5. p * c \in Nat /\ 3 * w * c \in Nat /\ k.slope * e \in Nat /\ limit * (2 * c) \in Nat
    BY <1>1, <1>4, <1>10, <2>1, ProductIsNat
  <2>6. a = p * c + k.slope * e
    BY <1>5, <1>6 DEF p
  <2> QED
    BY <1>7, <1>11, <2>3, <2>4, <2>5, <2>6
<1>13. CostOf(k, s, n) = a \div AreaUnits(k)
  BY DEF CostOf, a
<1>14. CostOf(k, s, n) <= limit
  BY <1>8, <1>12, <1>13, FloorIsLargest
<1> QED
  BY <1>14 DEF k

(***************************************************************************)
(* Idle time fills the pot, never past the brim, and moves the ticket to   *)
(* the present; the ticket a call is granted is the one it finds.          *)
(***************************************************************************)
LEMMA ResyncFills ==
    ASSUME NEW k, FullPot(k) \in Nat, NEW s,
           s.stored \in 0..FullPot(k), s.nextFree \in Nat, NEW t \in Nat
    PROVE  LET r == Resync(k, s, t)
           IN  /\ r.stored \in 0..FullPot(k) /\ s.stored <= r.stored
               /\ r.nextFree \in Nat /\ r.nextFree = GrantTime(k, s, t)
               /\ t <= r.nextFree /\ s.nextFree <= r.nextFree
               /\ s.nextFree <= t => r.nextFree = t
               /\ t < s.nextFree => r.nextFree = s.nextFree
<1> DEFINE r == Resync(k, s, t)
<1>1. CASE t > s.nextFree
  <2>1. r = [stored |-> Least(FullPot(k), s.stored + (t - s.nextFree)), nextFree |-> t]
    BY <1>1 DEF Resync
  <2>2. r.nextFree = t /\ r.stored = Least(FullPot(k), s.stored + (t - s.nextFree))
    BY <2>1
  <2>3. r.stored \in 0..FullPot(k) /\ s.stored <= r.stored
    BY <1>1, <2>2 DEF Least
  <2> HIDE DEF r
  <2> QED
    BY <1>1, <2>2, <2>3 DEF GrantTime, r
<1>2. CASE ~ (t > s.nextFree)
  <2>1. r = s
    BY <1>2 DEF Resync
  <2> QED
    BY <1>2, <2>1 DEF GrantTime
<1> QED
  BY <1>1, <1>2

(***************************************************************************)
(* What a reservation leaves: no more than its permits are gone from the   *)
(* pot, and the timeline is sold for at least the stable interval each.    *)
(***************************************************************************)
LEMMA ReservationSells ==
    ASSUME NEW k, IsCurve(k), FullPot(k) \in Nat, NEW s,
           s.stored \in 0..FullPot(k), s.nextFree \in Nat,
           NEW t \in Nat, NEW n \in Nat,
           NEW r, r = Resync(k, s, t), NEW after, after = Reserve(k, s, n, t)
    PROVE  /\ after.stored \in 0..FullPot(k)
           /\ Shares(k, n) \in Nat
           /\ r.stored <= after.stored + Shares(k, n)
           /\ CostOf(k, r, n) \in Nat
           /\ after.nextFree = r.nextFree + CostOf(k, r, n)
           /\ r.nextFree + n * k.stable <= after.nextFree
           /\ after.nextFree \in Nat
<1> DEFINE m == Shares(k, n)
           cost == CostOf(k, r, n)
<1>1. r.stored \in 0..FullPot(k) /\ r.nextFree \in Nat
  BY ResyncFills
<1>2. after.stored = r.stored - Least(m, r.stored) /\ after.nextFree = r.nextFree + cost
  BY DEF Reserve
<1>3. k.stable \in Nat /\ k.coolDown \in Nat
  BY DEF IsCurve
<1>4. m \in Nat /\ n * k.stable \in Nat
  BY <1>3, ProductIsNat DEF Shares
<1> HIDE DEF m
<1>5. cost \in Nat /\ n * k.stable <= cost
  BY <1>1, CostBounds
<1> HIDE DEF cost
<1>6. after.stored \in 0..FullPot(k) /\ r.stored <= after.stored + m
  BY <1>1, <1>2, <1>4 DEF Least
<1>7. r.nextFree + n * k.stable <= after.nextFree /\ after.nextFree \in Nat
  BY <1>1, <1>2, <1>4, <1>5
<1> QED
  BY <1>2, <1>4, <1>5, <1>6, <1>7 DEF m, cost

-----------------------------------------------------------------------------
(***************************************************************************)
(* Among sets of elements of one finite set there is a smallest: the form  *)
(* of induction in which a property of finite sets is proved here, by its  *)
(* smallest counterexample.                                                *)
(***************************************************************************)
LEMMA LeastSet ==
    ASSUME NEW S, IsFiniteSet(S), NEW T, T \subseteq SUBSET S, T # {}
    PROVE  \E x \in T : \A y \in T : y \subseteq x => y = x
<1>1. T \subseteq FiniteSubsetsOf(S)
  BY FS_Subset DEF FiniteSubsetsOf
<1>2. PICK x \in T : \A y \in T : ~ (<<y, x>> \in StrictSubsetOrdering(S))
  BY <1>1, WFMin, FS_StrictSubsetOrderingWellFounded
<1>3. \A y \in T : y \subseteq x /\ y # x => <<y, x>> \in StrictSubsetOrdering(S)
  BY DEF StrictSubsetOrdering
<1>4. \A y \in T : y \subseteq x => y = x
  BY <1>2, <1>3
<1> QED
  BY <1>4

\* The element a sum begins with.
AnyOf(S) == CHOOSE x \in S : TRUE

LEMMA AnyOfIsIn == ASSUME NEW S, S # {} PROVE AnyOf(S) \in S
  BY DEF AnyOf

(***************************************************************************)
(* SumFunctionOnSet(f, S) looks S up in a table h of the sums of f over    *)
(* all subsets of S, each made by adding one element to a smaller sum.     *)
(***************************************************************************)
AddsUp(h, f, S) ==
    h = [s \in SUBSET S |-> IF s = {} THEN 0 ELSE f[AnyOf(s)] + h[s \ {AnyOf(s)}]]

LEMMA SumIsChosen ==
    ASSUME NEW f, NEW S
    PROVE  SumFunctionOnSet(f, S) = (CHOOSE h : AddsUp(h, f, S))[S]
BY DEF SumFunctionOnSet, FoldFunctionOnSet, MapThenFoldSet, AddsUp, AnyOf

(***************************************************************************)
(* Two tables of sums say the same wherever both speak.                    *)
(***************************************************************************)
LEMMA AddingUpAgrees ==
    ASSUME NEW f, NEW S, NEW T, IsFiniteSet(S), T \subseteq S,
           NEW g, AddsUp(g, f, S), NEW h, AddsUp(h, f, T)
    PROVE  \A s \in SUBSET T : g[s] = h[s]
<1> DEFINE bad == {s \in SUBSET T : g[s] # h[s]}
<1> SUFFICES ASSUME bad # {} PROVE FALSE
  OBVIOUS
<1>0. bad \subseteq SUBSET T
  OBVIOUS
<1> HIDE DEF bad
<1>1. IsFiniteSet(T)
  BY FS_Subset
<1>2. PICK s \in bad : \A y \in bad : y \subseteq s => y = s
  BY <1>0, <1>1, LeastSet
<1>3. s \in SUBSET T /\ s \in SUBSET S /\ g[s] # h[s]
  BY DEF bad
<1>4. /\ g[s] = IF s = {} THEN 0 ELSE f[AnyOf(s)] + g[s \ {AnyOf(s)}]
      /\ h[s] = IF s = {} THEN 0 ELSE f[AnyOf(s)] + h[s \ {AnyOf(s)}]
  BY <1>3 DEF AddsUp
<1>5. CASE s = {}
  BY <1>3, <1>4, <1>5
<1>6. CASE s # {}
  <2>1. AnyOf(s) \in s
    BY <1>6, AnyOfIsIn
  <2>2. s \ {AnyOf(s)} \in SUBSET T /\ s \ {AnyOf(s)} # s
    BY <1>3, <2>1
  <2>3. g[s \ {AnyOf(s)}] = h[s \ {AnyOf(s)}]
    BY <1>2, <2>2 DEF bad
  <2> QED
    BY <1>3, <1>4, <1>6, <2>3
<1> QED
  BY <1>5, <1>6

(***************************************************************************)
(* There is such a table: a smallest set without one would have one, made  *)
(* of those of its subsets.                                                *)
(***************************************************************************)
LEMMA AddingUpExists ==
    ASSUME NEW f, NEW S, IsFiniteSet(S)
    PROVE  \E h : AddsUp(h, f, S)
<1> DEFINE bad == {s \in SUBSET S : ~ \E h : AddsUp(h, f, s)}
<1> SUFFICES ASSUME bad # {} PROVE FALSE
  OBVIOUS
<1>0. bad \subseteq SUBSET S
  OBVIOUS
<1> HIDE DEF bad
<1>1. PICK s \in bad : \A y \in bad : y \subseteq s => y = s
  BY <1>0, LeastSet
<1>2. s \in SUBSET S /\ ~ \E h : AddsUp(h, f, s)
  BY DEF bad
<1> DEFINE part(t) == CHOOSE h : AddsUp(h, f, t)
           total(t) == part(t)[t]
           whole == [t \in SUBSET s |->
                       IF t = {} THEN 0 ELSE f[AnyOf(t)] + total(t \ {AnyOf(t)})]
<1>3. ASSUME NEW t \in SUBSET s, t # s PROVE AddsUp(part(t), f, t) /\ IsFiniteSet(t)
  <2>1. t \in SUBSET S
    BY <1>2
  <2>2. \E h : AddsUp(h, f, t)
    BY <1>1, <1>3, <2>1 DEF bad
  <2> QED
    BY <2>1, <2>2, FS_Subset
<1> HIDE DEF part
<1>4. ASSUME NEW t \in SUBSET s, t # s
      PROVE  total(t) = whole[t]
  <2>1. AddsUp(part(t), f, t) /\ IsFiniteSet(t)
    BY <1>3, <1>4
  <2>2. total(t) = IF t = {} THEN 0 ELSE f[AnyOf(t)] + part(t)[t \ {AnyOf(t)}]
    <3>1. t \in SUBSET t
      OBVIOUS
    <3> QED
      BY <2>1, <3>1 DEF AddsUp
  <2>3. CASE t # {}
    <3> DEFINE u == t \ {AnyOf(t)}
    <3>1. AnyOf(t) \in t
      BY <2>3, AnyOfIsIn
    <3>2. u \in SUBSET s /\ u # s /\ u \subseteq t /\ u \in SUBSET u
      BY <1>4, <3>1
    <3>3. AddsUp(part(u), f, u)
      BY <1>3, <3>2
    <3> HIDE DEF u
    <3>4. part(t)[u] = part(u)[u]
      BY <2>1, <3>2, <3>3, AddingUpAgrees
    <3> QED
      BY <2>2, <2>3, <3>4 DEF u
  <2> QED
    BY <2>2, <2>3
<1> HIDE DEF total
<1>5. ASSUME NEW t \in SUBSET s
      PROVE  whole[t] = IF t = {} THEN 0 ELSE f[AnyOf(t)] + whole[t \ {AnyOf(t)}]
  <2>1. CASE t # {}
    <3>1. AnyOf(t) \in t
      BY <2>1, AnyOfIsIn
    <3>2. t \ {AnyOf(t)} \in SUBSET s /\ t \ {AnyOf(t)} # s
      BY <3>1
    <3> QED
      BY <1>4, <2>1, <3>2
  <2> QED
    BY <2>1
<1>6. whole = [t \in SUBSET s |-> IF t = {} THEN 0 ELSE f[AnyOf(t)] + whole[t \ {AnyOf(t)}]]
  <2> DEFINE rhs == [t \in SUBSET s |-> IF t = {} THEN 0 ELSE f[AnyOf(t)] + whole[t \ {AnyOf(t)}]]
  <2>1. \A t \in SUBSET s : whole[t] = rhs[t]
    BY <1>5
  <2>2. whole = [t \in SUBSET s |-> whole[t]]
    OBVIOUS
  <2> HIDE DEF whole
  <2>3. rhs = [t \in SUBSET s |-> rhs[t]]
    OBVIOUS
  <2> HIDE DEF rhs
  <2>4. whole = rhs
    BY <2>1, <2>2, <2>3
  <2> QED
    BY <2>4 DEF rhs
<1> HIDE DEF whole
<1>7. AddsUp(whole, f, s)
  BY <1>6 DEF AddsUp
<1> QED
  BY <1>2, <1>7

(***************************************************************************)
(* A sum over a finite set, one element at a time.                         *)
(***************************************************************************)
LEMMA SumUnfolds ==
    ASSUME NEW f, NEW S, IsFiniteSet(S)
    PROVE  SumFunctionOnSet(f, S) =
             IF S = {} THEN 0
             ELSE f[AnyOf(S)] + SumFunctionOnSet(f, S \ {AnyOf(S)})
<1> DEFINE g == CHOOSE h : AddsUp(h, f, S)
           T == S \ {AnyOf(S)}
           k == CHOOSE h : AddsUp(h, f, T)
<1>1. IsFiniteSet(T) /\ T \subseteq S
  BY FS_Subset
<1>2. AddsUp(g, f, S) /\ AddsUp(k, f, T)
  BY <1>1, AddingUpExists
<1>3. SumFunctionOnSet(f, S) = g[S] /\ SumFunctionOnSet(f, T) = k[T]
  BY SumIsChosen
<1> HIDE DEF g, k
<1>4. g[T] = k[T]
  BY <1>1, <1>2, AddingUpAgrees
<1>5. g[S] = IF S = {} THEN 0 ELSE f[AnyOf(S)] + g[T]
  <2>1. S \in SUBSET S
    OBVIOUS
  <2> QED
    BY <1>2, <2>1 DEF AddsUp
<1> QED
  BY <1>3, <1>4, <1>5

(***************************************************************************)
(* A sum of naturals is one.                                               *)
(***************************************************************************)
LEMMA SumIsNat ==
    ASSUME NEW f, NEW S, IsFiniteSet(S), \A x \in S : f[x] \in Nat
    PROVE  SumFunctionOnSet(f, S) \in Nat
<1> DEFINE bad == {s \in SUBSET S : SumFunctionOnSet(f, s) \notin Nat}
<1> SUFFICES ASSUME bad # {} PROVE FALSE
  OBVIOUS
<1>0. bad \subseteq SUBSET S
  OBVIOUS
<1> HIDE DEF bad
<1>1. PICK s \in bad : \A y \in bad : y \subseteq s => y = s
  BY <1>0, LeastSet
<1>2. IsFiniteSet(s) /\ s \subseteq S /\ SumFunctionOnSet(f, s) \notin Nat
  BY FS_Subset DEF bad
<1>3. SumFunctionOnSet(f, s) = IF s = {} THEN 0 ELSE f[AnyOf(s)] + SumFunctionOnSet(f, s \ {AnyOf(s)})
  BY <1>2, SumUnfolds
<1>4. s # {}
  BY <1>2, <1>3
<1>5. AnyOf(s) \in s
  BY <1>4, AnyOfIsIn
<1>6. s \ {AnyOf(s)} \notin bad
  BY <1>1, <1>5
<1>7. SumFunctionOnSet(f, s \ {AnyOf(s)}) \in Nat /\ f[AnyOf(s)] \in Nat
  BY <1>2, <1>5, <1>6 DEF bad
<1> QED
  BY <1>2, <1>3, <1>4, <1>7

(***************************************************************************)
(* Any element may be added up first, not only the one the sum begins      *)
(* with.                                                                   *)
(***************************************************************************)
LEMMA SumTakesOut ==
    ASSUME NEW f, NEW S, IsFiniteSet(S), \A x \in S : f[x] \in Nat, NEW a \in S
    PROVE  SumFunctionOnSet(f, S) = f[a] + SumFunctionOnSet(f, S \ {a})
<1> DEFINE good(s) == \A b \in s : SumFunctionOnSet(f, s) = f[b] + SumFunctionOnSet(f, s \ {b})
           bad == {s \in SUBSET S : ~ good(s)}
<1> SUFFICES ASSUME bad # {} PROVE FALSE
  OBVIOUS
<1>0. bad \subseteq SUBSET S
  OBVIOUS
<1> HIDE DEF bad
<1>1. PICK s \in bad : \A y \in bad : y \subseteq s => y = s
  BY <1>0, LeastSet
<1>2. IsFiniteSet(s) /\ s \subseteq S
  BY FS_Subset DEF bad
<1>3. PICK b \in s : SumFunctionOnSet(f, s) # f[b] + SumFunctionOnSet(f, s \ {b})
  BY DEF bad
<1> DEFINE p == AnyOf(s)
<1>4. p \in s /\ SumFunctionOnSet(f, s) = f[p] + SumFunctionOnSet(f, s \ {p})
  BY <1>2, SumUnfolds, AnyOfIsIn
<1>5. p # b
  BY <1>3, <1>4
<1> HIDE DEF p
<1>6. /\ s \ {p} \notin bad /\ s \ {p} \in SUBSET S
      /\ s \ {b} \notin bad /\ s \ {b} \in SUBSET S
  BY <1>1, <1>2, <1>4
<1>7. /\ SumFunctionOnSet(f, s \ {p}) = f[b] + SumFunctionOnSet(f, (s \ {p}) \ {b})
      /\ SumFunctionOnSet(f, s \ {b}) = f[p] + SumFunctionOnSet(f, (s \ {b}) \ {p})
  BY <1>4, <1>5, <1>6 DEF bad
<1> DEFINE rest == (s \ {b}) \ {p}
<1>8. /\ SumFunctionOnSet(f, s \ {p}) = f[b] + SumFunctionOnSet(f, rest)
      /\ SumFunctionOnSet(f, s \ {b}) = f[p] + SumFunctionOnSet(f, rest)
  <2>1. (s \ {p}) \ {b} = (s \ {b}) \ {p}
    OBVIOUS
  <2> QED
    BY <1>7, <2>1
<1>9. IsFiniteSet(rest) /\ \A x \in rest : f[x] \in Nat
  BY <1>2, FS_Subset
<1>10. SumFunctionOnSet(f, rest) \in Nat /\ f[p] \in Nat /\ f[b] \in Nat
  BY <1>2, <1>4, <1>9, SumIsNat
<1> HIDE DEF rest
<1>11. SumFunctionOnSet(f, s) = f[b] + SumFunctionOnSet(f, s \ {b})
  BY <1>4, <1>8, <1>10
<1> QED
  BY <1>3, <1>11

(***************************************************************************)
(* A sum depends on what it adds up and on nothing else.                   *)
(***************************************************************************)
LEMMA SumAgrees ==
    ASSUME NEW f, NEW g, NEW S, IsFiniteSet(S), \A x \in S : f[x] = g[x]
    PROVE  SumFunctionOnSet(f, S) = SumFunctionOnSet(g, S)
<1> DEFINE bad == {s \in SUBSET S : SumFunctionOnSet(f, s) # SumFunctionOnSet(g, s)}
<1> SUFFICES ASSUME bad # {} PROVE FALSE
  OBVIOUS
<1>0. bad \subseteq SUBSET S
  OBVIOUS
<1> HIDE DEF bad
<1>1. PICK s \in bad : \A y \in bad : y \subseteq s => y = s
  BY <1>0, LeastSet
<1>2. IsFiniteSet(s) /\ s \subseteq S /\ SumFunctionOnSet(f, s) # SumFunctionOnSet(g, s)
  BY FS_Subset DEF bad
<1> DEFINE p == AnyOf(s)
<1>3. /\ SumFunctionOnSet(f, s) = IF s = {} THEN 0 ELSE f[p] + SumFunctionOnSet(f, s \ {p})
      /\ SumFunctionOnSet(g, s) = IF s = {} THEN 0 ELSE g[p] + SumFunctionOnSet(g, s \ {p})
  BY <1>2, SumUnfolds
<1>4. s # {} /\ p \in s
  BY <1>2, <1>3, AnyOfIsIn
<1> HIDE DEF p
<1>5. SumFunctionOnSet(f, s \ {p}) = SumFunctionOnSet(g, s \ {p}) /\ f[p] = g[p]
  BY <1>1, <1>2, <1>4 DEF bad
<1> QED
  BY <1>2, <1>3, <1>4, <1>5

(***************************************************************************)
(* A multiple of n is divided by it exactly.                               *)
(***************************************************************************)
LEMMA MultipleDivides ==
    ASSUME NEW q \in Nat, NEW n \in Nat \ {0}
    PROVE  n * q \in Nat /\ (n * q) \div n = q /\ (n * q) % n = 0
<1> DEFINE x == n * q
<1>1. x \in Nat /\ x = q * n
  BY SMTT(30)
<1>2. x \div n \in Nat /\ q <= x \div n /\ x \div n <= q
  BY <1>1, Floor, FloorIsLargest
<1>3. x \div n = q
  BY <1>2
<1>4. x = n * (x \div n) + (x % n) /\ x % n \in Nat
  BY <1>1, SMTT(30)
<1> QED
  BY <1>1, <1>3, <1>4

-----------------------------------------------------------------------------
(***************************************************************************)
(* Listed, for an order that is a strict total one on the set.             *)
(***************************************************************************)
Orders(before, S) ==
    /\ \A x \in S : <<x, x>> \notin before
    /\ \A x, y \in S : x = y \/ <<x, y>> \in before \/ <<y, x>> \in before
    /\ \A x, y, z \in S :
         <<x, y>> \in before /\ <<y, z>> \in before => <<x, z>> \in before

\* l lists the elements of S, each once, in order.
Lists(l, n, S, before) ==
    /\ l \in [1..n -> S]
    /\ \A x \in S : \E i \in 1..n : l[i] = x
    /\ \A i, j \in 1..n : i < j => <<l[i], l[j]>> \in before

Rank(x, S, before) == Cardinality(Preceding(x, S, before))

\* An order relates no two elements both ways.
LEMMA OrderIsOneWay ==
    ASSUME NEW S, NEW R, Orders(R, S), NEW x \in S, NEW y \in S,
           <<x, y>> \in R
    PROVE  <<y, x>> \notin R /\ x # y
  BY DEF Orders

(***************************************************************************)
(* Ranks ascend with the order, from 0.                                    *)
(***************************************************************************)
LEMMA RankAscends ==
    ASSUME NEW S, NEW R, IsFiniteSet(S), Orders(R, S)
    PROVE  /\ Cardinality(S) \in Nat
           /\ \A x \in S : Rank(x, S, R) \in 0..(Cardinality(S) - 1)
           /\ \A x, y \in S : <<x, y>> \in R => Rank(x, S, R) < Rank(y, S, R)
           /\ \A x, y \in S : Rank(x, S, R) = Rank(y, S, R) => x = y
<1>1. Cardinality(S) \in Nat
  BY FS_CardinalityType
<1>2. ASSUME NEW x \in S
      PROVE  /\ IsFiniteSet(Preceding(x, S, R))
             /\ Rank(x, S, R) \in 0..(Cardinality(S) - 1)
  <2>1. Preceding(x, S, R) \in SUBSET (S \ {x})
    BY DEF Preceding, Orders
  <2>2. IsFiniteSet(S \ {x}) /\ Cardinality(S \ {x}) = Cardinality(S) - 1
    BY FS_RemoveElement
  <2>3. /\ IsFiniteSet(Preceding(x, S, R))
        /\ Cardinality(Preceding(x, S, R)) <= Cardinality(S \ {x})
    BY <2>1, <2>2, FS_Subset
  <2>4. Cardinality(Preceding(x, S, R)) \in Nat
    BY <2>3, FS_CardinalityType
  <2> QED
    BY <1>1, <2>2, <2>3, <2>4 DEF Rank
<1>3. ASSUME NEW x \in S, NEW y \in S, <<x, y>> \in R
      PROVE  Rank(x, S, R) < Rank(y, S, R)
  <2>1. Preceding(x, S, R) \in SUBSET Preceding(y, S, R)
    BY <1>3 DEF Preceding, Orders
  <2>2. Preceding(x, S, R) # Preceding(y, S, R)
    BY <1>3 DEF Preceding, Orders
  <2>3. /\ Cardinality(Preceding(x, S, R)) <= Cardinality(Preceding(y, S, R))
        /\ Cardinality(Preceding(x, S, R)) # Cardinality(Preceding(y, S, R))
    BY <1>2, <2>1, <2>2, FS_Subset
  <2> QED
    BY <1>1, <1>2, <2>3 DEF Rank
<1>4. ASSUME NEW x \in S, NEW y \in S, Rank(x, S, R) = Rank(y, S, R)
      PROVE  x = y
  <2>1. Rank(x, S, R) \in Int
    BY <1>1, <1>2
  <2>2. ~ (Rank(x, S, R) < Rank(y, S, R)) /\ ~ (Rank(y, S, R) < Rank(x, S, R))
    BY <1>4, <2>1
  <2>3. <<x, y>> \notin R /\ <<y, x>> \notin R
    BY <1>3, <2>2
  <2> QED
    BY <2>3 DEF Orders
<1> QED
  BY <1>1, <1>2, <1>3, <1>4

(***************************************************************************)
(* Every finite set is listed.                                             *)
(***************************************************************************)
LEMMA ListedLists ==
    ASSUME NEW S, NEW R, IsFiniteSet(S), Orders(R, S)
    PROVE  /\ Cardinality(S) \in Nat
           /\ Lists(Listed(S, R), Cardinality(S), S, R)
           /\ \A i \in 1..Cardinality(S) : Rank(Listed(S, R)[i], S, R) = i - 1
<1> DEFINE N == Cardinality(S)
           r == [x \in S |-> Rank(x, S, R) + 1]
           l == Listed(S, R)
<1>1. /\ N \in Nat
      /\ \A x \in S : Rank(x, S, R) \in 0..(N - 1)
      /\ \A x, y \in S : <<x, y>> \in R => Rank(x, S, R) < Rank(y, S, R)
      /\ \A x, y \in S : Rank(x, S, R) = Rank(y, S, R) => x = y
  BY RankAscends
<1> HIDE DEF N
<1>2. r \in Injection(S, 1..N)
  <2>1. r \in [S -> 1..N]
    BY <1>1
  <2>2. ASSUME NEW x \in S, NEW y \in S, r[x] = r[y]
        PROVE  x = y
    BY <1>1, <2>2
  <2> QED
    BY <2>1, <2>2 DEF Injection, IsInjective
<1>3. IsFiniteSet(1..N) /\ Cardinality(1..N) = N
  BY <1>1, FS_Interval
<1>4. r \in Surjection(S, 1..N)
  BY <1>2, <1>3, FS_Injection DEF N
<1>5. ASSUME NEW i \in 1..N
      PROVE  l[i] \in S /\ Rank(l[i], S, R) = i - 1
  <2>1. PICK x \in S : r[x] = i
    BY <1>4 DEF Surjection
  <2>2. Cardinality(Preceding(x, S, R)) = i - 1
    BY <1>1, <2>1 DEF Rank
  <2>3. l[i] = CHOOSE y \in S : Cardinality(Preceding(y, S, R)) = i - 1
    BY DEF Listed, N
  <2> QED
    BY <2>2, <2>3 DEF Rank
<1>6. l \in [1..N -> S]
  BY <1>5 DEF Listed, N
<1>7. ASSUME NEW x \in S
      PROVE  \E i \in 1..N : l[i] = x
  <2>1. Rank(x, S, R) + 1 \in 1..N
    BY <1>1
  <2>2. Rank(l[Rank(x, S, R) + 1], S, R) = Rank(x, S, R)
    BY <1>1, <1>5, <2>1
  <2> QED
    BY <1>1, <1>5, <2>1, <2>2
<1>8. ASSUME NEW i \in 1..N, NEW j \in 1..N, i < j
      PROVE  <<l[i], l[j]>> \in R
  <2>1. l[i] \in S /\ l[j] \in S /\ Rank(l[i], S, R) = i - 1 /\ Rank(l[j], S, R) = j - 1
    BY <1>5
  <2>2. l[i] # l[j] /\ <<l[j], l[i]>> \notin R
    BY <1>1, <1>8, <2>1
  <2> QED
    BY <2>1, <2>2 DEF Orders
<1> QED
  BY <1>1, <1>5, <1>6, <1>7, <1>8 DEF Lists, N

(***************************************************************************)
(* And in one way only.                                                    *)
(***************************************************************************)
LEMMA ListingIsUnique ==
    ASSUME NEW S, NEW R, IsFiniteSet(S), Orders(R, S),
           NEW n \in Nat, NEW f, Lists(f, n, S, R)
    PROVE  n = Cardinality(S) /\ f = Listed(S, R)
<1>1. /\ f \in [1..n -> S]
      /\ \A x \in S : \E i \in 1..n : f[i] = x
      /\ \A i, j \in 1..n : i < j => <<f[i], f[j]>> \in R
  BY DEF Lists
<1>2. \A i, j \in 1..n : f[i] = f[j] => i = j
  <2> SUFFICES ASSUME NEW i \in 1..n, NEW j \in 1..n, f[i] = f[j], i < j PROVE FALSE
    BY <1>1
  <2> QED
    BY <1>1, OrderIsOneWay
<1>3. n = Cardinality(S)
  <2>1. f \in Bijection(1..n, S)
    BY <1>1, <1>2 DEF Bijection, Injection, Surjection, IsInjective
  <2> QED
    BY <2>1, FS_CountingElements DEF ExistsBijection
<1>4. ASSUME NEW i \in 1..n
      PROVE  Rank(f[i], S, R) = i - 1
  <2> DEFINE g == [m \in 1..(i - 1) |-> f[m]]
  <2>1. \A m \in 1..(i - 1) : m \in 1..n /\ m < i
    OBVIOUS
  <2>2. g \in [1..(i - 1) -> Preceding(f[i], S, R)]
    BY <1>1, <2>1 DEF Preceding
  <2>3. ASSUME NEW x \in Preceding(f[i], S, R)
        PROVE  \E m \in 1..(i - 1) : g[m] = x
    <3>1. x \in S /\ <<x, f[i]>> \in R
      BY DEF Preceding
    <3>2. PICK m \in 1..n : f[m] = x
      BY <1>1, <3>1
    <3>3. f[i] \in S
      BY <1>1
    <3>4. ~ (i < m) /\ i # m
      BY <1>1, <3>1, <3>2, <3>3, OrderIsOneWay
    <3>5. m \in 1..(i - 1)
      BY <3>4
    <3> QED
      BY <3>2, <3>5
  <2>4. g \in Bijection(1..(i - 1), Preceding(f[i], S, R))
    BY <1>2, <2>1, <2>2, <2>3 DEF Bijection, Injection, Surjection, IsInjective
  <2>5. i - 1 \in Nat
    OBVIOUS
  <2> QED
    BY <2>4, <2>5, FS_CountingElements DEF ExistsBijection, Rank
<1>5. /\ Listed(S, R) \in [1..n -> S]
      /\ \A i \in 1..n : Rank(Listed(S, R)[i], S, R) = i - 1
  BY <1>3, ListedLists DEF Lists
<1>6. \A i \in 1..n : f[i] = Listed(S, R)[i]
  BY <1>1, <1>4, <1>5, RankAscends
<1> QED
  BY <1>1, <1>3, <1>5, <1>6


(***************************************************************************)
(* Only the order within the set counts.                                   *)
(***************************************************************************)
LEMMA OrdersAgree ==
    ASSUME NEW S, NEW R, NEW Q, \A x, y \in S : <<x, y>> \in R <=> <<x, y>> \in Q
    PROVE  /\ Listed(S, R) = Listed(S, Q)
           /\ Orders(R, S) => Orders(Q, S)
<1>1. \A x \in S : Preceding(x, S, R) = Preceding(x, S, Q)
  BY DEF Preceding
<1>2. \A i : (CHOOSE x \in S : Cardinality(Preceding(x, S, R)) = i - 1)
               = CHOOSE x \in S : Cardinality(Preceding(x, S, Q)) = i - 1
  BY <1>1
<1>3. Listed(S, R) = Listed(S, Q)
  BY <1>2 DEF Listed
<1>4. Orders(R, S) => Orders(Q, S)
  BY DEF Orders
<1> QED
  BY <1>3, <1>4

\* An order of a set is one of its subsets.
LEMMA OrdersSubset ==
    ASSUME NEW S, NEW T \in SUBSET S, NEW R, Orders(R, S)
    PROVE  Orders(R, T)
  BY DEF Orders

\* A listing is a sequence.
LEMMA ListingIsSeq ==
    ASSUME NEW S, NEW R, IsFiniteSet(S), Orders(R, S)
    PROVE  /\ Cardinality(S) \in Nat
           /\ Listed(S, R) \in [1..Cardinality(S) -> S]
           /\ Listed(S, R) \in Seq(S)
           /\ Len(Listed(S, R)) = Cardinality(S)
<1>1. Cardinality(S) \in Nat /\ Listed(S, R) \in [1..Cardinality(S) -> S]
  BY ListedLists DEF Lists
<1>2. Listed(S, R) \in Seq(S)
  BY <1>1, SeqDef
<1>3. DOMAIN Listed(S, R) = 1..Cardinality(S) /\ DOMAIN Listed(S, R) = 1..Len(Listed(S, R))
  BY <1>1, <1>2, LenProperties
<1>4. Len(Listed(S, R)) \in Nat
  BY <1>2, LenProperties
<1>5. Len(Listed(S, R)) = Cardinality(S)
  BY <1>1, <1>3, <1>4
<1> QED
  BY <1>1, <1>2, <1>5

(***************************************************************************)
(* An element that comes after all the others is listed last.              *)
(***************************************************************************)
LEMMA ListedAppend ==
    ASSUME NEW S, NEW R, IsFiniteSet(S), Orders(R, S), NEW x, x \notin S,
           <<x, x>> \notin R,
           \A y \in S : <<y, x>> \in R /\ <<x, y>> \notin R
    PROVE  Listed(S \cup {x}, R) = Append(Listed(S, R), x)
<1> DEFINE T == S \cup {x}
           n == Cardinality(S)
           l == Listed(S, R)
           f == Append(l, x)
<1>1. IsFiniteSet(T) /\ Cardinality(T) = n + 1
  BY FS_AddElement
<1>2. Orders(R, T)
  BY DEF Orders
<1>3. n \in Nat /\ Lists(l, n, S, R) /\ l \in Seq(S) /\ Len(l) = n
  BY ListedLists, ListingIsSeq
<1>4. l \in Seq(T)
  <2>1. S \subseteq T
    OBVIOUS
  <2> QED
    BY <1>3, <2>1, SeqMonotonic
<1> HIDE DEF l, n
<1>5. /\ f \in Seq(T) /\ Len(f) = n + 1
      /\ \A i \in 1..n : f[i] = l[i]
      /\ f[n + 1] = x
  BY <1>3, <1>4, AppendProperties
<1>6. f \in [1..(n + 1) -> T]
  BY <1>5, LenProperties
<1> HIDE DEF f
<1>7. \A y \in T : \E i \in 1..(n + 1) : f[i] = y
  BY <1>3, <1>5 DEF Lists
<1>8. ASSUME NEW i \in 1..(n + 1), NEW j \in 1..(n + 1), i < j
      PROVE  <<f[i], f[j]>> \in R
  <2>1. i \in 1..n /\ f[i] = l[i] /\ l[i] \in S
    BY <1>3, <1>5, <1>8 DEF Lists
  <2>2. CASE j \in 1..n
    BY <1>3, <1>5, <1>8, <2>1, <2>2 DEF Lists
  <2>3. CASE j = n + 1
    BY <1>5, <2>1, <2>3
  <2> QED
    BY <1>3, <2>2, <2>3
<1>9. Lists(f, n + 1, T, R)
  BY <1>6, <1>7, <1>8 DEF Lists
<1> HIDE DEF T
<1>10. f = Listed(T, R)
  BY <1>1, <1>2, <1>3, <1>9, ListingIsUnique
<1> QED
  BY <1>10 DEF T, f, l

(***************************************************************************)
(* A part that comes before the rest is listed first.                      *)
(***************************************************************************)
LEMMA ListedPrefix ==
    ASSUME NEW S, NEW R, IsFiniteSet(S), Orders(R, S), NEW D \in SUBSET S,
           \A d \in D, y \in S \ D : <<y, d>> \notin R
    PROVE  /\ Cardinality(D) \in 0..Cardinality(S)
           /\ D = {Listed(S, R)[i] : i \in 1..Cardinality(D)}
           /\ Listed(S \ D, R) = SubSeq(Listed(S, R), Cardinality(D) + 1, Cardinality(S))
<1> DEFINE m == Cardinality(D)
           E == S \ D
           k == Cardinality(E)
           n == Cardinality(S)
           a == Listed(D, R)
           b == Listed(E, R)
           l == Listed(S, R)
           f == [i \in 1..(m + k) |-> IF i <= m THEN a[i] ELSE b[i - m]]
<1>1. IsFiniteSet(D) /\ IsFiniteSet(E) /\ Orders(R, D) /\ Orders(R, E)
  BY FS_Subset, FS_Difference, OrdersSubset
<1>2. m \in Nat /\ Lists(a, m, D, R)
  BY <1>1, ListedLists
<1>3. k \in Nat /\ Lists(b, k, E, R) /\ b \in Seq(E) /\ Len(b) = k
  BY <1>1, ListedLists, ListingIsSeq
<1>4. /\ n \in Nat /\ l \in Seq(S) /\ Len(l) = n
  BY ListingIsSeq
<1>5. S = D \cup E /\ D \cap E = {}
  OBVIOUS
<1>6. \A d \in D, y \in E : <<d, y>> \in R
  BY DEF Orders
<1> HIDE DEF m, k, n, a, b, l, E
<1>7. \A i \in 1..m : i \in 1..(m + k) /\ f[i] = a[i] /\ a[i] \in D
  BY <1>2, <1>3 DEF Lists
<1>8. \A i \in 1..k : m + i \in 1..(m + k) /\ f[m + i] = b[i] /\ b[i] \in E
  BY <1>2, <1>3 DEF Lists
<1>9. \A i \in 1..(m + k) : i \in 1..m \/ \E j \in 1..k : i = m + j
  <2> SUFFICES ASSUME NEW i \in 1..(m + k), i \notin 1..m PROVE i - m \in 1..k /\ i = m + (i - m)
    OBVIOUS
  <2> QED
    BY <1>2, <1>3
<1> HIDE DEF f
<1>10. f \in [1..(m + k) -> S]
  <2>1. \A i \in 1..(m + k) : f[i] \in S
    BY <1>5, <1>7, <1>8, <1>9
  <2> QED
    BY <2>1 DEF f
<1>11. ASSUME NEW y \in S
       PROVE  \E i \in 1..(m + k) : f[i] = y
  <2>1. CASE y \in D
    BY <1>2, <1>7, <2>1 DEF Lists
  <2>2. CASE y \in E
    BY <1>3, <1>8, <2>2 DEF Lists
  <2> QED
    BY <1>5, <2>1, <2>2
<1>12. ASSUME NEW i \in 1..(m + k), NEW j \in 1..(m + k), i < j
       PROVE  <<f[i], f[j]>> \in R
  <2>1. CASE i \in 1..m /\ j \in 1..m
    BY <1>2, <1>7, <1>12, <2>1 DEF Lists
  <2>2. CASE i \in 1..m /\ j \notin 1..m
    BY <1>6, <1>7, <1>8, <1>9, <2>2
  <2>3. CASE i \notin 1..m
    <3>1. PICK p \in 1..k : i = m + p
      BY <1>9, <2>3
    <3>2. j \notin 1..m
      BY <1>2, <1>12, <2>3
    <3>3. PICK q \in 1..k : j = m + q
      BY <1>9, <3>2
    <3>4. p < q
      BY <1>2, <1>12, <3>1, <3>3
    <3> QED
      BY <1>3, <1>8, <3>1, <3>3, <3>4 DEF Lists
  <2> QED
    BY <2>1, <2>2, <2>3
<1>13. m + k \in Nat /\ Lists(f, m + k, S, R)
  BY <1>2, <1>3, <1>10, <1>11, <1>12 DEF Lists
<1>14. m + k = n /\ f = l
  BY <1>13, ListingIsUnique DEF n, l
<1>15. m \in 0..n
  BY <1>2, <1>3, <1>14
<1>16. D = {l[i] : i \in 1..m}
  <2>1. \A i \in 1..m : l[i] \in D
    BY <1>7, <1>14
  <2>2. \A d \in D : \E i \in 1..m : l[i] = d
    BY <1>2, <1>7, <1>14 DEF Lists
  <2> QED
    BY <2>1, <2>2
<1>17. b = SubSeq(l, m + 1, n)
  <2> DEFINE s == SubSeq(l, m + 1, n)
  <2>1. \A i \in (m + 1)..n : l[i] \in S
    BY <1>2, <1>4, <1>10, <1>14
  <2>2. m + 1 \in Int /\ n \in Int
    BY <1>2, <1>4
  <2>3. /\ s \in Seq(S)
        /\ Len(s) = IF m + 1 <= n THEN n - (m + 1) + 1 ELSE 0
        /\ \A i \in 1..(n - (m + 1) + 1) : s[i] = l[(m + 1) + i - 1]
    BY <2>1, <2>2, SubSeqProperties
  <2>4. Len(s) = k /\ n - (m + 1) + 1 = k
    BY <1>2, <1>3, <1>14, <2>3
  <2>5. b \in Seq(S)
    BY <1>3, <1>5, SeqMonotonic
  <2> HIDE DEF s
  <2>6. \A i \in 1..k : b[i] = s[i]
    <3> TAKE i \in 1..k
    <3>1. (m + 1) + i - 1 = m + i
      BY <1>2
    <3> QED
      BY <1>8, <1>14, <2>3, <2>4, <3>1
  <2>7. b = s
    BY <1>3, <2>3, <2>4, <2>5, <2>6, SeqEqual
  <2> QED
    BY <2>7 DEF s
<1> QED
  BY <1>15, <1>16, <1>17 DEF m, n, b, l, E


(***************************************************************************)
(* Without one of its elements, a set is listed as before but for the gap. *)
(***************************************************************************)
LEMMA ListedWithout ==
    ASSUME NEW S, NEW R, IsFiniteSet(S), Orders(R, S), NEW x \in S
    PROVE  \E i \in 1..Cardinality(S) :
             /\ Listed(S, R)[i] = x
             /\ Listed(S \ {x}, R) =
                  SubSeq(Listed(S, R), 1, i - 1)
                    \o SubSeq(Listed(S, R), i + 1, Cardinality(S))
<1> DEFINE n == Cardinality(S)
           l == Listed(S, R)
           T == S \ {x}
           b == Listed(T, R)
<1>1. IsFiniteSet(T) /\ Orders(R, T) /\ Cardinality(T) = n - 1
  BY FS_RemoveElement, OrdersSubset
<1>2. n \in Nat /\ Lists(l, n, S, R) /\ l \in Seq(S) /\ Len(l) = n
  BY ListedLists, ListingIsSeq
<1>3. b \in Seq(T) /\ Len(b) = n - 1 /\ n - 1 \in Nat
  BY <1>1, ListingIsSeq
<1>4. T \subseteq S /\ x \notin T
  OBVIOUS
<1> HIDE DEF n, l, b, T
<1>5. PICK p \in 1..n : l[p] = x
  BY <1>2 DEF Lists
<1>6. \A i \in 1..n : l[i] \in S /\ (l[i] = x <=> i = p)
  <2> SUFFICES ASSUME NEW i \in 1..n PROVE l[i] \in S /\ (l[i] = x <=> i = p)
    OBVIOUS
  <2>1. l[i] \in S
    BY <1>2 DEF Lists
  <2>2. i < p \/ p < i => l[i] # l[p]
    BY <1>2, <2>1, OrderIsOneWay DEF Lists
  <2> QED
    BY <1>5, <2>1, <2>2
<1> DEFINE f == [i \in 1..(n - 1) |-> IF i < p THEN l[i] ELSE l[i + 1]]
<1>7. \A i \in 1..(n - 1) :
        /\ i \in 1..n /\ i + 1 \in 1..n
        /\ i < p => f[i] = l[i]
        /\ ~ (i < p) => f[i] = l[i + 1]
  BY <1>2
<1> HIDE DEF f
<1>8. \A i \in 1..(n - 1) : f[i] \in T
  <2> SUFFICES ASSUME NEW i \in 1..(n - 1) PROVE f[i] \in S /\ f[i] # x
    BY DEF T
  <2>1. CASE i < p
    BY <1>6, <1>7, <2>1
  <2>2. CASE ~ (i < p)
    <3>1. i + 1 # p
      BY <2>2
    <3> QED
      BY <1>6, <1>7, <2>2, <3>1
  <2> QED
    BY <2>1, <2>2
<1>9. f \in [1..(n - 1) -> T]
  BY <1>8 DEF f
<1>10. ASSUME NEW y \in T
       PROVE  \E i \in 1..(n - 1) : f[i] = y
  <2>1. PICK i \in 1..n : l[i] = y
    BY <1>2, <1>4 DEF Lists
  <2>2. i # p
    BY <1>4, <1>5, <2>1
  <2>3. CASE i < p
    BY <1>2, <1>7, <2>1, <2>3
  <2>4. CASE p < i
    <3>1. i - 1 \in 1..(n - 1) /\ ~ (i - 1 < p) /\ (i - 1) + 1 = i
      BY <1>2, <2>4
    <3> QED
      BY <1>7, <2>1, <3>1
  <2> QED
    BY <2>2, <2>3, <2>4
<1>11. ASSUME NEW i \in 1..(n - 1), NEW j \in 1..(n - 1), i < j
       PROVE  <<f[i], f[j]>> \in R
  <2>1. \A q, r \in 1..n : q < r => <<l[q], l[r]>> \in R
    BY <1>2 DEF Lists
  <2>2. CASE j < p
    <3>1. i < p /\ i \in 1..n /\ j \in 1..n
      BY <1>11, <1>7, <2>2
    <3> QED
      BY <1>7, <1>11, <2>1, <2>2, <3>1
  <2>3. CASE i < p /\ ~ (j < p)
    <3>1. i < j + 1 /\ i \in 1..n /\ j + 1 \in 1..n
      BY <1>7, <1>11
    <3> QED
      BY <1>7, <2>1, <2>3, <3>1
  <2>4. CASE ~ (i < p)
    <3>1. ~ (j < p) /\ i + 1 < j + 1 /\ i + 1 \in 1..n /\ j + 1 \in 1..n
      BY <1>7, <1>11, <2>4
    <3> QED
      BY <1>7, <2>1, <2>4, <3>1
  <2> QED
    BY <2>2, <2>3, <2>4
<1>12. f = b
  <2>1. Lists(f, n - 1, T, R)
    BY <1>9, <1>10, <1>11 DEF Lists
  <2> QED
    BY <1>1, <1>3, <2>1, ListingIsUnique DEF b
<1> DEFINE s == SubSeq(l, 1, p - 1)
           t == SubSeq(l, p + 1, n)
<1>13. /\ s \in Seq(S) /\ Len(s) = p - 1
       /\ \A i \in 1..(p - 1) : s[i] = l[i]
  <2>1. 1 \in Int /\ p - 1 \in Int /\ \A i \in 1..(p - 1) : l[i] \in S
    BY <1>2, <1>6
  <2>2. /\ s \in Seq(S) /\ Len(s) = IF 1 <= p - 1 THEN p - 1 - 1 + 1 ELSE 0
        /\ \A i \in 1..(p - 1 - 1 + 1) : s[i] = l[1 + i - 1]
    BY <2>1, SubSeqProperties
  <2>3. p - 1 - 1 + 1 = p - 1 /\ \A i \in 1..(p - 1) : 1 + i - 1 = i
    OBVIOUS
  <2> HIDE DEF s
  <2> QED
    BY <2>2, <2>3
<1>14. /\ t \in Seq(S) /\ Len(t) = n - p
       /\ \A i \in 1..(n - p) : t[i] = l[p + i]
  <2>1. p + 1 \in Int /\ n \in Int /\ \A i \in (p + 1)..n : l[i] \in S
    BY <1>2, <1>6
  <2>2. /\ t \in Seq(S) /\ Len(t) = IF p + 1 <= n THEN n - (p + 1) + 1 ELSE 0
        /\ \A i \in 1..(n - (p + 1) + 1) : t[i] = l[(p + 1) + i - 1]
    BY <2>1, SubSeqProperties
  <2>3. n - (p + 1) + 1 = n - p /\ \A i \in 1..(n - p) : (p + 1) + i - 1 = p + i
    BY <1>2
  <2> HIDE DEF t
  <2> QED
    BY <1>2, <2>2, <2>3
<1> HIDE DEF s, t
<1>15. /\ s \o t \in Seq(S) /\ Len(s \o t) = n - 1
       /\ \A i \in 1..(n - 1) : (s \o t)[i] = IF i <= p - 1 THEN s[i] ELSE t[i - (p - 1)]
  <2>1. /\ s \o t \in Seq(S) /\ Len(s \o t) = Len(s) + Len(t)
        /\ \A i \in 1..(Len(s) + Len(t)) :
             (s \o t)[i] = IF i <= Len(s) THEN s[i] ELSE t[i - Len(s)]
    BY <1>13, <1>14, ConcatProperties
  <2>2. Len(s) + Len(t) = n - 1
    BY <1>2, <1>13, <1>14
  <2> QED
    BY <1>13, <2>1, <2>2
<1>16. b = s \o t
  <2>1. b \in Seq(S)
    BY <1>3, <1>4, SeqMonotonic
  <2>2. ASSUME NEW i \in 1..(n - 1)
        PROVE  b[i] = (s \o t)[i]
    <3>1. CASE i < p
      <4>1. i \in 1..(p - 1) /\ i <= p - 1
        BY <3>1
      <4> QED
        BY <1>7, <1>12, <1>13, <1>15, <3>1, <4>1
    <3>2. CASE ~ (i < p)
      <4>1. /\ ~ (i <= p - 1) /\ i - (p - 1) \in 1..(n - p)
            /\ p + (i - (p - 1)) = i + 1
        BY <1>2, <3>2
      <4>2. t[i - (p - 1)] = l[i + 1]
        BY <1>14, <4>1
      <4> QED
        BY <1>7, <1>12, <1>15, <3>2, <4>1, <4>2
    <3> QED
      BY <3>1, <3>2
  <2> QED
    BY <1>3, <1>15, <2>1, <2>2, SeqEqual
<1> QED
  BY <1>5, <1>16 DEF n, l, b, T, s, t

=============================================================================
