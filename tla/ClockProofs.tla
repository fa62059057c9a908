----------------------------- MODULE ClockProofs -----------------------------
(***************************************************************************)
(* Proofs about the two clocks, and about the driver of the benchmarks,    *)
(* which runs on the second.  SystemClock: for any sleeps and durations,   *)
(* any length of a millisecond and any longest timeout; that it keeps the  *)
(* contract of a Clock holds for timers that fire at any time at all.      *)
(* ManualClock: for any sleeps, durations and ways to advance it.  Drive:  *)
(* for any script, step and unit, and for limiters of any rate, window and *)
(* warm-up curve of whole constants.                                       *)
(***************************************************************************)
EXTENDS SystemClock, Drive, ArithmeticProofs

(***************************************************************************)
(* SystemClock with timers that fire whenever they like, and for any       *)
(* reason: its contract needs nothing of them.                             *)
(***************************************************************************)
TimerFiresAnyTime(s) ==
    /\ timer[s] # None
    /\ \E r \in Reads(1) : Check(s, wakeAt[s], r[1])
    /\ UNCHANGED <<wakeAt, asked>>

AnyTimerNext ==
    \/ \E s \in Sleeps :
        \/ SleepNot(s)
        \/ TimedSleep(s)
        \/ TimerFiresAnyTime(s)
        \/ AbortTimer(s)
    \/ Tick

AnyTimerSpec == SystemInit /\ [][AnyTimerNext]_systemVars

-----------------------------------------------------------------------------
\* The longest delay, and the first tick of the millisecond a timer is due in.
Leap == MaxTimeoutMs * Milli

DueTick(s) == timer[s] * Milli

\* What is known of a sleep whose timer stops short of its end: each check so
\* far has brought it a leap forward, and the rest is still to go.
OnTheWay(s) ==
    /\ DueTick(s) < wakeAt[s]
    /\ (wakeAt[s] - DueTick(s)) + checks[s] * Leap < asked[s] + Milli

\* The timer is due in the millisecond of the end or later: it was set by the
\* last check that was not a leap.
AtTheEnd(s) ==
    /\ DueTick(s) + Milli > wakeAt[s]
    /\ (checks[s] - 1) * Leap < asked[s] + Milli

\* That timer was early.  The next one is late enough to be the last.
PastTheEnd(s) ==
    /\ DueTick(s) >= wakeAt[s]
    /\ (checks[s] - 2) * Leap < asked[s] + Milli

Counted(s) ==
    /\ phase[s] = "new" => checks[s] = 0
    /\ phase[s] = "asleep" => OnTheWay(s) \/ AtTheEnd(s) \/ PastTheEnd(s)
    /\ checks[s] > 3 => (checks[s] - 3) * Leap < asked[s] + Milli

ClockInv == SystemTypeOK /\ \A s \in Sleeps : Counted(s)

-----------------------------------------------------------------------------
(***************************************************************************)
(* Arithmetic.                                                             *)
(***************************************************************************)
LEMMA LeapIsForward == Leap \in Nat \ {0}
<1>1. MaxTimeoutMs \in Nat \ {0} /\ Milli \in Nat \ {0}
  BY SystemClockAssumption
<1>2. MaxTimeoutMs * Milli >= Milli /\ MaxTimeoutMs * Milli \in Nat
  BY <1>1, SMTT(30)
<1> QED
  BY <1>1, <1>2 DEF Leap

\* A multiple of the leap more.
LEMMA OneMoreLeap ==
    ASSUME NEW k \in Int
    PROVE  k * Leap \in Int /\ (k + 1) * Leap = k * Leap + Leap
<1> DEFINE leap == Leap
<1>1. leap \in Int
  BY LeapIsForward
<1> HIDE DEF leap
<1>2. k * leap \in Int /\ (k + 1) * leap = k * leap + leap
  BY <1>1, SMTT(30)
<1> QED
  BY <1>2 DEF leap

\* The timers' clock has just begun its millisecond, or is within it.
LEMMA MilliBounds ==
    ASSUME NEW t \in Nat
    PROVE  /\ TimerMillis(t) \in Nat /\ TimerMillis(t) * Milli \in Nat
           /\ TimerMillis(t) * Milli <= t /\ t < TimerMillis(t) * Milli + Milli
<1>1. Milli \in Nat \ {0}
  BY SystemClockAssumption
<1>2. (t \div Milli) \in Nat /\ (t \div Milli) * Milli <= t /\ t < (t \div Milli) * Milli + Milli
  BY <1>1, SMTT(30)
<1>3. (t \div Milli) * Milli \in Nat
  <2> DEFINE q == t \div Milli
  <2>1. q \in Nat
    BY <1>2
  <2> HIDE DEF q
  <2>2. q * Milli \in Nat
    BY <1>1, <2>1, ProductIsNat
  <2> QED
    BY <2>2 DEF q
<1> QED
  BY <1>2, <1>3 DEF TimerMillis

(***************************************************************************)
(* A delay is a millisecond at least, and covers the rest of the sleep     *)
(* unless it is the longest that setTimeout() takes; setTimeout() honours  *)
(* it either way.                                                          *)
(***************************************************************************)
LEMMA DelayCovers ==
    ASSUME NEW rest \in Nat \ {0}, NEW t \in Nat
    PROVE  LET due == TimeoutDue(t, DelayMs(rest))
               begun == TimerMillis(t) * Milli
           IN  /\ due \in Nat /\ due >= TimerMillis(t) + 1
               /\ due * Milli \in Nat
               /\ due * Milli >= begun + rest \/ due * Milli = begun + Leap
<1>1. MaxTimeoutMs \in Nat \ {0} /\ Milli \in Nat \ {0}
  BY SystemClockAssumption
<1> DEFINE ms == InMillis(rest)
           delay == DelayMs(rest)
           first == TimerMillis(t)
<1>2. ms \in Nat \ {0} /\ ms * Milli >= rest
  <2>1. ms = (rest + Milli - 1) \div Milli
    BY DEF InMillis
  <2>2. ms \in Nat /\ ms * Milli <= rest + Milli - 1 /\ rest + Milli - 1 < ms * Milli + Milli
    BY <1>1, <2>1, SMTT(30)
  <2>3. ms # 0
    BY <1>1, <2>2
  <2> QED
    BY <1>1, <2>2, <2>3, SMTT(30)
<1>3. delay \in Nat \ {0} /\ delay <= MaxTimeoutMs /\ (delay = ms \/ delay = MaxTimeoutMs)
  <2> HIDE DEF ms
  <2>1. delay = IF ms <= MaxTimeoutMs THEN ms ELSE MaxTimeoutMs
    BY DEF DelayMs, ms
  <2> HIDE DEF delay
  <2> QED
    BY <1>1, <1>2, <2>1
<1> HIDE DEF ms, delay
<1>4. TimeoutDue(t, delay) = first + delay
  BY <1>3 DEF TimeoutDue
<1>5. first \in Nat /\ first * Milli \in Nat
  BY MilliBounds
<1> HIDE DEF first
<1>6. (first + delay) * Milli = first * Milli + delay * Milli /\ delay * Milli \in Nat
  BY <1>1, <1>3, <1>5, ProductIsNat, SMTT(30)
<1>7. delay * Milli >= rest \/ delay * Milli = Leap
  BY <1>2, <1>3 DEF Leap
<1>8. (first + delay) * Milli >= first * Milli + rest \/ (first + delay) * Milli = first * Milli + Leap
  BY <1>5, <1>6, <1>7
<1>9. first + delay \in Nat /\ first + delay >= first + 1 /\ (first + delay) * Milli \in Nat
  BY <1>3, <1>5, <1>6
<1> QED
  BY <1>4, <1>8, <1>9 DEF delay, first

(***************************************************************************)
(* A check with most of the sleep still to go sets a timer for the         *)
(* millisecond of its end, or brings it a leap forward.                    *)
(***************************************************************************)
LEMMA NextTimer ==
    ASSUME NEW at \in Int, NEW t \in Nat, NEW k \in Int, NEW a \in Int,
           at - t > 0, (at - TimerMillis(t) * Milli) + k * Leap < a + Milli
    PROVE  LET due == TimeoutDue(t, DelayMs(at - t))
           IN  /\ due \in Nat /\ due * Milli \in Nat
               /\ \/ due * Milli < at /\ (at - due * Milli) + (k + 1) * Leap < a + Milli
                  \/ due * Milli + Milli > at /\ k * Leap < a + Milli
<1> DEFINE due == TimeoutDue(t, DelayMs(at - t))
           tick == due * Milli
           begun == TimerMillis(t) * Milli
<1>1. at - t \in Nat \ {0}
  OBVIOUS
<1>2. due \in Nat /\ tick \in Nat /\ (tick >= begun + (at - t) \/ tick = begun + Leap)
  BY <1>1, DelayCovers
<1>3. k * Leap \in Int /\ (k + 1) * Leap = k * Leap + Leap /\ Leap \in Int
  BY OneMoreLeap, LeapIsForward
<1>4. begun \in Nat /\ begun <= t /\ t < begun + Milli /\ Milli \in Nat
  BY MilliBounds, SystemClockAssumption
<1>5. (at - begun) + k * Leap < a + Milli
  OBVIOUS
<1> HIDE DEF due, tick, begun
<1>6. \/ tick < at /\ (at - tick) + (k + 1) * Leap < a + Milli
      \/ tick + Milli > at /\ k * Leap < a + Milli
  <2>1. k * Leap < a + Milli
    BY <1>3, <1>4, <1>5
  <2>2. CASE tick >= begun + (at - t)
    BY <1>2, <1>4, <2>1, <2>2
  <2>3. CASE tick = begun + Leap
    BY <1>2, <1>3, <1>4, <1>5, <2>1, <2>3
  <2> QED
    BY <1>2, <2>2, <2>3
<1> QED
  BY <1>2, <1>6 DEF tick, due

\* A check by a timer that was early sets one for later than the end.
LEMMA LastTimer ==
    ASSUME NEW at \in Int, NEW t \in Nat, NEW d \in Nat,
           at - t > 0, d <= TimerMillis(t), d * Milli + Milli > at
    PROVE  LET due == TimeoutDue(t, DelayMs(at - t))
           IN  due \in Nat /\ due * Milli >= at
<1> DEFINE due == TimeoutDue(t, DelayMs(at - t))
<1>1. at - t \in Nat \ {0}
  OBVIOUS
<1>2. due \in Nat /\ due >= TimerMillis(t) + 1
  BY <1>1, DelayCovers
<1>3. Milli \in Nat /\ TimerMillis(t) \in Nat
  BY SystemClockAssumption, MilliBounds
<1> HIDE DEF due
<1>4. d + 1 \in Nat /\ d + 1 <= due
  BY <1>2, <1>3
<1>5. (d + 1) * Milli <= due * Milli
  BY <1>2, <1>3, <1>4, ProductAscends
<1>6. (d + 1) * Milli = d * Milli + Milli /\ d * Milli \in Nat /\ due * Milli \in Nat
  BY <1>2, <1>3, SMTT(30)
<1> QED
  BY <1>2, <1>3, <1>5, <1>6 DEF due

\* A timer does not fire before the first tick of its millisecond.
LEMMA FiresWhenDue ==
    ASSUME NEW t \in Nat, NEW d \in Nat, d <= TimerMillis(t)
    PROVE  d * Milli \in Nat /\ d * Milli <= TimerMillis(t) * Milli /\ d * Milli <= t
<1>1. Milli \in Nat /\ TimerMillis(t) \in Nat /\ TimerMillis(t) * Milli \in Nat
      /\ TimerMillis(t) * Milli <= t
  BY SystemClockAssumption, MilliBounds
<1>2. d * Milli \in Nat /\ d * Milli <= TimerMillis(t) * Milli
  BY <1>1, ProductIsNat, ProductAscends
<1> QED
  BY <1>1, <1>2

\* The timers' clock does not go back.
LEMMA MillisAscend ==
    ASSUME NEW t \in Nat, NEW u \in Nat, t <= u
    PROVE  TimerMillis(t) <= TimerMillis(u)
<1> DEFINE p == TimerMillis(t)
           q == TimerMillis(u)
<1>1. Milli \in Nat \ {0}
  BY SystemClockAssumption
<1>2. p \in Nat /\ q \in Nat /\ p * Milli <= t /\ u < q * Milli + Milli
      /\ p * Milli \in Nat /\ q * Milli \in Nat
  BY MilliBounds
<1> HIDE DEF p, q
<1> SUFFICES ASSUME q + 1 <= p PROVE FALSE
  BY <1>2 DEF p, q
<1>3. (q + 1) * Milli <= p * Milli
  BY <1>1, <1>2, ProductAscends
<1>4. (q + 1) * Milli = q * Milli + Milli
  BY <1>1, <1>2, SMTT(30)
<1> QED
  BY <1>1, <1>2, <1>3, <1>4

-----------------------------------------------------------------------------
(***************************************************************************)
(* What check() makes of a sleep, and that it leaves the others alone.     *)
(***************************************************************************)
LEMMA Checked ==
    ASSUME SystemTypeOK, NEW s \in Sleeps, NEW at \in Int, NEW t \in 0..MaxTime,
           Check(s, at, t)
    PROVE  /\ now' = t /\ t \in Nat
           /\ phase' \in [Sleeps -> Phases] /\ timer' \in [Sleeps -> Nat \cup {None}]
           /\ checks' \in [Sleeps -> Nat] /\ checks'[s] = checks[s] + 1
           /\ \A u \in Sleeps \ {s} :
                phase'[u] = phase[u] /\ timer'[u] = timer[u] /\ checks'[u] = checks[u]
           /\ \/ /\ at - t <= 0
                 /\ phase' = [phase EXCEPT ![s] = "resolved"]
                 /\ phase'[s] = "resolved" /\ timer'[s] = None
              \/ /\ at - t > 0
                 /\ phase' = [phase EXCEPT ![s] = "asleep"]
                 /\ phase'[s] = "asleep" /\ timer'[s] = TimeoutDue(t, DelayMs(at - t))
                 /\ timer'[s] \in Nat
<1>1. t \in Nat
  BY InstantsAssumption
<1>2. /\ phase \in [Sleeps -> Phases] /\ timer \in [Sleeps -> Nat \cup {None}]
      /\ checks \in [Sleeps -> Nat]
  BY DEF SystemTypeOK
<1>3. now' = t /\ checks' = [checks EXCEPT ![s] = @ + 1]
  BY DEF Check
<1>4. CASE /\ HasPassed(at - t)
           /\ phase' = [phase EXCEPT ![s] = "resolved"]
           /\ timer' = [timer EXCEPT ![s] = None]
  BY <1>1, <1>2, <1>3, <1>4 DEF HasPassed, Phases
<1>5. CASE /\ ~ HasPassed(at - t)
           /\ phase' = [phase EXCEPT ![s] = "asleep"]
           /\ timer' = Rearmed(s, TimeoutDue(t, DelayMs(at - t)))
  <2>1. at - t \in Nat \ {0}
    BY <1>1, <1>5 DEF HasPassed
  <2>2. TimeoutDue(t, DelayMs(at - t)) \in Nat
    BY <1>1, <2>1, DelayCovers
  <2>3. timer' = [timer EXCEPT ![s] = TimeoutDue(t, DelayMs(at - t))]
    BY <1>5 DEF Rearmed
  <2> QED
    BY <1>1, <1>2, <1>3, <1>5, <2>1, <2>2, <2>3 DEF Phases
<1> QED
  BY <1>4, <1>5 DEF Check

(***************************************************************************)
(* A check after which the sleep has a timer exactly if it is asleep.      *)
(***************************************************************************)
LEMMA CheckTypes ==
    ASSUME SystemTypeOK, NEW s \in Sleeps, NEW at \in Int, NEW t \in 0..MaxTime,
           Check(s, at, t), wakeAt' \in [Sleeps -> Int], asked' \in [Sleeps -> Int]
    PROVE  SystemTypeOK'
<1>1. /\ now' = t
      /\ phase' \in [Sleeps -> Phases] /\ timer' \in [Sleeps -> Nat \cup {None}]
      /\ checks' \in [Sleeps -> Nat]
      /\ \A u \in Sleeps \ {s} : phase'[u] = phase[u] /\ timer'[u] = timer[u]
      /\ \/ phase'[s] = "resolved" /\ timer'[s] = None
         \/ phase'[s] = "asleep" /\ timer'[s] \in Nat
  BY Checked
<1>2. ASSUME NEW u \in Sleeps
      PROVE  timer'[u] # None <=> phase'[u] = "asleep"
  BY <1>1, SystemClockAssumption DEF SystemTypeOK
<1> QED
  BY <1>1, <1>2 DEF SystemTypeOK

\* What sleep(n) does, from a reading to the next.
LEMMA SleepFacts ==
    ASSUME SystemTypeOK, NEW s \in Sleeps, TimedSleep(s)
    PROVE  \E n \in Durations, moment \in Nat, t \in 0..MaxTime :
             LET at == moment + n
             IN  /\ n \in Int /\ at \in Int /\ t \in Nat
                 /\ now \in Nat /\ now <= moment /\ moment <= t
                 /\ phase[s] = "new"
                 /\ wakeAt' = [wakeAt EXCEPT ![s] = at] /\ wakeAt'[s] = at
                 /\ asked' = [asked EXCEPT ![s] = n] /\ asked'[s] = n
                 /\ wakeAt' \in [Sleeps -> Int] /\ asked' \in [Sleeps -> Int]
                 /\ \A u \in Sleeps \ {s} : wakeAt'[u] = wakeAt[u] /\ asked'[u] = asked[u]
                 /\ Check(s, at, t)
<1>1. PICK n \in Durations, r \in Reads(2) :
        /\ phase[s] = "new"
        /\ wakeAt' = [wakeAt EXCEPT ![s] = r[1] + n]
        /\ asked' = [asked EXCEPT ![s] = n]
        /\ Check(s, r[1] + n, r[2])
  BY DEF TimedSleep
<1>2. now \in 0..MaxTime /\ now \in Nat
  BY InstantsAssumption DEF SystemTypeOK
<1>3. r[1] \in Nat /\ r[2] \in 0..MaxTime /\ r[2] \in Nat /\ now <= r[1] /\ r[1] <= r[2]
  BY <1>2, TwoReadings
<1> DEFINE moment == r[1]
           t == r[2]
           at == moment + n
<1>4. n \in Int /\ at \in Int
  BY <1>3, ClockAssumption
<1>5. /\ moment \in Nat /\ t \in 0..MaxTime /\ t \in Nat /\ now <= moment /\ moment <= t
      /\ phase[s] = "new"
      /\ wakeAt' = [wakeAt EXCEPT ![s] = at]
      /\ asked' = [asked EXCEPT ![s] = n]
      /\ Check(s, at, t)
  BY <1>1, <1>3
<1> HIDE DEF at
<1>6. /\ wakeAt' \in [Sleeps -> Int] /\ asked' \in [Sleeps -> Int]
      /\ wakeAt'[s] = at /\ asked'[s] = n
      /\ \A u \in Sleeps \ {s} : wakeAt'[u] = wakeAt[u] /\ asked'[u] = asked[u]
  BY <1>4, <1>5 DEF SystemTypeOK
<1>7. /\ n \in Int /\ moment + n \in Int /\ t \in Nat
      /\ now \in Nat /\ now <= moment /\ moment <= t
      /\ phase[s] = "new"
      /\ wakeAt' = [wakeAt EXCEPT ![s] = moment + n] /\ wakeAt'[s] = moment + n
      /\ asked' = [asked EXCEPT ![s] = n] /\ asked'[s] = n
      /\ wakeAt' \in [Sleeps -> Int] /\ asked' \in [Sleeps -> Int]
      /\ \A u \in Sleeps \ {s} : wakeAt'[u] = wakeAt[u] /\ asked'[u] = asked[u]
      /\ Check(s, moment + n, t)
  BY <1>2, <1>4, <1>5, <1>6 DEF at
<1> HIDE DEF moment, t
<1> QED
  BY <1>5, <1>7

LEMMA SystemInitTypes == SystemInit => SystemTypeOK
  BY InstantsAssumption DEF SystemInit, SystemTypeOK, Phases

(***************************************************************************)
(* A sleep has a timer exactly while it is asleep, whenever timers fire.   *)
(***************************************************************************)
LEMMA SystemNextTypes == SystemTypeOK /\ [AnyTimerNext]_systemVars => SystemTypeOK'
<1> SUFFICES ASSUME SystemTypeOK, [AnyTimerNext]_systemVars PROVE SystemTypeOK'
  OBVIOUS
<1>1. ASSUME NEW s \in Sleeps, SleepNot(s) PROVE SystemTypeOK'
  BY <1>1 DEF SleepNot, SystemTypeOK, Phases
<1>2. ASSUME NEW s \in Sleeps, TimedSleep(s) PROVE SystemTypeOK'
  BY <1>2, SleepFacts, CheckTypes
<1>3. ASSUME NEW s \in Sleeps, TimerFiresAnyTime(s) PROVE SystemTypeOK'
  <2>1. PICK r \in Reads(1) : Check(s, wakeAt[s], r[1])
    BY <1>3 DEF TimerFiresAnyTime
  <2>2. r[1] \in 0..MaxTime
    BY FirstReading, InstantsAssumption DEF SystemTypeOK
  <2>3. /\ wakeAt' = wakeAt /\ asked' = asked
        /\ wakeAt[s] \in Int /\ wakeAt' \in [Sleeps -> Int] /\ asked' \in [Sleeps -> Int]
    BY <1>3 DEF TimerFiresAnyTime, SystemTypeOK
  <2> QED
    BY <2>1, <2>2, <2>3, CheckTypes
<1>4. ASSUME NEW s \in Sleeps, AbortTimer(s) PROVE SystemTypeOK'
  BY <1>4 DEF AbortTimer, Cleared, SystemTypeOK, Phases
<1>5. ASSUME Tick PROVE SystemTypeOK'
  <2>1. now' \in 0..MaxTime
    BY <1>5, InstantsAssumption DEF Tick, TimePasses, SystemTypeOK
  <2> QED
    BY <1>5, <2>1 DEF Tick, SystemTypeOK
<1>6. ASSUME UNCHANGED systemVars PROVE SystemTypeOK'
  BY <1>6 DEF SystemTypeOK, systemVars
<1> QED
  BY <1>1, <1>2, <1>3, <1>4, <1>5, <1>6 DEF AnyTimerNext

\* Timers that keep a millisecond clock are timers that fire at some time.
LEMMA TimersFireAtSomeTime == [SystemNext]_systemVars => [AnyTimerNext]_systemVars
  BY DEF SystemNext, AnyTimerNext, Rest, TimerFires, TimerFiresAnyTime

(***************************************************************************)
(* A sleep has a timer for as long as it is asleep and no longer.          *)
(***************************************************************************)
THEOREM TimersAreTidy == SystemSpec => []SystemTypeOK
  BY SystemInitTypes, SystemNextTypes, TimersFireAtSomeTime, PTL DEF SystemSpec

-----------------------------------------------------------------------------
\* A sleep that a step does not touch.
LEMMA UntouchedIsCounted ==
    ASSUME NEW u \in Sleeps, Counted(u),
           phase'[u] = phase[u], wakeAt'[u] = wakeAt[u], timer'[u] = timer[u],
           asked'[u] = asked[u], checks'[u] = checks[u]
    PROVE  Counted(u)'
  BY DEF Counted, OnTheWay, AtTheEnd, PastTheEnd, DueTick, Leap

\* However far it is on its way, a sleep has been checked few times.
LEMMA AsleepIsCounted ==
    ASSUME SystemTypeOK, NEW s \in Sleeps, phase[s] = "asleep", Counted(s)
    PROVE  /\ (checks[s] - 2) * Leap < asked[s] + Milli
           /\ (checks[s] - 3) * Leap < asked[s] + Milli
<1> DEFINE k == checks[s]
           leap == Leap
           limit == asked[s] + Milli
           tick == DueTick(s)
<1>1. k \in Nat /\ limit \in Int /\ wakeAt[s] \in Int /\ tick \in Int
  <2>1. timer[s] \in Nat
    BY SystemClockAssumption DEF SystemTypeOK
  <2>2. timer[s] * Milli \in Nat
    BY <2>1, ProductIsNat, SystemClockAssumption
  <2> QED
    BY <2>2, SystemClockAssumption DEF SystemTypeOK, DueTick
<1>2. leap \in Nat \ {0}
  BY LeapIsForward
<1>3. OnTheWay(s) \/ AtTheEnd(s) \/ PastTheEnd(s)
  BY DEF Counted
<1> HIDE DEF leap, limit, tick
<1>4. /\ k * leap \in Int /\ (k - 1) * leap = k * leap - leap
      /\ (k - 2) * leap = k * leap - 2 * leap /\ (k - 3) * leap = k * leap - 3 * leap
  BY <1>1, <1>2, SMTT(30)
<1>5. (k - 2) * leap < limit
  <2>1. CASE OnTheWay(s)
    <3>1. tick < wakeAt[s] /\ (wakeAt[s] - tick) + k * leap < limit
      BY <2>1 DEF OnTheWay, leap, limit, tick
    <3> QED
      BY <1>1, <1>2, <1>4, <3>1
  <2>2. CASE AtTheEnd(s)
    <3>1. (k - 1) * leap < limit
      BY <2>2 DEF AtTheEnd, leap, limit
    <3> QED
      BY <1>1, <1>2, <1>4, <3>1
  <2>3. CASE PastTheEnd(s)
    BY <2>3 DEF PastTheEnd, leap, limit
  <2> QED
    BY <1>3, <2>1, <2>2, <2>3
<1>6. (k - 3) * leap < limit
  BY <1>1, <1>2, <1>4, <1>5
<1> QED
  BY <1>5, <1>6 DEF leap, limit

-----------------------------------------------------------------------------
(***************************************************************************)
(* The invariant holds initially and every step keeps it.                  *)
(***************************************************************************)
LEMMA ClockInitInv == SystemInit => ClockInv
<1> SUFFICES ASSUME SystemInit PROVE ClockInv
  OBVIOUS
<1>1. ASSUME NEW s \in Sleeps
      PROVE  Counted(s)
  BY DEF SystemInit, Counted
<1> QED
  BY <1>1, SystemInitTypes DEF ClockInv

LEMMA SleepInv == ASSUME ClockInv, NEW s \in Sleeps, TimedSleep(s) PROVE ClockInv'
<1>1. SystemTypeOK /\ \A u \in Sleeps : Counted(u)
  BY DEF ClockInv
<1>2. PICK n \in Durations, moment \in Nat, t \in 0..MaxTime :
        /\ n \in Int /\ moment + n \in Int /\ t \in Nat /\ moment <= t
        /\ phase[s] = "new"
        /\ wakeAt'[s] = moment + n /\ asked'[s] = n
        /\ wakeAt' \in [Sleeps -> Int] /\ asked' \in [Sleeps -> Int]
        /\ \A u \in Sleeps \ {s} : wakeAt'[u] = wakeAt[u] /\ asked'[u] = asked[u]
        /\ Check(s, moment + n, t)
  BY <1>1, SleepFacts
<1> DEFINE at == moment + n
<1>3. at \in Int /\ wakeAt'[s] = at /\ Check(s, at, t) /\ at - moment = n
  BY <1>2
<1> HIDE DEF at
<1>4. /\ checks'[s] = checks[s] + 1
      /\ \A u \in Sleeps \ {s} :
           phase'[u] = phase[u] /\ timer'[u] = timer[u] /\ checks'[u] = checks[u]
      /\ \/ phase'[s] = "resolved"
         \/ /\ at - t > 0 /\ phase'[s] = "asleep"
            /\ timer'[s] = TimeoutDue(t, DelayMs(at - t))
  BY <1>1, <1>2, <1>3, Checked
<1>5. SystemTypeOK'
  BY <1>1, <1>2, <1>3, CheckTypes
<1>6. checks'[s] = 1
  BY <1>1, <1>2, <1>4 DEF Counted
<1>7. Counted(s)'
  <2>1. CASE phase'[s] = "resolved"
    BY <1>6, <2>1 DEF Counted
  <2>2. CASE at - t > 0 /\ phase'[s] = "asleep" /\ timer'[s] = TimeoutDue(t, DelayMs(at - t))
    <3>1. 0 * Leap = 0
      BY LeapIsForward
    <3> DEFINE begun == TimerMillis(t) * Milli
    <3>2. begun \in Nat /\ t < begun + Milli /\ Milli \in Nat
      BY <1>2, MilliBounds, SystemClockAssumption
    <3>3. (at - begun) + 0 * Leap < n + Milli
      <4> HIDE DEF begun
      <4> QED
        BY <1>2, <1>3, <3>1, <3>2
    <3> DEFINE tick == timer'[s] * Milli
    <3>4. \/ tick < at /\ (at - tick) + (0 + 1) * Leap < n + Milli
          \/ tick + Milli > at /\ 0 * Leap < n + Milli
      BY <1>2, <1>3, <2>2, <3>3, NextTimer
    <3>5. 0 + 1 = 1 /\ 1 - 1 = 0
      OBVIOUS
    <3>6. DueTick(s)' = tick
      BY DEF DueTick
    <3> HIDE DEF tick, begun
    <3>7. OnTheWay(s)' \/ AtTheEnd(s)'
      BY <1>2, <1>3, <1>6, <3>4, <3>5, <3>6 DEF OnTheWay, AtTheEnd, Leap
    <3> QED
      BY <1>6, <2>2, <3>7 DEF Counted
  <2> QED
    BY <1>4, <2>1, <2>2
<1>8. ASSUME NEW u \in Sleeps \ {s}
      PROVE  Counted(u)'
  BY <1>1, <1>2, <1>4, UntouchedIsCounted
<1> QED
  BY <1>5, <1>7, <1>8 DEF ClockInv

LEMMA TimerFiresInv == ASSUME ClockInv, NEW s \in Sleeps, TimerFires(s) PROVE ClockInv'
<1>1. PICK r \in Reads(1) : Check(s, wakeAt[s], r[1])
  BY DEF TimerFires
<1>2. /\ timer[s] # None /\ timer[s] <= TimerMillis(now)
      /\ wakeAt' = wakeAt /\ asked' = asked
  BY DEF TimerFires
<1>3. SystemTypeOK /\ \A u \in Sleeps : Counted(u)
  BY DEF ClockInv
<1>4. /\ now \in 0..MaxTime /\ now \in Nat /\ phase[s] = "asleep" /\ timer[s] \in Nat
      /\ wakeAt[s] \in Int /\ asked[s] \in Int /\ checks[s] \in Nat
  BY <1>2, <1>3, InstantsAssumption DEF SystemTypeOK
<1> DEFINE at == wakeAt[s]
           a == asked[s]
           k == checks[s]
           d == timer[s]
           t == r[1]
           tick == d * Milli
           begun == TimerMillis(t) * Milli
<1>5. t \in 0..MaxTime /\ t \in Nat /\ now <= t
  BY <1>4, FirstReading
<1>6. at \in Int /\ a \in Int /\ k \in Nat /\ d \in Nat /\ Milli \in Nat
  BY <1>4, SystemClockAssumption
<1>7. Check(s, at, t)
  BY <1>1
<1> HIDE DEF at, a, k, t
<1>8. d <= TimerMillis(t)
  <2>1. TimerMillis(now) <= TimerMillis(t)
    BY <1>4, <1>5, MillisAscend
  <2>2. TimerMillis(now) \in Nat /\ TimerMillis(t) \in Nat
    BY <1>4, <1>5, MilliBounds
  <2> QED
    BY <1>2, <1>4, <2>1, <2>2
<1>9. tick \in Nat /\ begun \in Nat /\ tick <= begun /\ tick <= t /\ DueTick(s) = tick
  <2>1. begun \in Nat
    BY <1>5, MilliBounds
  <2> QED
    BY <1>5, <1>6, <1>8, <2>1, FiresWhenDue DEF DueTick
<1> HIDE DEF d
<1>10. /\ now' = t
       /\ checks'[s] = checks[s] + 1
       /\ \A u \in Sleeps \ {s} :
            phase'[u] = phase[u] /\ timer'[u] = timer[u] /\ checks'[u] = checks[u]
       /\ \/ at - t <= 0 /\ phase'[s] = "resolved"
          \/ /\ at - t > 0 /\ phase'[s] = "asleep"
             /\ timer'[s] = TimeoutDue(t, DelayMs(at - t))
  BY <1>3, <1>5, <1>6, <1>7, Checked, ZenonT(60)
<1>11. SystemTypeOK'
  BY <1>2, <1>3, <1>5, <1>6, <1>7, CheckTypes DEF SystemTypeOK
<1>12. checks'[s] = k + 1 /\ wakeAt'[s] = at /\ asked'[s] = a
  BY <1>2, <1>10 DEF at, a, k
<1>13. (checks'[s] - 3) * Leap < a + Milli
  <2>1. (k - 2) * Leap < a + Milli
    BY <1>3, <1>4, AsleepIsCounted DEF a, k
  <2>2. checks'[s] - 3 = k - 2
    BY <1>6, <1>12
  <2> QED
    BY <2>1, <2>2
<1>14. ASSUME at - t > 0, timer'[s] = TimeoutDue(t, DelayMs(at - t))
       PROVE  OnTheWay(s)' \/ AtTheEnd(s)' \/ PastTheEnd(s)'
  <2> DEFINE next == timer'[s] * Milli
  <2>1. /\ checks'[s] - 1 = k /\ checks'[s] - 2 = k - 1 /\ Leap' = Leap
        /\ DueTick(s)' = next
    BY <1>6, <1>12 DEF Leap, DueTick
  <2>2. CASE OnTheWay(s)
    <3>1. (at - tick) + k * Leap < a + Milli
      BY <1>9, <2>2 DEF OnTheWay, at, a, k
    <3>2. k * Leap \in Int
      BY <1>6, OneMoreLeap
    <3>3. (at - begun) + k * Leap < a + Milli
      <4> HIDE DEF begun, tick
      <4> QED
        BY <1>6, <1>9, <3>1, <3>2
    <3>4. \/ next < at /\ (at - next) + (k + 1) * Leap < a + Milli
          \/ next + Milli > at /\ k * Leap < a + Milli
      <4>1. k \in Int /\ (at - TimerMillis(t) * Milli) + k * Leap < a + Milli
        BY <1>6, <3>3
      <4> QED
        BY <1>5, <1>6, <1>14, <4>1, NextTimer
    <3> HIDE DEF next
    <3> QED
      BY <1>12, <2>1, <3>4 DEF OnTheWay, AtTheEnd
  <2>3. CASE AtTheEnd(s)
    <3>1. tick + Milli > at /\ (k - 1) * Leap < a + Milli
      BY <1>9, <2>3 DEF AtTheEnd, at, a, k
    <3>2. next >= at
      BY <1>5, <1>6, <1>8, <1>14, <3>1, LastTimer
    <3> HIDE DEF next
    <3> QED
      BY <1>12, <2>1, <3>1, <3>2 DEF PastTheEnd
  <2>4. ~ PastTheEnd(s)
    <3> HIDE DEF tick
    <3> QED
      BY <1>5, <1>6, <1>9, <1>14 DEF PastTheEnd, at
  <2> QED
    BY <1>3, <1>4, <2>2, <2>3, <2>4 DEF Counted
<1>15. Counted(s)'
  BY <1>10, <1>12, <1>13, <1>14 DEF Counted, Leap
<1>16. ASSUME NEW u \in Sleeps \ {s}
       PROVE  Counted(u)'
  BY <1>2, <1>3, <1>10, UntouchedIsCounted
<1> QED
  BY <1>11, <1>15, <1>16 DEF ClockInv

LEMMA ClockNextInv == ClockInv /\ [SystemNext]_systemVars => ClockInv'
<1> SUFFICES ASSUME ClockInv, [SystemNext]_systemVars PROVE ClockInv'
  OBVIOUS
<1>1. SystemTypeOK /\ \A u \in Sleeps : Counted(u)
  BY DEF ClockInv
<1>2. SystemTypeOK'
  BY <1>1, SystemNextTypes, TimersFireAtSomeTime
<1>3. ASSUME NEW s \in Sleeps, SleepNot(s)
      PROVE  ClockInv'
  <2>1. /\ phase[s] = "new" /\ phase' = [phase EXCEPT ![s] = "rejected"]
        /\ UNCHANGED <<now, wakeAt, timer, asked, checks>>
    BY <1>3 DEF SleepNot
  <2>2. Counted(s)'
    BY <1>1, <2>1 DEF Counted, SystemTypeOK
  <2>3. ASSUME NEW u \in Sleeps \ {s}
        PROVE  Counted(u)'
    <3>1. phase'[u] = phase[u]
      BY <1>1, <2>1 DEF SystemTypeOK
    <3> QED
      BY <1>1, <2>1, <3>1, UntouchedIsCounted
  <2> QED
    BY <1>2, <2>2, <2>3 DEF ClockInv
<1>4. ASSUME NEW s \in Sleeps, AbortTimer(s)
      PROVE  ClockInv'
  <2>1. /\ phase[s] = "asleep" /\ phase' = [phase EXCEPT ![s] = "rejected"]
        /\ timer' = [timer EXCEPT ![s] = None]
        /\ UNCHANGED <<now, wakeAt, asked, checks>>
    BY <1>4 DEF AbortTimer, Cleared
  <2>2. Counted(s)'
    <3>1. (checks[s] - 3) * Leap < asked[s] + Milli
      BY <1>1, <2>1, AsleepIsCounted
    <3> QED
      BY <1>1, <2>1, <3>1 DEF Counted, SystemTypeOK, Leap
  <2>3. ASSUME NEW u \in Sleeps \ {s}
        PROVE  Counted(u)'
    <3>1. phase'[u] = phase[u] /\ timer'[u] = timer[u]
      BY <1>1, <2>1 DEF SystemTypeOK
    <3> QED
      BY <1>1, <2>1, <3>1, UntouchedIsCounted
  <2> QED
    BY <1>2, <2>2, <2>3 DEF ClockInv
<1>5. ASSUME Tick \/ UNCHANGED systemVars
      PROVE  ClockInv'
  <2>1. UNCHANGED <<phase, wakeAt, timer, asked, checks>>
    BY <1>5 DEF Tick, systemVars
  <2>2. ASSUME NEW u \in Sleeps
        PROVE  Counted(u)'
    BY <1>1, <2>1, UntouchedIsCounted
  <2> QED
    BY <1>2, <2>2 DEF ClockInv
<1> QED
  BY <1>3, <1>4, <1>5, SleepInv, TimerFiresInv DEF SystemNext, Rest

(***************************************************************************)
(* The inductive invariant.                                                *)
(***************************************************************************)
THEOREM ClockInvariant == SystemSpec => []ClockInv
  BY ClockInitInv, ClockNextInv, PTL DEF SystemSpec

(***************************************************************************)
(* ChecksAreFew: a sleep is checked once for each capped timer and three   *)
(* times more at the most, though each timer may be a millisecond early.   *)
(***************************************************************************)
THEOREM ChecksStayFew == SystemSpec => []ChecksAreFew
<1>1. ClockInv => ChecksAreFew
  BY DEF ClockInv, Counted, ChecksAreFew, Leap
<1> QED
  BY <1>1, ClockInvariant, PTL

-----------------------------------------------------------------------------
(***************************************************************************)
(* The clock is a Clock.                                                   *)
(***************************************************************************)
LEMMA ClockInitImplements == SystemInit => Contract!Init
  BY DEF SystemInit, Contract!Init

LEMMA SleepNotIsCall ==
    ASSUME SystemTypeOK, NEW s \in Sleeps, SleepNot(s) PROVE Contract!Call(s)
<1>1. /\ phase \in [Sleeps -> Phases] /\ now \in 0..MaxTime
  BY DEF SystemTypeOK
<1>2. now' \in now..MaxTime
  BY <1>1, InstantsAssumption DEF SleepNot
<1> QED
  BY <1>1, <1>2 DEF SleepNot, Contract!Call, Contract!TimePasses, Contract!Unasked

LEMMA SleepIsCall ==
    ASSUME SystemTypeOK, NEW s \in Sleeps, TimedSleep(s) PROVE Contract!Call(s)
<1>1. PICK n \in Durations, moment \in Nat, t \in 0..MaxTime :
        /\ n \in Int /\ moment + n \in Int /\ t \in Nat
        /\ now \in Nat /\ now <= moment /\ moment <= t
        /\ phase[s] = "new"
        /\ wakeAt'[s] = moment + n /\ asked'[s] = n
        /\ \A u \in Sleeps \ {s} : wakeAt'[u] = wakeAt[u] /\ asked'[u] = asked[u]
        /\ Check(s, moment + n, t)
  BY SleepFacts
<1> DEFINE at == moment + n
<1>2. at \in Int /\ Check(s, at, t)
  BY <1>1
<1> HIDE DEF at
<1>3. /\ now' = t
      /\ \A u \in Sleeps \ {s} : phase'[u] = phase[u]
      /\ \/ at - t <= 0 /\ phase'[s] = "resolved"
         \/ at - t > 0 /\ phase'[s] = "asleep"
  BY <1>1, <1>2, Checked
<1>4. moment \in now..now' /\ Contract!TimePasses
  BY <1>1, <1>3, InstantsAssumption DEF Contract!TimePasses
<1>5. \A u \in Sleeps \ {s} : Contract!Unasked(u)
  BY <1>1, <1>3 DEF Contract!Unasked
<1>6. \/ n <= 0 /\ phase'[s] = "resolved"
      \/ n > 0 /\ phase'[s] = "asleep"
      \/ n > 0 /\ phase'[s] = "resolved" /\ wakeAt'[s] <= now'
  BY <1>1, <1>3 DEF at
<1> QED
  BY <1>1, <1>4, <1>5, <1>6 DEF Contract!Call

\* A timer that fires wakes its sleep, or it wakes nobody.
LEMMA TimerFiresIsWake ==
    ASSUME SystemTypeOK, NEW s \in Sleeps, TimerFiresAnyTime(s) PROVE Contract!Wake
<1>1. PICK r \in Reads(1) : Check(s, wakeAt[s], r[1])
  BY DEF TimerFiresAnyTime
<1>2. /\ now \in 0..MaxTime /\ phase[s] = "asleep" /\ wakeAt[s] \in Int
      /\ phase \in [Sleeps -> Phases] /\ now \in Nat
  BY InstantsAssumption DEF TimerFiresAnyTime, SystemTypeOK
<1>3. r[1] \in 0..MaxTime /\ r[1] \in Nat /\ now <= r[1]
  BY <1>2, FirstReading
<1>4. /\ now' = r[1]
      /\ \/ wakeAt[s] - r[1] <= 0 /\ phase' = [phase EXCEPT ![s] = "resolved"]
         \/ phase' = [phase EXCEPT ![s] = "asleep"]
  BY <1>1, <1>2, <1>3, Checked
<1>5. now' \in now..MaxTime /\ UNCHANGED <<asked, wakeAt>>
  BY <1>2, <1>3, <1>4 DEF TimerFiresAnyTime
<1>6. CASE wakeAt[s] - r[1] <= 0 /\ phase' = [phase EXCEPT ![s] = "resolved"]
  <2> DEFINE group == {s}
  <2>1. group \in SUBSET {u \in Sleeps : phase[u] = "asleep"}
    BY <1>2
  <2>2. \A u \in group : wakeAt[u] <= now'
    BY <1>2, <1>3, <1>4, <1>6
  <2>3. phase' = [u \in Sleeps |-> IF u \in group THEN "resolved" ELSE phase[u]]
    BY <1>2, <1>6
  <2> QED
    BY <1>5, <2>1, <2>2, <2>3 DEF Contract!Wake, Contract!TimePasses
<1>7. CASE phase' = [phase EXCEPT ![s] = "asleep"]
  <2> DEFINE group == {}
  <2>1. group \in SUBSET {u \in Sleeps : phase[u] = "asleep"}
    OBVIOUS
  <2>2. phase' = [u \in Sleeps |-> IF u \in group THEN "resolved" ELSE phase[u]]
    BY <1>2, <1>7
  <2> QED
    BY <1>5, <2>1, <2>2 DEF Contract!Wake, Contract!TimePasses
<1> QED
  BY <1>4, <1>6, <1>7

LEMMA TickIsWake ==
    ASSUME SystemTypeOK, Tick PROVE Contract!Wake
<1>1. now \in 0..MaxTime /\ phase \in [Sleeps -> Phases]
  BY DEF SystemTypeOK
<1>2. now' \in now..MaxTime /\ UNCHANGED <<asked, wakeAt>> /\ phase' = phase
  BY <1>1, InstantsAssumption DEF Tick, TimePasses
<1> DEFINE group == {}
<1>3. group \in SUBSET {u \in Sleeps : phase[u] = "asleep"}
  OBVIOUS
<1>4. phase' = [u \in Sleeps |-> IF u \in group THEN "resolved" ELSE phase[u]]
  BY <1>1, <1>2
<1> QED
  BY <1>2, <1>3, <1>4 DEF Contract!Wake, Contract!TimePasses

LEMMA ClockStepImplements ==
    SystemTypeOK /\ [AnyTimerNext]_systemVars => [Contract!Next]_(Contract!vars)
<1> SUFFICES ASSUME SystemTypeOK, [AnyTimerNext]_systemVars
             PROVE  Contract!Next \/ UNCHANGED Contract!vars
  OBVIOUS
<1>1. ASSUME NEW s \in Sleeps, AbortTimer(s) PROVE Contract!Cancel(s)
  BY <1>1 DEF AbortTimer, Contract!Cancel
<1>2. CASE UNCHANGED systemVars
  BY <1>2 DEF systemVars, Contract!vars
<1> QED
  BY <1>1, <1>2, SleepNotIsCall, SleepIsCall, TimerFiresIsWake, TickIsWake
     DEF AnyTimerNext, Contract!Next

(***************************************************************************)
(* ImplementsClock, whatever the timers do: no sleep resolves before as    *)
(* much time as it was asked for has passed since it was called, and those *)
(* asked for none resolve at once, even if timers fire at random.          *)
(***************************************************************************)
THEOREM AnyTimersMakeAClock == AnyTimerSpec => ImplementsClock
  BY SystemInitTypes, SystemNextTypes, ClockInitImplements, ClockStepImplements, PTL
     DEF AnyTimerSpec, ImplementsClock, Contract!Spec

(***************************************************************************)
(* ImplementsClock, for the timers of the runtime.                         *)
(***************************************************************************)
THEOREM SystemClockIsClock == SystemSpec => ImplementsClock
<1>1. SystemSpec => AnyTimerSpec
  BY TimersFireAtSomeTime, PTL DEF SystemSpec, AnyTimerSpec
<1> QED
  BY <1>1, AnyTimersMakeAClock, PTL

-----------------------------------------------------------------------------
(***************************************************************************)
(* ManualClock.  Its inductive invariant: nobody in the queue or woken is  *)
(* unknown to started, the queue is in that order, and who has been woken  *)
(* was due.                                                                *)
(***************************************************************************)
QueuedAsStarted ==
    /\ Asleep \subseteq ToSet(started)
    /\ \A p \in Queued : IsBefore(p[1], p[2], started)

WokenWereDue ==
    \A i \in DOMAIN woken : phase[woken[i]] = "resolved" /\ wakeAt[woken[i]] <= now

ManualInv ==
    /\ TypeOK
    /\ QueuedAsStarted
    /\ WokenWereDue
    /\ WokenInOrder

\* A listing holds each element of its set once, in order.
LEMMA ListingIsLine ==
    ASSUME NEW S, NEW R, IsFiniteSet(S), Orders(R, S)
    PROVE  /\ Listed(S, R) \in Seq(S)
           /\ ToSet(Listed(S, R)) = S
           /\ IsInjective(Listed(S, R))
           /\ \A i, j \in DOMAIN Listed(S, R) :
                i < j => <<Listed(S, R)[i], Listed(S, R)[j]>> \in R
<1> DEFINE l == Listed(S, R)
           n == Cardinality(S)
<1>1. n \in Nat /\ l \in [1..n -> S] /\ l \in Seq(S)
  BY ListingIsSeq
<1>2. /\ \A x \in S : \E i \in 1..n : l[i] = x
      /\ \A i, j \in 1..n : i < j => <<l[i], l[j]>> \in R
  BY ListedLists DEF Lists
<1> HIDE DEF l, n
<1>3. DOMAIN l = 1..n
  BY <1>1
<1>4. ToSet(l) = S
  BY <1>1, <1>2, <1>3 DEF ToSet
<1>5. \A i, j \in 1..n : l[i] = l[j] => i = j
  <2> SUFFICES ASSUME NEW i \in 1..n, NEW j \in 1..n, l[i] = l[j], i < j PROVE FALSE
    BY <1>1
  <2> QED
    BY <1>1, <1>2, OrderIsOneWay
<1>6. IsInjective(l)
  BY <1>3, <1>5 DEF IsInjective
<1> QED
  BY <1>1, <1>2, <1>3, <1>4, <1>6 DEF l

\* The queue is a finite set in an order, and so is it by wake time.
LEMMA QueueOrders ==
    ASSUME TypeOK
    PROVE  /\ IsFiniteSet(Asleep)
           /\ Asleep \subseteq Sleeps
           /\ Orders(Queued, Asleep)
           /\ Orders(Sooner, Asleep)
<1> DEFINE n == Len(sleepQueue)
<1>1. n \in Nat /\ sleepQueue \in [1..n -> Sleeps] /\ DOMAIN sleepQueue = 1..n
  BY LenProperties DEF TypeOK
<1> HIDE DEF n
<1>2. Asleep = {sleepQueue[i] : i \in 1..n}
  BY <1>1 DEF Asleep, ToSet
<1>3. IsFiniteSet(Asleep)
  <2>1. IsFiniteSet(1..n)
    BY <1>1, FS_Interval
  <2>2. sleepQueue \in Surjection(1..n, Asleep)
    BY <1>1, <1>2 DEF Surjection
  <2> QED
    BY <2>1, <2>2, FS_Surjection
<1>4. Asleep \subseteq Sleeps
  BY <1>1, <1>2
<1>5. \A i, j \in 1..n : sleepQueue[i] = sleepQueue[j] => i = j
  BY <1>1 DEF TypeOK, IsInjective
<1>6. \A i, j \in 1..n : <<sleepQueue[i], sleepQueue[j]>> \in Queued <=> i < j
  <2> TAKE i, j \in 1..n
  <2>1. sleepQueue[i] \in Asleep /\ sleepQueue[j] \in Asleep
    BY <1>2
  <2> QED
    BY <1>1, <1>5, <2>1 DEF Queued, IsBefore
<1>7. Orders(Queued, Asleep)
  <2>1. \A x \in Asleep : \E i \in 1..n : sleepQueue[i] = x
    BY <1>2
  <2>2. \A x \in Asleep : <<x, x>> \notin Queued
    BY <1>6, <2>1
  <2>3. \A x, y \in Asleep : x = y \/ <<x, y>> \in Queued \/ <<y, x>> \in Queued
    <3> TAKE x, y \in Asleep
    <3>1. PICK i \in 1..n : sleepQueue[i] = x
      BY <2>1
    <3>2. PICK j \in 1..n : sleepQueue[j] = y
      BY <2>1
    <3> QED
      BY <1>6, <3>1, <3>2
  <2>4. \A x, y, z \in Asleep :
          <<x, y>> \in Queued /\ <<y, z>> \in Queued => <<x, z>> \in Queued
    <3> TAKE x, y, z \in Asleep
    <3>1. PICK i \in 1..n : sleepQueue[i] = x
      BY <2>1
    <3>2. PICK j \in 1..n : sleepQueue[j] = y
      BY <2>1
    <3>3. PICK k \in 1..n : sleepQueue[k] = z
      BY <2>1
    <3> QED
      BY <1>6, <3>1, <3>2, <3>3
  <2> QED
    BY <2>2, <2>3, <2>4 DEF Orders
<1>8. Orders(Sooner, Asleep)
  <2>1. \A x \in Asleep : wakeAt[x] \in Int
    BY <1>4 DEF TypeOK
  <2>2. \A x, y \in Asleep : <<x, y>> \in Sooner <=>
          \/ wakeAt[x] < wakeAt[y]
          \/ wakeAt[x] = wakeAt[y] /\ <<x, y>> \in Queued
    BY DEF Sooner
  <2> QED
    BY <1>7, <2>1, <2>2 DEF Orders
<1> QED
  BY <1>3, <1>4, <1>7, <1>8

(***************************************************************************)
(* Whoever leaves the queue, the others keep their places.                 *)
(***************************************************************************)
LEMMA LeavingKeepsOrder ==
    ASSUME TypeOK, QueuedAsStarted, NEW T \in SUBSET Asleep,
           sleepQueue' = Listed(T, Queued), started' = started
    PROVE  /\ sleepQueue' \in Seq(Sleeps)
           /\ IsInjective(sleepQueue')
           /\ Asleep' = T
           /\ QueuedAsStarted'
<1>1. /\ IsFiniteSet(Asleep) /\ Asleep \subseteq Sleeps /\ Orders(Queued, Asleep)
  BY QueueOrders
<1>2. IsFiniteSet(T) /\ Orders(Queued, T)
  BY <1>1, FS_Subset, OrdersSubset
<1>3. /\ sleepQueue' \in Seq(T) /\ ToSet(sleepQueue') = T
      /\ IsInjective(sleepQueue')
      /\ \A i, j \in DOMAIN sleepQueue' :
           i < j => <<sleepQueue'[i], sleepQueue'[j]>> \in Queued
  BY <1>2, ListingIsLine
<1>4. sleepQueue' \in Seq(Sleeps)
  BY <1>1, <1>3, SeqMonotonic
<1>5. Asleep' = T
  BY <1>3 DEF Asleep
<1>6. Queued' \subseteq Queued
  <2> SUFFICES ASSUME NEW p \in Queued' PROVE p \in Queued
    OBVIOUS
  <2>1. p \in T \X T /\ IsBefore(p[1], p[2], sleepQueue')
    BY <1>5 DEF Queued
  <2>2. PICK i \in DOMAIN sleepQueue', j \in DOMAIN sleepQueue' :
          i < j /\ sleepQueue'[i] = p[1] /\ sleepQueue'[j] = p[2]
    BY <2>1 DEF IsBefore
  <2>3. <<p[1], p[2]>> \in Queued
    BY <1>3, <2>2
  <2> QED
    BY <2>1, <2>3
<1>7. QueuedAsStarted'
  BY <1>5, <1>6 DEF QueuedAsStarted
<1> QED
  BY <1>3, <1>4, <1>5, <1>7

(***************************************************************************)
(* advance(): those who are left keep their places, those who are due come *)
(* after all who were, for nobody had been overdue.                        *)
(***************************************************************************)
LEMMA AdvanceInv ==
    ASSUME ManualInv, NEW n \in Nat, AdvanceBy(n)
    PROVE  ManualInv'
<1> DEFINE t == now + n
           ready == {s \in Asleep : Due(s, t)}
           rest == Asleep \ ready
           out == InWakeOrder(ready)
<1>1. TypeOK /\ QueuedAsStarted /\ WokenWereDue /\ WokenInOrder
  BY DEF ManualInv
<1>2. /\ IsFiniteSet(Asleep) /\ Asleep \subseteq Sleeps
      /\ Orders(Queued, Asleep) /\ Orders(Sooner, Asleep)
  BY <1>1, QueueOrders
<1>3. /\ now' = t /\ t <= MaxTime
      /\ sleepQueue' = Listed(rest, Queued)
      /\ phase' = [s \in Sleeps |-> IF s \in ready THEN "resolved" ELSE phase[s]]
      /\ woken' = woken \o out
      /\ asked' = asked /\ wakeAt' = wakeAt /\ started' = started
  BY DEF AdvanceBy
<1>4. ready \in SUBSET Asleep /\ rest \in SUBSET Asleep
  OBVIOUS
<1>5. IsFiniteSet(ready)
  BY <1>2, FS_Subset, <1>4
<1>6. Orders(Sooner, ready)
  BY <1>2, <1>4, OrdersSubset
<1>7. \A s \in ready : s \in Sleeps /\ wakeAt[s] <= t /\ wakeAt[s] > now
  BY <1>1, <1>2 DEF Due, TypeOK, WokenInOrder, NobodyOverdue
<1>8. \A s \in rest : s \in Sleeps /\ ~ (wakeAt[s] <= t)
  BY <1>2 DEF Due
<1>9. now \in 0..MaxTime /\ wakeAt \in [Sleeps -> Nat] /\ t \in 0..MaxTime
  BY <1>1, <1>3 DEF TypeOK
<1> HIDE DEF t, ready, rest
<1>10. /\ sleepQueue' \in Seq(Sleeps) /\ IsInjective(sleepQueue')
       /\ Asleep' = rest /\ QueuedAsStarted'
  BY <1>1, <1>3, <1>4, LeavingKeepsOrder
<1>11. /\ out \in Seq(ready) /\ ToSet(out) = ready
       /\ \A i, j \in DOMAIN out : i < j => <<out[i], out[j]>> \in Sooner
  BY <1>5, <1>6, ListingIsLine DEF InWakeOrder
<1> HIDE DEF out
<1>13. \A s \in Sleeps : phase'[s] = IF s \in ready THEN "resolved" ELSE phase[s]
  BY <1>3
<1>14. out \in Seq(Sleeps) /\ woken \in Seq(Sleeps)
  BY <1>1, <1>2, <1>4, <1>11, SeqMonotonic DEF TypeOK
<1>15. TypeOK'
  <2>1. phase' \in [Sleeps -> Phases]
    BY <1>1, <1>3 DEF TypeOK, Phases
  <2>2. woken' \in Seq(Sleeps)
    BY <1>3, <1>14, ConcatProperties
  <2>3. rest = {s \in Sleeps : phase'[s] = "asleep"}
    <3>1. rest = Asleep \ ready
      BY DEF rest
    <3> QED
      BY <1>1, <1>2, <1>13, <3>1 DEF TypeOK
  <2>4. started' \in Seq(Sleeps) /\ asked' \in [Sleeps -> Int]
    BY <1>1, <1>3 DEF TypeOK
  <2> QED
    BY <1>3, <1>9, <1>10, <2>1, <2>2, <2>3, <2>4 DEF TypeOK
<1> DEFINE a == Len(woken)
           b == Len(out)
<1>18. /\ a \in Nat /\ b \in Nat
       /\ DOMAIN woken = 1..a /\ DOMAIN out = 1..b
       /\ DOMAIN woken' = 1..(a + b)
       /\ \A i \in 1..(a + b) : woken'[i] = IF i <= a THEN woken[i] ELSE out[i - a]
  <2>1. /\ woken' \in Seq(Sleeps) /\ Len(woken') = a + b
        /\ \A i \in 1..(a + b) : woken'[i] = IF i <= a THEN woken[i] ELSE out[i - a]
    BY <1>3, <1>14, ConcatProperties
  <2> QED
    BY <1>14, <2>1, LenProperties
<1>19. \A i \in 1..b : out[i] \in ready
  BY <1>11, <1>18 DEF ToSet
<1> HIDE DEF a, b
<1>20. \A i \in 1..(a + b) :
         \/ i \in 1..a /\ woken'[i] = woken[i]
         \/ i - a \in 1..b /\ ~ (i <= a) /\ woken'[i] = out[i - a]
  BY <1>18
<1>21. WokenWereDue'
  <2> SUFFICES ASSUME NEW i \in DOMAIN woken'
               PROVE  phase'[woken'[i]] = "resolved" /\ wakeAt'[woken'[i]] <= now'
    BY DEF WokenWereDue
  <2>1. CASE i \in 1..a /\ woken'[i] = woken[i]
    <3>1. woken[i] \in Sleeps
      BY <1>14, <1>18, <2>1, ElementOfSeq DEF a
    <3>2. phase[woken[i]] = "resolved" /\ wakeAt[woken[i]] <= now
      BY <1>1, <1>18, <2>1 DEF WokenWereDue
    <3>3. now <= t /\ wakeAt[woken[i]] \in Int
      BY <1>9, <3>1 DEF t
    <3> QED
      BY <1>3, <1>9, <1>13, <2>1, <3>1, <3>2, <3>3
  <2>2. CASE i - a \in 1..b /\ woken'[i] = out[i - a]
    BY <1>3, <1>7, <1>13, <1>19, <2>2
  <2> QED
    BY <1>18, <1>20, <2>1, <2>2
<1>22. WokenInOrder'
  <2>1. NobodyOverdue'
    <3> SUFFICES ASSUME NEW s \in Sleeps, phase'[s] = "asleep" PROVE wakeAt'[s] > now'
      BY DEF NobodyOverdue
    <3>1. s \in rest
      BY <1>10, <1>15 DEF TypeOK
    <3> QED
      BY <1>3, <1>8, <1>9, <3>1
  <2>2. ASSUME NEW i \in 1..(a + b), NEW j \in 1..(a + b), i < j
        PROVE  \/ wakeAt[woken'[i]] < wakeAt[woken'[j]]
               \/ /\ wakeAt[woken'[i]] = wakeAt[woken'[j]]
                  /\ IsBefore(woken'[i], woken'[j], started)
    <3>1. CASE j \in 1..a /\ woken'[j] = woken[j]
      <4>1. i \in 1..a /\ woken'[i] = woken[i]
        BY <1>18, <2>2, <3>1
      <4> QED
        BY <1>1, <1>18, <2>2, <3>1, <4>1 DEF WokenInOrder
    <3>2. CASE j - a \in 1..b /\ woken'[j] = out[j - a] /\ i \in 1..a /\ woken'[i] = woken[i]
      <4>1. wakeAt[woken[i]] <= now
        BY <1>1, <1>18, <3>2 DEF WokenWereDue
      <4>2. out[j - a] \in Sleeps /\ wakeAt[out[j - a]] > now
        BY <1>7, <1>19, <3>2
      <4>3. woken[i] \in Sleeps
        BY <1>14, <1>18, <3>2, ElementOfSeq DEF a
      <4>4. wakeAt[woken[i]] \in Int /\ wakeAt[out[j - a]] \in Int /\ now \in Int
        BY <1>9, <4>2, <4>3
      <4> QED
        BY <3>2, <4>1, <4>2, <4>4
    <3>3. CASE /\ j - a \in 1..b /\ woken'[j] = out[j - a]
               /\ i - a \in 1..b /\ woken'[i] = out[i - a]
      <4> DEFINE u == out[i - a]
                 v == out[j - a]
      <4>1. i - a < j - a
        BY <1>18, <2>2
      <4>2. <<u, v>> \in Sooner
        BY <1>11, <1>18, <3>3, <4>1
      <4> HIDE DEF u, v
      <4>3. \/ wakeAt[u] < wakeAt[v]
            \/ wakeAt[u] = wakeAt[v] /\ <<u, v>> \in Queued
        BY <4>2 DEF Sooner
      <4>4. <<u, v>> \in Queued => IsBefore(u, v, started)
        BY <1>1 DEF QueuedAsStarted
      <4> QED
        BY <3>3, <4>3, <4>4 DEF u, v
    <3> QED
      BY <1>20, <3>1, <3>2, <3>3
  <2>3. DOMAIN woken' = 1..(a + b) /\ wakeAt' = wakeAt /\ started' = started
    BY <1>3, <1>18
  <2> SUFFICES ASSUME NEW i \in DOMAIN woken', NEW j \in DOMAIN woken', i < j
               PROVE  \/ wakeAt'[woken'[i]] < wakeAt'[woken'[j]]
                      \/ /\ wakeAt'[woken'[i]] = wakeAt'[woken'[j]]
                         /\ IsBefore(woken'[i], woken'[j], started')
    BY <2>1 DEF WokenInOrder, IsBefore
  <2> QED
    BY <2>2, <2>3
<1> QED
  BY <1>10, <1>15, <1>21, <1>22 DEF ManualInv

(***************************************************************************)
(* sleep(): a sleeper joins the end of the queue, and of started.          *)
(***************************************************************************)
LEMMA SleepForInv ==
    ASSUME ManualInv, NEW s \in Sleeps, NEW n \in Int, SleepFor(s, n)
    PROVE  ManualInv'
<1>1. TypeOK /\ QueuedAsStarted /\ WokenWereDue /\ WokenInOrder
  BY DEF ManualInv
<1>2. /\ now \in 0..MaxTime /\ now' = now /\ woken' = woken
      /\ sleepQueue \in Seq(Sleeps) /\ started \in Seq(Sleeps) /\ woken \in Seq(Sleeps)
      /\ phase \in [Sleeps -> Phases] /\ wakeAt \in [Sleeps -> Nat]
      /\ phase[s] = "new" /\ asked' \in [Sleeps -> Int]
      /\ Asleep = {u \in Sleeps : phase[u] = "asleep"}
  BY <1>1 DEF TypeOK, SleepFor
<1>3. \A i \in DOMAIN woken : woken[i] \in Sleeps \ {s}
  <2>1. \A i \in DOMAIN woken : woken[i] \in Sleeps
    BY <1>2, LenProperties
  <2>2. \A i \in DOMAIN woken : phase[woken[i]] = "resolved"
    BY <1>1 DEF WokenWereDue
  <2> QED
    BY <1>2, <2>1, <2>2
<1>4. CASE n <= 0
  <2>1. /\ phase' = [phase EXCEPT ![s] = "resolved"]
        /\ wakeAt' = [wakeAt EXCEPT ![s] = now]
        /\ sleepQueue' = sleepQueue /\ started' = started
    BY <1>4 DEF SleepFor
  <2>2. /\ phase' \in [Sleeps -> Phases] /\ wakeAt' \in [Sleeps -> Nat]
        /\ phase'[s] = "resolved"
        /\ \A u \in Sleeps \ {s} : phase'[u] = phase[u] /\ wakeAt'[u] = wakeAt[u]
    BY <1>2, <2>1 DEF Phases
  <2>3. Asleep' = Asleep /\ Queued' = Queued
    BY <2>1 DEF Asleep, Queued, IsBefore
  <2>4. TypeOK'
    BY <1>1, <1>2, <2>1, <2>2, <2>3 DEF TypeOK
  <2>5. QueuedAsStarted'
    BY <1>1, <2>1, <2>3 DEF QueuedAsStarted
  <2>6. WokenWereDue'
    BY <1>1, <1>2, <1>3, <2>2 DEF WokenWereDue
  <2>7. WokenInOrder'
    <3>1. NobodyOverdue'
      BY <1>1, <1>2, <2>2 DEF WokenInOrder, NobodyOverdue
    <3> SUFFICES ASSUME NEW i \in DOMAIN woken', NEW j \in DOMAIN woken', i < j
                 PROVE  \/ wakeAt'[woken'[i]] < wakeAt'[woken'[j]]
                        \/ /\ wakeAt'[woken'[i]] = wakeAt'[woken'[j]]
                           /\ IsBefore(woken'[i], woken'[j], started')
      BY <3>1 DEF WokenInOrder, IsBefore
    <3> QED
      BY <1>1, <1>2, <1>3, <2>1, <2>2 DEF WokenInOrder
  <2> QED
    BY <2>4, <2>5, <2>6, <2>7 DEF ManualInv
<1>5. CASE n > 0
  <2>1. /\ phase' = [phase EXCEPT ![s] = "asleep"]
        /\ wakeAt' = [wakeAt EXCEPT ![s] = now + n]
        /\ sleepQueue' = Append(sleepQueue, s)
        /\ started' = Append(started, s)
    BY <1>5 DEF SleepFor, WakeAt
  <2>2. /\ phase' \in [Sleeps -> Phases] /\ wakeAt' \in [Sleeps -> Nat]
        /\ phase'[s] = "asleep" /\ wakeAt'[s] = now + n
        /\ \A u \in Sleeps \ {s} : phase'[u] = phase[u] /\ wakeAt'[u] = wakeAt[u]
    <3>1. now + n \in Nat
      BY <1>2, <1>5
    <3> QED
      BY <1>2, <2>1, <3>1 DEF Phases
  <2> DEFINE a == Len(sleepQueue)
             b == Len(started)
  <2>3. /\ a \in Nat /\ DOMAIN sleepQueue = 1..a /\ DOMAIN sleepQueue' = 1..(a + 1)
        /\ sleepQueue' \in Seq(Sleeps)
        /\ sleepQueue'[a + 1] = s /\ \A i \in 1..a : sleepQueue'[i] = sleepQueue[i]
    BY <1>2, <2>1, AppendProperties, LenProperties
  <2>4. /\ b \in Nat /\ DOMAIN started = 1..b /\ DOMAIN started' = 1..(b + 1)
        /\ started' \in Seq(Sleeps)
        /\ started'[b + 1] = s /\ \A i \in 1..b : started'[i] = started[i]
    BY <1>2, <2>1, AppendProperties, LenProperties
  <2> HIDE DEF a, b
  <2>5. Asleep' = Asleep \cup {s} /\ s \notin Asleep
    <3>1. \A i \in 1..(a + 1) : i \in 1..a \/ i = a + 1
      BY <2>3
    <3>2. \A i \in 1..a : i \in 1..(a + 1)
      BY <2>3
    <3>3. a + 1 \in 1..(a + 1)
      BY <2>3
    <3>4. Asleep = {sleepQueue[i] : i \in 1..a}
      BY <2>3 DEF Asleep, ToSet
    <3>5. Asleep' = {sleepQueue'[i] : i \in 1..(a + 1)}
      BY <2>3 DEF Asleep, ToSet
    <3>6. Asleep' \subseteq Asleep \cup {s}
      BY <2>3, <3>1, <3>4, <3>5
    <3>7. Asleep \cup {s} \subseteq Asleep'
      BY <2>3, <3>2, <3>3, <3>4, <3>5
    <3> QED
      BY <1>2, <3>6, <3>7
  <2>6. \A u, v \in Sleeps : IsBefore(u, v, started) => IsBefore(u, v, started')
    <3>1. \A i \in 1..b : i \in 1..(b + 1)
      BY <2>4
    <3> QED
      BY <2>4, <3>1 DEF IsBefore
  <2>7. \A u \in ToSet(started) : IsBefore(u, s, started') /\ u \in ToSet(started')
    <3> TAKE u \in ToSet(started)
    <3>1. PICK i \in 1..b : started[i] = u
      BY <2>4 DEF ToSet
    <3>2. i \in 1..(b + 1) /\ b + 1 \in 1..(b + 1) /\ i < b + 1
      BY <2>4
    <3> QED
      BY <2>4, <3>1, <3>2 DEF IsBefore, ToSet
  <2>8. s \in ToSet(started')
    <3>1. b + 1 \in DOMAIN started'
      BY <2>4
    <3> QED
      BY <2>4, <3>1 DEF ToSet
  <2>9. TypeOK'
    <3>1. IsInjective(sleepQueue')
      <4>1. \A i, j \in 1..a : sleepQueue[i] = sleepQueue[j] => i = j
        BY <1>1, <2>3 DEF TypeOK, IsInjective
      <4>2. \A i \in 1..a : sleepQueue[i] # s
        BY <2>3, <2>5 DEF Asleep, ToSet
      <4>3. \A i \in 1..(a + 1) : i \in 1..a \/ i = a + 1
        BY <2>3
      <4>4. \A i, j \in 1..(a + 1) : sleepQueue'[i] = sleepQueue'[j] => i = j
        BY <2>3, <4>1, <4>2, <4>3
      <4> QED
        BY <2>3, <4>4 DEF IsInjective
    <3>2. Asleep' = {u \in Sleeps : phase'[u] = "asleep"}
      BY <1>2, <2>2, <2>5
    <3> QED
      BY <1>2, <2>2, <2>3, <2>4, <3>1, <3>2 DEF TypeOK
  <2>10. QueuedAsStarted'
    <3>1. Asleep' \subseteq ToSet(started')
      BY <1>1, <2>5, <2>7, <2>8 DEF QueuedAsStarted
    <3>2. ASSUME NEW p \in Queued'
          PROVE  IsBefore(p[1], p[2], started')
      <4>1. p \in Asleep' \X Asleep' /\ IsBefore(p[1], p[2], sleepQueue')
        BY DEF Queued
      <4>2. PICK i \in 1..(a + 1), j \in 1..(a + 1) :
              i < j /\ sleepQueue'[i] = p[1] /\ sleepQueue'[j] = p[2]
        BY <2>3, <4>1 DEF IsBefore
      <4>3. i \in 1..a /\ p[1] = sleepQueue[i] /\ p[1] \in Asleep
        <5>1. i \in 1..a
          BY <2>3, <4>2
        <5> QED
          BY <2>3, <4>2, <5>1 DEF Asleep, ToSet
      <4>4. CASE j = a + 1
        <5>1. p[2] = s
          BY <2>3, <4>2, <4>4
        <5> QED
          BY <1>1, <2>7, <4>3, <5>1 DEF QueuedAsStarted
      <4>5. CASE j \in 1..a
        <5>1. p[2] = sleepQueue[j] /\ p[2] \in Asleep
          BY <2>3, <4>2, <4>5 DEF Asleep, ToSet
        <5>2. IsBefore(p[1], p[2], sleepQueue)
          BY <2>3, <4>2, <4>3, <4>5, <5>1 DEF IsBefore
        <5>3. p \in Queued
          BY <4>1, <4>3, <5>1, <5>2 DEF Queued
        <5> QED
          BY <1>1, <1>2, <2>6, <4>3, <5>1, <5>3 DEF QueuedAsStarted
      <4> QED
        BY <2>3, <4>4, <4>5
    <3>3. (\A p \in Queued : IsBefore(p[1], p[2], started))'
      BY <3>2 DEF IsBefore
    <3> QED
      BY <3>1, <3>3 DEF QueuedAsStarted
  <2>11. WokenWereDue'
    BY <1>1, <1>2, <1>3, <2>2 DEF WokenWereDue
  <2>12. WokenInOrder'
    <3>1. NobodyOverdue'
      <4> SUFFICES ASSUME NEW u \in Sleeps, phase'[u] = "asleep" PROVE wakeAt'[u] > now'
        BY DEF NobodyOverdue
      <4>1. CASE u = s
        BY <1>2, <1>5, <2>2, <4>1
      <4>2. CASE u # s
        BY <1>1, <1>2, <2>2, <4>2 DEF WokenInOrder, NobodyOverdue
      <4> QED
        BY <4>1, <4>2
    <3> SUFFICES ASSUME NEW i \in DOMAIN woken', NEW j \in DOMAIN woken', i < j
                 PROVE  \/ wakeAt'[woken'[i]] < wakeAt'[woken'[j]]
                        \/ /\ wakeAt'[woken'[i]] = wakeAt'[woken'[j]]
                           /\ IsBefore(woken'[i], woken'[j], started')
      BY <3>1 DEF WokenInOrder, IsBefore
    <3>2. woken[i] \in Sleeps \ {s} /\ woken[j] \in Sleeps \ {s}
      BY <1>2, <1>3
    <3>3. \/ wakeAt[woken[i]] < wakeAt[woken[j]]
          \/ /\ wakeAt[woken[i]] = wakeAt[woken[j]]
             /\ IsBefore(woken[i], woken[j], started)
      BY <1>1, <1>2 DEF WokenInOrder
    <3> QED
      BY <1>2, <2>2, <2>6, <3>2, <3>3
  <2> QED
    BY <2>9, <2>10, <2>11, <2>12 DEF ManualInv
<1> QED
  BY <1>4, <1>5

\* A call is rejected before it ever queues.
TurnedAway(s) ==
    /\ phase[s] = "new"
    /\ phase' = [phase EXCEPT ![s] = "rejected"]
    /\ UNCHANGED <<now, sleepQueue, asked, wakeAt, started, woken>>

(***************************************************************************)
(* An abort takes a sleeper out and touches nobody else.                   *)
(***************************************************************************)
LEMMA AbortInv ==
    ASSUME ManualInv, NEW s \in Sleeps, Abort(s) \/ TurnedAway(s)
    PROVE  ManualInv'
<1>1. TypeOK /\ QueuedAsStarted /\ WokenWereDue /\ WokenInOrder
  BY DEF ManualInv
<1>2. /\ now' = now /\ wakeAt' = wakeAt /\ started' = started /\ woken' = woken
      /\ asked' = asked /\ phase[s] \in {"new", "asleep"}
      /\ phase' = [phase EXCEPT ![s] = "rejected"]
      /\ phase \in [Sleeps -> Phases] /\ woken \in Seq(Sleeps)
      /\ Asleep = {u \in Sleeps : phase[u] = "asleep"}
  BY <1>1 DEF Abort, TurnedAway, TypeOK
<1>3. phase' \in [Sleeps -> Phases] /\ phase'[s] = "rejected"
      /\ \A u \in Sleeps \ {s} : phase'[u] = phase[u]
  BY <1>2 DEF Phases
<1>4. /\ sleepQueue' \in Seq(Sleeps) /\ IsInjective(sleepQueue')
      /\ Asleep' = Asleep \ {s} /\ QueuedAsStarted'
  <2>1. CASE Abort(s)
    <3>1. sleepQueue' = Listed(Asleep \ {s}, Queued) /\ Asleep \ {s} \in SUBSET Asleep
      BY <2>1 DEF Abort, Dropped
    <3> HIDE DEF Asleep
    <3> QED
      BY <1>1, <1>2, <3>1, LeavingKeepsOrder
  <2>2. CASE TurnedAway(s)
    <3>1. sleepQueue' = sleepQueue /\ s \notin Asleep
      BY <1>2, <2>2 DEF TurnedAway
    <3>2. Asleep' = Asleep /\ Queued' = Queued
      BY <3>1 DEF Asleep, Queued, IsBefore
    <3>3. QueuedAsStarted'
      BY <1>1, <1>2, <3>2 DEF QueuedAsStarted
    <3> QED
      BY <1>1, <3>1, <3>2, <3>3 DEF TypeOK
  <2> QED
    BY <2>1, <2>2
<1>5. TypeOK'
  BY <1>1, <1>2, <1>3, <1>4 DEF TypeOK
<1>6. WokenWereDue'
  <2>1. \A i \in DOMAIN woken : woken[i] \in Sleeps /\ phase[woken[i]] = "resolved"
    BY <1>1, <1>2, LenProperties DEF WokenWereDue
  <2> QED
    BY <1>1, <1>2, <1>3, <2>1 DEF WokenWereDue
<1>7. WokenInOrder'
  <2>1. NobodyOverdue'
    BY <1>1, <1>2, <1>3 DEF WokenInOrder, NobodyOverdue
  <2> QED
    BY <1>1, <1>2, <2>1 DEF WokenInOrder, IsBefore
<1> QED
  BY <1>4, <1>5, <1>6, <1>7 DEF ManualInv

LEMMA ManualInitInv == Init => ManualInv
<1> SUFFICES ASSUME Init PROVE ManualInv
  OBVIOUS
<1>1. /\ now = 0 /\ sleepQueue = <<>> /\ started = <<>> /\ woken = <<>>
      /\ phase = [s \in Sleeps |-> "new"] /\ wakeAt = [s \in Sleeps |-> 0]
      /\ asked = [s \in Sleeps |-> 0]
  BY DEF Init
<1>2. DOMAIN <<>> = {}
  OBVIOUS
<1>3. Asleep = {} /\ Queued = {}
  BY <1>1, <1>2 DEF Asleep, ToSet, Queued
<1>4. TypeOK
  <2>1. sleepQueue \in Seq(Sleeps) /\ IsInjective(sleepQueue)
    BY <1>1, <1>2, EmptySeq DEF IsInjective
  <2> QED
    BY <1>1, <1>3, <2>1, InstantsAssumption DEF TypeOK, Phases
<1>5. QueuedAsStarted /\ WokenWereDue /\ WokenInOrder
  BY <1>1, <1>2, <1>3 DEF QueuedAsStarted, WokenWereDue, WokenInOrder, NobodyOverdue
<1> QED
  BY <1>4, <1>5 DEF ManualInv

LEMMA ManualNextInv == ManualInv /\ [Next]_vars => ManualInv'
<1> SUFFICES ASSUME ManualInv, [Next]_vars PROVE ManualInv'
  OBVIOUS
<1>1. CASE Advance
  <2>1. PICK n \in Steps : n >= 0 /\ AdvanceBy(n)
    BY <1>1 DEF Advance
  <2>2. n \in Nat
    BY <2>1, ManualClockAssumption
  <2> QED
    BY <2>1, <2>2, AdvanceInv
<1>2. ASSUME NEW s \in Sleeps, SleepAborted(s) \/ Abort(s)
      PROVE  ManualInv'
  BY <1>2, AbortInv DEF SleepAborted, TurnedAway
<1>3. ASSUME NEW s \in Sleeps, Sleep(s)
      PROVE  ManualInv'
  <2>1. PICK n \in Durations : SleepFor(s, n)
    BY <1>3 DEF Sleep
  <2>2. n \in Int
    BY <2>1, ClockAssumption
  <2> QED
    BY <2>1, <2>2, SleepForInv
<1>4. CASE UNCHANGED vars
  <2>1. /\ now' = now /\ sleepQueue' = sleepQueue /\ phase' = phase
        /\ asked' = asked /\ wakeAt' = wakeAt /\ started' = started /\ woken' = woken
    BY <1>4 DEF vars
  <2>2. Asleep' = Asleep /\ Queued' = Queued
    BY <2>1 DEF Asleep, Queued, IsBefore
  <2>3. TypeOK'
    BY <2>1, <2>2 DEF ManualInv, TypeOK
  <2>4. QueuedAsStarted'
    BY <2>1, <2>2 DEF ManualInv, QueuedAsStarted
  <2>5. WokenWereDue'
    BY <2>1 DEF ManualInv, WokenWereDue
  <2>6. WokenInOrder'
    BY <2>1 DEF ManualInv, WokenInOrder, NobodyOverdue, IsBefore
  <2> QED
    BY <2>3, <2>4, <2>5, <2>6 DEF ManualInv
<1> QED
  BY <1>1, <1>2, <1>3, <1>4 DEF Next

(***************************************************************************)
(* ManualInv holds of every behaviour, for any sleeps, durations and ways  *)
(* to advance.                                                             *)
(***************************************************************************)
THEOREM ManualInvariant == Spec => []ManualInv
  BY ManualInitInv, ManualNextInv, PTL DEF Spec

(***************************************************************************)
(* The queue of sleepers holds exactly those asleep, each once: an abort   *)
(* leaves nothing behind.                                                  *)
(***************************************************************************)
THEOREM SleepersAreTidy == Spec => []TypeOK
<1>1. ManualInv => TypeOK
  BY DEF ManualInv
<1> QED
  BY <1>1, ManualInvariant, PTL

(***************************************************************************)
(* Whatever is advanced, started and aborted, all that is ever woken is    *)
(* woken in the order of the wake times, ties in the order they started.   *)
(***************************************************************************)
THEOREM WakesInOrder == Spec => []WokenInOrder
<1>1. ManualInv => WokenInOrder
  BY DEF ManualInv
<1> QED
  BY <1>1, ManualInvariant, PTL

\* An advance is a Wake of all it made due.
LEMMA ManualStepImplements ==
    ManualInv /\ [Next]_vars => [Contract!Next]_(Contract!vars)
<1> SUFFICES ASSUME ManualInv, [Next]_vars PROVE Contract!Next \/ UNCHANGED Contract!vars
  OBVIOUS
<1>1. /\ now \in 0..MaxTime /\ phase \in [Sleeps -> Phases] /\ wakeAt \in [Sleeps -> Nat]
      /\ Asleep = {s \in Sleeps : phase[s] = "asleep"}
  BY DEF ManualInv, TypeOK
<1>2. CASE Advance
  <2>1. PICK n \in Steps : n >= 0 /\ AdvanceBy(n)
    BY <1>2 DEF Advance
  <2>2. n \in Nat
    BY <2>1, ManualClockAssumption
  <2> DEFINE group == {s \in Asleep : Due(s, now + n)}
  <2>3. /\ now + n <= MaxTime /\ now' = now + n /\ UNCHANGED <<asked, wakeAt>>
        /\ phase' = [s \in Sleeps |-> IF s \in group THEN "resolved" ELSE phase[s]]
    BY <2>1 DEF AdvanceBy
  <2>4. Contract!TimePasses
    BY <1>1, <2>2, <2>3 DEF Contract!TimePasses
  <2>5. group \in SUBSET {s \in Sleeps : phase[s] = "asleep"}
    BY <1>1
  <2>6. \A s \in group : wakeAt[s] <= now'
    BY <2>3 DEF Due
  <2> HIDE DEF group
  <2>7. Contract!Wake
    BY <2>3, <2>4, <2>5, <2>6 DEF Contract!Wake
  <2> QED
    BY <2>7 DEF Contract!Next
<1>3. ASSUME NEW s \in Sleeps, SleepAborted(s)
      PROVE  Contract!Next
  <2>1. Contract!Call(s)
    BY <1>1, <1>3 DEF SleepAborted, Contract!Call, Contract!TimePasses, Contract!Unasked
  <2> QED
    BY <2>1 DEF Contract!Next
<1>4. ASSUME NEW s \in Sleeps, Abort(s)
      PROVE  Contract!Next
  <2>1. Contract!Cancel(s)
    BY <1>4 DEF Abort, Contract!Cancel
  <2> QED
    BY <2>1 DEF Contract!Next
<1>5. ASSUME NEW s \in Sleeps, Sleep(s)
      PROVE  Contract!Next
  <2>1. PICK n \in Durations : SleepFor(s, n)
    BY <1>5 DEF Sleep
  <2>2. n \in Int /\ now \in Nat /\ now' = now /\ phase[s] = "new"
        /\ asked' = [asked EXCEPT ![s] = n] /\ asked \in [Sleeps -> Int]
    BY <1>1, <2>1, ClockAssumption DEF SleepFor, ManualInv, TypeOK
  <2>3. Contract!TimePasses /\ now \in now..now'
    BY <1>1, <2>2 DEF Contract!TimePasses
  <2>4. \/ /\ n <= 0
           /\ phase' = [phase EXCEPT ![s] = "resolved"]
           /\ wakeAt' = [wakeAt EXCEPT ![s] = now]
        \/ /\ n > 0
           /\ phase' = [phase EXCEPT ![s] = "asleep"]
           /\ wakeAt' = [wakeAt EXCEPT ![s] = now + n]
    BY <2>1 DEF SleepFor, WakeAt
  <2>5. asked'[s] = n
    BY <2>2
  <2>6. \A u \in Sleeps \ {s} : Contract!Unasked(u)
    BY <1>1, <2>2, <2>4 DEF Contract!Unasked
  <2>7. \/ n <= 0 /\ phase'[s] = "resolved"
        \/ n > 0 /\ phase'[s] = "asleep" /\ wakeAt'[s] = now + n
    BY <1>1, <2>4
  <2>8. Contract!Call(s)
    BY <2>2, <2>3, <2>5, <2>6, <2>7 DEF Contract!Call
  <2> QED
    BY <2>8 DEF Contract!Next
<1>6. CASE UNCHANGED vars
  BY <1>6 DEF vars, Contract!vars
<1> QED
  BY <1>2, <1>3, <1>4, <1>5, <1>6 DEF Next

(***************************************************************************)
(* The test clock is a Clock: no sleep resolves early, none is woken after *)
(* an abort, and time never runs back.                                     *)
(***************************************************************************)
THEOREM ManualClockIsClock == Spec => ImplementsClock
<1>1. Init => Contract!Init
  BY DEF Init, Contract!Init
<1> QED
  BY <1>1, ManualStepImplements, ManualInvariant, PTL
     DEF Spec, ImplementsClock, Contract!Spec

-----------------------------------------------------------------------------
(***************************************************************************)
(* The driver's limiters, one purchase at a time.                          *)
(***************************************************************************)
Spaced == {"fixedRate", "pacer", "warmup", "composed"}

StateOK(k, s) ==
    /\ k = "tokenBucket" => s.tokens \in Int /\ s.last \in Nat
    /\ k = "fixedWindow" => s \in [window : Int, used : Nat]
    /\ k \in Spaced => s.nextFree \in Nat
    /\ k \in {"warmup", "composed"} => s.stored \in 0..FullPot(K)

LEMMA SharedCurve ==
    /\ IsCurve(K) /\ FullPot(K) \in Nat
    /\ K.stable = Interval /\ Interval \in Nat \ {0}
<1>1. WholeOptions(Options)
  BY BaselinesAssumption
<1>2. IsCurve(K) /\ FullPot(K) = Options.warmup /\ Options.warmup \in Nat
  BY <1>1, DerivedIsCurve DEF K
<1>3. K.stable \in Nat \ {0}
  BY <1>2 DEF IsCurve
<1> QED
  BY <1>2, <1>3 DEF Interval

(***************************************************************************)
(* The evenly paced limiters and the warm-up ones sell one stretch after   *)
(* another, each at least an interval for a permit.                        *)
(***************************************************************************)
LEMMA SpacedAnswers ==
    ASSUME NEW k \in Spaced, NEW s, StateOK(k, s), NEW n \in Nat \ {0}, NEW t \in Nat,
           NEW a, a = AcquireFrom(k, s, n, t)
    PROVE  /\ StateOK(k, a.state) /\ a.wait \in Nat /\ n * Interval \in Nat
           /\ s.nextFree <= a.state.nextFree
           /\ a.ok => /\ s.nextFree <= t + a.wait
                      /\ t + a.wait + n * Interval <= a.state.nextFree
<1> DEFINE m == n * Interval
<1>1. s.nextFree \in Nat
  BY DEF StateOK
<1>2. m \in Nat
  BY SharedCurve, ProductIsNat
<1> HIDE DEF m
<1>3. CASE k \in {"fixedRate", "pacer"}
  <2> DEFINE grant1 == Most(s.nextFree, t)
  <2>1. a = Granted([nextFree |-> grant1 + m], grant1 - t)
    BY <1>3 DEF AcquireFrom, FixedRate, m
  <2>2. a.ok /\ a.wait = grant1 - t /\ a.state.nextFree = grant1 + m
    BY <2>1 DEF Granted
  <2>3. grant1 \in Nat /\ grant1 >= t /\ grant1 >= s.nextFree
    BY <1>1 DEF Most
  <2> HIDE DEF grant1
  <2>4. /\ a.wait \in Nat /\ a.state.nextFree \in Nat
        /\ s.nextFree <= t + a.wait /\ t + a.wait + m <= a.state.nextFree
        /\ s.nextFree <= a.state.nextFree
    BY <1>1, <1>2, <2>2, <2>3
  <2>5. StateOK(k, a.state)
    BY <1>3, <2>4 DEF StateOK
  <2> QED
    BY <1>2, <2>4, <2>5 DEF m
<1>4. ASSUME k \in {"warmup", "composed"}, a = Warmup(s, n, t)
      PROVE  /\ StateOK(k, a.state) /\ a.wait \in Nat
             /\ s.nextFree <= a.state.nextFree
             /\ s.nextFree <= t + a.wait
             /\ t + a.wait + m <= a.state.nextFree
  <2> DEFINE r == Resync(K, s, t)
             after == Reserve(K, s, n, t)
  <2>1. a.state = after /\ a.wait = GrantTime(K, s, t) - t
    BY <1>4 DEF Warmup, Granted
  <2>2. s.stored \in 0..FullPot(K)
    BY <1>4 DEF StateOK
  <2>3. /\ r.nextFree \in Nat /\ r.nextFree = GrantTime(K, s, t)
        /\ t <= r.nextFree /\ s.nextFree <= r.nextFree
    BY <1>1, <2>2, SharedCurve, ResyncFills
  <2>4. /\ after.stored \in 0..FullPot(K) /\ after.nextFree \in Nat
        /\ r.nextFree + n * K.stable <= after.nextFree
    <3>1. n \in Nat
      OBVIOUS
    <3> QED
      BY <1>1, <2>2, <3>1, SharedCurve, ReservationSells
  <2> HIDE DEF r, after
  <2>5. r.nextFree + m <= a.state.nextFree /\ t + a.wait = r.nextFree
    BY <2>1, <2>3, <2>4, SharedCurve DEF m
  <2>6. StateOK(k, a.state)
    BY <1>4, <2>1, <2>4 DEF StateOK
  <2> QED
    BY <1>1, <1>2, <2>1, <2>3, <2>4, <2>5, <2>6
<1>5. CASE k = "warmup"
  <2>1. a = Warmup(s, n, t)
    BY <1>5 DEF AcquireFrom
  <2> QED
    BY <1>2, <1>4, <1>5, <2>1 DEF m
<1>6. CASE k = "composed"
  <2>1. a = Warmup(s, n, t) \/ a = Refused(s)
    BY <1>6 DEF AcquireFrom, Composed
  <2>2. CASE a = Refused(s)
    BY <1>1, <1>2, <2>2 DEF Refused, m
  <2> QED
    BY <1>2, <1>4, <1>6, <2>1, <2>2 DEF m
<1> QED
  BY <1>3, <1>5, <1>6 DEF Spaced

(***************************************************************************)
(* The bucket: its balance, and that a caller waits off what it overdraws. *)
(***************************************************************************)
LEMMA BucketAnswers ==
    ASSUME NEW s, StateOK("tokenBucket", s), NEW n \in Nat \ {0}, NEW t \in Nat, s.last <= t,
           NEW a, a = AcquireFrom("tokenBucket", s, n, t)
    PROVE  /\ a.ok /\ a.wait \in Nat /\ n * Interval \in Nat /\ Capacity * Interval \in Nat
           /\ StateOK("tokenBucket", a.state) /\ a.state.last = t
           /\ a.state.tokens + n * Interval <= s.tokens + (t - s.last)
           /\ a.state.tokens + n * Interval <= Capacity * Interval
           /\ a.wait >= - a.state.tokens
           /\ a.wait > 0 => a.wait = - a.state.tokens
<1> DEFINE m == n * Interval
           full == Capacity * Interval
           kept == Least(full, s.tokens + (t - s.last))
           left == kept - m
<1>1. m \in Nat /\ full \in Nat
  BY SharedCurve, ProductIsNat, BaselinesAssumption
<1>2. s.tokens \in Int /\ s.last \in Nat
  BY DEF StateOK
<1>3. a = Granted([tokens |-> left, last |-> t], Most(0, -left))
  BY DEF AcquireFrom, TokenBucket
<1> HIDE DEF m, full
<1>4. kept \in Int /\ kept <= full /\ kept <= s.tokens + (t - s.last)
  BY <1>1, <1>2 DEF Least
<1> HIDE DEF kept
<1>5. left \in Int /\ left + m <= s.tokens + (t - s.last) /\ left + m <= full
  BY <1>1, <1>2, <1>4
<1>6. a.ok /\ a.state.tokens = left /\ a.state.last = t /\ a.wait = Most(0, -left)
  BY <1>3 DEF Granted
<1> HIDE DEF left
<1>7. a.wait \in Nat /\ a.wait >= -left /\ (a.wait > 0 => a.wait = -left)
  BY <1>5, <1>6 DEF Most
<1>8. StateOK("tokenBucket", a.state)
  BY <1>5, <1>6 DEF StateOK, Spaced
<1> QED
  BY <1>1, <1>5, <1>6, <1>7, <1>8 DEF m, full

(***************************************************************************)
(* The window: a caller goes into the one its grant falls into.            *)
(***************************************************************************)
LEMMA WindowAnswers ==
    ASSUME NEW s, StateOK("fixedWindow", s), NEW n \in Nat \ {0}, NEW t \in Nat,
           NEW a, a = AcquireFrom("fixedWindow", s, n, t)
    PROVE  /\ a.ok /\ a.wait \in Nat
           /\ StateOK("fixedWindow", a.state)
           /\ (t + a.wait) \div Window = a.state.window
           /\ \/ a.state.window > s.window /\ a.state.used = n
              \/ /\ a.state.window = s.window /\ a.state.used = s.used + n
                 /\ s.used = 0 \/ a.state.used <= Limit
<1> DEFINE current == t \div Window
           here == IF current > s.window THEN [window |-> current, used |-> 0] ELSE s
           full == here.used > 0 /\ here.used + n > Limit
           mine == IF full THEN [window |-> here.window + 1, used |-> 0] ELSE here
<1>1. Window \in Nat \ {0} /\ Limit \in Nat
  BY BaselinesAssumption
<1>2. s \in [window : Int, used : Nat]
  BY DEF StateOK
<1>3. current \in Nat /\ Window * current <= t /\ t < Window * current + Window
  BY <1>1, SMTT(30)
<1>4. a = Granted([mine EXCEPT !.used = @ + n], Most(0, mine.window * Window - t))
  BY DEF AcquireFrom, FixedWindow
<1> HIDE DEF current
<1>5. /\ here \in [window : Int, used : Nat] /\ here.window >= current
      /\ \/ here.window > s.window /\ here.used = 0
         \/ here.window = s.window /\ here.used = s.used
  BY <1>2, <1>3
<1> HIDE DEF here
<1>6. /\ mine \in [window : Int, used : Nat] /\ mine.window >= current
      /\ \/ mine.window > s.window /\ mine.used = 0
         \/ /\ mine.window = s.window /\ mine.used = s.used
            /\ s.used = 0 \/ s.used + n <= Limit
  BY <1>1, <1>2, <1>3, <1>5
<1>7. /\ a.ok /\ a.wait = Most(0, mine.window * Window - t)
      /\ a.state.window = mine.window /\ a.state.used = mine.used + n
  <2>1. /\ a.ok /\ a.wait = Most(0, mine.window * Window - t)
        /\ a.state = [mine EXCEPT !.used = @ + n]
    BY <1>4 DEF Granted
  <2> HIDE DEF mine
  <2> QED
    BY <1>6, <2>1
<1>8. a.state \in [window : Int, used : Nat] /\ StateOK("fixedWindow", a.state)
  <2>1. a.state = [mine EXCEPT !.used = @ + n]
    BY <1>4 DEF Granted
  <2> HIDE DEF mine
  <2>2. a.state \in [window : Int, used : Nat]
    BY <1>6, <2>1
  <2> QED
    BY <2>2 DEF StateOK, Spaced
<1> DEFINE w == mine.window
<1>9. w \in Int /\ w >= current /\ mine.used \in Nat
  BY <1>6
<1>10. a.wait \in Nat /\ (t + a.wait) \div Window = w
  <2>1. CASE w = current
    <3>1. w * Window <= t /\ w \in Nat
      BY <1>1, <1>3, <2>1
    <3>2. a.wait = 0
      BY <1>1, <1>7, <3>1 DEF Most
    <3> QED
      BY <2>1, <3>2 DEF current
  <2>2. CASE w > current
    <3>1. w \in Nat
      BY <1>3, <1>9, <2>2
    <3>2. w * Window \in Nat /\ w * Window >= (current + 1) * Window
      <4>1. current + 1 \in Nat /\ current + 1 <= w
        BY <1>3, <1>9, <2>2
      <4> QED
        BY <1>1, <3>1, <4>1, ProductIsNat, ProductAscends
    <3>3. (current + 1) * Window = Window * current + Window
      BY <1>1, <1>3, SMTT(30)
    <3>4. w * Window > t
      BY <1>1, <1>3, <3>2, <3>3
    <3>5. a.wait = w * Window - t
      BY <1>7, <3>2, <3>4 DEF Most
    <3>6. t + a.wait = w * Window /\ a.wait \in Nat
      BY <3>2, <3>4, <3>5
    <3>7. Window * w = w * Window
      BY <1>1, <3>1, SMTT(30)
    <3>8. (Window * w) \div Window = w
      BY <1>1, <3>1, MultipleDivides
    <3> QED
      BY <3>6, <3>7, <3>8
  <2> QED
    BY <1>3, <1>9, <2>1, <2>2
<1> QED
  BY <1>2, <1>6, <1>7, <1>8, <1>10

-----------------------------------------------------------------------------
(***************************************************************************)
(* The driver.  Its inductive invariant, first of what it keeps of its     *)
(* callers: those not settled are counted, nobody settles between two      *)
(* stops without being seen at the second.                                 *)
(***************************************************************************)
Waiting == {c \in 1..issued : grant[c] = NotYet}

Bookkeeping ==
    /\ kind \in Kinds
    /\ script \in Scripts
    /\ pc \in {"issue", "move", "done", "gaveUp"}
    /\ nowMicros \in Nat /\ now = nowMicros * Micro
    /\ issued \in 0..Len(script)
    /\ pending = Cardinality(Waiting)
    /\ grant \in [Sleeps -> Nat \cup {NotYet, NotAtAll}]
    /\ \A c \in Sleeps :
         IF c <= issued
         THEN /\ phase[c] # "new"
              /\ phase[c] = "asleep" => grant[c] = NotYet
         ELSE phase[c] = "new" /\ grant[c] = NotYet
    /\ pc = "move" =>
         /\ ~ Arrived
         /\ \A c \in Waiting : phase[c] = "asleep"
    /\ pc = "done" => issued = Len(script) /\ pending = 0

\* A caller let through and not yet seen was let through by the last move.
SeenInTime ==
    \A c \in Waiting : phase[c] = "resolved" =>
        wakeAt[c] <= now /\ now < wakeAt[c] + StepMicros * Micro

(***************************************************************************)
(* And of the limiters: what each has promised to callers still to come,   *)
(* by what it has sold to those who came.                                  *)
(***************************************************************************)
Owed ==
    /\ StateOK(kind, limiter)
    /\ kind = "tokenBucket" =>
         /\ limiter.last <= now
         /\ \A c \in 1..issued :
              (PermitsOf(c..issued) - Most(Capacity, script[c].permits)) * Interval
                  <= limiter.last - limiter.tokens - wakeAt[c]
    /\ kind = "fixedWindow" =>
         \A c \in 1..issued :
           /\ wakeAt[c] \div Window <= limiter.window
           /\ wakeAt[c] \div Window = limiter.window =>
                /\ PermitsOf(c..issued) <= limiter.used
                /\ c = issued \/ limiter.used <= Limit
    /\ kind \in Spaced =>
         \A c \in Admitted : wakeAt[c] + script[c].permits * Interval <= limiter.nextFree

DriveInv ==
    /\ ManualInv
    /\ Bookkeeping
    /\ SeenInTime
    /\ GrantsToTheStep
    /\ Owed
    /\ AdmitsWithinRate

-----------------------------------------------------------------------------
\* A script is a sequence of callers, each with a time and a size.
LEMMA ScriptFacts ==
    ASSUME script \in Scripts
    PROVE  /\ Len(script) \in Nat /\ DOMAIN script = 1..Len(script)
           /\ 1..Len(script) \subseteq Sleeps
           /\ \A c \in 1..Len(script) :
                script[c].at \in Nat /\ script[c].permits \in Nat \ {0}
<1>1. PICK n \in Sleeps : script \in [1..n -> [at : Moments, permits : Sizes]]
  BY DEF Scripts
<1>2. Cardinality(Sleeps) \in Nat /\ Sleeps = 1..Cardinality(Sleeps)
  BY DriveAssumption, FS_CardinalityType
<1> HIDE DEF Scripts
<1>3. n \in Nat /\ 1..n \subseteq Sleeps
  BY <1>2
<1>4. script \in Seq([at : Moments, permits : Sizes])
  <2> DEFINE R == [at : Moments, permits : Sizes]
  <2>1. n \in Nat /\ script \in [1..n -> R]
    BY <1>1, <1>3
  <2> HIDE DEF R
  <2>2. script \in Seq(R)
    BY <2>1, SeqDef
  <2> QED
    BY <2>2 DEF R
<1>5. Len(script) \in Nat /\ DOMAIN script = 1..Len(script) /\ DOMAIN script = 1..n
  BY <1>1, <1>4, LenProperties
<1>6. \A c \in 1..n : script[c].at \in Moments /\ script[c].permits \in Sizes
  BY <1>1
<1> QED
  BY <1>3, <1>5, <1>6, DriveAssumption

(***************************************************************************)
(* What a group of callers in a row asks for, one more at a time.          *)
(***************************************************************************)
LEMMA PermitsAddUp ==
    ASSUME script \in Scripts, NEW c \in 1..Len(script), NEW m \in Nat, c <= m + 1,
           m + 1 \in 1..Len(script)
    PROVE  /\ PermitsOf(c..m) \in Nat
           /\ PermitsOf(c..(m + 1)) = PermitsOf(c..m) + script[m + 1].permits
           /\ c <= m => PermitsOf(c..m) >= script[c].permits
           /\ PermitsOf(c..c) = script[c].permits
<1> DEFINE f == [x \in DOMAIN script |-> script[x].permits]
<1>1. /\ Len(script) \in Nat /\ DOMAIN script = 1..Len(script)
      /\ \A x \in 1..Len(script) : script[x].permits \in Nat \ {0}
  BY ScriptFacts
<1>2. \A x \in 1..Len(script) : f[x] = script[x].permits /\ f[x] \in Nat
  BY <1>1
<1>3. \A S : PermitsOf(S) = SumFunctionOnSet(f, S)
  BY DEF PermitsOf
<1> HIDE DEF f
<1>4. ASSUME NEW S \in SUBSET (1..Len(script)), NEW x \in S
      PROVE  /\ PermitsOf(S) = f[x] + PermitsOf(S \ {x})
             /\ PermitsOf(S \ {x}) \in Nat /\ PermitsOf(S) \in Nat
  <2>0. 1 \in Int /\ Len(script) \in Int
    BY <1>1
  <2>1. IsFiniteSet(1..Len(script))
    BY <2>0, FS_Interval
  <2>2. IsFiniteSet(S) /\ IsFiniteSet(S \ {x})
    BY <2>1, FS_Subset
  <2>3. (\A y \in S : f[y] \in Nat) /\ (\A y \in S \ {x} : f[y] \in Nat)
    BY <1>2
  <2>4. SumFunctionOnSet(f, S) = f[x] + SumFunctionOnSet(f, S \ {x})
    BY <2>2, <2>3, SumTakesOut, ZenonT(60)
  <2>5. SumFunctionOnSet(f, S) \in Nat /\ SumFunctionOnSet(f, S \ {x}) \in Nat
    BY <2>2, <2>3, SumIsNat
  <2> QED
    BY <1>3, <2>4, <2>5
<1>5. c..(m + 1) \in SUBSET (1..Len(script)) /\ m + 1 \in c..(m + 1)
  BY <1>1
<1>6. (c..(m + 1)) \ {m + 1} = c..m
  BY <1>1
<1>7. /\ PermitsOf(c..m) \in Nat
      /\ PermitsOf(c..(m + 1)) = PermitsOf(c..m) + script[m + 1].permits
  <2> DEFINE S == c..(m + 1)
  <2>1. S \in SUBSET (1..Len(script)) /\ m + 1 \in S /\ S \ {m + 1} = c..m
    BY <1>5, <1>6
  <2> HIDE DEF S
  <2>2. /\ PermitsOf(S) = f[m + 1] + PermitsOf(S \ {m + 1})
        /\ PermitsOf(S \ {m + 1}) \in Nat
    BY <1>4, <2>1
  <2>3. f[m + 1] = script[m + 1].permits /\ f[m + 1] \in Nat
    BY <1>2
  <2> DEFINE before == PermitsOf(c..m)
  <2>4. before \in Nat /\ PermitsOf(S) = script[m + 1].permits + before
    BY <2>1, <2>2, <2>3
  <2> HIDE DEF before
  <2>5. PermitsOf(S) = before + script[m + 1].permits
    BY <2>3, <2>4
  <2> QED
    BY <2>4, <2>5 DEF S, before
<1>8. ASSUME c <= m PROVE PermitsOf(c..m) >= script[c].permits
  <2>1. c..m \in SUBSET (1..Len(script)) /\ c \in c..m
    BY <1>1, <1>8
  <2>2. PermitsOf(c..m) = f[c] + PermitsOf((c..m) \ {c}) /\ PermitsOf((c..m) \ {c}) \in Nat
    BY <1>4, <2>1
  <2> QED
    BY <1>1, <1>2, <2>2
<1>9. PermitsOf(c..c) = script[c].permits
  <2>1. c..c \in SUBSET (1..Len(script)) /\ c \in c..c /\ (c..c) \ {c} = {}
    BY <1>1
  <2>2. PermitsOf(c..c) = f[c] + PermitsOf({})
    BY <1>4, <2>1
  <2>3. PermitsOf({}) = 0
    <3>1. IsFiniteSet({})
      BY FS_EmptySet
    <3> QED
      BY <1>3, <3>1, SumUnfolds
  <2> QED
    BY <1>1, <1>2, <2>2, <2>3
<1> QED
  BY <1>7, <1>8, <1>9

(***************************************************************************)
(* What issuing a caller does: it is answered, sleeps what it is told, and *)
(* nothing happens to anybody else.                                        *)
(***************************************************************************)
LEMMA CallerIssued ==
    ASSUME DriveInv, Issue
    PROVE  LET c == issued + 1
               n == script[c].permits
               a == AcquireFrom(kind, limiter, n, now)
           IN  /\ c \in 1..Len(script) /\ issued \in Nat /\ issued' = c
               /\ c \in Sleeps /\ phase[c] = "new" /\ grant[c] = NotYet
               /\ n \in Nat \ {0} /\ now \in Nat
               /\ a.wait \in Nat
               /\ now' = now /\ limiter' = a.state
               /\ UNCHANGED <<kind, script, pc, nowMicros, grant>>
               /\ phase' \in [Sleeps -> Phases] /\ wakeAt' \in [Sleeps -> Nat]
               /\ \A u \in Sleeps \ {c} : phase'[u] = phase[u] /\ wakeAt'[u] = wakeAt[u]
               /\ \/ /\ a.ok /\ wakeAt'[c] = now + a.wait
                     /\ phase'[c] \in {"asleep", "resolved"}
                     /\ phase'[c] = "resolved" => a.wait = 0
                  \/ ~ a.ok /\ phase'[c] = "rejected"
               /\ ManualInv'
<1> DEFINE c == issued + 1
           n == script[c].permits
           a == AcquireFrom(kind, limiter, n, now)
<1>1. ManualInv /\ Bookkeeping /\ Owed
  BY DEF DriveInv
<1>2. /\ pc = "issue" /\ issued < Len(script) /\ issued' = c /\ limiter' = a.state
      /\ UNCHANGED <<kind, script, pc, nowMicros, grant>>
      /\ \/ a.ok /\ SleepFor(c, a.wait)
         \/ ~ a.ok /\ TurnedAway(c)
  <2>1. issued + 1 \in Sleeps /\ phase[issued + 1] = "new"
    <3>1. script \in Scripts /\ issued \in 0..Len(script) /\ issued < Len(script)
      BY <1>1 DEF Issue, Arrived, Bookkeeping
    <3>2. issued + 1 \in Sleeps
      BY <3>1, ScriptFacts
    <3>3. issued \in Nat /\ ~ (issued + 1 <= issued)
      BY <3>1, ScriptFacts
    <3> QED
      BY <1>1, <3>2, <3>3 DEF Bookkeeping
  <2> QED
    BY <2>1 DEF Issue, Arrived, TurnedAway
<1> HIDE DEF a
<1>3. /\ script \in Scripts /\ issued \in Nat /\ c \in 1..Len(script) /\ c \in Sleeps
      /\ n \in Nat \ {0}
  <2>1. script \in Scripts /\ issued \in 0..Len(script)
    BY <1>1 DEF Bookkeeping
  <2>2. Len(script) \in Nat
    BY <2>1, ScriptFacts
  <2>3. issued \in Nat /\ c \in 1..Len(script)
    BY <1>2, <2>1, <2>2
  <2> QED
    BY <2>1, <2>3, ScriptFacts
<1>4. phase[c] = "new" /\ grant[c] = NotYet
  <2>1. ~ (c <= issued)
    BY <1>3
  <2> QED
    BY <1>1, <1>3, <2>1 DEF Bookkeeping
<1>5. /\ now \in 0..MaxTime /\ phase \in [Sleeps -> Phases] /\ wakeAt \in [Sleeps -> Nat]
  BY <1>1 DEF ManualInv, TypeOK
<1>6. now \in Nat
  BY <1>5, InstantsAssumption
<1> HIDE DEF c, n
<1>7. a.wait \in Nat
  <2>1. StateOK(kind, limiter)
    BY <1>1 DEF Owed
  <2>2. kind \in Spaced \/ kind = "tokenBucket" \/ kind = "fixedWindow"
    BY <1>1 DEF Bookkeeping, Kinds, Spaced
  <2>3. kind = "tokenBucket" => limiter.last <= now
    BY <1>1 DEF Owed
  <2>4. a = AcquireFrom(kind, limiter, n, now)
    BY DEF a
  <2> QED
    BY <1>3, <1>6, <2>1, <2>2, <2>3, <2>4, SpacedAnswers, BucketAnswers, WindowAnswers
<1>8. ASSUME a.ok, SleepFor(c, a.wait)
      PROVE  /\ now' = now
             /\ phase' \in [Sleeps -> Phases] /\ wakeAt' \in [Sleeps -> Nat]
             /\ \A u \in Sleeps \ {c} : phase'[u] = phase[u] /\ wakeAt'[u] = wakeAt[u]
             /\ wakeAt'[c] = now + a.wait /\ phase'[c] \in {"asleep", "resolved"}
             /\ phase'[c] = "resolved" => a.wait = 0
             /\ ManualInv'
  <2>1. ManualInv'
    BY <1>1, <1>3, <1>7, <1>8, SleepForInv
  <2>2. phase' \in [Sleeps -> Phases] /\ wakeAt' \in [Sleeps -> Nat]
    BY <2>1 DEF ManualInv, TypeOK
  <2>3. /\ now' = now
        /\ \/ /\ a.wait <= 0
              /\ phase' = [phase EXCEPT ![c] = "resolved"]
              /\ wakeAt' = [wakeAt EXCEPT ![c] = now]
           \/ /\ a.wait > 0
              /\ phase' = [phase EXCEPT ![c] = "asleep"]
              /\ wakeAt' = [wakeAt EXCEPT ![c] = now + a.wait]
    BY <1>8 DEF SleepFor, WakeAt
  <2>4. \A u \in Sleeps \ {c} : phase'[u] = phase[u] /\ wakeAt'[u] = wakeAt[u]
    BY <1>5, <2>3
  <2>5. \/ a.wait = 0 /\ phase'[c] = "resolved" /\ wakeAt'[c] = now
        \/ a.wait > 0 /\ phase'[c] = "asleep" /\ wakeAt'[c] = now + a.wait
    BY <1>3, <1>5, <1>7, <2>3
  <2> QED
    BY <1>6, <1>7, <2>1, <2>2, <2>3, <2>4, <2>5
<1>9. ASSUME ~ a.ok, TurnedAway(c)
      PROVE  /\ now' = now
             /\ phase' \in [Sleeps -> Phases] /\ wakeAt' \in [Sleeps -> Nat]
             /\ \A u \in Sleeps \ {c} : phase'[u] = phase[u] /\ wakeAt'[u] = wakeAt[u]
             /\ phase'[c] = "rejected"
             /\ ManualInv'
  <2>1. ManualInv'
    BY <1>1, <1>3, <1>9, AbortInv
  <2>2. phase' \in [Sleeps -> Phases] /\ wakeAt' \in [Sleeps -> Nat]
    BY <2>1 DEF ManualInv, TypeOK
  <2>3. now' = now /\ phase' = [phase EXCEPT ![c] = "rejected"] /\ wakeAt' = wakeAt
    BY <1>9 DEF TurnedAway
  <2> QED
    BY <1>3, <1>5, <2>1, <2>2, <2>3
<1>10. CASE a.ok /\ SleepFor(c, a.wait)
  BY <1>2, <1>3, <1>4, <1>6, <1>7, <1>8, <1>10 DEF c, n, a
<1>11. CASE ~ a.ok /\ TurnedAway(c)
  BY <1>2, <1>3, <1>4, <1>6, <1>7, <1>9, <1>11 DEF c, n, a
<1> QED
  BY <1>2, <1>10, <1>11

-----------------------------------------------------------------------------
\* What is owed to those who came before, and so the rate, is kept by a
\* purchase: of an evenly paced limiter,
LEMMA SpacedIssue ==
    ASSUME DriveInv, Issue, kind \in Spaced
    PROVE  Owed' /\ AdmitsWithinRate'
<1> DEFINE c == issued + 1
           n == script[c].permits
           a == AcquireFrom(kind, limiter, n, now)
<1>1. /\ c \in 1..Len(script) /\ issued \in Nat /\ issued' = c
      /\ c \in Sleeps /\ n \in Nat \ {0} /\ now \in Nat /\ a.wait \in Nat
      /\ now' = now /\ limiter' = a.state /\ kind' = kind /\ script' = script
      /\ phase' \in [Sleeps -> Phases] /\ wakeAt' \in [Sleeps -> Nat]
      /\ \A u \in Sleeps \ {c} : phase'[u] = phase[u] /\ wakeAt'[u] = wakeAt[u]
      /\ \/ a.ok /\ wakeAt'[c] = now + a.wait
         \/ phase'[c] = "rejected"
  BY CallerIssued
<1>2. Owed /\ AdmitsWithinRate /\ script \in Scripts /\ wakeAt \in [Sleeps -> Nat]
  BY DEF DriveInv, Bookkeeping, ManualInv, TypeOK
<1> HIDE DEF a
<1>3. /\ StateOK(kind, a.state) /\ n * Interval \in Nat
      /\ limiter.nextFree <= a.state.nextFree
      /\ a.ok => /\ limiter.nextFree <= now + a.wait
                 /\ now + a.wait + n * Interval <= a.state.nextFree
  <2>1. StateOK(kind, limiter) /\ a = AcquireFrom(kind, limiter, n, now)
    BY <1>2 DEF Owed, a
  <2> HIDE DEF n
  <2> QED
    BY <1>1, <2>1, SpacedAnswers
<1>4. kind # "tokenBucket" /\ kind # "fixedWindow"
  BY DEF Spaced
<1>5. limiter.nextFree \in Nat /\ a.state.nextFree \in Nat
  BY <1>2, <1>3 DEF Owed, StateOK
<1>6. Admitted' \subseteq Admitted \cup {c} /\ \A u \in Admitted : u \in 1..issued /\ u \in 1..Len(script)
  <2>1. \A u \in 1..c : u # c => u \in 1..issued /\ u \in Sleeps \ {c}
    BY <1>1, <1>2, ScriptFacts
  <2>2. Admitted' = {u \in 1..c : phase'[u] # "rejected"}
    BY <1>1 DEF Admitted
  <2>3. Admitted' \subseteq Admitted \cup {c}
    BY <1>1, <2>1, <2>2 DEF Admitted
  <2>4. \A u \in Admitted : u \in 1..issued /\ u \in 1..Len(script)
    BY <1>1 DEF Admitted
  <2> QED
    BY <2>3, <2>4
<1>7. \A u \in Admitted : u \in Sleeps \ {c} /\ wakeAt'[u] = wakeAt[u] /\ wakeAt[u] \in Nat
      /\ script[u].permits * Interval \in Nat
  <2> TAKE u \in Admitted
  <2>1. u \in Sleeps \ {c}
    BY <1>1, <1>2, <1>6, ScriptFacts
  <2>2. script[u].permits \in Nat
    BY <1>2, <1>6, ScriptFacts
  <2> QED
    BY <1>1, <1>2, <2>1, <2>2, ProductIsNat, SharedCurve
<1>8. \A u \in Admitted : wakeAt[u] + script[u].permits * Interval <= limiter.nextFree
  BY <1>2 DEF Owed
<1>9. c \in Admitted' => a.ok /\ wakeAt'[c] = now + a.wait
  BY <1>1 DEF Admitted
<1>10. ASSUME NEW u \in Admitted'
       PROVE  wakeAt'[u] + script[u].permits * Interval <= a.state.nextFree
  <2>1. CASE u = c
    BY <1>3, <1>9, <1>10, <2>1
  <2>2. CASE u \in Admitted
    <3> DEFINE p == script[u].permits * Interval
    <3>1. p \in Nat /\ wakeAt[u] \in Nat /\ wakeAt'[u] = wakeAt[u]
          /\ wakeAt[u] + p <= limiter.nextFree
      BY <1>7, <1>8, <2>2
    <3> HIDE DEF p
    <3>2. wakeAt'[u] + p <= a.state.nextFree
      BY <1>3, <1>5, <3>1
    <3> QED
      BY <3>2 DEF p
  <2> QED
    BY <1>6, <1>10, <2>1, <2>2
<1>11. Owed'
  BY <1>1, <1>3, <1>4, <1>10 DEF Owed
<1>12. ASSUME NEW u \in Admitted', NEW v \in Admitted', u < v
       PROVE  wakeAt'[u] + script[u].permits * Interval <= wakeAt'[v]
  <2>1. u \in Admitted
    <3>1. u # c
      BY <1>1, <1>6, <1>12
    <3> QED
      BY <1>6, <3>1
  <2> DEFINE p == script[u].permits * Interval
  <2>2. p \in Nat /\ wakeAt[u] \in Nat /\ wakeAt'[u] = wakeAt[u]
        /\ wakeAt[u] + p <= limiter.nextFree
    BY <1>7, <1>8, <2>1
  <2>3. CASE v \in Admitted
    <3>1. KeepsRate(u, v)
      <4>1. u \in Int /\ v \in Int /\ u <= v
        BY <1>6, <1>12, <2>1, <2>3
      <4> QED
        BY <1>2, <2>1, <2>3, <4>1 DEF AdmitsWithinRate
    <3>2. wakeAt[u] + p <= wakeAt[v]
      BY <1>4, <1>12, <3>1 DEF KeepsRate
    <3> QED
      BY <1>7, <2>2, <2>3, <3>2
  <2>4. CASE v = c
    <3> HIDE DEF p
    <3>1. wakeAt'[u] + p <= wakeAt'[v]
      BY <1>1, <1>3, <1>5, <1>9, <2>2, <2>4
    <3> QED
      BY <3>1 DEF p
  <2> QED
    BY <1>6, <2>3, <2>4
<1>13. AdmitsWithinRate'
  <2> SUFFICES ASSUME NEW u \in Admitted', NEW v \in Admitted' PROVE KeepsRate(u, v)'
    BY DEF AdmitsWithinRate
  <2> QED
    BY <1>1, <1>4, <1>12 DEF KeepsRate
<1> QED
  BY <1>11, <1>13

\* of the bucket,
LEMMA BucketIssue ==
    ASSUME DriveInv, Issue, kind = "tokenBucket"
    PROVE  Owed' /\ AdmitsWithinRate'
<1> DEFINE c == issued + 1
           n == script[c].permits
           a == AcquireFrom(kind, limiter, n, now)
<1>1. /\ c \in 1..Len(script) /\ issued \in Nat /\ issued' = c
      /\ c \in Sleeps /\ n \in Nat \ {0} /\ now \in Nat /\ a.wait \in Nat
      /\ now' = now /\ limiter' = a.state /\ kind' = kind /\ script' = script
      /\ phase' \in [Sleeps -> Phases] /\ wakeAt' \in [Sleeps -> Nat]
      /\ \A u \in Sleeps \ {c} : phase'[u] = phase[u] /\ wakeAt'[u] = wakeAt[u]
      /\ \/ a.ok /\ wakeAt'[c] = now + a.wait
         \/ ~ a.ok
  BY CallerIssued
<1>2. Owed /\ AdmitsWithinRate /\ script \in Scripts /\ wakeAt \in [Sleeps -> Nat]
  BY DEF DriveInv, Bookkeeping, ManualInv, TypeOK
<1> HIDE DEF a
<1>3. /\ a.ok /\ n * Interval \in Nat /\ Capacity * Interval \in Nat
      /\ StateOK("tokenBucket", a.state) /\ a.state.last = now
      /\ a.state.tokens + n * Interval <= limiter.tokens + (now - limiter.last)
      /\ a.state.tokens + n * Interval <= Capacity * Interval
      /\ a.wait >= - a.state.tokens
      /\ a.wait > 0 => a.wait = - a.state.tokens
  <2>1. StateOK("tokenBucket", limiter) /\ limiter.last <= now
        /\ a = AcquireFrom("tokenBucket", limiter, n, now)
    BY <1>2 DEF Owed, a
  <2>2. n \in Nat \ {0} /\ now \in Nat
    BY <1>1
  <2> HIDE DEF n
  <2> QED
    BY <2>1, <2>2, BucketAnswers
<1>4. /\ limiter.tokens \in Int /\ limiter.last \in Int /\ a.state.tokens \in Int
      /\ wakeAt'[c] = now + a.wait
  BY <1>1, <1>2, <1>3 DEF Owed, StateOK
<1>5. \A u \in 1..issued : u \in Sleeps \ {c} /\ wakeAt'[u] = wakeAt[u] /\ wakeAt[u] \in Nat
  BY <1>1, <1>2, ScriptFacts
<1> DEFINE spare(u) == Most(Capacity, script[u].permits)
           left(u) == PermitsOf(u..c) - spare(u)
<1>6. \A u \in 1..c : spare(u) \in Nat /\ left(u) \in Int
      /\ spare(u) >= Capacity /\ spare(u) >= script[u].permits
  <2> TAKE u \in 1..c
  <2>1. u \in 1..Len(script)
    BY <1>1
  <2>2. script[u].permits \in Nat /\ Capacity \in Nat
    BY <1>2, <2>1, ScriptFacts, BaselinesAssumption
  <2>3. PermitsOf(u..c) \in Nat
    <3>1. u <= issued + 1 /\ issued + 1 \in 1..Len(script)
      BY <1>1
    <3>2. PermitsOf(u..issued) \in Nat /\ PermitsOf(u..c) = PermitsOf(u..issued) + n
      BY <1>1, <1>2, <2>1, <3>1, PermitsAddUp
    <3> HIDE DEF n, c
    <3> QED
      BY <1>1, <3>2
  <2> QED
    BY <2>2, <2>3 DEF Most
<1>7. ASSUME NEW u \in 1..c
      PROVE  left(u) * Interval <= now - a.state.tokens - wakeAt'[u]
  <2>1. CASE u = c
    <3>1. PermitsOf(c..c) = n
      <4>1. c <= issued + 1 /\ issued + 1 \in 1..Len(script)
        BY <1>1
      <4> HIDE DEF c
      <4> QED
        BY <1>1, <1>2, <4>1, PermitsAddUp
    <3>2. left(u) = n - spare(c) /\ spare(c) \in Nat
      BY <1>6, <2>1, <3>1
    <3>3. left(u) * Interval = n * Interval - spare(c) * Interval /\ spare(c) * Interval \in Nat
      <4> HIDE DEF n, spare, left
      <4> QED
        BY <1>1, <3>2, SharedCurve, SMTT(30)
    <3>4. spare(c) * Interval >= Capacity * Interval /\ spare(c) * Interval >= n * Interval
      <4>1. spare(c) \in Nat /\ spare(c) >= Capacity /\ spare(c) >= n
        BY <1>1, <1>6
      <4> HIDE DEF spare, n
      <4> QED
        BY <1>1, <4>1, ProductAscends, SharedCurve, BaselinesAssumption
    <3> DEFINE x == left(u) * Interval
               y == n * Interval
               z == spare(c) * Interval
               full == Capacity * Interval
    <3>5. /\ x = y - z /\ z \in Nat /\ y \in Nat /\ full \in Nat /\ z >= full /\ z >= y
          /\ a.state.tokens + y <= full
      BY <1>3, <3>3, <3>4
    <3> HIDE DEF x, y, z, full
    <3>6. x <= 0 - a.state.tokens - a.wait
      <4>1. CASE a.wait = 0
        BY <1>4, <3>5, <4>1
      <4>2. CASE a.wait > 0
        BY <1>3, <1>4, <3>5, <4>2
      <4> QED
        BY <1>1, <4>1, <4>2
    <3>7. x <= now - a.state.tokens - (now + a.wait)
      BY <1>1, <1>4, <3>5, <3>6
    <3> QED
      BY <1>4, <2>1, <3>7 DEF x
  <2>2. CASE u \in 1..issued
    <3>1. PermitsOf(u..issued) \in Nat /\ PermitsOf(u..c) = PermitsOf(u..issued) + n
      <4>1. u <= issued + 1 /\ issued + 1 \in 1..Len(script) /\ u \in 1..Len(script)
        BY <1>1, <2>2
      <4> QED
        BY <1>1, <1>2, <4>1, PermitsAddUp
    <3> DEFINE old == PermitsOf(u..issued) - spare(u)
    <3>2. old \in Int /\ left(u) = old + n
      <4>1. PermitsOf(u..c) = PermitsOf(u..issued) + n /\ left(u) = PermitsOf(u..c) - spare(u)
            /\ old = PermitsOf(u..issued) - spare(u)
        BY <3>1
      <4> HIDE DEF n, spare, left, old, c
      <4> QED
        BY <1>1, <1>6, <1>7, <3>1, <4>1, SMTT(30)
    <3>3. left(u) * Interval = old * Interval + n * Interval /\ old * Interval \in Int
      <4> HIDE DEF n, spare, left, old
      <4> QED
        BY <1>1, <3>2, SharedCurve, SMTT(30)
    <3>4. old * Interval <= limiter.last - limiter.tokens - wakeAt[u]
      BY <1>2, <2>2 DEF Owed
    <3> DEFINE x == left(u) * Interval
               y == n * Interval
               o == old * Interval
    <3>5. /\ x = o + y /\ o \in Int /\ y \in Nat /\ o <= limiter.last - limiter.tokens - wakeAt[u]
          /\ a.state.tokens + y <= limiter.tokens + (now - limiter.last)
          /\ wakeAt[u] \in Nat /\ wakeAt'[u] = wakeAt[u]
      BY <1>3, <1>5, <2>2, <3>3, <3>4
    <3> HIDE DEF x, y, o
    <3> DEFINE w == wakeAt[u]
    <3>6. w \in Nat /\ o <= limiter.last - limiter.tokens - w /\ wakeAt'[u] = w
      BY <3>5
    <3>7. now \in Nat
      BY <1>1
    <3> HIDE DEF w, c, n
    <3>8. x <= now - a.state.tokens - w
      <4>1. o <= now - a.state.tokens - y - w
        BY <1>4, <3>5, <3>6, <3>7
      <4> QED
        BY <1>4, <3>5, <3>6, <3>7, <4>1
    <3> QED
      BY <3>6, <3>8 DEF x
  <2> QED
    BY <1>1, <2>1, <2>2
<1>8. Owed'
  <2>1. \A u \in 1..c :
          (PermitsOf(u..c) - Most(Capacity, script[u].permits)) * Interval
              <= now - a.state.tokens - wakeAt'[u]
    BY <1>7
  <2> HIDE DEF c
  <2> QED
    BY <1>1, <1>3, <2>1 DEF Owed, PermitsOf, Spaced
<1>9. ASSUME NEW u \in Admitted', NEW v \in Admitted', u <= v
      PROVE  (PermitsOf(u..v) - spare(u)) * Interval <= wakeAt'[v] - wakeAt'[u]
  <2>1. u \in 1..c /\ v \in 1..c
    BY <1>1 DEF Admitted
  <2>2. CASE v = c
    <3>1. left(u) * Interval <= now - a.state.tokens - wakeAt'[u]
      BY <1>7, <2>1
    <3>2. left(u) * Interval \in Int /\ wakeAt'[u] \in Nat
      <4>1. left(u) \in Int
        BY <1>6, <2>1
      <4>2. u \in Sleeps
        BY <1>1, <1>5, <2>1
      <4> HIDE DEF left
      <4>3. left(u) * Interval \in Int
        BY <4>1, SharedCurve, SMTT(30)
      <4> QED
        BY <1>1, <4>2, <4>3
    <3> DEFINE x == left(u) * Interval
    <3>0. /\ x \in Int /\ wakeAt'[u] \in Nat /\ wakeAt'[v] = now + a.wait
          /\ x <= now - a.state.tokens - wakeAt'[u]
      BY <1>4, <2>2, <3>1, <3>2
    <3> HIDE DEF x
    <3>3. x <= wakeAt'[v] - wakeAt'[u]
      <4>1. now - a.state.tokens <= now + a.wait
        BY <1>1, <1>3, <1>4
      <4> HIDE DEF c, n
      <4> QED
        BY <1>1, <1>4, <3>0, <4>1, SMTT(30)
    <3> QED
      BY <2>2, <3>3 DEF x
  <2>3. CASE v # c
    <3>1. v \in 1..issued /\ u \in 1..issued
      BY <1>1, <1>9, <2>1, <2>3
    <3>2. u \in Admitted /\ v \in Admitted
      BY <1>1, <1>5, <3>1 DEF Admitted
    <3>3. KeepsRate(u, v)
      BY <1>2, <1>9, <3>2 DEF AdmitsWithinRate
    <3> QED
      BY <1>5, <3>1, <3>3 DEF KeepsRate
  <2> QED
    BY <2>2, <2>3
<1>10. AdmitsWithinRate'
  <2> SUFFICES ASSUME NEW u \in Admitted', NEW v \in Admitted', u <= v PROVE KeepsRate(u, v)'
    BY DEF AdmitsWithinRate
  <2>1. (PermitsOf(u..v) - Most(Capacity, script[u].permits)) * Interval
          <= wakeAt'[v] - wakeAt'[u]
    BY <1>9
  <2> QED
    BY <1>1, <2>1 DEF KeepsRate, PermitsOf
<1> QED
  BY <1>8, <1>10

\* and of the window.
LEMMA WindowIssue ==
    ASSUME DriveInv, Issue, kind = "fixedWindow"
    PROVE  Owed' /\ AdmitsWithinRate'
<1> DEFINE c == issued + 1
           n == script[c].permits
           a == AcquireFrom(kind, limiter, n, now)
<1>1. /\ c \in 1..Len(script) /\ issued \in Nat /\ issued' = c
      /\ c \in Sleeps /\ n \in Nat \ {0} /\ now \in Nat /\ a.wait \in Nat
      /\ now' = now /\ limiter' = a.state /\ kind' = kind /\ script' = script
      /\ phase' \in [Sleeps -> Phases] /\ wakeAt' \in [Sleeps -> Nat]
      /\ \A u \in Sleeps \ {c} : phase'[u] = phase[u] /\ wakeAt'[u] = wakeAt[u]
      /\ \/ a.ok /\ wakeAt'[c] = now + a.wait
         \/ ~ a.ok
  BY CallerIssued
<1>2. Owed /\ AdmitsWithinRate /\ script \in Scripts /\ wakeAt \in [Sleeps -> Nat]
  BY DEF DriveInv, Bookkeeping, ManualInv, TypeOK
<1> HIDE DEF a
<1>3. /\ a.ok /\ StateOK("fixedWindow", a.state) /\ StateOK("fixedWindow", limiter)
      /\ (now + a.wait) \div Window = a.state.window
      /\ \/ a.state.window > limiter.window /\ a.state.used = n
         \/ /\ a.state.window = limiter.window /\ a.state.used = limiter.used + n
            /\ limiter.used = 0 \/ a.state.used <= Limit
  <2>1. StateOK("fixedWindow", limiter)
        /\ a = AcquireFrom("fixedWindow", limiter, n, now)
    BY <1>2 DEF Owed, a
  <2>2. n \in Nat \ {0} /\ now \in Nat
    BY <1>1
  <2> HIDE DEF n
  <2> QED
    BY <2>1, <2>2, WindowAnswers, SMTT(60)
<1>4. /\ limiter.window \in Int /\ limiter.used \in Nat
      /\ a.state.window \in Int /\ a.state.used \in Nat
      /\ wakeAt'[c] \div Window = a.state.window
  BY <1>1, <1>3 DEF StateOK
<1>5. \A u \in 1..issued : u \in Sleeps \ {c} /\ wakeAt'[u] = wakeAt[u] /\ wakeAt[u] \in Nat
  BY <1>1, <1>2, ScriptFacts
<1>6. ASSUME NEW u \in 1..c
      PROVE  /\ wakeAt'[u] \div Window <= a.state.window
             /\ wakeAt'[u] \div Window = a.state.window =>
                  /\ PermitsOf(u..c) <= a.state.used
                  /\ u = c \/ a.state.used <= Limit
  <2>1. CASE u = c
    <3>1. PermitsOf(c..c) = n
      <4>1. c <= issued + 1 /\ issued + 1 \in 1..Len(script)
        BY <1>1
      <4> HIDE DEF c
      <4> QED
        BY <1>1, <1>2, <4>1, PermitsAddUp
    <3> QED
      BY <1>1, <1>3, <1>4, <2>1, <3>1
  <2>2. CASE u \in 1..issued
    <3> DEFINE at == wakeAt[u] \div Window
               before == PermitsOf(u..issued)
    <3>1. /\ before \in Nat /\ PermitsOf(u..c) = before + n
          /\ before >= script[u].permits /\ script[u].permits \in Nat \ {0}
      <4>1. u <= issued + 1 /\ issued + 1 \in 1..Len(script) /\ u \in 1..Len(script) /\ u <= issued
        BY <1>1, <2>2
      <4> QED
        BY <1>1, <1>2, <4>1, PermitsAddUp, ScriptFacts
    <3>2. /\ at <= limiter.window
          /\ at = limiter.window =>
               /\ before <= limiter.used
               /\ u = issued \/ limiter.used <= Limit
      BY <1>2, <2>2 DEF Owed
    <3>3. at \in Int /\ wakeAt'[u] \div Window = at
      BY <1>5, <2>2, BaselinesAssumption
    <3> HIDE DEF at, before, n
    <3>4. at <= a.state.window
      BY <1>3, <1>4, <3>2, <3>3
    <3>5. at = a.state.window => before + n <= a.state.used /\ a.state.used <= Limit
      BY <1>1, <1>3, <1>4, <3>1, <3>2, <3>3, SMTT(30)
    <3> QED
      BY <3>1, <3>3, <3>4, <3>5
  <2> QED
    BY <1>1, <2>1, <2>2
<1>7. Owed'
  <2> HIDE DEF c
  <2> QED
    BY <1>1, <1>3, <1>6 DEF Owed, PermitsOf, Spaced
<1>8. ASSUME NEW u \in Admitted', NEW v \in Admitted', u <= v,
             wakeAt'[u] \div Window = wakeAt'[v] \div Window
      PROVE  u = v \/ PermitsOf(u..v) <= Limit
  <2>1. u \in 1..c /\ v \in 1..c
    BY <1>1 DEF Admitted
  <2>2. CASE v = c
    <3>1. wakeAt'[u] \div Window = a.state.window
      BY <1>4, <1>8, <2>2
    <3>2. PermitsOf(u..c) <= a.state.used /\ (u = c \/ a.state.used <= Limit)
      BY <1>6, <2>1, <3>1
    <3>3. PermitsOf(u..c) \in Nat
      <4>1. u <= issued + 1 /\ issued + 1 \in 1..Len(script) /\ u \in 1..Len(script)
        BY <1>1, <2>1
      <4>2. PermitsOf(u..issued) \in Nat /\ PermitsOf(u..c) = PermitsOf(u..issued) + n
        BY <1>1, <1>2, <4>1, PermitsAddUp
      <4> HIDE DEF n, c
      <4> QED
        BY <1>1, <4>2
    <3> HIDE DEF c
    <3> QED
      BY <1>4, <2>2, <3>2, <3>3, BaselinesAssumption
  <2>3. CASE v # c
    <3>1. v \in 1..issued /\ u \in 1..issued
      BY <1>1, <1>8, <2>1, <2>3
    <3>2. u \in Admitted /\ v \in Admitted
      BY <1>1, <1>5, <3>1 DEF Admitted
    <3>3. KeepsRate(u, v)
      BY <1>2, <1>8, <3>2 DEF AdmitsWithinRate
    <3> QED
      BY <1>5, <1>8, <3>1, <3>3 DEF KeepsRate
  <2> QED
    BY <2>2, <2>3
<1>9. AdmitsWithinRate'
  <2> SUFFICES ASSUME NEW u \in Admitted', NEW v \in Admitted', u <= v PROVE KeepsRate(u, v)'
    BY DEF AdmitsWithinRate
  <2> QED
    BY <1>1, <1>8 DEF KeepsRate, PermitsOf
<1> QED
  BY <1>7, <1>9

-----------------------------------------------------------------------------
LEMMA WaitingIsFinite ==
    ASSUME Bookkeeping
    PROVE  /\ IsFiniteSet(Waiting) /\ Waiting \subseteq 1..issued
           /\ 1..issued \subseteq Sleeps /\ pending \in Nat /\ issued \in Nat
           /\ Len(script) \in Nat /\ issued <= Len(script)
<1>1. script \in Scripts /\ issued \in 0..Len(script) /\ pending = Cardinality(Waiting)
  BY DEF Bookkeeping
<1>2. Len(script) \in Nat /\ 1..Len(script) \subseteq Sleeps
  BY <1>1, ScriptFacts
<1>3. issued \in Nat /\ issued <= Len(script) /\ 1..issued \subseteq 1..Len(script)
  BY <1>1, <1>2
<1>4. Waiting \in SUBSET (1..issued)
  BY DEF Waiting
<1>5. IsFiniteSet(1..issued)
  <2>1. 1 \in Int /\ issued \in Int
    BY <1>3
  <2> QED
    BY <2>1, FS_Interval
<1>6. IsFiniteSet(Waiting)
  BY <1>4, <1>5, FS_Subset
<1> QED
  BY <1>1, <1>2, <1>3, <1>4, <1>6, FS_CardinalityType

\* One more caller is waiting, or was let through or turned away just now.
LEMMA IssueInv ==
    ASSUME DriveInv, Issue
    PROVE  DriveInv'
<1> DEFINE c == issued + 1
           n == script[c].permits
           a == AcquireFrom(kind, limiter, n, now)
<1>1. /\ c \in 1..Len(script) /\ issued \in Nat /\ issued' = c
      /\ c \in Sleeps /\ phase[c] = "new" /\ grant[c] = NotYet
      /\ now \in Nat /\ now' = now /\ kind' = kind /\ script' = script
      /\ pc' = pc /\ nowMicros' = nowMicros /\ grant' = grant
      /\ phase' \in [Sleeps -> Phases] /\ wakeAt' \in [Sleeps -> Nat]
      /\ \A u \in Sleeps \ {c} : phase'[u] = phase[u] /\ wakeAt'[u] = wakeAt[u]
      /\ \/ /\ wakeAt'[c] = now + a.wait
            /\ phase'[c] \in {"asleep", "resolved"}
            /\ phase'[c] = "resolved" => a.wait = 0
         \/ phase'[c] = "rejected"
      /\ ManualInv'
  BY CallerIssued
<1>2. Bookkeeping /\ SeenInTime /\ GrantsToTheStep /\ pc = "issue" /\ pending' = pending + 1
  BY DEF DriveInv, Issue
<1> HIDE DEF a, c
<1>3. c = issued + 1 /\ c \in Nat
  BY <1>1 DEF c
<1>4. /\ IsFiniteSet(Waiting) /\ Waiting \subseteq 1..issued /\ 1..issued \subseteq Sleeps
      /\ Len(script) \in Nat /\ pending = Cardinality(Waiting) /\ script \in Scripts
  BY <1>2, WaitingIsFinite DEF Bookkeeping
<1>5. c \notin 1..issued /\ 1..c = (1..issued) \cup {c}
  BY <1>1, <1>3
<1>6. Waiting' = Waiting \cup {c} /\ c \notin Waiting
  BY <1>1, <1>5 DEF Waiting
<1>7. pending' = Cardinality(Waiting')
  BY <1>2, <1>4, <1>6, FS_AddElement
<1>8. Bookkeeping'
  <2>1. /\ kind' \in Kinds /\ script' \in Scripts /\ pc' = "issue"
        /\ nowMicros' \in Nat /\ now' = nowMicros' * Micro
        /\ grant' \in [Sleeps -> Nat \cup {NotYet, NotAtAll}]
    BY <1>1, <1>2 DEF Bookkeeping, Scripts
  <2>2. issued' \in 0..Len(script')
    BY <1>1, <1>3, <1>4
  <2>3. ASSUME NEW u \in Sleeps
        PROVE  IF u <= issued'
               THEN /\ phase'[u] # "new"
                    /\ phase'[u] = "asleep" => grant'[u] = NotYet
               ELSE phase'[u] = "new" /\ grant'[u] = NotYet
    <3>0. u \in Nat
      BY DriveAssumption, FS_CardinalityType
    <3>1. CASE u = c
      BY <1>1, <1>3, <3>1
    <3>2. CASE u # c
      <4>1. u <= issued' <=> u <= issued
        BY <1>1, <1>3, <3>0, <3>2
      <4>2. phase'[u] = phase[u] /\ grant'[u] = grant[u]
        BY <1>1, <3>2
      <4> QED
        BY <1>2, <4>1, <4>2 DEF Bookkeeping
    <3> QED
      BY <3>1, <3>2
  <2> QED
    BY <1>7, <2>1, <2>2, <2>3 DEF Bookkeeping
<1>9. SeenInTime'
  <2> SUFFICES ASSUME NEW u \in Waiting', phase'[u] = "resolved"
               PROVE  wakeAt'[u] <= now' /\ now' < wakeAt'[u] + StepMicros * Micro
    <3>1. (StepMicros * Micro)' = StepMicros * Micro
      OBVIOUS
    <3> QED
      BY <3>1 DEF SeenInTime
  <2>1. CASE u = c
    <3>1. wakeAt'[c] = now
      BY <1>1, <2>1
    <3>2. StepMicros * Micro \in Nat \ {0}
      BY DriveAssumption, InstantsAssumption, SMTT(30)
    <3> QED
      BY <1>1, <2>1, <3>1, <3>2
  <2>2. CASE u \in Waiting
    <3>1. u \in Sleeps \ {c}
      BY <1>4, <1>6, <2>2
    <3> QED
      BY <1>1, <1>2, <2>2, <3>1 DEF SeenInTime
  <2> QED
    BY <1>6, <2>1, <2>2
<1>10. GrantsToTheStep'
  <2>1. ASSUME NEW u \in Admitted', grant'[u] # NotYet
        PROVE  wakeAt'[u] <= grant'[u] * Micro
               /\ grant'[u] * Micro < wakeAt'[u] + StepMicros * Micro
    <3>1. u \in 1..issued /\ u # c
      BY <1>1, <1>5, <2>1 DEF Admitted
    <3>2. u \in Sleeps \ {c}
      BY <1>4, <3>1
    <3>3. u \in Admitted /\ grant[u] # NotYet
      BY <1>1, <2>1, <3>1, <3>2 DEF Admitted
    <3> QED
      BY <1>1, <1>2, <3>2, <3>3 DEF GrantsToTheStep
  <2> QED
    BY <1>1, <1>2, <2>1 DEF GrantsToTheStep
<1>11. Owed' /\ AdmitsWithinRate'
  <2>1. kind \in Spaced \/ kind = "tokenBucket" \/ kind = "fixedWindow"
    BY <1>2 DEF Bookkeeping, Kinds, Spaced
  <2> QED
    BY <2>1, SpacedIssue, BucketIssue, WindowIssue
<1> QED
  BY <1>1, <1>8, <1>9, <1>10, <1>11 DEF DriveInv

\* The limiter and what it sold are as they were; time may have moved.
LEMMA SoldKept ==
    ASSUME Owed, AdmitsWithinRate, kind' = kind, script' = script, limiter' = limiter,
           issued' = issued, wakeAt' = wakeAt, Admitted' = Admitted,
           now \in Nat, now' \in Nat, now <= now'
    PROVE  Owed' /\ AdmitsWithinRate'
<1>1. kind = "tokenBucket" => limiter.last \in Nat /\ limiter.last <= now'
  BY DEF Owed, StateOK
<1>2. Owed'
  BY <1>1 DEF Owed, PermitsOf
<1>3. AdmitsWithinRate'
  BY DEF AdmitsWithinRate, KeepsRate, PermitsOf
<1> QED
  BY <1>2, <1>3

(***************************************************************************)
(* A stop: whoever has settled is taken off the count, and the moment      *)
(* noted is within a step of the moment it was let through.                *)
(***************************************************************************)
LEMMA FlushInv ==
    ASSUME DriveInv, Flush
    PROVE  DriveInv'
<1>1. /\ ManualInv /\ Bookkeeping /\ SeenInTime /\ GrantsToTheStep
      /\ Owed /\ AdmitsWithinRate
  BY DEF DriveInv
<1>2. /\ pc = "issue" /\ ~ Arrived
      /\ grant' = [c \in Sleeps |->
                     IF c \in Settled THEN Noted(c) ELSE grant[c]]
      /\ pending' = pending - Cardinality(Settled)
      /\ pc' = IF issued = Len(script) /\ pending' = 0 THEN "done" ELSE "move"
      /\ now' = now /\ sleepQueue' = sleepQueue /\ phase' = phase
      /\ wakeAt' = wakeAt /\ started' = started /\ woken' = woken
      /\ kind' = kind /\ limiter' = limiter /\ script' = script
      /\ nowMicros' = nowMicros /\ issued' = issued
  BY DEF Flush, vars
<1>3. ManualInv'
  <2>1. UNCHANGED vars
    BY DEF Flush
  <2> QED
    BY <1>1, <2>1, ManualNextInv
<1>4. /\ IsFiniteSet(Waiting) /\ Waiting \subseteq 1..issued /\ 1..issued \subseteq Sleeps
      /\ issued \in Nat /\ Len(script) \in Nat /\ issued <= Len(script)
      /\ pending = Cardinality(Waiting) /\ pending \in Nat
  BY <1>1, WaitingIsFinite DEF Bookkeeping
<1>5. Settled \subseteq Waiting /\ \A c \in Waiting \ Settled : phase[c] = "asleep"
  BY DEF Settled, Waiting
<1>6. /\ nowMicros \in Nat /\ now = nowMicros * Micro /\ now \in Nat
      /\ grant \in [Sleeps -> Nat \cup {NotYet, NotAtAll}]
      /\ NotYet \notin Nat /\ NotAtAll # NotYet
  <2>1. now \in 0..MaxTime
    BY <1>1 DEF ManualInv, TypeOK
  <2> QED
    BY <1>1, <2>1, InstantsAssumption DEF Bookkeeping, NotYet, NotAtAll
<1>7. \A c \in Sleeps :
        grant'[c] = IF c \notin Settled THEN grant[c]
                    ELSE IF phase[c] = "resolved" THEN nowMicros ELSE NotAtAll
  BY <1>2 DEF Noted
<1>8. Waiting' = Waiting \ Settled
  <2>1. \A c \in 1..issued : grant'[c] = NotYet <=> grant[c] = NotYet /\ c \notin Settled
    BY <1>4, <1>6, <1>7
  <2> QED
    BY <1>2, <2>1 DEF Waiting
<1>9. pending' = Cardinality(Waiting') /\ IsFiniteSet(Waiting')
  <2>1. Waiting \cap Settled = Settled
    BY <1>5
  <2> QED
    BY <1>2, <1>4, <1>8, <2>1, FS_Difference
<1>10. pc' = "done" => issued = Len(script) /\ pending' = 0 /\ Waiting' = {}
  BY <1>2, <1>9, FS_EmptySet
<1>11. Bookkeeping'
  <2>1. grant' \in [Sleeps -> Nat \cup {NotYet, NotAtAll}]
    BY <1>2, <1>6, <1>7
  <2>2. ASSUME NEW u \in Sleeps
        PROVE  IF u <= issued'
               THEN /\ phase'[u] # "new"
                    /\ phase'[u] = "asleep" => grant'[u] = NotYet
               ELSE phase'[u] = "new" /\ grant'[u] = NotYet
    <3>0. u \in Nat
      BY DriveAssumption, FS_CardinalityType
    <3>1. phase[u] = "asleep" \/ ~ (u <= issued) => u \notin Settled
      BY <1>4, <3>0 DEF Settled
    <3> QED
      BY <1>1, <1>2, <1>7, <3>1 DEF Bookkeeping
  <2>3. ~ Arrived'
    BY <1>2 DEF Arrived
  <2>4. \A c \in Waiting' : phase'[c] = "asleep"
    BY <1>2, <1>5, <1>8
  <2>5. issued' \in 0..Len(script')
    BY <1>2, <1>4
  <2>6. /\ kind' \in Kinds /\ script' \in Scripts /\ pc' \in {"issue", "move", "done", "gaveUp"}
        /\ nowMicros' \in Nat /\ now' = nowMicros' * Micro
    BY <1>1, <1>2 DEF Bookkeeping, Scripts
  <2>7. pc' = "done" => issued' = Len(script') /\ pending' = 0
    BY <1>2
  <2> QED
    BY <1>9, <2>1, <2>2, <2>3, <2>4, <2>5, <2>6, <2>7 DEF Bookkeeping
<1>12. SeenInTime'
  <2>1. \A c \in Waiting' : phase'[c] # "resolved"
    BY <1>2, <1>5, <1>8
  <2> QED
    BY <2>1 DEF SeenInTime
<1>13. Admitted' = Admitted
  BY <1>2 DEF Admitted
<1>14. GrantsToTheStep'
  <2>1. ASSUME NEW u \in Admitted, grant'[u] # NotYet
        PROVE  wakeAt[u] <= grant'[u] * Micro
               /\ grant'[u] * Micro < wakeAt[u] + StepMicros * Micro
    <3>1. u \in 1..issued /\ u \in Sleeps /\ phase[u] # "rejected" /\ phase \in [Sleeps -> Phases]
      BY <1>1, <1>4 DEF Admitted, ManualInv, TypeOK
    <3>2. CASE u \notin Settled
      BY <1>1, <1>7, <2>1, <3>1, <3>2 DEF GrantsToTheStep
    <3>3. CASE u \in Settled
      <4>1. phase[u] = "resolved" /\ u \in Waiting
        <5>1. phase[u] # "asleep" /\ phase[u] # "new"
          <6>1. u <= issued
            BY <1>4, <3>1
          <6> QED
            BY <1>1, <3>1, <3>3, <6>1 DEF Settled, Bookkeeping
        <5> QED
          BY <1>5, <3>1, <3>3, <5>1 DEF Phases
      <4>2. grant'[u] = nowMicros
        BY <1>7, <3>1, <3>3, <4>1
      <4> QED
        BY <1>1, <1>6, <4>1, <4>2 DEF SeenInTime
    <3> QED
      BY <3>2, <3>3
  <2>2. ASSUME pc' = "done", NEW c \in DOMAIN script
        PROVE  grant'[c] # NotYet
    <3>1. c \in 1..issued
      BY <1>1, <1>10, <2>2, ScriptFacts DEF Bookkeeping
    <3> QED
      BY <1>2, <1>10, <2>2, <3>1 DEF Waiting
  <2> QED
    BY <1>2, <1>13, <2>1, <2>2 DEF GrantsToTheStep
<1>15. Owed' /\ AdmitsWithinRate'
  BY <1>1, <1>2, <1>6, <1>13, SoldKept
<1> QED
  BY <1>3, <1>11, <1>12, <1>14, <1>15 DEF DriveInv

(***************************************************************************)
(* The way to the next stop is forward, and no more than a step while      *)
(* somebody is waiting.                                                    *)
(***************************************************************************)
LEMMA NextStop ==
    ASSUME DriveInv, pc = "move"
    PROVE  LET delta == WholeMicros(Target(NextArrival) - now)
           IN  /\ delta \in Nat /\ delta * Micro \in Nat
               /\ pending > 0 => delta * Micro <= StepMicros * Micro
<1> DEFINE way == Target(NextArrival) - now
           step == StepMicros * Micro
           stops == (way + Micro - 1) \div Micro
<1>1. Bookkeeping /\ ManualInv /\ ~ Arrived
  BY DEF DriveInv, Bookkeeping
<1>2. now \in Nat /\ now <= MaxTime /\ MaxTime \in Nat /\ Micro \in Nat \ {0}
  BY <1>1, InstantsAssumption DEF ManualInv, TypeOK
<1>3. StepMicros \in Nat \ {0} /\ step \in Nat
  BY <1>2, DriveAssumption, ProductIsNat
<1> HIDE DEF step
<1>4. NextArrival \in Nat /\ now <= NextArrival
  <2>1. CASE issued < Len(script)
    <3>1. issued + 1 \in 1..Len(script) /\ script \in Scripts
      BY <1>1, <2>1, WaitingIsFinite DEF Bookkeeping
    <3>2. script[issued + 1].at \in Nat
      BY <3>1, ScriptFacts
    <3>3. ~ (script[issued + 1].at <= now)
      BY <1>1, <2>1 DEF Arrived, Bookkeeping
    <3> QED
      BY <1>2, <2>1, <3>2, <3>3 DEF NextArrival
  <2>2. CASE ~ (issued < Len(script))
    BY <1>2, <2>2 DEF NextArrival
  <2> QED
    BY <2>1, <2>2
<1>5. way \in Nat /\ (pending > 0 => way <= step)
  BY <1>2, <1>3, <1>4 DEF Target, Least, step
<1> HIDE DEF way
<1>6. /\ stops \in Nat
      /\ pending > 0 => stops <= StepMicros
  <2> DEFINE x == way + Micro - 1
  <2>1. x \in Nat
    BY <1>2, <1>5
  <2>2. stops \in Nat /\ Micro * stops <= x
    BY <1>2, <2>1, Floor
  <2> HIDE DEF stops
  <2>3. ASSUME pending > 0, stops > StepMicros PROVE FALSE
    <3>1. StepMicros + 1 \in Nat /\ StepMicros + 1 <= stops
      BY <1>3, <2>2, <2>3
    <3>2. Micro * (StepMicros + 1) <= Micro * stops
      BY <1>2, <2>2, <3>1, ProductAscends
    <3>3. Micro * (StepMicros + 1) = step + Micro
      BY <1>2, <1>3, SMTT(30) DEF step
    <3>4. Micro * stops \in Nat
      BY <1>2, <2>2, ProductIsNat
    <3> QED
      BY <1>2, <1>3, <1>5, <2>1, <2>2, <2>3, <3>2, <3>3, <3>4
  <2> QED
    BY <1>3, <2>2, <2>3
<1> DEFINE delta == WholeMicros(way)
<1>7. delta = Most(1, stops)
  BY DEF WholeMicros
<1> HIDE DEF delta, stops
<1>8. delta \in Nat /\ (pending > 0 => delta <= StepMicros)
  BY <1>3, <1>6, <1>7 DEF Most
<1>9. delta * Micro \in Nat /\ (pending > 0 => delta * Micro <= StepMicros * Micro)
  BY <1>2, <1>3, <1>8, ProductIsNat, ProductAscends
<1> QED
  BY <1>8, <1>9 DEF delta, way

(***************************************************************************)
(* Time moves on: whoever is let through on the way had not been due.      *)
(***************************************************************************)
LEMMA MoveInv ==
    ASSUME DriveInv, Move
    PROVE  DriveInv'
<1> DEFINE delta == WholeMicros(Target(NextArrival) - now)
           jump == delta * Micro
<1>1. /\ ManualInv /\ Bookkeeping /\ SeenInTime /\ GrantsToTheStep
      /\ Owed /\ AdmitsWithinRate
  BY DEF DriveInv
<1>2. /\ pc = "move" /\ AdvanceBy(jump)
      /\ nowMicros' = nowMicros + delta
      /\ pc' \in {"gaveUp", "issue"}
      /\ kind' = kind /\ script' = script /\ limiter' = limiter
      /\ issued' = issued /\ pending' = pending /\ grant' = grant
  BY DEF Move
<1>3. delta \in Nat /\ jump \in Nat /\ (pending > 0 => jump <= StepMicros * Micro)
  BY <1>2, NextStop
<1> HIDE DEF delta
<1>4. ManualInv'
  <2> HIDE DEF jump
  <2> QED
    BY <1>1, <1>2, <1>3, AdvanceInv
<1>5. /\ now \in Nat /\ now' = now + jump /\ wakeAt' = wakeAt
      /\ phase \in [Sleeps -> Phases] /\ wakeAt \in [Sleeps -> Nat]
      /\ phase' \in [Sleeps -> Phases]
      /\ Asleep = {s \in Sleeps : phase[s] = "asleep"}
      /\ \A s \in Sleeps : phase'[s] = IF s \in Asleep /\ wakeAt[s] <= now + jump
                                       THEN "resolved" ELSE phase[s]
  <2> HIDE DEF jump
  <2>1. /\ now \in 0..MaxTime /\ phase \in [Sleeps -> Phases] /\ wakeAt \in [Sleeps -> Nat]
        /\ Asleep = {s \in Sleeps : phase[s] = "asleep"}
    BY <1>1 DEF ManualInv, TypeOK
  <2>2. phase' \in [Sleeps -> Phases]
    BY <1>4 DEF ManualInv, TypeOK
  <2>3. /\ now' = now + jump /\ wakeAt' = wakeAt
        /\ phase' = [s \in Sleeps |->
                       IF s \in {u \in Asleep : Due(u, now + jump)} THEN "resolved" ELSE phase[s]]
    BY <1>2 DEF AdvanceBy
  <2> HIDE DEF Asleep
  <2>4. \A s \in Sleeps : phase'[s] = IF s \in Asleep /\ wakeAt[s] <= now + jump
                                      THEN "resolved" ELSE phase[s]
    BY <2>3 DEF Due
  <2> QED
    BY <2>1, <2>2, <2>3, <2>4, InstantsAssumption
<1>6. \A s \in Sleeps : phase[s] = "asleep" => wakeAt[s] > now
  BY <1>1 DEF ManualInv, WokenInOrder, NobodyOverdue
<1>7. /\ IsFiniteSet(Waiting) /\ Waiting \subseteq 1..issued /\ 1..issued \subseteq Sleeps
      /\ issued \in Nat /\ pending = Cardinality(Waiting) /\ pending \in Nat
      /\ \A u \in Waiting : phase[u] = "asleep"
  BY <1>1, <1>2, WaitingIsFinite DEF Bookkeeping
<1>8. Waiting' = Waiting
  BY <1>2 DEF Waiting
<1>9. Waiting # {} => pending > 0
  BY <1>7, FS_EmptySet
<1>10. now \in Nat /\ now' \in Nat /\ now <= now'
  BY <1>3, <1>5
<1>11. Bookkeeping'
  <2>1. now' = nowMicros' * Micro /\ nowMicros' \in Nat
    <3>1. nowMicros \in Nat /\ now = nowMicros * Micro
      BY <1>1 DEF Bookkeeping
    <3>2. (nowMicros + delta) * Micro = nowMicros * Micro + delta * Micro
      BY <1>3, <3>1, InstantsAssumption, SMTT(30)
    <3> QED
      BY <1>2, <1>3, <1>5, <3>1, <3>2
  <2>2. /\ kind' \in Kinds /\ script' \in Scripts /\ pc' \in {"issue", "move", "done", "gaveUp"}
        /\ issued' \in 0..Len(script')
        /\ grant' \in [Sleeps -> Nat \cup {NotYet, NotAtAll}]
    BY <1>1, <1>2 DEF Bookkeeping, Scripts
  <2>3. pending' = Cardinality(Waiting')
    BY <1>2, <1>7, <1>8
  <2>4. \A u \in Sleeps :
          IF u <= issued'
          THEN /\ phase'[u] # "new"
               /\ phase'[u] = "asleep" => grant'[u] = NotYet
          ELSE phase'[u] = "new" /\ grant'[u] = NotYet
    <3> TAKE u \in Sleeps
    <3>1. /\ phase'[u] = "new" <=> phase[u] = "new"
          /\ phase'[u] = "asleep" => phase[u] = "asleep"
      BY <1>5
    <3> QED
      BY <1>1, <1>2, <3>1 DEF Bookkeeping
  <2>5. pc' # "move" /\ pc' # "done"
    BY <1>2
  <2> QED
    BY <2>1, <2>2, <2>3, <2>4, <2>5 DEF Bookkeeping
<1>12. SeenInTime'
  <2> DEFINE step == StepMicros * Micro
  <2> SUFFICES ASSUME NEW u \in Waiting, phase'[u] = "resolved"
               PROVE  wakeAt[u] <= now' /\ now' < wakeAt[u] + step
    BY <1>5, <1>8 DEF SeenInTime
  <2>1. u \in Sleeps /\ phase[u] = "asleep" /\ wakeAt[u] > now /\ wakeAt[u] <= now'
    BY <1>5, <1>6, <1>7
  <2>2. jump <= step /\ step \in Nat
    BY <1>3, <1>9, ProductIsNat, DriveAssumption, InstantsAssumption
  <2> HIDE DEF jump, step
  <2> QED
    BY <1>3, <1>5, <2>1, <2>2
<1>13. Admitted' = Admitted
  <2>1. \A u \in 1..issued : phase'[u] = "rejected" <=> phase[u] = "rejected"
    BY <1>5, <1>7
  <2> QED
    BY <1>2, <2>1 DEF Admitted
<1>14. GrantsToTheStep'
  BY <1>1, <1>2, <1>5, <1>13 DEF GrantsToTheStep
<1>15. Owed' /\ AdmitsWithinRate'
  BY <1>1, <1>2, <1>5, <1>10, <1>13, SoldKept
<1> QED
  BY <1>4, <1>11, <1>12, <1>14, <1>15 DEF DriveInv

\* Nobody has come yet, and every limiter starts in a state of its own.
LEMMA DriveInitInv == DriveInit => DriveInv
<1> SUFFICES ASSUME DriveInit PROVE DriveInv
  OBVIOUS
<1>1. /\ Init /\ kind \in Kinds /\ limiter = NewLimiter(kind) /\ script \in Scripts
      /\ pc = "issue" /\ nowMicros = 0 /\ issued = 0 /\ pending = 0
      /\ grant = [c \in Sleeps |-> NotYet]
      /\ now = 0 /\ phase = [s \in Sleeps |-> "new"]
  BY DEF DriveInit, Init
<1>2. ManualInv
  BY <1>1, ManualInitInv
<1>3. 1..issued = {} /\ Waiting = {} /\ Admitted = {}
  BY <1>1 DEF Waiting, Admitted
<1>4. Len(script) \in Nat
  BY <1>1, ScriptFacts
<1>5. Bookkeeping
  <2>1. now = nowMicros * Micro
    BY <1>1, InstantsAssumption
  <2>2. pending = Cardinality(Waiting)
    BY <1>1, <1>3, FS_EmptySet
  <2>3. \A c \in Sleeps : ~ (c <= issued)
    BY <1>1, DriveAssumption, FS_CardinalityType
  <2>4. issued \in 0..Len(script)
    BY <1>1, <1>4
  <2> QED
    BY <1>1, <2>1, <2>2, <2>3, <2>4 DEF Bookkeeping
<1>6. SeenInTime /\ GrantsToTheStep /\ AdmitsWithinRate
  BY <1>1, <1>3 DEF SeenInTime, GrantsToTheStep, AdmitsWithinRate
<1>7. StateOK(kind, limiter) /\ (kind = "tokenBucket" => limiter.last <= now)
  <2>1. CASE kind \in {"fixedRate", "pacer"}
    BY <1>1, <2>1 DEF NewLimiter, NewFixedRate, StateOK, Spaced
  <2>2. CASE kind = "tokenBucket"
    <3>1. limiter = [tokens |-> Capacity * Interval, last |-> 0]
      BY <1>1, <2>2 DEF NewLimiter, NewTokenBucket
    <3>2. Capacity * Interval \in Nat
      BY BaselinesAssumption, SharedCurve, ProductIsNat
    <3> QED
      BY <1>1, <2>2, <3>1, <3>2 DEF StateOK, Spaced
  <2>3. CASE kind = "fixedWindow"
    BY <1>1, <2>3 DEF NewLimiter, NewFixedWindow, StateOK, Spaced
  <2>4. CASE kind \in {"warmup", "composed"}
    <3>1. limiter = [stored |-> FullPot(K), nextFree |-> 0]
      BY <1>1, <2>4 DEF NewLimiter, ColdState
    <3> QED
      BY <2>4, <3>1, SharedCurve DEF StateOK
  <2> QED
    BY <1>1, <2>1, <2>2, <2>3, <2>4 DEF Kinds
<1>8. Owed
  BY <1>3, <1>7 DEF Owed
<1> QED
  BY <1>2, <1>5, <1>6, <1>8 DEF DriveInv

LEMMA DriveNextInv == DriveInv /\ [DriveNext]_allVars => DriveInv'
<1> SUFFICES ASSUME DriveInv, [DriveNext]_allVars PROVE DriveInv'
  OBVIOUS
<1>1. CASE UNCHANGED allVars
  <2>1. /\ UNCHANGED vars /\ now' = now /\ phase' = phase /\ wakeAt' = wakeAt
        /\ kind' = kind /\ limiter' = limiter /\ script' = script /\ pc' = pc
        /\ nowMicros' = nowMicros /\ issued' = issued /\ pending' = pending /\ grant' = grant
    BY <1>1 DEF allVars, vars, driveVars
  <2>2. ManualInv'
    BY <2>1, ManualNextInv DEF DriveInv
  <2>3. Waiting' = Waiting /\ Admitted' = Admitted /\ Arrived' = Arrived
    BY <2>1 DEF Waiting, Admitted, Arrived
  <2>4. Bookkeeping'
    BY <2>1, <2>3 DEF DriveInv, Bookkeeping, Scripts
  <2>5. SeenInTime'
    BY <2>1, <2>3 DEF DriveInv, SeenInTime
  <2>6. GrantsToTheStep'
    BY <2>1, <2>3 DEF DriveInv, GrantsToTheStep
  <2>7. Owed' /\ AdmitsWithinRate'
    <3>1. now \in Nat
      BY InstantsAssumption DEF DriveInv, ManualInv, TypeOK
    <3> QED
      BY <2>1, <2>3, <3>1, SoldKept DEF DriveInv
  <2> QED
    BY <2>2, <2>4, <2>5, <2>6, <2>7 DEF DriveInv
<1> QED
  BY <1>1, IssueInv, FlushInv, MoveInv DEF DriveNext, Ended

(***************************************************************************)
(* DriveInv holds of every drive, of any script, limiter, step and unit.   *)
(***************************************************************************)
THEOREM DriveInvariant == DriveSpec => []DriveInv
<1>1. DriveInv /\ [DriveNext]_allVars => DriveInv'
  BY DriveNextInv
<1> QED
  BY <1>1, DriveInitInv, PTL DEF DriveSpec

(***************************************************************************)
(* Whoever comes when, each limiter lets through no more than its rate     *)
(* allows.                                                                 *)
(***************************************************************************)
THEOREM RatesAreKept == DriveSpec => []AdmitsWithinRate
<1>1. DriveInv => AdmitsWithinRate
  BY DEF DriveInv
<1> QED
  BY <1>1, DriveInvariant, PTL

(***************************************************************************)
(* The grant times a drive reports are those of its clock, rounded up by   *)
(* less than a step, and a drive that is done has one for every caller.    *)
(***************************************************************************)
THEOREM GrantsAreToTheStep == DriveSpec => []GrantsToTheStep
<1>1. DriveInv => GrantsToTheStep
  BY DEF DriveInv
<1> QED
  BY <1>1, DriveInvariant, PTL

=============================================================================
