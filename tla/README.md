# Verification of slow-start

TLA+ models of slow-start: its limiters, queue, clocks, metrics window and
adapters, the driver of its benchmarks and the script that publishes it. TLC
runs check them on small instances. TLAPS proofs establish every safety
property and every refinement those runs check, of the queue, the pacer, both
limiters with a warm-up, the metrics window, both clocks, the adapters, the
benchmark driver and the publishing script, for every value of their constants;
liveness is left to TLC. Paths in the text are relative to the repository's
`src/`, but those under `test/`, `bench/` and `scripts/` to the repository.

## 1. The system

Everything runs on one JavaScript thread: a handler (a call up to its first
`await`, a promise callback, an abort listener) runs to its end. What is hard
is therefore not shared memory but everything that happens *between* handlers:
a sleep that has resolved but whose `.then` has not run, an abort in that gap,
a caller that arrives in that gap, and a clock that moves on between two
readings of one handler. The one part that keeps something on disk, and so can
die half way, is the publishing script.

| Component | State | Operations | Talks to |
|---|---|---|---|
| `clock/clock.ts` | – (interface) | `now()`, `sleep(nanos, signal)` | implemented by the two clocks, used by everything |
| `clock/manual-clock.ts` | `nanos`, `sleepQueue` | `advance`, `sleep`, abort | tests |
| `clock/system-clock.ts` | one timer per sleep | `sleep`, `check`, abort | `process.hrtime`, `setTimeout` |
| `pacing/wait-queue.ts` | `queue`, `head`, `waiting`, `armed` | `wait`, `onAbort`, `reset`, `arm`, `drain`, the two handlers of a sleep | a clock; promises of its callers |
| `pacing/slot.ts`, `pacing-constants.ts` | `nextSlotMicros` | `waitForNextSlotMicros`, `reserveSlot`, `checkBounds`, derivation | the pacer, `errors.ts` |
| `pacing/pacer.ts` | the slot state, a WaitQueue | `acquire`, `tryAcquire` | its queue, a clock |
| `pacing/queued-limiter.ts` | a WaitQueue | `acquire`, `tryAcquire` | a `Scheduler` (`core/scheduler.ts`), its queue, a clock |
| `warmup/constants.ts`, `cost.ts`, `state.ts`, `reserve.ts` | `storedPermits`, `nextFreeTicketMicros` | `deriveConstants`, `storedPermitsToWaitTime`, `resync`, `reserve` | pure functions |
| `warmup/smooth-warming-up.ts`, `warmup-limiter.ts` | that state | `acquire`, `tryAcquire`, `peekWaitMicros`, `reserveMicros` | a clock; a scheduler for `QueuedLimiter` |
| `metrics/rolling-window.ts`, `window-constants.ts` | the ring of buckets | `record`, `snapshot` | a clock |
| `adapters/`, `core/errors.ts` | – (an error's fields) | `attempt`, `guard`, `expressRateLimit` | any limiter, Express |
| rest of `core/` | – | validation, result types | everyone |
| `bench/lib/drive.mjs`, `baselines.mjs`, `bench/scenarios.mjs` | the driver's time, counts and records; each limiter's | `drive`, `acquire` of three textbook limiters | a `ManualClock`, any limiter |
| `scripts/swap-readme.mjs` | two files of the working tree | `swap`, `restore` | npm, the file system |
| the rest of `bench/` and `scripts/` | – | reports, plots, timings, file comparisons | – |

What makes each correct:

* **Clocks**: no sleep resolves early, every sleep ends, an aborted sleep
  leaves nothing behind; `ManualClock` wakes in an order tests can rely on.
* **WaitQueue**: nobody is forgotten (there is always a timer that will look
  at the head), nobody is released early or out of order, the counter is right
  (it decides when the queue is thrown away), one timer at most is live.
* **Pacer**: no stretch of the timeline is sold twice, idle time buys no
  burst, nobody proceeds before its slot, the bounds hold, a refusal leaves no
  trace.
* **QueuedLimiter**: what was checked (a peek), what was reserved and what is
  served (the queue) agree, although each reads the clock for itself.
* **WarmupLimiter**: the cost is the area under the curve; the warm-up cannot be
  beaten by splitting, spreading or cancelling calls; `tryAcquire` keeps its
  timeout.
* **RollingWindow**: a snapshot equals what a log of all writes would say.
* **Adapters**: each request is answered, with what its call has earned by
  then (a stretch that has begun, a refusal, or another failure), and a
  `Retry-After` is neither too short nor needlessly long.
* **Benchmark driver**: the recorded grant times are right to the step, each
  limiter in the comparison keeps its own rate, and a drive ends.
* **Publishing**: whatever dies between two packs, the full README is not lost
  and the short one is what is packed.

## 2. Modules

```
Instants ---------- time, clock readings inside a handler
 |-- WaitQueue ---- the queue and its sleeps          (=> HoldingLine)
 |    '-- BoundedQueue -- the two bounds
 |         |-- Pacer -- slots, acquire()              (=> Admission)
 |         |    '-- Adapters -- guard, Express, tryAcquire()
 |         '-- QueuedLimiter -- with a warm-up        (=> Admission)
 |-- WarmupLimiter -- sleeps for itself               (=> Admission)
 |-- RollingWindow
 '-- Clock -------- the promises of sleeps
      |-- SystemClock                                 (=> ClockContract)
      '-- ManualClock                                 (=> ClockContract)
           '-- Drive -- the benchmark driver, with the limiters of Baselines
SmoothWarmingUp --- the arithmetic of QueuedLimiter, WarmupLimiter, Baselines
Listing ----------- a set in an order, for WaitQueue and ManualClock
SwapReadme -------- the publishing script

ArithmeticProofs -- about Instants, SmoothWarmingUp, Listing, sums over sets
 |-- WaitQueueProofs
 |    |-- PacerProofs -- Pacer and Adapters
 |    '-- QueuedLimiterProofs
 |-- WarmupProofs
 |-- RollingWindowProofs
 '-- ClockProofs -- SystemClock, ManualClock and Drive
SwapReadmeProofs
```

`=>` is refinement, checked by TLC through `INSTANCE ... WITH` and proved.
`MC*` modules only add symmetry and constant values.

**Time.** One tick stands for a nanosecond; `now` is the clock less the origin
of the object that reads it. `NowMicros` truncates to `Micro` ticks, as every
`nowMicros()` does. A handler that reads the clock n times picks an ascending
tuple from `Reads(n)`: the clock may move up to `MaxGap` ticks inside it. (A
`ManualClock` does not, a `SystemClock` does; both are behaviours of the
model.) Microsecond quantities are kept in ticks. A wait may have a fraction
of a microsecond, so grants and slots need not be multiples of `Micro`. In
WarmupLimiter it may have a fraction of a nanosecond as well: tickets there are
counted in units, `Grain` to a tick, and `SleepTime` is the `Math.ceil` of
warmup-limiter.ts:68. The queue's grants are whole ticks, so that the
`Math.ceil` of wait-queue.ts:100 is the identity in WaitQueue; a sleep cut short
there lets nobody go early, because `drain()` looks at the clock again.

**WaitQueue.** `queue`, `head`, `waiting` and `armed` are the code's fields;
an entry is the name of its call, `cancelled` is `status = "aborted"`, and
`grant` holds the `grantMicros`. A sleep is named after the call whose arm()
started its chain; `drain()` re-arms under the name of the sleep that woke it.
A name is never used by two sleeps at once, because a new one is only started by a new call or
by the handler of the sleep it continues.
Two steps settle a sleep, as promises do: `TimerFire` (or the abort inside
`Reset`), then `TimerThen` or `TimerCatch`, with anything in between. Aborting
a sleep that has already resolved changes nothing. A call's signal is its own;
a signal shared by several calls runs their listeners one after the other,
which is a sequence of `Abort` steps.

**BoundedQueue, Pacer, QueuedLimiter.** The owners extend the queue's module and
share its variables; their call of `acquire()` replaces `Wait`. One call is one action
(`Fail`, `Refuse`, `Pass`, `Queue`) because nothing in it awaits before the
queue's own promise. `tryAcquire()` is the same call with the refusal as a
value (see Adapters). `slot`, `permits` and `agreed` are history. In QueuedLimiter the
scheduler's origin is `Lead` ticks before the queue's. Its scheduler is the
warm-up limiter; `maxPermitsPerCall` is left to WarmupLimiter.

**SmoothWarmingUp.** Permits in the pot are counted in *shares*, `coolDown`
shares to a permit, so that a tick of idle time earns one share and the
arithmetic is exact in integers. This needs options whose derived constants are
whole (`WholeOptions`); a cost is rounded down to a tick, an area (`AreaOf`)
is exact. Its ticks are WarmupLimiter's units. Rounding of doubles is not
modelled.

**WarmupLimiter.** Each call sleeps for itself: `Acquire` (two readings),
`TryAcquire` (three), `TryRefuse`, `Wake`, `Abort`, `Fail`. The options,
tickets and timeouts are in units, the clock and its sleeps in ticks. `MaxSafe`
stands for `Number.MAX_SAFE_INTEGER`, in units too, from which
`MaxPermitsPerCall` is derived as in the code.

**RollingWindow.** The ring, with `Never` for `NEGATIVE_INFINITY`; `log` is
history. A snapshot changes nothing, so it is an operator of the instant, and
the invariants quantify over every later instant.

**ManualClock, SystemClock.** Both extend Clock, which has the phases of a
sleep's promise and the contract. `advance()` resolves promises synchronously
and is one action. What it leaves asleep, what it sorts, and what an abort
leaves are sets of sleepers `Listed` in an order: that of the queue, or that of
waking, ties as queued, which is what a stable sort makes of it. `setTimeout`
is external: its timers keep a clock of whole milliseconds (`TimerMillis`) and
fire when so many of them have begun, which may be almost a whole millisecond
early by hrtime, or at any later time; and after 1 ms when asked for more than
`MAX_TIMEOUT_MS`. `asked` is history: the nanoseconds each sleep was called
with, which is what ClockContract measures `wakeAt` by. WaitQueue's
`TimerFire`, `Reset` and WarmupLimiter's `Wake`, `Abort` use of a clock only
what ClockContract says.

**Adapters.** A request is one call of `acquire()` (`Ask`), made at once by
its wrapper: `expressRateLimit()` over `attempt()`, `guard()`, or the pacer's
`tryAcquire()`. The wrapper's continuation is an action of its own (`Answer`),
for it runs in a later microtask; `error` is the `RateLimitRejectedError` and
`RetryAfter` the two roundings up, to milliseconds in `attempt()` and to
seconds in the middleware. The limiter is a Pacer: a WarmupLimiter's
`acquire()` never refuses, so a middleware over it never answers 429, and a
QueuedLimiter refuses by the same `checkBounds`.

**Baselines, Drive.** A limiter under the driver is a function from its state,
the permits and the time to the state it leaves and the sleep it asks for.
Drive composes it with ManualClock's own `SleepFor` and `AdvanceBy`, and cuts
the loop where it awaits: `Issue` (step 1, one caller at a time), `Flush` (step
2, all callbacks that have become ready), `Move` (steps 3 and 4). `nowMicros`
is the driver's count beside the clock's. The limiters are those of
`factories` and the composed one of scenario 7; Pacer and QueuedLimiter appear
as the stretches they sell, because under a clock that stands at whole
microseconds and without cancellations their queue holds a caller as a sleep of
its own would.

**SwapReadme.** One action for each call that changes the file system; a copy
is two, for it may stop half way. `Die` is a process killed, or a call that
fails, before any of them; `Edit` and `Checkout` are what a maintainer does
between packs: work on the README, or notice that it is gone and restore it by
hand. A file is represented by what is in it: the npm README, half of it, or a
version of the full one. `readdirSync(...).find` picks any of the spellings
that are there.

Abstract specifications:

* **HoldingLine**: a line of callers who leave from the front when due, or
  from anywhere by cancelling. No timers, tombstones, array or counter.
* **Admission**: every limiter sells stretches of one timeline at no less than
  `Price` a permit, never overlapping, never in the past; a call goes through
  once its stretch has begun; a refused call leaves no trace. `Lag` and
  `Early` say how many ticks truncation may cost: `Lag = Micro - 1`
  everywhere (in WarmupLimiter as many units), `Early = 0` for Pacer and
  WarmupLimiter, `Micro - 1` for QueuedLimiter.
* **ClockContract**: `clock.ts`. A sleep of `n > 0` nanoseconds called at some
  moment of a step does not resolve before `moment + n`; one of zero or less
  resolves at once; an abort rejects it; it settles once.

The operators under "Slips" in each module are what a definition would be with
one plausible mistake; no behaviour uses them. Each checked property fails
when one of them replaces the definition it mimics.

## 3. Runs

| Run | Checks | Instance |
|---|---|---|
| `queue` | `TypeOK`, `HeadIsCovered`, `QueueMatchesCallers`, `ArrivalOrder`, `ImplementsHoldingLine`, `EveryoneLeaves` | 3 calls, 2 of which may cancel; fairness |
| `queue_timer` | **violated**: `SingleTimer` | 3 calls |
| `pacer` | `SlotsDisjoint`, `NeverEarly`, `DepthBounded`, `BacklogFitsDelay`, `OvertakesOnlyTheOverdue`, `ImplementsAdmission` | 4 calls of 1 or 2 permits (or 0, refused), depth 2 |
| `pacer_dues` | **violated**: `DueInOrder` | 3 calls |
| `limiter` | `AgreedWaitKept`, `GrantIsTicket`, `ImplementsAdmission` | 4 calls, origins a tick apart |
| `warmup` | `TypeOK`, `NoFasterThanCold`, `AreaIsIntegral`, `OneCallIsExact`, `SlotBeforeDeadline`, `WakesAtSlot`, `ImplementsAdmission` | 3 calls of 1, 2 or 5 permits (or 0), pot of 4, tickets in half ticks |
| `window` | `TypeOK` (with the ring's shape), `SnapshotIsLog` | 3 buckets, 3 writes, more than two laps |
| `manual_clock` | `TypeOK`, `WokenInOrder`, `ImplementsClock` | 4 sleeps |
| `system_clock` | `SystemTypeOK`, `ChecksAreFew`, `ImplementsClock`, `EverySleepEnds` | 2 sleeps, a millisecond of 3 ticks, several capped timers in a row; fairness |
| `bench` | `AdmitsWithinRate`, `GrantsToTheStep`, `Finishes` | every script of up to 4 callers of 1 or 3 permits, 6 limiters |
| `adapters` | `RetryIsTimely`, `ZeroMeansOverdue`, `AnswersAreEarned`, `EveryoneAnswered` | 3 requests, a queue of one; fairness |
| `publish` | `FullReadmeSurvives`, `PackDoesItsJob` | both spellings, any number of packs, 3 versions |

The types of the pacer and of the adapters are proved (section 5) and in no
run: what of them could go wrong is `TypeOK` of the queue.

**Bounds.** `MaxTime` stops the clock and `MaxGap` limits how far it moves in a
handler; `Wait`, `Start` and `Sleep` only start sleeps that end before
`MaxTime`. `MaxRecords` limits the writes to the window, `MaxVersion` the
edits of the README. Each call is made
once. They are enough for the cases that matter: with three callers a queue
can be drained in part (head advances without compaction), compacted, emptied
by its last canceller while a stale handler is pending, and refilled in
between; `Micro = 2` with `MaxGap = 1` is the least that tells truncated from
true time and lets two readings fall in different microseconds; waits of an
odd number of ticks give grants between two microseconds. In `pacer` the
delay bound is two intervals and one timeout exceeds it, so that cancelled
callers, whom the depth bound does not count, can fill the timeline up to it.
`warmup` has a pot of four permits with its threshold at two, time enough to
refill between calls, and a `MaxSafe` so small that five permits are one too
many; its stable interval is one and a half ticks, so that tickets fall between
two nanoseconds. In `system_clock` a timer is early by up to two thirds of a
millisecond, and the longest sleep outlasts two capped timers. In `bench` the interval is an odd number of ticks, so that callers come
due between two microseconds, and scripts reach past `MaxMicros`, so that the
driver has to give up. In `adapters` a second is four ticks and the queue holds
one caller, so that refusals by depth and by delay, with a `Retry-After` of 0
and above, all occur; the clock stands still inside a handler there (`MaxGap`
= 0), which `pacer` covers. `publish` has no bound on the number of packs and
crashes. The theorems of section 5 do not depend on these bounds.

**Symmetry** permutes calls (or sleeps) that are all alike, in runs that check
invariants and step properties only.

**Deadlock** is checked except in `window`, which stops once the clock and the
writes are used up, and in `queue`, `system_clock` and `adapters`, where a
caller stuck for ever is what `EveryoneLeaves`, `EverySleepEnds` and
`EveryoneAnswered` would report. The queue's actions are checked for deadlock
in `pacer` and `limiter`.

**Fairness.** `EveryoneLeaves`, `EverySleepEnds` and `EveryoneAnswered` assume weak fairness of the
passing of time, of the clock resolving a due sleep (ClockContract: late, but
not never; `system_clock` shows that SystemClock does, given that due timers
fire) and of the runtime running a pending handler or microtask. Nothing is
assumed of callers: they may never come and never cancel. `Finishes` assumes
only that the event loop goes on running the driver.

## 4. What the runs found

* `queue_timer`: **two timers can be live.** The rejection handler of an
  aborted sleep (wait-queue.ts:109-112) clears `armed` unconditionally.
  `reset()` has cleared it already, so the handler can only hit the controller
  of a newer sleep. The last caller cancels; before the handler's microtask a
  new caller queues and arms; the handler forgets that sleep; the next caller
  arms another. Callers are not harmed (`HeadIsCovered`, `EveryoneLeaves`
  hold), but "at most one timer is ever live" (repository README, line 267) is
  false and a later `reset()` cannot abort the forgotten sleep.
* `pacer_dues`: grant times are not always non-decreasing, contrary to
  wait-queue.ts:18-19 and the repository README, line 267: `acquire()` and
  `wait()` read the clock separately. Callers still leave in arrival order
  (`ArrivalOrder`), the later one a little late.

Things that look like faults and are bounded by a property:

* a QueuedLimiter's queue truncates its own clock and so holds up to a
  microsecond less than the wait it was told; wait-queue.ts:12-13 and
  test/pacing/queued-limiter.test.ts:52 say exactly as long. `GrantIsTicket`:
  less than a microsecond, whatever the origins. A Pacer is immune, as its
  slots are counted on the same truncated clock (`NeverEarly`).
* a caller of a Pacer who need not wait does not look at the queue
  (pacer.ts:71-74) and overtakes callers still held because the timer is late.
  `OvertakesOnlyTheOverdue`: each of them was due a whole stretch ago or more.
* a WarmupLimiter's calls sleep for themselves, so a pause between reservation
  and sleep (warmup-limiter.ts) can make an earlier caller wake after a later
  one. `WakesAtSlot`: its sleep is late by that pause at most and less than a
  microsecond for the truncation of the clock, and never early.
* express.ts:52-53 wants no client told to retry in 0 s, and errors.ts says
  that after a refusal by depth "retrying immediately will not help", yet such
  a refusal can carry a wait of 0. `ZeroMeansOverdue`: only while everyone in
  the full queue is overdue, that is, the queue empties as soon as its timer's
  handler runs.
* a backup left by a pack that died is put back over whatever bears the name
  by then (swap-readme.mjs:41-46), a README restored by hand and edited since
  included. `FullReadmeSurvives` says what is safe all the same: everything, as
  long as nobody restores by hand (run `restore` instead); and some version of
  the full README even then, unless the process died while no file bore the
  name and left half a copy under the other spelling.

## 5. Proofs

Each theorem holds for every value of the constants that the named ASSUMEs of
the modules allow: any set of calls, waits, permits and timeouts, any interval,
bounds and grain of the clock, any options with whole constants. Where a module
of proofs extends several models, a proof uses the assumptions of its own model
and of those it extends, and no other: the clocks' do not use that Drive's
sleeps are numbered.

* WaitQueue (`WaitQueueProofs`): `QueueTypeOK`, `NobodyForgotten`,
  `CounterIsExact`, `ReleasedInOrder`, from
  `QueueInvariant == Spec => []IndInv`; `QueueKeepsPromise`: it implements
  HoldingLine.
* Pacer (`PacerProofs`): `PacerTypes`, `NoStretchSoldTwice`, `NobodyIsEarly`,
  `LineFollowsTimeline`, `DepthIsBounded`, `OvertakenAreOverdue`, from
  `PacerInvariant == PacerSpec => []PacerInv`; `BacklogIsBounded`;
  `PacerOwnsQueue` (a pacer's behaviours are its queue's, so every theorem on
  the queue holds of it, as in `PacerReleasesInOrder`); `PacerKeepsPromise`:
  it implements Admission.
* Adapters (`PacerProofs`): `AdaptersOnlyAsk` (their behaviours are the
  pacer's, so its theorems hold of them), `RetriesAreTimely`,
  `ZeroIsForTheOverdue`, `EveryAnswerIsEarned`.
* QueuedLimiter (`QueuedLimiterProofs`): `AgreementsAreKept`,
  `GrantsAreTickets`, `LimiterDepthBounded`, `LimiterReleasesInOrder`, from
  `LimiterInvariant == LimiterSpec => []LimiterInv`; `LimiterKeepsPromise`: it
  implements Admission.
* WarmupLimiter (`WarmupProofs`): `WarmupTypes`, `WarmupCannotBeBeaten`,
  `ChargesTheArea`, `EveryCallIsExact`, `SleepersAreOnTime`,
  `SleepersWakeAtSlot`, from `WarmupInvariant == Spec => []WarmupInv`;
  `WarmupKeepsPromise`: it implements Admission at the stable interval.
* RollingWindow (`RollingWindowProofs`): `RingKeepsShape`, `SnapshotsAreExact`,
  and `TimeNeverRunsBack` (the branch of `wentBackwards` is never taken while
  the clock does not run back), from
  `WindowInvariant == Spec => []WindowInv`.
* SystemClock (`ClockProofs`): `TimersAreTidy`; `ChecksStayFew`, from
  `ClockInvariant == SystemSpec => []ClockInv`; `AnyTimersMakeAClock`: it
  implements ClockContract, even over timers that fire at any time at all
  (`AnyTimerSpec`), of which `SystemClockIsClock` is the case of the runtime's.
* ManualClock (`ClockProofs`): `SleepersAreTidy`, `WakesInOrder`, from
  `ManualInvariant == Spec => []ManualInv`; `ManualClockIsClock`: it implements
  ClockContract.
* Drive (`ClockProofs`): `RatesAreKept`, `GrantsAreToTheStep`, from
  `DriveInvariant == DriveSpec => []DriveInv`.
* SwapReadme (`SwapReadmeProofs`): `ReadmeSurvives`, `PacksDoTheirJob`, for any
  number of edits.

*The queue's invariant.* `HeadIsCovered` alone is not inductive: `arm()` does
nothing when `armed` is set, so one must know that an armed sleep really covers
the present head (`ArmedIsForHead`). That survives a stale handler only
because such a handler clears `armed` rather than setting it, and because the
sleep it forgets stays live. `Reset` keeps both since it empties the queue,
and it does so at the right moment only if the counter is exact
(`QueueMatchesCallers`), which needs that a call has one entry at most
(`OneEntryEach`) and that names of sleeps are fresh (`NewIsIdle`). `Held` is
finite because every caller in it queued, whence `IsFiniteSet(Held)` for the
counting. One lemma per handler shows that `IndInv` is kept; `arm()`, which
three of them end with, has its own (`ArmCovers`).

*The queue's refinement.* HoldingLine's line is the callers held, `Listed` in
the order of their entries. A listing is unique (`ListingIsUnique`), so that a
step is shown to be an abstract one by giving the list it should leave: a
caller who queues is appended (`ListedAppend`), a drain takes away a prefix
(`ListedPrefix`), a caller who cancels is taken out of the middle
(`ListedWithout`). Compaction, tombstones and every handler of a sleep that
lets nobody go leave the line as it was.

*The pacer's invariant* adds `HandedOver` (a call is in the queue exactly if
its outcome says so), `SoldToTheEnd` (every stretch ends at `nextSlot` or
earlier), from which `SlotsDisjoint` and `QueuedInSlotOrder` follow for the
next stretch, and `GrantIsSlot`, from which `NeverEarly` follows when the
queue releases. Steps that only settle queued callers share one lemma
(`SettlingInv`). `BacklogFitsDelay` counts the entries of the queue, cancelled
ones too. What `checkBounds` lets in is sold within `MaxDelay` of the clock
(`SoldWithinDelay`), and entries are an interval apart; so the distances from
now, divided by the interval, are different for any two of them
(`QuotientsApart`), and there are only so many quotients.

*The pacer's refinement* maps the initial state to Admission's, each `Pass` and `Queue` to `Admit`,
a drain to `GoThrough`, an abort to `GiveUp`, a refusal to a stutter or the
passing of time. QueuedLimiter's does the same, its instants shifted by `Lead`.

*The adapters* carry along, for each refusal, when it was thrown and what was
sold by then (`ErrorsAreTrue`). Time and `nextSlot` only move forward, so that a
client who comes back later finds the slot past unless someone bought it; who is
still held was sold a stretch that ends by `nextSlot` (`SoldToTheEnd`). That a
call is sold a stretch exactly when it is admitted (`SoldIfAdmitted`,
`SoldToTheEnd`) and has an error exactly when it is refused (`ErrorIfRefused`)
is what `AnswersAreEarned` needs, with `NeverEarly`, to hold when an answer is
given and not only some time after.

*The queued limiter's invariant* is the queue's with `AgreedWaitKept` and
`GrantIsTicket`, which tie the queue's grants to the scheduler's tickets. A
call that queues reads the clock five times, on two origins: to peek, to
reserve, and three times in the queue, once for the grant. The wait reserved is
no more than the wait peeked, because it only shrinks as time passes
(`WaitShrinks`); the two truncations differ by less than a microsecond, and the
readings by no more than the clock moves in a handler.

*The warm-up limiter.* `NoFasterThanCold` compares the ticket with the area
that all permits sold so far have under one full pot. A sale from a pot that is
not full must not be cheaper than the same permits would be further down that
one pot; this holds only because the pot cannot be emptier than the sales have
made it (`PotHoldsTheRest`: what has left the pot is no more than what has been
sold), the one strengthening `WarmupInv` needs for it. What the argument uses of
the curve is in `ArithmeticProofs`, as lemmas on integers: the area is additive,
it grows with the pot it is taken from, it is never below the stable interval,
and an idle tick adds at most the share it is worth. `AreaIsIntegral` and
`OneCallIsExact` need the types alone and the closed form: a full pot costs one
and a half warm-up periods for all options (`WholeOptions` makes both parts of
the trapezoid whole), the headroom the constructor leaves. The lemmas take the
place of a check over a table of options.

*The metrics window.* `SnapshotIsLog` speaks of every later instant, which is
what makes it inductive: time passing only leaves fewer instants to speak of. A
write must then not disturb what any later snapshot says. The bucket it reuses
is a lap old, so its old content is in no snapshot from now on (`LapIsLong`),
and that needs `StartsArePast`, no bucket begins in the future. A sum over a
set changes by one element at a time (`SumTakesOut`); the facts about sums are
proved by looking at a smallest subset on which they would fail (`LeastSet`).

*SystemClock.* A sleep resolves only in `check()`, which looks at the clock, so
that its contract needs nothing of the timers. `ChecksAreFew` does: it says how
often `check()` ran, and the invariant says where the timer stands. Either it
stops short of the end and each check so far has brought the sleep one capped
timer forward, to the millisecond (`OnTheWay`); or it was set for the
millisecond in which the sleep ends (`AtTheEnd`) and may fire before the sleep
is over; or that happened, and the next one, which asks for at least one
millisecond more, is the last (`PastTheEnd`). So timers that are early by
almost a whole millisecond cost one check, not many.

*ManualClock.* That sleepers wake in order across advances rests on
`NobodyOverdue`: all that an advance wakes is due after all that was woken
before, and the sort orders the rest. Ties are woken as they started because
the queue stays in that order, whatever leaves it (`QueuedAsStarted`).

*Drive.* `DriveInv` has the clock's invariant, the driver's accounts
(`Bookkeeping`), and that a caller let through and not yet seen was let through
by the last move (`SeenInTime`), whence `GrantsToTheStep`. The rates are kept by
what each limiter owes to those still to come (`Owed`): that the next slot lies
behind all it has sold, that the bucket's debt covers what any run of callers
took beyond its capacity, that the window has counted all that fall in it. One
lemma for each kind says what a purchase answers (`SpacedAnswers`,
`BucketAnswers`, `WindowAnswers`), one that issuing a caller keeps the accounts
(`SpacedIssue`, `BucketIssue`, `WindowIssue`).

*The publishing script*'s invariant says, before each call, which of the files
is there and how old it may be (`CallByCall`), that one full version is
somewhere (`OneFile`), and that the name is kept as long as no process died
while no file bore it (`NameIsKept`).

**Only model-checked**: liveness. TLAPS cannot reason here about fairness, so
`EveryoneLeaves`, `EverySleepEnds`, `EveryoneAnswered` and `Finishes` are what
TLC finds on the instances of section 3. The two properties that are violated
have their counterexamples from TLC.

## 6. Not modelled

* Floating-point rounding, and tickets beyond `MAX_SAFE_INTEGER`, which several
  legal calls can reach although `maxPermitsPerCall` bounds each of them.
* `waitedMs`, `storedPermitsAfter`, error messages, `passPerSecond`,
  `errorRatio`, bodies and status codes of responses.
* Defaults and the conversion of options from milliseconds.
* Schedulers other than the warm-up limiter behind a QueuedLimiter.
* What happens after `guard()` has started `work`: its errors propagate.
* Two packs at once, which nothing in swap-readme.mjs guards against, and a
  missing docs/npm-readme.md, on which it does nothing but throw.
* `bench/plot.mjs`, `perf.mjs`, `run.mjs`, `lib/stats.mjs`, the summaries of
  `scenarios.mjs`, `scripts/replay-vectors.mjs` and `smoke-test.mjs`: they
  draw, time, sum up or compare files, from start to end and keeping nothing.

## 7. What could follow

1. **QueuedLimiter over an arbitrary scheduler** that satisfies the contract of
   `core/scheduler.ts`, with the warm-up limiter as one instance. Of the
   scheduler its proofs use little: a peek changes nothing, later peeks say no
   more (`WaitShrinks`), and a reservation takes what a peek at the same instant
   would have said.
2. **A repaired WaitQueue** in which the handler checks the controller it was
   given, with `SingleTimer` proved of it.
