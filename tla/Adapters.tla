------------------------------- MODULE Adapters -------------------------------
(***************************************************************************)
(* What stands between a limiter and those who use it: attempt() and       *)
(* guard() of src/adapters/guard.ts, the Express middleware of express.ts, *)
(* the error of src/core/errors.ts and tryAcquire(), over a Pacer.         *)
(*                                                                         *)
(* A request is one call of acquire().  The wrapper makes it at once and   *)
(* answers in a microtask of its own after the promise has settled, when   *)
(* others may have been and time may have passed.                          *)
(***************************************************************************)
EXTENDS Pacer

CONSTANTS
    Routes,  \* which wrapper each call may be made through
    Milli,   \* ticks per millisecond
    Second   \* ticks per second

Wrappers == {"expressRateLimit", "guard", "tryAcquire"}

ASSUME AdaptersAssumption ==
    /\ Routes \subseteq [Calls -> Wrappers]
    /\ Milli \in Nat \ {0} /\ Milli % Micro = 0
    /\ Second \in Nat \ {0} /\ Second % Milli = 0

VARIABLES
    via,     \* the wrapper of each call
    error,   \* the RateLimitRejectedError of each call refused
    answer   \* what became of each request

adapterVars == <<via, error, answer>>
allVars == <<vars, slotVars, adapterVars>>

NoError == [reason |-> "none", wait |-> 0, at |-> 0, sold |-> 0]

AdaptersInit ==
    /\ PacerInit
    /\ via \in Routes
    /\ error = [c \in Calls |-> NoError]
    /\ answer = [c \in Calls |-> "none"]

-----------------------------------------------------------------------------
(***************************************************************************)
(* Slips, as in WaitQueue.                                                 *)
(***************************************************************************)
\* Math.floor for Math.ceil.
RoundDown(unit, wait) == (wait \div unit) * unit

\* acquire() is called, and its promise is not awaited.
NotAwaited(c) == outcome[c] \in {"passed", "queued"}

-----------------------------------------------------------------------------
\* Math.ceil
RoundUp(unit, wait) == ((wait + unit - 1) \div unit) * unit

\* Retry-After, from the error's waitMs: whole milliseconds, whole seconds.
RetryAfter(c) == RoundUp(Second, RoundUp(Milli, error[c].wait))

\* queueFull() or tooLong(), thrown at now'; sold is history.
RateLimitRejected ==
    [reason |-> IF waiting >= MaxDepth THEN "depth" ELSE "delay",
     wait |-> WaitForNextSlot(NowMicros(now')),
     at |-> now',
     sold |-> nextSlot]

Ask(c) ==
    /\ \/ (Fail(c) \/ Pass(c) \/ Queue(c)) /\ error' = error
       \/ Refuse(c) /\ error' = [error EXCEPT ![c] = RateLimitRejected]
    /\ UNCHANGED <<via, answer>>

Proceeds(c) == outcome[c] = "passed" \/ status[c] = "released"

AnswerIfAdmitted ==
    [expressRateLimit |-> "next", guard |-> "worked", tryAcquire |-> "result"]

AnswerIfRefused ==
    [expressRateLimit |-> "429", guard |-> "rejected", tryAcquire |-> "false"]

AnswerIfThrown ==
    [expressRateLimit |-> "nextError", guard |-> "rejected", tryAcquire |-> "rejected"]

\* The microtask after the promise of acquire() has settled.
Answer(c) ==
    /\ answer[c] = "none"
    /\ \/ /\ Proceeds(c)
          /\ answer' = [answer EXCEPT ![c] = AnswerIfAdmitted[via[c]]]
       \/ /\ outcome[c] = "refused"
          /\ answer' = [answer EXCEPT ![c] = AnswerIfRefused[via[c]]]
       \/ /\ outcome[c] = "failed" \/ status[c] = "aborted"
          /\ answer' = [answer EXCEPT ![c] = AnswerIfThrown[via[c]]]
    /\ UNCHANGED <<vars, slotVars, via, error>>

AdaptersNext ==
    \/ \E c \in Calls :
        \/ Ask(c)
        \/ Answer(c)
        \/ QueueStep(c) /\ UNCHANGED adapterVars
    \/ Tick /\ UNCHANGED <<slotVars, adapterVars>>

\* As in WaitQueue; and microtasks run.
AdaptersSpec ==
    /\ AdaptersInit /\ [][AdaptersNext]_allVars
    /\ WF_allVars(Tick /\ UNCHANGED <<slotVars, adapterVars>>)
    /\ \A c \in Calls :
        /\ WF_allVars(Answer(c))
        /\ WF_allVars(TimerFire(c) /\ UNCHANGED <<slotVars, adapterVars>>)
        /\ WF_allVars(TimerThen(c) /\ UNCHANGED <<slotVars, adapterVars>>)
        /\ WF_allVars(TimerCatch(c) /\ UNCHANGED <<slotVars, adapterVars>>)

-----------------------------------------------------------------------------
(***************************************************************************)
(* A client that is refused and comes back no earlier than it was told,    *)
(* and no earlier than everyone else, is not refused again for the delay,  *)
(* whatever its timeout: it need not wait at all, and whoever is still     *)
(* held is overdue.  Nor is it kept away for a second too long.            *)
(***************************************************************************)
RetryIsTimely ==
    \A c \in Calls : answer[c] = "429" =>
        /\ RetryAfter(c) < error[c].wait + Second
        /\ now >= error[c].at + RetryAfter(c) /\ nextSlot = error[c].sold =>
            /\ WaitForNextSlot(NowMicros(now)) = 0
            /\ \A d \in Held : End(d) <= now

(***************************************************************************)
(* "A client told to retry in 0 s comes straight back" (express.ts, lines  *)
(* 52-53).  It is told so only when the queue is full of callers that need *)
(* not be there, each due a whole stretch ago or more: the timer's handler *)
(* is late, and nothing else keeps the client out.                         *)
(***************************************************************************)
ZeroMeansOverdue ==
    [][\A c \in Calls : outcome[c] # "refused" /\ outcome'[c] = "refused"
          /\ RetryAfter(c)' = 0
          => error'[c].reason = "depth" /\ \A d \in Held : End(d) <= now']_allVars

(***************************************************************************)
(* A request gets the answer that its call has earned at the moment it is  *)
(* given, and no other afterwards.  It goes ahead only on a stretch it was *)
(* sold, which has begun, and neither held nor cancelled.  Whoever is told *)
(* of a refusal was refused and sold nothing.  Anything else that went     *)
(* wrong is passed on as an error and not reported as a refusal, nor is a  *)
(* refusal passed on as an error (express.ts, lines 37-40), except by      *)
(* guard(), whose error it is.                                             *)
(***************************************************************************)
Sold(c) == permits[c] >= 1

Refused(c) == error[c].reason # "none"

Earned(c, what) ==
    CASE what \in {"next", "worked", "result"} ->
            Sold(c) /\ slot[c] <= now /\ status[c] \notin {"held", "aborted"}
      [] what \in {"429", "false"} -> Refused(c) /\ ~ Sold(c)
      [] what \in {"nextError", "rejected"} ->
            /\ Sold(c) => status[c] = "aborted"
            /\ Refused(c) => via[c] = "guard"

AnswersAreEarned ==
    [][\A c \in Calls : answer'[c] # answer[c] =>
          answer[c] = "none" /\ Earned(c, answer'[c])]_allVars

(***************************************************************************)
(* Every request is answered, one whose call was held included.            *)
(***************************************************************************)
EveryoneAnswered == \A c \in Calls : outcome[c] # "uncalled" ~> answer[c] # "none"

=============================================================================
