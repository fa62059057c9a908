----------------------------- MODULE HoldingLine -----------------------------
(***************************************************************************)
(* What a WaitQueue promises to its owner, with none of its machinery: no  *)
(* timers, no tombstones, no array to compact, no counter.  Callers stand  *)
(* in line.  A caller leaves the line from the front, in a group if need   *)
(* be, and only when everyone in the group is due; or it leaves from       *)
(* anywhere, by cancelling.  Nothing else ever moves it.                   *)
(***************************************************************************)
EXTENDS Integers, Sequences

CONSTANTS
    Calls,        \* the callers
    Cancellable,  \* those that may cancel
    MaxTime       \* bound: where the modelled clock stops

VARIABLES
    now,     \* the time
    line,    \* the callers being held, in order of arrival
    due,     \* the instant before which each caller may not leave
    status   \* "new", "held", "released" or "aborted"

vars == <<now, line, due, status>>

Init ==
    /\ now = 0
    /\ line = <<>>
    /\ due \in [Calls -> {0}]
    /\ status = [c \in Calls |-> "new"]

TimePasses == now' \in now..MaxTime

Join(c) ==
    /\ status[c] = "new"
    /\ status' = [status EXCEPT ![c] = "held"]
    /\ line' = Append(line, c)
    /\ \A d \in Calls \ {c} : due'[d] = due[d]
    /\ TimePasses

Release ==
    /\ \E n \in 1..Len(line) :
        LET front == {line[i] : i \in 1..n}
        IN  /\ \A c \in front : due[c] <= now'
            /\ status' = [c \in Calls |->
                            IF c \in front THEN "released" ELSE status[c]]
            /\ line' = SubSeq(line, n + 1, Len(line))
    /\ due' = due
    /\ TimePasses

Cancel(c) ==
    /\ c \in Cancellable
    /\ \E i \in 1..Len(line) :
        /\ line[i] = c
        /\ line' = SubSeq(line, 1, i - 1) \o SubSeq(line, i + 1, Len(line))
    /\ status' = [status EXCEPT ![c] = "aborted"]
    /\ UNCHANGED <<now, due>>

Tick ==
    /\ TimePasses
    /\ UNCHANGED <<line, due, status>>

Next ==
    \/ \E c \in Calls : Join(c) \/ Cancel(c)
    \/ Release
    \/ Tick

Spec == Init /\ [][Next]_vars

=============================================================================
