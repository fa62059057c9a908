--------------------------- MODULE RollingWindow ---------------------------
(***************************************************************************)
(* The metrics window, src/metrics/rolling-window.ts and                   *)
(* window-constants.ts: a ring of buckets of counters.  A bucket is wiped  *)
(* when a write lands on it a lap or more later; until then it keeps its   *)
(* old counts and its start alone excludes them from a snapshot.           *)
(***************************************************************************)
EXTENDS Instants, Sequences, FiniteSets, Functions

CONSTANTS
    WindowLength,  \* windowMicros, in ticks
    BucketCount,   \* how many buckets the window is divided into
    Counts,        \* what callers pass as count, invalid values included
    MaxRecords     \* bound: how many calls of record() are modelled

(***************************************************************************)
(* What deriveWindowConstants() insists on: a bucket is a whole number of  *)
(* microseconds.                                                           *)
(***************************************************************************)
ASSUME WindowAssumption ==
    /\ BucketCount \in Nat \ {0}
    /\ WindowLength \in Nat \ {0}
    /\ WindowLength % (BucketCount * Micro) = 0
    /\ Counts \subseteq Int
    /\ MaxRecords \in Nat

VARIABLES
    buckets,  \* the ring
    log       \* history: what was recorded, when the window read the clock

vars == <<now, buckets, log>>

Kinds == {"pass", "block", "error"}

BucketLength == WindowLength \div BucketCount

\* Number.NEGATIVE_INFINITY: earlier than any instant a snapshot looks back to.
Never == -(WindowLength + 1)

Zeroes == [k \in Kinds |-> 0]

Init ==
    /\ now = 0
    /\ buckets = [i \in 0..(BucketCount - 1) |-> [start |-> Never, count |-> Zeroes]]
    /\ log = <<>>

-----------------------------------------------------------------------------
(***************************************************************************)
(* Slips, as in WaitQueue.                                                 *)
(***************************************************************************)
\* A stale bucket gets a new start but keeps its counts.
Restarted(b, t) ==
    [b EXCEPT !.start = t - (t % BucketLength)]

\* The start of a bucket is the time of the first write to it.
StartIsFirstWrite(t) == t

-----------------------------------------------------------------------------
\* bucketFor(): the index and the start of the bucket that covers t.
Index(t) == (t \div BucketLength) % BucketCount
StartOf(t) == t - (t % BucketLength)

\* The lazy expiry of a bucket left from an earlier lap.
Wiped(b, t) == [start |-> StartOf(t), count |-> Zeroes]

BucketFor(t) ==
    LET b == buckets[Index(t)]
    IN  IF b.start = StartOf(t) THEN b ELSE Wiped(b, t)

\* bucketFor() throws: the bucket is from the future.
WentBackwards(t) == buckets[Index(t)].start > StartOf(t)

\* record(kind, n)
Record ==
    \E kind \in Kinds, n \in Counts, r \in Reads(1) :
        LET t == NowMicros(r[1])
        IN  /\ n >= 1
            /\ ~ WentBackwards(t)
            /\ Len(log) < MaxRecords
            /\ buckets' = [buckets EXCEPT ![Index(t)] =
                             [BucketFor(t) EXCEPT !.count[kind] = @ + n]]
            /\ log' = Append(log, [at |-> t, kind |-> kind, n |-> n])
            /\ now' = r[1]

\* record() throws: on a bad count, and it would if time ran backwards.
RecordThrows ==
    \E n \in Counts, r \in Reads(1) :
        /\ n < 1 \/ WentBackwards(NowMicros(r[1]))
        /\ now' = r[1]
        /\ UNCHANGED <<buckets, log>>

Tick ==
    /\ TimePasses
    /\ UNCHANGED <<buckets, log>>

Next ==
    \/ Record
    \/ RecordThrows
    \/ Tick

Spec == Init /\ [][Next]_vars

-----------------------------------------------------------------------------
\* snapshot() skips a bucket that is not Live.
Live(b, t) == b.start > t - WindowLength

\* The counters that snapshot() returns at t.
Snapshot(t) ==
    [k \in Kinds |->
        SumFunctionOnSet([i \in DOMAIN buckets |-> buckets[i].count[k]],
                         {i \in DOMAIN buckets : Live(buckets[i], t)})]

-----------------------------------------------------------------------------
(***************************************************************************)
(* The ring keeps its shape: every bucket in use starts on a boundary that *)
(* belongs at its index, which is what makes its start say which counts it *)
(* holds.                                                                  *)
(***************************************************************************)
TypeOK ==
    /\ now \in 0..MaxTime
    /\ buckets \in [0..(BucketCount - 1) ->
                       [start : {Never} \cup 0..MaxTime, count : [Kinds -> Nat]]]
    /\ \A i \in DOMAIN buckets : buckets[i].start # Never =>
         /\ buckets[i].start % BucketLength = 0
         /\ Index(buckets[i].start) = i
    /\ log \in Seq([at : 0..MaxTime, kind : Kinds, n : Nat \ {0}])

\* The instants at which a later snapshot or record may read the clock.
Later == {NowMicros(t) : t \in now..MaxTime}

\* How much of one kind was logged at the instants in a set.
Logged(kind, times) ==
    SumFunctionOnSet([i \in DOMAIN log |-> log[i].n],
                     {i \in DOMAIN log : log[i].kind = kind /\ log[i].at \in times})

(***************************************************************************)
(* A ring of a few counters says as much as a list of every timestamp:     *)
(* whatever is written, and however long nothing is, a snapshot at any     *)
(* later instant counts exactly what was recorded in the buckets that      *)
(* began less than a window ago.  No lap blends with another, and nothing  *)
(* expires early because a write landed on its bucket: the window looks    *)
(* back windowMs (README.md, line 385), to the resolution of one bucket.   *)
(***************************************************************************)
SnapshotIsLog ==
    \A t \in Later, k \in Kinds :
        Snapshot(t)[k] =
            Logged(k, {u \in 0..t : StartOf(u) > t - WindowLength})

=============================================================================
