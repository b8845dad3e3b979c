------------------------------ MODULE RateLimiter ------------------------------
(***************************************************************************)
(* The rate limiter (src/src/rate_limiter.rs) over time: its buckets live  *)
(* in temporary storage, which the host drops when their time to live,     *)
(* counted in ledgers, runs out, while the window is counted in seconds.   *)
(* The model keeps the times of the calls it let through (let_through) as  *)
(* a history variable, which nothing reads but the properties.             *)
(***************************************************************************)
EXTENDS RateLimit, Sequences, FiniteSets

CONSTANTS
    Key,        \* RateLimitKey: a caller and a function
    MaxCalls,   \* calls per window
    Window,     \* seconds
    CloseTimes, \* seconds a ledger may take
    MinTtl,     \* ledgers the host grants a new temporary entry
    MaxTime     \* bound: seconds

ASSUME LimitAssumption == MaxCalls \in Nat \ {0} /\ Window \in Nat \ {0}
ASSUME HostAssumption == CloseTimes \subseteq Nat \ {0} /\ MinTtl \in Nat
ASSUME BoundsAssumption == MaxTime \in Nat

VARIABLES
    time,           \* ledger timestamp
    sequence,       \* ledger sequence number
    bucket,         \* temporary storage
    liveUntil,      \* the last ledger in which an entry is there
    let_through     \* history: times of the calls that were let through

vars == <<time, sequence, bucket, liveUntil, let_through>>

TypeOK ==
    /\ time \in 0 .. MaxTime /\ sequence \in Nat
    /\ bucket \in [Key -> [count : 0 .. MaxCalls, start : 0 .. MaxTime]]
    /\ liveUntil \in [Key -> Nat]
    /\ let_through \in [Key -> Seq(0 .. MaxTime)]

Init ==
    /\ time = 0 /\ sequence = 1
    /\ bucket = [k \in Key |-> [count |-> 0, start |-> 0]]
    /\ liveUntil = [k \in Key |-> 0]
    /\ let_through = [k \in Key |-> <<>>]

-----------------------------------------------------------------------------
Present(k) == sequence <= liveUntil[k]

\* Fault: the seconds are taken for twice as many ledgers (LimitKept).
TtlLedgers_Halved == Window \div 10
\* A ledger is taken to last five seconds.
TtlLedgers == Window \div 5 + 1

CloseLedger(seconds) ==
    /\ time + seconds <= MaxTime
    /\ time' = time + seconds
    /\ sequence' = sequence + 1
    /\ UNCHANGED <<bucket, liveUntil, let_through>>

MaxOf(a, b) == IF a >= b THEN a ELSE b

\* set, then extend_ttl: a new entry gets the host's minimum, and no entry is shortened.
Extended(k) ==
    MaxOf(sequence + TtlLedgers,
          IF Present(k) THEN liveUntil[k] ELSE sequence + MinTtl)

CheckRateLimit(k) ==
    LET current == CurrentBucket(Present(k), bucket[k], time, Window) IN
    /\ Admits(current, 1, MaxCalls)
    /\ bucket' = [bucket EXCEPT ![k] = AfterCalls(current, 1)]
    /\ liveUntil' = [liveUntil EXCEPT ![k] = Extended(k)]
    /\ let_through' = [let_through EXCEPT ![k] = Append(@, time)]
    /\ UNCHANGED <<time, sequence>>

Next ==
    \/ \E seconds \in CloseTimes : CloseLedger(seconds)
    \/ \E k \in Key : CheckRateLimit(k)

Spec == Init /\ [][Next]_vars

-----------------------------------------------------------------------------
\* The calls let through from one time up to another, the latter excluded.
CallsIn(k, from, to) ==
    Cardinality({n \in DOMAIN let_through[k] : let_through[k][n] \in from .. to - 1})

\* Counting by fixed windows lets almost two windows' worth of calls through in any
\* interval as long as a window: the end of one window and all of the next.  The call
\* that opened the first one is a full window older than the second, so one is missing.
WindowRespected ==
    \A k \in Key, t \in 0 .. MaxTime : CallsIn(k, t, t + Window) <= 2 * MaxCalls - 1

\* The entry is not dropped within its window, although one is counted in ledgers and
\* the other in seconds: it holds as long as no ledger takes less than five seconds.
BucketOutlivesWindow ==
    \A k \in Key :
        let_through[k] # <<>> /\ ~WindowOver(bucket[k], time, Window) => Present(k)

\* The limit survives the boundary of two windows and the end of a bucket's time to live
\* (check_rate_limit).
LimitKept == WindowRespected /\ BucketOutlivesWindow

\* "Uses a sliding-window approach" (rate_limiter.rs:3): no interval as long as a
\* window has more calls than the limit.
SlidingWindow ==
    \A k \in Key, t \in 0 .. MaxTime : CallsIn(k, t, t + Window) <= MaxCalls
=============================================================================
