--------------------------- MODULE ContractProofs ---------------------------
(***************************************************************************)
(* What holds of the rate limiter, the upgrade governance and the          *)
(* reputation oracle for any number of keys, governors and oracles, and    *)
(* any numbers of calls and ledgers.                                       *)
(***************************************************************************)
EXTENDS MCContracts, Screening, SumProofs, FiniteSetTheorems, TLAPS

-----------------------------------------------------------------------------
(***************************************************************************)
(* RateLimiter: a bucket outlives the window it counts, as long as a       *)
(* ledger takes at least five seconds.                                     *)
(***************************************************************************)
\* Division rounds down.
LEMMA TtlCovers == TtlLedgers \in Nat /\ 5 * TtlLedgers > Window
  BY LimitAssumption, SMT DEF TtlLedgers

LEMMA CoveredAfterClosing ==
  ASSUME NEW live \in Nat, NEW seq \in Nat, NEW t \in Nat, NEW start \in Nat,
         NEW s \in Nat, s >= 5, start <= t, 5 * (live - seq) >= Window - (t - start)
  PROVE  start <= t + s /\ 5 * (live - (seq + 1)) >= Window - ((t + s) - start)
  BY LimitAssumption, SMT

LEMMA CoveredAfterCall ==
  ASSUME NEW live \in Nat, NEW seq \in Nat, NEW t \in Nat, NEW start \in Nat,
         NEW ttl \in Nat, start <= t, live >= seq + ttl, 5 * ttl > Window
  PROVE  5 * (live - seq) >= Window - (t - start)
  BY LimitAssumption, SMT

LEMMA ExtendedCovers ==
  ASSUME TypeOK, NEW k \in Key
  PROVE  /\ Extended(k) \in Nat
         /\ Extended(k) >= sequence + TtlLedgers
         /\ Present(k) => Extended(k) >= liveUntil[k]
  BY TtlCovers, HostAssumption, SMT DEF Extended, MaxOf, Present, TypeOK

\* check_rate_limit and the close of a ledger keep every counter within its limit
\* and every start of a window within the time that has passed.
THEOREM TypeCorrect == Spec => []TypeOK
<1>1. Init => TypeOK
  BY BoundsAssumption, LimitAssumption, SMT DEF Init, TypeOK
<1>2. TypeOK /\ [Next]_vars => TypeOK'
  <2> SUFFICES ASSUME TypeOK, [Next]_vars PROVE TypeOK'
    OBVIOUS
  <2> USE BoundsAssumption, LimitAssumption, HostAssumption
  <2>1. CASE UNCHANGED vars
    BY <2>1 DEF vars, TypeOK
  <2>2. ASSUME NEW seconds \in CloseTimes, CloseLedger(seconds) PROVE TypeOK'
    BY <2>2, SMT DEF CloseLedger, TypeOK
  <2>3. ASSUME NEW k \in Key, CheckRateLimit(k) PROVE TypeOK'
    <3> DEFINE current == CurrentBucket(Present(k), bucket[k], time, Window)
    <3>1. bucket[k] \in [count : 0 .. MaxCalls, start : 0 .. MaxTime]
      BY DEF TypeOK
    <3>2. current \in [count : 0 .. MaxCalls, start : 0 .. MaxTime]
      BY <3>1, SMT DEF CurrentBucket, TypeOK
    <3>3. Admits(current, 1, MaxCalls)
      BY <2>3 DEF CheckRateLimit
    <3>4. AfterCalls(current, 1) \in [count : 0 .. MaxCalls, start : 0 .. MaxTime]
      BY <3>2, <3>3, SMT DEF Admits, AfterCalls
    <3>5. bucket' = [bucket EXCEPT ![k] = AfterCalls(current, 1)]
      BY <2>3 DEF CheckRateLimit
    <3>6. bucket' \in [Key -> [count : 0 .. MaxCalls, start : 0 .. MaxTime]]
      BY <3>4, <3>5 DEF TypeOK
    <3>7. liveUntil' \in [Key -> Nat]
      BY <2>3, ExtendedCovers DEF CheckRateLimit, TypeOK
    <3>8. let_through' \in [Key -> Seq(0 .. MaxTime)]
      BY <2>3, SMT DEF CheckRateLimit, TypeOK
    <3>9. UNCHANGED <<time, sequence>>
      BY <2>3 DEF CheckRateLimit
    <3> QED
      BY <3>6, <3>7, <3>8, <3>9 DEF TypeOK
  <2> QED
    BY <2>1, <2>2, <2>3 DEF Next
<1> QED
  BY <1>1, <1>2, PTL DEF Spec

-----------------------------------------------------------------------------
\* The ledgers an entry has left to live last at least as long as its window has left:
\* a ledger that closes takes one ledger from the former and five seconds or more from
\* the latter, and a call that restarts the window restarts the entry's life.
Covered ==
    \A k \in Key :
        /\ bucket[k].start <= time
        /\ let_through[k] # <<>> =>
              5 * (liveUntil[k] - sequence) >= Window - (time - bucket[k].start)

\* An entry is there throughout its window (BucketOutlivesWindow), so that dropping it
\* never forgets a call that still counts, as long as no ledger takes less than the five
\* seconds TtlLedgers is computed from.
THEOREM OutlivesWindow ==
  ASSUME \A seconds \in CloseTimes : seconds >= 5
  PROVE  Spec => []BucketOutlivesWindow
<1>1. Init => Covered
  BY DEF Init, Covered
<1>2. TypeOK /\ Covered /\ [Next]_vars => Covered'
  <2> DEFINE CoveredAt(k) ==
        /\ bucket[k].start <= time
        /\ let_through[k] # <<>> =>
              5 * (liveUntil[k] - sequence) >= Window - (time - bucket[k].start)
  <2> SUFFICES ASSUME TypeOK, \A k \in Key : CoveredAt(k), [Next]_vars, NEW k \in Key
               PROVE  CoveredAt(k)'
    BY DEF Covered
  <2> USE BoundsAssumption, LimitAssumption, HostAssumption
  <2>0. /\ bucket[k] \in [count : 0 .. MaxCalls, start : 0 .. MaxTime]
        /\ bucket[k].start \in Nat
        /\ liveUntil[k] \in Nat /\ time \in Nat /\ sequence \in Nat /\ Window \in Nat
        /\ CoveredAt(k)
    BY DEF TypeOK
  <2>1. CASE UNCHANGED vars
    BY <2>0, <2>1 DEF vars
  <2>2. ASSUME NEW seconds \in CloseTimes, CloseLedger(seconds) PROVE CoveredAt(k)'
    <3>1. /\ bucket'[k] = bucket[k] /\ liveUntil'[k] = liveUntil[k]
          /\ let_through'[k] = let_through[k]
          /\ time' = time + seconds /\ sequence' = sequence + 1
          /\ seconds \in Nat /\ seconds >= 5
      BY <2>2 DEF CloseLedger
    <3>2. bucket[k].start <= time + seconds
      BY <2>0, <3>1, SMT
    <3>3. let_through[k] # <<>> =>
              5 * (liveUntil[k] - (sequence + 1))
                  >= Window - ((time + seconds) - bucket[k].start)
      <4> SUFFICES ASSUME let_through[k] # <<>>
                   PROVE  5 * (liveUntil[k] - (sequence + 1))
                              >= Window - ((time + seconds) - bucket[k].start)
        OBVIOUS
      <4> QED
        BY <2>0, <3>1, CoveredAfterClosing
    <3> QED
      BY <3>1, <3>2, <3>3
  <2>3. ASSUME NEW j \in Key, CheckRateLimit(j) PROVE CoveredAt(k)'
    <3>1. CASE j # k
      <4>1. UNCHANGED <<bucket[k], liveUntil[k], let_through[k], time, sequence>>
        BY <2>3, <3>1 DEF CheckRateLimit, TypeOK
      <4> QED
        BY <2>0, <4>1
    <3>2. CASE j = k
      <4> DEFINE current == CurrentBucket(Present(k), bucket[k], time, Window)
      <4>1. /\ bucket'[k] = AfterCalls(current, 1)
            /\ liveUntil'[k] = Extended(k)
            /\ time' = time /\ sequence' = sequence
        BY <2>3, <3>2 DEF CheckRateLimit, TypeOK
      <4>2. bucket'[k].start = current.start
        BY <4>1, <2>0, SMT DEF AfterCalls, CurrentBucket
      <4>3. /\ Extended(k) \in Nat /\ TtlLedgers \in Nat
            /\ Extended(k) >= sequence + TtlLedgers
            /\ 5 * TtlLedgers > Window
        BY ExtendedCovers, TtlCovers
      <4>4. current.start \in Nat /\ current.start <= time
        BY <2>0, SMT DEF CurrentBucket
      <4>5. 5 * (Extended(k) - sequence) >= Window - (time - current.start)
        BY <4>3, <4>4, <2>0, CoveredAfterCall
      <4> QED
        BY <4>1, <4>2, <4>4, <4>5
    <3> QED
      BY <3>1, <3>2
  <2> QED
    BY <2>1, <2>2, <2>3 DEF Next
<1>3. TypeOK /\ Covered => BucketOutlivesWindow
  <2> SUFFICES ASSUME TypeOK, Covered, NEW k \in Key,
                      let_through[k] # <<>>, ~WindowOver(bucket[k], time, Window)
               PROVE  Present(k)
    BY DEF BucketOutlivesWindow
  <2>1. /\ bucket[k].start <= time
        /\ 5 * (liveUntil[k] - sequence) >= Window - (time - bucket[k].start)
    BY DEF Covered
  <2>2. /\ bucket[k].start \in Nat /\ liveUntil[k] \in Nat /\ time \in Nat
        /\ sequence \in Nat /\ Window \in Nat
    BY LimitAssumption, BoundsAssumption DEF TypeOK
  <2> QED
    BY <2>1, <2>2, SMT DEF WindowOver, Present
<1> QED
  BY <1>1, <1>2, <1>3, TypeCorrect, PTL DEF Spec

-----------------------------------------------------------------------------
(***************************************************************************)
(* RateLimiter: calls that get through are spaced so that no interval has  *)
(* too many of them. An interval as long as a window meets at most two     *)
(* windows, and the call that opened the first is a full window older than *)
(* the second.                                                             *)
(***************************************************************************)
\* The times h of the calls let through when a bucket counts c calls from s on: the window
\* before is over by s, and a call is a window later than the last but 2 * MaxCalls - 2 before.
WellSpaced(h, n, c, s, now) ==
    /\ \A i \in 1 .. n : h[i] <= now
    /\ n > 0 => c \in 1 .. n /\ s <= now
    /\ \A i \in 1 .. n : i + c <= n + 1 => h[i] <= s
    /\ \A i \in 1 .. n : (i + MaxCalls) + c <= n + 1 => h[i] + Window <= s
    /\ \A i, j \in 1 .. n : i + 2 * MaxCalls <= j + 1 => h[i] + Window <= h[j]

\* Calls that are well spaced now are so later.
LEMMA SpacedLater ==
  ASSUME NEW n \in Nat, NEW h, \A i \in 1 .. n : h[i] \in Nat,
         NEW c \in Nat, NEW s \in Nat, NEW now \in Nat, NEW later \in Nat, now <= later,
         WellSpaced(h, n, c, s, now)
  PROVE  WellSpaced(h, n, c, s, later)
BY SMT DEF WellSpaced

\* One more call in a window that is not full.
LEMMA SpacedOneMore ==
  ASSUME NEW n \in Nat, n > 0, NEW h, \A i \in 1 .. n : h[i] \in Nat,
         NEW c \in Nat, NEW s \in Nat, NEW now \in Nat, c < MaxCalls,
         WellSpaced(h, n, c, s, now),
         NEW g, \A i \in 1 .. n : g[i] = h[i], g[n + 1] = now
  PROVE  WellSpaced(g, n + 1, c + 1, s, now)
<1> USE LimitAssumption
<1>0. \A i \in 1 .. (n + 1) : i \in 1 .. n \/ i = n + 1
  BY SMT
<1>1. \A i \in 1 .. (n + 1) : g[i] <= now
  BY <1>0, SMT DEF WellSpaced
<1>2. c + 1 \in 1 .. (n + 1) /\ s <= now
  BY SMT DEF WellSpaced
<1>3. ASSUME NEW i \in 1 .. (n + 1), i + (c + 1) <= (n + 1) + 1 PROVE i \in 1 .. n /\ g[i] <= s
  <2>1. c > 0
    BY SMT DEF WellSpaced
  <2>2. i + c <= n + 1 /\ i \in 1 .. n
    BY <1>3, <2>1, SMT
  <2> QED
    BY <2>2 DEF WellSpaced
<1>4. ASSUME NEW i \in 1 .. (n + 1), (i + MaxCalls) + (c + 1) <= (n + 1) + 1 PROVE g[i] + Window <= s
  <2>2. (i + MaxCalls) + c <= n + 1 /\ i \in 1 .. n
    BY <1>4, SMT
  <2> QED
    BY <2>2 DEF WellSpaced
<1>5. ASSUME NEW i \in 1 .. (n + 1), NEW j \in 1 .. (n + 1), i + 2 * MaxCalls <= j + 1
      PROVE  g[i] + Window <= g[j]
  <2>1. i \in 1 .. n
    BY <1>5, SMT
  <2>2. CASE j \in 1 .. n
    BY <1>5, <2>1, <2>2 DEF WellSpaced
  <2>3. CASE j = n + 1
    <3>1. (i + MaxCalls) + c <= n + 1
      BY <1>5, <2>1, <2>3, SMT
    <3>2. h[i] + Window <= s /\ s <= now /\ h[i] \in Nat
      BY <1>2, <2>1, <3>1 DEF WellSpaced
    <3> QED
      BY <2>1, <2>3, <3>2, SMT
  <2> QED
    BY <1>0, <2>2, <2>3
<1> QED
  BY <1>1, <1>2, <1>3, <1>4, <1>5 DEF WellSpaced

\* The first call of a new window.
LEMMA SpacedAnew ==
  ASSUME NEW n \in Nat, NEW h, \A i \in 1 .. n : h[i] \in Nat,
         NEW c \in Nat, NEW s \in Nat, NEW now \in Nat, c <= MaxCalls,
         WellSpaced(h, n, c, s, now), n > 0 => s + Window <= now,
         NEW g, \A i \in 1 .. n : g[i] = h[i], g[n + 1] = now
  PROVE  WellSpaced(g, n + 1, 1, now, now)
<1> USE LimitAssumption
<1>0. \A i \in 1 .. (n + 1) : i \in 1 .. n \/ i = n + 1
  BY SMT
<1>1. \A i \in 1 .. (n + 1) : g[i] <= now
  BY <1>0, SMT DEF WellSpaced
<1>2. 1 \in 1 .. (n + 1) /\ now <= now
  BY SMT
<1>3. ASSUME NEW i \in 1 .. n, i + c <= n + 1 PROVE h[i] + Window <= now
  <2>1. n > 0 /\ h[i] <= s /\ h[i] \in Nat
    BY <1>3, SMT DEF WellSpaced
  <2> QED
    BY <2>1, SMT
<1>4. ASSUME NEW i \in 1 .. (n + 1), (i + MaxCalls) + 1 <= (n + 1) + 1 PROVE g[i] + Window <= now
  <2>1. i \in 1 .. n /\ i + c <= n + 1
    BY <1>4, SMT
  <2> QED
    BY <1>3, <2>1
<1>5. ASSUME NEW i \in 1 .. (n + 1), NEW j \in 1 .. (n + 1), i + 2 * MaxCalls <= j + 1
      PROVE  g[i] + Window <= g[j]
  <2>1. i \in 1 .. n
    BY <1>5, SMT
  <2>2. CASE j \in 1 .. n
    BY <1>5, <2>1, <2>2 DEF WellSpaced
  <2>3. CASE j = n + 1
    <3>1. i + c <= n + 1
      BY <1>5, <2>1, <2>3, SMT
    <3> QED
      BY <1>3, <2>1, <2>3, <3>1
  <2> QED
    BY <1>0, <2>2, <2>3
<1> QED
  BY <1>1, <1>2, <1>4, <1>5 DEF WellSpaced

\* Every key's calls are spaced as its bucket tells; a key without calls has no entry.
CallsSpaced ==
    /\ sequence > 0
    /\ \A k \in Key :
          /\ WellSpaced(let_through[k], Len(let_through[k]), bucket[k].count, bucket[k].start, time)
          /\ let_through[k] = <<>> => ~Present(k)

\* No calls are well spaced.
LEMMA SpacedInitially == Init => CallsSpaced
<1> SUFFICES ASSUME Init, NEW k \in Key
             PROVE  /\ WellSpaced(let_through[k], Len(let_through[k]), bucket[k].count, bucket[k].start, time)
                    /\ ~Present(k)
  BY DEF CallsSpaced, Init
<1>1. let_through[k] = <<>> /\ Len(let_through[k]) = 0 /\ liveUntil[k] = 0 /\ sequence = 1
  BY DEF Init
<1>2. ~Present(k)
  BY <1>1 DEF Present
<1>3. 1 .. 0 = {} /\ ~(0 > 0)
  BY SMT
<1> QED
  BY <1>1, <1>2, <1>3 DEF WellSpaced

\* check_rate_limit keeps the calls well spaced.
LEMMA SpacedAfterCall ==
  ASSUME TypeOK, BucketOutlivesWindow, CallsSpaced, NEW k \in Key, CheckRateLimit(k)
  PROVE  CallsSpaced'
<1> USE LimitAssumption, BoundsAssumption
<1>1. /\ bucket[k] \in [count : 0 .. MaxCalls, start : 0 .. MaxTime]
      /\ bucket[k].count \in Nat /\ bucket[k].count <= MaxCalls /\ bucket[k].start \in Nat
      /\ let_through[k] \in Seq(0 .. MaxTime) /\ time \in 0 .. MaxTime /\ time \in Nat /\ sequence \in Nat
      /\ liveUntil[k] \in Nat
  BY SMT DEF TypeOK
<1>2. PICK h, n, c, s : h = let_through[k] /\ n = Len(h) /\ c = bucket[k].count /\ s = bucket[k].start
  OBVIOUS
<1>3. PICK b : b = CurrentBucket(Present(k), bucket[k], time, Window)
  OBVIOUS
<1>4. /\ b.count + 1 <= MaxCalls
      /\ bucket' = [bucket EXCEPT ![k] = AfterCalls(b, 1)]
      /\ liveUntil' = [liveUntil EXCEPT ![k] = Extended(k)]
      /\ let_through' = [let_through EXCEPT ![k] = Append(h, time)]
      /\ time' = time /\ sequence' = sequence
  BY <1>2, <1>3 DEF CheckRateLimit, Admits
<1>5. /\ n \in Nat /\ c \in Nat /\ s \in Nat /\ c <= MaxCalls
      /\ h \in Seq(0 .. MaxTime)
      /\ \A i \in 1 .. n : h[i] \in Nat
  BY <1>1, <1>2
<1>6. WellSpaced(h, n, c, s, time) /\ (h = <<>> => ~Present(k))
  BY <1>2 DEF CallsSpaced
<1>7. PICK g : g = Append(h, time)
  OBVIOUS
<1>8. Len(g) = n + 1 /\ g[n + 1] = time /\ \A i \in 1 .. n : g[i] = h[i]
  BY <1>1, <1>2, <1>5, <1>7
<1>9. /\ bucket'[k] = AfterCalls(b, 1) /\ liveUntil'[k] = Extended(k) /\ let_through'[k] = g
      /\ \A j \in Key : j # k => /\ bucket'[j] = bucket[j] /\ liveUntil'[j] = liveUntil[j]
                                 /\ let_through'[j] = let_through[j]
  BY <1>4, <1>7 DEF TypeOK
<1>10. WellSpaced(g, n + 1, bucket'[k].count, bucket'[k].start, time)
  <2>1. CASE Present(k) /\ ~WindowOver(bucket[k], time, Window)
    <3>1. b = bucket[k] /\ bucket'[k].count = c + 1 /\ bucket'[k].start = s
      BY <1>1, <1>2, <1>3, <1>9, <2>1 DEF CurrentBucket, AfterCalls
    <3>2. c < MaxCalls
      BY <1>2, <1>4, <1>5, <3>1, SMT
    <3>3. n > 0
      BY <1>2, <1>5, <1>6, <2>1
    <3> QED
      <4>1. WellSpaced(g, n + 1, c + 1, s, time)
        BY <1>1, <1>5, <1>6, <1>8, <3>2, <3>3, SpacedOneMore
      <4> QED
        BY <3>1, <4>1
  <2>2. CASE ~(Present(k) /\ ~WindowOver(bucket[k], time, Window))
    <3>1. b = [count |-> 0, start |-> time]
      BY <1>3, <2>2 DEF CurrentBucket
    <3>2. bucket'[k].count = 1 /\ bucket'[k].start = time
      BY <1>9, <3>1 DEF AfterCalls
    <3>3. n > 0 => s + Window <= time
      <4>1. n > 0 => h # <<>>
        BY <1>2
      <4>2. n > 0 => WindowOver(bucket[k], time, Window)
        BY <1>2, <2>2, <4>1 DEF BucketOutlivesWindow
      <4> QED
        BY <1>1, <1>2, <1>5, <4>2, SMT DEF WindowOver
    <3> QED
      <4>1. WellSpaced(g, n + 1, 1, time, time)
        BY <1>1, <1>5, <1>6, <1>8, <3>3, SpacedAnew
      <4> QED
        BY <3>2, <4>1
  <2> QED
    BY <2>1, <2>2
<1>11. g # <<>>
  BY <1>5, <1>8, SMT
<1>12. ASSUME NEW j \in Key
       PROVE  /\ WellSpaced(let_through'[j], Len(let_through'[j]), bucket'[j].count, bucket'[j].start, time)
              /\ let_through'[j] = <<>> => ~(sequence <= liveUntil'[j])
  <2>1. CASE j = k
    BY <1>8, <1>9, <1>10, <1>11, <2>1
  <2>2. CASE j # k
    <3>1. /\ WellSpaced(let_through[j], Len(let_through[j]), bucket[j].count, bucket[j].start, time)
          /\ let_through[j] = <<>> => ~(sequence <= liveUntil[j])
      BY DEF CallsSpaced, Present
    <3>2. bucket'[j] = bucket[j] /\ liveUntil'[j] = liveUntil[j] /\ let_through'[j] = let_through[j]
      BY <1>9, <2>2
    <3> QED
      BY <3>1, <3>2
  <2> QED
    BY <2>1, <2>2
<1>13. sequence' > 0 /\ time' = time /\ sequence' = sequence
  BY <1>4 DEF CallsSpaced
<1> QED
  BY <1>12, <1>13 DEF CallsSpaced, Present

\* Time passing keeps the calls well spaced, also when a bucket expires.
LEMMA SpacedAfterClosing ==
  ASSUME TypeOK, CallsSpaced, NEW seconds \in CloseTimes, CloseLedger(seconds)
  PROVE  CallsSpaced'
<1>1. /\ time \in Nat /\ sequence \in Nat /\ seconds \in Nat
      /\ time' = time + seconds /\ sequence' = sequence + 1
      /\ UNCHANGED <<bucket, liveUntil, let_through>>
  BY HostAssumption, BoundsAssumption, SMT DEF CloseLedger, TypeOK
<1>2. /\ time' \in Nat /\ time <= time' /\ sequence' > 0
  BY <1>1, SMT
<1>3. ASSUME NEW k \in Key
      PROVE  /\ WellSpaced(let_through[k], Len(let_through[k]), bucket[k].count, bucket[k].start, time')
             /\ let_through[k] = <<>> => ~(sequence' <= liveUntil[k])
  <2>1. PICK h, n, c, s : h = let_through[k] /\ n = Len(h) /\ c = bucket[k].count /\ s = bucket[k].start
    OBVIOUS
  <2>2. /\ n \in Nat /\ c \in Nat /\ s \in Nat /\ h \in Seq(0 .. MaxTime)
        /\ \A i \in 1 .. n : h[i] \in Nat
    BY <2>1, LimitAssumption, BoundsAssumption, SMT DEF TypeOK
  <2>3. WellSpaced(h, n, c, s, time)
    BY <2>1 DEF CallsSpaced
  <2>4. WellSpaced(h, n, c, s, time')
    BY <1>1, <1>2, <2>2, <2>3, SpacedLater
  <2>5. let_through[k] = <<>> => ~(sequence' <= liveUntil[k])
    <3>1. liveUntil[k] \in Nat /\ (let_through[k] = <<>> => ~(sequence <= liveUntil[k]))
      BY DEF CallsSpaced, Present, TypeOK
    <3> QED
      BY <1>1, <3>1, SMT
  <2> QED
    BY <2>1, <2>4, <2>5
<1> QED
  BY <1>1, <1>2, <1>3 DEF CallsSpaced, Present

\* Well spaced calls respect the window.
LEMMA SpacedRespects ==
  ASSUME TypeOK, CallsSpaced
  PROVE  WindowRespected
<1> SUFFICES ASSUME NEW k \in Key, NEW t \in 0 .. MaxTime
             PROVE  CallsIn(k, t, t + Window) <= 2 * MaxCalls - 1
  BY DEF WindowRespected
<1> USE LimitAssumption, BoundsAssumption
<1>1. PICK h, n, c, s : h = let_through[k] /\ n = Len(h) /\ c = bucket[k].count /\ s = bucket[k].start
  OBVIOUS
<1>2. /\ n \in Nat /\ DOMAIN h = 1 .. n /\ \A i \in 1 .. n : h[i] \in Nat
  BY <1>1, SMT DEF TypeOK
<1>3. WellSpaced(h, n, c, s, time)
  BY <1>1 DEF CallsSpaced
<1>4. PICK D : D = {i \in DOMAIN h : h[i] \in t .. (t + Window) - 1}
  OBVIOUS
<1>5. CallsIn(k, t, t + Window) = Cardinality(D)
  BY <1>1, <1>4 DEF CallsIn
<1>6. CASE D = {}
  BY <1>5, <1>6, FS_EmptySet, SMT
<1>7. CASE D # {}
  <2>1. D \subseteq Nat
    BY <1>2, <1>4, SMT
  <2>2. PICK i \in D : \A j \in D : i <= j
    BY <1>7, <2>1, LeastPlace
  <2> DEFINE z == i + (2 * MaxCalls - 2)
  <2>3. i \in 1 .. n /\ h[i] \in t .. (t + Window) - 1 /\ z \in Nat /\ i \in Nat
    BY <1>2, <1>4, SMT
  <2>4. ASSUME NEW j \in D PROVE j \in i .. z
    <3>1. j \in 1 .. n /\ h[j] \in t .. (t + Window) - 1 /\ i <= j
      BY <1>2, <1>4, <2>2
    <3>2. ~(h[i] + Window <= h[j])
      BY <2>3, <3>1, <1>2, SMT
    <3>3. ~(i + 2 * MaxCalls <= j + 1)
      BY <1>3, <2>3, <3>1, <3>2 DEF WellSpaced
    <3> QED
      BY <2>3, <3>1, <3>3, SMT
  <2>5. D \subseteq i .. z
    BY <2>4
  <2>6. /\ IsFiniteSet(i .. z)
        /\ Cardinality(i .. z) = IF i > z THEN 0 ELSE (z - i) + 1
    BY <2>3, FS_Interval, SMT
  <2>7. (z - i) + 1 = 2 * MaxCalls - 1 /\ ~(i > z)
    BY <2>3, SMT
  <2>8. Cardinality(D) <= Cardinality(i .. z)
    BY <2>5, <2>6, FS_Subset
  <2> HIDE DEF z
  <2> QED
    BY <1>5, <2>6, <2>7, <2>8
<1> QED
  BY <1>6, <1>7

\* In any interval as long as a window fewer than twice MaxCalls calls of a key get
\* through, however often its bucket expires: the bucket that counts them lives in
\* temporary storage and is kept as many ledgers as the window has times five seconds,
\* which outlives the window as long as no ledger takes less than the five seconds
\* rate_limiter.rs reckons with.
THEOREM LimitAlwaysKept ==
  ASSUME \A seconds \in CloseTimes : seconds >= 5
  PROVE  Spec => []LimitKept
<1>1. Spec => []TypeOK /\ []BucketOutlivesWindow
  BY TypeCorrect, OutlivesWindow
<1>2. TypeOK /\ BucketOutlivesWindow /\ CallsSpaced /\ [Next]_vars => CallsSpaced'
  <2>1. ASSUME CallsSpaced, UNCHANGED vars PROVE CallsSpaced'
    BY <2>1 DEF vars, CallsSpaced, Present
  <2> QED
    BY <2>1, SpacedAfterCall, SpacedAfterClosing DEF Next
<1>3. TypeOK /\ BucketOutlivesWindow /\ CallsSpaced => LimitKept
  BY SpacedRespects DEF LimitKept
<1> QED
  BY <1>1, <1>2, <1>3, SpacedInitially, PTL DEF Spec

-----------------------------------------------------------------------------
(***************************************************************************)
(* UpgradeGovernance: decisions are taken by the final tally and stand.    *)
(***************************************************************************)
ProposalStatus == {"Active", "Succeeded", "Defeated", "Executed"}
ProposalRecord ==
    [start : Nat, end : Nat, execution : Nat, status : ProposalStatus, tally : [VoteType -> Nat],
     rollbackOf : Nat, hashed : BOOLEAN]
Term == [at : Nat, config : Config, index : Nat]

GovTypes ==
    /\ governors \in [Governor -> [power : Nat, active : BOOLEAN, known : BOOLEAN]]
    /\ governorIndex \in Nat /\ governorIndex > 0
    /\ govConfig \in Config
    /\ clock \in Nat
    /\ proposals \in Seq(ProposalRecord)
    /\ votes \in Seq([Governor -> VoteType \cup {"none"}])
    /\ snapshots \in Seq(SUBSET Nat)
    /\ terms \in Seq(SUBSET Term)
    /\ Len(votes) = Len(proposals) /\ Len(snapshots) = Len(proposals) /\ Len(terms) = Len(proposals)

\* What holds of a proposal q, the terms it was decided with and the times it was executed.
ProposalSound(q, decided, ran, now) ==
    /\ q.start <= now
    /\ q.status = "Active" <=> decided = {}
    /\ \A t \in decided :
          /\ q.status \in {"Succeeded", "Executed"} <=>
                q.tally["for"] * 10000 >= t.config.approval * Valid(q.tally)
          /\ t.at < q.end => Total(q.tally) * 10000 >= t.config.quorum * t.index
    /\ q.status = "Executed" <=> ran # {}
    /\ \A at \in ran : q.execution <= at /\ at <= now
    /\ q.rollbackOf = 0 => q.execution >= q.end + MinTimelock
    /\ q.rollbackOf # 0 => q.execution >= q.start + MinTimelock

\* What is rolled back was executed before.
RollbackSound(p) ==
    proposals[p].rollbackOf # 0 =>
        /\ proposals[p].rollbackOf < p
        /\ \E at \in snapshots[proposals[p].rollbackOf] : at <= proposals[p].start

GovInv ==
    /\ GovTypes
    /\ \A p \in 1 .. Len(proposals) :
          /\ ProposalSound(proposals[p], terms[p], snapshots[p], clock)
          /\ RollbackSound(p)

\* The fields of a proposal.
LEMMA RecordTypes ==
  ASSUME NEW q \in ProposalRecord
  PROVE  /\ q.start \in Nat /\ q.end \in Nat /\ q.execution \in Nat /\ q.rollbackOf \in Nat
         /\ q.status \in ProposalStatus /\ q.tally \in [VoteType -> Nat]
BY DEF ProposalRecord

\* A quotient that rounds down reaches c exactly when a reaches c * b.
LEMMA RoundsDown ==
  ASSUME NEW a \in Nat, NEW b \in Nat, b > 0, NEW c \in Nat
  PROVE  (a \div b >= c) <=> (a >= c * b)
BY SMT

\* The numbers a governor may choose are natural numbers.
LEMMA LimitTypes ==
  /\ Quorums \subseteq Nat /\ VotingPeriods \subseteq Nat /\ Approvals \subseteq Nat
  /\ TimeLocks \subseteq Nat /\ Power \subseteq Nat /\ MinTimelock \in Nat
<1>1. MinTimelock \in Nat
  BY GovernanceAssumption
<1>2. VotingPeriods \subseteq Nat
  BY GovernanceAssumption, SMT
<1>3. TimeLocks \subseteq Nat
  BY GovernanceAssumption, SMT
<1>4. Power \subseteq Nat
  BY GovernanceAssumption, SMT
<1>5. Quorums \subseteq Nat
  BY GovernanceAssumption, SMT
<1>6. Approvals \subseteq Nat
  BY GovernanceAssumption, SMT
<1> QED
  BY <1>1, <1>2, <1>3, <1>4, <1>5, <1>6

\* The fields of the configuration.
LEMMA ConfigTypes ==
  ASSUME NEW c \in Config
  PROVE  c.period \in Nat /\ c.lock \in Nat /\ c.lock >= MinTimelock /\ c.quorum \in Nat /\ c.approval \in Nat
<1>1. c.period \in Nat /\ c.lock \in Nat /\ c.quorum \in Nat /\ c.approval \in Nat
  BY LimitTypes DEF Config
<1>2. c.lock \in TimeLocks
  BY DEF Config
<1>3. \A lock \in TimeLocks : lock >= MinTimelock
  BY GovernanceAssumption
<1> QED
  BY <1>1, <1>2, <1>3

\* A proposal is opened, by create_proposal or queue_rollback.
LEMMA OpenedKeeps ==
  ASSUME GovInv, NEW execution \in Nat, NEW rollbackOf \in Nat, NEW hashed \in BOOLEAN,
         Opened(execution, rollbackOf, hashed), clock' = clock,
         rollbackOf = 0 => execution >= (clock + govConfig.period) + MinTimelock,
         rollbackOf # 0 => execution >= clock + MinTimelock,
         rollbackOf # 0 => rollbackOf \in 1 .. Len(proposals) /\ snapshots[rollbackOf] # {}
  PROVE  GovInv'
<1>1. PICK q : q = [start |-> clock, end |-> clock + govConfig.period, execution |-> execution,
           status |-> "Active", tally |-> [v \in VoteType |-> 0], rollbackOf |-> rollbackOf,
           hashed |-> hashed]
  OBVIOUS
<1>2. clock \in Nat /\ govConfig.period \in Nat /\ clock + govConfig.period \in Nat
  BY ConfigTypes, SMT DEF GovInv, GovTypes
<1>3. q \in ProposalRecord
  BY <1>1, <1>2 DEF ProposalRecord, ProposalStatus
<1>4. /\ proposals \in Seq(ProposalRecord)
      /\ votes \in Seq([Governor -> VoteType \cup {"none"}])
      /\ snapshots \in Seq(SUBSET Nat) /\ terms \in Seq(SUBSET Term)
      /\ Len(votes) = Len(proposals) /\ Len(snapshots) = Len(proposals) /\ Len(terms) = Len(proposals)
  BY DEF GovInv, GovTypes
<1>5. /\ proposals' = Append(proposals, q)
      /\ votes' = Append(votes, [g \in Governor |-> "none"])
      /\ snapshots' = Append(snapshots, {}) /\ terms' = Append(terms, {})
      /\ UNCHANGED <<governors, governorIndex, govConfig>>
  BY <1>1 DEF Opened
<1>6. [g \in Governor |-> "none"] \in [Governor -> VoteType \cup {"none"}]
  OBVIOUS
<1>7. PICK n : n = Len(proposals)
  OBVIOUS
<1>8. /\ n \in Nat
      /\ proposals' \in Seq(ProposalRecord) /\ Len(proposals') = n + 1
      /\ proposals'[n + 1] = q /\ \A p \in 1 .. n : proposals'[p] = proposals[p]
  BY <1>3, <1>4, <1>5, <1>7
<1>9. votes' \in Seq([Governor -> VoteType \cup {"none"}]) /\ Len(votes') = n + 1
  BY <1>4, <1>5, <1>6, <1>7
<1>10. /\ snapshots' \in Seq(SUBSET Nat) /\ Len(snapshots') = n + 1
       /\ snapshots'[n + 1] = {} /\ \A p \in 1 .. n : snapshots'[p] = snapshots[p]
  BY <1>4, <1>5, <1>7
<1>11. /\ terms' \in Seq(SUBSET Term) /\ Len(terms') = n + 1
       /\ terms'[n + 1] = {} /\ \A p \in 1 .. n : terms'[p] = terms[p]
  BY <1>4, <1>5, <1>7
<1>12. ProposalSound(q, {}, {}, clock)
  BY <1>1, <1>2, SMT DEF ProposalSound
<1>13. /\ \A p \in 1 .. (n + 1) : p \in 1 .. n \/ p = n + 1
       /\ \A p \in 1 .. n : p < n + 1
  BY <1>8, SMT
<1>14. ASSUME NEW p \in 1 .. (n + 1)
       PROVE  /\ ProposalSound(proposals'[p], terms'[p], snapshots'[p], clock')
              /\ proposals'[p].rollbackOf # 0 =>
                    /\ proposals'[p].rollbackOf < p
                    /\ \E at \in snapshots'[proposals'[p].rollbackOf] : at <= proposals'[p].start
  <2>1. CASE p \in 1 .. n
    <3>1. ProposalSound(proposals[p], terms[p], snapshots[p], clock) /\ RollbackSound(p)
      BY <1>7, <2>1 DEF GovInv
    <3>2. proposals[p] \in ProposalRecord /\ proposals[p].rollbackOf \in Nat
      <4>1. proposals[p] \in ProposalRecord
        BY <1>4, <1>7, <2>1
      <4> QED
        BY <4>1, RecordTypes
    <3>3. proposals[p].rollbackOf # 0 /\ proposals[p].rollbackOf < p => proposals[p].rollbackOf \in 1 .. n
      BY <1>8, <2>1, <3>2, SMT
    <3> QED
      BY <1>8, <1>10, <1>11, <2>1, <3>1, <3>3 DEF RollbackSound
  <2>2. CASE p = n + 1
    <3>1. ProposalSound(proposals'[p], terms'[p], snapshots'[p], clock')
      BY <1>8, <1>10, <1>11, <1>12, <2>2
    <3>2. rollbackOf # 0 => rollbackOf < n + 1 /\ snapshots'[rollbackOf] = snapshots[rollbackOf]
      BY <1>7, <1>10, <1>13
    <3>3. rollbackOf # 0 => \E at \in snapshots[rollbackOf] : at <= clock
      BY DEF GovInv, ProposalSound
    <3>4. proposals'[p].rollbackOf = rollbackOf /\ proposals'[p].start = clock
      BY <1>1, <1>8, <2>2
    <3> QED
      BY <2>2, <3>1, <3>2, <3>3, <3>4
  <2> QED
    BY <1>13, <2>1, <2>2
<1>15. GovTypes'
  BY <1>5, <1>8, <1>9, <1>10, <1>11 DEF GovInv, GovTypes
<1> QED
  BY <1>8, <1>14, <1>15 DEF GovInv, RollbackSound

\* One proposal changes, not when it began nor what it rolls back; what ran stays.
LEMMA OneProposalKeeps ==
  ASSUME GovInv, NEW p \in 1 .. Len(proposals),
         NEW q \in ProposalRecord, q.start = proposals[p].start, q.rollbackOf = proposals[p].rollbackOf,
         NEW decided \in SUBSET Term, NEW ran \in SUBSET Nat, snapshots[p] = {} \/ ran = snapshots[p],
         ProposalSound(q, decided, ran, clock),
         proposals' = [proposals EXCEPT ![p] = q],
         terms' = [terms EXCEPT ![p] = decided],
         snapshots' = [snapshots EXCEPT ![p] = ran],
         votes' \in Seq([Governor -> VoteType \cup {"none"}]), Len(votes') = Len(votes),
         UNCHANGED <<governors, governorIndex, govConfig, clock>>
  PROVE  GovInv'
<1>1. /\ proposals \in Seq(ProposalRecord)
      /\ snapshots \in Seq(SUBSET Nat) /\ terms \in Seq(SUBSET Term)
      /\ Len(votes) = Len(proposals) /\ Len(snapshots) = Len(proposals) /\ Len(terms) = Len(proposals)
  BY DEF GovInv, GovTypes
<1>2. /\ proposals' \in Seq(ProposalRecord) /\ Len(proposals') = Len(proposals)
      /\ proposals'[p] = q /\ \A o \in 1 .. Len(proposals) : o # p => proposals'[o] = proposals[o]
  BY <1>1
<1>3. /\ terms' \in Seq(SUBSET Term) /\ Len(terms') = Len(proposals)
      /\ terms'[p] = decided /\ \A o \in 1 .. Len(proposals) : o # p => terms'[o] = terms[o]
  BY <1>1
<1>4. /\ snapshots' \in Seq(SUBSET Nat) /\ Len(snapshots') = Len(proposals)
      /\ snapshots'[p] = ran /\ \A o \in 1 .. Len(proposals) : o # p => snapshots'[o] = snapshots[o]
  BY <1>1
<1>5. GovTypes'
  BY <1>1, <1>2, <1>3, <1>4 DEF GovInv, GovTypes
<1>6. ASSUME NEW o \in 1 .. Len(proposals)
      PROVE  /\ ProposalSound(proposals'[o], terms'[o], snapshots'[o], clock)
             /\ proposals'[o].rollbackOf # 0 =>
                    /\ proposals'[o].rollbackOf < o
                    /\ \E at \in snapshots'[proposals'[o].rollbackOf] : at <= proposals'[o].start
  <2>1. ProposalSound(proposals[o], terms[o], snapshots[o], clock) /\ RollbackSound(o)
    BY DEF GovInv
  <2>2. ProposalSound(proposals'[o], terms'[o], snapshots'[o], clock)
    BY <1>2, <1>3, <1>4, <2>1
  <2>3. proposals'[o].rollbackOf = proposals[o].rollbackOf /\ proposals'[o].start = proposals[o].start
    BY <1>2
  <2>4. ASSUME proposals[o].rollbackOf # 0
        PROVE  \E at \in snapshots'[proposals[o].rollbackOf] : at <= proposals[o].start
    <3>1. PICK at \in snapshots[proposals[o].rollbackOf] : at <= proposals[o].start
      BY <2>1, <2>4 DEF RollbackSound
    <3>2. proposals[o].rollbackOf \in 1 .. Len(proposals)
      <4>1. proposals[o].rollbackOf \in Nat /\ proposals[o].rollbackOf < o /\ Len(proposals) \in Nat
        <5>1. proposals[o] \in ProposalRecord /\ Len(proposals) \in Nat
          BY <1>1
        <5> QED
          BY <2>1, <2>4, <5>1, RecordTypes DEF RollbackSound
      <4> QED
        BY <2>4, <4>1, SMT
    <3>3. snapshots'[proposals[o].rollbackOf] = snapshots[proposals[o].rollbackOf]
      BY <1>4, <3>1, <3>2
    <3> QED
      BY <3>1, <3>3
  <2> QED
    BY <2>1, <2>2, <2>3, <2>4 DEF RollbackSound
<1> QED
  BY <1>2, <1>5, <1>6 DEF GovInv, RollbackSound

\* create_proposal opens one after the voting period and the time lock.
LEMMA CreateProposalKeeps ==
  ASSUME GovInv, NEW g \in Governor, NEW hashed \in BOOLEAN, CreateProposal(g, hashed)
  PROVE  GovInv'
<1>1. clock \in Nat /\ govConfig.period \in Nat /\ govConfig.lock \in Nat /\ govConfig.lock >= MinTimelock
  BY ConfigTypes DEF GovInv, GovTypes
<1>2. ExecutionTime(govConfig) \in Nat
      /\ ExecutionTime(govConfig) >= (clock + govConfig.period) + MinTimelock
  BY <1>1, LimitTypes, SMT DEF ExecutionTime
<1>3. Opened(ExecutionTime(govConfig), 0, hashed) /\ clock' = clock
  BY DEF CreateProposal, Called
<1> QED
  BY <1>2, <1>3, OpenedKeeps

\* queue_rollback opens one back to a snapshot, after the shortest time lock.
LEMMA QueueRollbackKeeps ==
  ASSUME GovInv, NEW p \in Proposal, QueueRollback(p)
  PROVE  GovInv'
<1>1. /\ clock \in Nat /\ p \in 1 .. Len(proposals) /\ p \in Nat /\ p # 0
      /\ clock + MinTimelock \in Nat
  <2>1. clock \in Nat /\ MinTimelock \in Nat /\ proposals \in Seq(ProposalRecord)
    BY LimitTypes DEF GovInv, GovTypes
  <2>2. DOMAIN proposals = 1 .. Len(proposals) /\ Len(proposals) \in Nat
    BY <2>1
  <2>3. p \in 1 .. Len(proposals)
    BY <2>2 DEF Proposal
  <2> QED
    BY <2>1, <2>2, <2>3, SMT
<1>2. Opened(clock + MinTimelock, p, FALSE) /\ clock' = clock /\ snapshots[p] # {}
  BY DEF QueueRollback, Called
<1>3. clock + MinTimelock >= clock + MinTimelock
  BY <1>1, SMT
<1> QED
  BY <1>1, <1>2, <1>3, OpenedKeeps

\* What maybe_finalize decides, and on which grounds.
LEMMA DecisionFair ==
  ASSUME GovTypes, NEW p \in Proposal, NEW tally \in [VoteType -> Nat], Decided(p, tally)
  PROVE  /\ Approved(tally) <=> tally["for"] * 10000 >= govConfig.approval * Valid(tally)
         /\ clock < proposals[p].end => Total(tally) * 10000 >= govConfig.quorum * governorIndex
<1>1. tally["for"] \in Nat /\ tally["against"] \in Nat /\ tally["abstain"] \in Nat
  BY DEF VoteType
<1>2. Valid(tally) \in Nat /\ Valid(tally) > 0 /\ Total(tally) \in Nat
  BY <1>1, SMT DEF Decided, Valid, Total
<1>3. govConfig.approval \in Nat /\ govConfig.quorum \in Nat /\ governorIndex \in Nat /\ governorIndex > 0
  BY ConfigTypes DEF GovTypes
<1>4. tally["for"] * 10000 \in Nat /\ Total(tally) * 10000 \in Nat
  BY <1>1, <1>2, SMT
<1>5. Approved(tally) <=> tally["for"] * 10000 >= govConfig.approval * Valid(tally)
  BY <1>2, <1>3, <1>4, RoundsDown DEF Approved
<1>6. Quorate(tally) <=> Total(tally) * 10000 >= govConfig.quorum * governorIndex
  BY <1>3, <1>4, RoundsDown DEF Quorate
<1> QED
  BY <1>5, <1>6 DEF Decided

\* cast_vote counts a vote once and decides when quorum and approval are reached.
LEMMA CastVoteKeeps ==
  ASSUME GovInv, NEW g \in Governor, NEW p \in Proposal, NEW vote \in VoteType, CastVote(g, p, vote)
  PROVE  GovInv'
<1>1. /\ proposals \in Seq(ProposalRecord) /\ p \in 1 .. Len(proposals) /\ proposals[p] \in ProposalRecord
      /\ terms \in Seq(SUBSET Term) /\ snapshots \in Seq(SUBSET Nat)
      /\ votes \in Seq([Governor -> VoteType \cup {"none"}])
      /\ Len(votes) = Len(proposals) /\ Len(snapshots) = Len(proposals) /\ Len(terms) = Len(proposals)
      /\ governors[g].power \in Nat /\ clock \in Nat /\ governorIndex \in Nat /\ govConfig \in Config
  <2>1. proposals \in Seq(ProposalRecord) /\ DOMAIN proposals = 1 .. Len(proposals)
    BY DEF GovInv, GovTypes
  <2>2. p \in 1 .. Len(proposals) /\ proposals[p] \in ProposalRecord
    BY <2>1 DEF Proposal
  <2> QED
    BY <2>1, <2>2 DEF GovInv, GovTypes
<1>2. PICK tally : tally = [proposals[p].tally EXCEPT ![vote] = @ + governors[g].power]
  OBVIOUS
<1>3. tally \in [VoteType -> Nat]
  <2>1. proposals[p].tally \in [VoteType -> Nat]
    BY <1>1, RecordTypes
  <2> QED
    BY <1>1, <1>2, <2>1
<1>4. PICK status : status = IF ~Decided(p, tally) THEN "Active"
                     ELSE IF Approved(tally) THEN "Succeeded" ELSE "Defeated"
  OBVIOUS
<1>5. status \in ProposalStatus
  BY <1>4 DEF ProposalStatus
<1>6. PICK q : q = [proposals[p] EXCEPT !.tally = tally, !.status = status]
  OBVIOUS
<1>7. /\ q \in ProposalRecord
      /\ q.start = proposals[p].start /\ q.end = proposals[p].end /\ q.execution = proposals[p].execution
      /\ q.rollbackOf = proposals[p].rollbackOf /\ q.tally = tally /\ q.status = status
  BY <1>1, <1>3, <1>5, <1>6 DEF ProposalRecord
<1>8. PICK t : t = [at |-> clock, config |-> govConfig, index |-> governorIndex]
  OBVIOUS
<1>9. t \in Term /\ t.at = clock /\ t.config = govConfig /\ t.index = governorIndex
  BY <1>1, <1>8 DEF Term
<1>10. /\ proposals[p].status = "Active"
       /\ ProposalSound(proposals[p], terms[p], snapshots[p], clock)
  BY <1>1 DEF CastVote, MayVote, GovInv
<1>11. terms[p] = {} /\ snapshots[p] = {}
  BY <1>10 DEF ProposalSound
<1>12. PICK decided : decided = IF status = "Active" THEN {} ELSE {t}
  OBVIOUS
<1>13. ProposalSound(q, decided, {}, clock)
  <2>1. status = "Active" <=> decided = {}
    BY <1>12
  <2>2. status # "Executed"
    BY <1>4
  <2>3. ASSUME NEW d \in decided
        PROVE  /\ q.status \in {"Succeeded", "Executed"} <=>
                     q.tally["for"] * 10000 >= d.config.approval * Valid(q.tally)
               /\ d.at < q.end => Total(q.tally) * 10000 >= d.config.quorum * d.index
    <3>1. d = t /\ Decided(p, tally)
      BY <1>4, <1>12, <2>3
    <3>2. /\ Approved(tally) <=> tally["for"] * 10000 >= govConfig.approval * Valid(tally)
          /\ clock < proposals[p].end => Total(tally) * 10000 >= govConfig.quorum * governorIndex
      BY <1>3, <3>1, DecisionFair DEF GovInv
    <3>3. q.status \in {"Succeeded", "Executed"} <=> Approved(tally)
      BY <1>4, <1>7, <3>1
    <3> QED
      BY <1>7, <1>9, <3>1, <3>2, <3>3
  <2> QED
    BY <1>7, <1>10, <2>1, <2>2, <2>3 DEF ProposalSound
<1>14. proposals' = [proposals EXCEPT ![p] = q]
  BY <1>2, <1>4, <1>6 DEF CastVote
<1>15. terms' = [terms EXCEPT ![p] = decided]
  <2>1. terms' = IF status = "Active" THEN terms ELSE [terms EXCEPT ![p] = {t}]
    BY <1>2, <1>4, <1>8 DEF CastVote
  <2>2. CASE status = "Active"
    <3>1. terms' = terms /\ decided = terms[p]
      BY <1>11, <1>12, <2>1, <2>2
    <3>2. terms = [o \in DOMAIN terms |-> terms[o]]
      BY <1>1
    <3> QED
      BY <3>1, <3>2
  <2>3. CASE status # "Active"
    BY <1>12, <2>1, <2>3
  <2> QED
    BY <2>2, <2>3
<1>16. snapshots' = [snapshots EXCEPT ![p] = {}]
  <2>1. snapshots' = snapshots
    BY DEF CastVote
  <2>2. snapshots = [o \in DOMAIN snapshots |-> snapshots[o]]
    BY <1>1
  <2> QED
    BY <1>11, <2>1, <2>2
<1>17. votes' \in Seq([Governor -> VoteType \cup {"none"}]) /\ Len(votes') = Len(votes)
  <2>1. votes' = [votes EXCEPT ![p] = [votes[p] EXCEPT ![g] = vote]]
    BY DEF CastVote
  <2>2. [votes[p] EXCEPT ![g] = vote] \in [Governor -> VoteType \cup {"none"}]
    BY <1>1
  <2> QED
    BY <1>1, <2>1, <2>2
<1>18. UNCHANGED <<governors, governorIndex, govConfig, clock>>
  BY DEF CastVote, Called
<1>19. decided \in SUBSET Term /\ {} \in SUBSET Nat
  BY <1>9, <1>12
<1> QED
  BY <1>1, <1>7, <1>11, <1>13, <1>14, <1>15, <1>16, <1>17, <1>18, <1>19, OneProposalKeeps

\* execute_proposal decides what voting left open and runs what was approved.
LEMMA ExecuteProposalKeeps ==
  ASSUME GovInv, NEW g \in Governor, NEW p \in Proposal, ExecuteProposal(g, p)
  PROVE  GovInv'
<1>1. /\ proposals \in Seq(ProposalRecord) /\ p \in 1 .. Len(proposals) /\ proposals[p] \in ProposalRecord
      /\ terms \in Seq(SUBSET Term) /\ snapshots \in Seq(SUBSET Nat)
      /\ votes \in Seq([Governor -> VoteType \cup {"none"}])
      /\ Len(terms) = Len(proposals) /\ clock \in Nat
  BY DEF GovInv, GovTypes, Proposal
<1>2. /\ proposals[p].status = "Succeeded" /\ proposals[p].execution <= clock
      /\ ProposalSound(proposals[p], terms[p], snapshots[p], clock)
  BY <1>1, SMT DEF ExecuteProposal, GovInv
<1>3. PICK q : q = [proposals[p] EXCEPT !.status = "Executed"]
  OBVIOUS
<1>4. /\ q \in ProposalRecord /\ q.status = "Executed"
      /\ q.start = proposals[p].start /\ q.end = proposals[p].end /\ q.execution = proposals[p].execution
      /\ q.rollbackOf = proposals[p].rollbackOf /\ q.tally = proposals[p].tally
  BY <1>1, <1>3 DEF ProposalRecord, ProposalStatus
<1>5. ProposalSound(q, terms[p], {clock}, clock)
  BY <1>1, <1>2, <1>4, SMT DEF ProposalSound
<1>6. snapshots[p] = {}
  BY <1>2 DEF ProposalSound
<1>7. /\ proposals' = [proposals EXCEPT ![p] = q]
      /\ snapshots' = [snapshots EXCEPT ![p] = {clock}]
      /\ terms' = terms /\ votes' = votes
      /\ UNCHANGED <<governors, governorIndex, govConfig, clock>>
  BY <1>3 DEF ExecuteProposal, Called
<1>8. terms' = [terms EXCEPT ![p] = terms[p]]
  <2>1. terms = [o \in DOMAIN terms |-> terms[o]]
    BY <1>1
  <2> QED
    BY <1>7, <2>1
<1>9. terms[p] \in SUBSET Term /\ {clock} \in SUBSET Nat
  BY <1>1
<1> QED
  BY <1>1, <1>4, <1>5, <1>6, <1>7, <1>8, <1>9, OneProposalKeeps

\* The proposals are left alone, and the clock does not go back.
LEMMA ProposalsRest ==
  ASSUME GovInv, UNCHANGED <<proposals, votes, snapshots, terms>>,
         governors' \in [Governor -> [power : Nat, active : BOOLEAN, known : BOOLEAN]],
         governorIndex' \in Nat, governorIndex' > 0, govConfig' \in Config,
         clock' \in Nat, clock <= clock'
  PROVE  GovInv'
<1>1. GovTypes'
  <2>1. GovTypes /\ proposals' = proposals /\ votes' = votes /\ snapshots' = snapshots /\ terms' = terms
    BY DEF GovInv
  <2>2. /\ proposals \in Seq(ProposalRecord) /\ votes \in Seq([Governor -> VoteType \cup {"none"}])
        /\ snapshots \in Seq(SUBSET Nat) /\ terms \in Seq(SUBSET Term)
        /\ Len(votes) = Len(proposals) /\ Len(snapshots) = Len(proposals) /\ Len(terms) = Len(proposals)
    BY <2>1, Zenon DEF GovTypes
  <2> QED
    BY <2>1, <2>2, Zenon DEF GovTypes
<1>2. ASSUME NEW p \in 1 .. Len(proposals)
      PROVE  ProposalSound(proposals[p], terms[p], snapshots[p], clock')
  <2>0. /\ p \in DOMAIN proposals /\ p \in DOMAIN snapshots /\ clock \in Nat
        /\ proposals \in Seq(ProposalRecord) /\ snapshots \in Seq(SUBSET Nat)
    BY SMT DEF GovInv, GovTypes
  <2>1. /\ ProposalSound(proposals[p], terms[p], snapshots[p], clock)
        /\ proposals[p] \in ProposalRecord /\ snapshots[p] \in SUBSET Nat /\ clock \in Nat
    <3>1. ProposalSound(proposals[p], terms[p], snapshots[p], clock)
      BY Zenon DEF GovInv
    <3>2. proposals[p] \in ProposalRecord /\ snapshots[p] \in SUBSET Nat
      BY <2>0, SMT
    <3> QED
      BY <2>0, <3>1, <3>2
  <2>2. proposals[p].start <= clock' /\ \A at \in snapshots[p] : at <= clock'
    BY <2>1, RecordTypes, SMT DEF ProposalSound
  <2> QED
    BY <2>1, <2>2 DEF ProposalSound
<1> QED
  BY <1>1, <1>2 DEF GovInv, RollbackSound

\* Each step of the governance keeps the invariant.
LEMMA GovStep == ASSUME GovInv, [GovNext]_govVars PROVE GovInv'
<1>0. /\ governors \in [Governor -> [power : Nat, active : BOOLEAN, known : BOOLEAN]]
      /\ governorIndex \in Nat /\ governorIndex > 0 /\ govConfig \in Config /\ clock \in Nat /\ clock <= clock
  BY SMT DEF GovInv, GovTypes
<1>1. CASE UNCHANGED govVars
  BY <1>0, <1>1, ProposalsRest DEF govVars
<1>2. ASSUME NEW g \in Governor, NEW power \in Power, RegisterGovernor(g, power) PROVE GovInv'
  <2>1. governors' \in [Governor -> [power : Nat, active : BOOLEAN, known : BOOLEAN]]
    BY <1>0, <1>2, LimitTypes DEF RegisterGovernor
  <2>2. governorIndex' \in Nat /\ governorIndex' > 0
    BY <1>0, <1>2, SMT DEF RegisterGovernor
  <2> QED
    BY <1>0, <1>2, <2>1, <2>2, ProposalsRest DEF RegisterGovernor, Called
<1>3. ASSUME NEW g \in Governor, RemoveGovernor(g) PROVE GovInv'
  <2>1. governors' \in [Governor -> [power : Nat, active : BOOLEAN, known : BOOLEAN]]
    BY <1>0, <1>3 DEF RemoveGovernor
  <2> QED
    BY <1>0, <1>3, <2>1, ProposalsRest DEF RemoveGovernor, Called
<1>4. ASSUME NEW c \in Config, UpdateGovConfig(c) PROVE GovInv'
  BY <1>0, <1>4, ProposalsRest DEF UpdateGovConfig, Called
<1>5. ASSUME SetPaused(~paused) PROVE GovInv'
  BY <1>0, <1>5, ProposalsRest DEF SetPaused, Called
<1>6. ASSUME NEW p \in Proposal, NEW result \in {"success", "failure"}, RecordSimulation(p, result)
      PROVE  GovInv'
  BY <1>0, <1>6, ProposalsRest DEF RecordSimulation, Called
<1>7. CASE ClockAdvances
  <2>1. clock' \in Nat /\ clock <= clock'
    BY <1>0, <1>7, SMT DEF ClockAdvances
  <2> QED
    BY <1>0, <1>7, <2>1, ProposalsRest DEF ClockAdvances
<1> QED
  BY <1>1, <1>2, <1>3, <1>4, <1>5, <1>6, <1>7,
     CreateProposalKeeps, QueueRollbackKeeps, CastVoteKeeps, ExecuteProposalKeeps DEF GovNext

\* The invariant of the governance.
LEMMA GovInvariance == GovSpec => []GovInv
<1>1. GovInit => GovInv
  <2> SUFFICES ASSUME GovInit PROVE GovInv
    OBVIOUS
  <2>1. PICK initial \in (SUBSET Governor) \ {{}}, twice \in 0 .. 1 :
          /\ governors = [g \in Governor |-> IF g \in initial
                            THEN [power |-> 1, active |-> TRUE, known |-> TRUE] ELSE Unknown]
          /\ governorIndex = Cardinality(initial) + twice
    BY DEF GovInit
  <2>2. IsFiniteSet(initial) /\ initial # {}
    <3>1. initial \in SUBSET Governor /\ initial # {}
      BY <2>1
    <3> QED
      BY <3>1, GovernorAssumption, FS_Subset
  <2>3. Cardinality(initial) \in Nat /\ Cardinality(initial) # 0
    BY <2>2, FS_CardinalityType, FS_EmptySet
  <2>4. governorIndex \in Nat /\ governorIndex > 0
    BY <2>1, <2>3, SMT
  <2>5. governors \in [Governor -> [power : Nat, active : BOOLEAN, known : BOOLEAN]]
    BY <2>1 DEF Unknown
  <2>6. /\ proposals = <<>> /\ votes = <<>> /\ snapshots = <<>> /\ terms = <<>> /\ clock = 0
        /\ govConfig \in Config /\ Len(proposals) = 0
    BY DEF GovInit
  <2>7. GovTypes
    BY <2>4, <2>5, <2>6 DEF GovTypes
  <2>8. 1 .. 0 = {}
    BY SMT
  <2> QED
    BY <2>6, <2>7, <2>8 DEF GovInv
<1> QED
  BY <1>1, GovStep, PTL DEF GovSpec

\* By the invariant decisions are fair and time locks kept.
LEMMA GovInvImplies == ASSUME GovInv PROVE DecidedFairly /\ LockedFirst
<1>1. DOMAIN proposals = 1 .. Len(proposals) /\ Proposal = DOMAIN proposals
  BY DEF GovInv, GovTypes, Proposal
<1>2. DecidedFairly
  BY <1>1 DEF GovInv, ProposalSound, DecidedFairly
<1>3. ASSUME NEW p \in Proposal
      PROVE  LET original == proposals[p].rollbackOf
             IN  /\ \A at \in snapshots[p] :
                      at >= MinTimelock + IF original = 0 THEN proposals[p].end
                                          ELSE proposals[p].start
                 /\ original # 0 =>
                      original < p /\ \E at \in snapshots[original] : at <= proposals[p].start
  <2>1. ProposalSound(proposals[p], terms[p], snapshots[p], clock) /\ RollbackSound(p)
    BY <1>1 DEF GovInv
  <2>2. /\ proposals[p].start \in Nat /\ proposals[p].end \in Nat /\ proposals[p].execution \in Nat
        /\ snapshots[p] \in SUBSET Nat /\ MinTimelock \in Nat
    <3>1. proposals[p] \in ProposalRecord /\ snapshots[p] \in SUBSET Nat
      BY <1>1 DEF GovInv, GovTypes
    <3> QED
      BY <3>1, RecordTypes, LimitTypes
  <2>3. ASSUME NEW at \in snapshots[p], proposals[p].rollbackOf = 0
        PROVE  at >= MinTimelock + proposals[p].end
    BY <2>1, <2>2, <2>3, SMT DEF ProposalSound
  <2>4. ASSUME NEW at \in snapshots[p], proposals[p].rollbackOf # 0
        PROVE  at >= MinTimelock + proposals[p].start
    BY <2>1, <2>2, <2>4, SMT DEF ProposalSound
  <2> QED
    BY <2>1, <2>3, <2>4 DEF RollbackSound
<1> QED
  BY <1>2, <1>3 DEF LockedFirst

\* No step revises a decision.
LEMMA DecisionsKeptByStep == ASSUME GovInv, GovNext PROVE DecisionsKept
<1> SUFFICES ASSUME NEW p \in Proposal, proposals[p].status # "Active" \/ clock > proposals[p].end
             PROVE  /\ votes'[p] = votes[p] /\ proposals'[p].tally = proposals[p].tally
                    /\ proposals'[p].status # proposals[p].status =>
                          proposals[p].status = "Succeeded" /\ proposals'[p].status = "Executed"
  BY DEF DecisionsKept
<1>1. /\ proposals \in Seq(ProposalRecord) /\ p \in 1 .. Len(proposals)
      /\ votes \in Seq([Governor -> VoteType \cup {"none"}]) /\ Len(votes) = Len(proposals)
      /\ proposals[p] \in ProposalRecord /\ clock \in Nat /\ DOMAIN proposals = Proposal
  BY DEF GovInv, GovTypes, Proposal
<1>2. CASE UNCHANGED <<proposals, votes>>
  BY <1>2
<1>3. ASSUME NEW execution, NEW rollbackOf, NEW hashed, Opened(execution, rollbackOf, hashed)
      PROVE  votes'[p] = votes[p] /\ proposals'[p] = proposals[p]
  <2>1. /\ \E q : proposals' = Append(proposals, q)
        /\ \E v : votes' = Append(votes, v)
    BY <1>3 DEF Opened
  <2> QED
    BY <1>1, <2>1
<1>4. ASSUME NEW g \in Governor, NEW o \in Proposal, NEW vote \in VoteType, CastVote(g, o, vote)
      PROVE  votes'[p] = votes[p] /\ proposals'[p] = proposals[p]
  <2>1. proposals[o].status = "Active" /\ clock <= proposals[o].end
    BY <1>4 DEF CastVote, MayVote
  <2>2. o # p
    <3>1. proposals[p].end \in Nat
      BY <1>1 DEF ProposalRecord
    <3> QED
      BY <1>1, <2>1, <3>1, SMT
  <2>3. /\ \E q : proposals' = [proposals EXCEPT ![o] = q]
        /\ \E v : votes' = [votes EXCEPT ![o] = v]
    BY <1>4 DEF CastVote
  <2> QED
    BY <1>1, <2>2, <2>3
<1>5. ASSUME NEW g \in Governor, NEW o \in Proposal, ExecuteProposal(g, o)
      PROVE  /\ votes'[p] = votes[p] /\ proposals'[p].tally = proposals[p].tally
             /\ proposals'[p].status # proposals[p].status =>
                   proposals[p].status = "Succeeded" /\ proposals'[p].status = "Executed"
  <2>1. /\ votes' = votes /\ proposals[o].status = "Succeeded"
        /\ proposals' = [proposals EXCEPT ![o] = [proposals[o] EXCEPT !.status = "Executed"]]
    BY <1>5 DEF ExecuteProposal
  <2>2. CASE o = p
    <3>1. proposals'[p] = [proposals[p] EXCEPT !.status = "Executed"]
      BY <1>1, <2>1, <2>2
    <3> QED
      BY <1>1, <2>1, <2>2, <3>1 DEF ProposalRecord
  <2>3. CASE o # p
    BY <1>1, <2>1, <2>3
  <2> QED
    BY <2>2, <2>3
<1> QED
  BY <1>2, <1>3, <1>4, <1>5
     DEF GovNext, RegisterGovernor, RemoveGovernor, UpdateGovConfig, SetPaused, RecordSimulation,
         ClockAdvances, CreateProposal, QueueRollback

\* For any number of governors, proposals and calls a decision is that of the final
\* tally under the terms of its moment and stands, nothing runs before its time lock,
\* and only what was executed is rolled back: contract_upgrade_governance.rs decides in
\* cast_vote and again in execute_proposal, by a configuration and a registry of
\* governors that change in between.
THEOREM GovernanceAlwaysSound == GovSpec => GovernanceSound
<1>1. GovInv /\ GovInv' /\ [GovNext]_govVars => [DecidedFairly' /\ LockedFirst' /\ DecisionsKept]_govVars
  <2>1. GovInv' => DecidedFairly' /\ LockedFirst'
    BY GovInvImplies, PTL
  <2> QED
    BY <2>1, DecisionsKeptByStep
<1> QED
  BY <1>1, GovInvariance, PTL DEF GovSpec, GovernanceSound

-----------------------------------------------------------------------------
(***************************************************************************)
(* UpgradeGovernance: tallies are the sums of the votes on record. Who has *)
(* voted is registered and is not registered again, so that a power        *)
(* counted does not change.                                                *)
(***************************************************************************)
\* Who has a vote on record is registered, and so keeps its power; who is active is registered.
VotersKnown ==
    /\ \A g \in Governor : governors[g].active => governors[g].known
    /\ \A p \in 1 .. Len(proposals), g \in Governor : votes[p][g] # "none" => governors[g].known

TallyInv == GovInv /\ VotersKnown /\ Tallied

\* The numbers that a tally adds up.
LEMMA CastTyped ==
  ASSUME GovTypes, NEW p \in 1 .. Len(proposals), NEW v
  PROVE  /\ p \in Proposal /\ DOMAIN Cast(p, v) = Governor /\ Summable(Cast(p, v), Governor)
         /\ SumFunction(Cast(p, v)) = SumFunctionOnSet(Cast(p, v), Governor)
<1>1. p \in Proposal
  BY DEF GovTypes, Proposal
<1>2. DOMAIN Cast(p, v) = Governor
  BY DEF Cast
<1>3. Summable(Cast(p, v), Governor)
  <2> SUFFICES ASSUME NEW g \in Governor PROVE Cast(p, v)[g] \in Int
    BY DEF Summable
  <2>1. governors[g].power \in Int
    BY DEF GovTypes
  <2>2. Cast(p, v)[g] \in {0, governors[g].power}
    BY DEF Cast
  <2> QED
    BY <2>1, <2>2
<1> QED
  BY <1>1, <1>2, <1>3 DEF SumFunction

\* Powers are numbers.
LEMMA GovTyped == ASSUME GovInv PROVE \A g \in Governor : governors[g].power \in Int
BY DEF GovInv, GovTypes

\* A call that leaves the votes and tallies alone, and the powers of those who voted.
LEMMA TallyRests ==
  ASSUME GovInv, VotersKnown, Tallied, GovInv', votes' = votes, Len(proposals') = Len(proposals),
         \A p \in 1 .. Len(proposals) : proposals'[p].tally = proposals[p].tally,
         \A g \in Governor : governors[g].known => governors'[g].power = governors[g].power
  PROVE  Tallied'
<1> SUFFICES ASSUME NEW p \in Proposal', NEW v \in VoteType
             PROVE  proposals'[p].tally[v] = SumFunction(Cast(p, v)')
  BY DEF Tallied
<1>1. p \in 1 .. Len(proposals) /\ p \in 1 .. Len(proposals') /\ p \in Proposal /\ "none" \notin VoteType
  BY DEF GovInv, GovTypes, Proposal, VoteType
<1>2. ASSUME NEW g \in Governor PROVE Cast(p, v)'[g] = Cast(p, v)[g]
  <2>1. votes'[p][g] = v => governors[g].known
    BY <1>1 DEF VotersKnown
  <2> QED
    BY <2>1 DEF Cast
<1>3. Cast(p, v)' = Cast(p, v)
  BY <1>2 DEF Cast
<1> QED
  BY <1>1, <1>3 DEF Tallied

\* A new proposal has no votes yet.
LEMMA OpenedTallied ==
  ASSUME GovInv, VotersKnown, Tallied, GovInv', NEW execution, NEW rollbackOf, NEW hashed,
         Opened(execution, rollbackOf, hashed)
  PROVE  VotersKnown' /\ Tallied'
<1>1. /\ proposals \in Seq(ProposalRecord) /\ votes \in Seq([Governor -> VoteType \cup {"none"}])
      /\ Len(votes) = Len(proposals)
  BY DEF GovInv, GovTypes
<1>2. PICK q : /\ q = [start |-> clock, end |-> clock + govConfig.period, execution |-> execution,
                       status |-> "Active", tally |-> [v \in VoteType |-> 0],
                       rollbackOf |-> rollbackOf, hashed |-> hashed]
  OBVIOUS
<1>3. /\ proposals' = Append(proposals, q) /\ votes' = Append(votes, [g \in Governor |-> "none"])
      /\ governors' = governors /\ q.tally = [v \in VoteType |-> 0]
  BY <1>2 DEF Opened
<1>4. PICK n : n = Len(proposals)
  OBVIOUS
<1>5. /\ n \in Nat /\ Len(proposals') = n + 1 /\ Proposal' = 1 .. (n + 1) /\ Proposal = 1 .. n
      /\ proposals'[n + 1] = q /\ \A p \in 1 .. n : proposals'[p] = proposals[p]
      /\ votes'[n + 1] = [g \in Governor |-> "none"] /\ \A p \in 1 .. n : votes'[p] = votes[p]
  BY <1>1, <1>3, <1>4 DEF Proposal
<1>6. \A p \in 1 .. (n + 1) : p \in 1 .. n \/ p = n + 1
  BY <1>5, SMT
<1>7. VotersKnown'
  <2>1. ASSUME NEW p \in 1 .. (n + 1), NEW g \in Governor, votes'[p][g] # "none"
        PROVE  governors'[g].known
    <3>1. p \in 1 .. n
      BY <1>5, <1>6, <2>1
    <3>2. votes[p][g] # "none" /\ p \in 1 .. Len(proposals)
      BY <1>4, <1>5, <2>1, <3>1
    <3>3. governors[g].known
      BY <3>2, Zenon DEF VotersKnown
    <3> QED
      BY <1>3, <3>3
  <2> QED
    BY <1>3, <1>5, <2>1 DEF VotersKnown
<1>8. ASSUME NEW p \in 1 .. (n + 1), NEW v \in VoteType
      PROVE  proposals'[p].tally[v] = SumFunction(Cast(p, v)')
  <2>1. CASE p \in 1 .. n
    <3>1. Cast(p, v)' = Cast(p, v)
      BY <1>3, <1>5, <2>1 DEF Cast
    <3> QED
      BY <1>5, <2>1, <3>1 DEF Tallied
  <2>2. CASE p = n + 1
    <3>1. DOMAIN Cast(p, v)' = Governor /\ \A g \in Governor : Cast(p, v)'[g] = 0
      BY <1>5, <2>2 DEF Cast, VoteType
    <3>2. SumFunctionOnSet(Cast(p, v)', Governor) = 0
      BY <3>1, GovernorAssumption, SumOfNothing
    <3> QED
      BY <1>3, <1>5, <2>2, <3>1, <3>2 DEF SumFunction
  <2> QED
    BY <1>6, <2>1, <2>2
<1> QED
  BY <1>5, <1>7, <1>8 DEF Tallied

\* A vote adds the power of its governor where the vote is on record, and nowhere else.
LEMMA CastVoteTallied ==
  ASSUME GovInv, VotersKnown, Tallied, GovInv', NEW g \in Governor, NEW p \in Proposal, NEW vote \in VoteType,
         CastVote(g, p, vote)
  PROVE  VotersKnown' /\ Tallied'
<1>1. /\ proposals \in Seq(ProposalRecord) /\ votes \in Seq([Governor -> VoteType \cup {"none"}])
      /\ Len(votes) = Len(proposals) /\ p \in 1 .. Len(proposals)
      /\ Proposal = 1 .. Len(proposals) /\ proposals[p] \in ProposalRecord
      /\ votes[p] \in [Governor -> VoteType \cup {"none"}]
  BY DEF GovInv, GovTypes, Proposal
<1>2. /\ governors' = governors /\ governors[g].known /\ votes[p][g] = "none"
      /\ votes' = [votes EXCEPT ![p] = [votes[p] EXCEPT ![g] = vote]]
  BY DEF CastVote, MayAct, MayVote, VotersKnown
<1>3. PICK tally : tally = [proposals[p].tally EXCEPT ![vote] = @ + governors[g].power]
  OBVIOUS
<1>4. /\ \A o \in 1 .. Len(proposals) : o # p => proposals'[o] = proposals[o]
      /\ proposals'[p].tally = tally /\ Proposal' = Proposal /\ Len(proposals') = Len(proposals)
  <2>1. PICK status : proposals' = [proposals EXCEPT ![p] = [proposals[p] EXCEPT !.tally = tally, !.status = status]]
    BY <1>3 DEF CastVote
  <2>2. [proposals[p] EXCEPT !.tally = tally, !.status = status].tally = tally
    BY <1>1 DEF ProposalRecord
  <2> QED
    BY <1>1, <2>1, <2>2 DEF Proposal
<1>5. /\ \A o \in 1 .. Len(proposals) : o # p => votes'[o] = votes[o]
      /\ votes'[p][g] = vote /\ \A q \in Governor : q # g => votes'[p][q] = votes[p][q]
  BY <1>1, <1>2
<1>6. VotersKnown'
  BY <1>2, <1>4, <1>5 DEF VotersKnown
<1>7. ASSUME NEW o \in 1 .. Len(proposals), NEW v \in VoteType
      PROVE  proposals'[o].tally[v] = SumFunction(Cast(o, v)')
  <2>1. CASE o # p
    <3>1. Cast(o, v)' = Cast(o, v)
      BY <1>2, <1>5, <2>1 DEF Cast
    <3> QED
      BY <1>1, <1>4, <2>1, <3>1 DEF Tallied
  <2>2. CASE o = p
    <3>1. /\ Summable(Cast(p, v), Governor) /\ Summable(Cast(p, v)', Governor)
          /\ SumFunction(Cast(p, v)) = SumFunctionOnSet(Cast(p, v), Governor)
          /\ SumFunction(Cast(p, v)') = SumFunctionOnSet(Cast(p, v)', Governor)
      <4>1. /\ Summable(Cast(p, v), Governor)
            /\ SumFunction(Cast(p, v)) = SumFunctionOnSet(Cast(p, v), Governor)
        BY <1>1, CastTyped DEF GovInv
      <4>2. Summable(Cast(p, v)', Governor)
        BY <1>2, GovTyped DEF Cast, Summable
      <4>3. DOMAIN Cast(p, v)' = Governor
        BY DEF Cast
      <4> QED
        BY <4>1, <4>2, <4>3 DEF SumFunction
    <3>2. \A q \in Governor : q # g => Cast(p, v)'[q] = Cast(p, v)[q]
      BY <1>2, <1>5 DEF Cast
    <3>3. SumFunction(Cast(p, v)') = SumFunction(Cast(p, v)) + (Cast(p, v)'[g] - Cast(p, v)[g])
      BY <3>1, <3>2, GovernorAssumption, SumMovesWith
    <3>4. Cast(p, v)[g] = 0 /\ Cast(p, v)'[g] = IF v = vote THEN governors[g].power ELSE 0
      BY <1>2, <1>5 DEF Cast, VoteType
    <3>5. proposals[p].tally[v] = SumFunction(Cast(p, v))
      BY <1>1 DEF Tallied
    <3>6. governors[g].power \in Nat /\ proposals[p].tally[v] \in Nat
      BY <1>1, RecordTypes DEF GovInv, GovTypes
    <3>7. tally[v] = IF v = vote THEN proposals[p].tally[v] + governors[g].power ELSE proposals[p].tally[v]
      BY <1>1, <1>3, RecordTypes
    <3> QED
      BY <1>4, <2>2, <3>3, <3>4, <3>5, <3>6, <3>7, SMT
  <2> QED
    BY <2>1, <2>2
<1> QED
  BY <1>1, <1>4, <1>6, <1>7 DEF Tallied

\* Each step keeps the tallies true to the votes.
LEMMA TallyStep == ASSUME TallyInv, [GovNext]_govVars PROVE TallyInv'
<1>0. GovInv /\ VotersKnown /\ Tallied /\ GovInv'
  BY GovStep DEF TallyInv
<1>1. CASE UNCHANGED govVars
  <2>1. UNCHANGED <<proposals, votes, governors>>
    BY <1>1 DEF govVars
  <2> QED
    BY <1>0, <2>1 DEF TallyInv, VotersKnown, Tallied, Cast, Proposal
<1>2. ASSUME NEW g \in Governor, NEW power \in Power, RegisterGovernor(g, power) PROVE TallyInv'
  <2>1. /\ UNCHANGED <<proposals, votes>> /\ ~governors[g].known
        /\ governors' = [governors EXCEPT ![g] = [power |-> power, active |-> TRUE, known |-> TRUE]]
    BY <1>2 DEF RegisterGovernor
  <2>2. /\ governors'[g].known /\ \A q \in Governor : q # g => governors'[q] = governors[q]
    BY <1>0, <2>1 DEF GovInv, GovTypes
  <2>3. VotersKnown'
    BY <1>0, <2>1, <2>2 DEF VotersKnown
  <2>4. Tallied'
    BY <1>0, <2>1, <2>2, TallyRests
  <2> QED
    BY <1>0, <2>3, <2>4 DEF TallyInv
<1>3. ASSUME NEW g \in Governor, RemoveGovernor(g) PROVE TallyInv'
  <2>1. /\ UNCHANGED <<proposals, votes>>
        /\ governors' = [governors EXCEPT ![g].active = FALSE]
    BY <1>3 DEF RemoveGovernor
  <2>2. \A q \in Governor : /\ governors'[q].known = governors[q].known
                            /\ governors'[q].power = governors[q].power
                            /\ governors'[q].active => governors[q].active
    BY <1>0, <2>1 DEF GovInv, GovTypes
  <2>3. VotersKnown'
    BY <1>0, <2>1, <2>2 DEF VotersKnown
  <2>4. Tallied'
    BY <1>0, <2>1, <2>2, TallyRests
  <2> QED
    BY <1>0, <2>3, <2>4 DEF TallyInv
<1>4. ASSUME UNCHANGED <<proposals, votes, governors>> PROVE TallyInv'
  BY <1>0, <1>4 DEF TallyInv, VotersKnown, Tallied, Cast, Proposal
<1>5. ASSUME NEW g \in Governor, NEW hashed \in BOOLEAN, CreateProposal(g, hashed) PROVE TallyInv'
  BY <1>0, <1>5, OpenedTallied DEF CreateProposal, TallyInv
<1>6. ASSUME NEW g \in Governor, NEW p \in Proposal, NEW vote \in VoteType, CastVote(g, p, vote) PROVE TallyInv'
  BY <1>0, <1>6, CastVoteTallied DEF TallyInv
<1>7. ASSUME NEW g \in Governor, NEW p \in Proposal, ExecuteProposal(g, p) PROVE TallyInv'
  <2>1. proposals \in Seq(ProposalRecord)
    BY <1>0 DEF GovInv, GovTypes
  <2>2. /\ UNCHANGED <<votes, governors>> /\ proposals' = [proposals EXCEPT ![p] = [proposals[p] EXCEPT !.status = "Executed"]]
    BY <1>7 DEF ExecuteProposal
  <2>3. \A o \in 1 .. Len(proposals) : proposals'[o].tally = proposals[o].tally
    BY <2>1, <2>2 DEF ProposalRecord
  <2>4. Len(proposals') = Len(proposals)
    BY <2>1, <2>2
  <2>5. Tallied'
    BY <1>0, <2>2, <2>3, <2>4, TallyRests
  <2>6. VotersKnown'
    BY <1>0, <2>2, <2>4 DEF VotersKnown
  <2> QED
    BY <1>0, <2>5, <2>6 DEF TallyInv
<1>8. ASSUME NEW p \in Proposal, QueueRollback(p) PROVE TallyInv'
  BY <1>0, <1>8, OpenedTallied DEF QueueRollback, TallyInv
<1>9. ASSUME NEW c \in Config, UpdateGovConfig(c) PROVE TallyInv'
  BY <1>4, <1>9 DEF UpdateGovConfig
<1>10. ASSUME SetPaused(~paused) PROVE TallyInv'
  BY <1>4, <1>10 DEF SetPaused
<1>11. ASSUME NEW p \in Proposal, NEW result \in {"success", "failure"}, RecordSimulation(p, result)
      PROVE  TallyInv'
  BY <1>4, <1>11 DEF RecordSimulation
<1>12. ASSUME ClockAdvances PROVE TallyInv'
  BY <1>4, <1>12 DEF ClockAdvances
<1> QED
  BY <1>1, <1>2, <1>3, <1>5, <1>6, <1>7, <1>8, <1>9, <1>10, <1>11, <1>12 DEF GovNext

\* Tallies are exact in every behaviour of the governance.
LEMMA TalliesExact == GovSpec => []Tallied
<1>1. GovInit => VotersKnown /\ Tallied
  <2> SUFFICES ASSUME GovInit PROVE VotersKnown /\ Tallied
    OBVIOUS
  <2>1. PICK initial \in (SUBSET Governor) \ {{}} :
          governors = [g \in Governor |-> IF g \in initial
                            THEN [power |-> 1, active |-> TRUE, known |-> TRUE] ELSE Unknown]
    BY DEF GovInit
  <2>2. \A g \in Governor : governors[g].active => governors[g].known
    BY <2>1 DEF Unknown
  <2>3. proposals = <<>> /\ Len(proposals) = 0 /\ 1 .. 0 = {} /\ Proposal = {}
    BY SMT DEF GovInit, Proposal
  <2> QED
    BY <2>2, <2>3 DEF VotersKnown, Tallied
<1>2. GovInv /\ VotersKnown /\ Tallied <=> TallyInv
  BY DEF TallyInv
<1>3. TallyInv => Tallied
  BY DEF TallyInv
<1> QED
  BY <1>1, <1>2, <1>3, GovInvariance, TallyStep, PTL DEF GovSpec

-----------------------------------------------------------------------------
(***************************************************************************)
(* ReputationOracle: slashes, feeds and disputes are on record.            *)
(***************************************************************************)
OracleRecord ==
    [status : {"Active", "Suspended", "Deactivated"}, reputation : Int, total : Nat,
     successful : Nat, disputed : Nat]
Feed == [oracle : Oracle, subject : Subject, impact : Impacts, processed : BOOLEAN, serial : Nat]
Dispute ==
    [feed : Nat, disputer : Disputer, status : {"Filed", "Resolved", "Dismissed"}, oracle : Oracle]

\* The feeds of an oracle not processed yet, and the disputes upheld against it.
Waiting(o) == {l \in DOMAIN feeds : feeds[l].oracle = o /\ ~feeds[l].processed}
Upheld(o) == {d \in DOMAIN disputes : disputes[d].oracle = o /\ disputes[d].status = "Resolved"}

OraclesTyped ==
    /\ DOMAIN oracles \subseteq Oracle /\ oracles \in [DOMAIN oracles -> OracleRecord]
    /\ ledger \in Nat

FeedsSound ==
    /\ feeds \in [DOMAIN feeds -> Feed] /\ DOMAIN feeds \subseteq 0 .. ledger
    /\ \A l \in DOMAIN feeds : feeds[l].oracle \in DOMAIN oracles

\* One dispute per party and feed.
DisputesSound ==
    /\ disputes \in [DOMAIN disputes -> Dispute]
    /\ DOMAIN disputes \subseteq (0 .. ledger) \X (0 .. ledger)
    /\ \A d \in DOMAIN disputes : disputes[d].oracle \in DOMAIN oracles
    /\ \A d, e \in DOMAIN disputes :
          disputes[d].feed = disputes[e].feed /\ disputes[d].disputer = disputes[e].disputer => d = e

\* Every success was a submission, one that waits no longer.
Counted(o) ==
    /\ oracles[o].disputed >= Cardinality(Upheld(o))
    /\ oracles[o].disputed >= SlashesBeforeSuspend /\ oracles[o].status = "Active" => o \in pardoned
    /\ oracles[o].successful + Cardinality(Waiting(o)) <= oracles[o].total

OracleInv == OraclesTyped /\ FeedsSound /\ DisputesSound /\ \A o \in DOMAIN oracles : Counted(o)

\* The fields of an oracle's record.
LEMMA RecordTypes2 ==
  ASSUME NEW r \in OracleRecord
  PROVE  r.total \in Nat /\ r.successful \in Nat /\ r.disputed \in Nat /\ r.reputation \in Int
BY DEF OracleRecord

\* Storing a value of a kind keeps a store of that kind.
LEMMA StoredRange ==
  ASSUME NEW S, NEW f, f \in [DOMAIN f -> S], NEW x, NEW y \in S, NEW g, g = Stored(f, x, y)
  PROVE  g \in [DOMAIN g -> S]
BY DEF Stored

\* The feeds that wait and the disputes upheld can be counted.
LEMMA FinitelyMany ==
  ASSUME FeedsSound, DisputesSound, ledger \in Nat, NEW o
  PROVE  /\ IsFiniteSet(Waiting(o)) /\ Cardinality(Waiting(o)) \in Nat
         /\ IsFiniteSet(Upheld(o)) /\ Cardinality(Upheld(o)) \in Nat
<1>1. 0 \in Int /\ ledger \in Int
  BY SMT
<1>2. IsFiniteSet(0 .. ledger)
  BY <1>1, FS_Interval
<1>3. IsFiniteSet((0 .. ledger) \X (0 .. ledger))
  BY <1>2, FS_Product
<1>4. Waiting(o) \subseteq 0 .. ledger /\ Upheld(o) \subseteq (0 .. ledger) \X (0 .. ledger)
  BY DEF FeedsSound, DisputesSound, Waiting, Upheld
<1> QED
  BY <1>2, <1>3, <1>4, FS_Subset, FS_CardinalityType

\* A set grows by at most one when at most one element comes in.
LEMMA AtMostOneMore ==
  ASSUME NEW S, IsFiniteSet(S), NEW x, NEW T, T \subseteq S \cup {x}
  PROVE  Cardinality(T) \in Nat /\ Cardinality(T) <= Cardinality(S) + 1
<1>1. IsFiniteSet(S \cup {x}) /\ Cardinality(S \cup {x}) <= Cardinality(S) + 1
  <2>1. Cardinality(S) \in Nat
    BY FS_CardinalityType
  <2>2. /\ IsFiniteSet(S \cup {x})
        /\ Cardinality(S \cup {x}) = IF x \in S THEN Cardinality(S) ELSE Cardinality(S) + 1
    BY FS_AddElement
  <2> QED
    BY <2>1, <2>2, SMT
<1>2. IsFiniteSet(T) /\ Cardinality(T) <= Cardinality(S \cup {x})
  BY <1>1, FS_Subset
<1>3. Cardinality(T) \in Nat /\ Cardinality(S \cup {x}) \in Nat /\ Cardinality(S) \in Nat
  BY <1>1, <1>2, FS_CardinalityType
<1> QED
  BY <1>1, <1>2, <1>3, SMT

\* A set shrinks by at least one when an element goes out.
LEMMA OneLess ==
  ASSUME NEW S, IsFiniteSet(S), NEW x \in S, NEW T, T \subseteq S \ {x}
  PROVE  Cardinality(T) \in Nat /\ Cardinality(T) + 1 <= Cardinality(S)
<1>1. IsFiniteSet(S \ {x}) /\ Cardinality(S \ {x}) = Cardinality(S) - 1
  BY FS_RemoveElement
<1>2. IsFiniteSet(T) /\ Cardinality(T) <= Cardinality(S \ {x})
  BY <1>1, FS_Subset
<1>3. Cardinality(T) \in Nat /\ Cardinality(S) \in Nat
  BY <1>2, FS_CardinalityType
<1> QED
  BY <1>1, <1>2, <1>3, SMT

\* A feed of the oracle is stored, and its record counts it.
LEMMA FeedKeeps ==
  ASSUME OracleInv, NEW o \in DOMAIN oracles, NEW l \in 0 .. ledger,
         NEW feed \in Feed, feed.oracle = o, feeds' = Stored(feeds, l, feed),
         NEW record \in OracleRecord,
         record.status = oracles[o].status, record.disputed = oracles[o].disputed,
         oracles' = [oracles EXCEPT ![o] = record],
         UNCHANGED <<disputes, pardoned, ledger>>,
         record.successful + Cardinality(Waiting(o)') <= record.total
  PROVE  OracleInv'
<1>1. /\ oracles' \in [DOMAIN oracles -> OracleRecord] /\ DOMAIN oracles' = DOMAIN oracles
      /\ oracles'[o] = record /\ \A q \in DOMAIN oracles : q # o => oracles'[q] = oracles[q]
  BY DEF OracleInv, OraclesTyped
<1>2. /\ DOMAIN feeds' = DOMAIN feeds \cup {l} /\ feeds'[l] = feed
      /\ \A k \in DOMAIN feeds : k # l => feeds'[k] = feeds[k]
  BY DEF Stored
<1>3. feeds' \in [DOMAIN feeds' -> Feed]
  BY StoredRange DEF OracleInv, FeedsSound
<1>4. OraclesTyped' /\ FeedsSound' /\ DisputesSound'
  BY <1>1, <1>2, <1>3 DEF OracleInv, OraclesTyped, FeedsSound, DisputesSound
<1>5. ASSUME NEW q \in DOMAIN oracles
      PROVE  Counted(q)'
  <2>1. Upheld(q)' = Upheld(q)
    BY DEF Upheld
  <2>2. CASE q = o
    <3>1. Counted(o)
      BY DEF OracleInv
    <3> QED
      BY <1>1, <2>1, <2>2, <3>1 DEF Counted
  <2>3. CASE q # o
    <3>1. Waiting(q)' \subseteq Waiting(q)
      BY <1>2, <2>3 DEF Waiting
    <3>2. Cardinality(Waiting(q)') <= Cardinality(Waiting(q))
      BY <3>1, FinitelyMany, FS_Subset DEF OracleInv, OraclesTyped
    <3>3. Cardinality(Waiting(q)') \in Nat /\ Cardinality(Waiting(q)) \in Nat
      BY <3>1, FinitelyMany, FS_Subset, FS_CardinalityType DEF OracleInv, OraclesTyped
    <3>4. Counted(q) /\ oracles[q] \in OracleRecord
      BY DEF OracleInv, OraclesTyped
    <3>5. oracles[q].successful + Cardinality(Waiting(q)') <= oracles[q].total
      BY <3>2, <3>3, <3>4, RecordTypes2, SMT DEF Counted
    <3> QED
      BY <1>1, <2>1, <2>3, <3>4, <3>5 DEF Counted
  <2> QED
    BY <2>2, <2>3
<1> QED
  BY <1>1, <1>4, <1>5 DEF OracleInv

\* The record of an oracle changes, but for its counts of feeds, and with it the disputes
\* upheld against it at most.
LEMMA VerdictKeeps ==
  ASSUME OracleInv, NEW o \in DOMAIN oracles, NEW record \in OracleRecord,
         record.total = oracles[o].total, record.successful = oracles[o].successful,
         oracles' = [oracles EXCEPT ![o] = record],
         UNCHANGED <<feeds, ledger>>,
         DisputesSound', \A q \in DOMAIN oracles : q # o => Upheld(q)' \subseteq Upheld(q),
         \A q \in DOMAIN oracles : q # o /\ q \in pardoned => q \in pardoned',
         record.disputed >= Cardinality(Upheld(o)'),
         record.disputed >= SlashesBeforeSuspend /\ record.status = "Active" => o \in pardoned'
  PROVE  OracleInv'
<1>1. /\ oracles' \in [DOMAIN oracles -> OracleRecord] /\ DOMAIN oracles' = DOMAIN oracles
      /\ oracles'[o] = record /\ \A q \in DOMAIN oracles : q # o => oracles'[q] = oracles[q]
  BY DEF OracleInv, OraclesTyped
<1>2. OraclesTyped' /\ FeedsSound'
  BY <1>1 DEF OracleInv, OraclesTyped, FeedsSound
<1>3. ASSUME NEW q \in DOMAIN oracles
      PROVE  Counted(q)'
  <2>1. Waiting(q)' = Waiting(q) /\ Counted(q)
    BY DEF Waiting, OracleInv
  <2>2. CASE q = o
    BY <1>1, <2>1, <2>2 DEF Counted
  <2>3. CASE q # o
    <3>1. /\ Cardinality(Upheld(q)') <= Cardinality(Upheld(q))
          /\ Cardinality(Upheld(q)') \in Nat /\ Cardinality(Upheld(q)) \in Nat
      BY <2>3, FinitelyMany, FS_Subset, FS_CardinalityType DEF OracleInv, OraclesTyped
    <3>2. oracles[q].disputed \in Nat
      BY RecordTypes2 DEF OracleInv, OraclesTyped
    <3>3. oracles[q].disputed >= Cardinality(Upheld(q)')
      BY <2>1, <3>1, <3>2, SMT DEF Counted
    <3> QED
      BY <1>1, <2>1, <2>3, <3>3 DEF Counted
  <2> QED
    BY <2>2, <2>3
<1> QED
  BY <1>1, <1>2, <1>3 DEF OracleInv

\* What is known of the records named in a call.
LEMMA OracleTyped ==
  ASSUME OracleInv, NEW o \in DOMAIN oracles
  PROVE  oracles[o] \in OracleRecord /\ o \in Oracle
BY DEF OracleInv, OraclesTyped

\* What processing a feed changes of an oracle.
LEMMA CreditedCounts ==
  ASSUME NEW r \in OracleRecord, NEW impact \in Int
  PROVE  /\ Credited(r, impact) \in OracleRecord
         /\ Credited(r, impact).status = r.status /\ Credited(r, impact).disputed = r.disputed
         /\ Credited(r, impact).total = r.total
         /\ Credited(r, impact).successful \in {r.successful, r.successful + 1}
<1>1. r.reputation \in Int /\ r.successful \in Nat
  BY RecordTypes2
<1>2. AtMost(MaxReputation, r.reputation + 10) \in Int /\ AtLeastZero(r.reputation - 5) \in Int
  BY <1>1, SMT DEF AtMost, AtLeastZero, MaxReputation
<1>3. r.successful + 1 \in Nat
  BY <1>1, SMT
<1>4. CASE impact > 0
  <2>1. PICK c : c = [r EXCEPT !.reputation = AtMost(MaxReputation, @ + 10),
                                !.successful = @ + 1]
    OBVIOUS
  <2>2. Credited(r, impact) = c
    BY <1>4, <2>1, SMT DEF Credited
  <2> QED
    BY <1>2, <1>3, <2>1, <2>2 DEF OracleRecord
<1>5. CASE impact < 0
  <2>1. PICK c : c = [r EXCEPT !.reputation = AtLeastZero(@ - 5), !.successful = @ + 1]
    OBVIOUS
  <2>2. Credited(r, impact) = c
    BY <1>5, <2>1, SMT DEF Credited
  <2> QED
    BY <1>2, <1>3, <2>1, <2>2 DEF OracleRecord
<1>6. CASE impact = 0
  BY <1>6, SMT DEF Credited
<1> QED
  BY <1>4, <1>5, <1>6, SMT

\* What submitting a feed changes of an oracle.
LEMMA SubmittedCounts ==
  ASSUME NEW o, oracles[o] \in OracleRecord
  PROVE  /\ Submitted(o) \in OracleRecord
         /\ Submitted(o).status = oracles[o].status /\ Submitted(o).disputed = oracles[o].disputed
         /\ Submitted(o).total = oracles[o].total + 1
         /\ Submitted(o).successful = oracles[o].successful
<1>1. oracles[o].total \in Nat /\ oracles[o].total + 1 \in Nat
  BY RecordTypes2, SMT
<1>2. PICK c : c = [oracles[o] EXCEPT !.total = @ + 1]
  OBVIOUS
<1>3. Submitted(o) = c
  BY <1>2 DEF Submitted
<1> QED
  BY <1>1, <1>2, <1>3 DEF OracleRecord

\* A feed that was just submitted.
LEMMA NewFeedTyped ==
  ASSUME NEW o \in Oracle, oracles[o] \in OracleRecord, NEW s \in Subject, NEW impact \in Impacts
  PROVE  /\ NewFeed(o, s, impact) \in Feed /\ NewFeed(o, s, impact).oracle = o
         /\ NewFeed(o, s, impact).impact = impact /\ ~NewFeed(o, s, impact).processed
<1>1. oracles[o].total + 1 \in Nat
  BY RecordTypes2, SMT
<1> QED
  BY <1>1 DEF NewFeed, Feed

\* A feed that was just processed.
LEMMA ProcessedTyped ==
  ASSUME NEW feed \in Feed
  PROVE  Processed(feed) \in Feed /\ Processed(feed).oracle = feed.oracle /\ Processed(feed).processed
BY DEF Processed, Feed

\* submit_data_feed counts the feed and stores it.
LEMMA SubmitDataFeedKeeps ==
  ASSUME OracleInv, NEW o \in DOMAIN oracles, NEW s \in Subject, NEW impact \in Impacts,
         SubmitDataFeed(o, s, impact)
  PROVE  OracleInv'
<1>1. oracles[o] \in OracleRecord /\ o \in Oracle
  BY OracleTyped
<1>2. PICK feed : feed = NewFeed(o, s, impact)
  OBVIOUS
<1>3. PICK record : record = Submitted(o)
  OBVIOUS
<1>4. feed \in Feed /\ feed.oracle = o
  BY <1>1, <1>2, NewFeedTyped
<1>5. /\ record \in OracleRecord /\ record.status = oracles[o].status
      /\ record.disputed = oracles[o].disputed
      /\ record.total = oracles[o].total + 1 /\ record.successful = oracles[o].successful
  BY <1>1, <1>3, SubmittedCounts
<1>6. /\ feeds' = Stored(feeds, ledger, feed) /\ oracles' = [oracles EXCEPT ![o] = record]
      /\ UNCHANGED <<disputes, pardoned, ledger>>
  BY <1>2, <1>3 DEF SubmitDataFeed, OracleCalled
<1>7. ledger \in 0 .. ledger
  BY SMT DEF OracleInv, OraclesTyped
<1>8. record.successful + Cardinality(Waiting(o)') <= record.total
  <2>1. Waiting(o)' \subseteq Waiting(o) \cup {ledger}
    BY <1>6 DEF Waiting, Stored
  <2>2. IsFiniteSet(Waiting(o)) /\ Cardinality(Waiting(o)) \in Nat
    BY FinitelyMany DEF OracleInv, OraclesTyped
  <2>3. /\ Cardinality(Waiting(o)') \in Nat
        /\ Cardinality(Waiting(o)') <= Cardinality(Waiting(o)) + 1
    BY <2>1, <2>2, AtMostOneMore
  <2>4. oracles[o].successful + Cardinality(Waiting(o)) <= oracles[o].total
    BY DEF OracleInv, Counted
  <2> QED
    BY <1>1, <1>5, <2>2, <2>3, <2>4, RecordTypes2, SMT
<1> QED
  BY <1>4, <1>5, <1>6, <1>7, <1>8, FeedKeeps

\* process_data_feed credits the oracle once.
LEMMA ProcessDataFeedKeeps ==
  ASSUME OracleInv, NEW l \in DOMAIN feeds, ProcessDataFeed(l)
  PROVE  OracleInv'
<1>1. PICK o : o = feeds[l].oracle
  OBVIOUS
<1>2. o \in DOMAIN oracles /\ oracles[o] \in OracleRecord /\ feeds[l] \in Feed /\ l \in 0 .. ledger
  BY <1>1, OracleTyped DEF OracleInv, FeedsSound
<1>3. PICK feed : feed = Processed(feeds[l])
  OBVIOUS
<1>4. feed \in Feed /\ feed.oracle = o /\ feed.processed /\ ~feeds[l].processed
  BY <1>1, <1>2, <1>3, ProcessedTyped DEF ProcessDataFeed
<1>5. PICK record : record = Credited(oracles[o], feeds[l].impact)
  OBVIOUS
<1>6. feeds[l].impact \in Int
  BY <1>2, OracleAssumption DEF Feed
<1>7. /\ record \in OracleRecord /\ record.status = oracles[o].status
      /\ record.disputed = oracles[o].disputed
      /\ record.total = oracles[o].total
      /\ record.successful \in {oracles[o].successful, oracles[o].successful + 1}
  BY <1>2, <1>5, <1>6, CreditedCounts
<1>8. /\ feeds' = Stored(feeds, l, feed) /\ oracles' = [oracles EXCEPT ![o] = record]
      /\ UNCHANGED <<disputes, pardoned, ledger>>
  BY <1>1, <1>3, <1>4, <1>5 DEF ProcessDataFeed, Apply, OracleCalled
<1>9. record.successful + Cardinality(Waiting(o)') <= record.total
  <2>1. l \in Waiting(o) /\ Waiting(o)' \subseteq Waiting(o) \ {l}
    BY <1>1, <1>4, <1>8 DEF Waiting, Stored
  <2>2. IsFiniteSet(Waiting(o)) /\ Cardinality(Waiting(o)) \in Nat
    BY FinitelyMany DEF OracleInv, OraclesTyped
  <2>3. /\ Cardinality(Waiting(o)') \in Nat
        /\ Cardinality(Waiting(o)') + 1 <= Cardinality(Waiting(o))
    BY <2>1, <2>2, OneLess
  <2>4. oracles[o].successful + Cardinality(Waiting(o)) <= oracles[o].total
    BY <1>2 DEF OracleInv, Counted
  <2>5. oracles[o].successful \in Nat /\ oracles[o].total \in Nat
    BY <1>2, RecordTypes2
  <2> QED
    BY <1>7, <2>2, <2>3, <2>4, <2>5, SMT
<1> QED
  BY <1>2, <1>4, <1>7, <1>8, <1>9, FeedKeeps

\* Submission and processing in one transaction.
LEMMA SubmitAndProcessKeeps ==
  ASSUME OracleInv, NEW o \in DOMAIN oracles, NEW s \in Subject, NEW impact \in Impacts,
         SubmitAndProcess(o, s, impact)
  PROVE  OracleInv'
<1>1. oracles[o] \in OracleRecord /\ o \in Oracle /\ impact \in Int
  BY OracleTyped, OracleAssumption
<1>2. PICK feed : feed = Processed(NewFeed(o, s, impact))
  OBVIOUS
<1>3. PICK record : record = Credited(Submitted(o), impact)
  OBVIOUS
<1>4. feed \in Feed /\ feed.oracle = o /\ feed.processed
  BY <1>1, <1>2, NewFeedTyped, ProcessedTyped
<1>5. /\ record \in OracleRecord /\ record.status = oracles[o].status
      /\ record.disputed = oracles[o].disputed
      /\ record.total = oracles[o].total + 1
      /\ record.successful \in {oracles[o].successful, oracles[o].successful + 1}
  <2>1. /\ Submitted(o) \in OracleRecord
        /\ Submitted(o).status = oracles[o].status /\ Submitted(o).disputed = oracles[o].disputed
        /\ Submitted(o).total = oracles[o].total + 1
        /\ Submitted(o).successful = oracles[o].successful
    BY <1>1, SubmittedCounts
  <2>2. PICK c : c = Submitted(o)
    OBVIOUS
  <2>3. c \in OracleRecord
    BY <2>1, <2>2
  <2>4. /\ record \in OracleRecord /\ record.status = c.status /\ record.disputed = c.disputed
        /\ record.total = c.total /\ record.successful \in {c.successful, c.successful + 1}
    BY <1>1, <1>3, <2>2, <2>3, CreditedCounts
  <2> QED
    BY <2>1, <2>2, <2>4
<1>6. /\ feeds' = Stored(feeds, ledger, feed) /\ oracles' = [oracles EXCEPT ![o] = record]
      /\ UNCHANGED <<disputes, pardoned, ledger>>
  <2>1. NewFeed(o, s, impact).oracle = o /\ NewFeed(o, s, impact).impact = impact
    BY <1>1, NewFeedTyped
  <2> QED
    BY <1>2, <1>3, <2>1 DEF SubmitAndProcess, Apply, OracleCalled
<1>7. ledger \in 0 .. ledger
  BY SMT DEF OracleInv, OraclesTyped
<1>8. record.successful + Cardinality(Waiting(o)') <= record.total
  <2>1. Waiting(o)' \subseteq Waiting(o)
    BY <1>4, <1>6 DEF Waiting, Stored
  <2>2. IsFiniteSet(Waiting(o)) /\ Cardinality(Waiting(o)) \in Nat
    BY FinitelyMany DEF OracleInv, OraclesTyped
  <2>3. /\ Cardinality(Waiting(o)') \in Nat
        /\ Cardinality(Waiting(o)') <= Cardinality(Waiting(o))
    BY <2>1, <2>2, FS_Subset, FS_CardinalityType
  <2>4. oracles[o].successful + Cardinality(Waiting(o)) <= oracles[o].total
    BY DEF OracleInv, Counted
  <2>5. oracles[o].successful \in Nat /\ oracles[o].total \in Nat
    BY <1>1, RecordTypes2
  <2> QED
    BY <1>5, <2>2, <2>3, <2>4, <2>5, SMT
<1> QED
  BY <1>4, <1>5, <1>6, <1>7, <1>8, FeedKeeps

\* register_oracle starts a record, or starts it again.
LEMMA RegisterOracleKeeps ==
  ASSUME OracleInv, NEW o \in Oracle, RegisterOracle(o)
  PROVE  OracleInv'
<1>1. PICK record : record = [status |-> "Active", reputation |-> BaseReputation,
                              total |-> 0, successful |-> 0, disputed |-> 0]
  OBVIOUS
<1>2. BaseReputation \in Int
  BY SMT DEF BaseReputation
<1>3. /\ record \in OracleRecord /\ record.disputed = 0 /\ record.successful = 0 /\ record.total = 0
  BY <1>1, <1>2 DEF OracleRecord
<1>4. /\ o \notin DOMAIN oracles /\ oracles' = Stored(oracles, o, record)
      /\ UNCHANGED <<feeds, disputes, pardoned, ledger>>
  BY <1>1 DEF RegisterOracle, OracleCalled
<1>5. /\ DOMAIN oracles' = DOMAIN oracles \cup {o} /\ oracles'[o] = record
      /\ \A q \in DOMAIN oracles : oracles'[q] = oracles[q]
  BY <1>4 DEF Stored
<1>6. oracles' \in [DOMAIN oracles' -> OracleRecord]
  BY <1>3, <1>4, StoredRange DEF OracleInv, OraclesTyped
<1>7. OraclesTyped' /\ FeedsSound' /\ DisputesSound'
  BY <1>4, <1>5, <1>6 DEF OracleInv, OraclesTyped, FeedsSound, DisputesSound
<1>8. Counted(o)'
  <2>1. Waiting(o)' = {} /\ Upheld(o)' = {}
    BY <1>4 DEF OracleInv, FeedsSound, DisputesSound, Waiting, Upheld
  <2>2. Cardinality({}) = 0
    BY FS_EmptySet
  <2>3. ~(0 >= SlashesBeforeSuspend) /\ 0 >= 0 /\ 0 + 0 <= 0
    BY OracleAssumption, SMT
  <2> QED
    BY <1>3, <1>5, <2>1, <2>2, <2>3 DEF Counted
<1>9. ASSUME NEW q \in DOMAIN oracles PROVE Counted(q)'
  <2>1. Waiting(q)' = Waiting(q) /\ Upheld(q)' = Upheld(q) /\ Counted(q)
    BY <1>4 DEF Waiting, Upheld, OracleInv
  <2> QED
    BY <1>4, <1>5, <2>1 DEF Counted
<1> QED
  BY <1>5, <1>7, <1>8, <1>9 DEF OracleInv

\* The administrator changes a status.
LEMMA StatusKeeps ==
  ASSUME OracleInv, NEW o \in DOMAIN oracles, NEW status \in {"Active", "Suspended", "Deactivated"},
         oracles' = [oracles EXCEPT ![o].status = status],
         pardoned' = pardoned \/ pardoned' = pardoned \cup {o},
         status = "Active" => o \in pardoned',
         UNCHANGED <<feeds, disputes, ledger>>
  PROVE  OracleInv'
<1>1. oracles[o] \in OracleRecord
  BY OracleTyped
<1>2. PICK record : record = [oracles[o] EXCEPT !.status = status]
  OBVIOUS
<1>3. /\ record \in OracleRecord /\ record.status = status /\ record.disputed = oracles[o].disputed
      /\ record.total = oracles[o].total /\ record.successful = oracles[o].successful
  BY <1>1, <1>2 DEF OracleRecord
<1>4. oracles' = [oracles EXCEPT ![o] = record]
  BY <1>2
<1>5. Upheld(o)' = Upheld(o) /\ DisputesSound' /\ \A q : Upheld(q)' \subseteq Upheld(q)
  BY <1>4 DEF Upheld, OracleInv, OraclesTyped, DisputesSound
<1>6. record.disputed >= Cardinality(Upheld(o)')
  BY <1>3, <1>5 DEF OracleInv, Counted
<1>7. \A q \in DOMAIN oracles : q # o /\ q \in pardoned => q \in pardoned'
  OBVIOUS
<1> QED
  BY <1>3, <1>4, <1>5, <1>6, <1>7, VerdictKeeps

\* A slash, by the administrator or for a dispute that was upheld.
LEMMA SlashKeeps ==
  ASSUME OracleInv, NEW o \in DOMAIN oracles, NEW penalty \in Int, Slash(o, penalty),
         UNCHANGED <<feeds, ledger>>, DisputesSound',
         \A q \in DOMAIN oracles : q # o => Upheld(q)' \subseteq Upheld(q),
         NEW d, Upheld(o)' \subseteq Upheld(o) \cup {d}
  PROVE  OracleInv'
<1>1. /\ oracles[o] \in OracleRecord /\ oracles[o].disputed \in Nat /\ oracles[o].reputation \in Int
      /\ oracles[o].disputed + 1 \in Nat
  BY OracleTyped, RecordTypes2, SMT
<1>2. PICK status : status = IF TooOften(oracles[o]) THEN "Suspended" ELSE oracles[o].status
  OBVIOUS
<1>3. PICK record : record = [oracles[o] EXCEPT !.reputation = AtLeastZero(oracles[o].reputation - penalty),
                                               !.disputed = oracles[o].disputed + 1, !.status = status]
  OBVIOUS
<1>4. AtLeastZero(oracles[o].reputation - penalty) \in Int
  BY <1>1, SMT DEF AtLeastZero
<1>5. status \in {"Active", "Suspended", "Deactivated"}
  BY <1>1, <1>2 DEF OracleRecord
<1>6. /\ record \in OracleRecord /\ record.status = status
      /\ record.disputed = oracles[o].disputed + 1
      /\ record.total = oracles[o].total /\ record.successful = oracles[o].successful
  BY <1>1, <1>3, <1>4, <1>5 DEF OracleRecord
<1>7. oracles' = [oracles EXCEPT ![o] = record] /\ pardoned' = pardoned \ {o}
  BY <1>2, <1>3 DEF Slash
<1>8. record.disputed >= Cardinality(Upheld(o)')
  <2>1. IsFiniteSet(Upheld(o)) /\ Cardinality(Upheld(o)) \in Nat
    BY FinitelyMany DEF OracleInv, OraclesTyped
  <2>2. /\ Cardinality(Upheld(o)') \in Nat
        /\ Cardinality(Upheld(o)') <= Cardinality(Upheld(o)) + 1
    BY <2>1, AtMostOneMore
  <2>3. oracles[o].disputed >= Cardinality(Upheld(o))
    BY DEF OracleInv, Counted
  <2> QED
    BY <1>1, <1>6, <2>1, <2>2, <2>3, SMT
<1>9. record.disputed >= SlashesBeforeSuspend => record.status # "Active"
  BY <1>2, <1>6 DEF TooOften
<1>10. \A q \in DOMAIN oracles : q # o /\ q \in pardoned => q \in pardoned'
  BY <1>7
<1> QED
  BY <1>6, <1>7, <1>8, <1>9, <1>10, VerdictKeeps

\* slash_oracle keeps the invariant.
LEMMA SlashOracleKeeps ==
  ASSUME OracleInv, NEW o \in DOMAIN oracles, NEW penalty \in Penalties, SlashOracle(o, penalty)
  PROVE  OracleInv'
<1>1. penalty \in Int
  BY OracleAssumption, SMT
<1>2. Slash(o, penalty) /\ UNCHANGED <<feeds, disputes, ledger>>
  BY DEF SlashOracle, OracleCalled
<1>3. DOMAIN oracles' = DOMAIN oracles
  BY <1>2 DEF Slash
<1>4. DisputesSound' /\ \A q : Upheld(q)' \subseteq Upheld(q)
  BY <1>2, <1>3 DEF Upheld, OracleInv, DisputesSound
<1>5. Upheld(o)' \subseteq Upheld(o) \cup {o}
  BY <1>4
<1> QED
  BY <1>1, <1>2, <1>4, <1>5, SlashKeeps

\* file_dispute keeps the invariant.
LEMMA FileDisputeKeeps ==
  ASSUME OracleInv, NEW who \in Disputer, NEW l \in DOMAIN feeds, FileDispute(who, l)
  PROVE  OracleInv'
<1>1. PICK n : n = ledger
  OBVIOUS
<1>2. PICK dispute : dispute = [feed |-> l, disputer |-> who, status |-> "Filed", oracle |-> feeds[l].oracle]
  OBVIOUS
<1>3. feeds[l] \in Feed /\ l \in 0 .. n /\ n \in 0 .. n /\ n \in Nat /\ l \in Nat
  BY <1>1, SMT DEF OracleInv, OraclesTyped, FeedsSound
<1>4. /\ dispute \in Dispute /\ dispute.feed = l /\ dispute.disputer = who /\ dispute.status = "Filed"
      /\ dispute.oracle \in DOMAIN oracles
  BY <1>2, <1>3 DEF Feed, Dispute, OracleInv, FeedsSound
<1>5. /\ disputes' = Stored(disputes, <<l, n>>, dispute)
      /\ ~\E d \in DOMAIN disputes : disputes[d].feed = l /\ disputes[d].disputer = who
      /\ UNCHANGED <<oracles, feeds, pardoned, ledger>>
  BY <1>1, <1>2 DEF FileDispute, OracleCalled
<1>6. /\ DOMAIN disputes' = DOMAIN disputes \cup {<<l, n>>} /\ disputes'[<<l, n>>] = dispute
      /\ \A d \in DOMAIN disputes : d # <<l, n>> => disputes'[d] = disputes[d]
  BY <1>5 DEF Stored
<1>7. disputes' \in [DOMAIN disputes' -> Dispute]
  BY <1>4, <1>5, StoredRange DEF OracleInv, DisputesSound
<1>8. <<l, n>> \in (0 .. n) \X (0 .. n)
  BY <1>3
<1>9. DisputesSound'
  BY <1>1, <1>4, <1>5, <1>6, <1>7, <1>8 DEF OracleInv, DisputesSound
<1>10. OraclesTyped' /\ FeedsSound'
  BY <1>5 DEF OracleInv, OraclesTyped, FeedsSound
<1>11. ASSUME NEW q \in DOMAIN oracles PROVE Counted(q)'
  <2>1. Waiting(q)' = Waiting(q) /\ Upheld(q)' \subseteq Upheld(q)
    BY <1>4, <1>5, <1>6 DEF Waiting, Upheld
  <2>2. /\ Cardinality(Upheld(q)') <= Cardinality(Upheld(q))
        /\ Cardinality(Upheld(q)') \in Nat /\ Cardinality(Upheld(q)) \in Nat
    BY <2>1, FinitelyMany, FS_Subset, FS_CardinalityType DEF OracleInv, OraclesTyped
  <2>3. Counted(q) /\ oracles[q].disputed \in Nat
    BY RecordTypes2 DEF OracleInv, OraclesTyped
  <2>4. oracles[q].disputed >= Cardinality(Upheld(q)')
    BY <2>2, <2>3, SMT DEF Counted
  <2> QED
    BY <1>5, <2>1, <2>3, <2>4 DEF Counted
<1> QED
  BY <1>5, <1>9, <1>10, <1>11 DEF OracleInv

\* resolve_dispute slashes the oracle when it upholds the dispute.
LEMMA ResolveDisputeKeeps ==
  ASSUME OracleInv, NEW d \in DOMAIN disputes, NEW uphold \in BOOLEAN, ResolveDispute(d, uphold)
  PROVE  OracleInv'
<1>1. PICK status : status = IF uphold THEN "Resolved" ELSE "Dismissed"
  OBVIOUS
<1>2. PICK dispute : dispute = [disputes[d] EXCEPT !.status = status]
  OBVIOUS
<1>3. disputes[d] \in Dispute
  BY DEF OracleInv, DisputesSound
<1>4. /\ dispute \in Dispute /\ dispute.feed = disputes[d].feed /\ dispute.disputer = disputes[d].disputer
      /\ dispute.status = status /\ dispute.oracle = disputes[d].oracle
  BY <1>1, <1>2, <1>3 DEF Dispute
<1>5. /\ disputes' = [disputes EXCEPT ![d] = dispute] /\ disputes[d].status = "Filed"
      /\ UNCHANGED <<feeds, ledger>>
      /\ IF uphold THEN Slash(disputes[d].oracle, SlashingPenalty) ELSE UNCHANGED <<oracles, pardoned>>
  BY <1>1, <1>2 DEF ResolveDispute, OracleCalled
<1>6. /\ DOMAIN disputes' = DOMAIN disputes /\ disputes'[d] = dispute
      /\ disputes' \in [DOMAIN disputes -> Dispute]
      /\ \A e \in DOMAIN disputes : e # d => disputes'[e] = disputes[e]
  BY <1>4, <1>5 DEF OracleInv, DisputesSound
<1>7. DOMAIN oracles' = DOMAIN oracles
  BY <1>5 DEF Slash
<1>8. \A e \in DOMAIN disputes : /\ disputes'[e].feed = disputes[e].feed
                                /\ disputes'[e].disputer = disputes[e].disputer
                                /\ disputes'[e].oracle = disputes[e].oracle
  BY <1>4, <1>6
<1>9. DisputesSound'
  BY <1>5, <1>6, <1>7, <1>8 DEF OracleInv, DisputesSound
<1>10. CASE uphold
  <2>1. PICK o : o = disputes[d].oracle
    OBVIOUS
  <2>2. o \in DOMAIN oracles
    BY <2>1 DEF OracleInv, DisputesSound
  <2>3. Upheld(o)' \subseteq Upheld(o) \cup {d}
    BY <1>6 DEF Upheld
  <2>4. \A q \in DOMAIN oracles : q # o => Upheld(q)' \subseteq Upheld(q)
    BY <1>6, <1>8, <2>1 DEF Upheld
  <2>5. Slash(o, SlashingPenalty) /\ SlashingPenalty \in Int
    BY <1>5, <1>10, <2>1, SMT DEF SlashingPenalty
  <2> QED
    BY <1>5, <1>9, <2>2, <2>3, <2>4, <2>5, SlashKeeps
<1>11. CASE ~uphold
  <2>1. UNCHANGED <<oracles, feeds, pardoned, ledger>> /\ status # "Resolved"
    BY <1>1, <1>5, <1>11
  <2>2. \A q : Upheld(q)' = Upheld(q)
    BY <1>4, <1>5, <1>6, <2>1 DEF Upheld
  <2>3. \A q : Waiting(q)' = Waiting(q)
    BY <2>1 DEF Waiting
  <2> QED
    BY <1>9, <2>1, <2>2, <2>3 DEF OracleInv, OraclesTyped, FeedsSound, Counted
<1> QED
  BY <1>10, <1>11

\* The next ledger changes no record.
LEMMA LedgerClosesKeeps == ASSUME OracleInv, LedgerCloses PROVE OracleInv'
<1>1. /\ UNCHANGED <<oracles, feeds, disputes, pardoned>> /\ ledger \in Nat /\ ledger' \in Nat
      /\ 0 .. ledger \subseteq 0 .. ledger'
  BY SMT DEF LedgerCloses, OracleInv, OraclesTyped
<1>2. OraclesTyped' /\ FeedsSound'
  BY <1>1 DEF OracleInv, OraclesTyped, FeedsSound
<1>3. (0 .. ledger) \X (0 .. ledger) \subseteq (0 .. ledger') \X (0 .. ledger')
  BY <1>1
<1>4. DisputesSound'
  BY <1>1, <1>3 DEF OracleInv, DisputesSound
<1> QED
  BY <1>1, <1>2, <1>4 DEF OracleInv, Counted, Waiting, Upheld

\* Each step of the oracles keeps the invariant.
LEMMA OracleStep == ASSUME OracleInv, [OracleNext]_oracleVars PROVE OracleInv'
<1>1. CASE UNCHANGED oracleVars
  BY <1>1 DEF oracleVars, OracleInv, OraclesTyped, FeedsSound, DisputesSound, Counted, Waiting, Upheld
<1>2. ASSUME NEW o \in DOMAIN oracles, NEW status \in {"Suspended", "Deactivated"},
             SetOracleStatus(o, status)
      PROVE  OracleInv'
  BY <1>2, StatusKeeps DEF SetOracleStatus, OracleCalled
<1>3. ASSUME NEW o \in DOMAIN oracles, ReactivateOracle(o) PROVE OracleInv'
  BY <1>3, StatusKeeps DEF ReactivateOracle, OracleCalled
<1> QED
  BY <1>1, <1>2, <1>3, RegisterOracleKeeps, SubmitDataFeedKeeps, SubmitAndProcessKeeps,
     ProcessDataFeedKeeps, SlashOracleKeeps, FileDisputeKeeps, ResolveDisputeKeeps,
     LedgerClosesKeeps DEF OracleNext

\* The invariant of the oracles.
LEMMA OracleInvariance == OracleSpec => []OracleInv
<1>1. OracleInit => OracleInv
  <2> SUFFICES ASSUME OracleInit PROVE OracleInv
    OBVIOUS
  <2>1. /\ DOMAIN oracles = {} /\ DOMAIN feeds = {} /\ DOMAIN disputes = {} /\ ledger = 0
        /\ oracles = [o \in {} |-> 0] /\ feeds = [o \in {} |-> 0] /\ disputes = [o \in {} |-> 0]
    BY DEF OracleInit
  <2>2. OraclesTyped /\ FeedsSound /\ DisputesSound
    BY <2>1 DEF OraclesTyped, FeedsSound, DisputesSound
  <2> QED
    BY <2>1, <2>2 DEF OracleInv
<1> QED
  BY <1>1, OracleStep, PTL DEF OracleSpec

\* No step undoes what a record says happened.
LEMMA RecordsKeptByStep == ASSUME OracleInv, OracleInv', OracleNext PROVE RecordsKept
<1>1. \A d, e \in DOMAIN disputes' :
          disputes'[d].feed = disputes'[e].feed /\ disputes'[d].disputer = disputes'[e].disputer
              => d = e
  BY DEF OracleInv, DisputesSound
<1>2. ASSUME NEW k \in DOMAIN feeds, k < ledger
      PROVE  feeds'[k] \in {feeds[k], [feeds[k] EXCEPT !.processed = TRUE]}
  <2>1. k # ledger
    BY <1>2, SMT DEF OracleInv, OraclesTyped
  <2>2. ASSUME NEW f, feeds' = Stored(feeds, ledger, f) PROVE feeds'[k] = feeds[k]
    BY <2>1, <2>2 DEF Stored
  <2>3. ASSUME NEW l \in DOMAIN feeds, ProcessDataFeed(l)
        PROVE  feeds'[k] \in {feeds[k], [feeds[k] EXCEPT !.processed = TRUE]}
    <3>1. feeds' = Stored(feeds, l, [feeds[l] EXCEPT !.processed = TRUE])
      BY <2>3 DEF ProcessDataFeed, Apply, Processed
    <3> QED
      BY <3>1 DEF Stored
  <2>4. feeds' = feeds => feeds'[k] = feeds[k]
    OBVIOUS
  <2> QED
    BY <2>2, <2>3, <2>4 DEF OracleNext, RegisterOracle, SubmitDataFeed, SubmitAndProcess, Apply,
       SetOracleStatus, ReactivateOracle, SlashOracle, FileDispute, ResolveDispute, LedgerCloses
<1>3. ASSUME NEW d \in DOMAIN disputes, d[2] < ledger
      PROVE  \/ disputes'[d] = disputes[d]
             \/ /\ disputes[d].status = "Filed"
                /\ \E status \in {"Resolved", "Dismissed"} :
                      disputes'[d] = [disputes[d] EXCEPT !.status = status]
  <2>1. d[2] # ledger /\ disputes = [e \in DOMAIN disputes |-> disputes[e]]
    <3>1. d[2] \in 0 .. ledger /\ ledger \in Nat
      BY DEF OracleInv, OraclesTyped, DisputesSound
    <3>2. d[2] # ledger
      BY <1>3, <3>1, SMT
    <3> QED
      BY <3>2 DEF OracleInv, DisputesSound
  <2>2. ASSUME NEW who \in Disputer, NEW l \in DOMAIN feeds, FileDispute(who, l)
        PROVE  disputes'[d] = disputes[d]
    <3>1. d # <<l, ledger>>
      BY <2>1
    <3>2. \E x : disputes' = Stored(disputes, <<l, ledger>>, x)
      BY <2>2 DEF FileDispute
    <3> QED
      BY <3>1, <3>2 DEF Stored
  <2>3. ASSUME NEW e \in DOMAIN disputes, NEW uphold \in BOOLEAN, ResolveDispute(e, uphold)
        PROVE  \/ disputes'[d] = disputes[d]
               \/ /\ disputes[d].status = "Filed"
                  /\ \E status \in {"Resolved", "Dismissed"} :
                        disputes'[d] = [disputes[d] EXCEPT !.status = status]
    <3>1. PICK status \in {"Resolved", "Dismissed"} :
             disputes' = [disputes EXCEPT ![e] = [disputes[e] EXCEPT !.status = status]]
      BY <2>3 DEF ResolveDispute
    <3>2. disputes[e].status = "Filed"
      BY <2>3 DEF ResolveDispute
    <3> QED
      BY <2>1, <3>1, <3>2
  <2>4. disputes' = disputes => disputes'[d] = disputes[d]
    OBVIOUS
  <2> QED
    BY <2>2, <2>3, <2>4 DEF OracleNext, RegisterOracle, SubmitDataFeed, SubmitAndProcess,
       ProcessDataFeed, SetOracleStatus, ReactivateOracle, SlashOracle, LedgerCloses
<1> QED
  BY <1>1, <1>2, <1>3 DEF RecordsKept

\* By the invariant slashes are counted, and enough of them suspend.
LEMMA SlashesAreCounted == ASSUME OracleInv PROVE SlashesCounted
<1>1. ASSUME NEW o \in DOMAIN oracles
      PROVE  /\ oracles[o].disputed >= Cardinality(Upheld(o))
             /\ oracles[o].disputed >= SlashesBeforeSuspend /\ oracles[o].status = "Active" =>
                   o \in pardoned
             /\ oracles[o].successful <= oracles[o].total
  <2>1. Counted(o) /\ oracles[o] \in OracleRecord
    BY OracleTyped DEF OracleInv
  <2>2. Cardinality(Waiting(o)) \in Nat
    BY FinitelyMany DEF OracleInv, OraclesTyped
  <2>3. oracles[o].successful <= oracles[o].total
    BY <2>1, <2>2, RecordTypes2, SMT DEF Counted
  <2> QED
    BY <2>1, <2>3 DEF Counted
<1> QED
  BY <1>1 DEF SlashesCounted, Upheld

\* For any number of oracles, feeds and disputes every dispute upheld has cost its
\* oracle a slash, an oracle slashed too often is active only if reactivated since, and
\* the feeds and disputes of closed ledgers keep what was recorded: reputation_oracle.rs
\* slashes from two functions, suspends by a counter, and keys feeds and disputes by the
\* number of the ledger.
THEOREM OraclesAlwaysAccountable == OracleSpec => OraclesAccountable
<1>1. OracleInv /\ OracleInv' /\ [OracleNext]_oracleVars => [SlashesCounted' /\ RecordsKept]_oracleVars
  <2>1. OracleInv' => SlashesCounted'
    BY SlashesAreCounted, PTL
  <2> QED
    BY <2>1, RecordsKeptByStep
<1> QED
  BY <1>1, OracleInvariance, PTL DEF OracleSpec, OraclesAccountable

-----------------------------------------------------------------------------
(***************************************************************************)
(* ReputationOracle: cached reputations are the sums of what was applied.  *)
(* Every submission of an oracle has a number of its own, and one whose    *)
(* feed still waits was not applied.                                       *)
(***************************************************************************)
Submission == Oracle \X (1 .. MaxOracleCalls)
SubmissionOf(feed) == <<feed.oracle, feed.serial>>

\* Submissions have numbers of their own, in a feed that waits one not applied yet.
SerialsSound ==
    /\ oracleCalls \in 0 .. MaxOracleCalls
    /\ \A o \in DOMAIN oracles : oracles[o].total <= oracleCalls
    /\ \A l \in DOMAIN feeds : feeds[l].serial \in 1 .. oracles[feeds[l].oracle].total
    /\ \A l, m \in DOMAIN feeds : SubmissionOf(feeds[l]) = SubmissionOf(feeds[m]) => l = m
    /\ \A l \in DOMAIN feeds, s \in Subject :
          ~feeds[l].processed => applied[s][SubmissionOf(feeds[l])] = 0
    /\ \A o \in Oracle, n \in 1 .. MaxOracleCalls, s \in Subject :
          applied[s][<<o, n>>] # 0 => o \in DOMAIN oracles /\ n <= oracles[o].total

CacheTypes == reputationCache \in [Subject -> Int] /\ applied \in [Subject -> [Submission -> Int]]

CacheInv == OracleInv /\ SerialsSound /\ CacheTypes /\ CacheExact

\* Oracles are finitely many, and so are their submissions.
LEMMA SubmissionsFinite == IsFiniteSet(Submission)
<1>1. IsFiniteSet(1 .. MaxOracleCalls)
  <2>1. 1 \in Int /\ MaxOracleCalls \in Int
    BY OracleAssumption, SMT
  <2> QED
    BY <2>1, FS_Interval
<1> QED
  BY <1>1, OraclesFinite, FS_Product DEF Submission

\* What was not applied yet is applied and added.
LEMMA AppliedOnce ==
  ASSUME CacheTypes, CacheExact, NEW s \in Subject, NEW key \in Submission, applied[s][key] = 0,
         NEW impact \in Int,
         applied' = [applied EXCEPT ![s][key] = impact],
         reputationCache' = [reputationCache EXCEPT ![s] = @ + impact]
  PROVE  CacheTypes' /\ CacheExact'
<1>1. CacheTypes'
  <2>1. reputationCache[s] \in Int /\ reputationCache[s] + impact \in Int
    BY SMT DEF CacheTypes
  <2>2. [applied[s] EXCEPT ![key] = impact] \in [Submission -> Int]
    BY DEF CacheTypes
  <2>3. applied' = [applied EXCEPT ![s] = [applied[s] EXCEPT ![key] = impact]]
    OBVIOUS
  <2> QED
    BY <2>1, <2>2, <2>3 DEF CacheTypes
<1>2. ASSUME NEW t \in Subject PROVE reputationCache'[t] = SumFunction(applied'[t])
  <2>0. reputationCache[t] = SumFunction(applied[t])
    BY DEF CacheExact
  <2>1. CASE t # s
    BY <2>0, <2>1 DEF CacheTypes
  <2>2. CASE t = s
    <3>1. PICK f : f = applied[s]
      OBVIOUS
    <3>2. PICK h : h = applied'[s]
      OBVIOUS
    <3>3. f \in [Submission -> Int] /\ h = [f EXCEPT ![key] = impact] /\ h \in [Submission -> Int]
      BY <3>1, <3>2 DEF CacheTypes
    <3>4. Summable(f, Submission) /\ Summable(h, Submission) /\ f[key] = 0 /\ h[key] = impact
          /\ \A y \in Submission : y # key => h[y] = f[y]
      BY <3>1, <3>3 DEF Summable
    <3>5. SumFunctionOnSet(h, Submission) = SumFunctionOnSet(f, Submission) + (h[key] - f[key])
      BY <3>4, SubmissionsFinite, SumMovesWith
    <3>6. DOMAIN f = Submission /\ DOMAIN h = Submission
      BY <3>3
    <3>7. reputationCache'[s] = reputationCache[s] + impact /\ reputationCache[s] \in Int
      BY DEF CacheTypes
    <3>8. reputationCache[s] = SumFunctionOnSet(f, Submission)
      BY <2>0, <2>2, <3>1, <3>6 DEF SumFunction
    <3>9. SumFunction(h) = SumFunctionOnSet(h, Submission)
      BY <3>6 DEF SumFunction
    <3>10. SumFunction(h) = reputationCache[s] + (impact - 0)
      BY <3>4, <3>5, <3>8, <3>9
    <3>11. reputationCache[s] + (impact - 0) = reputationCache[s] + impact
      BY <3>7, SMT
    <3> QED
      BY <2>2, <3>2, <3>7, <3>10, <3>11
  <2> QED
    BY <2>1, <2>2
<1> QED
  BY <1>1, <1>2 DEF CacheExact

\* A feed of an oracle's last submission is stored, processed or not.
LEMMA SubmissionKeeps ==
  ASSUME CacheInv, OracleCalled, NEW o \in DOMAIN oracles, NEW feed \in Feed,
         feed.oracle = o, feed.serial = oracles[o].total + 1, feeds' = Stored(feeds, ledger, feed),
         NEW record \in OracleRecord, record.total = oracles[o].total + 1,
         oracles' = [oracles EXCEPT ![o] = record],
         \/ ~feed.processed /\ applied' = applied
         \/ /\ feed.processed
            /\ applied' = [applied EXCEPT ![feed.subject][SubmissionOf(feed)] = feed.impact]
  PROVE  SerialsSound' /\ SubmissionOf(feed) \in Submission
         /\ \A s \in Subject : applied[s][SubmissionOf(feed)] = 0
<1>1. /\ OracleInv /\ SerialsSound /\ CacheTypes
      /\ oracles \in [DOMAIN oracles -> OracleRecord] /\ DOMAIN oracles \subseteq Oracle
      /\ oracles[o] \in OracleRecord /\ o \in Oracle
  BY DEF CacheInv, OracleInv, OraclesTyped
<1>2. PICK n : n = oracles[o].total + 1
  OBVIOUS
<1>3. /\ oracles[o].total \in Nat /\ oracleCalls \in Nat /\ MaxOracleCalls \in Nat
      /\ oracles[o].total <= oracleCalls /\ oracleCalls < MaxOracleCalls /\ oracleCalls' = oracleCalls + 1
  BY <1>1, RecordTypes2, OracleAssumption DEF SerialsSound, OracleCalled
<1>4. /\ n \in 1 .. MaxOracleCalls /\ n \in Nat /\ n <= oracleCalls' /\ oracleCalls' \in 0 .. MaxOracleCalls
      /\ ~(n <= oracles[o].total) /\ oracles[o].total <= n /\ n \in 1 .. n
  BY <1>2, <1>3, SMT
<1>5. SubmissionOf(feed) = <<o, n>> /\ SubmissionOf(feed) \in Submission
  BY <1>1, <1>2, <1>4 DEF SubmissionOf, Submission
<1>6. \A s \in Subject : applied[s][<<o, n>>] = 0
  BY <1>1, <1>4 DEF SerialsSound
<1>7. /\ DOMAIN oracles' = DOMAIN oracles /\ oracles'[o] = record /\ record.total = n
      /\ \A q \in DOMAIN oracles : q # o => oracles'[q] = oracles[q]
  BY <1>1, <1>2
<1>8. /\ DOMAIN feeds' = DOMAIN feeds \cup {ledger} /\ feeds'[ledger] = feed
      /\ \A l \in DOMAIN feeds : l # ledger => feeds'[l] = feeds[l]
  BY DEF Stored
<1>9. \A q \in DOMAIN oracles : oracles'[q].total <= oracleCalls'
  <2> SUFFICES ASSUME NEW q \in DOMAIN oracles PROVE oracles'[q].total <= oracleCalls'
    OBVIOUS
  <2>1. oracles[q].total \in Nat /\ oracles[q].total <= oracleCalls
    BY <1>1, RecordTypes2 DEF SerialsSound
  <2>2. oracles[q].total <= oracleCalls + 1
    BY <1>3, <2>1, SMT
  <2> QED
    BY <1>3, <1>4, <1>7, <2>2
<1>10. \A q \in DOMAIN oracles, k \in Nat : k <= oracles[q].total => k <= oracles'[q].total
  <2> SUFFICES ASSUME NEW q \in DOMAIN oracles, NEW k \in Nat, k <= oracles[q].total
               PROVE  k <= oracles'[q].total
    OBVIOUS
  <2>1. oracles[o].total <= n => (k <= oracles[o].total => k <= n)
    BY <1>3, <1>4, SMT
  <2> QED
    BY <1>4, <1>7, <2>1
<1>11. \A l \in DOMAIN feeds' : feeds'[l].serial \in 1 .. oracles'[feeds'[l].oracle].total
  <2> SUFFICES ASSUME NEW l \in DOMAIN feeds' PROVE feeds'[l].serial \in 1 .. oracles'[feeds'[l].oracle].total
    OBVIOUS
  <2>1. CASE l = ledger
    BY <1>2, <1>4, <1>7, <1>8, <2>1
  <2>2. CASE l # ledger
    <3>1. /\ l \in DOMAIN feeds /\ feeds'[l] = feeds[l] /\ feeds[l].oracle \in DOMAIN oracles
          /\ feeds[l].serial \in 1 .. oracles[feeds[l].oracle].total
      BY <1>1, <1>8, <2>2 DEF OracleInv, FeedsSound, SerialsSound
    <3>2. PICK q \in DOMAIN oracles : q = feeds[l].oracle
      BY <3>1
    <3>3. oracles[q].total \in Nat /\ oracles'[q].total \in Nat
      BY <1>1, <1>4, <1>7, RecordTypes2
    <3>4. feeds[l].serial \in Nat /\ 1 <= feeds[l].serial /\ feeds[l].serial <= oracles[q].total
      BY <3>1, <3>2, <3>3, SMT
    <3>5. feeds[l].serial <= oracles'[q].total
      BY <1>10, <3>4
    <3>6. feeds[l].serial \in 1 .. oracles'[q].total
      BY <3>3, <3>4, <3>5, SMT
    <3> QED
      BY <3>1, <3>2, <3>6
  <2> QED
    BY <2>1, <2>2
\* No other feed has the new number.
<1>12. ASSUME NEW l \in DOMAIN feeds PROVE SubmissionOf(feeds[l]) # <<o, n>>
  <2>1. ASSUME feeds[l].oracle = o PROVE feeds[l].serial # n
    <3>1. feeds[l].serial \in 1 .. oracles[o].total
      BY <1>1, <2>1 DEF SerialsSound
    <3>2. feeds[l].serial <= oracles[o].total
      BY <1>3, <3>1, SMT
    <3> QED
      BY <1>4, <3>2
  <2> QED
    BY <2>1 DEF SubmissionOf
<1>13. ASSUME NEW l \in DOMAIN feeds', NEW m \in DOMAIN feeds', SubmissionOf(feeds'[l]) = SubmissionOf(feeds'[m])
       PROVE  l = m
  <2>1. CASE l = ledger /\ m # ledger
    BY <1>5, <1>8, <1>12, <1>13, <2>1
  <2>2. CASE l # ledger /\ m = ledger
    BY <1>5, <1>8, <1>12, <1>13, <2>2
  <2>3. CASE l # ledger /\ m # ledger
    BY <1>1, <1>8, <1>13, <2>3 DEF SerialsSound
  <2> QED
    BY <2>1, <2>2, <2>3
<1>14. ASSUME NEW l \in DOMAIN feeds', NEW s \in Subject, ~feeds'[l].processed
       PROVE  applied'[s][SubmissionOf(feeds'[l])] = 0
  <2>1. CASE l = ledger
    BY <1>5, <1>6, <1>8, <1>14, <2>1
  <2>2. CASE l # ledger
    <3>1. l \in DOMAIN feeds /\ feeds'[l] = feeds[l] /\ SubmissionOf(feeds[l]) # <<o, n>>
          /\ applied[s][SubmissionOf(feeds[l])] = 0
      BY <1>1, <1>8, <1>12, <1>14, <2>2 DEF SerialsSound
    <3>2. applied'[s][SubmissionOf(feeds[l])] = applied[s][SubmissionOf(feeds[l])]
      <4>1. CASE applied' = applied
        BY <4>1
      <4>2. CASE applied' = [applied EXCEPT ![feed.subject][SubmissionOf(feed)] = feed.impact]
        BY <1>1, <1>5, <3>1, <4>2 DEF CacheTypes
      <4> QED
        BY <4>1, <4>2
    <3> QED
      BY <3>1, <3>2
  <2> QED
    BY <2>1, <2>2
<1>15. ASSUME NEW q \in Oracle, NEW k \in 1 .. MaxOracleCalls, NEW s \in Subject, applied'[s][<<q, k>>] # 0
       PROVE  q \in DOMAIN oracles' /\ k <= oracles'[q].total
  <2>0. k \in Nat
    BY <1>3, SMT
  <2>1. CASE <<q, k>> = <<o, n>>
    <3>1. q = o /\ k = n /\ n <= n
      BY <1>4, <2>1, SMT
    <3> QED
      BY <1>7, <3>1
  <2>2. CASE <<q, k>> # <<o, n>>
    <3>1. applied'[s][<<q, k>>] = applied[s][<<q, k>>]
      <4>1. CASE applied' = applied
        BY <4>1
      <4>2. CASE applied' = [applied EXCEPT ![feed.subject][SubmissionOf(feed)] = feed.impact]
        BY <1>1, <1>5, <2>2, <4>2 DEF CacheTypes
      <4> QED
        BY <4>1, <4>2
    <3>2. q \in DOMAIN oracles /\ k <= oracles[q].total
      BY <1>1, <1>15, <3>1 DEF SerialsSound
    <3> QED
      BY <1>7, <1>10, <2>0, <3>2
  <2> QED
    BY <2>1, <2>2
<1>16. SerialsSound'
  BY <1>4, <1>7, <1>9, <1>11, <1>13, <1>14, <1>15 DEF SerialsSound
<1> QED
  BY <1>5, <1>6, <1>16

\* submit_data_feed gives the feed a number of its own.
LEMMA SubmitDataFeedExact ==
  ASSUME CacheInv, NEW o \in DOMAIN oracles, NEW s \in Subject, NEW impact \in Impacts,
         SubmitDataFeed(o, s, impact)
  PROVE  CacheInv'
<1>1. OracleInv' /\ OracleInv /\ oracles[o] \in OracleRecord /\ o \in Oracle
  BY SubmitDataFeedKeeps, OracleTyped DEF CacheInv
<1>2. PICK feed : feed = NewFeed(o, s, impact)
  OBVIOUS
<1>3. PICK record : record = Submitted(o)
  OBVIOUS
<1>4. /\ feed \in Feed /\ feed.oracle = o /\ ~feed.processed /\ feed.serial = oracles[o].total + 1
      /\ record \in OracleRecord /\ record.total = oracles[o].total + 1
  BY <1>1, <1>2, <1>3, NewFeedTyped, SubmittedCounts DEF NewFeed
<1>5. /\ feeds' = Stored(feeds, ledger, feed) /\ oracles' = [oracles EXCEPT ![o] = record]
      /\ OracleCalled /\ UNCHANGED <<reputationCache, applied>>
  BY <1>2, <1>3 DEF SubmitDataFeed
<1>6. SerialsSound'
  BY <1>4, <1>5, SubmissionKeeps
<1> QED
  BY <1>1, <1>5, <1>6 DEF CacheInv, CacheTypes, CacheExact

\* Submission and processing in one transaction apply the feed at once.
LEMMA SubmitAndProcessExact ==
  ASSUME CacheInv, NEW o \in DOMAIN oracles, NEW s \in Subject, NEW impact \in Impacts,
         SubmitAndProcess(o, s, impact)
  PROVE  CacheInv'
<1>1. OracleInv' /\ OracleInv /\ oracles[o] \in OracleRecord /\ o \in Oracle /\ impact \in Int
  BY SubmitAndProcessKeeps, OracleTyped, OracleAssumption DEF CacheInv
<1>2. PICK fresh : fresh = NewFeed(o, s, impact)
  OBVIOUS
<1>3. PICK feed : feed = Processed(fresh)
  OBVIOUS
<1>4. PICK c : c = Submitted(o)
  OBVIOUS
<1>5. PICK record : record = Credited(c, impact)
  OBVIOUS
<1>6. /\ fresh \in Feed /\ fresh.oracle = o /\ fresh.serial = oracles[o].total + 1
      /\ fresh.subject = s /\ fresh.impact = impact
  BY <1>1, <1>2, NewFeedTyped DEF NewFeed
<1>7. /\ feed \in Feed /\ feed.oracle = o /\ feed.processed /\ feed.serial = oracles[o].total + 1
      /\ feed.subject = s /\ feed.impact = impact
  BY <1>3, <1>6, ProcessedTyped DEF Processed, Feed
<1>8. c \in OracleRecord /\ c.total = oracles[o].total + 1
  BY <1>1, <1>4, SubmittedCounts
<1>9. record \in OracleRecord /\ record.total = oracles[o].total + 1
  BY <1>1, <1>5, <1>8, CreditedCounts
<1>10. /\ feeds' = Stored(feeds, ledger, feed) /\ oracles' = [oracles EXCEPT ![o] = record]
       /\ OracleCalled
       /\ reputationCache' = [reputationCache EXCEPT ![s] = @ + impact]
       /\ applied' = [applied EXCEPT ![s][SubmissionOf(feed)] = impact]
  BY <1>2, <1>3, <1>4, <1>5, <1>6, <1>7 DEF SubmitAndProcess, Apply, SubmissionOf
<1>11. /\ SerialsSound' /\ SubmissionOf(feed) \in Submission
       /\ applied[s][SubmissionOf(feed)] = 0
  BY <1>7, <1>9, <1>10, SubmissionKeeps
<1>12. CacheTypes' /\ CacheExact'
  BY <1>1, <1>10, <1>11, AppliedOnce DEF CacheInv
<1> QED
  BY <1>1, <1>11, <1>12 DEF CacheInv

\* process_data_feed applies what waited.
LEMMA ProcessDataFeedExact ==
  ASSUME CacheInv, NEW l \in DOMAIN feeds, ProcessDataFeed(l)
  PROVE  CacheInv'
<1>1. OracleInv' /\ OracleInv /\ SerialsSound /\ CacheTypes
  BY ProcessDataFeedKeeps DEF CacheInv
<1>2. PICK o : o = feeds[l].oracle
  OBVIOUS
<1>3. PICK old : old = feeds[l]
  OBVIOUS
<1>4. PICK feed : feed = Processed(old)
  OBVIOUS
<1>5. /\ o \in DOMAIN oracles /\ o \in Oracle /\ oracles[o] \in OracleRecord /\ old \in Feed
      /\ ~old.processed /\ old.oracle = o /\ old.impact \in Int /\ old.subject \in Subject
      /\ DOMAIN oracles \subseteq Oracle /\ oracles \in [DOMAIN oracles -> OracleRecord]
  <2>1. o \in DOMAIN oracles /\ old \in Feed /\ ~old.processed
    BY <1>1, <1>2, <1>3 DEF OracleInv, FeedsSound, ProcessDataFeed
  <2>2. old.impact \in Int /\ old.subject \in Subject
    BY <2>1, OracleAssumption DEF Feed
  <2> QED
    BY <1>1, <1>2, <1>3, <2>1, <2>2 DEF OracleInv, OraclesTyped
<1>6. PICK record : record = Credited(oracles[o], old.impact)
  OBVIOUS
<1>7. record \in OracleRecord /\ record.total = oracles[o].total
  BY <1>5, <1>6, CreditedCounts
<1>8. /\ feed.oracle = o /\ feed.processed /\ SubmissionOf(feed) = SubmissionOf(old)
      /\ feed.serial = old.serial
  BY <1>4, <1>5 DEF Processed, Feed, SubmissionOf
<1>9. /\ feeds' = Stored(feeds, l, feed) /\ oracles' = [oracles EXCEPT ![o] = record]
      /\ OracleCalled
      /\ reputationCache' = [reputationCache EXCEPT ![old.subject] = @ + old.impact]
      /\ applied' = [applied EXCEPT ![old.subject][SubmissionOf(old)] = old.impact]
  BY <1>2, <1>3, <1>4, <1>6 DEF ProcessDataFeed, Apply, SubmissionOf
<1>10. /\ DOMAIN oracles' = DOMAIN oracles
       /\ \A q \in DOMAIN oracles : oracles'[q].total = oracles[q].total
  BY <1>5, <1>7, <1>9
<1>11. /\ DOMAIN feeds' = DOMAIN feeds /\ feeds'[l] = feed
       /\ \A m \in DOMAIN feeds : m # l => feeds'[m] = feeds[m]
  BY <1>9 DEF Stored
<1>12. /\ \A m \in DOMAIN feeds : SubmissionOf(feeds'[m]) = SubmissionOf(feeds[m])
       /\ \A m \in DOMAIN feeds : /\ feeds'[m].oracle = feeds[m].oracle
                                  /\ feeds'[m].serial = feeds[m].serial
  BY <1>3, <1>5, <1>8, <1>11
<1>13. /\ oracles[o].total \in Nat /\ oracleCalls \in Nat /\ MaxOracleCalls \in Nat
       /\ oracles[o].total <= oracleCalls /\ oracleCalls < MaxOracleCalls /\ oracleCalls' = oracleCalls + 1
  BY <1>1, <1>5, <1>9, RecordTypes2, OracleAssumption DEF SerialsSound, OracleCalled
<1>14. old.serial \in 1 .. oracles[o].total
  BY <1>1, <1>2, <1>3 DEF SerialsSound
<1>15. /\ old.serial \in 1 .. MaxOracleCalls /\ old.serial <= oracles[o].total
       /\ oracleCalls' \in 0 .. MaxOracleCalls
  BY <1>13, <1>14, SMT
<1>16. SubmissionOf(old) = <<o, old.serial>> /\ SubmissionOf(old) \in Submission
  BY <1>5, <1>15 DEF SubmissionOf, Submission
<1>17. applied[old.subject][SubmissionOf(old)] = 0
  BY <1>1, <1>3, <1>5 DEF SerialsSound
<1>18. CacheTypes' /\ CacheExact'
  BY <1>5, <1>9, <1>16, <1>17, AppliedOnce DEF CacheInv
<1>19. \A s \in Subject, key \in Submission :
          key # SubmissionOf(old) => applied'[s][key] = applied[s][key]
  BY <1>1, <1>9, <1>16 DEF CacheTypes
<1>20. \A q \in DOMAIN oracles : oracles'[q].total <= oracleCalls'
  <2> SUFFICES ASSUME NEW q \in DOMAIN oracles PROVE oracles'[q].total <= oracleCalls'
    OBVIOUS
  <2>1. oracles[q].total \in Nat /\ oracles[q].total <= oracleCalls
    BY <1>1, <1>5, RecordTypes2 DEF SerialsSound
  <2>2. oracles[q].total <= oracleCalls + 1
    BY <1>13, <2>1, SMT
  <2> QED
    BY <1>10, <1>13, <2>2
<1>21. \A m \in DOMAIN feeds' : feeds'[m].serial \in 1 .. oracles'[feeds'[m].oracle].total
  <2> SUFFICES ASSUME NEW m \in DOMAIN feeds
               PROVE  feeds'[m].serial \in 1 .. oracles'[feeds'[m].oracle].total
    BY <1>11
  <2>1. feeds[m].oracle \in DOMAIN oracles
    BY <1>1 DEF OracleInv, FeedsSound
  <2>2. feeds[m].serial \in 1 .. oracles[feeds[m].oracle].total
    BY <1>1 DEF SerialsSound
  <2> QED
    BY <1>10, <1>12, <2>1, <2>2
<1>22. ASSUME NEW m \in DOMAIN feeds', NEW k \in DOMAIN feeds',
              SubmissionOf(feeds'[m]) = SubmissionOf(feeds'[k])
       PROVE  m = k
  BY <1>1, <1>11, <1>12, <1>22 DEF SerialsSound
<1>23. ASSUME NEW m \in DOMAIN feeds', NEW s \in Subject, ~feeds'[m].processed
       PROVE  applied'[s][SubmissionOf(feeds'[m])] = 0
  <2>1. m \in DOMAIN feeds /\ m # l /\ feeds'[m] = feeds[m]
    BY <1>8, <1>11, <1>23
  <2>2. SubmissionOf(feeds[m]) # SubmissionOf(old) /\ applied[s][SubmissionOf(feeds[m])] = 0
    BY <1>1, <1>3, <1>23, <2>1 DEF SerialsSound
  <2>3. applied'[s][SubmissionOf(feeds[m])] = applied[s][SubmissionOf(feeds[m])]
    BY <1>1, <1>9, <1>16, <2>2 DEF CacheTypes
  <2> QED
    BY <2>1, <2>2, <2>3
<1>24. ASSUME NEW q \in Oracle, NEW k \in 1 .. MaxOracleCalls, NEW s \in Subject,
              applied'[s][<<q, k>>] # 0
       PROVE  q \in DOMAIN oracles' /\ k <= oracles'[q].total
  <2>1. CASE <<q, k>> = SubmissionOf(old)
    <3>1. q = o /\ k = old.serial
      BY <1>16, <2>1
    <3> QED
      BY <1>5, <1>10, <1>15, <3>1
  <2>2. CASE <<q, k>> # SubmissionOf(old)
    <3>1. applied[s][<<q, k>>] # 0
      BY <1>19, <1>24, <2>2 DEF Submission
    <3>2. q \in DOMAIN oracles /\ k <= oracles[q].total
      BY <1>1, <3>1 DEF SerialsSound
    <3> QED
      BY <1>10, <3>2
  <2> QED
    BY <2>1, <2>2
<1>25. SerialsSound'
  BY <1>10, <1>15, <1>20, <1>21, <1>22, <1>23, <1>24 DEF SerialsSound
<1> QED
  BY <1>1, <1>18, <1>25 DEF CacheInv

\* A call that leaves the feeds alone, and the numbers of submissions of those registered.
LEMMA CacheRests ==
  ASSUME CacheInv, OracleInv', UNCHANGED <<feeds, reputationCache, applied>>,
         oracleCalls' \in {oracleCalls, oracleCalls + 1}, oracleCalls' \in 0 .. MaxOracleCalls,
         DOMAIN oracles \subseteq DOMAIN oracles',
         \A o \in DOMAIN oracles : oracles'[o].total = oracles[o].total,
         \A o \in DOMAIN oracles' : o \notin DOMAIN oracles => oracles'[o].total = 0
  PROVE  CacheInv'
<1>1. OracleInv /\ SerialsSound /\ CacheTypes /\ CacheExact
  BY DEF CacheInv
<1>2. CacheTypes' /\ CacheExact'
  BY <1>1 DEF CacheTypes, CacheExact
<1>3. ASSUME NEW o \in DOMAIN oracles' PROVE oracles'[o].total <= oracleCalls'
  <2>1. oracleCalls \in Nat /\ oracleCalls' \in Nat
    BY <1>1, OracleAssumption, SMT DEF SerialsSound
  <2>2. CASE o \in DOMAIN oracles
    <3>1. oracles[o].total \in Nat /\ oracles[o].total <= oracleCalls
      BY <1>1, <2>2, RecordTypes2 DEF SerialsSound, OracleInv, OraclesTyped
    <3>2. oracles[o].total <= oracleCalls'
      BY <2>1, <3>1, SMT
    <3> QED
      BY <2>2, <3>2
  <2>3. CASE o \notin DOMAIN oracles
    BY <2>1, <2>3, SMT
  <2> QED
    BY <2>2, <2>3
<1>4. \A l \in DOMAIN feeds : feeds[l].serial \in 1 .. oracles'[feeds[l].oracle].total
  <2> SUFFICES ASSUME NEW l \in DOMAIN feeds
               PROVE  feeds[l].serial \in 1 .. oracles'[feeds[l].oracle].total
    OBVIOUS
  <2>1. feeds[l].oracle \in DOMAIN oracles
    BY <1>1 DEF OracleInv, FeedsSound
  <2>2. feeds[l].serial \in 1 .. oracles[feeds[l].oracle].total
    BY <1>1 DEF SerialsSound
  <2> QED
    BY <2>1, <2>2
<1>5. ASSUME NEW q \in Oracle, NEW k \in 1 .. MaxOracleCalls, NEW s \in Subject, applied[s][<<q, k>>] # 0
      PROVE  q \in DOMAIN oracles' /\ k <= oracles'[q].total
  BY <1>1, <1>5 DEF SerialsSound
<1>6. SerialsSound'
  BY <1>1, <1>3, <1>4, <1>5 DEF SerialsSound
<1> QED
  BY <1>2, <1>6 DEF CacheInv

\* Each step of the oracle keeps the sums.
LEMMA CacheStep == ASSUME CacheInv, [OracleNext]_oracleVars PROVE CacheInv'
<1>0. /\ OracleInv /\ OracleInv' /\ oracleCalls \in 0 .. MaxOracleCalls
      /\ oracles \in [DOMAIN oracles -> OracleRecord] /\ DOMAIN oracles \subseteq Oracle
  BY OracleStep DEF CacheInv, OracleInv, OraclesTyped, SerialsSound
<1>1. OracleCalled => oracleCalls' \in {oracleCalls, oracleCalls + 1} /\ oracleCalls' \in 0 .. MaxOracleCalls
  BY <1>0, OracleAssumption, SMT DEF OracleCalled
<1>2. CASE UNCHANGED oracleVars
  BY <1>0, <1>2, CacheRests DEF oracleVars
<1>3. ASSUME NEW o \in Oracle, RegisterOracle(o) PROVE CacheInv'
  <2>1. PICK record : /\ record = [status |-> "Active", reputation |-> BaseReputation,
                                   total |-> 0, successful |-> 0, disputed |-> 0]
    OBVIOUS
  <2>2. /\ oracles' = Stored(oracles, o, record) /\ o \notin DOMAIN oracles /\ record.total = 0
        /\ OracleCalled /\ UNCHANGED <<feeds, reputationCache, applied>>
    BY <1>3, <2>1 DEF RegisterOracle
  <2>3. /\ DOMAIN oracles' = DOMAIN oracles \cup {o} /\ oracles'[o] = record
        /\ \A q \in DOMAIN oracles : oracles'[q] = oracles[q]
    BY <2>2 DEF Stored
  <2> QED
    BY <1>0, <1>1, <2>2, <2>3, CacheRests
<1>4. ASSUME NEW o \in DOMAIN oracles, NEW status, SetOracleStatus(o, status) PROVE CacheInv'
  <2>1. /\ oracles' = [oracles EXCEPT ![o] = [oracles[o] EXCEPT !.status = status]]
        /\ OracleCalled /\ UNCHANGED <<feeds, reputationCache, applied>>
    BY <1>4 DEF SetOracleStatus
  <2>2. DOMAIN oracles' = DOMAIN oracles /\ \A q \in DOMAIN oracles : oracles'[q].total = oracles[q].total
    BY <1>0, <2>1 DEF OracleRecord
  <2> QED
    BY <1>0, <1>1, <2>1, <2>2, CacheRests
<1>5. ASSUME NEW o \in DOMAIN oracles, ReactivateOracle(o) PROVE CacheInv'
  <2>1. /\ oracles' = [oracles EXCEPT ![o] = [oracles[o] EXCEPT !.status = "Active"]]
        /\ OracleCalled /\ UNCHANGED <<feeds, reputationCache, applied>>
    BY <1>5 DEF ReactivateOracle
  <2>2. DOMAIN oracles' = DOMAIN oracles /\ \A q \in DOMAIN oracles : oracles'[q].total = oracles[q].total
    BY <1>0, <2>1 DEF OracleRecord
  <2> QED
    BY <1>0, <1>1, <2>1, <2>2, CacheRests
<1>6. ASSUME NEW o \in DOMAIN oracles, NEW penalty, Slash(o, penalty),
             OracleCalled, UNCHANGED <<feeds, reputationCache, applied>>
      PROVE  CacheInv'
  <2>1. PICK status, reputation, disputed :
          oracles' = [oracles EXCEPT ![o] = [oracles[o] EXCEPT !.reputation = reputation,
                                                !.disputed = disputed, !.status = status]]
    <3>1. oracles' = [oracles EXCEPT ![o] = [oracles[o] EXCEPT
              !.reputation = AtLeastZero(@ - penalty), !.disputed = @ + 1,
              !.status = IF TooOften(oracles[o]) THEN "Suspended" ELSE @]]
      BY <1>6 DEF Slash
    <3> QED
      BY <3>1
  <2>2. DOMAIN oracles' = DOMAIN oracles /\ \A q \in DOMAIN oracles : oracles'[q].total = oracles[q].total
    BY <1>0, <2>1 DEF OracleRecord
  <2> QED
    BY <1>0, <1>1, <1>6, <2>2, CacheRests
<1>7. ASSUME OracleCalled, UNCHANGED <<oracles, feeds, reputationCache, applied>> PROVE CacheInv'
  BY <1>0, <1>1, <1>7, CacheRests
<1>8. ASSUME NEW o \in DOMAIN oracles, NEW penalty, SlashOracle(o, penalty) PROVE CacheInv'
  BY <1>6, <1>8 DEF SlashOracle
<1>9. ASSUME NEW l \in DOMAIN feeds, NEW who \in Disputer, FileDispute(who, l) PROVE CacheInv'
  BY <1>7, <1>9 DEF FileDispute
<1>10. ASSUME NEW d \in DOMAIN disputes, NEW uphold \in BOOLEAN, ResolveDispute(d, uphold) PROVE CacheInv'
  <2>1. /\ OracleCalled /\ UNCHANGED <<feeds, reputationCache, applied>>
        /\ Slash(disputes[d].oracle, SlashingPenalty) \/ UNCHANGED oracles
    BY <1>10 DEF ResolveDispute
  <2>2. disputes[d].oracle \in DOMAIN oracles
    BY <1>0 DEF OracleInv, DisputesSound
  <2> QED
    BY <1>6, <1>7, <2>1, <2>2
<1>11. ASSUME LedgerCloses PROVE CacheInv'
  BY <1>0, <1>11, CacheRests DEF LedgerCloses
<1> QED
  BY <1>2, <1>3, <1>4, <1>5, <1>8, <1>9, <1>10, <1>11,
     SubmitDataFeedExact, SubmitAndProcessExact, ProcessDataFeedExact DEF OracleNext

\* The cached reputations are exact in every behaviour of the oracle.
LEMMA CachesExact == OracleSpec => []CacheExact
<1>1. OracleInit => SerialsSound /\ CacheTypes /\ CacheExact
  <2> SUFFICES ASSUME OracleInit PROVE SerialsSound /\ CacheTypes /\ CacheExact
    OBVIOUS
  <2>1. /\ DOMAIN oracles = {} /\ DOMAIN feeds = {} /\ oracleCalls = 0 /\ 0 \in Int
        /\ reputationCache = [s \in Subject |-> 0]
        /\ applied = [s \in Subject |-> [key \in Submission |-> 0]]
    BY SMT DEF OracleInit, Submission
  <2>2. 0 \in 0 .. MaxOracleCalls
    BY OracleAssumption, SMT
  <2>3. \A o \in Oracle, n \in 1 .. MaxOracleCalls, s \in Subject : applied[s][<<o, n>>] = 0
    BY <2>1 DEF Submission
  <2>4. SerialsSound
    BY <2>1, <2>2, <2>3 DEF SerialsSound
  <2>5. CacheTypes
    BY <2>1 DEF CacheTypes
  <2>6. ASSUME NEW s \in Subject PROVE reputationCache[s] = SumFunction(applied[s])
    <3>1. PICK f : f = applied[s]
      OBVIOUS
    <3>2. DOMAIN f = Submission /\ \A key \in Submission : f[key] = 0
      BY <2>1, <3>1
    <3>3. SumFunctionOnSet(f, Submission) = 0
      BY <3>2, SubmissionsFinite, SumOfNothing
    <3> QED
      BY <2>1, <3>1, <3>2, <3>3 DEF SumFunction
  <2> QED
    BY <2>4, <2>5, <2>6 DEF CacheExact
<1>2. OracleInv /\ SerialsSound /\ CacheTypes /\ CacheExact <=> CacheInv
  BY DEF CacheInv
<1> QED
  BY <1>1, <1>2, OracleInvariance, CacheStep, PTL DEF OracleSpec

-----------------------------------------------------------------------------
(***************************************************************************)
(* Both contracts: what they add up as they go is the sum of its parts.    *)
(***************************************************************************)
\* However calls follow each other: tallies are those of the votes on record, and cached
\* reputations those of the submissions applied, each once (cast_vote, process_data_feed,
\* submit_and_process).
THEOREM SumsAlwaysExact == GovSpec /\ OracleSpec => []SumsExact
<1>1. Tallied /\ CacheExact => SumsExact
  BY DEF SumsExact
<1> QED
  BY <1>1, TalliesExact, CachesExact, PTL

-----------------------------------------------------------------------------
(***************************************************************************)
(* Screening: what the compliance filter refuses, and what its clients     *)
(* tell.                                                                   *)
(***************************************************************************)
Result == [score : Nat, at : Nat]
ScreenAnswers ==
    [party : Party, status : {"blocked", "suspicious", "clear"}, score : Nat, failed : BOOLEAN,
     refusal : {"AddressBlocked", "HighRisk", "none"}, listed : BOOLEAN, merged : Nat]

ScreenTypes ==
    /\ lists \in [List -> [known : BOOLEAN, active : BOOLEAN, entries : SUBSET Party]]
    /\ stored \in [Party -> SUBSET Result]
    /\ trail \in [Party -> SUBSET Nat]
    /\ ledgerNow \in Nat
    /\ said \in [Party -> [score : 0 .. 100, at : Nat]]
    /\ screens \in [ScreenCall ->
          [kind : {"none", "screening", "sanctions-clear"}, at : {"new", "asked", "screen", "threw", "returned"},
           open : SUBSET Party, answers : SUBSET ScreenAnswers]]

\* Of a high score the oracles said nothing is left but what they said, until it is too old.
Remembers(s, last, when) ==
    \/ s = last
    \/ /\ s.score \in {0, last.score} /\ s.score <= HIGH_RISK_THRESHOLD
       /\ last.score > HIGH_RISK_THRESHOLD => when - last.at > Staleness

\* At most one result is stored, its time is in the trail, and its score is the oracles' last
\* or none.
ResultSound(p) ==
    /\ said[p].at <= ledgerNow
    /\ stored[p] = {} => said[p].score = 0
    /\ \A s, t \in stored[p] : s = t
    /\ \A s \in stored[p] :
          s.at \in trail[p] /\ s.at <= ledgerNow /\ Remembers(s, said[p], ledgerNow)

\* What an answer says, if it is one of the contract, is what the contract held then.
Told(a) ==
    ~a.failed =>
        /\ a.status = "clear" <=> a.refusal = "none"
        /\ a.status = "clear" => a.score = a.merged
        /\ a.listed => a.status = "blocked"

AnswersTold ==
    \A c \in ScreenCall :
        /\ \A a \in screens[c].answers : Told(a)
        /\ screens[c].kind = "sanctions-clear" /\ screens[c].at = "returned" =>
              \A a \in screens[c].answers : a.status # "blocked"

ScreenInv == ScreenTypes /\ (\A p \in Party : ResultSound(p)) /\ AnswersTold

-----------------------------------------------------------------------------
(* Results. *)

\* What aggregated_score makes of a party: the highest score there is if it is listed,
\* else the result stored, unless it is too old.
LEMMA MergedIs ==
  ASSUME ScreenTypes, NEW p \in Party, ResultSound(p)
  PROVE  /\ Merged(p) \in Nat
         /\ ~Blocked(p) => Merged(p) \in {0, said[p].score}
         /\ ~Blocked(p) => (Merged(p) > HIGH_RISK_THRESHOLD <=>
               said[p].score > HIGH_RISK_THRESHOLD /\ ledgerNow - said[p].at <= Staleness)
         /\ Blocked(p) => Merged(p) = MAX_RISK_SCORE
<1>1. /\ said[p].score \in 0 .. 100 /\ said[p].at \in Nat /\ ledgerNow \in Nat /\ Staleness \in Nat
      /\ stored[p] \subseteq Result
  BY ScreeningAssumption DEF ScreenTypes
<1>2. CASE Blocked(p)
  BY <1>2, SMT DEF Merged, MAX_RISK_SCORE
<1>3. CASE ~Blocked(p) /\ FreshResult(p) = {}
  <2>1. Merged(p) = 0
    BY <1>3 DEF Merged
  <2>2. ~(said[p].score > HIGH_RISK_THRESHOLD /\ ledgerNow - said[p].at <= Staleness)
    <3>1. CASE stored[p] = {}
      BY <3>1, <1>1 DEF ResultSound, HIGH_RISK_THRESHOLD
    <3>2. CASE stored[p] # {}
      <4>1. PICK s \in stored[p] : TRUE
        BY <3>2
      <4>2. ~(ledgerNow - s.at <= Staleness)
        BY <4>1, <1>3 DEF FreshResult
      <4>3. Remembers(s, said[p], ledgerNow)
        BY <4>1 DEF ResultSound
      <4> QED
        BY <4>2, <4>3, <1>1, SMT DEF Remembers, HIGH_RISK_THRESHOLD
    <3> QED
      BY <3>1, <3>2
  <2> QED
    BY <1>3, <2>1, <2>2 DEF HIGH_RISK_THRESHOLD
<1>4. CASE ~Blocked(p) /\ FreshResult(p) # {}
  <2>1. PICK s \in FreshResult(p) : TRUE
    BY <1>4
  <2>2. s \in stored[p] /\ ledgerNow - s.at <= Staleness /\ s.score \in Nat /\ s.at \in Nat
    BY <2>1, <1>1 DEF FreshResult, Result
  <2>3. (CHOOSE x \in FreshResult(p) : TRUE) = s
    <3>1. \A x \in FreshResult(p) : x = s
      BY <2>2 DEF FreshResult, ResultSound
    <3> QED
      BY <3>1, <2>1
  <2>4. Merged(p) = s.score
    BY <1>4, <2>3, Zenon DEF Merged
  <2>5. Remembers(s, said[p], ledgerNow)
    BY <2>2 DEF ResultSound
  <2>6. CASE s = said[p]
    BY <1>4, <2>2, <2>4, <2>6, <1>1 DEF HIGH_RISK_THRESHOLD
  <2>7. CASE s # said[p]
    <3>1. /\ s.score \in {0, said[p].score} /\ s.score <= 70
          /\ said[p].score > 70 => ledgerNow - said[p].at > Staleness
      BY <2>5, <2>7, Zenon DEF Remembers, HIGH_RISK_THRESHOLD
    <3>2. /\ s.score > 70 <=> said[p].score > 70 /\ ledgerNow - said[p].at <= Staleness
      BY <3>1, <2>2, <1>1, SMT
    <3> QED
      BY <1>4, <2>4, <2>2, <3>1, <3>2, Zenon DEF HIGH_RISK_THRESHOLD
  <2> QED
    BY <2>6, <2>7
<1> QED
  BY <1>2, <1>3, <1>4

\* What the gate refuses: a listed party, or one whose merged score is above the
\* threshold.
LEMMA RefusalIs ==
  ASSUME ScreenTypes, NEW p \in Party, ResultSound(p)
  PROVE  /\ Refusal(p) \in {"AddressBlocked", "HighRisk", "none"}
         /\ Refusal(p) = "none" <=> ~Blocked(p) /\ ~(Merged(p) > HIGH_RISK_THRESHOLD)
         /\ Blocked(p) => Refusal(p) = "AddressBlocked"
<1>1. Merged(p) \in Nat
  BY MergedIs
<1> QED
  BY <1>1, SMT DEF Refusal, HIGH_RISK_THRESHOLD, MAX_RISK_SCORE
-----------------------------------------------------------------------------
(* The contract. *)

\* A call changes the lists, and adds the time to some trails.
LEMMA ListsKeep ==
  ASSUME ScreenInv, UNCHANGED <<stored, said, screens, ledgerNow>>,
         lists' \in [List -> [known : BOOLEAN, active : BOOLEAN, entries : SUBSET Party]],
         NEW parties \in SUBSET Party, Audit(parties) \/ UNCHANGED trail
  PROVE  ScreenInv'
<1>1. trail' \in [Party -> SUBSET Nat] /\ \A p \in Party : trail[p] \subseteq trail'[p]
  BY DEF ScreenInv, ScreenTypes, Audit
<1>2. ScreenTypes'
  BY <1>1 DEF ScreenInv, ScreenTypes
<1>3. ASSUME NEW p \in Party PROVE ResultSound(p)'
  BY <1>1 DEF ScreenInv, ResultSound
<1>4. AnswersTold'
  BY DEF ScreenInv, AnswersTold
<1> QED
  BY <1>2, <1>3, <1>4 DEF ScreenInv

\* A result is stored for one party, and the time added to its trail.
LEMMA ResultKeeps ==
  ASSUME ScreenInv, NEW p \in Party, NEW s \in Result, s.at = ledgerNow,
         stored' = [stored EXCEPT ![p] = {s}], Audit({p}), UNCHANGED <<lists, ledgerNow, screens>>,
         said' \in [Party -> [score : 0 .. 100, at : Nat]],
         \A q \in Party : q # p => said'[q] = said[q],
         said'[p].at <= ledgerNow, Remembers(s, said'[p], ledgerNow)
  PROVE  ScreenInv'
<1>1. ledgerNow \in Nat /\ stored \in [Party -> SUBSET Result] /\ trail \in [Party -> SUBSET Nat]
  BY DEF ScreenInv, ScreenTypes
<1>2. /\ trail' \in [Party -> SUBSET Nat] /\ ledgerNow \in trail'[p]
      /\ \A q \in Party : q # p => trail'[q] = trail[q]
  BY <1>1 DEF Audit
<1>3. /\ stored' \in [Party -> SUBSET Result] /\ stored'[p] = {s}
      /\ \A q \in Party : q # p => stored'[q] = stored[q]
  BY <1>1
<1>4. ScreenTypes'
  BY <1>2, <1>3 DEF ScreenInv, ScreenTypes
<1>5. ASSUME NEW q \in Party PROVE ResultSound(q)'
  <2>1. CASE q = p
    BY <2>1, <1>1, <1>2, <1>3 DEF ResultSound
  <2>2. CASE q # p
    BY <2>2, <1>2, <1>3 DEF ScreenInv, ResultSound
  <2> QED
    BY <2>1, <2>2
<1>6. AnswersTold'
  BY DEF ScreenInv, AnswersTold
<1> QED
  BY <1>4, <1>5, <1>6 DEF ScreenInv

\* The oracle's word replaces what was stored.
LEMMA UpdateRiskScoreKeeps ==
  ASSUME ScreenInv, NEW p \in Party, NEW score \in Score, UpdateRiskScore(p, score),
         UNCHANGED <<ledgerNow, screens>>
  PROVE  ScreenInv'
<1> DEFINE s == [score |-> score, at |-> ledgerNow]
<1>1. /\ score \in 0 .. 100 /\ ledgerNow \in Nat /\ ledgerNow <= ledgerNow
      /\ said \in [Party -> [score : 0 .. 100, at : Nat]]
  BY ScreeningAssumption DEF ScreenInv, ScreenTypes
<1>2. s \in Result /\ s \in [score : 0 .. 100, at : Nat]
  BY <1>1 DEF Result
<1>3. /\ said' \in [Party -> [score : 0 .. 100, at : Nat]] /\ said'[p] = s
      /\ \A q \in Party : q # p => said'[q] = said[q]
  BY <1>1, <1>2 DEF UpdateRiskScore
<1> QED
  BY <1>1, <1>2, <1>3, ResultKeeps DEF UpdateRiskScore, Remembers

\* What is stored anew is what was fresh, or nothing.
LEMMA ScreenOnLedgerKeeps ==
  ASSUME ScreenInv, NEW p \in Party, ScreenOnLedger(p), UNCHANGED <<ledgerNow, screens>>
  PROVE  ScreenInv'
<1> DEFINE s == [score |-> Merged(p), at |-> ledgerNow]
<1>1. /\ ScreenTypes /\ ResultSound(p) /\ ledgerNow \in Nat
      /\ said \in [Party -> [score : 0 .. 100, at : Nat]] /\ said[p].at <= ledgerNow
  BY DEF ScreenInv, ScreenTypes, ResultSound
<1>2. /\ Merged(p) \in Nat /\ ~Blocked(p) /\ ~(Merged(p) > HIGH_RISK_THRESHOLD)
      /\ Merged(p) \in {0, said[p].score}
      /\ ~(said[p].score > HIGH_RISK_THRESHOLD /\ ledgerNow - said[p].at <= Staleness)
  BY <1>1, MergedIs, RefusalIs DEF ScreenOnLedger, Commits
<1>3. s \in Result
  BY <1>1, <1>2 DEF Result
<1>4. Remembers(s, said[p], ledgerNow)
  <2>1. said[p].at \in Nat /\ Staleness \in Nat
    BY <1>1, ScreeningAssumption
  <2>2. /\ said[p].score > HIGH_RISK_THRESHOLD => ledgerNow - said[p].at > Staleness
        /\ Merged(p) <= HIGH_RISK_THRESHOLD
    BY <2>1, <1>1, <1>2 DEF HIGH_RISK_THRESHOLD
  <2> QED
    BY <1>2, <2>2 DEF Remembers
<1>5. \A q \in Party : said'[q] = said[q]
  BY DEF ScreenOnLedger
<1> QED
  BY <1>1, <1>3, <1>4, <1>5, ResultKeeps DEF ScreenOnLedger

\* Every call of the contract.
LEMMA LedgerCallKeeps == ASSUME ScreenInv, LedgerCall PROVE ScreenInv'
<1>1. UNCHANGED <<ledgerNow, screens>> /\ lists \in [List -> [known : BOOLEAN, active : BOOLEAN, entries : SUBSET Party]]
  BY DEF LedgerCall, Update, ScreenInv, ScreenTypes
<1>2. ASSUME NEW l \in List,
             UpdateList(l) \/ LoadListEntries(l) \/ DeactivateSanctionsList(l)
                \/ (\E p \in Party : AddToSanctionsList(l, p) \/ RemoveFromSanctionsList(l, p))
                \/ BatchAddToSanctionsList(l, Party)
      PROVE  ScreenInv'
  <2>1. lists' \in [List -> [known : BOOLEAN, active : BOOLEAN, entries : SUBSET Party]]
    <3>1. CASE UpdateList(l)
      BY <1>1, <3>1 DEF UpdateList
    <3>2. CASE LoadListEntries(l)
      BY <1>1, <3>2 DEF LoadListEntries
    <3>3. CASE DeactivateSanctionsList(l)
      BY <1>1, <3>3 DEF DeactivateSanctionsList
    <3>4. ASSUME NEW p \in Party, AddToSanctionsList(l, p) PROVE lists' \in [List -> [known : BOOLEAN, active : BOOLEAN, entries : SUBSET Party]]
      BY <1>1, <3>4 DEF AddToSanctionsList
    <3>5. ASSUME NEW p \in Party, RemoveFromSanctionsList(l, p) PROVE lists' \in [List -> [known : BOOLEAN, active : BOOLEAN, entries : SUBSET Party]]
      BY <1>1, <3>5 DEF RemoveFromSanctionsList
    <3>6. CASE BatchAddToSanctionsList(l, Party)
      BY <1>1, <3>6 DEF BatchAddToSanctionsList
    <3> QED
      BY <1>2, <3>1, <3>2, <3>3, <3>4, <3>5, <3>6
  <2>2. UNCHANGED <<stored, said>>
    BY <1>2 DEF UpdateList, LoadListEntries, DeactivateSanctionsList, AddToSanctionsList,
                RemoveFromSanctionsList, BatchAddToSanctionsList
  <2>3. \E parties \in SUBSET Party : Audit(parties) \/ UNCHANGED trail
    BY <1>2 DEF UpdateList, LoadListEntries, DeactivateSanctionsList, AddToSanctionsList,
                RemoveFromSanctionsList, BatchAddToSanctionsList
  <2> QED
    BY <1>1, <2>1, <2>2, <2>3, ListsKeep
<1>3. ASSUME NEW p \in Party, FileReport(p) PROVE ScreenInv'
  BY <1>1, <1>3, ListsKeep DEF FileReport
<1> QED
  BY <1>1, <1>2, <1>3, UpdateRiskScoreKeeps, ScreenOnLedgerKeeps DEF LedgerCall

\* Time goes on, and scores get too old.
LEMMA TimeTicksKeeps == ASSUME ScreenInv, TimeTicks PROVE ScreenInv'
<1>1. ledgerNow \in Nat /\ ledgerNow' = ledgerNow + 1 /\ Staleness \in Nat
  BY ScreeningAssumption DEF TimeTicks, ScreenInv, ScreenTypes
<1>2. ScreenTypes'
  BY <1>1 DEF TimeTicks, ScreenInv, ScreenTypes
<1>3. ASSUME NEW p \in Party PROVE ResultSound(p)'
  <2>1. said[p].at \in Nat /\ \A s \in stored[p] : s.at \in Nat
    BY DEF ScreenInv, ScreenTypes, Result
  <2>2. ResultSound(p) /\ stored'[p] = stored[p] /\ said'[p] = said[p] /\ trail'[p] = trail[p]
    BY DEF ScreenInv, TimeTicks
  <2>3. ASSUME NEW s \in stored[p]
        PROVE  s.at \in trail[p] /\ s.at <= ledgerNow' /\ Remembers(s, said[p], ledgerNow')
    <3>1. s.at \in trail[p] /\ s.at <= ledgerNow /\ Remembers(s, said[p], ledgerNow)
      BY <2>2 DEF ResultSound
    <3>2. s.at \in Nat /\ s.at <= ledgerNow'
      BY <2>1, <3>1, <1>1
    <3>3. ledgerNow - said[p].at > Staleness => ledgerNow' - said[p].at > Staleness
      BY <2>1, <1>1
    <3> QED
      BY <3>1, <3>2, <3>3, Zenon DEF Remembers
  <2>4. said[p].at <= ledgerNow'
    BY <2>1, <2>2, <1>1 DEF ResultSound
  <2> QED
    BY <2>2, <2>3, <2>4 DEF ResultSound
<1>4. AnswersTold'
  BY DEF TimeTicks, ScreenInv, AnswersTold
<1> QED
  BY <1>2, <1>3, <1>4 DEF ScreenInv

-----------------------------------------------------------------------------
(* The client. *)

\* A call of the client goes on, and what it has is told.
LEMMA ScreenCallKeeps ==
  ASSUME ScreenInv, UNCHANGED ContractState, NEW c \in ScreenCall, NEW x,
         x \in [kind : {"none", "screening", "sanctions-clear"}, at : {"new", "asked", "screen", "threw", "returned"},
                open : SUBSET Party, answers : SUBSET ScreenAnswers],
         screens' = [screens EXCEPT ![c] = x],
         \A a \in x.answers : Told(a),
         x.kind = "sanctions-clear" /\ x.at = "returned" => \A a \in x.answers : a.status # "blocked"
  PROVE  ScreenInv'
<1>1. ScreenTypes'
  BY DEF ScreenInv, ScreenTypes, ContractState
<1>2. \A p \in Party : ResultSound(p)'
  BY DEF ScreenInv, ResultSound, ContractState
<1>3. AnswersTold'
  BY DEF ScreenInv, ScreenTypes, AnswersTold
<1> QED
  BY <1>1, <1>2, <1>3 DEF ScreenInv

\* A call of the client begins, with the parties it will ask for.
LEMMA ScreensKeeps ==
  ASSUME ScreenInv, NEW c \in ScreenCall, NEW kind \in {"screening", "sanctions-clear"},
         NEW first \in {"asked", "screen"}, NEW parties \in SUBSET Party,
         Screens(c, kind, first, parties)
  PROVE  ScreenInv'
<1> DEFINE x == [kind |-> kind, at |-> first, open |-> parties, answers |-> {}]
<1>1. x \in [kind : {"none", "screening", "sanctions-clear"}, at : {"new", "asked", "screen", "threw", "returned"},
             open : SUBSET Party, answers : SUBSET ScreenAnswers]
  OBVIOUS
<1>2. x.answers = {} /\ x.at = first
  OBVIOUS
<1>3. screens' = [screens EXCEPT ![c] = x] /\ UNCHANGED ContractState
  BY DEF Screens
<1>4. \E y : y = x
  OBVIOUS
<1> HIDE DEF x
<1> QED
  BY <1>1, <1>2, <1>3, ScreenCallKeeps

\* The question to the contract fails.
LEMMA AskedFailsKeeps ==
  ASSUME ScreenInv, NEW c \in ScreenCall, AskedFails(c)
  PROVE  ScreenInv'
<1>1. PICK x : x = [screens[c] EXCEPT !.at = "screen"]
  OBVIOUS
<1>2. /\ x \in [kind : {"none", "screening", "sanctions-clear"}, at : {"new", "asked", "screen", "threw", "returned"},
                open : SUBSET Party, answers : SUBSET ScreenAnswers]
      /\ x.answers = screens[c].answers /\ x.at = "screen"
  BY <1>1 DEF ScreenInv, ScreenTypes
<1>3. screens' = [screens EXCEPT ![c] = x]
  BY <1>1 DEF AskedFails
<1>4. \A a \in x.answers : Told(a)
  BY <1>2 DEF ScreenInv, AnswersTold
<1> QED
  BY <1>2, <1>3, <1>4, ScreenCallKeeps DEF AskedFails

\* A call receives an answer of the contract about a party.
LEMMA ReceivesKeeps ==
  ASSUME ScreenInv, NEW c \in ScreenCall, NEW p \in Party, NEW answer \in ScreenAnswers, Told(answer),
         Receives(c, p, answer)
  PROVE  ScreenInv'
<1>1. PICK x : x = [screens[c] EXCEPT !.open = @ \ {p}, !.answers = @ \cup {answer}]
  OBVIOUS
<1>2. /\ x \in [kind : {"none", "screening", "sanctions-clear"}, at : {"new", "asked", "screen", "threw", "returned"},
                open : SUBSET Party, answers : SUBSET ScreenAnswers]
      /\ x.answers = screens[c].answers \cup {answer} /\ x.at = "screen"
  BY <1>1 DEF ScreenInv, ScreenTypes, Receives
<1>3. screens' = [screens EXCEPT ![c] = x]
  BY <1>1 DEF Receives, ScreenInv, ScreenTypes
<1>4. \A a \in x.answers : Told(a)
  BY <1>2 DEF ScreenInv, AnswersTold
<1> QED
  BY <1>2, <1>3, <1>4, ScreenCallKeeps DEF Receives

\* A screening is simulated: an answer, and nothing is stored.
LEMMA ScreeningSimulatedKeeps ==
  ASSUME ScreenInv, NEW c \in ScreenCall, NEW p \in Party, ScreeningSimulated(c, p)
  PROVE  ScreenInv'
<1>1. ScreenTypes /\ ResultSound(p)
  BY DEF ScreenInv
<1>2. /\ Merged(p) \in Nat /\ Refusal(p) \in {"AddressBlocked", "HighRisk", "none"}
      /\ Blocked(p) => Refusal(p) = "AddressBlocked"
  BY <1>1, MergedIs, RefusalIs
<1>3. CASE Refusal(p) = "none"
  <2>1. PICK a : a = ScreenAnswer(p, "clear", Merged(p), FALSE)
    OBVIOUS
  <2>2. /\ a \in ScreenAnswers /\ a.status = "clear" /\ a.score = Merged(p)
        /\ a.refusal = Refusal(p) /\ a.listed = Blocked(p) /\ a.merged = Merged(p)
    BY <2>1, <1>2 DEF ScreenAnswer, ScreenAnswers, Blocked
  <2>3. Told(a)
    BY <2>2, <1>2, <1>3 DEF Told
  <2> QED
    BY <2>1, <2>2, <2>3, <1>3, ReceivesKeeps DEF ScreeningSimulated
<1>4. CASE Refusal(p) # "none"
  <2>1. PICK has1 \in BOOLEAN :
            Receives(c, p, ScreenAnswer(p, StatusOf(Refusal(p), has1), ScoreOf(StatusOf(Refusal(p), has1)), FALSE))
    BY <1>4 DEF ScreeningSimulated
  <2>2. PICK status : status = StatusOf(Refusal(p), has1)
    OBVIOUS
  <2>3. status \in {"blocked", "suspicious"} /\ (Blocked(p) => status = "blocked")
    BY <1>2, <1>4, <2>2 DEF StatusOf
  <2>4. ScoreOf(status) \in Nat
    BY <2>3 DEF ScoreOf
  <2>5. PICK a : a = ScreenAnswer(p, status, ScoreOf(status), FALSE)
    OBVIOUS
  <2>6. /\ a \in ScreenAnswers /\ a.status = status
        /\ a.refusal = Refusal(p) /\ a.listed = Blocked(p)
    BY <1>2, <2>3, <2>4, <2>5 DEF ScreenAnswer, ScreenAnswers, Blocked
  <2>7. Told(a)
    BY <2>6, <2>3, <1>4 DEF Told
  <2> QED
    BY <2>1, <2>2, <2>5, <2>6, <2>7, ReceivesKeeps
<1> QED
  BY <1>3, <1>4

\* One screening of several fails.
LEMMA ScreeningFailsKeeps ==
  ASSUME ScreenInv, NEW c \in ScreenCall, NEW p \in Party, ScreeningFails(c, p)
  PROVE  ScreenInv'
<1>1. PICK status \in {"blocked", "suspicious", "clear"} :
          Receives(c, p, ScreenAnswer(p, status, ScoreOf(status), TRUE))
  BY DEF ScreeningFails
<1>2. ScoreOf(status) \in Nat
  BY DEF ScoreOf
<1>3. PICK a : a = ScreenAnswer(p, status, ScoreOf(status), TRUE)
  OBVIOUS
<1>4. a \in ScreenAnswers /\ a.failed
  <2>1. ScreenTypes /\ ResultSound(p)
    BY DEF ScreenInv
  <2>2. Merged(p) \in Nat /\ Refusal(p) \in {"AddressBlocked", "HighRisk", "none"}
    BY <2>1, MergedIs, RefusalIs
  <2> QED
    BY <1>2, <1>3, <2>2 DEF ScreenAnswer, ScreenAnswers, Blocked
<1> QED
  BY <1>1, <1>3, <1>4, ReceivesKeeps DEF Told

\* A call returns what it was told.
LEMMA ScreenReturnsKeeps ==
  ASSUME ScreenInv, NEW c \in ScreenCall, ScreenReturns(c)
  PROVE  ScreenInv'
<1>1. PICK at : at = IF /\ screens[c].kind = "sanctions-clear"
                        /\ \E a \in screens[c].answers : a.status = "blocked"
                     THEN "threw" ELSE "returned"
  OBVIOUS
<1>2. PICK x : x = [screens[c] EXCEPT !.at = at]
  OBVIOUS
<1>3. /\ x \in [kind : {"none", "screening", "sanctions-clear"}, at : {"new", "asked", "screen", "threw", "returned"},
                open : SUBSET Party, answers : SUBSET ScreenAnswers]
      /\ x.answers = screens[c].answers /\ x.at = at /\ x.kind = screens[c].kind
  BY <1>1, <1>2 DEF ScreenInv, ScreenTypes
<1>4. screens' = [screens EXCEPT ![c] = x]
  BY <1>1, <1>2 DEF ScreenReturns
<1>5. \A a \in x.answers : Told(a)
  BY <1>3 DEF ScreenInv, AnswersTold
<1>6. x.kind = "sanctions-clear" /\ x.at = "returned" => \A a \in x.answers : a.status # "blocked"
  BY <1>1, <1>3
<1> QED
  BY <1>3, <1>4, <1>5, <1>6, ScreenCallKeeps DEF ScreenReturns

\* Each step of screenings, contract and clock keeps the invariant.
LEMMA ScreenStep == ASSUME ScreenInv, [ScreenNext]_screenVars PROVE ScreenInv'
<1>1. CASE UNCHANGED screenVars
  BY <1>1 DEF screenVars, ScreenInv, ScreenTypes, ResultSound, AnswersTold
<1>2. ASSUME NEW c \in ScreenCall, NEW p \in Party,
             \/ ScreenAddress(c, p) \/ ScreenDID(c, p) \/ GenerateComplianceReport(c, p)
             \/ ProveComplianceStatus(c, p) \/ \E q \in Party : ScreenTransaction(c, p, q)
      PROVE  ScreenInv'
  <2>1. \E kind \in {"screening", "sanctions-clear"}, first \in {"asked", "screen"},
           parties \in SUBSET Party : Screens(c, kind, first, parties)
    BY <1>2 DEF ScreenAddress, ScreenDID, GenerateComplianceReport, ProveComplianceStatus,
                ScreenTransaction
  <2> QED
    BY <2>1, ScreensKeeps
<1> QED
  BY <1>1, <1>2, LedgerCallKeeps, TimeTicksKeeps, ScreeningSimulatedKeeps, ScreeningFailsKeeps,
     AskedFailsKeeps, ScreenReturnsKeeps DEF ScreenNext

\* The invariant of screening.
LEMMA ScreenInvariance == ScreenSpec => []ScreenInv
<1>1. ASSUME ScreenInit PROVE ScreenInv
  <2>1. ScreenTypes
    BY <1>1 DEF ScreenInit, ScreenTypes, NotScreening
  <2>2. ASSUME NEW p \in Party PROVE ResultSound(p)
    BY <1>1 DEF ScreenInit, ResultSound
  <2>3. AnswersTold
    BY <1>1 DEF ScreenInit, AnswersTold, NotScreening
  <2> QED
    BY <2>1, <2>2, <2>3 DEF ScreenInv
<1> QED
  BY <1>1, ScreenStep, PTL DEF ScreenSpec

\* For any parties, lists, scores and calls the contract refuses exactly whom an active
\* list names or an oracle's last word, not too old, puts above the threshold, however
\* often screenings store their own result over it; and what the SDK tells of a party is
\* what the contract held when asked, if the request did not fail: the filter keeps one
\* result per party, written by oracles and by screenings alike, and compliance.ts reads
\* a refusal out of an error's text.
THEOREM AlarmsAlwaysExact == ScreenSpec => []AlarmsExact
<1>1. ASSUME ScreenInv PROVE AlarmsExact
  <2>1. ASSUME NEW p \in Party
        PROVE  /\ Refusal(p) # "none" <=>
                     \/ Blocked(p)
                     \/ said[p].score > HIGH_RISK_THRESHOLD /\ ledgerNow - said[p].at <= Staleness
               /\ ~Blocked(p) => Merged(p) \in {0, said[p].score}
               /\ \A s \in stored[p] : s.at \in trail[p]
    <3>1. ScreenTypes /\ ResultSound(p)
      BY <1>1 DEF ScreenInv
    <3>2. \A s \in stored[p] : s.at \in trail[p]
      BY <3>1 DEF ResultSound
    <3>3. /\ ~Blocked(p) => Merged(p) \in {0, said[p].score}
          /\ ~Blocked(p) => (Merged(p) > HIGH_RISK_THRESHOLD <=>
                said[p].score > HIGH_RISK_THRESHOLD /\ ledgerNow - said[p].at <= Staleness)
      BY <3>1, MergedIs
    <3>4. Refusal(p) = "none" <=> ~Blocked(p) /\ ~(Merged(p) > HIGH_RISK_THRESHOLD)
      BY <3>1, RefusalIs
    <3> QED
      BY <3>2, <3>3, <3>4, Zenon
  <2>2. ASSUME NEW c \in ScreenCall, NEW a \in screens[c].answers, ~a.failed
        PROVE  /\ a.status = "clear" <=> a.refusal = "none"
               /\ a.status = "clear" => a.score = a.merged
               /\ (screens[c].kind = "sanctions-clear" /\ screens[c].at = "returned") => ~a.listed
    BY <1>1, <2>2 DEF ScreenInv, AnswersTold, Told
  <2> QED
    BY <2>1, <2>2 DEF AlarmsExact
<1> QED
  BY <1>1, ScreenInvariance, PTL
=============================================================================
