------------------------------- MODULE RateLimit -------------------------------
(***************************************************************************)
(* The arithmetic of check_rate_limit (src/src/rate_limiter.rs), shared by *)
(* every contract that limits a function: a bucket counts the calls made   *)
(* since its window started, and starts over once the window has passed.   *)
(***************************************************************************)
EXTENDS Naturals

Bucket == [count : Nat, start : Nat]

\* Fault: the window starts over one second early (LimitKept).
WindowOver_Early(b, time, window) == time - b.start >= window - 1
WindowOver(b, time, window) == time - b.start >= window

\* The bucket a call at that time finds; the key may be absent.
CurrentBucket(present, b, time, window) ==
    IF present /\ ~WindowOver(b, time, window) THEN b ELSE [count |-> 0, start |-> time]

\* Fault: the limit itself is let through (LimitKept).
Admits_AtLimit(b, n, max) == b.count + n <= max + 1
\* n calls at one time are all let through.
Admits(b, n, max) == b.count + n <= max

AfterCalls(b, n) == [b EXCEPT !.count = @ + n]
=============================================================================
