----------------------------- MODULE RetryBreaker -----------------------------
(***************************************************************************)
(* withRetryAndCircuitBreaker of src/sdk/src/retry.ts: one CircuitBreaker  *)
(* shared by several calls in flight, each of which is a retry loop.  What *)
(* is awaited - an attempt or the sleep before the next one - ends in any  *)
(* order, so answers of calls admitted in one state of the circuit arrive  *)
(* in another.  A segment between two awaits is one action.                *)
(*                                                                         *)
(* Delays are left out: a sleep may end at any time, and of openedAt only  *)
(* whether resetTimeoutMs has passed since is kept.                        *)
(***************************************************************************)
EXTENDS Naturals

CONSTANTS
    Call,               \* calls that may be in flight at once
    MaxAttempts,        \* RetryOptions.maxAttempts
    FailureThreshold, SuccessThreshold,
    MaxOutages,         \* bound: how often the service fails again
    MaxResets           \* bound: calls of reset

ASSUME BreakerAssumption ==
    /\ {MaxAttempts, FailureThreshold, SuccessThreshold} \subseteq Nat \ {0}
    /\ MaxOutages \in Nat /\ MaxResets \in Nat

VARIABLES
    circuit,            \* state
    failures, successes,
    openedAt,           \* "null", "recent", or "past": resetTimeoutMs is over
    attempt,            \* per call: 0, or the attempt made or slept for
    awaits,             \* per call: "none", "fn" or "sleep"
    healthy,            \* whether attempts succeed
    outages, resets,    \* counted for the bounds
    heard,              \* history: failures in a row, and successes in a row since the trials
                        \* began, as far as the thresholds
    begunOpen           \* history: per call, the attempts begun since the circuit opened

breaker == <<circuit, failures, successes, openedAt>>
loops == <<attempt, awaits>>
service == <<healthy, outages, resets>>
breakerVars == <<breaker, loops, service, heard, begunOpen>>

NothingBegun == [c \in Call |-> 0]

BreakerInit ==
    /\ circuit = "closed"
    /\ failures = 0 /\ successes = 0
    /\ openedAt = "null"
    /\ attempt = [c \in Call |-> 0]
    /\ awaits = [c \in Call |-> "none"]
    /\ healthy = FALSE
    /\ outages = 0 /\ resets = 0
    /\ heard = [failed |-> 0, succeeded |-> 0] /\ begunOpen = NothingBegun

-----------------------------------------------------------------------------
Loop(c, n, what) ==
    /\ attempt' = [attempt EXCEPT ![c] = n]
    /\ awaits' = [awaits EXCEPT ![c] = what]

UpTo(limit, n) == IF n < limit THEN n + 1 ELSE limit

\* failures is compared with >=; it counts on while the circuit is open.
CountedFailure == IF failures <= FailureThreshold THEN failures + 1 ELSE failures

\* Fault: the circuit opens without noting when (BreakerRecovers).
OpenedAtTrip_Kept == openedAt
OpenedAtTrip == "recent"

OnFailure ==
    /\ heard' = [failed |-> UpTo(FailureThreshold, heard.failed), succeeded |-> 0]
    /\ begunOpen' = IF circuit = "open" THEN begunOpen ELSE NothingBegun
    /\ successes' = 0
    /\ failures' = CountedFailure
    /\ IF \/ circuit = "closed" /\ failures + 1 >= FailureThreshold
          \/ circuit = "half-open"
       THEN circuit' = "open" /\ openedAt' = OpenedAtTrip
       ELSE UNCHANGED <<circuit, openedAt>>

\* Fault: failures are forgotten only while the circuit is closed (CircuitSound).
ForgetFailures_Closed == IF circuit = "closed" THEN 0 ELSE failures
ForgetFailures == 0

OnSuccess ==
    /\ heard' = [failed |-> 0, succeeded |-> UpTo(SuccessThreshold, heard.succeeded)]
    /\ failures' = ForgetFailures
    /\ IF circuit # "half-open" THEN UNCHANGED <<circuit, successes>>
       ELSE IF successes + 1 >= SuccessThreshold
            THEN successes' = 0 /\ circuit' = "closed"
            ELSE successes' = successes + 1 /\ UNCHANGED circuit
    /\ UNCHANGED <<openedAt, begunOpen>>

\* execute: refused while open, let through as a trial once the reset timeout is over.
Admit(c) ==
    /\ awaits[c] = "none"
    /\ ~(circuit = "open" /\ openedAt # "past")
    /\ IF circuit = "open"
       THEN /\ circuit' = "half-open"
            /\ heard' = [heard EXCEPT !.succeeded = 0] /\ begunOpen' = NothingBegun
       ELSE UNCHANGED <<circuit, heard, begunOpen>>
    /\ Loop(c, 1, "fn")
    /\ UNCHANGED <<failures, successes, openedAt, service>>

AttemptSucceeds(c) ==
    /\ awaits[c] = "fn" /\ healthy
    /\ OnSuccess
    /\ Loop(c, 0, "none")
    /\ UNCHANGED service

\* A retryable error before the last attempt.
AttemptRetried(c) ==
    /\ awaits[c] = "fn" /\ ~healthy
    /\ attempt[c] < MaxAttempts
    /\ Loop(c, attempt[c], "sleep")
    /\ UNCHANGED <<breaker, service, heard, begunOpen>>

\* The last attempt fails, or one with an error that is not retryable.
CallFails(c) ==
    /\ awaits[c] = "fn" /\ ~healthy
    /\ OnFailure
    /\ Loop(c, 0, "none")
    /\ UNCHANGED service

\* The loop does not ask the breaker again.
SleepEnds(c) ==
    /\ awaits[c] = "sleep"
    /\ Loop(c, attempt[c] + 1, "fn")
    /\ begunOpen' = IF circuit = "open" THEN [begunOpen EXCEPT ![c] = @ + 1] ELSE begunOpen
    /\ UNCHANGED <<breaker, service, heard>>

Reset ==
    /\ resets < MaxResets /\ resets' = resets + 1
    /\ circuit' = "closed"
    /\ failures' = 0 /\ successes' = 0
    /\ openedAt' = "null"
    /\ heard' = [failed |-> 0, succeeded |-> 0] /\ begunOpen' = NothingBegun
    /\ UNCHANGED <<loops, healthy, outages>>

ResetTimeoutPasses ==
    /\ openedAt = "recent"
    /\ openedAt' = "past"
    /\ UNCHANGED <<circuit, failures, successes, loops, service, heard, begunOpen>>

ServiceRecovers ==
    /\ ~healthy /\ healthy' = TRUE
    /\ UNCHANGED <<breaker, loops, outages, resets, heard, begunOpen>>
ServiceFails ==
    /\ healthy /\ outages < MaxOutages
    /\ healthy' = FALSE /\ outages' = outages + 1
    /\ UNCHANGED <<breaker, loops, resets, heard, begunOpen>>

BreakerNext ==
    \/ \E c \in Call :
          \/ Admit(c) \/ AttemptSucceeds(c) \/ AttemptRetried(c) \/ CallFails(c)
          \/ SleepEnds(c)
    \/ Reset \/ ResetTimeoutPasses
    \/ ServiceRecovers \/ ServiceFails

BreakerSpec == BreakerInit /\ [][BreakerNext]_breakerVars

\* The steps that never fail to come: an answer, successful or not, to an attempt.
\* With calls that keep coming, sleeps that end and time that passes, they are fair
\* (SdkFairness of MCSdk); the service need not recover.
Answered(c) == AttemptSucceeds(c) \/ AttemptRetried(c) \/ CallFails(c)

-----------------------------------------------------------------------------
\* A closed circuit opens at the threshold of failures in a row and not before, none of them
\* from before it closed; one that is open or tried out closes by a reset, or by that many
\* successes in a row since the trials began.  A late answer counts like any other: it is
\* the number that no order of answers gets around (onFailure, onSuccess).
TransitionsEarned ==
    /\ circuit = "closed" /\ circuit' = "open" => heard'.failed = FailureThreshold
    /\ circuit # "closed" /\ circuit' = "closed" =>
          /\ heard'.failed = 0
          /\ \/ resets' # resets
             \/ circuit = "half-open" /\ heard'.succeeded = SuccessThreshold
    /\ circuit' = "closed" => heard'.failed < FailureThreshold

\* The loops that were under way when the circuit opened are not stopped, but what reaches
\* the service of each of them is fewer than MaxAttempts attempts more (execute, withRetry).
LoadBounded == \A c \in Call : begunOpen[c] < MaxAttempts

\* The circuit moves for the reasons it has thresholds for, and shields the service while open.
CircuitSound == [][LoadBounded' /\ TransitionsEarned]_breakerVars

\* Once the service is up for good, the circuit closes and stays closed, whatever
\* late failures and reopenings came before.
BreakerRecovers == <>[]healthy => <>[](circuit = "closed")
=============================================================================
