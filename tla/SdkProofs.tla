----------------------------- MODULE SdkProofs ------------------------------
(***************************************************************************)
(* What holds of the modules of the SDK for any number of calls,           *)
(* subscriptions, documents and sockets, in whatever order answers arrive. *)
(***************************************************************************)
EXTENDS RetryBreaker, RegistryClients, EventConnection, EventDelivery, ClientReads,
        GdprConsents, DidEdits, NetworkMonitor, LoggerTree, PayloadBatches,
        SequenceTheorems, SumProofs, FiniteSetTheorems, TLAPS

-----------------------------------------------------------------------------
(***************************************************************************)
(* RetryBreaker: the circuit moves for the reasons it has thresholds for.  *)
(***************************************************************************)
BreakerTypes ==
    /\ circuit \in {"closed", "open", "half-open"}
    /\ failures \in Nat /\ successes \in Nat /\ resets \in Nat
    /\ heard \in [failed : Nat, succeeded : Nat]
    /\ attempt \in [Call -> 0 .. MaxAttempts]
    /\ awaits \in [Call -> {"none", "fn", "sleep"}]
    /\ begunOpen \in [Call -> Nat]

\* The counts of the circuit are of what was heard, and are of its state.
CountsHeard ==
    /\ circuit = "closed" => failures < FailureThreshold /\ failures = heard.failed
    /\ circuit = "half-open" => successes < SuccessThreshold /\ successes = heard.succeeded
    /\ circuit # "half-open" => successes = 0

\* A loop under way has begun one attempt before the circuit opened.
AttemptsLeft ==
    \A c \in Call :
        /\ begunOpen[c] < MaxAttempts
        /\ awaits[c] # "none" => attempt[c] > begunOpen[c]
        /\ awaits[c] = "sleep" => attempt[c] < MaxAttempts
        /\ circuit # "open" => begunOpen[c] = 0

BreakerInv == BreakerTypes /\ CountsHeard /\ AttemptsLeft

\* A count up to a limit.
LEMMA UpToNat ==
  ASSUME NEW limit \in Nat, NEW n \in Nat
  PROVE  /\ UpTo(limit, n) \in Nat
         /\ n < limit => UpTo(limit, n) = n + 1
BY DEF UpTo

\* What a step that hears an answer of c, or none, leaves of the calls.
LEMMA LoopKeeps ==
  ASSUME BreakerInv, NEW c \in Call, Loop(c, 0, "none"),
         circuit' \in {"closed", "open", "half-open"},
         \/ begunOpen' = begunOpen /\ (circuit' # "open" => circuit # "open")
         \/ begunOpen' = NothingBegun
  PROVE  /\ AttemptsLeft'
         /\ attempt' \in [Call -> 0 .. MaxAttempts]
         /\ awaits' \in [Call -> {"none", "fn", "sleep"}]
         /\ begunOpen' \in [Call -> Nat]
<1> USE DEF BreakerInv, BreakerTypes
<1>1. /\ attempt' \in [Call -> 0 .. MaxAttempts]
      /\ awaits' \in [Call -> {"none", "fn", "sleep"}]
      /\ awaits'[c] = "none"
      /\ \A d \in Call \ {c} : awaits'[d] = awaits[d] /\ attempt'[d] = attempt[d]
  BY BreakerAssumption DEF Loop
<1>2. begunOpen' \in [Call -> Nat]
  BY DEF NothingBegun
<1>3. \A d \in Call : begunOpen'[d] = begunOpen[d] \/ begunOpen'[d] = 0
  BY DEF NothingBegun
<1>4. \A d \in Call : circuit' # "open" => begunOpen'[d] = 0
  BY DEF NothingBegun, AttemptsLeft
<1> QED
  BY <1>1, <1>2, <1>3, <1>4, BreakerAssumption, SMT DEF AttemptsLeft

\* A call fails: the failure is counted, and the circuit opens at the threshold or when
\* it is tried out.
LEMMA OnFailureKeeps ==
  ASSUME BreakerInv, NEW c \in Call, OnFailure, Loop(c, 0, "none"), resets' = resets
  PROVE  BreakerInv' /\ TransitionsEarned
<1> USE DEF BreakerInv, BreakerTypes
<1>0. heard.failed \in Nat /\ FailureThreshold \in Nat /\ SuccessThreshold \in Nat
      /\ FailureThreshold > 0 /\ SuccessThreshold > 0
  BY BreakerAssumption
<1>1. /\ failures' \in Nat /\ successes' = 0
      /\ heard' \in [failed : Nat, succeeded : Nat]
      /\ heard'.succeeded = 0
      /\ heard.failed < FailureThreshold => heard'.failed = heard.failed + 1
  BY <1>0, UpToNat DEF OnFailure, CountedFailure
<1>2. CASE (circuit = "closed" /\ failures + 1 >= FailureThreshold) \/ circuit = "half-open"
  <2>1. circuit' = "open" /\ begunOpen' = NothingBegun
    BY <1>2 DEF OnFailure
  <2>2. AttemptsLeft' /\ attempt' \in [Call -> 0 .. MaxAttempts]
        /\ awaits' \in [Call -> {"none", "fn", "sleep"}] /\ begunOpen' \in [Call -> Nat]
    BY <2>1, LoopKeeps
  <2>3. circuit = "closed" => heard'.failed = FailureThreshold
    BY <1>0, <1>1, <1>2, SMT DEF CountsHeard
  <2> QED
    BY <1>1, <2>1, <2>2, <2>3 DEF CountsHeard, TransitionsEarned
<1>3. CASE ~((circuit = "closed" /\ failures + 1 >= FailureThreshold) \/ circuit = "half-open")
  <2>1. circuit' = circuit
    BY <1>3 DEF OnFailure
  <2>2. AttemptsLeft' /\ attempt' \in [Call -> 0 .. MaxAttempts]
        /\ awaits' \in [Call -> {"none", "fn", "sleep"}] /\ begunOpen' \in [Call -> Nat]
    BY <2>1, LoopKeeps DEF OnFailure
  <2>3. circuit = "closed" => failures' < FailureThreshold /\ failures' = heard'.failed
    BY <1>0, <1>1, <1>3, SMT DEF OnFailure, CountedFailure, CountsHeard
  <2> QED
    BY <1>1, <1>3, <2>1, <2>2, <2>3 DEF CountsHeard, TransitionsEarned
<1> QED
  BY <1>2, <1>3

\* A call succeeds: failures are forgotten, and the circuit closes after enough trials.
LEMMA OnSuccessKeeps ==
  ASSUME BreakerInv, NEW c \in Call, OnSuccess, Loop(c, 0, "none"), resets' = resets
  PROVE  BreakerInv' /\ TransitionsEarned
<1> USE DEF BreakerInv, BreakerTypes
<1>0. heard.succeeded \in Nat /\ FailureThreshold \in Nat /\ SuccessThreshold \in Nat
      /\ FailureThreshold > 0 /\ SuccessThreshold > 0
  BY BreakerAssumption
<1>1. /\ failures' = 0 /\ begunOpen' = begunOpen
      /\ heard' \in [failed : Nat, succeeded : Nat]
      /\ heard'.failed = 0
      /\ heard.succeeded < SuccessThreshold => heard'.succeeded = heard.succeeded + 1
  BY <1>0, UpToNat DEF OnSuccess, ForgetFailures
<1>2. circuit' \in {"closed", "open", "half-open"} /\ (circuit' = "open" <=> circuit = "open")
  BY DEF OnSuccess
<1>3. AttemptsLeft' /\ attempt' \in [Call -> 0 .. MaxAttempts]
      /\ awaits' \in [Call -> {"none", "fn", "sleep"}] /\ begunOpen' \in [Call -> Nat]
  BY <1>1, <1>2, LoopKeeps
<1>4. CASE circuit # "half-open"
  BY <1>0, <1>1, <1>3, <1>4 DEF OnSuccess, CountsHeard, TransitionsEarned
<1>5. CASE circuit = "half-open" /\ successes + 1 >= SuccessThreshold
  BY <1>0, <1>1, <1>3, <1>5, SMT DEF OnSuccess, CountsHeard, TransitionsEarned
<1>6. CASE circuit = "half-open" /\ ~(successes + 1 >= SuccessThreshold)
  BY <1>0, <1>1, <1>3, <1>6, SMT DEF OnSuccess, CountsHeard, TransitionsEarned
<1> QED
  BY <1>4, <1>5, <1>6

\* A call is let through, as a trial if the circuit was open.
LEMMA AdmitKeeps ==
  ASSUME BreakerInv, NEW c \in Call, Admit(c)
  PROVE  BreakerInv' /\ TransitionsEarned
<1> USE DEF BreakerInv, BreakerTypes
<1>0. MaxAttempts \in Nat /\ MaxAttempts > 0 /\ SuccessThreshold > 0 /\ SuccessThreshold \in Nat
  BY BreakerAssumption
<1>1. /\ attempt' \in [Call -> 0 .. MaxAttempts]
      /\ awaits' \in [Call -> {"none", "fn", "sleep"}]
      /\ awaits'[c] = "fn" /\ attempt'[c] = 1
      /\ \A d \in Call \ {c} : awaits'[d] = awaits[d] /\ attempt'[d] = attempt[d]
      /\ resets' = resets
  BY <1>0 DEF Admit, Loop, service
<1>2. begunOpen' \in [Call -> Nat] /\ \A d \in Call : begunOpen'[d] = 0
  BY DEF Admit, NothingBegun, AttemptsLeft
<1>3. AttemptsLeft'
  BY <1>0, <1>1, <1>2, SMT DEF AttemptsLeft
<1>4. CASE circuit = "open"
  <2>1. /\ circuit' = "half-open" /\ heard'.succeeded = 0
        /\ heard' \in [failed : Nat, succeeded : Nat]
        /\ failures' = failures /\ successes' = successes
    BY <1>4 DEF Admit
  <2>2. successes' = 0
    BY <1>4, <2>1 DEF CountsHeard
  <2> QED
    BY <1>0, <1>1, <1>2, <1>3, <1>4, <2>1, <2>2 DEF CountsHeard, TransitionsEarned
<1>5. CASE circuit # "open"
  BY <1>1, <1>2, <1>3, <1>5 DEF Admit, CountsHeard, TransitionsEarned
<1> QED
  BY <1>4, <1>5

\* An attempt fails before the last.
LEMMA RetriedKeeps ==
  ASSUME BreakerInv, NEW c \in Call, AttemptRetried(c)
  PROVE  BreakerInv' /\ TransitionsEarned
<1> USE DEF BreakerInv, BreakerTypes
<1>1. /\ attempt' = attempt
      /\ awaits' \in [Call -> {"none", "fn", "sleep"}]
      /\ awaits'[c] = "sleep" /\ awaits[c] = "fn" /\ attempt[c] < MaxAttempts
      /\ \A d \in Call \ {c} : awaits'[d] = awaits[d]
      /\ resets' = resets
  BY DEF AttemptRetried, Loop, service
<1>2. AttemptsLeft'
  BY <1>1 DEF AttemptRetried, AttemptsLeft, breaker
<1> QED
  BY <1>1, <1>2 DEF AttemptRetried, breaker, CountsHeard, TransitionsEarned

\* The next attempt of a loop is made, whatever the circuit is by then.
LEMMA SleepEndsKeeps ==
  ASSUME BreakerInv, NEW c \in Call, SleepEnds(c)
  PROVE  BreakerInv' /\ TransitionsEarned
<1> USE DEF BreakerInv, BreakerTypes
<1>0. MaxAttempts \in Nat /\ attempt[c] \in Nat /\ attempt[c] < MaxAttempts
      /\ begunOpen[c] \in Nat /\ begunOpen[c] < attempt[c]
  BY BreakerAssumption DEF SleepEnds, AttemptsLeft
<1>1. /\ attempt' \in [Call -> 0 .. MaxAttempts]
      /\ awaits' \in [Call -> {"none", "fn", "sleep"}]
      /\ awaits'[c] = "fn" /\ attempt'[c] = attempt[c] + 1
      /\ \A d \in Call \ {c} : awaits'[d] = awaits[d] /\ attempt'[d] = attempt[d]
  <2>1. attempt[c] + 1 \in 0 .. MaxAttempts
    BY <1>0, SMT
  <2> QED
    BY <2>1 DEF SleepEnds, Loop
<1>4. resets' = resets
  BY DEF SleepEnds, service
<1>2. /\ begunOpen' \in [Call -> Nat]
      /\ begunOpen'[c] \in {begunOpen[c], begunOpen[c] + 1}
      /\ \A d \in Call \ {c} : begunOpen'[d] = begunOpen[d]
      /\ circuit # "open" => begunOpen' = begunOpen
  BY <1>0 DEF SleepEnds
<1>3. AttemptsLeft'
  BY <1>0, <1>1, <1>2, SMT DEF SleepEnds, breaker, AttemptsLeft
<1> QED
  BY <1>1, <1>2, <1>3, <1>4 DEF SleepEnds, breaker, CountsHeard, TransitionsEarned

\* The circuit is reset.
LEMMA ResetKeeps ==
  ASSUME BreakerInv, Reset
  PROVE  BreakerInv' /\ TransitionsEarned
<1> USE DEF BreakerInv, BreakerTypes
<1>0. FailureThreshold \in Nat /\ FailureThreshold > 0 /\ MaxAttempts \in Nat /\ MaxAttempts > 0
  BY BreakerAssumption
<1>1. /\ circuit' = "closed" /\ failures' = 0 /\ successes' = 0
      /\ heard' = [failed |-> 0, succeeded |-> 0]
      /\ attempt' = attempt /\ awaits' = awaits
      /\ begunOpen' \in [Call -> Nat] /\ \A d \in Call : begunOpen'[d] = 0
  BY DEF Reset, loops, NothingBegun
<1>2. AttemptsLeft'
  <2> SUFFICES ASSUME NEW d \in Call
               PROVE  /\ begunOpen'[d] < MaxAttempts
                      /\ awaits'[d] # "none" => attempt'[d] > begunOpen'[d]
                      /\ awaits'[d] = "sleep" => attempt'[d] < MaxAttempts
                      /\ circuit' # "open" => begunOpen'[d] = 0
    BY DEF AttemptsLeft
  <2>1. begunOpen[d] \in Nat /\ attempt[d] \in Nat
    OBVIOUS
  <2> QED
    BY <1>0, <1>1, <2>1, SMT DEF AttemptsLeft
<1>3. resets' \in Nat /\ resets' # resets
  BY DEF Reset
<1> QED
  BY <1>0, <1>1, <1>2, <1>3 DEF CountsHeard, TransitionsEarned

\* What the service does and the time that passes move no count.
LEMMA BreakerQuiet ==
  ASSUME BreakerInv, UNCHANGED <<circuit, failures, successes, loops, resets, heard, begunOpen>>
  PROVE  BreakerInv' /\ TransitionsEarned
BY DEF loops, BreakerInv, BreakerTypes, CountsHeard, AttemptsLeft, TransitionsEarned

\* Each step of the calls keeps the invariant, and earns what the circuit does.
LEMMA BreakerStep ==
  ASSUME BreakerInv, [BreakerNext]_breakerVars
  PROVE  BreakerInv' /\ [TransitionsEarned]_breakerVars
<1>1. CASE UNCHANGED breakerVars
  BY <1>1, BreakerQuiet DEF breakerVars, breaker, loops, service
<1>2. ASSUME NEW c \in Call, AttemptSucceeds(c) PROVE BreakerInv' /\ TransitionsEarned
  <2>1. OnSuccess /\ Loop(c, 0, "none") /\ resets' = resets
    BY <1>2 DEF AttemptSucceeds, service
  <2> QED
    BY <2>1, OnSuccessKeeps
<1>3. ASSUME NEW c \in Call, CallFails(c) PROVE BreakerInv' /\ TransitionsEarned
  <2>1. OnFailure /\ Loop(c, 0, "none") /\ resets' = resets
    BY <1>3 DEF CallFails, service
  <2> QED
    BY <2>1, OnFailureKeeps
<1>4. CASE ResetTimeoutPasses \/ ServiceRecovers \/ ServiceFails
  BY <1>4, BreakerQuiet DEF ResetTimeoutPasses, ServiceRecovers, ServiceFails, breaker, service
<1> QED
  BY <1>1, <1>2, <1>3, <1>4, AdmitKeeps, RetriedKeeps, SleepEndsKeeps, ResetKeeps DEF BreakerNext

\* For any number of calls, thresholds and orders of answers, late ones included, a
\* circuit that opens has heard its threshold of failures in a row since it was last
\* closed, one that closes was reset or has heard its threshold of successes in a row
\* since the trials began, and a loop that was under way when it opened makes fewer than
\* MaxAttempts attempts more: retry.ts runs onSuccess and onFailure on one breaker for
\* answers of calls admitted in any state, and asks it once for a whole loop.
THEOREM CircuitAlwaysSound == BreakerSpec => CircuitSound
<1>1. BreakerInit => BreakerInv
  <2> SUFFICES ASSUME BreakerInit PROVE BreakerInv
    OBVIOUS
  <2>1. BreakerTypes
    BY BreakerAssumption DEF BreakerInit, BreakerTypes, NothingBegun
  <2>2. AttemptsLeft
    <3>1. MaxAttempts \in Nat /\ MaxAttempts > 0
      BY BreakerAssumption
    <3>2. \A c \in Call : begunOpen[c] = 0 /\ awaits[c] = "none"
      BY DEF BreakerInit, NothingBegun
    <3> QED
      <4> SUFFICES ASSUME NEW c \in Call
                   PROVE  /\ begunOpen[c] < MaxAttempts
                          /\ awaits[c] # "none" => attempt[c] > begunOpen[c]
                          /\ awaits[c] = "sleep" => attempt[c] < MaxAttempts
                          /\ circuit # "open" => begunOpen[c] = 0
        BY DEF AttemptsLeft
      <4>1. begunOpen[c] = 0 /\ awaits[c] = "none"
        BY <3>2
      <4> QED
        BY <3>1, <4>1
  <2>3. CountsHeard
    BY BreakerAssumption DEF BreakerInit, CountsHeard
  <2> QED
    BY <2>1, <2>2, <2>3 DEF BreakerInv
<1>2. BreakerInv /\ [BreakerNext]_breakerVars =>
        BreakerInv' /\ [LoadBounded' /\ TransitionsEarned]_breakerVars
  BY BreakerStep DEF BreakerInv, AttemptsLeft, LoadBounded
<1> QED
  BY <1>1, <1>2, PTL DEF BreakerSpec, CircuitSound

-----------------------------------------------------------------------------
(***************************************************************************)
(* RegistryClients: changes through the DID client, and the caches in      *)
(* front of the registry.                                                  *)
(***************************************************************************)
Version == Nat \ {0}

\* A call that has not sent a transaction, or whose transaction was refused.
Unsent == {"new", "account", "prepare", "submit", "refused"}
Sent == {"poll", "returned", "threw", "confirmed"}

Looking ==
    {l \in [at : Cache \cup {"none"}, chain : BOOLEAN, answer : Version \cup {NoAnswer}] :
        l.answer # NoAnswer => l.at \in Cache}

ClientTypes ==
    /\ published \in [Site -> Nat] /\ sequence \in Nat
    /\ pool \in SUBSET (Changes \X Nat)
    /\ outcome \in [Changes -> SUBSET (1 .. published["registry"])]
    /\ stage \in [Changes -> Unsent \cup Sent]
    /\ seqUsed \in [Changes -> Nat]
    /\ cache \in [Cache -> Version \cup {NoAnswer}]
    /\ lookup \in [ResolveCall -> Looking]
    /\ ownVersion \in 0 .. published["registry"] /\ overtaken \in BOOLEAN

\* A change is made by the one transaction of its call, which is gone then.
ChangeMadeOnce ==
    /\ \A c \in Changes :
          /\ stage[c] \in Unsent => outcome[c] = {}
          /\ stage[c] = "confirmed" => outcome[c] # {}
          /\ \A v, w \in outcome[c] : v = w
    /\ \A t \in pool :
          t[2] = seqUsed[t[1]] /\ stage[t[1]] \in Sent /\ outcome[t[1]] = {}

\* Neither the entry nor an answer on its way to it is older than what was confirmed.
NothingOlder ==
    ~overtaken =>
        /\ Hit("client") => cache["client"] >= ownVersion
        /\ \A r \in ResolveCall :
              lookup[r].at = "client" /\ lookup[r].answer # NoAnswer
                  => lookup[r].answer >= ownVersion

ClientInv == ClientTypes /\ ChangeMadeOnce /\ NothingOlder

\* Max of two versions is one of them and no less than either.
LEMMA MaxOfTwo ==
  ASSUME NEW a \in Nat, NEW b \in Nat
  PROVE  Max({a} \cup {b}) \in {a, b} /\ Max({a} \cup {b}) >= a /\ Max({a} \cup {b}) >= b
<1>1. \E x \in {a} \cup {b} : \A y \in {a} \cup {b} : x >= y
  <2>1. CASE a >= b
    BY <2>1, SMT
  <2>2. CASE b >= a
    BY <2>2, SMT
  <2> QED
    BY <2>1, <2>2, SMT
<1>2. Max({a} \cup {b}) \in {a} \cup {b} /\ \A y \in {a} \cup {b} : Max({a} \cup {b}) >= y
  BY <1>1, Zenon DEF Max
<1> QED
  BY <1>2

\* The invariant holds when the clients are created.
LEMMA ClientsInitially == ClientsInit => ClientInv
<1> SUFFICES ASSUME ClientsInit PROVE ClientInv
  OBVIOUS
<1>1. ClientTypes
  <2>1. lookup \in [ResolveCall -> Looking]
    BY DEF ClientsInit, Looking, Idle
  <2>2. /\ published \in [Site -> Nat] /\ ownVersion \in 0 .. published["registry"]
        /\ cache \in [Cache -> Version \cup {NoAnswer}]
    BY DEF ClientsInit, Site
  <2>3. outcome \in [Changes -> SUBSET (1 .. published["registry"])]
    BY DEF ClientsInit
  <2> QED
    BY <2>1, <2>2, <2>3 DEF ClientsInit, ClientTypes, Unsent
<1>2. ChangeMadeOnce
  BY DEF ClientsInit, ChangeMadeOnce
<1>3. NothingOlder
  BY DEF ClientsInit, NothingOlder, Hit, Cache, Idle
<1> QED
  BY <1>1, <1>2, <1>3 DEF ClientInv

\* Caches only lose entries, and nothing else changes.
LEMMA ForgetKeeps ==
  ASSUME ClientInv, UNCHANGED <<ledger, callVars, lookup, history>>,
         cache' \in [Cache -> Version \cup {NoAnswer}],
         cache'["client"] \in {cache["client"], NoAnswer}
  PROVE  ClientInv'
<1>1. ClientTypes'
  BY DEF ClientInv, ClientTypes, ledger, callVars, history
<1>2. ChangeMadeOnce'
  BY DEF ClientInv, ChangeMadeOnce, ledger, callVars
<1>3. NothingOlder'
  BY DEF ClientInv, NothingOlder, history, Hit
<1> QED
  BY <1>1, <1>2, <1>3 DEF ClientInv

\* A cache without an entry is a cache.
LEMMA WithoutTyped ==
  ASSUME ClientInv, NEW c \in Cache
  PROVE  /\ Without(c) \in [Cache -> Version \cup {NoAnswer}]
         /\ Without(c)["client"] \in {cache["client"], NoAnswer}
BY DEF Without, ClientInv, ClientTypes, Cache

\* Expiry, eviction and clearCache only take entries away.
LEMMA CacheStepsKeep ==
  ASSUME ClientInv, (\E c \in Cache : TtlPasses(c)) \/ PushedOut \/ ClearCache
  PROVE  ClientInv'
<1>1. CASE \E c \in Cache : TtlPasses(c)
  BY <1>1, ForgetKeeps, WithoutTyped DEF TtlPasses
<1>2. CASE PushedOut
  BY <1>2, ForgetKeeps, WithoutTyped DEF PushedOut, Cache
<1>3. CASE ClearCache
  <2>1. cache' \in [Cache -> Version \cup {NoAnswer}] /\ cache'["client"] = cache["client"]
    BY <1>3 DEF ClearCache, ClientInv, ClientTypes, Cache
  <2> QED
    BY <1>3, <2>1, ForgetKeeps DEF ClearCache
<1> QED
  BY <1>1, <1>2, <1>3

\* A resolution goes on, with an answer that is not older than what was confirmed.
LEMMA LookKeeps ==
  ASSUME ClientInv, UNCHANGED <<ledger, callVars, cache, history>>,
         NEW r \in ResolveCall, NEW l \in Looking, lookup' = [lookup EXCEPT ![r] = l],
         l.at = "client" /\ l.answer # NoAnswer => l.answer >= ownVersion
  PROVE  ClientInv'
<1>1. ClientTypes'
  BY DEF ClientInv, ClientTypes, ledger, callVars, history
<1>2. ChangeMadeOnce'
  BY DEF ClientInv, ChangeMadeOnce, ledger, callVars
<1>3. \A s \in ResolveCall : lookup'[s] = IF s = r THEN l ELSE lookup[s]
  BY DEF ClientInv, ClientTypes
<1>4. NothingOlder'
  BY <1>3 DEF ClientInv, NothingOlder, history, Hit
<1> QED
  BY <1>1, <1>2, <1>4 DEF ClientInv

\* A resolution that is over is a resolution without an answer.
LEMMA IdleTyped == Idle \in Looking /\ Idle.answer = NoAnswer
BY DEF Idle, Looking

\* A resolution asks a cache or a source.
LEMMA AskKeeps ==
  ASSUME ClientInv, NEW r \in ResolveCall, NEW c \in Cache, NEW chain \in BOOLEAN,
         Ask(r, c, chain)
  PROVE  ClientInv'
<1> DEFINE l == [Idle EXCEPT !.at = c, !.chain = chain]
<1>1. l \in Looking /\ l.answer = NoAnswer
  BY DEF Idle, Looking
<1>2. lookup' = [lookup EXCEPT ![r] = l] /\ UNCHANGED <<ledger, callVars, cache, history>>
  BY DEF Ask
<1> HIDE DEF l
<1> QED
  BY <1>1, <1>2, LookKeeps

\* A source reads the document it has published.
LEMMA SourceReadsKeeps ==
  ASSUME ClientInv, NEW r \in ResolveCall, SourceReads(r)
  PROVE  ClientInv'
<1> DEFINE v == published[SiteOf[lookup[r].at]]
           l == [lookup[r] EXCEPT !.answer = v]
<1>1. lookup[r] \in Looking /\ lookup[r].at \in Cache
  BY DEF SourceReads, ClientInv, ClientTypes
<1>2. SiteOf[lookup[r].at] \in Site /\ (lookup[r].at = "client" => SiteOf[lookup[r].at] = "registry")
  BY <1>1 DEF SiteOf, Cache, Site
<1>3. v \in Version
  BY <1>2, SMT DEF SourceReads, ClientInv, ClientTypes, Version
<1>4. l \in Looking /\ l.at = lookup[r].at /\ l.answer = v
  BY <1>1, <1>3 DEF Looking
<1>5. l.at = "client" => l.answer >= ownVersion
  BY <1>2, <1>4, SMT DEF ClientInv, ClientTypes, Site
<1>6. lookup' = [lookup EXCEPT ![r] = l] /\ UNCHANGED <<ledger, callVars, cache, history>>
  BY DEF SourceReads
<1> HIDE DEF l
<1> QED
  BY <1>4, <1>5, <1>6, LookKeeps

\* A lookup fails, and the next source is asked or the resolution gives up.
LEMMA LookupFailsKeeps ==
  ASSUME ClientInv, NEW r \in ResolveCall, LookupFails(r)
  PROVE  ClientInv'
<1> DEFINE next == IF lookup[r].at \in DOMAIN Fallback THEN Fallback[lookup[r].at] ELSE "none"
           l == IF lookup[r].chain /\ next \in Cache /\ ~Hit(next)
                THEN [lookup[r] EXCEPT !.at = next, !.answer = NoAnswer] ELSE Idle
<1>1. lookup[r] \in Looking
  BY DEF ClientInv, ClientTypes
<1>2. l \in Looking /\ l.answer = NoAnswer
  <2>1. CASE lookup[r].chain /\ next \in Cache /\ ~Hit(next)
    <3> HIDE DEF next
    <3> QED BY <1>1, <2>1 DEF Looking
  <2>2. CASE ~(lookup[r].chain /\ next \in Cache /\ ~Hit(next))
    BY <2>2, IdleTyped
  <2> QED
    BY <2>1, <2>2
<1>3. lookup' = [lookup EXCEPT ![r] = l] /\ UNCHANGED <<ledger, callVars, cache, history>>
  BY DEF LookupFails
<1> HIDE DEF l
<1> QED
  BY <1>2, <1>3, LookKeeps

\* An answer arrives and goes into a cache.
LEMMA AnswerArrivesKeeps ==
  ASSUME ClientInv, NEW r \in ResolveCall, AnswerArrives(r)
  PROVE  ClientInv'
<1> DEFINE a == lookup[r].answer
<1>1. a \in Version /\ lookup[r].at \in Cache /\ (lookup[r].at = "client" /\ ~overtaken => a >= ownVersion)
  BY DEF AnswerArrives, ClientInv, ClientTypes, Looking, NothingOlder
<1>2. /\ cache' = [cache EXCEPT ![lookup[r].at] = a] /\ lookup' = [lookup EXCEPT ![r] = Idle]
      /\ UNCHANGED <<ledger, callVars, history>>
  BY DEF AnswerArrives
<1>3. ClientTypes'
  BY <1>1, <1>2, IdleTyped DEF ClientInv, ClientTypes, ledger, callVars, history
<1>4. ChangeMadeOnce'
  BY <1>2 DEF ClientInv, ChangeMadeOnce, ledger, callVars
<1>5. /\ \A s \in ResolveCall : lookup'[s] = IF s = r THEN Idle ELSE lookup[s]
      /\ cache'["client"] = IF lookup[r].at = "client" THEN a ELSE cache["client"]
  BY <1>2 DEF ClientInv, ClientTypes, Cache
<1>6. NothingOlder'
  BY <1>1, <1>2, <1>5, IdleTyped DEF ClientInv, NothingOlder, history, Hit
<1> QED
  BY <1>3, <1>4, <1>6 DEF ClientInv

-----------------------------------------------------------------------------
\* A call moves on without a transaction: nothing but its stage, number and tries change.
LEMMA MoveKeeps ==
  ASSUME ClientInv, NEW c \in Changes, NEW to \in Unsent \cup Sent,
         UNCHANGED <<ledger, cache, lookup, history>>,
         stage' = [stage EXCEPT ![c] = to], to # "confirmed",
         stage[c] \in Unsent => outcome[c] = {},
         stage[c] \in Sent => to \in Sent,
         NEW n \in Nat, seqUsed' = [seqUsed EXCEPT ![c] = n], n # seqUsed[c] => stage[c] \in Unsent
  PROVE  ClientInv'
<1>1. \A d \in Changes : stage'[d] = IF d = c THEN to ELSE stage[d]
  BY DEF ClientInv, ClientTypes
<1>2. /\ ClientTypes'
      /\ \A d \in Changes : seqUsed'[d] = IF d = c THEN n ELSE seqUsed[d]
  BY DEF ClientInv, ClientTypes, ledger, history
<1>3. Unsent \cap Sent = {}
  BY DEF Unsent, Sent
<1>4. ChangeMadeOnce'
  <2>1. \A d \in Changes :
          /\ stage'[d] \in Unsent => outcome'[d] = {}
          /\ stage'[d] = "confirmed" => outcome'[d] # {}
          /\ \A v, w \in outcome'[d] : v = w
    BY <1>1, <1>3 DEF ClientInv, ClientTypes, ChangeMadeOnce, ledger
  <2>2. ASSUME NEW t \in pool
        PROVE  t[2] = seqUsed'[t[1]] /\ stage'[t[1]] \in Sent /\ outcome'[t[1]] = {}
    BY <1>1, <1>2, <1>3, <2>2 DEF ClientInv, ClientTypes, ChangeMadeOnce, ledger
  <2> QED
    BY <2>1, <2>2 DEF ChangeMadeOnce, ledger
<1>5. NothingOlder'
  BY DEF ClientInv, NothingOlder, history, Hit
<1> QED
  BY <1>2, <1>4, <1>5 DEF ClientInv

\* A call that sent no transaction changed nothing.
LEMMA UnsentMadeNothing ==
  ASSUME ClientInv, NEW c \in Changes, stage[c] \in Unsent
  PROVE  outcome[c] = {} /\ stage[c] \notin Sent
BY DEF ClientInv, ChangeMadeOnce, Unsent, Sent

\* What a call does before it sends, and when it gives up.
LEMMA QuietCallsKeep ==
  ASSUME ClientInv, NEW c \in Changes,
         \/ Start(c) \/ AccountRead(c) \/ Prepared(c) \/ RequestFails(c)
         \/ SubmitRefused(c) \/ PollThrows(c) \/ PollFindsNothing(c)
  PROVE  ClientInv'
<1>0. /\ sequence + 1 \in Nat /\ seqUsed[c] \in Nat /\ stage[c] \in Unsent \cup Sent
      /\ seqUsed = [seqUsed EXCEPT ![c] = seqUsed[c]] /\ stage = [stage EXCEPT ![c] = stage[c]]
      /\ stage[c] \in Unsent => outcome[c] = {}
  BY UnsentMadeNothing, SMT DEF ClientInv, ClientTypes
<1>1. /\ UNCHANGED <<ledger, cache, lookup, history>>
      /\ UNCHANGED seqUsed \/ seqUsed' = [seqUsed EXCEPT ![c] = sequence + 1]
  BY DEF Start, AccountRead, Prepared, RequestFails, SubmitRefused, PollThrows, PollFindsNothing
<1>2. stage[c] \in {"new", "account", "prepare", "submit", "poll"}
  BY DEF Start, AccountRead, Prepared, RequestFails, SubmitRefused, PollThrows,
     PollFindsNothing, Moves
<1>3. PICK to \in {"account", "prepare", "submit", "refused", "threw", stage[c]} :
            /\ stage' = [stage EXCEPT ![c] = to]
            /\ stage[c] = "poll" => to \in {"threw", "poll"}
  BY <1>0, <1>2 DEF Start, AccountRead, Prepared, RequestFails, SubmitRefused, PollThrows,
     PollFindsNothing, Moves
<1>4. UNCHANGED seqUsed \/ stage[c] \in Unsent
  BY DEF Start, AccountRead, Prepared, RequestFails, SubmitRefused, PollThrows,
     PollFindsNothing, Moves, Unsent
<1>5. to \in Unsent \cup Sent /\ to # "confirmed" /\ (stage[c] \in Sent => to \in Sent)
  BY <1>2, <1>3 DEF Unsent, Sent
<1>6. CASE UNCHANGED seqUsed
  BY <1>0, <1>1, <1>3, <1>5, <1>6, MoveKeeps
<1>7. CASE seqUsed' = [seqUsed EXCEPT ![c] = sequence + 1] /\ stage[c] \in Unsent
  BY <1>0, <1>1, <1>3, <1>5, <1>7, MoveKeeps
<1> QED
  BY <1>1, <1>4, <1>6, <1>7

\* A call sends its transaction, which may or may not get into the pool.
LEMMA SendKeeps ==
  ASSUME ClientInv, NEW c \in Changes, NEW to \in Sent, Moves(c, "submit", to), to # "confirmed",
         pool' \in {pool, pool \cup {<<c, seqUsed[c]>>}},
         cache' \in [Cache -> Version \cup {NoAnswer}], cache'["client"] = cache["client"],
         UNCHANGED <<published, sequence, outcome, seqUsed, lookup, history>>
  PROVE  ClientInv'
<1>1. /\ stage[c] \in Unsent
      /\ \A d \in Changes : stage'[d] = IF d = c THEN to ELSE stage[d]
      /\ stage' \in [Changes -> Unsent \cup Sent]
  BY DEF Moves, ClientInv, ClientTypes, Unsent
<1>2. outcome[c] = {} /\ \A t \in pool : t[1] # c
  BY <1>1, UnsentMadeNothing DEF ClientInv, ChangeMadeOnce
<1>3. pool' \in SUBSET (Changes \X Nat)
  BY DEF ClientInv, ClientTypes
<1>4. ClientTypes'
  BY <1>1, <1>3 DEF ClientInv, ClientTypes, history
<1>5. ChangeMadeOnce'
  <2>1. \A d \in Changes :
          /\ stage'[d] \in Unsent => outcome'[d] = {}
          /\ stage'[d] = "confirmed" => outcome'[d] # {}
          /\ \A v, w \in outcome'[d] : v = w
    BY <1>1, <1>2 DEF ClientInv, ClientTypes, ChangeMadeOnce
  <2>2. ASSUME NEW t \in pool'
        PROVE  t[2] = seqUsed'[t[1]] /\ stage'[t[1]] \in Sent /\ outcome'[t[1]] = {}
    <3>1. CASE t \in pool
      <4>1. t[1] \in Changes
        BY <3>1 DEF ClientInv, ClientTypes
      <4> QED
        BY <1>1, <1>2, <3>1, <4>1 DEF ClientInv, ChangeMadeOnce
    <3>2. CASE t = <<c, seqUsed[c]>>
      BY <1>1, <1>2, <3>2
    <3> QED
      BY <2>2, <3>1, <3>2
  <2> QED
    BY <2>1, <2>2 DEF ChangeMadeOnce
<1>6. NothingOlder'
  BY DEF ClientInv, NothingOlder, history, Hit
<1> QED
  BY <1>4, <1>5, <1>6 DEF ClientInv

\* A transaction is accepted, put off by the server, or lost on its way.
LEMMA SendStepsKeep ==
  ASSUME ClientInv, NEW c \in Changes, SubmitAccepted(c) \/ SubmitPutOff(c) \/ SubmitLost(c)
  PROVE  ClientInv'
<1>1. /\ Without("contract") \in [Cache -> Version \cup {NoAnswer}]
      /\ Without("contract")["client"] = cache["client"]
      /\ cache \in [Cache -> Version \cup {NoAnswer}]
  BY DEF Without, ClientInv, ClientTypes, Cache
<1>2. CASE SubmitAccepted(c) \/ SubmitPutOff(c)
  <2> DEFINE to == IF c \in ClientCall THEN "poll" ELSE "returned"
  <2>1. /\ Moves(c, "submit", to) /\ to \in Sent /\ to # "confirmed"
        /\ pool' \in {pool, pool \cup {<<c, seqUsed[c]>>}}
        /\ cache' \in {cache, Without("contract")}
        /\ UNCHANGED <<published, sequence, outcome, seqUsed, lookup, history>>
    BY <1>2 DEF SubmitAccepted, SubmitPutOff, SubmitReturns, Sent
  <2> HIDE DEF to
  <2> QED
    BY <1>1, <2>1, SendKeeps
<1>3. CASE SubmitLost(c)
  <2>1. /\ Moves(c, "submit", "threw") /\ "threw" \in Sent
        /\ pool' \in {pool, pool \cup {<<c, seqUsed[c]>>}}
        /\ UNCHANGED <<published, sequence, outcome, seqUsed, cache, lookup, history>>
    BY <1>3 DEF SubmitLost, AfterLostAnswer, Sent
  <2> QED
    BY <1>1, <2>1, SendKeeps
<1> QED
  BY <1>2, <1>3

\* A poll finds the transaction and the client writes what it made into its cache.
LEMMA PollSucceedsKeeps ==
  ASSUME ClientInv, NEW c \in Changes, PollSucceeds(c)
  PROVE  ClientInv'
<1>1. PICK v \in 1 .. published["registry"] : outcome[c] = {v}
  <2>1. PICK v \in outcome[c] : TRUE
    BY DEF PollSucceeds
  <2>2. outcome[c] = {v} /\ v \in 1 .. published["registry"]
    BY <2>1 DEF ClientInv, ChangeMadeOnce, ClientTypes
  <2> QED
    BY <2>2
<1>2. published["registry"] \in Nat /\ ownVersion \in Nat /\ v \in Nat
  BY SMT DEF ClientInv, ClientTypes, Site
<1>3. ownVersion' \in {ownVersion, v} /\ ownVersion' >= ownVersion /\ ownVersion' >= v
  BY <1>1, <1>2, MaxOfTwo DEF PollSucceeds
<1>4. /\ cache' \in [Cache -> Version \cup {NoAnswer}]
      /\ cache'["client"] \in {cache["client"], NoAnswer}
      /\ cache'["client"] # NoAnswer => v = 1
  BY <1>1 DEF PollSucceeds, Invalidated, Without, ClientInv, ClientTypes, Cache
<1>5. /\ stage' = [stage EXCEPT ![c] = "confirmed"] /\ stage[c] = "poll"
      /\ UNCHANGED <<ledger, seqUsed, lookup>>
  BY DEF PollSucceeds, Moves
<1>6. ClientTypes'
  <2>1. ownVersion' \in 0 .. published'["registry"]
    BY <1>1, <1>2, <1>3, <1>5, SMT DEF ClientInv, ClientTypes, ledger
  <2>2. overtaken' \in BOOLEAN
    BY Zenon DEF PollSucceeds, ClientInv, ClientTypes
  <2>3. stage' \in [Changes -> Unsent \cup Sent]
    BY <1>5 DEF Sent, ClientInv, ClientTypes
  <2> QED
    BY <1>4, <1>5, <2>1, <2>2, <2>3 DEF ClientInv, ClientTypes, ledger
<1>7. ChangeMadeOnce'
  <2>1. \A d \in Changes : stage'[d] = IF d = c THEN "confirmed" ELSE stage[d]
    BY <1>5 DEF ClientInv, ClientTypes
  <2>2. "confirmed" \in Sent /\ "confirmed" \notin Unsent
    BY DEF Sent, Unsent
  <2>3. \A d \in Changes :
          /\ stage'[d] \in Unsent => outcome'[d] = {}
          /\ stage'[d] = "confirmed" => outcome'[d] # {}
          /\ \A x, w \in outcome'[d] : x = w
    BY <1>1, <1>5, <2>1, <2>2 DEF ClientInv, ChangeMadeOnce, ledger
  <2>4. ASSUME NEW t \in pool
        PROVE  t[2] = seqUsed'[t[1]] /\ stage'[t[1]] \in Sent /\ outcome'[t[1]] = {}
    BY <1>5, <2>1, <2>2 DEF ClientInv, ClientTypes, ChangeMadeOnce, ledger
  <2> QED
    BY <1>5, <2>3, <2>4 DEF ChangeMadeOnce, ledger
<1>8. NothingOlder'
  <2> SUFFICES ASSUME ~overtaken' PROVE NothingOlder'
    BY DEF NothingOlder
  <2>1. /\ ~overtaken
        /\ \A r \in ResolveCall : lookup[r].at = "client" /\ lookup[r].answer # NoAnswer
              => ~(lookup[r].answer < v)
    BY <1>1, Zenon DEF PollSucceeds
  <2>2. cache'["client"] # NoAnswer => cache'["client"] >= ownVersion'
    BY <1>2, <1>3, <1>4, <2>1, SMT DEF ClientInv, ClientTypes, NothingOlder, Hit, Version, Cache
  <2>3. ASSUME NEW r \in ResolveCall, lookup[r].at = "client", lookup[r].answer # NoAnswer
        PROVE  lookup[r].answer >= ownVersion'
    <3>1. lookup[r].answer \in Nat /\ lookup[r].answer >= ownVersion /\ lookup[r].answer >= v
      BY <1>2, <2>1, <2>3, SMT DEF ClientInv, ClientTypes, NothingOlder, Looking, Version
    <3> QED
      BY <1>3, <3>1
  <2> QED
    BY <1>5, <2>2, <2>3 DEF NothingOlder, Hit
<1> QED
  BY <1>6, <1>7, <1>8 DEF ClientInv

-----------------------------------------------------------------------------
\* The document of a site changes, and of the changes made only that of a call whose
\* transaction leaves the pool.
LEMMA LedgerKeeps ==
  ASSUME ClientInv, UNCHANGED <<callVars, cache, lookup, history>>,
         NEW s \in Site, published' \in {published, [published EXCEPT ![s] = @ + 1]},
         sequence' \in Nat, pool' \subseteq pool,
         outcome' \in [Changes -> SUBSET (1 .. published'["registry"])],
         \A d \in Changes :
            \/ outcome'[d] = outcome[d]
            \/ /\ outcome[d] = {} /\ (\E v : outcome'[d] = {v})
               /\ stage[d] \in Sent /\ \A t \in pool' : t[1] # d
  PROVE  ClientInv'
<1>1. published' \in [Site -> Nat] /\ published'["registry"] >= published["registry"]
  BY SMT DEF ClientInv, ClientTypes, Site
<1>2. ClientTypes'
  <2>1. ownVersion \in 0 .. published'["registry"]
    BY <1>1, SMT DEF ClientInv, ClientTypes, Site
  <2> QED
    BY <1>1, <2>1 DEF ClientInv, ClientTypes, callVars, history
<1>3. ChangeMadeOnce'
  <2>1. Unsent \cap Sent = {}
    BY DEF Unsent, Sent
  <2>2. \A d \in Changes :
          /\ stage'[d] \in Unsent => outcome'[d] = {}
          /\ stage'[d] = "confirmed" => outcome'[d] # {}
          /\ \A v, w \in outcome'[d] : v = w
    BY <2>1 DEF ClientInv, ChangeMadeOnce, callVars
  <2>3. ASSUME NEW t \in pool'
        PROVE  t[2] = seqUsed'[t[1]] /\ stage'[t[1]] \in Sent /\ outcome'[t[1]] = {}
    <3>1. t \in pool /\ t[1] \in Changes
      BY DEF ClientInv, ClientTypes
    <3> QED
      BY <3>1, <2>3 DEF ClientInv, ChangeMadeOnce, callVars
  <2> QED
    BY <2>2, <2>3 DEF ChangeMadeOnce
<1>4. NothingOlder'
  BY DEF ClientInv, NothingOlder, history, Hit
<1> QED
  BY <1>2, <1>3, <1>4 DEF ClientInv

\* The ledger takes a transaction from the pool.
LEMMA IncludedKeeps ==
  ASSUME ClientInv, NEW t \in pool, Included(t[1], t[2])
  PROVE  ClientInv'
<1> DEFINE c == t[1]
           v == published["registry"] + 1
<1>1. c \in Changes /\ outcome[c] = {} /\ stage[c] \in Sent /\ t = <<c, seqUsed[c]>>
      /\ v \in Nat /\ t[2] \in Nat
  BY SMT DEF ClientInv, ClientTypes, ChangeMadeOnce, Site
<1>2. \A u \in pool : u[1] = c => u = <<c, seqUsed[c]>>
  BY DEF ClientInv, ClientTypes, ChangeMadeOnce
<1>3. /\ pool' = pool \ {<<c, t[2]>>} /\ sequence' = t[2]
      /\ UNCHANGED <<callVars, cache, lookup, history>>
  BY DEF Included
<1>4. pool' \subseteq pool /\ \A u \in pool' : u[1] # c
  BY <1>1, <1>2, <1>3
<1>5. CASE published' = [published EXCEPT !["registry"] = @ + 1]
           /\ outcome' = [outcome EXCEPT ![c] = @ \cup {v}]
  <2>1. published'["registry"] = v /\ "registry" \in Site
    BY <1>5 DEF ClientInv, ClientTypes, Site
  <2>2. 1 .. published["registry"] \subseteq 1 .. v /\ v \in 1 .. v
    BY <2>1, SMT DEF ClientInv, ClientTypes, Site
  <2> HIDE DEF v
  <2>3. \A d \in Changes : outcome'[d] = IF d = c THEN {v} ELSE outcome[d]
    BY <1>1, <1>5 DEF ClientInv, ClientTypes
  <2>4. outcome' \in [Changes -> SUBSET (1 .. published'["registry"])]
    <3>1. DOMAIN outcome' = Changes /\ outcome' = [d \in Changes |-> outcome'[d]]
      BY <1>5 DEF ClientInv, ClientTypes
    <3>2. \A d \in Changes : outcome'[d] \in SUBSET (1 .. published'["registry"])
      BY <2>1, <2>2, <2>3 DEF ClientInv, ClientTypes
    <3> QED
      BY <3>1, <3>2
  <2>5. \A d \in Changes :
            \/ outcome'[d] = outcome[d]
            \/ /\ outcome[d] = {} /\ (\E w : outcome'[d] = {w})
               /\ stage[d] \in Sent /\ \A u \in pool' : u[1] # d
    BY <1>1, <1>4, <2>3
  <2> QED
    BY <1>1, <1>3, <1>4, <1>5, <2>1, <2>4, <2>5, LedgerKeeps
<1>6. CASE UNCHANGED <<published, outcome>>
  BY <1>1, <1>3, <1>4, <1>6, LedgerKeeps DEF ClientInv, ClientTypes, Site
<1> QED
  BY <1>5, <1>6 DEF Included

\* A transaction leaves the pool when its time bounds pass.
LEMMA RunsOutKeeps ==
  ASSUME ClientInv, NEW t \in pool, RunsOut(t[1], t[2])
  PROVE  ClientInv'
BY LedgerKeeps DEF RunsOut, ClientInv, ClientTypes, Site

\* Somebody else changes a document.
LEMMA ElsewhereKeeps ==
  ASSUME ClientInv, NEW s \in Site, ChangedElsewhere(s)
  PROVE  ClientInv'
<1>1. /\ published' = [published EXCEPT ![s] = @ + 1] /\ sequence' \in Nat
      /\ UNCHANGED <<pool, outcome, callVars, cache, lookup, history>>
  BY SMT DEF ChangedElsewhere, ClientInv, ClientTypes
<1>2. \A n \in 1 .. published["registry"] : n \in 1 .. published'["registry"]
  BY <1>1, SMT DEF ClientInv, ClientTypes, Site
<1>3. outcome' \in [Changes -> SUBSET (1 .. published'["registry"])]
  BY <1>1, <1>2 DEF ClientInv, ClientTypes
<1> QED
  BY <1>1, <1>3, LedgerKeeps

\* Each step of the clients and of the ledger keeps the invariant.
LEMMA ClientsStep ==
  ASSUME ClientInv, [ClientsNext]_clientVars
  PROVE  ClientInv'
<1>1. CASE UNCHANGED clientVars
  BY <1>1, Zenon DEF clientVars, ClientInv, ClientTypes, ChangeMadeOnce, NothingOlder, Hit,
     ledger, callVars, history
<1>2. CASE (\E c \in Cache : TtlPasses(c)) \/ PushedOut \/ ClearCache
  BY <1>2, CacheStepsKeep
<1>3. ASSUME NEW r \in ResolveCall,
             \/ ResolveDID(r) \/ ResolveContract(r) \/ ResolveViaTOML(r)
             \/ ResolveViaHTTP(r) \/ ResolveWithFallback(r)
      PROVE  ClientInv'
  BY <1>3, AskKeeps DEF ResolveDID, ResolveContract, ResolveViaTOML, ResolveViaHTTP,
     ResolveWithFallback, Cache
<1>4. ASSUME NEW r \in ResolveCall, SourceReads(r) \/ AnswerArrives(r) \/ LookupFails(r)
      PROVE  ClientInv'
  BY <1>4, SourceReadsKeeps, AnswerArrivesKeeps, LookupFailsKeeps
<1>5. ASSUME NEW c \in Changes,
             \/ Start(c) \/ AccountRead(c) \/ Prepared(c) \/ RequestFails(c)
             \/ SubmitRefused(c) \/ PollThrows(c) \/ PollFindsNothing(c)
      PROVE  ClientInv'
  BY <1>5, QuietCallsKeep
<1>6. ASSUME NEW c \in Changes, SubmitAccepted(c) \/ SubmitPutOff(c) \/ SubmitLost(c)
      PROVE  ClientInv'
  BY <1>6, SendStepsKeep
<1>7. ASSUME NEW c \in Changes, PollSucceeds(c) PROVE ClientInv'
  BY <1>7, PollSucceedsKeeps
<1>8. ASSUME NEW t \in pool, Included(t[1], t[2]) \/ RunsOut(t[1], t[2]) PROVE ClientInv'
  BY <1>8, IncludedKeeps, RunsOutKeeps
<1>9. ASSUME NEW s \in Site, ChangedElsewhere(s) PROVE ClientInv'
  BY <1>9, ElsewhereKeeps
<1> QED
  BY <1>1, <1>2, <1>3, <1>4, <1>5, <1>6, <1>7, <1>8, <1>9 DEF ClientsNext

\* The invariant of the clients.
LEMMA ClientsInvariance == ClientsSpec => []ClientInv
BY ClientsInitially, ClientsStep, PTL DEF ClientsSpec

\* The sequence number of the one transaction of a call is spent by its inclusion.
LEMMA ChangesMadeOnce == ClientsSpec => []AppliedAtMostOnce
<1>1. ClientInv => AppliedAtMostOnce
  <2> SUFFICES ASSUME ClientInv, NEW c \in Changes
               PROVE  /\ Cardinality(outcome[c]) <= 1
                      /\ stage[c] = "confirmed" => outcome[c] # {}
                      /\ stage[c] = "refused" => outcome[c] = {}
    BY DEF AppliedAtMostOnce
  <2>1. Cardinality(outcome[c]) <= 1
    <3>1. CASE outcome[c] = {}
      BY <3>1, FS_EmptySet
    <3>2. ASSUME NEW v \in outcome[c] PROVE Cardinality(outcome[c]) <= 1
      <4>1. outcome[c] = {v}
        BY <3>2 DEF ClientInv, ChangeMadeOnce
      <4>2. Cardinality({v}) = 1
        BY FS_Singleton
      <4> QED
        BY <4>1, <4>2
    <3> QED
      BY <3>1, <3>2
  <2> QED
    BY <2>1 DEF ClientInv, ChangeMadeOnce, Unsent
<1> QED
  BY <1>1, ClientsInvariance, PTL

\* The change invalidates the entry, and what is stored later was read later.
LEMMA OwnChangesAlwaysSeen == ClientsSpec => []OwnChangesSeen
<1>1. ClientInv => OwnChangesSeen
  BY DEF ClientInv, NothingOlder, OwnChangesSeen
<1> QED
  BY <1>1, ClientsInvariance, PTL

\* For any number of changes and resolutions a change asked of the DID client is made at
\* most once, surely when confirmed and never when refused, however often its submission
\* is put off or its answer lost, and a client that was told of it reads nothing older
\* through its cache afterwards, unless an older answer was on its way: didClient.ts
\* submits, polls and invalidates while resolutions store what they read before.
THEOREM ChangesAlwaysHonoured == ClientsSpec => []ChangesHonoured
<1>1. AppliedAtMostOnce /\ OwnChangesSeen => ChangesHonoured
  BY DEF ChangesHonoured
<1> QED
  BY <1>1, ChangesMadeOnce, OwnChangesAlwaysSeen, PTL

-----------------------------------------------------------------------------
(***************************************************************************)
(* EventConnection: the sockets, timers and calls of the event subscriber. *)
(***************************************************************************)
LEMMA ClosedType ==
  ASSUME ConnTypeOK
  PROVE  /\ Closed \in [Socket -> SocketState]
         /\ Replaced = Closed
  BY NoneAssumption, SMT DEF Closed, Replaced, ConnTypeOK, SocketState, Live

\* connectInternal leaves its fields within their types.
LEMMA ConnectInternalType ==
  ASSUME ConnTypeOK, NEW timer \in BOOLEAN, ConnectInternal(timer)
  PROVE  /\ socket' \in [Socket -> SocketState]
         /\ ws' \in Socket \cup {None}
         /\ reconnectTimer' \in BOOLEAN
         /\ drops' \in 0 .. MaxDrops
<1>1. CASE \E s \in Socket : /\ Replaced[s] = "closed"
                             /\ socket' = [Replaced EXCEPT ![s] = "connecting"]
                             /\ ws' = s /\ reconnectTimer' = timer /\ UNCHANGED drops
  BY <1>1, ClosedType, SMT DEF ConnTypeOK, SocketState
<1>2. CASE Dropped /\ socket' = Replaced /\ ws' = None /\ reconnectTimer' = TRUE
  BY <1>2, ClosedType, BoundsAssumption, SMT DEF ConnTypeOK, Dropped
<1> QED
  BY <1>1, <1>2 DEF ConnectInternal

LEMMA OnCloseType ==
  ASSUME ConnTypeOK, NEW s \in Socket, OnClose(s)
  PROVE  /\ socket' \in [Socket -> SocketState]
         /\ ws' \in Socket \cup {None}
         /\ shouldReconnect' \in BOOLEAN
         /\ connectionState' \in ConnectionState
         /\ reconnectTimer' \in BOOLEAN
         /\ heartbeat' \in {"off", "idle", "waiting"}
         /\ calls' \in 0 .. MaxCalls
<1>1. reconnectTimer' \in BOOLEAN
  BY Zenon DEF OnClose, TimerOnClose, ConnTypeOK
<1> QED
  BY <1>1, SMT DEF OnClose, StateOnClose, ConnTypeOK, SocketState, ConnectionState

LEMMA NoPongType ==
  ASSUME ConnTypeOK, NoPong
  PROVE  /\ socket' \in [Socket -> SocketState]
         /\ ws' \in Socket \cup {None}
         /\ shouldReconnect' \in BOOLEAN
         /\ connectionState' \in ConnectionState
         /\ reconnectTimer' \in BOOLEAN
         /\ heartbeat' \in {"off", "idle", "waiting"}
         /\ calls' \in 0 .. MaxCalls
<1>1. reconnectTimer' \in BOOLEAN
  BY Zenon DEF NoPong, ConnTypeOK
<1> QED
  BY <1>1, ClosedType, SMT DEF NoPong, ConnTypeOK

LEMMA DroppedType ==
  ASSUME ConnTypeOK, Dropped PROVE drops' \in 0 .. MaxDrops
  BY BoundsAssumption, SMT DEF Dropped, ConnTypeOK

LEMMA CalledType ==
  ASSUME ConnTypeOK, Called PROVE calls' \in 0 .. MaxCalls
  BY BoundsAssumption, SMT DEF Called, ConnTypeOK

-----------------------------------------------------------------------------
\* Every call, event and timer keeps the fields of the subscriber within their types.
THEOREM TypeCorrect == Spec => []ConnTypeOK
<1>1. Init => ConnTypeOK
  <2> SUFFICES ASSUME Init PROVE ConnTypeOK
    OBVIOUS
  <2>1. socket \in [Socket -> SocketState]
    BY DEF Init, SocketState
  <2>2. calls \in 0 .. MaxCalls /\ drops \in 0 .. MaxDrops
    BY BoundsAssumption, SMT DEF Init
  <2> QED
    BY <2>1, <2>2 DEF Init, ConnTypeOK, ConnectionState
<1>2. ConnTypeOK /\ [Next]_vars => ConnTypeOK'
  <2> SUFFICES ASSUME ConnTypeOK, [Next]_vars PROVE ConnTypeOK'
    OBVIOUS
  <2>1. CASE UNCHANGED vars
    BY <2>1 DEF vars, ConnTypeOK
  <2>2. CASE Connect
    <3>1. ConnectInternal(reconnectTimer) /\ reconnectTimer \in BOOLEAN
      BY <2>2 DEF Connect, ConnTypeOK
    <3>2. /\ socket' \in [Socket -> SocketState] /\ ws' \in Socket \cup {None}
          /\ reconnectTimer' \in BOOLEAN /\ drops' \in 0 .. MaxDrops
      BY <3>1, ConnectInternalType
    <3> QED
      BY <2>2, <3>2, CalledType DEF Connect, ConnTypeOK, ConnectionState
  <2>3. CASE Disconnect
    BY <2>3, CalledType, ClosedType DEF Disconnect, ConnTypeOK, ConnectionState
  <2>4. CASE PauseAll
    BY <2>4, CalledType DEF PauseAll, link, ConnTypeOK, ConnectionState
  <2>5. CASE ResumeAll
    BY <2>5, CalledType DEF ResumeAll, link, ConnTypeOK, ConnectionState
  <2>6. ASSUME NEW s \in Socket, SocketOpens(s) PROVE ConnTypeOK'
    BY <2>6 DEF SocketOpens, HeartbeatOnOpen, bounds, ConnTypeOK, SocketState,
                ConnectionState
  <2>7. ASSUME NEW s \in Socket, CloseCompletes(s) PROVE ConnTypeOK'
    BY <2>7, OnCloseType DEF CloseCompletes, ConnTypeOK
  <2>8. ASSUME NEW s \in Socket, SocketDrops(s) PROVE ConnTypeOK'
    BY <2>8, OnCloseType, DroppedType DEF SocketDrops, ConnTypeOK
  <2>9. ASSUME NEW s \in Socket, GoesSilent(s) PROVE ConnTypeOK'
    BY <2>9, DroppedType DEF GoesSilent, ConnTypeOK, SocketState
  <2>10. CASE ReconnectFires
    <3>1. /\ socket' \in [Socket -> SocketState] /\ ws' \in Socket \cup {None}
          /\ reconnectTimer' \in BOOLEAN /\ drops' \in 0 .. MaxDrops
      BY <2>10, ConnectInternalType DEF ReconnectFires
    <3> QED
      BY <2>10, <3>1 DEF ReconnectFires, ConnTypeOK
  <2>11. CASE Tick
    BY <2>11 DEF Tick, link, bounds, ConnTypeOK
  <2>12. CASE Pong
    BY <2>12 DEF Pong, link, bounds, ConnTypeOK
  <2>13. CASE PongLate
    BY <2>13, NoPongType, DroppedType DEF PongLate, ConnTypeOK
  <2>14. CASE PongMissing
    BY <2>14, NoPongType DEF PongMissing, ConnTypeOK
  <2> QED
    BY <2>1, <2>2, <2>3, <2>4, <2>5, <2>6, <2>7, <2>8, <2>9, <2>10, <2>11, <2>12,
       <2>13, <2>14 DEF Next
<1> QED
  BY <1>1, <1>2, PTL DEF Spec

-----------------------------------------------------------------------------
\* No part is inductive alone: that an open socket is watched needs the reconnect that
\* a late close event sets, which is set only while a connection is wanted, and that
\* a current socket is one is part of DisconnectedQuiet.
SafetyInv ==
    DisconnectedQuiet /\ OneLiveSocket /\ ConnectedBacked /\ MonitoredOrReplaced
IInv == ConnTypeOK /\ SafetyInv

\* What closeSocket leaves alive: nothing.
LEMMA ClosedKillsAll ==
  ASSUME IInv
  PROVE  /\ \A s \in Socket : Closed[s] \in {"closing", "closed"}
         /\ ReadyOpen => \E s \in Socket : Closed[s] = "closing"
         /\ \A s \in Socket : socket[s] = "closing" => Closed[s] = "closing"
<1>1. \A s \in Socket : Live(s) => s = ws
  BY DEF IInv, SafetyInv, OneLiveSocket
<1>2. \A s \in Socket : Closed[s] \in {"closing", "closed"}
  BY <1>1, NoneAssumption DEF Closed, IInv, ConnTypeOK, SocketState, Live
<1>3. ReadyOpen => Closed[ws] = "closing"
  BY DEF Closed, ReadyOpen, IInv, ConnTypeOK, Live
<1>4. \A s \in Socket : socket[s] = "closing" => Closed[s] = "closing"
  BY DEF Closed, IInv, ConnTypeOK, Live
<1> QED
  BY <1>2, <1>3, <1>4 DEF ReadyOpen, IInv, ConnTypeOK

\* After connectInternal the new socket is the only one alive, and what closeSocket
\* closed is closing.
LEMMA ConnectInternalSafe ==
  ASSUME IInv, NEW timer \in BOOLEAN, ConnectInternal(timer)
  PROVE  /\ \A s \in Socket : Live(s)' => s = ws'
         /\ ~ReadyOpen'
         /\ ReadyOpen \/ (\E s \in Socket : socket[s] = "closing")
              => \E s \in Socket : socket'[s] = "closing"
<1>1. ConnTypeOK
  BY DEF IInv
<1>2. Replaced = Closed /\ Closed \in [Socket -> SocketState]
  BY <1>1, ClosedType
<1>3. ASSUME NEW n \in Socket, Closed[n] = "closed",
             socket' = [Closed EXCEPT ![n] = "connecting"], ws' = n
      PROVE  /\ \A s \in Socket : Live(s)' => s = ws'
             /\ ~ReadyOpen'
             /\ ReadyOpen \/ (\E s \in Socket : socket[s] = "closing")
                  => \E s \in Socket : socket'[s] = "closing"
  <2>1. socket'[n] = "connecting" /\ \A s \in Socket \ {n} : socket'[s] = Closed[s]
    BY <1>2, <1>3
  <2>2. \A s \in Socket : Closed[s] = "closing" => socket'[s] = "closing"
    BY <1>3, <2>1
  <2>3. \A s \in Socket : Live(s)' => s = ws'
    BY <1>3, <2>1, ClosedKillsAll DEF Live
  <2>4. ~ReadyOpen'
    BY <1>3, <2>1 DEF ReadyOpen
  <2> QED
    BY <2>2, <2>3, <2>4, ClosedKillsAll
<1>4. ASSUME socket' = Closed, ws' = None
      PROVE  /\ \A s \in Socket : Live(s)' => s = ws'
             /\ ~ReadyOpen'
             /\ ReadyOpen \/ (\E s \in Socket : socket[s] = "closing")
                  => \E s \in Socket : socket'[s] = "closing"
  BY <1>4, ClosedKillsAll DEF Live, ReadyOpen
<1> QED
  BY <1>2, <1>3, <1>4 DEF ConnectInternal

\* A close event takes one socket away and sets the reconnect timer if need be.
LEMMA OnCloseSafe ==
  ASSUME IInv, NEW s \in Socket, OnClose(s)
  PROVE  SafetyInv'
<1>1. /\ socket'[s] = "closed" /\ \A t \in Socket \ {s} : socket'[t] = socket[t]
      /\ ws' = ws /\ shouldReconnect' = shouldReconnect
  BY DEF OnClose, IInv, ConnTypeOK
<1>2. \A t \in Socket : Live(t)' => Live(t)
  BY <1>1 DEF Live
<1>3. OneLiveSocket'
  BY <1>1, <1>2 DEF OneLiveSocket, IInv, SafetyInv
<1>4. reconnectTimer' <=> (reconnectTimer \/ shouldReconnect)
  BY Zenon DEF OnClose, TimerOnClose
<1>5. DisconnectedQuiet'
  <2>1. ~shouldReconnect => ws = None /\ ~reconnectTimer
    BY DEF DisconnectedQuiet, IInv, SafetyInv
  <2>2. heartbeat' = "off"
    BY DEF OnClose
  <2> QED
    BY <1>1, <1>4, <2>1, <2>2, Zenon DEF DisconnectedQuiet
<1>6. connectionState' # "connected"
  BY DEF OnClose, StateOnClose
<1>7. ConnectedBacked'
  BY <1>6 DEF ConnectedBacked
<1>8. MonitoredOrReplaced'
  <2>1. ws # None => shouldReconnect
    BY DEF DisconnectedQuiet, IInv, SafetyInv
  <2> QED
    BY <1>1, <1>4, <2>1, Zenon DEF MonitoredOrReplaced, ReadyOpen
<1> QED
  BY <1>3, <1>5, <1>7, <1>8 DEF SafetyInv

\* The heartbeat's timeout closes the current socket and leaves its close to come.
LEMMA NoPongSafe ==
  ASSUME IInv, NoPong
  PROVE  SafetyInv'
<1>1. socket' = Closed /\ ws' = None /\ shouldReconnect
  BY DEF NoPong, DisconnectedQuiet, IInv, SafetyInv
<1>2. DisconnectedQuiet'
  BY <1>1 DEF NoPong, DisconnectedQuiet
<1>3. OneLiveSocket'
  BY <1>1, ClosedKillsAll DEF OneLiveSocket, Live
<1>4. ConnectedBacked'
  BY <1>1, ClosedKillsAll DEF NoPong, ConnectedBacked, IInv, SafetyInv
<1>5. MonitoredOrReplaced'
  BY <1>1 DEF MonitoredOrReplaced, ReadyOpen
<1> QED
  BY <1>2, <1>3, <1>4, <1>5 DEF SafetyInv

-----------------------------------------------------------------------------
LEMMA SafetyInductive ==
  ASSUME IInv, Next
  PROVE  SafetyInv'
<1> USE DEF IInv
<1>1. CASE Connect
  <2>1. ConnectInternal(reconnectTimer) /\ reconnectTimer \in BOOLEAN
    BY <1>1 DEF Connect, ConnTypeOK
  <2>2. (\A s \in Socket : Live(s)' => s = ws') /\ ~ReadyOpen'
    BY <2>1, ConnectInternalSafe
  <2> QED
    BY <1>1, <2>2 DEF Connect, SafetyInv, DisconnectedQuiet, OneLiveSocket,
                      ConnectedBacked, MonitoredOrReplaced
<1>2. CASE Disconnect
  <2>1. socket' = Closed /\ ws' = None /\ connectionState' = "disconnected"
        /\ ~reconnectTimer' /\ heartbeat' = "off"
    BY <1>2 DEF Disconnect
  <2>2. OneLiveSocket'
    BY <2>1, ClosedKillsAll DEF OneLiveSocket, Live
  <2>3. DisconnectedQuiet'
    BY <2>1, Zenon DEF DisconnectedQuiet
  <2>4. ConnectedBacked' /\ MonitoredOrReplaced'
    BY <2>1 DEF ConnectedBacked, MonitoredOrReplaced, ReadyOpen
  <2> QED
    BY <2>2, <2>3, <2>4 DEF SafetyInv
<1>3. CASE PauseAll
  BY <1>3 DEF PauseAll, link, SafetyInv, DisconnectedQuiet, OneLiveSocket,
              ConnectedBacked, MonitoredOrReplaced, ReadyOpen, Live
<1>4. CASE ResumeAll
  <2>1. UNCHANGED <<socket, ws, shouldReconnect, reconnectTimer, heartbeat>>
    BY <1>4 DEF ResumeAll, link
  <2>2. connectionState' = "connected" => connectionState = "connected" \/ ReadyOpen
    BY <1>4 DEF ResumeAll
  <2>3. DisconnectedQuiet' /\ OneLiveSocket' /\ MonitoredOrReplaced'
    BY <2>1 DEF SafetyInv, DisconnectedQuiet, OneLiveSocket, MonitoredOrReplaced,
                ReadyOpen, Live
  <2>4. ConnectedBacked'
    BY <2>1, <2>2 DEF SafetyInv, ConnectedBacked, ReadyOpen
  <2> QED
    BY <2>3, <2>4 DEF SafetyInv
<1>5. ASSUME NEW s \in Socket, SocketOpens(s) PROVE SafetyInv'
  <2>1. /\ socket'[s] = "open" /\ \A t \in Socket \ {s} : socket'[t] = socket[t]
        /\ UNCHANGED <<ws, shouldReconnect, reconnectTimer>> /\ heartbeat' = "idle"
    BY <1>5 DEF SocketOpens, HeartbeatOnOpen, ConnTypeOK
  <2>2. Live(s) /\ s = ws /\ shouldReconnect
    BY <1>5 DEF SocketOpens, Live, SafetyInv, OneLiveSocket
  <2>3. ReadyOpen'
    BY <2>1, <2>2, NoneAssumption DEF ReadyOpen
  <2>4. OneLiveSocket'
    BY <2>1, <2>2 DEF SafetyInv, OneLiveSocket, Live
  <2> QED
    BY <2>1, <2>2, <2>3, <2>4 DEF SafetyInv, DisconnectedQuiet, ConnectedBacked,
                                  MonitoredOrReplaced
<1>6. ASSUME NEW s \in Socket, CloseCompletes(s) PROVE SafetyInv'
  BY <1>6, OnCloseSafe DEF CloseCompletes
<1>7. ASSUME NEW s \in Socket, SocketDrops(s) PROVE SafetyInv'
  BY <1>7, OnCloseSafe DEF SocketDrops
<1>8. ASSUME NEW s \in Socket, GoesSilent(s) PROVE SafetyInv'
  <2>1. /\ socket[s] = "open" /\ socket'[s] = "silent"
        /\ \A t \in Socket \ {s} : socket'[t] = socket[t]
        /\ UNCHANGED <<ws, shouldReconnect, connectionState, reconnectTimer, heartbeat>>
    BY <1>8 DEF GoesSilent, ConnTypeOK
  <2>2. OneLiveSocket'
    BY <2>1 DEF SafetyInv, OneLiveSocket, Live
  <2>3. ReadyOpen' <=> ReadyOpen
    BY <2>1 DEF ReadyOpen, ConnTypeOK
  <2>4. \A t \in Socket : socket[t] = "closing" => socket'[t] = "closing"
    BY <2>1
  <2> QED
    BY <2>1, <2>2, <2>3, <2>4 DEF SafetyInv, DisconnectedQuiet, ConnectedBacked,
                                  MonitoredOrReplaced
<1>9. CASE ReconnectFires
  <2>1. ConnectInternal(FALSE) /\ reconnectTimer
    BY <1>9 DEF ReconnectFires
  <2>2. shouldReconnect'
    BY <1>9, <2>1 DEF ReconnectFires, SafetyInv, DisconnectedQuiet
  <2>3. /\ \A s \in Socket : Live(s)' => s = ws'
        /\ ~ReadyOpen'
        /\ ReadyOpen \/ (\E s \in Socket : socket[s] = "closing")
             => \E s \in Socket : socket'[s] = "closing"
    BY <2>1, ConnectInternalSafe
  <2>4. ConnectedBacked'
    BY <1>9, <2>3 DEF ReconnectFires, SafetyInv, ConnectedBacked
  <2> QED
    BY <2>2, <2>3, <2>4 DEF SafetyInv, DisconnectedQuiet, OneLiveSocket,
                            MonitoredOrReplaced
<1>10. CASE Tick \/ Pong
  <2>1. UNCHANGED <<socket, ws, shouldReconnect, connectionState, reconnectTimer>>
        /\ heartbeat' # "off" /\ ws # None
    BY <1>10 DEF Tick, Pong, link, ReadyOpen
  <2> QED
    BY <2>1 DEF SafetyInv, DisconnectedQuiet, OneLiveSocket, ConnectedBacked,
                MonitoredOrReplaced, ReadyOpen, Live
<1>11. CASE PongLate \/ PongMissing
  BY <1>11, NoPongSafe DEF PongLate, PongMissing
<1> QED
  BY <1>1, <1>2, <1>3, <1>4, <1>5, <1>6, <1>7, <1>8, <1>9, <1>10, <1>11 DEF Next

LEMMA SafetyAlways == Spec => []IInv
<1>1. Init => SafetyInv
  BY DEF Init, SafetyInv, DisconnectedQuiet, OneLiveSocket, ConnectedBacked,
         MonitoredOrReplaced, ReadyOpen, Live
<1>2. ConnTypeOK /\ SafetyInv /\ [Next]_vars => SafetyInv'
  <2> SUFFICES ASSUME ConnTypeOK, SafetyInv, [Next]_vars PROVE SafetyInv'
    OBVIOUS
  <2>1. CASE UNCHANGED vars
    BY <2>1 DEF vars, SafetyInv, DisconnectedQuiet, OneLiveSocket, ConnectedBacked,
                MonitoredOrReplaced, ReadyOpen, Live
  <2>2. CASE Next
    BY <2>2, SafetyInductive DEF IInv
  <2> QED
    BY <2>1, <2>2
<1> QED
  BY <1>1, <1>2, TypeCorrect, PTL DEF Spec, IInv

\* disconnect leaves nothing that opens a socket, an open socket has no live
\* predecessor, "connected" is backed by a socket or its close event, and an open socket
\* is monitored or about to be replaced, in whatever order calls, socket events and
\* timers come.
THEOREM Safety ==
  Spec => [](DisconnectedQuiet /\ OneLiveSocket /\ ConnectedBacked /\ MonitoredOrReplaced)
  BY SafetyAlways, PTL DEF IInv, SafetyInv

\* A client that has called disconnect gets no message: no socket is alive until it
\* calls connect again.
THEOREM DisconnectedIsDead ==
  Spec => [](~shouldReconnect => \A s \in Socket : ~Live(s))
<1>1. IInv => (~shouldReconnect => \A s \in Socket : ~Live(s))
  BY DEF IInv, SafetyInv, OneLiveSocket
<1> QED
  BY <1>1, SafetyAlways, PTL

\* One live socket at most, and none that could come back after disconnect.
THEOREM OneSocket == Spec => []OneSocketOrQuiet
  BY Safety, PTL DEF OneSocketOrQuiet

\* A connection that is claimed or used is watched.
THEOREM Watched == Spec => []ConnectionWatched
  BY Safety, PTL DEF ConnectionWatched

\* Both at once, for any number of sockets.
THEOREM ConnectionAlwaysSound == Spec => []ConnectionSound
  BY OneSocket, Watched, PTL DEF ConnectionSound

-----------------------------------------------------------------------------
(***************************************************************************)
(* EventDelivery: what subscriptions are handed of the events received.    *)
(***************************************************************************)
Rising(z) == \A i, j \in DOMAIN z : i < j => z[i] < z[j]

\* What holds of one subscription: its status, what it was handed, its queue, how many
\* events overflowed and how many reached it, when m events have been received.  A sized
\* queue is below its batch, or unsubscribe would drop what is beyond the batch it flushes.
Sound(s, status, h, q, d, n, m) ==
    /\ h \in Seq(1 .. m) /\ q \in Seq(1 .. m) /\ d \in Nat /\ n \in Nat
    /\ Rising(h \o q)
    /\ n = Len(h) + Len(q) + d
    /\ status = "new" => h = <<>> /\ q = <<>> /\ d = 0 /\ n = 0
    /\ s \notin Batched => q = <<>>
    /\ s \in Sized => Len(q) < BatchSize

SubscriptionsSound ==
    /\ handed = [s \in Sub |-> handed[s]] /\ eventQueue = [s \in Sub |-> eventQueue[s]]
    /\ dropped = [s \in Sub |-> dropped[s]] /\ enqueued = [s \in Sub |-> enqueued[s]]
    /\ subscription = [s \in Sub |-> subscription[s]]
    /\ \A s \in Sub :
          Sound(s, subscription[s], handed[s], eventQueue[s], dropped[s], enqueued[s],
                Len(received))

\* The ids remembered are the last ones received, among which none comes twice.
Remembers(seen, ids) ==
    /\ ids \in Seq(EventId) /\ seen \in Seq(EventId)
    /\ Len(seen) = IF Len(ids) <= 2 * History THEN Len(ids) ELSE 2 * History
    /\ \A k \in 1 .. Len(seen) : seen[k] = ids[Len(ids) - Len(seen) + k]
    /\ \A i, j \in 1 .. Len(ids) : i < j /\ j - i <= 2 * History => ids[i] # ids[j]

DeliveryInv == SubscriptionsSound /\ Remembers(seenEventIds, received)

-----------------------------------------------------------------------------
(* Queues and what was handed out. *)

\* The bounds of the queues, of the batches and of the history are at least one.
LEMMA DeliveryConstants ==
  BatchSize \in Nat /\ BatchSize >= 1 /\ MaxQueue \in Nat /\ MaxQueue >= 1
  /\ History \in Nat /\ History >= 1
BY DeliveryAssumption, SMT

\* The lengths of the two parts that a flush makes of a queue of n events.
LEMMA CutLengths ==
  ASSUME NEW n \in Nat, NEW c \in 0 .. n, NEW full \in BOOLEAN, NEW size \in Nat,
         c = IF full /\ n > size THEN size ELSE n
  PROVE  /\ (IF 1 <= c THEN c - 1 + 1 ELSE 0) = c
         /\ (IF c + 1 <= n THEN n - (c + 1) + 1 ELSE 0) = n - c
         /\ c + (n - c) = n
         /\ n - c = IF full /\ n > size THEN n - size ELSE 0
BY SMT

\* A batch of a queue that does not exceed it leaves nothing.
LEMMA RestBelow ==
  ASSUME NEW x \in Nat, NEW size \in Nat, size >= 1, x <= size
  PROVE  (IF x > size THEN x - size ELSE 0) = 0 /\ 0 < size
BY SMT

\* Ranges from one that are equal end at the same number.
LEMMA SameRange ==
  ASSUME NEW a \in Nat, NEW b \in Nat, 1 .. a = 1 .. b
  PROVE  a = b
<1>1. CASE a < b
  <2>1. b \in 1 .. b /\ b \notin 1 .. a
    BY <1>1, SMT
  <2> QED
    BY <2>1
<1>2. CASE b < a
  <2>1. a \in 1 .. a /\ a \notin 1 .. b
    BY <1>2, SMT
  <2> QED
    BY <2>1
<1> QED
  BY <1>1, <1>2, SMT

\* What is up to m is below m + 1.
LEMMA BelowNext ==
  ASSUME NEW m \in Nat, NEW x \in 1 .. m
  PROVE  x < m + 1
BY SMT

\* Joining sequences is associative.
LEMMA JoinsAssociate == \A S : \A s, t, u \in Seq(S) : (s \o t) \o u = s \o (t \o u)
BY ConcatAssociative, Zenon

\* Length and elements of two sequences of event numbers joined.
LEMMA JoinedAt ==
  ASSUME NEW m \in Nat, NEW h \in Seq(1 .. m), NEW q \in Seq(1 .. m)
  PROVE  /\ h \o q \in Seq(1 .. m) /\ Len(h \o q) = Len(h) + Len(q)
         /\ DOMAIN (h \o q) = 1 .. Len(h) + Len(q)
         /\ Len(h) \in Nat /\ Len(q) \in Nat
         /\ \A i \in 1 .. Len(h) + Len(q) :
               /\ (h \o q)[i] = IF i <= Len(h) THEN h[i] ELSE q[i - Len(h)]
               /\ (h \o q)[i] \in 1 .. m
BY ConcatProperties, LenProperties, ElementOfSeq

\* The next event can be queued without disturbing the order.
LEMMA RisingAppend ==
  ASSUME NEW m \in Nat, NEW h \in Seq(1 .. m), NEW q \in Seq(1 .. m), Rising(h \o q)
  PROVE  /\ Append(q, m + 1) \in Seq(1 .. m + 1) /\ Len(Append(q, m + 1)) = Len(q) + 1
         /\ Rising(h \o Append(q, m + 1))
<1> DEFINE p == Append(q, m + 1)
<1>1. h \in Seq(1 .. m + 1) /\ q \in Seq(1 .. m + 1) /\ m + 1 \in 1 .. m + 1 /\ m + 1 \in Nat
  <2>1. 1 .. m \subseteq 1 .. m + 1
    BY SMT
  <2> QED
    BY <2>1, SeqMonotonic, SMT
<1>2. /\ p \in Seq(1 .. m + 1) /\ Len(p) = Len(q) + 1 /\ p[Len(q) + 1] = m + 1
      /\ \A i \in 1 .. Len(q) : p[i] = q[i]
  BY <1>1, AppendProperties
<1>3. /\ DOMAIN (h \o q) = 1 .. Len(h) + Len(q) /\ Len(h) \in Nat /\ Len(q) \in Nat
      /\ \A i \in 1 .. Len(h) + Len(q) :
               /\ (h \o q)[i] = IF i <= Len(h) THEN h[i] ELSE q[i - Len(h)]
               /\ (h \o q)[i] \in 1 .. m
  BY JoinedAt
<1>4. /\ DOMAIN (h \o p) = 1 .. Len(h) + Len(p)
      /\ \A i \in 1 .. Len(h) + Len(p) :
               (h \o p)[i] = IF i <= Len(h) THEN h[i] ELSE p[i - Len(h)]
  BY <1>1, <1>2, JoinedAt
<1> HIDE DEF p
<1> DEFINE a == Len(h)
           b == Len(q)
<1>0. a \in Nat /\ b \in Nat /\ Len(p) = b + 1
  BY <1>2, <1>3
<1> HIDE DEF a, b
<1>5. ASSUME NEW i \in 1 .. a + b PROVE (h \o p)[i] = (h \o q)[i]
  <2>1. i \in 1 .. a + (b + 1) /\ i \in 1 .. a + b /\ (i <= a \/ i - a \in 1 .. b)
    BY <1>0, SMT
  <2>2. (h \o p)[i] = (IF i <= a THEN h[i] ELSE p[i - a])
    BY <1>0, <1>4, <2>1 DEF a
  <2>3. (h \o q)[i] = (IF i <= a THEN h[i] ELSE q[i - a])
    BY <1>3, <2>1 DEF a, b
  <2>4. ~(i <= a) => p[i - a] = q[i - a]
    BY <1>2, <2>1 DEF b
  <2> QED
    BY <2>2, <2>3, <2>4
<1>6. (h \o p)[a + b + 1] = m + 1
  <2>1. a + b + 1 \in 1 .. a + (b + 1) /\ ~(a + b + 1 <= a) /\ a + b + 1 - a = b + 1
    BY <1>0, SMT
  <2>2. (h \o p)[a + b + 1] = p[a + b + 1 - a]
    BY <1>0, <1>4, <2>1 DEF a
  <2> QED
    BY <1>2, <2>1, <2>2 DEF b
<1>7. Rising(h \o p)
  <2>1. DOMAIN (h \o p) = 1 .. a + (b + 1)
    BY <1>0, <1>4 DEF a
  <2> SUFFICES ASSUME NEW i \in 1 .. a + (b + 1), NEW j \in 1 .. a + (b + 1), i < j
               PROVE  (h \o p)[i] < (h \o p)[j]
    BY <2>1 DEF Rising
  <2>2. i \in 1 .. a + b /\ (j = a + b + 1 \/ j \in 1 .. a + b)
    BY <1>0, SMT
  <2>3. (h \o p)[i] = (h \o q)[i] /\ (h \o q)[i] \in 1 .. m
    BY <1>3, <1>5, <2>2 DEF a, b
  <2>4. CASE j = a + b + 1
    <3>1. (h \o p)[j] = m + 1
      BY <1>6, <2>4
    <3> QED
      BY <2>3, <3>1, BelowNext
  <2>5. CASE j \in 1 .. a + b
    <3>1. (h \o p)[j] = (h \o q)[j]
      BY <1>5, <2>5
    <3>2. (h \o q)[i] < (h \o q)[j]
      BY <1>3, <2>2, <2>5 DEF Rising, a, b
    <3> QED
      BY <2>3, <3>1, <3>2
  <2> QED
    BY <2>2, <2>4, <2>5
<1> QED
  BY <1>2, <1>7 DEF p

\* The first of the queue can be dropped without disturbing the order.
LEMMA RisingTail ==
  ASSUME NEW m \in Nat, NEW h \in Seq(1 .. m), NEW q \in Seq(1 .. m), Rising(h \o q), q # <<>>
  PROVE  /\ Tail(q) \in Seq(1 .. m) /\ Len(Tail(q)) = Len(q) - 1 /\ Len(q) >= 1
         /\ Rising(h \o Tail(q))
<1> DEFINE p == Tail(q)
<1>1. /\ p \in Seq(1 .. m) /\ Len(p) = Len(q) - 1 /\ Len(q) \in Nat /\ Len(q) >= 1
      /\ \A i \in 1 .. Len(p) : p[i] = q[i + 1]
  BY HeadTailProperties, EmptySeq, SMT
<1>2. /\ DOMAIN (h \o q) = 1 .. Len(h) + Len(q) /\ Len(h) \in Nat
      /\ \A i \in 1 .. Len(h) + Len(q) :
               (h \o q)[i] = IF i <= Len(h) THEN h[i] ELSE q[i - Len(h)]
  BY JoinedAt
<1>3. /\ DOMAIN (h \o p) = 1 .. Len(h) + Len(p)
      /\ \A i \in 1 .. Len(h) + Len(p) :
               (h \o p)[i] = IF i <= Len(h) THEN h[i] ELSE p[i - Len(h)]
  BY <1>1, JoinedAt
<1> HIDE DEF p
<1> DEFINE a == Len(h)
           b == Len(p)
           k(i) == IF i <= a THEN i ELSE i + 1
<1>0. a \in Nat /\ b \in Nat /\ Len(q) = b + 1
  BY <1>1, <1>2, SMT
<1> HIDE DEF a, b
<1>4. ASSUME NEW i \in 1 .. a + b
      PROVE  k(i) \in 1 .. a + (b + 1) /\ (h \o p)[i] = (h \o q)[k(i)]
  <2>1. i \in 1 .. a + b /\ k(i) \in 1 .. a + (b + 1)
    BY <1>0, SMT
  <2>2. (h \o p)[i] = (IF i <= a THEN h[i] ELSE p[i - a])
    BY <1>3, <2>1 DEF a, b
  <2>3. (h \o q)[k(i)] = (IF k(i) <= a THEN h[k(i)] ELSE q[k(i) - a])
    BY <1>0, <1>2, <2>1 DEF a
  <2>4. CASE i <= a
    <3>1. k(i) = i
      BY <2>4
    <3> HIDE DEF k
    <3> QED
      BY <2>1, <2>2, <2>3, <2>4, <3>1
  <2>5. CASE ~(i <= a)
    <3>1. k(i) = i + 1 /\ ~(k(i) <= a) /\ k(i) - a = (i - a) + 1 /\ i - a \in 1 .. b
      BY <1>0, <2>5, SMT
    <3>2. p[i - a] = q[(i - a) + 1]
      BY <1>1, <3>1 DEF b
    <3> HIDE DEF k
    <3> QED
      BY <2>1, <2>2, <2>3, <2>5, <3>1, <3>2
  <2> QED
    BY <2>4, <2>5
<1>5. Rising(h \o p)
  <2>1. DOMAIN (h \o p) = 1 .. a + b /\ DOMAIN (h \o q) = 1 .. a + (b + 1)
    BY <1>0, <1>2, <1>3 DEF a, b
  <2> SUFFICES ASSUME NEW i \in 1 .. a + b, NEW j \in 1 .. a + b, i < j
               PROVE  (h \o p)[i] < (h \o p)[j]
    BY <2>1 DEF Rising
  <2>2. k(i) < k(j)
    BY <1>0, SMT
  <2> HIDE DEF k
  <2>3. /\ k(i) \in 1 .. a + (b + 1) /\ (h \o p)[i] = (h \o q)[k(i)]
        /\ k(j) \in 1 .. a + (b + 1) /\ (h \o p)[j] = (h \o q)[k(j)]
    BY <1>4
  <2> QED
    BY <2>1, <2>2, <2>3 DEF Rising
<1> QED
  BY <1>1, <1>5 DEF p

\* What flushQueue takes off and leaves of a queue q, after h was handed out.
Splits(s, h, q, m) ==
    /\ Batch(s, q) \in Seq(1 .. m) /\ Rest(s, q) \in Seq(1 .. m)
    /\ h \o Batch(s, q) \in Seq(1 .. m)
    /\ Len(h \o Batch(s, q)) = Len(h) + Len(Batch(s, q))
    /\ Len(Batch(s, q)) + Len(Rest(s, q)) = Len(q)
    /\ (h \o Batch(s, q)) \o Rest(s, q) = h \o q
    /\ Len(Rest(s, q)) = IF s \in Sized /\ Len(q) > BatchSize THEN Len(q) - BatchSize ELSE 0

\* What flushQueue hands out and what it leaves make up the queue.
LEMMA FlushSplits ==
  ASSUME NEW s \in Sub, NEW m \in Nat, NEW h \in Seq(1 .. m), NEW q \in Seq(1 .. m)
  PROVE  Splits(s, h, q, m)
<1> DEFINE b == Batch(s, q)
           r == Rest(s, q)
           c == IF s \in Sized /\ Len(q) > BatchSize THEN BatchSize ELSE Len(q)
<1>1. Len(q) \in Nat /\ BatchSize \in Nat /\ BatchSize >= 1 /\ q \in [1 .. Len(q) -> 1 .. m]
  BY LenProperties, DeliveryConstants
<1>2. c \in 0 .. Len(q)
  BY <1>1, SMT
<1>c. c = IF s \in Sized /\ Len(q) > BatchSize THEN BatchSize ELSE Len(q)
  OBVIOUS
<1>3. b = SubSeq(q, 1, c)
  BY SubSeqFull DEF Batch
<1>l. /\ (IF 1 <= c THEN c - 1 + 1 ELSE 0) = c
      /\ (IF c + 1 <= Len(q) THEN Len(q) - (c + 1) + 1 ELSE 0) = Len(q) - c
      /\ c + (Len(q) - c) = Len(q)
      /\ Len(q) - c = IF s \in Sized /\ Len(q) > BatchSize THEN Len(q) - BatchSize ELSE 0
  <2>1. (s \in Sized) \in BOOLEAN
    OBVIOUS
  <2> HIDE DEF c
  <2> QED
    BY <1>1, <1>2, <1>c, <2>1, CutLengths
<1> HIDE DEF c
<1>4. b \in Seq(1 .. m) /\ Len(b) = c
  <2>1. \A i \in 1 .. c : q[i] \in 1 .. m
    BY <1>1, <1>2, SMT
  <2>2. c \in Int /\ 1 \in Int
    BY <1>2, SMT
  <2>3. SubSeq(q, 1, c) \in Seq(1 .. m) /\ Len(SubSeq(q, 1, c)) = IF 1 <= c THEN c - 1 + 1 ELSE 0
    BY <2>1, <2>2, SubSeqProperties
  <2> QED
    BY <1>3, <2>3, <1>l
<1>5. r = SubSeq(q, c + 1, Len(q))
  BY <1>4 DEF Rest
<1>6. r \in Seq(1 .. m) /\ Len(r) = Len(q) - c
  <2>1. \A i \in c + 1 .. Len(q) : q[i] \in 1 .. m
    BY <1>1, <1>2, SMT
  <2>2. c + 1 \in Int /\ Len(q) \in Int
    BY <1>1, <1>2, SMT
  <2>3. /\ SubSeq(q, c + 1, Len(q)) \in Seq(1 .. m)
        /\ Len(SubSeq(q, c + 1, Len(q))) = IF c + 1 <= Len(q) THEN Len(q) - (c + 1) + 1 ELSE 0
    BY <2>1, <2>2, SubSeqProperties
  <2> QED
    BY <1>5, <2>3, <1>l
<1> HIDE DEF b, r
<1>7. b \o r = q
  <2>1. 1 \in 1 .. Len(q) + 1 /\ c \in 1 - 1 .. Len(q) /\ Len(q) \in c .. Len(q)
    BY <1>1, <1>2, SMT
  <2>2. SubSeq(q, 1, c) \o SubSeq(q, c + 1, Len(q)) = SubSeq(q, 1, Len(q))
    BY <2>1, ConcatAdjacentSubSeq
  <2> QED
    BY <1>3, <1>5, <2>2, SubSeqFull
<1>8. (h \o b) \o r = h \o q /\ h \o b \in Seq(1 .. m) /\ Len(h \o b) = Len(h) + Len(b)
  <2>1. (h \o b) \o r = h \o (b \o r)
    <3>1. \A x, y, z \in Seq(1 .. m) : (x \o y) \o z = x \o (y \o z)
      BY JoinsAssociate, SMT
    <3> QED
      BY <1>4, <1>6, <3>1
  <2>2. h \o b \in Seq(1 .. m) /\ Len(h \o b) = Len(h) + Len(b)
    BY <1>4, ConcatProperties
  <2> QED
    BY <1>7, <2>1, <2>2
<1>9. Len(b) + Len(r) = Len(q)
      /\ Len(r) = IF s \in Sized /\ Len(q) > BatchSize THEN Len(q) - BatchSize ELSE 0
  BY <1>4, <1>6, <1>l
<1> QED
  BY <1>4, <1>6, <1>8, <1>9 DEF Splits, b, r

\* What has been handed out is rising even if the rest of the queue is dropped.
LEMMA RisingPrefix ==
  ASSUME NEW m \in Nat, NEW h \in Seq(1 .. m), NEW q \in Seq(1 .. m), Rising(h \o q)
  PROVE  Rising(h) /\ Rising(h \o <<>>)
<1>1. /\ DOMAIN (h \o q) = 1 .. Len(h) + Len(q) /\ Len(h) \in Nat /\ Len(q) \in Nat
      /\ \A i \in 1 .. Len(h) + Len(q) :
               (h \o q)[i] = IF i <= Len(h) THEN h[i] ELSE q[i - Len(h)]
  BY JoinedAt
<1>2. DOMAIN h = 1 .. Len(h)
  BY LenProperties
<1>3. \A i \in 1 .. Len(h) : i \in DOMAIN (h \o q) /\ h[i] = (h \o q)[i]
  BY <1>1, SMT
<1>4. Rising(h)
  BY <1>2, <1>3 DEF Rising
<1> QED
  BY <1>4, ConcatEmptySeq

-----------------------------------------------------------------------------
(* One subscription. *)

\* Until the next event the bound m only grows.
LEMMA SoundLater ==
  ASSUME NEW s, NEW status, NEW h, NEW q, NEW d, NEW n, NEW m \in Nat,
         Sound(s, status, h, q, d, n, m), NEW status2, status2 = "new" => status = "new"
  PROVE  Sound(s, status2, h, q, d, n, m + 1) /\ Sound(s, status2, h, q, d, n, m)
<1>1. 1 .. m \subseteq 1 .. m + 1
  BY SMT
<1>2. h \in Seq(1 .. m + 1) /\ q \in Seq(1 .. m + 1)
  BY <1>1, SeqMonotonic DEF Sound
<1> QED
  BY <1>2 DEF Sound

\* The event goes to the callback at once.
LEMMA SoundHanded ==
  ASSUME NEW s \in Sub, NEW status, NEW h, NEW d, NEW n, NEW m \in Nat, NEW q,
         Sound(s, status, h, q, d, n, m), s \notin Batched, NEW status2, status2 # "new"
  PROVE  Sound(s, status2, Append(h, m + 1), q, d, n + 1, m + 1)
<1>1. q = <<>> /\ h \in Seq(1 .. m) /\ s \notin Sized
  BY DEF Sound, Batched
<1>2. /\ h \o <<>> = h /\ <<>> \o h = h /\ <<>> \in Seq(1 .. m) /\ Len(<<>>) = 0
      /\ Len(h) \in Nat
  BY <1>1, ConcatEmptySeq, EmptySeq, LenProperties
<1>3. Rising(<<>> \o h)
  BY <1>1, <1>2 DEF Sound
<1>4. /\ Append(h, m + 1) \in Seq(1 .. m + 1) /\ Len(Append(h, m + 1)) = Len(h) + 1
      /\ Rising(<<>> \o Append(h, m + 1))
  BY <1>1, <1>2, <1>3, RisingAppend
<1>5. /\ <<>> \o Append(h, m + 1) = Append(h, m + 1) /\ Append(h, m + 1) \o <<>> = Append(h, m + 1)
      /\ <<>> \in Seq(1 .. m + 1)
  BY <1>4, ConcatEmptySeq, EmptySeq
<1>6. n + 1 = Len(Append(h, m + 1)) + Len(q) + d /\ d \in Nat /\ n + 1 \in Nat
  BY <1>1, <1>2, <1>4, SMT DEF Sound
<1> QED
  BY <1>1, <1>4, <1>5, <1>6 DEF Sound

\* The event goes to the queue, of which a full batch is flushed.
LEMMA SoundQueued ==
  ASSUME NEW s \in Sub, NEW status, NEW h, NEW q, NEW d, NEW n, NEW m \in Nat,
         Sound(s, status, h, q, d, n, m), s \in Batched, NEW status2, status2 # "new",
         NEW q2, q2 = Enqueue(q, m + 1),
         NEW d2, d2 = d + (IF Len(q) >= MaxQueue THEN 1 ELSE 0)
  PROVE  /\ Flushes(s, q2) => Sound(s, status2, h \o Batch(s, q2), Rest(s, q2), d2, n + 1, m + 1)
         /\ ~Flushes(s, q2) => Sound(s, status2, h, q2, d2, n + 1, m + 1)
<1> DEFINE k == IF Len(q) >= MaxQueue THEN Tail(q) ELSE q
<1>1. /\ h \in Seq(1 .. m) /\ q \in Seq(1 .. m) /\ Rising(h \o q) /\ n = Len(h) + Len(q) + d
      /\ d \in Nat /\ n \in Nat /\ Len(q) \in Nat /\ Len(h) \in Nat
      /\ s \in Sized => Len(q) < BatchSize
  BY LenProperties DEF Sound
<1>2. q = <<>> => Len(q) = 0
  BY EmptySeq
<1>3. /\ k \in Seq(1 .. m) /\ Rising(h \o k) /\ d2 \in Nat
      /\ Len(k) \in Nat /\ Len(k) + d2 = Len(q) + d /\ Len(k) <= Len(q)
  <2>1. CASE Len(q) >= MaxQueue
    <3>1. q # <<>>
      BY <1>2, <2>1, DeliveryConstants, SMT
    <3>2. Tail(q) \in Seq(1 .. m) /\ Len(Tail(q)) = Len(q) - 1 /\ Len(q) >= 1 /\ Rising(h \o Tail(q))
      BY <1>1, <3>1, RisingTail
    <3> QED
      BY <1>1, <2>1, <3>2
  <2>2. CASE ~(Len(q) >= MaxQueue)
    BY <1>1, <2>2
  <2> QED
    BY <2>1, <2>2
<1>4. q2 = Append(k, m + 1)
  BY DEF Enqueue
<1> HIDE DEF k
<1>5. q2 \in Seq(1 .. m + 1) /\ Len(q2) = Len(k) + 1 /\ Rising(h \o q2)
  BY <1>1, <1>3, <1>4, RisingAppend
<1>6. n + 1 = Len(h) + Len(q2) + d2 /\ n + 1 \in Nat /\ m + 1 \in Nat /\ Len(q2) \in Nat
  <2>1. Len(q2) \in Nat
    BY <1>5, LenProperties
  <2>2. n + 1 = Len(h) + Len(q2) + d2
    <3> DEFINE a == Len(h)
               b == Len(q)
               c == Len(k)
               x == Len(q2)
    <3>1. /\ a \in Nat /\ b \in Nat /\ c \in Nat /\ x \in Nat /\ d \in Nat /\ d2 \in Nat
          /\ n = a + b + d /\ c + d2 = b + d /\ x = c + 1
      BY <1>1, <1>3, <1>5, <2>1
    <3> HIDE DEF a, b, c, x
    <3>2. n + 1 = a + x + d2
      BY <3>1, SMT
    <3> QED
      BY <3>2 DEF a, x
  <2> QED
    BY <1>1, <2>1, <2>2, SMT
<1>7. h \in Seq(1 .. m + 1)
  <2>1. 1 .. m \subseteq 1 .. m + 1
    BY SMT
  <2> QED
    BY <1>1, <2>1, SeqMonotonic
<1>8. ASSUME Flushes(s, q2)
      PROVE  Sound(s, status2, h \o Batch(s, q2), Rest(s, q2), d2, n + 1, m + 1)
  <2>0. Splits(s, h, q2, m + 1)
    BY <1>5, <1>6, <1>7, FlushSplits
  <2>1. /\ Rest(s, q2) \in Seq(1 .. m + 1) /\ h \o Batch(s, q2) \in Seq(1 .. m + 1)
        /\ Len(h \o Batch(s, q2)) = Len(h) + Len(Batch(s, q2))
        /\ Len(Batch(s, q2)) + Len(Rest(s, q2)) = Len(q2)
        /\ (h \o Batch(s, q2)) \o Rest(s, q2) = h \o q2
        /\ Len(Rest(s, q2)) = IF s \in Sized /\ Len(q2) > BatchSize THEN Len(q2) - BatchSize ELSE 0
        /\ Batch(s, q2) \in Seq(1 .. m + 1)
    BY <2>0 DEF Splits
  <2>2. Len(Batch(s, q2)) \in Nat /\ Len(Rest(s, q2)) \in Nat
    BY <2>1, LenProperties
  <2>3. n + 1 = Len(h \o Batch(s, q2)) + Len(Rest(s, q2)) + d2
    <3>1. n + 1 = (Len(h) + Len(Batch(s, q2))) + Len(Rest(s, q2)) + d2
      <4> DEFINE a == Len(h)
                 b == Len(Batch(s, q2))
                 c == Len(Rest(s, q2))
                 x == Len(q2)
      <4>1. /\ a \in Nat /\ b \in Nat /\ c \in Nat /\ x \in Nat /\ d2 \in Nat
            /\ n + 1 = a + x + d2 /\ b + c = x
        BY <1>1, <1>3, <1>6, <2>1, <2>2
      <4> HIDE DEF a, b, c, x
      <4>2. n + 1 = (a + b) + c + d2
        BY <4>1, SMT
      <4> QED
        BY <4>2 DEF a, b, c
    <3> QED
      BY <2>1, <3>1
  <2>4. s \in Sized => Len(Rest(s, q2)) < BatchSize
    <3>1. s \in Sized => Len(q2) <= BatchSize
      BY <1>1, <1>3, <1>5, DeliveryConstants
    <3>2. s \in Sized => (IF Len(q2) > BatchSize THEN Len(q2) - BatchSize ELSE 0) = 0
                         /\ 0 < BatchSize
      BY <1>6, <3>1, RestBelow, DeliveryConstants
    <3> QED
      BY <2>1, <3>2
  <2> QED
    BY <1>3, <1>5, <1>6, <2>1, <2>3, <2>4 DEF Sound
<1>9. ASSUME ~Flushes(s, q2) PROVE Sound(s, status2, h, q2, d2, n + 1, m + 1)
  <2>1. s \in Sized => Len(q2) < BatchSize
    BY <1>6, <1>9, DeliveryConstants DEF Flushes
  <2> QED
    BY <1>3, <1>5, <1>6, <1>7, <2>1 DEF Sound
<1> QED
  BY <1>8, <1>9

\* A flush by the timer, and the one of unsubscribe, after which the queue is emptied.
LEMMA SoundFlushed ==
  ASSUME NEW s \in Sub, NEW status, NEW h, NEW q, NEW d, NEW n, NEW m \in Nat,
         Sound(s, status, h, q, d, n, m), NEW status2, status2 # "new"
  PROVE  /\ Sound(s, status2, h \o Batch(s, q), Rest(s, q), d, n, m)
         /\ Sound(s, status2, h \o Batch(s, q), <<>>, d, n, m)
<1>1. /\ h \in Seq(1 .. m) /\ q \in Seq(1 .. m) /\ Rising(h \o q) /\ n = Len(h) + Len(q) + d
      /\ d \in Nat /\ n \in Nat /\ Len(q) \in Nat /\ Len(h) \in Nat
      /\ s \in Sized => Len(q) < BatchSize
      /\ s \notin Batched => q = <<>>
  BY LenProperties DEF Sound
<1>0. Splits(s, h, q, m)
  BY <1>1, FlushSplits
<1>2. /\ Rest(s, q) \in Seq(1 .. m) /\ h \o Batch(s, q) \in Seq(1 .. m)
      /\ Len(h \o Batch(s, q)) = Len(h) + Len(Batch(s, q))
      /\ Len(Batch(s, q)) + Len(Rest(s, q)) = Len(q)
      /\ (h \o Batch(s, q)) \o Rest(s, q) = h \o q
      /\ Len(Rest(s, q)) = IF s \in Sized /\ Len(q) > BatchSize THEN Len(q) - BatchSize ELSE 0
      /\ Batch(s, q) \in Seq(1 .. m)
  BY <1>0 DEF Splits
<1>3. Len(Rest(s, q)) = 0 /\ Rest(s, q) = <<>>
  <2>1. Len(Rest(s, q)) = 0
    BY <1>1, <1>2, DeliveryConstants
  <2> QED
    BY <1>2, <2>1, EmptySeq
<1>4. Len(Batch(s, q)) \in Nat /\ Len(<<>>) = 0
  BY <1>2, LenProperties, EmptySeq
<1>5. n = Len(h \o Batch(s, q)) + Len(<<>>) + d /\ (s \in Sized => Len(<<>>) < BatchSize)
  <2>1. n = (Len(h) + Len(Batch(s, q))) + Len(Rest(s, q)) + d
    <3> DEFINE a == Len(h)
               b == Len(Batch(s, q))
               c == Len(Rest(s, q))
               x == Len(q)
    <3>1. /\ a \in Nat /\ b \in Nat /\ c \in Nat /\ x \in Nat /\ d \in Nat
          /\ n = a + x + d /\ b + c = x
      BY <1>1, <1>2, <1>3, <1>4
    <3> HIDE DEF a, b, c, x
    <3>2. n = (a + b) + c + d
      BY <3>1, SMT
    <3> QED
      BY <3>2 DEF a, b, c
  <2> QED
    BY <1>2, <1>3, <1>4, <2>1, DeliveryConstants
<1> QED
  BY <1>1, <1>2, <1>3, <1>5 DEF Sound

-----------------------------------------------------------------------------
(* What is remembered of the ids received. *)

\* An id that was not remembered can be: among the last ids received none comes twice.
LEMMA RememberedKeeps ==
  ASSUME NEW seen, NEW ids, NEW e \in EventId, Remembers(seen, ids), ~Contains(seen, e)
  PROVE  Remembers(Remembered(Append(seen, e)), Append(ids, e))
<1> DEFINE n == Len(ids)
           k == Len(seen)
           w == 2 * History
           ids2 == Append(ids, e)
           all == Append(seen, e)
           seen2 == Remembered(all)
<1>1. /\ ids \in Seq(EventId) /\ seen \in Seq(EventId) /\ n \in Nat /\ k \in Nat
      /\ w \in Nat /\ w >= 2 /\ k = (IF n <= w THEN n ELSE w)
      /\ \A j \in 1 .. k : seen[j] = ids[n - k + j]
      /\ \A i, j \in 1 .. n : i < j /\ j - i <= w => ids[i] # ids[j]
      /\ \A j \in 1 .. k : seen[j] # e
  <2>1. w \in Nat /\ w >= 2
    BY DeliveryConstants, SMT
  <2>2. \A j \in 1 .. k : seen[j] # e
    BY DEF Contains
  <2> QED
    BY <2>1, <2>2, LenProperties DEF Remembers
<1>2. /\ ids2 \in Seq(EventId) /\ Len(ids2) = n + 1 /\ ids2[n + 1] = e
      /\ \A i \in 1 .. n : ids2[i] = ids[i]
  BY <1>1, AppendProperties
<1>3. /\ all \in Seq(EventId) /\ Len(all) = k + 1 /\ all[k + 1] = e /\ all # <<>>
      /\ \A i \in 1 .. k : all[i] = seen[i]
  BY <1>1, AppendProperties
<1>4. /\ Tail(all) \in Seq(EventId) /\ Len(Tail(all)) = k + 1 - 1
      /\ \A i \in 1 .. Len(Tail(all)) : Tail(all)[i] = all[i + 1]
  BY <1>3, HeadTailProperties
<1>5. w = 2 * History
  OBVIOUS
<1>6. seen2 = IF k + 1 > w THEN Tail(all) ELSE all
  BY <1>3 DEF Remembered
<1> HIDE DEF n, k, w, ids2, all, seen2
<1>7. ASSUME NEW i \in 1 .. k + 1 PROVE all[i] = ids2[n + 1 - (k + 1) + i]
  <2>1. CASE i \in 1 .. k
    <3>1. all[i] = ids[n - k + i]
      BY <1>1, <1>3, <2>1
    <3>2. n - k + i \in 1 .. n /\ n - k + i = n + 1 - (k + 1) + i
      BY <1>1, <2>1, SMT
    <3> QED
      BY <1>2, <3>1, <3>2
  <2>2. CASE i = k + 1
    <3>1. n + 1 - (k + 1) + i = n + 1
      BY <1>1, <2>2, SMT
    <3> QED
      BY <1>2, <1>3, <2>2, <3>1
  <2> QED
    BY <1>1, <2>1, <2>2, SMT
<1>8. /\ seen2 \in Seq(EventId)
      /\ Len(seen2) = IF n + 1 <= w THEN n + 1 ELSE w
      /\ \A i \in 1 .. Len(seen2) : seen2[i] = ids2[n + 1 - Len(seen2) + i]
  <2>1. CASE k + 1 > w
    <3>1. seen2 = Tail(all) /\ Len(seen2) = k
      BY <1>1, <1>4, <1>6, <2>1
    <3>2. k = w /\ ~(n + 1 <= w)
      BY <1>1, <2>1, SMT
    <3>3. ASSUME NEW i \in 1 .. k PROVE seen2[i] = ids2[n + 1 - k + i]
      <4>1. seen2[i] = all[i + 1]
        BY <1>4, <3>1
      <4>2. i + 1 \in 1 .. k + 1 /\ n + 1 - (k + 1) + (i + 1) = n + 1 - k + i
        BY <1>1, SMT
      <4> QED
        BY <1>7, <4>1, <4>2
    <3> QED
      BY <1>4, <3>1, <3>2, <3>3
  <2>2. CASE ~(k + 1 > w)
    <3>1. seen2 = all /\ Len(seen2) = k + 1
      BY <1>3, <1>6, <2>2
    <3>2. n + 1 <= w /\ k + 1 = n + 1
      BY <1>1, <2>2, SMT
    <3> QED
      BY <1>3, <1>7, <3>1, <3>2
  <2> QED
    BY <2>1, <2>2
<1>9. ASSUME NEW i \in 1 .. n + 1, NEW j \in 1 .. n + 1, i < j, j - i <= w
      PROVE  ids2[i] # ids2[j]
  <2>1. i \in 1 .. n /\ ids2[i] = ids[i]
    <3>1. i \in 1 .. n
      BY <1>1, <1>9, SMT
    <3> QED
      BY <1>2, <3>1
  <2>2. CASE j \in 1 .. n
    BY <1>1, <1>2, <1>9, <2>1, <2>2
  <2>3. CASE j = n + 1
    <3>1. i - (n - k) \in 1 .. k /\ n - k + (i - (n - k)) = i
      BY <1>1, <1>9, <2>1, <2>3, SMT
    <3>2. ids[i] # e
      <4>1. seen[i - (n - k)] = ids[n - k + (i - (n - k))] /\ seen[i - (n - k)] # e
        BY <1>1, <3>1
      <4> QED
        BY <3>1, <4>1
    <3> QED
      BY <1>2, <2>1, <2>3, <3>2
  <2> QED
    BY <1>1, <2>2, <2>3, SMT
<1>10. /\ Len(seen2) = IF Len(ids2) <= w THEN Len(ids2) ELSE w
       /\ \A i \in 1 .. Len(seen2) : seen2[i] = ids2[Len(ids2) - Len(seen2) + i]
       /\ \A i, j \in 1 .. Len(ids2) : i < j /\ j - i <= w => ids2[i] # ids2[j]
  <2>1. Len(ids2) = n + 1
    BY <1>2
  <2>2. \A i, j \in 1 .. n + 1 : i < j /\ j - i <= w => ids2[i] # ids2[j]
    BY <1>9
  <2>3. Len(seen2) = IF Len(ids2) <= w THEN Len(ids2) ELSE w
    BY <2>1, <1>8
  <2>4. ASSUME NEW i \in 1 .. Len(seen2) PROVE seen2[i] = ids2[Len(ids2) - Len(seen2) + i]
    <3>1. Len(seen2) \in Nat
      BY <1>8, LenProperties
    <3>2. Len(ids2) - Len(seen2) + i = n + 1 - Len(seen2) + i
      BY <1>1, <2>1, <3>1
    <3> QED
      BY <1>8, <3>2
  <2>5. \A i, j \in 1 .. Len(ids2) : i < j /\ j - i <= w => ids2[i] # ids2[j]
    BY <2>1, <2>2
  <2> QED
    BY <2>3, <2>4, <2>5
<1>11. Remembers(seen2, ids2)
  BY <1>2, <1>5, <1>8, <1>10 DEF Remembers
<1> QED
  BY <1>11 DEF seen2, all, ids2

\* Ids that differ when they are close leave as many others between two that do not.
LEMMA FarApart ==
  ASSUME NEW ids \in Seq(EventId), NEW w \in Nat,
         \A i, j \in 1 .. Len(ids) : i < j /\ j - i <= w => ids[i] # ids[j],
         NEW i \in 1 .. Len(ids), NEW j \in 1 .. Len(ids), i < j, ids[i] = ids[j]
  PROVE  Cardinality({ids[k] : k \in i + 1 .. j - 1}) >= w
<1> DEFINE T == {ids[k] : k \in i + 1 .. j - 1}
           near == i + 1 .. i + w
           f == [k \in near |-> ids[k]]
           g == [k \in i + 1 .. j - 1 |-> ids[k]]
<1>1. Len(ids) \in Nat
  BY LenProperties
<1>2. j - i > w
  BY <1>1, SMT
<1>3. near \subseteq i + 1 .. j - 1 /\ \A k \in near : k \in 1 .. Len(ids)
  BY <1>1, <1>2, SMT
<1>4. \A k, l \in near : k < l => l - k <= w
  BY <1>1, SMT
<1>5. \A k, l \in near : ids[k] = ids[l] => k = l
  <2> SUFFICES ASSUME NEW k \in near, NEW l \in near, k # l PROVE ids[k] # ids[l]
    OBVIOUS
  <2>1. k < l \/ l < k
    BY <1>1, SMT
  <2> QED
    BY <1>3, <1>4, <2>1
<1>6. IsFiniteSet(T)
  <2>1. g \in Surjection(i + 1 .. j - 1, T)
    BY DEF Surjection
  <2>2. IsFiniteSet(i + 1 .. j - 1)
    BY <1>1, FS_Interval, SMT
  <2> QED
    BY <2>1, <2>2, FS_Surjection
<1>7. f \in Injection(near, T)
  <2>1. f \in [near -> T]
    BY <1>3
  <2> QED
    BY <1>5, <2>1 DEF Injection, IsInjective
<1>8. Cardinality(near) = w
  BY <1>1, FS_Interval, SMT
<1>9. Cardinality(near) <= Cardinality(T) /\ Cardinality(T) \in Nat
  BY <1>6, <1>7, FS_Injection, FS_CardinalityType
<1> HIDE DEF T, near
<1> QED
  BY <1>8, <1>9 DEF T

-----------------------------------------------------------------------------
(* Every step. *)

\* The invariant holds before anything was received.
LEMMA DeliveryInitially == DeliveryInit => DeliveryInv
<1> SUFFICES ASSUME DeliveryInit PROVE DeliveryInv
  OBVIOUS
<1>1. Len(<<>>) = 0 /\ \A S : <<>> \in Seq(S)
  BY EmptySeq
<1>2. Len(received) = 0 /\ received = <<>> /\ seenEventIds = <<>>
  BY <1>1 DEF DeliveryInit
<1>3. \A s \in Sub : Sound(s, "new", <<>>, <<>>, 0, 0, 0)
  <2>1. <<>> \o <<>> = <<>> /\ DOMAIN <<>> = 1 .. 0 /\ <<>> \in Seq(1 .. 0)
    BY <1>1, ConcatEmptySeq, LenProperties
  <2>2. Rising(<<>> \o <<>>)
    BY <2>1, SMT DEF Rising
  <2> QED
    BY <1>1, <2>1, <2>2, DeliveryConstants, SMT DEF Sound
<1>4. SubscriptionsSound
  BY <1>2, <1>3 DEF DeliveryInit, SubscriptionsSound
<1>5. Remembers(<<>>, <<>>)
  BY <1>1, DeliveryConstants, SMT DEF Remembers
<1> QED
  BY <1>2, <1>4, <1>5 DEF DeliveryInv

\* A step that touches one subscription and receives nothing.
LEMMA OneKeeps ==
  ASSUME DeliveryInv, UNCHANGED <<kind, inbox, dropped>>, NEW t \in Sub,
         NEW status, subscription' = [subscription EXCEPT ![t] = status],
         NEW h, handed' = [handed EXCEPT ![t] = h],
         NEW q, eventQueue' = [eventQueue EXCEPT ![t] = q],
         NEW n, enqueued' = [enqueued EXCEPT ![t] = n],
         Sound(t, status, h, q, dropped[t], n, Len(received))
  PROVE  DeliveryInv'
<1>1. /\ received' = received /\ seenEventIds' = seenEventIds
      /\ dropped' = dropped /\ kind' = kind
  BY DEF inbox
<1>2. Batched' = Batched /\ Sized' = Sized
  BY <1>1 DEF Batched, Sized, Timed
<1>3. \A s \in Sub :
        /\ subscription'[s] = IF s = t THEN status ELSE subscription[s]
        /\ handed'[s] = IF s = t THEN h ELSE handed[s]
        /\ eventQueue'[s] = IF s = t THEN q ELSE eventQueue[s]
        /\ enqueued'[s] = IF s = t THEN n ELSE enqueued[s]
  BY DEF DeliveryInv, SubscriptionsSound
<1>4. \A s \in Sub :
        Sound(s, subscription'[s], handed'[s], eventQueue'[s], dropped'[s], enqueued'[s],
              Len(received'))
  BY <1>1, <1>3 DEF DeliveryInv, SubscriptionsSound
<1>5. SubscriptionsSound'
  BY <1>1, <1>2, <1>4 DEF DeliveryInv, SubscriptionsSound, Sound
<1> QED
  BY <1>1, <1>5 DEF DeliveryInv, Remembers

\* An event is received, or dropped as one seen before.
LEMMA ReceiveKeeps ==
  ASSUME DeliveryInv, NEW e \in EventId, Receive(e)
  PROVE  DeliveryInv'
<1> DEFINE m == Len(received)
<1>1. received \in Seq(EventId) /\ m \in Nat
  BY LenProperties DEF DeliveryInv, Remembers
<1>2. Len(Append(received, e)) = m + 1
  BY <1>1, AppendProperties
<1>3. /\ received' = Append(received, e) /\ kind' = kind
      /\ seenEventIds' = Remembered(Append(seenEventIds, e)) /\ ~Contains(seenEventIds, e)
  BY DEF Receive
<1>4. Remembers(seenEventIds, received)'
  <2>1. Remembers(seenEventIds', received')
    BY <1>3, RememberedKeeps DEF DeliveryInv
  <2> QED
    BY <2>1 DEF Remembers
<1>5. Batched' = Batched /\ Sized' = Sized
  BY <1>3 DEF Batched, Sized, Timed
<1>6. ASSUME NEW s \in Sub
      PROVE  Sound(s, subscription'[s], handed'[s], eventQueue'[s], dropped'[s], enqueued'[s], m + 1)
  <2> DEFINE q2 == Enqueue(eventQueue[s], m + 1)
             reached == {u \in Sub : subscription[u] = "active"}
             status2 == IF s \in reached \cap Once THEN "gone" ELSE subscription[s]
  <2>0. /\ Sound(s, subscription[s], handed[s], eventQueue[s], dropped[s], enqueued[s], m)
        /\ dropped[s] \in Nat /\ enqueued[s] \in Nat
    BY DEF DeliveryInv, SubscriptionsSound, Sound
  <2>1. /\ subscription'[s] = status2
        /\ enqueued'[s] = enqueued[s] + (IF s \in reached THEN 1 ELSE 0)
        /\ dropped'[s] = dropped[s] + (IF s \in reached \cap Batched /\ Len(eventQueue[s]) >= MaxQueue
                                       THEN 1 ELSE 0)
        /\ eventQueue'[s] = (IF s \notin reached \cap Batched THEN eventQueue[s]
                             ELSE IF Flushes(s, q2) THEN Rest(s, q2) ELSE q2)
        /\ handed'[s] = (IF s \notin reached THEN handed[s]
                         ELSE IF s \notin Batched THEN Append(handed[s], m + 1)
                         ELSE IF Flushes(s, q2) THEN handed[s] \o Batch(s, q2) ELSE handed[s])
    BY DEF Receive
  <2> HIDE DEF m, q2, status2
  <2>2. CASE s \notin reached
    <3>1. /\ subscription'[s] = subscription[s] /\ enqueued'[s] = enqueued[s]
          /\ dropped'[s] = dropped[s] /\ eventQueue'[s] = eventQueue[s] /\ handed'[s] = handed[s]
      BY <2>0, <2>1, <2>2 DEF status2
    <3> QED
      BY <1>1, <2>0, <3>1, SoundLater
  <2>3. CASE s \in reached
    <3>1. status2 # "new" /\ enqueued'[s] = enqueued[s] + 1
      BY <2>1, <2>3 DEF status2
    <3>2. CASE s \notin Batched
      <4>1. /\ handed'[s] = Append(handed[s], m + 1) /\ eventQueue'[s] = eventQueue[s]
            /\ dropped'[s] = dropped[s]
        BY <2>0, <2>1, <2>3, <3>2
      <4> QED
        BY <1>1, <2>0, <2>1, <3>1, <3>2, <4>1, SoundHanded
    <3>3. CASE s \in Batched
      <4>1. /\ dropped'[s] = dropped[s] + (IF Len(eventQueue[s]) >= MaxQueue THEN 1 ELSE 0)
            /\ eventQueue'[s] = (IF Flushes(s, q2) THEN Rest(s, q2) ELSE q2)
            /\ handed'[s] = (IF Flushes(s, q2) THEN handed[s] \o Batch(s, q2) ELSE handed[s])
        BY <2>1, <2>3, <3>3
      <4>2. q2 = Enqueue(eventQueue[s], m + 1)
        BY DEF q2
      <4>3. /\ Flushes(s, q2) => Sound(s, status2, handed[s] \o Batch(s, q2), Rest(s, q2),
                                       dropped'[s], enqueued[s] + 1, m + 1)
            /\ ~Flushes(s, q2) => Sound(s, status2, handed[s], q2,
                                        dropped'[s], enqueued[s] + 1, m + 1)
        BY <1>1, <2>0, <3>1, <3>3, <4>1, <4>2, SoundQueued
      <4> QED
        BY <2>1, <3>1, <4>1, <4>3
    <3> QED
      BY <3>2, <3>3
  <2> QED
    BY <2>2, <2>3
<1>7. SubscriptionsSound'
  <2>1. Len(received') = m + 1
    BY <1>2, <1>3
  <2>2. /\ handed' = [s \in Sub |-> handed'[s]] /\ eventQueue' = [s \in Sub |-> eventQueue'[s]]
        /\ dropped' = [s \in Sub |-> dropped'[s]] /\ enqueued' = [s \in Sub |-> enqueued'[s]]
        /\ subscription' = [s \in Sub |-> subscription'[s]]
    BY DEF Receive
  <2> QED
    BY <1>5, <1>6, <2>1, <2>2 DEF SubscriptionsSound, Sound
<1> QED
  BY <1>4, <1>7 DEF DeliveryInv

\* The replayed history is rising, and nothing in it is yet to come.
LEMMA ReplaySound ==
  ASSUME DeliveryInv, NEW s \in Sub, subscription[s] = "new"
  PROVE  Sound(s, "active", Replayed, <<>>, dropped[s], Len(Replayed), Len(received))
<1> DEFINE m == Len(received)
           c == m - Forgotten
<1>1. m \in Nat /\ Forgotten \in 0 .. m /\ c \in Nat
  <2>1. m \in Nat
    BY LenProperties DEF DeliveryInv, Remembers
  <2>2. Forgotten = IF m > History THEN m - History ELSE 0
    BY DEF Forgotten
  <2> HIDE DEF m
  <2> QED
    BY <2>1, <2>2, DeliveryConstants, SMT
<1>2. Replayed = [i \in 1 .. c |-> Forgotten + i]
  BY DEF Replayed
<1>3. \A i \in 1 .. c : Forgotten + i \in 1 .. m
  <2> HIDE DEF m
  <2> QED
    BY <1>1, SMT
<1>4. dropped[s] = 0
  BY DEF DeliveryInv, SubscriptionsSound, Sound
<1> HIDE DEF c, m
<1>5. Replayed \in [1 .. c -> 1 .. m]
  BY <1>2, <1>3
<1>6. Replayed \in Seq(1 .. m) /\ Len(Replayed) = c /\ DOMAIN Replayed = 1 .. c
  <2>1. Replayed \in Seq(1 .. m)
    BY <1>1, <1>5, SeqDef
  <2>2. Len(Replayed) \in Nat /\ DOMAIN Replayed = 1 .. Len(Replayed) /\ DOMAIN Replayed = 1 .. c
    BY <1>5, <2>1, LenProperties
  <2>3. Len(Replayed) = c
    <3>1. 1 .. Len(Replayed) = 1 .. c
      BY <2>2
    <3> QED
      BY <1>1, <2>2, <3>1, SameRange
  <2> QED
    BY <2>1, <2>2, <2>3
<1>7. Rising(Replayed)
  BY <1>1, <1>2, <1>6, SMT DEF Rising
<1>8. /\ Replayed \o <<>> = Replayed /\ <<>> \in Seq(1 .. m) /\ Len(<<>>) = 0
  BY <1>6, ConcatEmptySeq, EmptySeq
<1>9. Len(Replayed) = Len(Replayed) + Len(<<>>) + dropped[s]
  BY <1>1, <1>4, <1>6, <1>8
<1> QED
  BY <1>1, <1>4, <1>6, <1>7, <1>8, <1>9, DeliveryConstants DEF Sound, m

\* subscribe starts a subscription, with the replay of the history when it asks for one.
LEMMA SubscribeKeeps ==
  ASSUME DeliveryInv, NEW s \in Sub, Subscribe(s)
  PROVE  DeliveryInv'
<1>1. /\ subscription[s] = "new" /\ UNCHANGED <<kind, inbox, dropped>>
      /\ subscription' = [subscription EXCEPT ![s] = "active"] /\ eventQueue' = eventQueue
  BY DEF Subscribe
<1>0. Len(received) \in Nat
  BY LenProperties DEF DeliveryInv, Remembers
<1>2. /\ Sound(s, "new", handed[s], eventQueue[s], dropped[s], enqueued[s], Len(received))
      /\ eventQueue[s] = <<>> /\ Len(received) \in Nat
      /\ handed = [handed EXCEPT ![s] = handed[s]]
      /\ enqueued = [enqueued EXCEPT ![s] = enqueued[s]]
      /\ eventQueue = [eventQueue EXCEPT ![s] = eventQueue[s]]
  <2>1. /\ Sound(s, "new", handed[s], eventQueue[s], dropped[s], enqueued[s], Len(received))
        /\ handed = [handed EXCEPT ![s] = handed[s]]
        /\ enqueued = [enqueued EXCEPT ![s] = enqueued[s]]
        /\ eventQueue = [eventQueue EXCEPT ![s] = eventQueue[s]]
    BY <1>1 DEF DeliveryInv, SubscriptionsSound
  <2> QED
    BY <1>0, <2>1 DEF Sound
<1>3. CASE UNCHANGED <<handed, enqueued>>
  <2>1. Sound(s, "active", handed[s], eventQueue[s], dropped[s], enqueued[s], Len(received))
    BY <1>2, SoundLater
  <2> QED
    BY <1>1, <1>2, <1>3, <2>1, OneKeeps
<1>4. CASE /\ handed' = [handed EXCEPT ![s] = Replayed]
           /\ enqueued' = [enqueued EXCEPT ![s] = Len(Replayed)]
  BY <1>1, <1>2, <1>4, ReplaySound, OneKeeps
<1> QED
  BY <1>3, <1>4 DEF Subscribe

\* unsubscribe and the batch timer flush the queue.
LEMMA FlushesKeep ==
  ASSUME DeliveryInv, NEW s \in Sub, Unsubscribe(s) \/ BatchTick(s)
  PROVE  DeliveryInv'
<1>1. /\ UNCHANGED <<kind, inbox, dropped>> /\ enqueued' = enqueued
      /\ handed' = [handed EXCEPT ![s] = handed[s] \o Batch(s, eventQueue[s])]
  BY DEF Unsubscribe, FlushedFirst, BatchTick, tallies
<1>0. Len(received) \in Nat
  BY LenProperties DEF DeliveryInv, Remembers
<1>2. /\ Sound(s, subscription[s], handed[s], eventQueue[s], dropped[s], enqueued[s], Len(received))
      /\ Len(received) \in Nat
      /\ enqueued = [enqueued EXCEPT ![s] = enqueued[s]]
      /\ subscription = [subscription EXCEPT ![s] = subscription[s]]
  BY <1>0 DEF DeliveryInv, SubscriptionsSound
<1>3. CASE Unsubscribe(s)
  <2>1. Sound(s, "gone", handed[s] \o Batch(s, eventQueue[s]), <<>>, dropped[s], enqueued[s],
              Len(received))
    BY <1>2, SoundFlushed
  <2>2. /\ subscription' = [subscription EXCEPT ![s] = "gone"]
        /\ eventQueue' = [eventQueue EXCEPT ![s] = <<>>]
    BY <1>3 DEF Unsubscribe
  <2> QED
    BY <1>1, <1>2, <2>1, <2>2, OneKeeps
<1>4. CASE BatchTick(s)
  <2>1. eventQueue[s] # <<>> /\ subscription' = subscription
        /\ eventQueue' = [eventQueue EXCEPT ![s] = Rest(s, eventQueue[s])]
    BY <1>4 DEF BatchTick
  <2>2. subscription[s] # "new"
    BY <1>2, <2>1 DEF Sound
  <2>3. Sound(s, subscription[s], handed[s] \o Batch(s, eventQueue[s]), Rest(s, eventQueue[s]),
              dropped[s], enqueued[s], Len(received))
    BY <1>2, <2>2, SoundFlushed
  <2> QED
    BY <1>1, <1>2, <2>1, <2>3, OneKeeps
<1> QED
  BY <1>3, <1>4

\* Statuses other than the first are all alike.
LEMMA StatusKeeps ==
  ASSUME DeliveryInv, UNCHANGED <<kind, eventQueue, inbox, tallies>>,
         subscription' = [s \in Sub |-> subscription'[s]],
         \A s \in Sub : subscription'[s] = "new" => subscription[s] = "new"
  PROVE  DeliveryInv'
<1>1. Batched' = Batched /\ Sized' = Sized /\ Len(received) \in Nat
  BY LenProperties DEF Batched, Sized, Timed, DeliveryInv, Remembers
<1>2. \A s \in Sub :
        Sound(s, subscription'[s], handed[s], eventQueue[s], dropped[s], enqueued[s], Len(received))
  BY <1>1, SoundLater DEF DeliveryInv, SubscriptionsSound
<1>3. SubscriptionsSound'
  BY <1>1, <1>2 DEF DeliveryInv, SubscriptionsSound, Sound, inbox, tallies
<1> QED
  BY <1>3 DEF DeliveryInv, Remembers, inbox

\* Each step of the subscriber keeps the invariant.
LEMMA DeliveryStep ==
  ASSUME DeliveryInv, [DeliveryNext]_deliveryVars
  PROVE  DeliveryInv'
<1>0. subscription = [s \in Sub |-> subscription[s]]
  BY DEF DeliveryInv, SubscriptionsSound
<1>1. CASE UNCHANGED deliveryVars \/ StopBatchTimers
  BY <1>0, <1>1, StatusKeeps DEF deliveryVars, StopBatchTimers
<1>2. ASSUME NEW e \in EventId, Receive(e) PROVE DeliveryInv'
  BY <1>2, ReceiveKeeps
<1>3. ASSUME NEW s \in Sub, Subscribe(s) PROVE DeliveryInv'
  BY <1>3, SubscribeKeeps
<1>4. ASSUME NEW s \in Sub, Unsubscribe(s) \/ BatchTick(s) PROVE DeliveryInv'
  BY <1>4, FlushesKeep
<1>5. ASSUME NEW S, Paused(S) \/ Resumed(S) PROVE DeliveryInv'
  <2>1. /\ UNCHANGED <<kind, eventQueue, inbox, tallies>> /\ subscription' = [s \in Sub |-> subscription'[s]]
        /\ \A s \in Sub : subscription'[s] = "new" => subscription[s] = "new"
    BY <1>5 DEF Paused, Resumed
  <2> QED
    BY <2>1, StatusKeeps
<1> QED
  BY <1>1, <1>2, <1>3, <1>4, <1>5
     DEF DeliveryNext, Pause, Resume, PauseSubscriptions, ResumeSubscriptions

\* The invariant of the subscriber.
LEMMA DeliveryInvariance == DeliverySpec => []DeliveryInv
BY DeliveryInitially, DeliveryStep, PTL DEF DeliverySpec

\* Every subscription is handed each event at most once and in the order of arrival,
\* whatever the sizes of batch, queue and history: eventSubscriber.ts replays, queues,
\* flushes by size, by timer and on unsubscribe, pauses, resumes and overflows, and
\* drops ids it remembers.
THEOREM AlwaysInOrderOnce == DeliverySpec => []EachInOrderOnce
<1>1. DeliveryInv => EachInOrderOnce
  <2> SUFFICES ASSUME DeliveryInv PROVE EachInOrderOnce
    OBVIOUS
  <2>1. \A s \in Sub : InOrder(s) /\ AllCounted(s)
    BY DEF DeliveryInv, SubscriptionsSound, Sound, InOrder, AllCounted, Rising
  <2>2. /\ received \in Seq(EventId) /\ DOMAIN received = 1 .. Len(received)
        /\ 2 * History \in Nat
        /\ \A i, j \in 1 .. Len(received) : i < j /\ j - i <= 2 * History => received[i] # received[j]
    BY LenProperties, DeliveryConstants, SMT DEF DeliveryInv, Remembers
  <2>3. NoRepeat
    <3> SUFFICES ASSUME NEW i \in 1 .. Len(received), NEW j \in 1 .. Len(received),
                        i < j, received[i] = received[j]
                 PROVE  Cardinality({received[k] : k \in i + 1 .. j - 1}) >= 2 * History
      BY <2>2 DEF NoRepeat
    <3> QED
      BY <2>2, FarApart
  <2> QED
    BY <2>1, <2>3 DEF EachInOrderOnce
<1> QED
  BY <1>1, DeliveryInvariance, PTL

-----------------------------------------------------------------------------
(***************************************************************************)
(* GdprConsents: consents and withdrawals.                                 *)
(***************************************************************************)
Consent == [id : ConsentId, purpose : Purpose, revokedAt : Nat, until : Nat]

ConsentTypes ==
    /\ ticks \in Nat /\ ticks > 0
    /\ consents \in Seq(Consent)
    /\ \A mark \in withdrawn : mark[2] \in Nat /\ mark[2] <= Len(consents)

\* Exactly the consents that a withdrawal reached are marked.
MarkedWhenReached ==
    \A i \in 1 .. Len(consents) : consents[i].revokedAt > 0 <=> Reached(i)

ConsentInv == ConsentTypes /\ MarkedWhenReached

\* recordConsent adds a consent of now.
LEMMA RecordConsentKeeps ==
  ASSUME ConsentInv, NEW id \in ConsentId, NEW purpose \in Purpose, RecordConsent(id, purpose)
  PROVE  ConsentInv'
<1>1. PICK until \in 1 .. Never :
         consents' = Append(consents, [id |-> id, purpose |-> purpose, revokedAt |-> 0, until |-> until])
  BY DEF RecordConsent
<1> DEFINE c == [id |-> id, purpose |-> purpose, revokedAt |-> 0, until |-> until]
           n == Len(consents)
<1>2. c \in Consent /\ c.revokedAt = 0 /\ consents \in Seq(Consent) /\ n \in Nat
  BY ConsentsAssumption, SMT DEF Never, Consent, ConsentInv, ConsentTypes
<1> HIDE DEF c
<1>3. consents' = Append(consents, c) /\ withdrawn' = withdrawn /\ ticks' = ticks
  BY <1>1 DEF c, RecordConsent
<1>4. /\ consents' \in Seq(Consent)
      /\ Len(consents') = n + 1
      /\ \A i \in 1 .. n : consents'[i] = consents[i]
      /\ consents'[n + 1] = c
  BY <1>2, <1>3
<1>5. \A mark \in withdrawn : mark[2] \in Nat /\ mark[2] <= n
  BY DEF ConsentInv, ConsentTypes
<1>6. ASSUME NEW i \in 1 .. n PROVE consents'[i].revokedAt > 0 <=> Reached(i)'
  <2>1. consents[i].revokedAt > 0 <=> Reached(i)
    BY DEF ConsentInv, MarkedWhenReached
  <2>2. \A j \in 1 .. i - 1 : j \in 1 .. n
    BY <1>2, SMT
  <2>3. Reached(i)' <=> Reached(i)
    BY <1>3, <1>4, <2>2 DEF Reached
  <2> QED
    BY <1>4, <2>1, <2>3
<1>7. ASSUME NEW i \in 1 .. n + 1, i = n + 1 PROVE ~Reached(i)'
  BY <1>2, <1>3, <1>5, <1>7, SMT DEF Reached
<1>8. MarkedWhenReached'
  <2> SUFFICES ASSUME NEW i \in 1 .. n + 1 PROVE consents'[i].revokedAt > 0 <=> Reached(i)'
    BY <1>4 DEF MarkedWhenReached
  <2>1. i \in 1 .. n \/ i = n + 1
    BY <1>2, SMT
  <2>2. ~(consents'[n + 1].revokedAt > 0)
    BY <1>2, <1>4, SMT
  <2> QED
    <3>1. CASE i \in 1 .. n
      BY <3>1, <1>6
    <3>2. CASE i = n + 1
      <4>1. ~Reached(i)'
        BY <3>2, <1>7
      <4> QED
        BY <3>2, <2>2, <4>1
    <3> QED
      BY <2>1, <3>1, <3>2
<1>9. ConsentTypes'
  BY <1>2, <1>3, <1>4, <1>5, SMT DEF ConsentInv, ConsentTypes
<1> QED
  BY <1>8, <1>9 DEF ConsentInv

\* revokeConsent marks the first consent with the id.
LEMMA RevokeConsentKeeps ==
  ASSUME ConsentInv, NEW id \in ConsentId, RevokeConsent(id)
  PROVE  ConsentInv'
<1> USE DEF ConsentInv, ConsentTypes
<1> DEFINE n == Len(consents)
<1>1. n \in Nat /\ DOMAIN consents = 1 .. n /\ \A i \in 1 .. n : consents[i] \in Consent
  OBVIOUS
<1>2. consents' = [i \in 1 .. n |-> IF i \in Found(id) THEN [consents[i] EXCEPT !.revokedAt = ticks]
                                                       ELSE consents[i]]
  BY <1>1 DEF RevokeConsent
<1>3. \A i \in 1 .. n : /\ consents'[i] \in Consent
                        /\ consents'[i].id = consents[i].id
                        /\ i \in Found(id) => consents'[i].revokedAt = ticks
                        /\ i \notin Found(id) => consents'[i].revokedAt = consents[i].revokedAt
  BY <1>1, <1>2 DEF Consent
<1>4. consents' \in Seq(Consent) /\ Len(consents') = n
  BY <1>1, <1>2, <1>3
<1>5. withdrawn' = withdrawn \cup {<<id, n>>} /\ ticks' = ticks
  BY DEF RevokeConsent
<1>6. ASSUME NEW i \in 1 .. n PROVE consents'[i].revokedAt > 0 <=> Reached(i)'
  <2> DEFINE first == \A j \in 1 .. i - 1 : consents[j].id # consents[i].id
             marked == \E mark \in withdrawn : mark[1] = consents[i].id /\ mark[2] >= i
  <2>1. \A j \in 1 .. i - 1 : j \in 1 .. n
    BY <1>1, SMT
  <2>2. consents[i].revokedAt > 0 <=> first /\ marked
    BY DEF MarkedWhenReached, Reached
  <2>3. Reached(i)' <=> first /\ (marked \/ id = consents[i].id)
    <3>1. Reached(i)' <=> first /\ \E mark \in withdrawn' : mark[1] = consents[i].id /\ mark[2] >= i
      BY <1>3, <2>1 DEF Reached
    <3>2. <<id, n>>[2] >= i /\ <<id, n>>[1] = id
      BY <1>1, SMT
    <3> QED
      BY <1>5, <3>1, <3>2
  <2>4. i \in Found(id) <=> first /\ id = consents[i].id
    <3>1. ASSUME i \in Found(id) PROVE first /\ id = consents[i].id
      <4>1. id = consents[i].id /\ \A j \in 1 .. n : consents[j].id = id => i <= j
        BY <1>1, <3>1 DEF Found, Under
      <4>2. \A j \in 1 .. i - 1 : j \in 1 .. n /\ ~(i <= j)
        BY <1>1, SMT
      <4> QED
        BY <4>1, <4>2
    <3>2. ASSUME first, id = consents[i].id PROVE i \in Found(id)
      <4>1. \A j \in 1 .. n : i <= j \/ j \in 1 .. i - 1
        BY <1>1, SMT
      <4> QED
        BY <1>1, <3>2, <4>1 DEF Found, Under
    <3> QED
      BY <3>1, <3>2
  <2> HIDE DEF first, marked
  <2>5. CASE i \in Found(id)
    BY <1>3, <2>3, <2>4, <2>5
  <2>6. CASE i \notin Found(id)
    <3>1. consents'[i].revokedAt = consents[i].revokedAt
      BY <1>3, <2>6
    <3> QED
      BY <2>2, <2>3, <2>4, <2>6, <3>1
  <2> QED
    BY <2>5, <2>6
<1>7. MarkedWhenReached'
  BY <1>4, <1>6 DEF MarkedWhenReached
<1>8. ConsentTypes'
  BY <1>1, <1>4, <1>5, SMT
<1> QED
  BY <1>7, <1>8

\* The invariant of the consents.
LEMMA ConsentInvariance == ConsentsSpec => []ConsentInv
<1>1. ConsentsInit => ConsentInv
  BY SMT DEF ConsentsInit, ConsentInv, ConsentTypes, MarkedWhenReached
<1>2. ConsentInv /\ [ConsentsNext]_consentVars => ConsentInv'
  <2> SUFFICES ASSUME ConsentInv, [ConsentsNext]_consentVars PROVE ConsentInv'
    OBVIOUS
  <2>1. CASE UNCHANGED consentVars
    BY <2>1 DEF consentVars, ConsentInv, ConsentTypes, MarkedWhenReached, Reached
  <2>2. CASE TimePasses
    <3>1. ticks' \in Nat /\ ticks' > 0 /\ consents' = consents /\ withdrawn' = withdrawn
      BY <2>2 DEF TimePasses, ConsentInv, ConsentTypes
    <3> QED
      BY <3>1 DEF ConsentInv, ConsentTypes, MarkedWhenReached, Reached
  <2> QED
    BY <2>1, <2>2, RecordConsentKeeps, RevokeConsentKeeps DEF ConsentsNext
<1> QED
  BY <1>1, <1>2, PTL DEF ConsentsSpec

\* For any ids, purposes and times a consent is valid exactly if it has not run out and
\* was not the first under its id when that was withdrawn: recordConsent of gdpr.ts
\* takes the caller's id, whether in use or not, and revokeConsent marks the first
\* record it finds, withdrawn before or not.
THEOREM WithdrawalsAlwaysHold == ConsentsSpec => []WithdrawalsHold
<1>1. ConsentInv => WithdrawalsHold
  <2> SUFFICES ASSUME ConsentInv PROVE WithdrawalsHold
    OBVIOUS
  <2>1. ASSUME NEW i \in DOMAIN consents
        PROVE  consents[i].revokedAt = 0 <=> ~Reached(i)
    <3>1. i \in 1 .. Len(consents) /\ consents[i] \in Consent
      BY DEF ConsentInv, ConsentTypes
    <3>2. consents[i].revokedAt \in Nat
      BY <3>1 DEF Consent
    <3>3. consents[i].revokedAt > 0 <=> Reached(i)
      BY <3>1 DEF ConsentInv, MarkedWhenReached
    <3>4. consents[i].revokedAt = 0 <=> ~(consents[i].revokedAt > 0)
      BY <3>2, SMT
    <3> QED
      BY <3>3, <3>4
  <2> QED
    BY <2>1 DEF WithdrawalsHold, HasValidConsent, InForce
<1> QED
  BY <1>1, ConsentInvariance, PTL

-----------------------------------------------------------------------------
(***************************************************************************)
(* DidEdits: edits of a document that are read, rewritten and submitted.   *)
(***************************************************************************)
EditKind == {"none", "create", "update", "add", "remove", "deactivate", "resolverCreate",
             "addService", "updateMethod"}
Rewriting == {"addService", "updateMethod"}
EditStage == {"resolving", "rewritten", "sent", "landed", "ended"}
SomeEdit == [kind : EditKind, gives : SUBSET (Key \cup Service \cup Method), at : EditStage,
             keys : SUBSET SUBSET Key, lists : SUBSET SUBSET Service, basis : Nat]
Content == [key : SUBSET Key, services : SUBSET Service]

\* The edit that landed as the nth.
Nth(n) == edits[landed[n]]

EditTypes ==
    /\ edits \in Seq(SomeEdit)
    /\ landed \in Seq(Nat)
    /\ \A n \in 1 .. Len(landed) : landed[n] \in DOMAIN edits /\ Nth(n).at = "landed"
    /\ document.key \in SUBSET Key /\ document.services \in SUBSET Service
    /\ document.authentication \in SUBSET Method
    /\ document.there \in BOOLEAN
    /\ document.there <=> Len(landed) > 0
    /\ \A r \in resolved : r.document \in Content

\* The mth that landed wrote services, or a key, and had not seen what the nth gave.
WroteServices(m, n) ==
    Nth(m).kind = "update" \/ (Nth(m).kind \in Rewriting /\ Nth(m).basis < n)
WroteKey(m, n) ==
    Nth(m).kind \in {"update", "updateMethod"} \/ (Nth(m).kind = "addService" /\ Nth(m).basis < n)

\* A document as it may be after the first b edits that landed.
Shown(key, services, b) ==
    /\ b \in 0 .. Len(landed)
    /\ \A n \in 1 .. b : Nth(n).kind = "addService" =>
          Nth(n).gives \subseteq services \/ \E m \in n + 1 .. b : WroteServices(m, n)
    /\ \A n \in 1 .. b : Nth(n).kind = "updateMethod" =>
          Nth(n).gives = key \/ \E m \in n + 1 .. b : WroteKey(m, n)

WellSized(services) ==
    /\ \/ services \cap TooLong = {}
       \/ \E n \in 1 .. Len(landed) : Nth(n).kind = "addService"
    /\ \/ Cardinality(services) <= MAX_SERVICES
       \/ \E n \in 1 .. Len(landed) : Nth(n).kind \in {"addService", "resolverCreate"}

Seen(key, services, b) == Shown(key, services, b) /\ WellSized(services)

Fits(e) ==
    /\ e.at = "sent" => e.kind # "none"
    /\ e.kind \in {"add", "remove"} => \E method \in Method : e.gives = {method}
    /\ e.kind \in {"add", "remove", "deactivate"} => e.keys = {} /\ e.lists = {}
    /\ e.kind \in {"create", "update", "resolverCreate"} =>
          /\ e.lists = {} \/ \E services \in SUBSET Service : e.lists = {services}
          /\ e.keys = {} \/ \E key \in SUBSET Key : e.keys = {key}
    /\ e.kind \in {"create", "update"} => \A services \in e.lists : AssertServices(services)
    /\ (e.kind \in Rewriting /\ e.at \in {"rewritten", "sent"}) =>
          \E r \in Content :
             /\ Seen(r.key, r.services, e.basis)
             /\ e.keys = {IF e.kind = "updateMethod" THEN e.gives ELSE r.key}
             /\ e.lists = {IF e.kind = "addService" THEN r.services \cup e.gives ELSE r.services}

MethodsStay ==
    \A n \in 1 .. Len(landed) : Nth(n).kind = "add" =>
        /\ \E method \in Method : Nth(n).gives = {method}
        /\ \/ Nth(n).gives \subseteq document.authentication
           \/ \E m \in n + 1 .. Len(landed) : Nth(m).kind = "remove" /\ Nth(m).gives = Nth(n).gives

EditInv ==
    /\ EditTypes
    /\ \A i \in DOMAIN edits : Fits(edits[i])
    /\ \A r \in resolved : Seen(r.document.key, r.document.services, r.basis)
    /\ Seen(document.key, document.services, Len(landed))
    /\ MethodsStay
    /\ Len(landed) <= 1 => document.services \cap Long = {}

\* What has landed stays as it is, more may land after it.
HistoryStays ==
    /\ Len(landed) \in Nat /\ Len(landed') \in Nat /\ Len(landed) <= Len(landed')
    /\ \A n \in 1 .. Len(landed) :
          /\ edits'[landed'[n]].kind = Nth(n).kind
          /\ edits'[landed'[n]].gives = Nth(n).gives
          /\ edits'[landed'[n]].basis = Nth(n).basis

\* What the ledger showed at a basis it goes on having shown.
LEMMA ShownStays ==
  ASSUME HistoryStays, NEW key, NEW services, NEW b, Seen(key, services, b)
  PROVE  Seen(key, services, b)'
<1> DEFINE a == Len(landed)  z == Len(landed')
<1>1. /\ a \in Nat /\ z \in Nat /\ a <= z
      /\ b \in 0 .. a
      /\ \A n \in 1 .. a :
          /\ edits'[landed'[n]].kind = Nth(n).kind
          /\ edits'[landed'[n]].gives = Nth(n).gives
          /\ edits'[landed'[n]].basis = Nth(n).basis
  BY DEF HistoryStays, Seen, Shown
<1>2. /\ WellSized(services)
      /\ \A n \in 1 .. b : Nth(n).kind = "addService" =>
          Nth(n).gives \subseteq services \/ \E m \in n + 1 .. b : WroteServices(m, n)
      /\ \A n \in 1 .. b : Nth(n).kind = "updateMethod" =>
          Nth(n).gives = key \/ \E m \in n + 1 .. b : WroteKey(m, n)
  BY DEF Seen, Shown
<1>3. WellSized(services)'
  <2>1. (\E n \in 1 .. a : Nth(n).kind = "addService")
           => \E n \in 1 .. z : edits'[landed'[n]].kind = "addService"
    BY <1>1
  <2>2. (\E n \in 1 .. a : Nth(n).kind \in {"addService", "resolverCreate"})
           => \E n \in 1 .. z : edits'[landed'[n]].kind \in {"addService", "resolverCreate"}
    BY <1>1
  <2> QED
    BY <1>2, <2>1, <2>2 DEF WellSized, Nth
<1> HIDE DEF a, z
<1>4. \A n \in 1 .. b : n \in 1 .. a /\ \A m \in n + 1 .. b : m \in 1 .. a
  BY <1>1, SMT
<1>5. ASSUME NEW n \in 1 .. b, edits'[landed'[n]].kind = "addService"
      PROVE  edits'[landed'[n]].gives \subseteq services \/ \E m \in n + 1 .. b : WroteServices(m, n)'
  <2>1. Nth(n).gives \subseteq services \/ \E m \in n + 1 .. b : WroteServices(m, n)
    BY <1>1, <1>2, <1>4, <1>5
  <2>2. \A m \in n + 1 .. b : WroteServices(m, n) => WroteServices(m, n)'
    BY <1>1, <1>4 DEF WroteServices, Nth
  <2> QED
    BY <1>1, <1>4, <2>1, <2>2
<1>6. ASSUME NEW n \in 1 .. b, edits'[landed'[n]].kind = "updateMethod"
      PROVE  edits'[landed'[n]].gives = key \/ \E m \in n + 1 .. b : WroteKey(m, n)'
  <2>1. Nth(n).gives = key \/ \E m \in n + 1 .. b : WroteKey(m, n)
    BY <1>1, <1>2, <1>4, <1>6
  <2>2. \A m \in n + 1 .. b : WroteKey(m, n) => WroteKey(m, n)'
    BY <1>1, <1>4 DEF WroteKey, Nth
  <2> QED
    BY <1>1, <1>4, <2>1, <2>2
<1>7. b \in 0 .. z
  BY <1>1, SMT
<1> QED
  BY <1>3, <1>5, <1>6, <1>7 DEF Seen, Shown, Nth, a, z

\* An edit that fits goes on fitting.
LEMMA FitsStays ==
  ASSUME HistoryStays, NEW e, Fits(e)
  PROVE  Fits(e)'
<1>1. \A r \in Content : Seen(r.key, r.services, e.basis) => Seen(r.key, r.services, e.basis)'
  BY ShownStays
<1> QED
  BY <1>1 DEF Fits

\* A document that was resolved goes on having been shown.
LEMMA ResolvedStays ==
  ASSUME HistoryStays, EditInv, NEW r \in resolved
  PROVE  r.document \in Content /\ Seen(r.document.key, r.document.services, r.basis)'
BY ShownStays DEF EditInv, EditTypes

\* Nothing lands, and every edit that is new or changed is as edits are.
LEMMA NothingLands ==
  ASSUME EditInv, UNCHANGED <<document, landed>>,
         edits' \in Seq(SomeEdit),
         \A i \in DOMAIN edits : i \in DOMAIN edits' /\ (edits[i].at = "landed" => edits'[i] = edits[i]),
         \A i \in DOMAIN edits' : Fits(edits'[i]) \/ (i \in DOMAIN edits /\ edits'[i] = edits[i]),
         \A r \in resolved' : r \in resolved \/ (r.document \in Content /\ Seen(r.document.key, r.document.services, r.basis))
  PROVE  EditInv'
<1>1. HistoryStays
  BY DEF EditInv, EditTypes, HistoryStays, Nth
<1>2. EditTypes'
  <2>1. \A n \in 1 .. Len(landed) : landed[n] \in DOMAIN edits' /\ edits'[landed[n]].at = "landed"
    BY DEF EditInv, EditTypes, Nth
  <2>2. \A r \in resolved' : r.document \in Content
    BY DEF EditInv, EditTypes
  <2> QED
    BY <2>1, <2>2 DEF EditInv, EditTypes, Nth
<1>3. \A i \in DOMAIN edits' : Fits(edits'[i])
  BY DEF EditInv
<1>4. ASSUME NEW i \in DOMAIN edits' PROVE Fits(edits[i])'
  <2>1. \A e : Fits(e) => Fits(e)'
    BY <1>1, FitsStays
  <2> QED
    BY <1>3, <2>1
<1>5. \A r \in resolved' : Seen(r.document.key, r.document.services, r.basis)'
  BY <1>1, ShownStays DEF EditInv
<1>6. Seen(document.key, document.services, Len(landed))'
  <2>1. \A key, services, b : Seen(key, services, b) => Seen(key, services, b)'
    BY <1>1, ShownStays
  <2>2. Seen(document.key, document.services, Len(landed))
    BY DEF EditInv
  <2> QED
    BY <2>1, <2>2
<1>7. MethodsStay'
  <2>1. \A n \in 1 .. Len(landed) : edits'[landed'[n]] = Nth(n)
    BY DEF EditInv, EditTypes, Nth
  <2>2. Len(landed) \in Nat /\ landed' = landed
    BY DEF EditInv, EditTypes
  <2>3. ASSUME NEW n \in 1 .. Len(landed), Nth(n).kind = "add"
        PROVE  /\ \E method \in Method : Nth(n).gives = {method}
               /\ \/ Nth(n).gives \subseteq document.authentication
                  \/ \E m \in n + 1 .. Len(landed) : Nth(m).kind = "remove" /\ Nth(m).gives = Nth(n).gives
    BY <2>3 DEF EditInv, MethodsStay
  <2>4. \A n \in 1 .. Len(landed) : \A m \in n + 1 .. Len(landed) : m \in 1 .. Len(landed)
    BY <2>2, SMT
  <2>5. ASSUME NEW n \in 1 .. Len(landed'), edits'[landed'[n]].kind = "add"
        PROVE  /\ \E method \in Method : edits'[landed'[n]].gives = {method}
               /\ \/ edits'[landed'[n]].gives \subseteq document'.authentication
                  \/ \E m \in n + 1 .. Len(landed') :
                        edits'[landed'[m]].kind = "remove" /\ edits'[landed'[m]].gives = edits'[landed'[n]].gives
    <3>1. n \in 1 .. Len(landed) /\ document' = document /\ edits'[landed'[n]] = Nth(n)
      BY <2>1, <2>2
    <3>2. \A m \in n + 1 .. Len(landed) : edits'[landed'[m]] = Nth(m)
      BY <2>1, <2>4, <3>1
    <3> QED
      BY <2>2, <2>3, <2>5, <3>1, <3>2
  <2> QED
    BY <2>5 DEF MethodsStay, Nth
<1>8. Len(landed') <= 1 => document'.services \cap Long = {}
  BY DEF EditInv
<1> QED
  BY <1>2, <1>4, <1>5, <1>6, <1>7, <1>8 DEF EditInv

\* A new edit that fits keeps the invariant.
LEMMA MakesKeeps ==
  ASSUME EditInv, NEW edit \in SomeEdit, Fits(edit), Makes(edit),
         \A r \in resolved' : r \in resolved
  PROVE  EditInv'
<1>1. edits \in Seq(SomeEdit)
  BY DEF EditInv, EditTypes
<1>2. edits' = Append(edits, edit) /\ UNCHANGED <<document, landed>>
  BY DEF Makes
<1>3. /\ edits' \in Seq(SomeEdit)
      /\ \A i \in DOMAIN edits : i \in DOMAIN edits' /\ edits'[i] = edits[i]
      /\ \A i \in DOMAIN edits' : i \in DOMAIN edits \/ edits'[i] = edit
  BY <1>1, <1>2
<1>4. \A i \in DOMAIN edits' : Fits(edits'[i]) \/ (i \in DOMAIN edits /\ edits'[i] = edits[i])
  BY <1>3
<1> QED
  BY <1>2, <1>3, <1>4, NothingLands

\* An edit that goes on, and fits, keeps the invariant.
LEMMA ReplacedKeeps ==
  ASSUME EditInv, NEW i \in DOMAIN edits, edits[i].at # "landed",
         NEW edit \in SomeEdit, Fits(edit), edits' = [edits EXCEPT ![i] = edit],
         UNCHANGED <<document, landed>>,
         \A r \in resolved' : r \in resolved \/ (r.document \in Content /\ Seen(r.document.key, r.document.services, r.basis))
  PROVE  EditInv'
<1>1. edits \in Seq(SomeEdit)
  BY DEF EditInv, EditTypes
<1>2. /\ edits' \in Seq(SomeEdit) /\ DOMAIN edits' = DOMAIN edits
      /\ edits'[i] = edit
      /\ \A j \in DOMAIN edits : j # i => edits'[j] = edits[j]
  BY <1>1
<1> QED
  BY <1>2, NothingLands

\* An edit that came to nothing fits.
LEMMA InVainFits == InVain \in SomeEdit /\ Fits(InVain)
BY SMT DEF InVain, Edit, SomeEdit, Fits, EditKind, EditStage, Rewriting

\* The DID client sends what it was given.
LEMMA ClientEditKeeps ==
  ASSUME EditInv, NEW what \in {"create", "update", "add", "remove", "deactivate", "resolverCreate"},
         NEW gives \in SUBSET Method,
         NEW keys, keys = {} \/ \E key \in SUBSET Key : keys = {key},
         NEW lists, lists = {} \/ \E services \in SUBSET Service : lists = {services},
         what \in {"create", "update"} => \A services \in lists : AssertServices(services),
         what \in {"add", "remove"} => \E method \in Method : gives = {method},
         what \in {"add", "remove", "deactivate"} => keys = {} /\ lists = {},
         Makes(Edit(what, gives, "sent", keys, lists)),
         \A r \in resolved' : r \in resolved
  PROVE  EditInv'
<1> DEFINE edit == Edit(what, gives, "sent", keys, lists)
<1>1. edit \in SomeEdit
  BY DEF Edit, SomeEdit, EditKind, EditStage
<1>2. Fits(edit)
  <2>1. /\ edit.kind = what /\ edit.gives = gives /\ edit.keys = keys /\ edit.lists = lists
    BY DEF Edit
  <2>2. what # "none" /\ what \notin Rewriting
    BY DEF Rewriting
  <2> HIDE DEF edit
  <2> QED
    BY <2>1, <2>2 DEF Fits
<1> QED
  BY <1>1, <1>2, MakesKeeps

\* What the resolver makes of a document it found fits.
LEMMA RewrittenFits ==
  ASSUME EditInv, NEW edit \in SomeEdit, edit.kind \in Rewriting,
         edit.kind = "addService" => edit.gives \subseteq Service,
         edit.kind = "updateMethod" => edit.gives \subseteq Key,
         NEW found \in Content, NEW basis, Seen(found.key, found.services, basis)
  PROVE  /\ Rewritten(edit, found, basis) \in SomeEdit
         /\ Fits(Rewritten(edit, found, basis))
<1> DEFINE e == Rewritten(edit, found, basis)
<1>1. basis \in Nat
  BY DEF Seen, Shown, EditInv, EditTypes
<1>2. /\ e.kind = edit.kind /\ e.gives = edit.gives /\ e.at = "rewritten" /\ e.basis = basis
      /\ e.keys = {IF edit.kind = "updateMethod" THEN edit.gives ELSE found.key}
      /\ e.lists = {IF edit.kind = "addService" THEN found.services \cup edit.gives ELSE found.services}
  BY DEF SomeEdit, Rewritten, WithService
<1>3. found.key \subseteq Key /\ found.services \subseteq Service
  BY DEF Content
<1>4. e.keys \in SUBSET SUBSET Key /\ e.lists \in SUBSET SUBSET Service
  BY <1>2, <1>3 DEF Rewriting
<1>5. e.kind \in EditKind /\ e.gives \in SUBSET (Key \cup Service \cup Method) /\ e.at \in EditStage
      /\ e.basis \in Nat
  BY <1>1, <1>2 DEF SomeEdit, EditStage
<1>6. e \in SomeEdit
  BY <1>2, <1>4, <1>5 DEF SomeEdit, Rewritten
<1> HIDE DEF e
<1>7. Fits(e)
  BY <1>2 DEF Fits, Rewriting
<1> QED
  BY <1>6, <1>7 DEF e

\* The resolver finds the document an edit starts from, or not.
LEMMA ResolvesKeeps ==
  ASSUME EditInv, NEW i \in DOMAIN edits, Resolves(i), edits[i].kind \in Rewriting,
         edits[i].kind = "addService" => edits[i].gives \subseteq Service,
         edits[i].kind = "updateMethod" => edits[i].gives \subseteq Key
  PROVE  EditInv'
<1>0. edits[i] \in SomeEdit /\ edits[i].at = "resolving" /\ UNCHANGED <<document, landed>>
  BY DEF EditInv, EditTypes, Resolves
<1>1. CASE /\ document.there
           /\ resolved' = {[document |-> Parsed(document), basis |-> Len(landed)]}
           /\ edits' = [edits EXCEPT ![i] = Rewritten(@, Parsed(document), Len(landed))]
  <2>1. /\ Parsed(document) \in Content
        /\ Parsed(document).key = document.key /\ Parsed(document).services = document.services
    BY DEF Parsed, Content, EditInv, EditTypes
  <2>2. Seen(Parsed(document).key, Parsed(document).services, Len(landed))
    BY <2>1 DEF EditInv
  <2> DEFINE e == Rewritten(edits[i], Parsed(document), Len(landed))
  <2>3. e \in SomeEdit /\ Fits(e)
    BY <1>0, <2>1, <2>2, RewrittenFits
  <2>4. edits' = [edits EXCEPT ![i] = e]
    BY <1>1
  <2>5. \A r \in resolved' : r.document \in Content /\ Seen(r.document.key, r.document.services, r.basis)
    BY <1>1, <2>1, <2>2
  <2> HIDE DEF e
  <2> QED
    BY <1>0, <2>3, <2>4, <2>5, ReplacedKeeps
<1>2. CASE edits' = [edits EXCEPT ![i] = InVain] /\ UNCHANGED resolved
  BY <1>0, <1>2, InVainFits, ReplacedKeeps
<1> QED
  BY <1>1, <1>2 DEF Resolves

\* The resolver starts an edit.
LEMMA ResolverEditKeeps ==
  ASSUME EditInv, NEW what \in Rewriting, NEW given, ResolverEdit(what, given),
         what = "addService" => given \in Service, what = "updateMethod" => given \in Key
  PROVE  EditInv'
<1> DEFINE edit == Edit(what, {given}, "resolving", {}, {})
<1>1. /\ edit \in SomeEdit /\ edit.kind = what /\ edit.gives = {given} /\ edit.at = "resolving"
      /\ edit.keys = {} /\ edit.lists = {}
  BY DEF Edit, SomeEdit, EditKind, EditStage, Rewriting
<1> HIDE DEF edit
<1>2. Fits(edit)
  BY <1>1 DEF Fits, Rewriting
<1>3. resolved' = resolved
  BY DEF ResolverEdit
<1>4. CASE Makes(edit)
  BY <1>1, <1>2, <1>3, <1>4, MakesKeeps
<1>5. ASSUME NEW r \in resolved, Makes(Rewritten(edit, r.document, r.basis)) PROVE EditInv'
  <2>1. r.document \in Content /\ Seen(r.document.key, r.document.services, r.basis)
    BY DEF EditInv, EditTypes
  <2>2. edit.kind = "addService" => edit.gives \subseteq Service
    BY <1>1
  <2>3. edit.kind = "updateMethod" => edit.gives \subseteq Key
    BY <1>1
  <2> DEFINE e == Rewritten(edit, r.document, r.basis)
  <2>4. e \in SomeEdit /\ Fits(e)
    BY <1>1, <2>1, <2>2, <2>3, RewrittenFits
  <2>5. Makes(e)
    BY <1>5
  <2> HIDE DEF e
  <2> QED
    BY <1>3, <2>4, <2>5, MakesKeeps
<1> QED
  BY <1>4, <1>5 DEF ResolverEdit, edit

\* The resolver submits the document it rewrote.
LEMMA SubmitsUpdateKeeps ==
  ASSUME EditInv, NEW i \in DOMAIN edits, SubmitsUpdate(i), edits[i].kind \in Rewriting
  PROVE  EditInv'
<1> DEFINE e == [edits[i] EXCEPT !.at = "sent"]
<1>1. edits[i] \in SomeEdit /\ edits[i].at = "rewritten" /\ Fits(edits[i])
  BY DEF EditInv, EditTypes, SubmitsUpdate
<1>2. /\ e \in SomeEdit
      /\ e.kind = edits[i].kind /\ e.gives = edits[i].gives /\ e.keys = edits[i].keys
      /\ e.lists = edits[i].lists /\ e.basis = edits[i].basis /\ e.at = "sent"
  BY <1>1 DEF SomeEdit, EditStage
<1>3. edits' = [edits EXCEPT ![i] = e] /\ (\A r \in resolved' : r \in resolved) /\ UNCHANGED <<document, landed>>
  BY DEF SubmitsUpdate
<1> HIDE DEF e
<1>4. Fits(e)
  BY <1>1, <1>2 DEF Fits, Rewriting
<1> QED
  BY <1>1, <1>2, <1>3, <1>4, ReplacedKeeps

\* What is in the document after an edit landed.
LEMMA WrittenIs ==
  ASSUME NEW given, NEW kept
  PROVE  /\ given = {} => Written(given, kept) = kept
         /\ \A x : given = {x} => Written(given, kept) = x
BY DEF Written

\* The document after an edit was included, by the kind of the edit.
LEMMA AfterLanded ==
  ASSUME EditInv, NEW i \in DOMAIN edits, edits[i].at = "sent", RegistryTakes(edits[i]),
         document' = After(edits[i])
  PROVE  /\ document'.there
         /\ document'.key \in SUBSET Key /\ document'.services \in SUBSET Service
         /\ document'.authentication \in SUBSET Method
         /\ edits[i].kind \in {"add", "remove", "deactivate"} =>
               document'.key = document.key /\ document'.services = document.services
         /\ edits[i].kind \in {"create", "update", "resolverCreate"} =>
               /\ document'.services = document.services \/ document'.services \in edits[i].lists
         /\ edits[i].kind \notin {"add", "remove"} => document'.authentication = document.authentication
         /\ edits[i].kind = "add" => document'.authentication = document.authentication \cup edits[i].gives
         /\ edits[i].kind = "remove" => document'.authentication = document.authentication \ edits[i].gives
         /\ edits[i].kind \in Rewriting =>
               \E r \in Content :
                  /\ Seen(r.key, r.services, edits[i].basis)
                  /\ document'.key = IF edits[i].kind = "updateMethod" THEN edits[i].gives ELSE r.key
                  /\ document'.services = IF edits[i].kind = "addService" THEN r.services \cup edits[i].gives
                                          ELSE r.services
<1> DEFINE e == edits[i]
<1>1. /\ e \in SomeEdit /\ Fits(e) /\ e.at = "sent"
      /\ document.key \in SUBSET Key /\ document.services \in SUBSET Service
      /\ document.authentication \in SUBSET Method
  BY DEF EditInv, EditTypes
<1>2. /\ document'.there
      /\ document'.key = Written(e.keys, document.key)
      /\ document'.services = Written(e.lists, document.services)
      /\ e.kind = "add" => document'.authentication = document.authentication \cup e.gives
      /\ e.kind = "remove" => document'.authentication = document.authentication \ e.gives
      /\ e.kind \notin {"add", "remove"} => document'.authentication = document.authentication
  BY DEF After
<1> HIDE DEF e
<1>3. e.kind \in EditKind /\ e.kind # "none" /\ e.keys \in SUBSET SUBSET Key /\ e.lists \in SUBSET SUBSET Service
  BY <1>1 DEF SomeEdit, Fits
<1>4. document'.authentication \in SUBSET Method
  <2>1. e.kind = "add" => e.gives \subseteq Method
    BY <1>1 DEF Fits
  <2> QED
    BY <1>1, <1>2, <2>1
<1>5. CASE e.kind \in {"add", "remove", "deactivate"}
  <2>1. e.keys = {} /\ e.lists = {} /\ e.kind \notin Rewriting
    BY <1>1, <1>5 DEF Fits, Rewriting
  <2> QED
    BY <1>1, <1>2, <1>4, <1>5, <2>1, WrittenIs DEF e
<1>6. CASE e.kind \in {"create", "update", "resolverCreate"}
  <2>1. /\ e.lists = {} \/ \E services \in SUBSET Service : e.lists = {services}
        /\ e.keys = {} \/ \E key \in SUBSET Key : e.keys = {key}
        /\ e.kind \notin Rewriting /\ e.kind \notin {"add", "remove", "deactivate"}
    BY <1>1, <1>6 DEF Fits, Rewriting
  <2>2. document'.key = document.key \/ document'.key \in e.keys
    BY <1>2, <2>1, WrittenIs
  <2>3. document'.services = document.services \/ document'.services \in e.lists
    BY <1>2, <2>1, WrittenIs
  <2> QED
    BY <1>1, <1>2, <1>3, <1>4, <2>1, <2>2, <2>3 DEF e
<1>7. CASE e.kind \in Rewriting
  <2>1. PICK r \in Content :
             /\ Seen(r.key, r.services, e.basis)
             /\ e.keys = {IF e.kind = "updateMethod" THEN e.gives ELSE r.key}
             /\ e.lists = {IF e.kind = "addService" THEN r.services \cup e.gives ELSE r.services}
    BY <1>1, <1>7 DEF Fits
  <2>2. /\ document'.key = IF e.kind = "updateMethod" THEN e.gives ELSE r.key
        /\ document'.services = IF e.kind = "addService" THEN r.services \cup e.gives ELSE r.services
    <3> DEFINE k == IF e.kind = "updateMethod" THEN e.gives ELSE r.key
               v == IF e.kind = "addService" THEN r.services \cup e.gives ELSE r.services
    <3>1. e.keys = {k} /\ e.lists = {v}
      BY <2>1
    <3> HIDE DEF k, v
    <3>2. document'.key = k /\ document'.services = v
      BY <1>2, <3>1, WrittenIs
    <3> QED
      BY <3>2 DEF k, v
  <2>3. document'.key \in e.keys /\ document'.services \in e.lists
    BY <2>1, <2>2
  <2>4. e.kind \notin {"create", "update", "resolverCreate", "add", "remove", "deactivate"}
    BY <1>7 DEF Rewriting
  <2> QED
    BY <1>2, <1>3, <1>4, <2>1, <2>2, <2>3, <2>4 DEF e
<1> QED
  BY <1>3, <1>5, <1>6, <1>7 DEF EditKind, Rewriting

\* Replacing one element of a sequence leaves the others alone.
LEMMA ReplacedShape ==
  ASSUME NEW S, NEW f \in Seq(S), NEW i \in DOMAIN f, NEW x \in S, NEW g, g = [f EXCEPT ![i] = x]
  PROVE  /\ g \in Seq(S) /\ DOMAIN g = DOMAIN f
         /\ \A j \in DOMAIN f : j # i => g[j] = f[j]
         /\ g[i] = x
OBVIOUS

\* The ledger includes an edit that the registry takes.
LEMMA LandedKeeps ==
  ASSUME EditInv, NEW i \in DOMAIN edits, edits[i].at = "sent", RegistryTakes(edits[i]),
         document' = After(edits[i]), landed' = Append(landed, i),
         edits' = [edits EXCEPT ![i].at = "landed"], resolved' = resolved
  PROVE  EditInv'
<1>0. PICK e, l, k, v : e = edits[i] /\ l = Len(landed) /\ k = document'.key /\ v = document'.services
  OBVIOUS
<1>1. /\ edits \in Seq(SomeEdit) /\ landed \in Seq(Nat) /\ l \in Nat
      /\ e \in SomeEdit /\ Fits(e) /\ e.at = "sent" /\ e.kind # "none"
      /\ \A n \in 1 .. l : landed[n] \in DOMAIN edits /\ Nth(n).at = "landed"
      /\ document.there <=> l > 0
      /\ Seen(document.key, document.services, l)
  <2>1. edits \in Seq(SomeEdit) /\ landed \in Seq(Nat) /\ (document.there <=> Len(landed) > 0)
    BY DEF EditInv, EditTypes
  <2>2. \A n \in 1 .. Len(landed) : landed[n] \in DOMAIN edits /\ Nth(n).at = "landed"
    BY DEF EditInv, EditTypes
  <2>3. Fits(edits[i]) /\ Seen(document.key, document.services, Len(landed))
    BY DEF EditInv
  <2>4. edits[i].kind # "none"
    BY <2>3 DEF Fits
  <2>5. edits[i] \in SomeEdit /\ Len(landed) \in Nat
    BY <2>1
  <2> QED
    BY <1>0, <2>1, <2>2, <2>3, <2>4, <2>5
<1>2. /\ landed' \in Seq(Nat) /\ Len(landed') = l + 1 /\ landed'[l + 1] = i
      /\ \A n \in 1 .. l : landed'[n] = landed[n]
  <2>1. i \in Nat
    BY <1>1
  <2> QED
    BY <1>0, <1>1, <2>1
<1>3. /\ edits' \in Seq(SomeEdit) /\ DOMAIN edits' = DOMAIN edits
      /\ \A j \in DOMAIN edits : j # i => edits'[j] = edits[j]
      /\ edits'[i] = [e EXCEPT !.at = "landed"]
  <2>1. [e EXCEPT !.at = "landed"] \in SomeEdit
    BY <1>1 DEF SomeEdit, EditStage
  <2>2. edits' = [edits EXCEPT ![i] = [e EXCEPT !.at = "landed"]]
    BY <1>0
  <2> DEFINE x == [e EXCEPT !.at = "landed"]
  <2>3. x \in SomeEdit /\ edits' = [edits EXCEPT ![i] = x]
    BY <2>1, <2>2
  <2> HIDE DEF x
  <2>4. /\ edits' \in Seq(SomeEdit) /\ DOMAIN edits' = DOMAIN edits
        /\ \A j \in DOMAIN edits : j # i => edits'[j] = edits[j]
        /\ edits'[i] = x
    <3>1. edits \in Seq(SomeEdit)
      BY <1>1
    <3> QED
      BY <2>3, <3>1, ReplacedShape
  <2> QED
    BY <2>4 DEF x
<1>4. /\ edits'[i].kind = e.kind /\ edits'[i].gives = e.gives /\ edits'[i].basis = e.basis
      /\ edits'[i].at = "landed" /\ edits'[i].keys = e.keys /\ edits'[i].lists = e.lists
  BY <1>1, <1>3 DEF SomeEdit
<1>5. \A n \in 1 .. l : landed[n] # i /\ edits'[landed'[n]] = Nth(n)
  BY <1>0, <1>1, <1>2, <1>3 DEF Nth
<1>6. HistoryStays
  <2>1. l + 1 \in Nat /\ l <= l + 1
    BY <1>1, SMT
  <2> QED
    BY <1>0, <1>1, <1>2, <1>5, <2>1 DEF HistoryStays
<1>7. edits'[landed'[l + 1]] = edits'[i]
  BY <1>2
<1>8. e.kind \in {"create", "resolverCreate"} => l = 0 /\ \A services \in e.lists : services \cap Long = {}
  BY <1>0, <1>1 DEF RegistryTakes, CreateTakes
<1>9. e.kind \notin {"create", "resolverCreate"} => l > 0
  BY <1>0, <1>1 DEF RegistryTakes
<1>10. /\ document'.there
       /\ k \in SUBSET Key /\ v \in SUBSET Service
       /\ document'.authentication \in SUBSET Method
       /\ e.kind \in {"add", "remove", "deactivate"} => k = document.key /\ v = document.services
       /\ e.kind \in {"create", "update", "resolverCreate"} => v = document.services \/ v \in e.lists
       /\ e.kind \notin {"add", "remove"} => document'.authentication = document.authentication
       /\ e.kind = "add" => document'.authentication = document.authentication \cup e.gives
       /\ e.kind = "remove" => document'.authentication = document.authentication \ e.gives
       /\ e.kind \in Rewriting =>
               \E r \in Content :
                  /\ Seen(r.key, r.services, e.basis)
                  /\ k = IF e.kind = "updateMethod" THEN e.gives ELSE r.key
                  /\ v = IF e.kind = "addService" THEN r.services \cup e.gives ELSE r.services
  BY <1>0, <1>1, AfterLanded
<1>11. document.services \subseteq Service /\ TooLong \subseteq Long
  BY EditsAssumption DEF EditInv, EditTypes
<1>12. \A key, services, b : Seen(key, services, b) => Seen(key, services, b)'
  BY <1>6, ShownStays
<1>13. e.kind \in {"create", "update", "add", "remove", "deactivate", "resolverCreate", "addService", "updateMethod"}
  BY <1>1 DEF SomeEdit, EditKind
<1>14. WellSized(v)'
  <2>0. PICK old : old = document.services
    OBVIOUS
  <2>1. WellSized(old)'
    BY <1>1, <1>12, <2>0 DEF Seen
  <2>2. l + 1 \in 1 .. (l + 1)
    BY <1>1, SMT
  <2>3. CASE v = document.services
    BY <2>0, <2>1, <2>3
  <2>4. CASE e.kind \in {"create", "update"} /\ v \in e.lists
    <3>1. AssertServices(v)
      BY <1>1, <2>4 DEF Fits
    <3> QED
      BY <1>0, <3>1 DEF AssertServices, WellSized
  <2>5. CASE e.kind = "resolverCreate" /\ v \in e.lists
    <3>1. v \cap TooLong = {}
      BY <1>8, <1>11, <2>5
    <3> QED
      BY <1>0, <1>2, <1>4, <1>7, <2>2, <2>5, <3>1 DEF WellSized, Nth
  <2>6. CASE e.kind = "addService"
    BY <1>0, <1>2, <1>4, <1>7, <2>2, <2>6 DEF WellSized, Nth
  <2>7. CASE e.kind = "updateMethod"
    <3>1. PICK r \in Content : Seen(r.key, r.services, e.basis) /\ v = r.services
      BY <1>10, <2>7 DEF Rewriting
    <3>2. WellSized(r.services)'
      BY <3>1, <1>12 DEF Seen
    <3> QED
      BY <1>0, <3>1, <3>2 DEF WellSized
  <2> QED
    BY <1>10, <1>13, <2>3, <2>4, <2>5, <2>6, <2>7
<1>15. Shown(k, v, l + 1)'
  <2>0. /\ l + 1 \in 0 .. (l + 1) /\ l + 1 \in Nat
        /\ \A n \in 1 .. (l + 1) : n \in 1 .. l \/ n = l + 1
        /\ \A n \in 1 .. l : l + 1 \in n + 1 .. (l + 1) /\ n + 1 .. l \subseteq n + 1 .. (l + 1)
    BY <1>1, SMT
  <2>1. \A n \in 1 .. l : /\ edits'[landed'[n]].kind = Nth(n).kind
                          /\ edits'[landed'[n]].gives = Nth(n).gives
                          /\ edits'[landed'[n]].basis = Nth(n).basis
    BY <1>5
  <2>2. e.kind \in Rewriting => e.basis \in 0 .. l
    BY <1>0, <1>10 DEF Seen, Shown
  <2>3. ASSUME NEW n \in 1 .. l, Nth(n).kind = "addService"
        PROVE  Nth(n).gives \subseteq v \/ \E m \in n + 1 .. (l + 1) : WroteServices(m, n)'
    <3>1. ASSUME NEW b \in 0 .. l, NEW key, NEW services, Seen(key, services, b), n <= b, services \subseteq v
          PROVE  Nth(n).gives \subseteq v \/ \E m \in n + 1 .. (l + 1) : WroteServices(m, n)'
      <4>1. n \in 1 .. b
        BY <1>1, <3>1, SMT
      <4>2. Shown(key, services, b)'
        BY <3>1, <1>12 DEF Seen
      <4>3. Nth(n).gives \subseteq services \/ \E m \in n + 1 .. b : WroteServices(m, n)'
        BY <4>1, <4>2, <2>1, <2>3 DEF Shown, Nth
      <4>4. n + 1 .. b \subseteq n + 1 .. (l + 1)
        BY <1>1, SMT
      <4> QED
        BY <3>1, <4>3, <4>4
    <3>2. CASE v = document.services
      <4>1. l \in 0 .. l /\ n <= l
        BY <1>1, SMT
      <4> QED
        BY <1>1, <3>1, <3>2, <4>1
    <3>3. CASE e.kind = "update"
      BY <2>0, <1>4, <1>7, <3>3 DEF WroteServices, Nth
    <3>4. CASE e.kind \in Rewriting /\ e.basis < n
      BY <2>0, <1>4, <1>7, <3>4 DEF WroteServices, Nth
    <3>5. CASE e.kind \in Rewriting /\ ~(e.basis < n)
      <4>1. PICK r \in Content : Seen(r.key, r.services, e.basis) /\ r.services \subseteq v
        BY <1>10, <3>5
      <4>2. e.basis \in 0 .. l /\ n <= e.basis
        BY <1>1, <2>2, <3>5, SMT
      <4> QED
        BY <3>1, <4>1, <4>2
    <3>6. e.kind \notin {"create", "resolverCreate"}
      BY <1>1, <1>8, SMT
    <3> QED
      BY <1>10, <1>13, <3>2, <3>3, <3>4, <3>5, <3>6 DEF Rewriting
  <2>4. ASSUME NEW n \in 1 .. l, Nth(n).kind = "updateMethod"
        PROVE  Nth(n).gives = k \/ \E m \in n + 1 .. (l + 1) : WroteKey(m, n)'
    <3>1. ASSUME NEW b \in 0 .. l, NEW key, NEW services, Seen(key, services, b), n <= b, key = k
          PROVE  Nth(n).gives = k \/ \E m \in n + 1 .. (l + 1) : WroteKey(m, n)'
      <4>1. n \in 1 .. b
        BY <1>1, <3>1, SMT
      <4>2. Shown(key, services, b)'
        BY <3>1, <1>12 DEF Seen
      <4>3. Nth(n).gives = key \/ \E m \in n + 1 .. b : WroteKey(m, n)'
        BY <4>1, <4>2, <2>1, <2>4 DEF Shown, Nth
      <4>4. n + 1 .. b \subseteq n + 1 .. (l + 1)
        BY <1>1, SMT
      <4> QED
        BY <3>1, <4>3, <4>4
    <3>2. CASE k = document.key
      <4>1. l \in 0 .. l /\ n <= l
        BY <1>1, SMT
      <4> QED
        BY <1>1, <3>1, <3>2, <4>1
    <3>3. CASE e.kind \in {"update", "updateMethod"}
      BY <2>0, <1>4, <1>7, <3>3 DEF WroteKey, Nth
    <3>4. CASE e.kind = "addService" /\ e.basis < n
      BY <2>0, <1>4, <1>7, <3>4 DEF WroteKey, Nth
    <3>5. CASE e.kind = "addService" /\ ~(e.basis < n)
      <4>1. PICK r \in Content : Seen(r.key, r.services, e.basis) /\ r.key = k
        BY <1>10, <3>5 DEF Rewriting
      <4>2. e.basis \in 0 .. l /\ n <= e.basis
        BY <1>1, <2>2, <3>5, SMT DEF Rewriting
      <4> QED
        BY <3>1, <4>1, <4>2
    <3>6. e.kind \notin {"create", "resolverCreate"}
      BY <1>1, <1>8, SMT
    <3> QED
      BY <1>10, <1>13, <3>2, <3>3, <3>4, <3>5, <3>6
  <2>5. e.kind = "addService" => e.gives \subseteq v
    BY <1>10 DEF Rewriting
  <2>6. e.kind = "updateMethod" => e.gives = k
    BY <1>10 DEF Rewriting
  <2>7. ASSUME NEW n \in 1 .. (l + 1), edits'[landed'[n]].kind = "addService"
        PROVE  edits'[landed'[n]].gives \subseteq v \/ \E m \in n + 1 .. (l + 1) : WroteServices(m, n)'
    BY <1>4, <1>7, <2>0, <2>1, <2>3, <2>5, <2>7
  <2>8. ASSUME NEW n \in 1 .. (l + 1), edits'[landed'[n]].kind = "updateMethod"
        PROVE  edits'[landed'[n]].gives = k \/ \E m \in n + 1 .. (l + 1) : WroteKey(m, n)'
    BY <1>4, <1>7, <2>0, <2>1, <2>4, <2>6, <2>8
  <2> QED
    BY <1>0, <1>2, <2>0, <2>7, <2>8 DEF Shown, Nth
<1>16. MethodsStay'
  <2>0. /\ l + 1 \in Nat
        /\ \A n \in 1 .. (l + 1) : n \in 1 .. l \/ n = l + 1
        /\ \A n \in 1 .. l : l + 1 \in n + 1 .. (l + 1) /\ n + 1 .. l \subseteq n + 1 .. (l + 1) /\ n + 1 .. l \subseteq 1 .. l
    BY <1>1, SMT
  <2>1. ASSUME NEW n \in 1 .. l, Nth(n).kind = "add"
        PROVE  /\ \E method \in Method : Nth(n).gives = {method}
               /\ \/ Nth(n).gives \subseteq document'.authentication
                  \/ \E m \in n + 1 .. (l + 1) :
                        edits'[landed'[m]].kind = "remove" /\ edits'[landed'[m]].gives = Nth(n).gives
    <3>1. PICK method \in Method : Nth(n).gives = {method}
      BY <1>0, <2>1 DEF EditInv, MethodsStay
    <3>2. \/ Nth(n).gives \subseteq document.authentication
          \/ \E m \in n + 1 .. l : Nth(m).kind = "remove" /\ Nth(m).gives = Nth(n).gives
      BY <1>0, <2>1 DEF EditInv, MethodsStay
    <3>3. CASE \E m \in n + 1 .. l : Nth(m).kind = "remove" /\ Nth(m).gives = Nth(n).gives
      BY <1>5, <2>0, <3>1, <3>3
    <3>4. CASE Nth(n).gives \subseteq document.authentication /\ e.kind # "remove"
      BY <1>10, <3>1, <3>4
    <3>5. CASE Nth(n).gives \subseteq document.authentication /\ e.kind = "remove"
      <4>1. PICK other \in Method : e.gives = {other}
        BY <1>1, <3>5 DEF Fits
      <4>2. CASE other = method
        BY <1>4, <1>7, <2>0, <3>1, <3>5, <4>1, <4>2
      <4>3. CASE other # method
        BY <1>10, <3>1, <3>5, <4>1, <4>3
      <4> QED
        BY <4>2, <4>3
    <3> QED
      BY <3>2, <3>3, <3>4, <3>5
  <2>2. e.kind = "add" => (\E method \in Method : e.gives = {method}) /\ e.gives \subseteq document'.authentication
    BY <1>1, <1>10 DEF Fits
  <2>3. ASSUME NEW n \in 1 .. (l + 1), edits'[landed'[n]].kind = "add"
        PROVE  /\ \E method \in Method : edits'[landed'[n]].gives = {method}
               /\ \/ edits'[landed'[n]].gives \subseteq document'.authentication
                  \/ \E m \in n + 1 .. (l + 1) :
                        edits'[landed'[m]].kind = "remove" /\ edits'[landed'[m]].gives = edits'[landed'[n]].gives
    <3>1. CASE n \in 1 .. l
      <4>1. edits'[landed'[n]] = Nth(n)
        BY <1>5, <3>1
      <4> QED
        BY <2>1, <2>3, <3>1, <4>1
    <3>2. CASE n = l + 1
      BY <1>4, <1>7, <2>2, <2>3, <3>2
    <3> QED
      BY <2>0, <3>1, <3>2
  <2>4. Len(landed') = l + 1
    BY <1>2
  <2> QED
    BY <2>3, <2>4 DEF MethodsStay, Nth
<1>17. l + 1 <= 1 => v \cap Long = {}
  <2>1. SUFFICES ASSUME l + 1 <= 1 PROVE v \cap Long = {}
    OBVIOUS
  <2>2. l = 0
    BY <1>1, <2>1, SMT
  <2>3. document.services \cap Long = {}
    BY <1>0, <2>2, SMT DEF EditInv
  <2>4. e.kind \in {"create", "resolverCreate"}
    BY <1>9, <2>2
  <2> QED
    BY <1>8, <1>10, <2>3, <2>4
<1>18. EditTypes'
  <2>1. \A n \in 1 .. (l + 1) : landed'[n] \in DOMAIN edits' /\ edits'[landed'[n]].at = "landed"
    <3>1. \A n \in 1 .. (l + 1) : n \in 1 .. l \/ n = l + 1
      BY <1>1, SMT
    <3>2. \A n \in 1 .. l : landed'[n] \in DOMAIN edits' /\ edits'[landed'[n]].at = "landed"
      BY <1>1, <1>2, <1>3, <1>5
    <3> QED
      BY <1>2, <1>3, <1>4, <3>1, <3>2
  <2>2. document'.there <=> l + 1 > 0
    BY <1>1, <1>10, SMT
  <2>3. document'.there \in BOOLEAN
    BY DEF After
  <2>4. \A r \in resolved' : r.document \in Content
    BY DEF EditInv, EditTypes
  <2> QED
    BY <1>0, <1>2, <1>3, <1>10, <2>1, <2>2, <2>3, <2>4 DEF EditTypes, Nth
<1>19. ASSUME NEW j \in DOMAIN edits' PROVE Fits(edits[j])'
  <2>1. CASE j # i
    <3>1. Fits(edits[j]) /\ edits'[j] = edits[j]
      BY <1>3, <2>1 DEF EditInv
    <3>2. \A x : Fits(x) => Fits(x)'
      BY <1>6, FitsStays
    <3> QED
      BY <3>1, <3>2
  <2>2. CASE j = i
    <3>1. /\ e.kind \in {"add", "remove"} => \E method \in Method : e.gives = {method}
          /\ e.kind \in {"add", "remove", "deactivate"} => e.keys = {} /\ e.lists = {}
          /\ e.kind \in {"create", "update", "resolverCreate"} =>
                /\ e.lists = {} \/ \E services \in SUBSET Service : e.lists = {services}
                /\ e.keys = {} \/ \E key \in SUBSET Key : e.keys = {key}
          /\ e.kind \in {"create", "update"} => \A services \in e.lists : AssertServices(services)
      BY <1>1 DEF Fits
    <3> QED
      BY <1>4, <2>2, <3>1 DEF Fits
  <2> QED
    BY <2>1, <2>2
<1>20. \A r \in resolved' : Seen(r.document.key, r.document.services, r.basis)'
  BY <1>12 DEF EditInv
<1>21. Seen(document.key, document.services, Len(landed))'
  BY <1>0, <1>2, <1>14, <1>15 DEF Seen
<1> QED
  BY <1>0, <1>2, <1>16, <1>17, <1>18, <1>19, <1>20, <1>21 DEF EditInv

\* An edit is included, whether or not the registry takes it.
LEMMA EditIncludedKeeps ==
  ASSUME EditInv, NEW i \in DOMAIN edits, EditIncluded(i)
  PROVE  EditInv'
<1>1. edits[i].at = "sent" /\ resolved' = resolved
  BY DEF EditIncluded
<1>2. CASE RegistryTakes(edits[i])
  BY <1>1, <1>2, LandedKeeps DEF EditIncluded
<1>3. CASE ~RegistryTakes(edits[i])
  <2>1. edits' = [edits EXCEPT ![i] = InVain] /\ UNCHANGED <<document, landed>>
    BY <1>3 DEF EditIncluded
  <2> QED
    BY <1>1, <2>1, InVainFits, ReplacedKeeps
<1> QED
  BY <1>2, <1>3

\* What is resolving or rewritten is one of the two calls that write back what they found.
Origin(e) ==
    /\ e.at \in {"resolving", "rewritten"} => e.kind \in Rewriting
    /\ e.kind = "addService" => e.gives \subseteq Service
    /\ e.kind = "updateMethod" => e.gives \subseteq Key
Origins == \A i \in DOMAIN edits : Origin(edits[i])

\* A new edit has a call as its origin.
LEMMA OriginsAppended ==
  ASSUME EditInv, Origins, NEW e, Origin(e), Makes(e)
  PROVE  Origins'
<1>1. edits \in Seq(SomeEdit) /\ edits' = Append(edits, e)
  BY DEF EditInv, EditTypes, Makes
<1>2. \A i \in DOMAIN edits' : (i \in DOMAIN edits /\ edits'[i] = edits[i]) \/ edits'[i] = e
  BY <1>1
<1> QED
  BY <1>2 DEF Origins

\* An edit that goes on keeps its origin.
LEMMA OriginsReplaced ==
  ASSUME EditInv, Origins, NEW i \in DOMAIN edits, NEW e, Origin(e), edits' = [edits EXCEPT ![i] = e]
  PROVE  Origins'
BY DEF Origins

\* Every step keeps the origins of the edits.
LEMMA OriginsKept ==
  ASSUME EditInv, Origins, EditsNext
  PROVE  Origins'
<1> USE DEF Origin
<1>1. ASSUME NEW what \in {"create", "update", "add", "remove", "deactivate", "resolverCreate"},
             NEW gives, NEW keys, NEW lists, Makes(Edit(what, gives, "sent", keys, lists))
      PROVE  Origins'
  <2>1. Origin(Edit(what, gives, "sent", keys, lists))
    BY DEF Edit
  <2> QED
    BY <1>1, <2>1, OriginsAppended
<1>2. ASSUME NEW what, NEW gives, NEW keys, NEW lists, ClientEdit(what, gives, keys, lists),
             what \in {"create", "update", "add", "remove", "deactivate"}
      PROVE  Origins'
  BY <1>1, <1>2 DEF ClientEdit
<1>3. ASSUME NEW key, NEW services, ResolverCreateDID(key, services) PROVE Origins'
  BY <1>1, <1>3 DEF ResolverCreateDID
<1>4. ASSUME NEW what, NEW given, ResolverEdit(what, given), what \in Rewriting,
             what = "addService" => given \in Service, what = "updateMethod" => given \in Key
      PROVE  Origins'
  <2> DEFINE e == Edit(what, {given}, "resolving", {}, {})
  <2>1. Origin(e)
    BY <1>4 DEF Edit
  <2>2. \A r : Origin(Rewritten(e, r.document, r.basis))
    BY <1>4 DEF Edit, Rewritten
  <2> HIDE DEF e
  <2>3. Makes(e) \/ \E r \in resolved : Makes(Rewritten(e, r.document, r.basis))
    BY <1>4 DEF ResolverEdit, e
  <2> QED
    BY <2>1, <2>2, <2>3, OriginsAppended
<1>5. ASSUME NEW i \in DOMAIN edits, Resolves(i) \/ SubmitsUpdate(i) \/ EditIncluded(i) \/ EditDropped(i)
      PROVE  Origins'
  <2>1. edits[i] \in SomeEdit /\ Origin(edits[i])
    BY DEF EditInv, EditTypes, Origins
  <2>2. Origin(InVain)
    BY DEF InVain, Edit
  <2>3. \A found, basis : edits[i].kind \in Rewriting => Origin(Rewritten(edits[i], found, basis))
    BY <2>1 DEF Rewritten, SomeEdit
  <2>4. Origin([edits[i] EXCEPT !.at = "sent"]) /\ Origin([edits[i] EXCEPT !.at = "landed"])
    BY <2>1 DEF SomeEdit
  <2>5. Resolves(i) => edits[i].kind \in Rewriting
    BY <2>1 DEF Resolves
  <2>6. \E e : Origin(e) /\ edits' = [edits EXCEPT ![i] = e]
    BY <1>5, <2>2, <2>3, <2>4, <2>5 DEF Resolves, SubmitsUpdate, EditIncluded, EditDropped
  <2> QED
    BY <2>6, OriginsReplaced
<1>6. CASE CacheExpires
  BY <1>6 DEF CacheExpires, Origins
<1> QED
  BY <1>2, <1>3, <1>4, <1>5, <1>6
     DEF EditsNext, CreateDID, UpdateDID, AddAuthentication, RemoveAuthentication, DeactivateDID,
         AddService, UpdateVerificationMethod, Rewriting

\* Each step keeps the invariant.
LEMMA EditsKeep ==
  ASSUME EditInv, Origins, EditsNext
  PROVE  EditInv'
<1>1. ASSUME NEW i \in DOMAIN edits PROVE edits[i] \in SomeEdit /\ Origin(edits[i])
  BY DEF EditInv, EditTypes, Origins
<1>2. ASSUME NEW what \in {"create", "update", "add", "remove", "deactivate"},
             NEW gives \in SUBSET Method,
             NEW keys, keys = {} \/ \E key \in SUBSET Key : keys = {key},
             NEW lists, lists = {} \/ \E services \in SUBSET Service : lists = {services},
             what \in {"add", "remove"} => \E method \in Method : gives = {method},
             what \in {"add", "remove", "deactivate"} => keys = {} /\ lists = {},
             ClientEdit(what, gives, keys, lists)
      PROVE  EditInv'
  BY <1>2, ClientEditKeeps DEF ClientEdit
<1>3. \A services \in Lists : services \in SUBSET Service
  BY EditsAssumption
<1>4. ASSUME NEW services \in Lists, NEW key \in Key, CreateDID(key, services) PROVE EditInv'
  BY <1>2, <1>3, <1>4 DEF CreateDID
<1>5. ASSUME NEW services \in Lists, NEW key \in Key, ResolverCreateDID(key, services) PROVE EditInv'
  <2>1. /\ Makes(Edit("resolverCreate", {}, "sent", {{key}}, {services}))
        /\ \A r \in resolved' : r \in resolved
    BY <1>5 DEF ResolverCreateDID
  <2>2. {key} \in SUBSET Key
    OBVIOUS
  <2> QED
    BY <1>3, <2>1, <2>2, ClientEditKeeps
<1>6. ASSUME NEW services \in Lists, NEW keys \in {{}} \cup {{{k}} : k \in Key}, UpdateDID(keys, {services})
      PROVE  EditInv'
  <2>1. keys = {} \/ \E key \in SUBSET Key : keys = {key}
    OBVIOUS
  <2> QED
    BY <1>2, <1>3, <1>6, <2>1 DEF UpdateDID
<1>7. ASSUME NEW key \in Key, UpdateDID({{key}}, {}) PROVE EditInv'
  <2>1. {key} \in SUBSET Key
    OBVIOUS
  <2> QED
    BY <1>2, <1>7, <2>1 DEF UpdateDID
<1>8. ASSUME NEW method \in Method, AddAuthentication(method) \/ RemoveAuthentication(method) PROVE EditInv'
  BY <1>2, <1>8 DEF AddAuthentication, RemoveAuthentication
<1>9. CASE DeactivateDID
  BY <1>2, <1>9 DEF DeactivateDID
<1>10. ASSUME NEW key \in Key, UpdateVerificationMethod(key) PROVE EditInv'
  BY <1>10, ResolverEditKeeps DEF UpdateVerificationMethod, Rewriting
<1>11. ASSUME NEW given \in Service, AddService(given) PROVE EditInv'
  BY <1>11, ResolverEditKeeps DEF AddService, Rewriting
<1>12. CASE CacheExpires
  <2>1. /\ edits \in Seq(SomeEdit) /\ UNCHANGED <<document, landed>> /\ edits' = edits /\ resolved' = {}
        /\ \A i \in DOMAIN edits : Fits(edits[i])
    BY <1>12 DEF CacheExpires, EditInv, EditTypes
  <2> QED
    BY <2>1, NothingLands
<1>13. ASSUME NEW i \in DOMAIN edits, Resolves(i) PROVE EditInv'
  BY <1>1, <1>13, ResolvesKeeps DEF Origin, Resolves
<1>14. ASSUME NEW i \in DOMAIN edits, SubmitsUpdate(i) PROVE EditInv'
  BY <1>1, <1>14, SubmitsUpdateKeeps DEF Origin, SubmitsUpdate
<1>15. ASSUME NEW i \in DOMAIN edits, EditIncluded(i) PROVE EditInv'
  BY <1>15, EditIncludedKeeps
<1>16. ASSUME NEW i \in DOMAIN edits, EditDropped(i) PROVE EditInv'
  BY <1>16, InVainFits, ReplacedKeeps DEF EditDropped
<1> QED
  BY <1>4, <1>5, <1>6, <1>7, <1>8, <1>9, <1>10, <1>11, <1>12, <1>13, <1>14, <1>15, <1>16 DEF EditsNext

\* The invariant of the edits.
LEMMA EditInvariance == EditsSpec => [](EditInv /\ Origins)
<1>1. EditsInit => EditInv /\ Origins
  <2> SUFFICES ASSUME EditsInit PROVE EditInv /\ Origins
    OBVIOUS
  <2>1. /\ edits = <<>> /\ landed = <<>> /\ resolved = {} /\ Len(landed) = 0
        /\ document.key = {} /\ document.services = {} /\ document.authentication = {}
        /\ document.there = FALSE
    BY DEF EditsInit, NoDocument
  <2>2. Cardinality({}) <= MAX_SERVICES
    BY FS_EmptySet, EditsAssumption, SMT
  <2>3. 0 \in 0 .. 0 /\ 1 .. 0 = {} /\ ~(0 > 0)
    BY SMT
  <2>4. WellSized(document.services)
    BY <2>1, <2>2 DEF WellSized
  <2>5. Seen(document.key, document.services, Len(landed))
    BY <2>1, <2>3, <2>4 DEF Seen, Shown
  <2>6. EditTypes
    <3>1. <<>> \in Seq(SomeEdit) /\ <<>> \in Seq(Nat)
      OBVIOUS
    <3>2. FALSE \in BOOLEAN /\ {} \in SUBSET Key /\ {} \in SUBSET Service /\ {} \in SUBSET Method
      OBVIOUS
    <3>3. \A n \in 1 .. Len(landed) : landed[n] \in DOMAIN edits /\ Nth(n).at = "landed"
      BY <2>1, <2>3
    <3>4. document.there <=> Len(landed) > 0
      BY <2>1, <2>3
    <3>5. \A r \in resolved : r.document \in Content
      BY <2>1
    <3>6. edits \in Seq(SomeEdit) /\ landed \in Seq(Nat)
      BY <2>1, <3>1
    <3>7. /\ document.key \in SUBSET Key /\ document.services \in SUBSET Service
          /\ document.authentication \in SUBSET Method /\ document.there \in BOOLEAN
      BY <2>1, <3>2
    <3> QED
      BY <3>3, <3>4, <3>5, <3>6, <3>7, Zenon DEF EditTypes
  <2>7. MethodsStay
    BY <2>1, <2>3 DEF MethodsStay
  <2> QED
    BY <2>1, <2>5, <2>6, <2>7 DEF EditInv, Origins
<1>2. EditInv /\ Origins /\ [EditsNext]_editVars => EditInv' /\ Origins'
  <2>1. ASSUME EditInv, Origins, UNCHANGED editVars PROVE EditInv' /\ Origins'
    <3>1. /\ UNCHANGED <<document, landed>> /\ edits' = edits /\ resolved' = resolved
          /\ edits \in Seq(SomeEdit)
      BY <2>1 DEF editVars, EditInv, EditTypes
    <3> QED
      BY <2>1, <3>1, NothingLands DEF Origins
  <2> QED
    BY <2>1, EditsKeep, OriginsKept
<1> QED
  BY <1>1, <1>2, PTL DEF EditsSpec

\* A service, key or authentication method given by an edit that landed is in the
\* document until a later one gives other ones or writes back a document read before it,
\* and what is too long came from a path that does not look: didClient.ts and
\* didResolver.ts resolve, rewrite and submit documents with nothing that ties a write
\* to what was read.
THEOREM EditsAlwaysKept == EditsSpec => []EditsKept
<1>1. EditInv => EditsKept
  <2> SUFFICES ASSUME EditInv PROVE EditsKept
    OBVIOUS
  <2> DEFINE l == Len(landed)
  <2>1. DOMAIN landed = 1 .. l /\ l \in Nat
    BY DEF EditInv, EditTypes
  <2>2. Shown(document.key, document.services, l) /\ WellSized(document.services)
    BY DEF EditInv, Seen
  <2>3. \A n \in 1 .. l : \A m \in n + 1 .. l : landed[m] \in Later(n)
    BY DEF Later
  <2>4. ASSUME NEW n \in 1 .. l, Nth(n).kind = "addService"
        PROVE  \/ Nth(n).gives \subseteq document.services
               \/ Unaware(n) # {} \/ \E i \in Later(n) : edits[i].kind = "update"
    <3>1. CASE \E m \in n + 1 .. l : WroteServices(m, n)
      BY <2>3, <3>1 DEF WroteServices, Unaware, Nth, Rewriting
    <3> QED
      BY <2>2, <2>4, <3>1 DEF Shown
  <2>5. ASSUME NEW n \in 1 .. l, Nth(n).kind = "updateMethod"
        PROVE  \/ Nth(n).gives = document.key
               \/ Unaware(n) # {}
               \/ \E i \in Later(n) : edits[i].kind \in {"update", "updateMethod"}
    <3>1. CASE \E m \in n + 1 .. l : WroteKey(m, n)
      BY <2>3, <3>1 DEF WroteKey, Unaware, Nth
    <3> QED
      BY <2>2, <2>5, <3>1 DEF Shown
  <2>6. ASSUME NEW n \in 1 .. l, Nth(n).kind = "add"
        PROVE  \/ Nth(n).gives \subseteq document.authentication
               \/ \E i \in Later(n) : edits[i].kind = "remove" /\ edits[i].gives = Nth(n).gives
    <3>1. \/ Nth(n).gives \subseteq document.authentication
          \/ \E m \in n + 1 .. l : Nth(m).kind = "remove" /\ Nth(m).gives = Nth(n).gives
      BY <2>6 DEF EditInv, MethodsStay
    <3> QED
      BY <2>3, <3>1 DEF Nth
  <2>7. l = 1 => document.services \cap Long = {}
    BY <2>1, SMT DEF EditInv
  <2> QED
    BY <2>1, <2>2, <2>4, <2>5, <2>6, <2>7 DEF EditsKept, WellSized, Nth
<1> QED
  BY <1>1, EditInvariance, PTL

-----------------------------------------------------------------------------
(***************************************************************************)
(* ClientReads: reads made of several calls.                               *)
(***************************************************************************)
Function ==
    {"verify_proof", "get_proof", "verify_selective_disclosure", "get_selective_disclosure",
     "get_combined_disclosure", "get_circuit", "get_circuit_proofs", "get_active_circuits",
     "verify_age_proof", "calculate_reputation", "get_reputation_score", "get_reputation_data",
     "get_reputation_percentile", "get_reputation_history", "get_trust_graph",
     "meets_reputation_threshold", "get_template", "get_all_template_ids", "get_reports_paginated",
     "get_sar", "get_sars_paginated", "get_all_schedule_ids", "get_export_snapshots",
     "get_statistics", "get_issuer_credentials", "get_subject_credentials",
     "get_credential_status", "get_revocation_reason", "get_credential", "resolveDID"}
Part == Function \X Item
Answer == [part : Part, n : Nat, valid : BOOLEAN, list : SUBSET Item, then : [Item -> Nat]]
Phase == {"end", "get_template", "get_proof", "get_selective_disclosure",
          "get_subject_credentials", "get_credential", "inTurn"}
Reading == [at : {"new", "reading", "threw", "returned"}, open : SUBSET Part, then : Phase,
            onError : {"throw", "default"}, got : SUBSET Answer, missed : SUBSET Part,
            todo : SUBSET Item, from : [Item -> Nat], wasOutdated : SUBSET Item]

\* What is asked for about what was listed.
Details == {"get_template", "get_credential"}

LedgerTypes == version \in [Item -> 0 .. MaxVersions] /\ outdated \in SUBSET Item

\* The ledger goes on from what the call has seen.
NotAhead(c) ==
    /\ \A x \in Item : c.from[x] <= version[x]
    /\ c.wasOutdated \subseteq outdated
    /\ \A b \in c.got : \A x \in Item : b.then[x] <= version[x]

AnswersSound(c) ==
    /\ c.onError = "throw" => c.missed = {}
    /\ \A a \in c.got : a.n > 0 => a.n >= c.from[a.part[2]]
    /\ \A a \in c.got : a.valid => a.part[2] \notin c.wasOutdated
    /\ \A a, b \in c.got :
          (a.part[1] \in Details /\ a.part[2] \in b.list) => a.n >= b.then[a.part[2]]

\* Lists come before details.
ListsFirst(c) ==
    /\ \A b \in c.got : b.part[1] \notin Listing => b.list = {}
    /\ ((\E a \in c.got : a.part[1] \in Details) \/ (\E p \in c.open : p[1] \in Details)) =>
          \A p \in c.open : p[1] \notin Listing
    /\ c.then \notin {"end", "inTurn"} =>
          /\ \A a \in c.got : a.part[1] \notin Details
          /\ \A p \in c.open : p[1] \notin Details
    /\ c.then = "inTurn" => \A p \in c.open : p[1] \in Details

\* Of an export: what there was when it began is listed, still to be read, asked for or got.
ExportGoesOn(c) ==
    /\ (\E p \in c.open : p[1] = "resolveDID") =>
          c.then = "get_subject_credentials" /\ \A p \in c.open : p[1] = "resolveDID"
    /\ ((\E a \in c.got : a.part[1] = "resolveDID") /\ c.missed = {}) =>
          \/ c.then = "get_subject_credentials" /\ \A p \in c.open : p[1] = "resolveDID"
          \/ /\ c.then = "get_credential"
             /\ \/ c.open # {} /\ \A p \in c.open : p[1] = "get_subject_credentials"
                \/ \E b \in c.got : \A x \in Item : c.from[x] > 0 => x \in b.list
          \/ /\ c.then \in {"inTurn", "end"}
             /\ c.then = "end" => c.todo = {}
             /\ \A x \in Item \ Unparsed : c.from[x] > 0 =>
                   \/ x \in c.todo
                   \/ <<"get_credential", x>> \in c.open
                   \/ \E a \in c.got : a.part = <<"get_credential", x>>

Ended(c) == c.at = "returned" => c.then = "end" /\ c.open = {}

CallSound(c) ==
    c \in Reading /\ NotAhead(c) /\ AnswersSound(c) /\ ListsFirst(c) /\ ExportGoesOn(c) /\ Ended(c)

ReadInv ==
    /\ LedgerTypes
    /\ reading = [r \in Reader |-> reading[r]]
    /\ \A r \in Reader : CallSound(reading[r])

\* A read that is sound stays so while the ledger moves on.
LEMMA CallStays ==
  ASSUME LedgerTypes, LedgerTypes', \A x \in Item : version[x] <= version'[x], outdated \subseteq outdated',
         NEW c, CallSound(c)
  PROVE  CallSound(c)'
<1>1. NotAhead(c)'
  <2>1. c.from \in [Item -> Nat] /\ \A b \in c.got : b.then \in [Item -> Nat]
    BY DEF CallSound, Reading, Answer
  <2>2. ASSUME NEW x \in Item, NEW n \in Nat, n <= version[x] PROVE n <= version'[x]
    BY <2>2, SMT DEF LedgerTypes
  <2>3. \A x \in Item : c.from[x] \in Nat /\ \A b \in c.got : b.then[x] \in Nat
    BY <2>1
  <2> QED
    BY <2>2, <2>3 DEF CallSound, NotAhead
<1> QED
  BY <1>1 DEF CallSound, AnswersSound, ListsFirst, ExportGoesOn, Ended

\* A step of one read that leaves it sound keeps the invariant.
LEMMA OneCallKeeps ==
  ASSUME ReadInv, NEW r \in Reader, NEW c, CallSound(c), reading' = [reading EXCEPT ![r] = c],
         UNCHANGED Ledger
  PROVE  ReadInv'
<1>1. LedgerTypes /\ version' = version /\ outdated' = outdated
  BY DEF Ledger, ReadInv
<1>2. LedgerTypes' /\ \A x \in Item : version[x] <= version'[x]
  BY <1>1, SMT DEF LedgerTypes
<1>3. \A x : CallSound(x) => CallSound(x)'
  BY <1>1, <1>2, CallStays
<1>4. \A s \in Reader : CallSound(reading'[s])
  BY DEF ReadInv
<1>5. reading' = [s \in Reader |-> reading'[s]]
  BY DEF ReadInv
<1> QED
  BY <1>2, <1>3, <1>4, <1>5 DEF ReadInv

\* A read starts with some parts to fetch.
LEMMA StartSound ==
  ASSUME ReadInv, NEW r \in Reader, NEW open \in SUBSET Part, NEW then \in Phase, then # "inTurn",
         NEW onError \in {"throw", "default"}, Reads(r, open, then, onError),
         (\E p \in open : p[1] \in Details) => then = "end" /\ \A p \in open : p[1] \notin Listing,
         (\E p \in open : p[1] = "resolveDID") =>
             then = "get_subject_credentials" /\ \A p \in open : p[1] = "resolveDID"
  PROVE  ReadInv'
<1> DEFINE c == [Unread EXCEPT !.at = "reading", !.open = open, !.then = then, !.onError = onError,
                               !.from = version, !.wasOutdated = outdated]
<1>1. /\ c.at = "reading" /\ c.open = open /\ c.then = then /\ c.onError = onError /\ c.got = {}
      /\ c.missed = {} /\ c.todo = {} /\ c.from = version /\ c.wasOutdated = outdated
  BY DEF Unread
<1>2. version \in [Item -> Nat] /\ outdated \in SUBSET Item
  BY SMT DEF ReadInv, LedgerTypes
<1>3. c \in Reading
  BY <1>2 DEF Reading, Unread
<1> HIDE DEF c
<1>4. NotAhead(c)
  BY <1>1, <1>2, SMT DEF NotAhead
<1>5. AnswersSound(c) /\ ListsFirst(c) /\ ExportGoesOn(c) /\ Ended(c)
  BY <1>1 DEF AnswersSound, ListsFirst, ExportGoesOn, Ended
<1>6. reading' = [reading EXCEPT ![r] = c] /\ UNCHANGED Ledger
  BY DEF Reads, c
<1> QED
  BY <1>3, <1>4, <1>5, <1>6, OneCallKeeps DEF CallSound

\* A method that makes one simulated call.
LEMMA OneSound ==
  ASSUME ReadInv, NEW r \in Reader, NEW x \in Item, NEW function \in Function, function # "resolveDID",
         NEW onError \in {"throw", "default"}, One(r, function, x, onError)
  PROVE  ReadInv'
<1>1. {<<function, x>>} \in SUBSET Part /\ \A p \in {<<function, x>>} : p[1] = function
  BY DEF Part
<1>2. "end" \in Phase /\ "end" # "inTurn" /\ Details \cap Listing = {}
  BY DEF Phase, Details, Listing
<1> QED
  BY <1>1, <1>2, StartSound DEF One

\* Every method of the clients starts soundly.
LEMMA MethodSound ==
  ASSUME ReadInv, NEW r \in Reader, NEW x \in Item, ReadMethod(r, x)
  PROVE  ReadInv'
<1>1. ASSUME NEW function \in Function, function \notin Details \cup Listing \cup {"resolveDID"},
             NEW then \in {"get_proof", "get_selective_disclosure"}, Reads(r, {<<function, x>>}, then, "throw")
      PROVE  ReadInv'
  <2>1. {<<function, x>>} \in SUBSET Part /\ \A p \in {<<function, x>>} : p[1] = function
    BY DEF Part
  <2>2. then \in Phase /\ then # "inTurn"
    BY DEF Phase
  <2> QED
    BY <1>1, <2>1, <2>2, StartSound
<1>2. ASSUME NEW open \in SUBSET Part, Reads(r, open, "end", "throw"),
             \A p \in open : p[1] \in {"get_reputation_data", "get_reputation_percentile", "get_reputation_history"}
      PROVE  ReadInv'
  <2>1. \A p \in open : p[1] \notin Details /\ p[1] # "resolveDID"
    BY <1>2 DEF Details
  <2>2. "end" \in Phase /\ "end" # "inTurn"
    BY DEF Phase
  <2> QED
    BY <1>2, <2>1, <2>2, StartSound
<1>3. ASSUME VerifyProof(r, x) \/ VerifyProofOnChain(r, x) \/ VerifySelectiveDisclosure(r, x) PROVE ReadInv'
  BY <1>1, <1>3 DEF VerifyProof, VerifyProofOnChain, VerifySelectiveDisclosure, Details, Listing, Function
<1>4. \A y \in Item : /\ ScoreParts(y) \in SUBSET Part
                      /\ \A p \in ScoreParts(y) : p[1] \in {"get_reputation_data", "get_reputation_percentile"}
  BY DEF ScoreParts, Part, Function
<1>5. ASSUME \/ GetReputationScore(r, x) \/ GetReputationTierProof(r, x) \/ GetReputationAnalysis(r, x)
             \/ \E y \in Item : CompareReputation(r, x, y)
      PROVE  ReadInv'
  <2>1. <<"get_reputation_history", x>> \in Part
    BY DEF Part, Function
  <2>2. CASE GetReputationScore(r, x) \/ GetReputationTierProof(r, x)
    BY <1>2, <1>4, <2>2 DEF GetReputationScore, GetReputationTierProof
  <2>3. CASE GetReputationAnalysis(r, x)
    BY <1>2, <1>4, <2>1, <2>3 DEF GetReputationAnalysis
  <2>4. ASSUME NEW y \in Item, CompareReputation(r, x, y) PROVE ReadInv'
    BY <1>2, <1>4, <2>4 DEF CompareReputation
  <2> QED
    BY <1>5, <2>2, <2>3, <2>4
<1>6. ASSUME GetAllTemplates(r, x) PROVE ReadInv'
  <2>1. {<<"get_all_template_ids", x>>} \in SUBSET Part
    BY DEF Part, Function
  <2>2. "get_template" \in Phase /\ "get_all_template_ids" \notin Details
    BY DEF Phase, Details
  <2> QED
    BY <1>6, <2>1, <2>2, StartSound DEF GetAllTemplates
<1>7. ASSUME ExportDataPortability(r, x) PROVE ReadInv'
  <2>1. {<<"resolveDID", x>>} \in SUBSET Part
    BY DEF Part, Function
  <2>2. "get_subject_credentials" \in Phase /\ "resolveDID" \notin Details
    BY DEF Phase, Details
  <2> QED
    BY <1>7, <2>1, <2>2, StartSound DEF ExportDataPortability
<1>8. ASSUME NEW function \in Function, function # "resolveDID", NEW onError \in {"throw", "default"},
             One(r, function, x, onError)
      PROVE  ReadInv'
  BY <1>8, OneSound
<1>9. /\ GetProof(r, x) => ReadInv'
      /\ GetSelectiveDisclosure(r, x) => ReadInv'
      /\ GetCombinedDisclosure(r, x) => ReadInv'
      /\ GetCircuit(r, x) => ReadInv'
      /\ GetCircuitProofs(r, x) => ReadInv'
      /\ GetActiveCircuits(r, x) => ReadInv'
      /\ VerifyAgeProof(r, x) => ReadInv'
      /\ CalculateReputation(r, x) => ReadInv'
      /\ GetReputationScoreValue(r, x) => ReadInv'
      /\ GetReputationData(r, x) => ReadInv'
      /\ GetReputationHistory(r, x) => ReadInv'
      /\ GetTrustGraph(r, x) => ReadInv'
      /\ MeetsReputationThreshold(r, x) => ReadInv'
  BY <1>8 DEF Function, GetProof, GetSelectiveDisclosure, GetCombinedDisclosure, GetCircuit,
              GetCircuitProofs, GetActiveCircuits, VerifyAgeProof, CalculateReputation,
              GetReputationScoreValue, GetReputationData, GetReputationHistory, GetTrustGraph,
              MeetsReputationThreshold
<1>10. /\ GetTemplate(r, x) => ReadInv'
       /\ GetReports(r, x) => ReadInv'
       /\ GetSAR(r, x) => ReadInv'
       /\ GetSARs(r, x) => ReadInv'
       /\ GetSchedules(r, x) => ReadInv'
       /\ GetExportSnapshots(r, x) => ReadInv'
       /\ GetStatistics(r, x) => ReadInv'
       /\ GetIssuerCredentials(r, x) => ReadInv'
       /\ GetSubjectCredentials(r, x) => ReadInv'
       /\ GetCredentialStatus(r, x) => ReadInv'
       /\ GetRevocationReason(r, x) => ReadInv'
  BY <1>8 DEF Function, GetTemplate, GetReports, GetSAR, GetSARs, GetSchedules,
              GetExportSnapshots, GetStatistics, GetIssuerCredentials, GetSubjectCredentials,
              GetCredentialStatus, GetRevocationReason
<1> QED
  BY <1>3, <1>5, <1>6, <1>7, <1>9, <1>10 DEF ReadMethod

\* What an answer is, of a ledger that goes on from what the call has seen.
LEMMA AnswerIs ==
  ASSUME LedgerTypes, NEW p \in Part
  PROVE  /\ AnswerOf(p) \in Answer
         /\ AnswerOf(p).part = p
         /\ AnswerOf(p).n \in {0, version[p[2]]}
         /\ p[1] \in Details => AnswerOf(p).n = version[p[2]]
         /\ AnswerOf(p).valid => p[2] \notin outdated
         /\ p[1] \notin Listing => AnswerOf(p).list = {}
         /\ p[1] \in Listing => AnswerOf(p).list = Listed
         /\ AnswerOf(p).then = version
<1>1. version \in [Item -> Nat] /\ p[2] \in Item /\ Listed \subseteq Item
  BY SMT DEF LedgerTypes, Part, Listed
<1>2. Kept(p) \in {0, version[p[2]]} /\ Kept(p) \in Nat
  BY <1>1 DEF Kept
<1>3. p[1] \in Details => Kept(p) = version[p[2]]
  BY DEF Kept, Details, Positional, Listing
<1>4. (p[2] \notin outdated) \in BOOLEAN
  OBVIOUS
<1>5. AnswerOf(p) \in Answer
  BY <1>1, <1>2, <1>4 DEF AnswerOf, Answer
<1> QED
  BY <1>2, <1>3, <1>5 DEF AnswerOf

\* One part of a read is answered.
LEMMA PartReadKeeps ==
  ASSUME ReadInv, NEW r \in Reader, NEW p \in reading[r].open, PartRead(r, p)
  PROVE  ReadInv'
<1>0. PICK c : c = reading[r]
  OBVIOUS
<1>1. /\ CallSound(c) /\ LedgerTypes /\ p \in c.open /\ p \in Part /\ p[2] \in Item
  BY <1>0 DEF ReadInv, CallSound, Reading, Part
<1>2. PICK a : a = AnswerOf(p)
  OBVIOUS
<1>3. /\ a \in Answer /\ a.part = p
      /\ a.n \in {0, version[p[2]]}
      /\ p[1] \in Details => a.n = version[p[2]]
      /\ a.valid => p[2] \notin outdated
      /\ p[1] \notin Listing => a.list = {}
      /\ p[1] \in Listing => a.list = Listed
      /\ a.then = version
  BY <1>1, <1>2, AnswerIs
<1>4. PICK d : d = [c EXCEPT !.open = @ \ {p}, !.got = @ \cup {a}]
  OBVIOUS
<1>5. /\ d.at = c.at /\ d.then = c.then /\ d.onError = c.onError /\ d.missed = c.missed
      /\ d.todo = c.todo /\ d.from = c.from /\ d.wasOutdated = c.wasOutdated
      /\ d.open = c.open \ {p} /\ d.got = c.got \cup {a}
  BY <1>1, <1>4 DEF CallSound, Reading
<1>6. d \in Reading
  BY <1>1, <1>3, <1>4 DEF CallSound, Reading
<1>7. /\ c.from \in [Item -> Nat] /\ version \in [Item -> Nat]
      /\ \A b \in c.got : b.then \in [Item -> Nat]
      /\ \A b \in c.got : b.n \in Nat /\ b.part[2] \in Item
  BY <1>1, SMT DEF CallSound, Reading, LedgerTypes, Answer, Part
<1>8. NotAhead(d)
  <2>1. \A x \in Item : a.then[x] <= version[x]
    BY <1>3, <1>7, SMT
  <2> QED
    BY <1>1, <1>5, <2>1 DEF CallSound, NotAhead
<1>9. AnswersSound(d)
  <2>1. /\ c.onError = "throw" => c.missed = {}
        /\ \A b \in c.got : b.n > 0 => b.n >= c.from[b.part[2]]
        /\ \A b \in c.got : b.valid => b.part[2] \notin c.wasOutdated
        /\ \A b, e \in c.got :
             (b.part[1] \in Details /\ b.part[2] \in e.list) => b.n >= e.then[b.part[2]]
    BY <1>1 DEF CallSound, AnswersSound
  <2>2. a.n > 0 => a.n >= c.from[a.part[2]]
    <3>1. c.from[p[2]] <= version[p[2]] /\ c.from[p[2]] \in Nat /\ version[p[2]] \in Nat
      BY <1>1, <1>7 DEF CallSound, NotAhead
    <3> QED
      BY <1>3, <3>1, SMT
  <2>3. a.valid => a.part[2] \notin c.wasOutdated
    BY <1>1, <1>3 DEF CallSound, NotAhead
  <2>4. p[1] \in Details => \A b \in d.got : a.n >= b.then[p[2]]
    <3>1. \A b \in d.got : b.then[p[2]] <= version[p[2]] /\ b.then[p[2]] \in Nat
      BY <1>1, <1>3, <1>5, <1>7, <1>8 DEF NotAhead
    <3>2. version[p[2]] \in Nat
      BY <1>1, <1>7
    <3> QED
      BY <1>3, <3>1, <3>2, SMT
  <2>5. \A b \in c.got : b.part[1] \in Details => b.part[2] \notin a.list
    BY <1>1, <1>3 DEF CallSound, ListsFirst
  <2>6. ASSUME NEW b \in d.got, NEW e \in d.got, b.part[1] \in Details, b.part[2] \in e.list
        PROVE  b.n >= e.then[b.part[2]]
    <3>1. CASE b = a
      BY <1>3, <2>4, <2>6, <3>1
    <3>2. CASE b \in c.got /\ e = a
      BY <2>5, <2>6, <3>2
    <3>3. CASE b \in c.got /\ e \in c.got
      BY <2>1, <2>6, <3>3
    <3> QED
      BY <1>5, <3>1, <3>2, <3>3
  <2> QED
    BY <1>5, <2>1, <2>2, <2>3, <2>6 DEF AnswersSound
<1>10. ListsFirst(d)
  BY <1>1, <1>3, <1>5 DEF CallSound, ListsFirst
<1>11. ExportGoesOn(d)
  <2>1. (\E q \in c.open : q[1] = "resolveDID") =>
           c.then = "get_subject_credentials" /\ \A q \in c.open : q[1] = "resolveDID"
    BY <1>1 DEF CallSound, ExportGoesOn
  <2>2. SUFFICES ASSUME \E b \in d.got : b.part[1] = "resolveDID", d.missed = {}
                 PROVE
          \/ d.then = "get_subject_credentials" /\ \A q \in d.open : q[1] = "resolveDID"
          \/ /\ d.then = "get_credential"
             /\ \/ d.open # {} /\ \A q \in d.open : q[1] = "get_subject_credentials"
                \/ \E b \in d.got : \A x \in Item : d.from[x] > 0 => x \in b.list
          \/ /\ d.then \in {"inTurn", "end"}
             /\ d.then = "end" => d.todo = {}
             /\ \A x \in Item \ Unparsed : d.from[x] > 0 =>
                   \/ x \in d.todo
                   \/ <<"get_credential", x>> \in d.open
                   \/ \E b \in d.got : b.part = <<"get_credential", x>>
    BY <1>5, <2>1 DEF ExportGoesOn
  <2>3. CASE p[1] = "resolveDID"
    BY <1>1, <1>5, <2>1, <2>3
  <2>4. CASE p[1] # "resolveDID"
    <3>1. \E b \in c.got : b.part[1] = "resolveDID"
      BY <1>3, <1>5, <2>2, <2>4
    <3>2. CASE c.then = "get_subject_credentials" /\ \A q \in c.open : q[1] = "resolveDID"
      BY <1>5, <3>2
    <3>3. CASE c.then = "get_credential" /\ \E b \in c.got : \A x \in Item : c.from[x] > 0 => x \in b.list
      BY <1>5, <3>3
    <3>4. CASE c.then = "get_credential" /\ c.open # {} /\ \A q \in c.open : q[1] = "get_subject_credentials"
      <4>1. a.list = Listed
        BY <1>1, <1>3, <3>4 DEF Listing
      <4>2. \A x \in Item : c.from[x] > 0 => x \in Listed
        <5>1. \A x \in Item : c.from[x] <= version[x] /\ c.from[x] \in Nat /\ version[x] \in Nat
          BY <1>1, <1>7 DEF CallSound, NotAhead
        <5> QED
          BY <5>1, SMT DEF Listed
      <4>3. a \in d.got
        BY <1>5
      <4> QED
        BY <1>5, <3>4, <4>1, <4>2, <4>3
    <3>5. CASE /\ c.then \in {"inTurn", "end"}
               /\ c.then = "end" => c.todo = {}
               /\ \A x \in Item \ Unparsed : c.from[x] > 0 =>
                   \/ x \in c.todo
                   \/ <<"get_credential", x>> \in c.open
                   \/ \E b \in c.got : b.part = <<"get_credential", x>>
      BY <1>3, <1>5, <3>5
    <3>6. c.missed = {}
      BY <1>5, <2>2
    <3> QED
      BY <1>1, <3>1, <3>2, <3>3, <3>4, <3>5, <3>6 DEF CallSound, ExportGoesOn
  <2> QED
    BY <2>3, <2>4
<1>12. Ended(d)
  BY <1>1, <1>5 DEF CallSound, Ended
<1>13. reading' = [reading EXCEPT ![r] = d] /\ UNCHANGED Ledger
  BY <1>0, <1>2, <1>4 DEF PartRead
<1> QED
  BY <1>6, <1>8, <1>9, <1>10, <1>11, <1>12, <1>13, OneCallKeeps DEF CallSound

\* One part of a read fails, and the read throws or takes the default.
LEMMA ReadFailsKeeps ==
  ASSUME ReadInv, NEW r \in Reader, NEW p \in reading[r].open, ReadFails(r, p)
  PROVE  ReadInv'
<1>0. PICK c : c = reading[r]
  OBVIOUS
<1>1. /\ CallSound(c) /\ LedgerTypes /\ p \in c.open /\ p \in Part
  BY <1>0 DEF ReadInv, CallSound, Reading
<1>2. reading' = [reading EXCEPT ![r] = Failed(c, p)] /\ UNCHANGED Ledger
  BY <1>0 DEF ReadFails
<1>3. PICK d : d = Failed(c, p)
  OBVIOUS
<1>4. CASE c.onError = "throw"
  <2>1. d = [Unread EXCEPT !.at = "threw"]
    BY <1>3, <1>4 DEF Failed
  <2>2. /\ d.at = "threw" /\ d.open = {} /\ d.then = "end" /\ d.got = {} /\ d.missed = {} /\ d.todo = {}
        /\ d.from = [x \in Item |-> 0] /\ d.wasOutdated = {}
    BY <2>1 DEF Unread
  <2>3. d \in Reading
    BY <2>1 DEF Unread, Reading, Phase
  <2>4. NotAhead(d)
    BY <1>1, <2>2, SMT DEF NotAhead, LedgerTypes
  <2>5. AnswersSound(d) /\ ListsFirst(d) /\ ExportGoesOn(d) /\ Ended(d)
    BY <2>2 DEF AnswersSound, ListsFirst, ExportGoesOn, Ended
  <2> QED
    BY <1>2, <1>3, <2>3, <2>4, <2>5, OneCallKeeps DEF CallSound
<1>5. CASE c.onError # "throw"
  <2>1. d = [c EXCEPT !.open = @ \ {p}, !.missed = @ \cup {p}]
    BY <1>3, <1>5 DEF Failed
  <2>2. /\ d.at = c.at /\ d.then = c.then /\ d.onError = c.onError /\ d.missed = c.missed \cup {p}
        /\ d.todo = c.todo /\ d.from = c.from /\ d.wasOutdated = c.wasOutdated
        /\ d.open = c.open \ {p} /\ d.got = c.got
    BY <1>1, <2>1 DEF CallSound, Reading
  <2>3. d \in Reading
    BY <1>1, <2>1 DEF CallSound, Reading
  <2>4. NotAhead(d) /\ Ended(d)
    BY <1>1, <2>2 DEF CallSound, NotAhead, Ended
  <2>5. AnswersSound(d)
    BY <1>1, <1>5, <2>2 DEF CallSound, AnswersSound
  <2>6. ListsFirst(d)
    BY <1>1, <2>2 DEF CallSound, ListsFirst
  <2>7. ExportGoesOn(d)
    <3>1. d.missed # {}
      BY <2>2
    <3> QED
      BY <1>1, <2>2, <3>1 DEF CallSound, ExportGoesOn
  <2> QED
    BY <1>2, <1>3, <2>3, <2>4, <2>5, <2>6, <2>7, OneCallKeeps DEF CallSound
<1> QED
  BY <1>4, <1>5

\* The next phase of a call of which nothing is open.
LEMMA PhaseSound ==
  ASSUME NEW c, CallSound(c), c.open = {},
         NEW d \in Reading,
         d.onError = c.onError, d.got = c.got, d.missed = c.missed, d.from = c.from,
         d.wasOutdated = c.wasOutdated,
         ListsFirst(d), ExportGoesOn(d), Ended(d)
  PROVE  CallSound(d)
BY DEF CallSound, NotAhead, AnswersSound

\* What follows when all parts of a read are answered.
LEMMA ContinuedSound ==
  ASSUME NEW c, CallSound(c), c.open = {}, c.at = "reading", c.then # "inTurn" \/ c.todo = {}
  PROVE  CallSound(Continued(c))
<1>1. /\ c \in Reading /\ c.then \in Phase /\ c.got \subseteq Answer /\ c.missed \subseteq Part
      /\ Ids(c) \subseteq Item
      /\ \A a \in c.got : a.part[2] \in Item
  BY DEF CallSound, Reading, Answer, Ids, Part
<1>2. ListsFirst(c) /\ ExportGoesOn(c)
  BY DEF CallSound
<1>3. CASE c.then = "end"
  <2>1. PICK d : d = [c EXCEPT !.at = "returned"]
    OBVIOUS
  <2>2. /\ d \in Reading
        /\ d.onError = c.onError /\ d.got = c.got /\ d.missed = c.missed /\ d.from = c.from
        /\ d.wasOutdated = c.wasOutdated /\ d.open = c.open /\ d.then = c.then /\ d.todo = c.todo
        /\ d.at = "returned"
    BY <1>1, <2>1 DEF Reading
  <2>3. ListsFirst(d) /\ Ended(d) /\ ExportGoesOn(d)
    BY <1>2, <1>3, <2>2 DEF ListsFirst, Ended, ExportGoesOn
  <2> QED
    BY <1>3, <2>1, <2>2, <2>3, PhaseSound DEF Continued
<1>4. CASE c.then = "get_template"
  <2>1. PICK open : open = {<<"get_template", x>> : x \in Ids(c)}
    OBVIOUS
  <2>2. PICK d : d = [c EXCEPT !.then = "end", !.open = open]
    OBVIOUS
  <2>3. open \in SUBSET Part /\ \A p \in open : p[1] = "get_template"
    BY <1>1, <2>1 DEF Part, Function
  <2>4. /\ d \in Reading
        /\ d.onError = c.onError /\ d.got = c.got /\ d.missed = c.missed /\ d.from = c.from
        /\ d.wasOutdated = c.wasOutdated /\ d.open = open /\ d.then = "end" /\ d.todo = c.todo
        /\ d.at = "reading"
    BY <1>1, <2>2, <2>3 DEF Reading, Phase
  <2>5. ListsFirst(d)
    BY <1>2, <2>3, <2>4 DEF ListsFirst, Details, Listing
  <2>6. ExportGoesOn(d) /\ Ended(d)
    BY <1>2, <1>4, <2>3, <2>4 DEF ExportGoesOn, Ended
  <2> QED
    BY <1>4, <2>1, <2>2, <2>4, <2>5, <2>6, PhaseSound DEF Continued
<1>5. CASE c.then = "get_subject_credentials"
  <2>1. PICK open : open = {<<c.then, x>> : x \in {a[2] : a \in c.missed \cup {b.part : b \in c.got}}}
    OBVIOUS
  <2>2. PICK d : d = [c EXCEPT !.then = "get_credential", !.open = open]
    OBVIOUS
  <2>3. open \in SUBSET Part /\ \A p \in open : p[1] = "get_subject_credentials"
    <3>1. \A a \in c.missed \cup {b.part : b \in c.got} : a[2] \in Item
      BY <1>1 DEF Part
    <3> QED
      BY <1>5, <2>1, <3>1 DEF Part, Function
  <2>4. /\ d \in Reading
        /\ d.onError = c.onError /\ d.got = c.got /\ d.missed = c.missed /\ d.from = c.from
        /\ d.wasOutdated = c.wasOutdated /\ d.open = open /\ d.then = "get_credential" /\ d.todo = c.todo
        /\ d.at = "reading"
    BY <1>1, <2>2, <2>3 DEF Reading, Phase
  <2>5. ListsFirst(d)
    BY <1>2, <1>5, <2>3, <2>4 DEF ListsFirst, Details
  <2>6. (\E a \in c.got : a.part[1] = "resolveDID") => open # {}
    <3>1. ASSUME NEW a \in c.got PROVE <<c.then, a.part[2]>> \in open
      BY <2>1
    <3> QED
      BY <3>1
  <2>7. ExportGoesOn(d) /\ Ended(d)
    BY <2>3, <2>4, <2>6 DEF ExportGoesOn, Ended
  <2> QED
    BY <1>5, <2>1, <2>2, <2>4, <2>5, <2>7, PhaseSound DEF Continued
<1>6. CASE c.then = "get_credential"
  <2>1. PICK d : d = [c EXCEPT !.then = "inTurn", !.todo = Ids(c)]
    OBVIOUS
  <2>2. /\ d \in Reading
        /\ d.onError = c.onError /\ d.got = c.got /\ d.missed = c.missed /\ d.from = c.from
        /\ d.wasOutdated = c.wasOutdated /\ d.open = {} /\ d.then = "inTurn" /\ d.todo = Ids(c)
        /\ d.at = "reading"
    BY <1>1, <2>1 DEF Reading, Phase
  <2>3. ListsFirst(d) /\ Ended(d)
    BY <1>2, <1>6, <2>2 DEF ListsFirst, Ended
  <2>4. ExportGoesOn(d)
    <3>1. ASSUME \E a \in c.got : a.part[1] = "resolveDID", c.missed = {}
          PROVE  \A x \in Item : c.from[x] > 0 => x \in Ids(c)
      <4>1. PICK b \in c.got : \A x \in Item : c.from[x] > 0 => x \in b.list
        BY <1>2, <1>6, <3>1 DEF ExportGoesOn
      <4> QED
        BY <4>1 DEF Ids
    <3> QED
      BY <2>2, <3>1 DEF ExportGoesOn
  <2> QED
    BY <1>6, <2>1, <2>2, <2>3, <2>4, PhaseSound DEF Continued
<1>7. CASE c.then = "inTurn" /\ c.todo = {}
  <2>1. PICK d : d = [c EXCEPT !.then = "end"]
    OBVIOUS
  <2>2. /\ d \in Reading
        /\ d.onError = c.onError /\ d.got = c.got /\ d.missed = c.missed /\ d.from = c.from
        /\ d.wasOutdated = c.wasOutdated /\ d.open = {} /\ d.then = "end" /\ d.todo = {}
        /\ d.at = "reading"
    BY <1>1, <1>7, <2>1 DEF Reading, Phase
  <2>3. ListsFirst(d) /\ Ended(d) /\ ExportGoesOn(d)
    BY <1>2, <1>7, <2>2 DEF ListsFirst, Ended, ExportGoesOn
  <2> QED
    BY <1>7, <2>1, <2>2, <2>3, PhaseSound DEF Continued
<1>8. CASE c.then \in {"get_proof", "get_selective_disclosure"}
  <2>1. PICK open : open = {<<c.then, a.part[2]>> : a \in c.got}
    OBVIOUS
  <2>2. PICK d : d = [c EXCEPT !.then = "end", !.open = open]
    OBVIOUS
  <2>3. open \in SUBSET Part /\ \A p \in open : p[1] = c.then
    BY <1>1, <1>8, <2>1 DEF Part, Function
  <2>4. /\ d \in Reading
        /\ d.onError = c.onError /\ d.got = c.got /\ d.missed = c.missed /\ d.from = c.from
        /\ d.wasOutdated = c.wasOutdated /\ d.open = open /\ d.then = "end" /\ d.todo = c.todo
        /\ d.at = "reading"
    BY <1>1, <2>2, <2>3 DEF Reading, Phase
  <2>5. ListsFirst(d)
    BY <1>2, <1>8, <2>3, <2>4 DEF ListsFirst, Details, Listing
  <2>6. ExportGoesOn(d) /\ Ended(d)
    BY <1>2, <1>8, <2>3, <2>4 DEF ExportGoesOn, Ended
  <2> QED
    BY <1>8, <2>1, <2>2, <2>4, <2>5, <2>6, PhaseSound DEF Continued
<1> QED
  BY <1>1, <1>3, <1>4, <1>5, <1>6, <1>7, <1>8 DEF Phase

\* A read goes on to its next round of calls, or ends.
LEMMA ContinueKeeps ==
  ASSUME ReadInv, NEW r \in Reader, Continue(r)
  PROVE  ReadInv'
<1>0. PICK c : c = reading[r]
  OBVIOUS
<1>1. /\ CallSound(c) /\ LedgerTypes /\ c.at = "reading" /\ c.open = {} /\ c \in Reading
      /\ UNCHANGED Ledger
  BY <1>0 DEF ReadInv, CallSound, Continue
<1>2. CASE (c.then # "inTurn" \/ c.todo = {}) /\ reading' = [reading EXCEPT ![r] = Continued(@)]
  BY <1>0, <1>1, <1>2, ContinuedSound, OneCallKeeps
<1>3. ASSUME NEW x \in c.todo, c.then = "inTurn",
             reading' = [reading EXCEPT ![r].todo = @ \ {x}, ![r].open = {<<"get_credential", x>>}]
      PROVE  ReadInv'
  <2>1. PICK d : d = [c EXCEPT !.todo = @ \ {x}, !.open = {<<"get_credential", x>>}]
    OBVIOUS
  <2>2. {<<"get_credential", x>>} \in SUBSET Part
    BY <1>1 DEF Reading, Part, Function
  <2>3. /\ d \in Reading
        /\ d.onError = c.onError /\ d.got = c.got /\ d.missed = c.missed /\ d.from = c.from
        /\ d.wasOutdated = c.wasOutdated /\ d.open = {<<"get_credential", x>>} /\ d.then = "inTurn"
        /\ d.todo = c.todo \ {x} /\ d.at = "reading"
    BY <1>1, <1>3, <2>1, <2>2 DEF Reading
  <2>4. ListsFirst(d) /\ Ended(d)
    BY <1>1, <1>3, <2>3 DEF CallSound, ListsFirst, Ended, Details, Listing
  <2>5. ExportGoesOn(d)
    BY <1>1, <1>3, <2>3 DEF CallSound, ExportGoesOn
  <2>6. CallSound(d)
    BY <1>1, <2>3, <2>4, <2>5, PhaseSound
  <2>7. reading' = [reading EXCEPT ![r] = d]
    BY <1>0, <1>3, <2>1
  <2> QED
    BY <1>1, <2>6, <2>7, OneCallKeeps
<1> QED
  BY <1>0, <1>2, <1>3 DEF Continue

\* The number of the last change is not less than that of any item.
LEMMA LastChangeIs ==
  ASSUME LedgerTypes
  PROVE  LastChange \in 0 .. MaxVersions /\ \A x \in Item : version[x] <= LastChange
<1> DEFINE Above == {n \in 0 .. MaxVersions : \A x \in Item : version[x] <= n}
<1>1. MaxVersions \in Above /\ Above \subseteq Nat
  BY ReadsAssumption, SMT DEF LedgerTypes
<1>2. PICK n \in Above : \A m \in Above : n <= m
  BY <1>1, LeastPlace
<1>3. n > 0 => \E x \in Item : version[x] = n
  <2> SUFFICES ASSUME n > 0, \A x \in Item : version[x] # n PROVE FALSE
    OBVIOUS
  <2>1. n - 1 \in Above
    BY <1>2, ReadsAssumption, SMT DEF LedgerTypes
  <2> QED
    BY <1>1, <1>2, <2>1, SMT
<1>4. n \in 0 .. MaxVersions /\ \A x \in Item : version[x] <= n
  BY <1>2
<1> QED
  BY <1>3, <1>4 DEF LastChange

\* The ledger moves on under the reads.
LEMMA LedgerGoesOn ==
  ASSUME ReadInv, LedgerTypes', \A x \in Item : version[x] <= version'[x], outdated \subseteq outdated',
         reading' = reading
  PROVE  ReadInv'
<1>1. \A c : CallSound(c) => CallSound(c)'
  BY CallStays DEF ReadInv
<1> QED
  BY <1>1 DEF ReadInv

\* The invariant of the reads.
LEMMA ReadInvariance == ReadsSpec => []ReadInv
<1>1. ReadsInit => ReadInv
  <2> SUFFICES ASSUME ReadsInit PROVE ReadInv
    OBVIOUS
  <2>1. LedgerTypes
    BY ReadsAssumption, SMT DEF ReadsInit, LedgerTypes
  <2>2. /\ Unread.at = "new" /\ Unread.open = {} /\ Unread.then = "end" /\ Unread.got = {}
        /\ Unread.missed = {} /\ Unread.todo = {} /\ Unread.wasOutdated = {}
        /\ Unread.from = [x \in Item |-> 0] /\ Unread \in Reading
    BY DEF Unread, Reading, Phase
  <2>3. NotAhead(Unread)
    BY <2>1, <2>2, SMT DEF NotAhead, LedgerTypes
  <2>4. CallSound(Unread)
    BY <2>2, <2>3 DEF CallSound, AnswersSound, ListsFirst, ExportGoesOn, Ended
  <2> QED
    BY <2>1, <2>4 DEF ReadInv, ReadsInit
<1>2. ReadInv /\ [ReadsNext]_readVars => ReadInv'
  <2> SUFFICES ASSUME ReadInv, [ReadsNext]_readVars PROVE ReadInv'
    OBVIOUS
  <2>0. \A x \in Item : version[x] \in Nat /\ version[x] <= version[x]
    BY SMT DEF ReadInv, LedgerTypes
  <2>1. CASE UNCHANGED readVars
    <3>1. version' = version /\ outdated' = outdated /\ reading' = reading
      BY <2>1 DEF readVars
    <3>2. LedgerTypes'
      BY <3>1 DEF ReadInv, LedgerTypes
    <3> QED
      BY <2>0, <3>1, <3>2, LedgerGoesOn
  <2>2. ASSUME NEW x \in Item, DataChanges(x) PROVE ReadInv'
    <3>1. /\ version' = [version EXCEPT ![x] = LastChange + 1] /\ LastChange < MaxVersions
          /\ outdated' = outdated /\ reading' = reading
      BY <2>2 DEF DataChanges
    <3>2. LastChange \in 0 .. MaxVersions /\ \A y \in Item : version[y] <= LastChange
      BY LastChangeIs DEF ReadInv
    <3> DEFINE n == LastChange
    <3> HIDE DEF n
    <3>3. n \in 0 .. MaxVersions /\ n < MaxVersions /\ version' = [version EXCEPT ![x] = n + 1]
          /\ \A y \in Item : version[y] <= n
      BY <3>1, <3>2 DEF n
    <3>4. n + 1 \in 0 .. MaxVersions
      BY <3>3, ReadsAssumption, SMT
    <3>5. version' \in [Item -> 0 .. MaxVersions]
      BY <3>3, <3>4 DEF ReadInv, LedgerTypes
    <3>6. \A y \in Item : version[y] <= version'[y]
      BY <2>0, <3>3, SMT DEF ReadInv, LedgerTypes
    <3>7. LedgerTypes'
      BY <3>1, <3>5 DEF ReadInv, LedgerTypes
    <3> QED
      BY <3>1, <3>6, <3>7, LedgerGoesOn
  <2>3. ASSUME NEW x \in Item, ItemOutdated(x) PROVE ReadInv'
    <3>1. version' = version /\ outdated' = outdated \cup {x} /\ reading' = reading
      BY <2>3 DEF ItemOutdated
    <3>2. LedgerTypes'
      BY <3>1 DEF ReadInv, LedgerTypes
    <3> QED
      BY <2>0, <3>1, <3>2, LedgerGoesOn
  <2> QED
    BY <2>1, <2>2, <2>3, MethodSound, PartReadKeeps, ReadFailsKeeps, ContinueKeeps DEF ReadsNext
<1> QED
  BY <1>1, <1>2, PTL DEF ReadsSpec

\* A read of the SDK's clients that returns without a default has every part, none older
\* than the call, the details of an item no older than the list it is on, and an export
\* without a failed read every credential there was when it began: the clients fetch in
\* parallel, from a list, and one after the other, with no snapshot to hold the answers
\* together.
THEOREM ReadsAlwaysExplained == ReadsSpec => []ReadsExplained
<1>1. ReadInv => ReadsExplained
  <2> SUFFICES ASSUME ReadInv, NEW r \in Returned
               PROVE
        /\ reading[r].onError = "throw" => reading[r].missed = {}
        /\ \A a \in reading[r].got : a.n > 0 => a.n >= reading[r].from[a.part[2]]
        /\ \A a \in Got(r, "verify_proof") : a.valid => a.part[2] \notin reading[r].wasOutdated
        /\ \A a \in Got(r, "get_credential") \cup Got(r, "get_template"), b \in reading[r].got :
              a.part[2] \in b.list => a.n >= b.then[a.part[2]]
        /\ (Got(r, "resolveDID") # {} /\ reading[r].missed = {}) =>
              \A x \in Item \ Unparsed : reading[r].from[x] > 0 =>
                  \E a \in Got(r, "get_credential") : a.part[2] = x
    BY DEF ReadsExplained
  <2>0. PICK c : c = reading[r]
    OBVIOUS
  <2>1. CallSound(c) /\ c.at = "returned"
    BY <2>0 DEF ReadInv, Returned
  <2>2. c.then = "end" /\ c.open = {} /\ AnswersSound(c) /\ ExportGoesOn(c)
    BY <2>1 DEF CallSound, Ended
  <2>3. \A function : Got(r, function) = {a \in c.got : a.part[1] = function}
    BY <2>0 DEF Got
  <2>4. \A a \in Got(r, "get_credential") \cup Got(r, "get_template") : a \in c.got /\ a.part[1] \in Details
    BY <2>3 DEF Details
  <2>5. ASSUME Got(r, "resolveDID") # {}, c.missed = {}, NEW x \in Item \ Unparsed, c.from[x] > 0
        PROVE  \E a \in Got(r, "get_credential") : a.part[2] = x
    <3>1. \E a \in c.got : a.part[1] = "resolveDID"
      BY <2>3, <2>5
    <3>2. PICK a \in c.got : a.part = <<"get_credential", x>>
      BY <2>2, <2>5, <3>1 DEF ExportGoesOn
    <3> QED
      BY <2>3, <3>2
  <2> QED
    BY <2>0, <2>2, <2>3, <2>4, <2>5 DEF AnswersSound
<1> QED
  BY <1>1, ReadInvariance, PTL

-----------------------------------------------------------------------------
(***************************************************************************)
(* NetworkMonitor: what the monitor counts, and when it alerts. The        *)
(* invariant holds, besides the property: that no alert is later than the  *)
(* last one noted of its kind, that the console has that one unless it was *)
(* off, and that the last period is the one of the last transaction. That  *)
(* a small window finds no anomaly is the inequality of Samuelson.         *)
(***************************************************************************)
\* A window of at most D * D + 1 numbers has no outlier among them.
LEMMA NoOutlier ==
  ASSUME NEW values \in Seq(Int), NEW v \in Int, Len(values) > 0, values[Len(values)] = v,
         Len(values) <= Deviation * Deviation + 1
  PROVE  ~Anomalous(values, v)
<1>1. PICK n \in Nat : n = Len(values)
  OBVIOUS
<1>2. DOMAIN values = 1 .. n /\ n > 0 /\ values \in [1 .. n -> Int]
  BY <1>1
<1>3. PICK U : U = 1 .. n
  OBVIOUS
<1>4. IsFiniteSet(U) /\ Cardinality(U) = n
  <2>1. 1 \in Int /\ n \in Int /\ (1 <= n) /\ (n - 1) + 1 = n
    BY <1>2, SMT
  <2> QED
    BY <1>3, <2>1, FS_Interval
<1>5. Summable(values, U)
  BY <1>2, <1>3 DEF Summable
<1>6. n \in U
  BY <1>2, <1>3, SMT
<1>7. PICK R : R = U \ {n}
  OBVIOUS
<1>8. R \in SUBSET U /\ U \in SUBSET U /\ Cardinality(R) = n - 1 /\ n - 1 \in Nat
  <2>1. Cardinality(R) = n - 1
    BY <1>4, <1>6, <1>7, FS_RemoveElement
  <2>2. n - 1 \in Nat
    BY <1>2, SMT
  <2> QED
    BY <1>7, <2>1, <2>2
<1>9. PICK t \in Int : t = SumFunctionOnSet(values, R)
  BY <1>4, <1>5, <1>8, SquareOfSum
<1>10. PICK q \in Int : q = SumFunctionOnSet(Squared(values, U), R)
  BY <1>4, <1>5, <1>8, SquareOfSum
<1>11. q >= 0 /\ t * t <= (n - 1) * q
  BY <1>4, <1>5, <1>8, <1>9, <1>10, SquareOfSum
<1>12. PICK sum \in Int : sum = SumFunction(values)
  <2>1. SumFunctionOnSet(values, U) \in Int
    BY <1>4, <1>5, SumTakesFirst
  <2> QED
    BY <1>2, <1>3, <2>1 DEF SumFunction
<1>13. sum = v + t
  <2>1. SumFunctionOnSet(values, U) = values[n] + SumFunctionOnSet(values, R)
    BY <1>4, <1>5, <1>6, <1>7, <1>8, SumTakesAny
  <2> QED
    BY <1>1, <1>2, <1>3, <1>9, <1>12, <2>1 DEF SumFunction
<1>14. PICK f : f = [i \in DOMAIN values |-> values[i] * values[i]]
  OBVIOUS
<1>15. f = Squared(values, U) /\ DOMAIN f = U
  BY <1>2, <1>3, <1>14 DEF Squared
<1>16. PICK squares : squares = SumFunction(f)
  OBVIOUS
<1>17. squares = v * v + q
  <2>1. Summable(f, U)
    <3> SUFFICES ASSUME NEW x \in U PROVE f[x] \in Int
      BY DEF Summable
    <3>1. values[x] \in Int
      BY <1>5 DEF Summable
    <3>2. values[x] * values[x] \in Int
      BY <3>1, SMT
    <3> QED
      BY <1>2, <1>3, <1>14, <3>2
  <2>2. SumFunctionOnSet(f, U) = f[n] + SumFunctionOnSet(f, R)
    BY <1>4, <1>6, <1>7, <1>8, <2>1, SumTakesAny
  <2>3. f[n] = v * v
    BY <1>1, <1>2, <1>3, <1>6, <1>14
  <2> QED
    BY <1>10, <1>15, <1>16, <2>2, <2>3 DEF SumFunction
<1>18. PICK k \in Nat : k = n - 1 /\ n = k + 1
  BY <1>8, SMT
<1>19. Deviation \in Nat /\ k <= Deviation * Deviation
  <2>1. Deviation \in Nat
    BY MonitorAssumption
  <2>2. n <= Deviation * Deviation + 1
    BY <1>1
  <2> QED
    BY <1>18, <2>1, <2>2, SMT
<1>20. (n * v - sum) * (n * v - sum) <= (Deviation * Deviation) * (n * squares - sum * sum)
  <2>1. ((k + 1) * v - (v + t)) * ((k + 1) * v - (v + t))
            <= (Deviation * Deviation) * ((k + 1) * (v * v + q) - (v + t) * (v + t))
    BY <1>11, <1>18, <1>19, Samuelson
  <2> QED
    BY <1>13, <1>17, <1>18, <2>1
<1>21. PICK a \in Int : a = (n * v - sum) * (n * v - sum)
  BY SMT
<1>22. PICK b \in Int : b = Deviation * Deviation * (n * squares - sum * sum)
  <2>1. squares \in Int
    BY <1>17, SMT
  <2> QED
    BY <1>19, <2>1, SMT
<1>23. ~(a > b)
  BY <1>20, <1>21, <1>22, SMT
<1>24. Anomalous(values, v) => a > b
  BY <1>1, <1>12, <1>14, <1>16, <1>21, <1>22 DEF Anomalous
<1> QED
  BY <1>23, <1>24

\* An interval of a time begins at or before it, and ends after it.
LEMMA PeriodAround ==
  ASSUME NEW t \in Nat
  PROVE  /\ PeriodOf(t) \in Nat /\ PeriodOf(t) <= t /\ t < PeriodOf(t) + Interval
         /\ (t \div Interval) \in Nat
<1>1. Interval \in Nat /\ Interval > 0
  BY MonitorAssumption, SMT
<1>2. (t \div Interval) \in Int /\ t = Interval * (t \div Interval) + (t % Interval)
      /\ (t % Interval) \in 0 .. (Interval - 1)
  BY <1>1, SMT
<1>3. PICK q \in Int : q = t \div Interval
  BY <1>2
<1>4. PICK r \in Int : r = t % Interval
  BY <1>2
<1>5. t = Interval * q + r /\ 0 <= r /\ r < Interval
  BY <1>1, <1>2, <1>3, <1>4, SMT
<1>6. q >= 0
  <2>1. ASSUME q < 0 PROVE FALSE
    <3>1. PICK z \in Nat : q = -1 - z
      BY <2>1, SMT
    <3>2. Interval * z >= 0
      BY <1>1, SMT
    <3>3. Interval * q = 0 - Interval - Interval * z
      BY <1>1, <3>1, SMT
    <3> QED
      BY <1>1, <1>5, <3>2, <3>3, SMT
  <2> QED
    BY <2>1, SMT
<1>7. q * Interval = t - r /\ q * Interval \in Int
  BY <1>1, <1>5, SMT
<1> QED
  BY <1>1, <1>3, <1>5, <1>6, <1>7, SMT DEF PeriodOf

\* A time within the interval of a later one is in the same interval.
LEMMA PeriodSame ==
  ASSUME NEW t \in Nat, NEW u \in Nat, u <= t, PeriodOf(t) <= u
  PROVE  PeriodOf(u) = PeriodOf(t)
<1>1. Interval \in Nat /\ Interval > 0
  BY MonitorAssumption, SMT
<1>2. PICK q \in Nat : q = t \div Interval
  BY PeriodAround
<1>3. PICK p \in Nat : p = u \div Interval
  BY PeriodAround
<1>4. /\ q * Interval <= u /\ u < p * Interval + Interval
      /\ p * Interval <= t /\ t < q * Interval + Interval
  <2>1. PICK a \in Nat : a = PeriodOf(t)
    BY PeriodAround
  <2>2. PICK b \in Nat : b = PeriodOf(u)
    BY PeriodAround
  <2>3. a = q * Interval /\ b = p * Interval
    BY <1>2, <1>3, <2>1, <2>2 DEF PeriodOf
  <2>4. a <= u /\ u < b + Interval /\ b <= u /\ t < a + Interval
    BY <2>1, <2>2, PeriodAround
  <2>5. b <= t
    BY <2>2, <2>4, SMT
  <2> QED
    BY <2>3, <2>4, <2>5
<1>5. ASSUME NEW k \in Nat, NEW l \in Nat, k * Interval < l * Interval + Interval
      PROVE  k <= l
  <2>1. ASSUME ~(k <= l) PROVE FALSE
    <3>1. PICK z \in Nat : k = l + 1 + z
      BY <2>1, SMT
    <3>2. z * Interval >= 0
      BY <1>1, SMT
    <3>3. k * Interval = l * Interval + Interval + z * Interval
      BY <1>1, <3>1, SMT
    <3> QED
      BY <1>1, <1>5, <3>2, <3>3, SMT
  <2> QED
    BY <2>1
<1>6. q * Interval \in Int /\ p * Interval \in Int
  BY <1>1, SMT
<1>7. q * Interval < p * Interval + Interval /\ p * Interval < q * Interval + Interval
  BY <1>1, <1>4, <1>6, SMT
<1>8. q <= p /\ p <= q
  BY <1>5, <1>7
<1>9. p = q
  BY <1>8, SMT
<1> QED
  BY <1>2, <1>3, <1>9 DEF PeriodOf

\* A value put into a window is its last, and the window is not longer than it may be.
LEMMA KeptWindow ==
  ASSUME NEW b \in Seq(Int), NEW v \in Int, NEW n \in Nat, n > 0, NEW w, w = LastKept(Append(b, v), n)
  PROVE  w \in Seq(Int) /\ Len(w) > 0 /\ Len(w) <= n /\ w[Len(w)] = v
<1>1. PICK s : s = Append(b, v)
  OBVIOUS
<1>2. s \in Seq(Int) /\ Len(s) = Len(b) + 1 /\ s[Len(s)] = v /\ Len(b) \in Nat
  BY <1>1
<1>3. CASE Len(s) > n
  <2>1. PICK l \in Nat : l = Len(s)
    BY <1>2
  <2>2. PICK k \in Nat : k = l - n + 1 /\ k > 1 /\ k <= l /\ l - k + 1 = n /\ k + n - 1 = l
    <3>1. l > n
      BY <1>3, <2>1
    <3>2. l - n + 1 \in Nat
      BY <3>1, SMT
    <3> QED
      BY <3>1, <3>2, SMT
  <2>3. w = SubSeq(s, k, l)
    BY <1>1, <1>3, <2>1, <2>2 DEF LastKept, LastOf
  <2>4. w \in Seq(Int)
    BY <1>2, <2>1, <2>2, <2>3, SMT
  <2>5. Len(w) = n
    BY <1>2, <2>1, <2>2, <2>3, SMT
  <2>6. w[n] = s[l]
    BY <1>2, <2>1, <2>2, <2>3, SMT
  <2>7. n <= n
    BY SMT
  <2> QED
    BY <1>2, <2>1, <2>4, <2>5, <2>6, <2>7
<1>4. CASE ~(Len(s) > n)
  <2>1. w = s /\ Len(s) <= n /\ Len(s) > 0
    BY <1>1, <1>2, <1>4 DEF LastKept
  <2> QED
    BY <1>2, <2>1
<1> QED
  BY <1>3, <1>4

\* So a window of at most Deviation^2 + 1 values has no anomaly.
LEMMA NoAnomaly ==
  ASSUME NEW b \in Seq(Int), NEW v \in Int, Window <= Deviation * Deviation + 1
  PROVE  ~Anomalous(LastKept(Append(b, v), Window), v)
<1>1. PICK w : w = LastKept(Append(b, v), Window)
  OBVIOUS
<1>2. Window \in Nat /\ Window > 0 /\ Deviation \in Nat
  BY MonitorAssumption, SMT
<1>3. w \in Seq(Int) /\ Len(w) > 0 /\ Len(w) <= Window /\ w[Len(w)] = v
  BY <1>1, <1>2, KeptWindow
<1>4. Len(w) <= Deviation * Deviation + 1
  <2>1. PICK d \in Nat : d = Deviation * Deviation
    BY <1>2, SMT
  <2> QED
    BY <1>2, <1>3, <2>1, SMT
<1> QED
  BY <1>1, <1>3, <1>4, NoOutlier

Transaction == [at : Nat, ok : BOOLEAN, fee : Int, gas : Int]
Period == [start : Nat, end : Nat, total : Nat, ok : Nat, fees : Int, gas : Int]

\* PeriodExact of a period, for transactions rs.
Fees(rs) == [i \in DOMAIN rs |-> rs[i].fee]
Gases(rs) == [i \in DOMAIN rs |-> rs[i].gas]
Mine(rs, s) == {i \in DOMAIN rs : PeriodOf(rs[i].at) = s}
Exact(rs, p) ==
    /\ p.total = Cardinality(Mine(rs, p.start))
    /\ p.ok = Cardinality({i \in Mine(rs, p.start) : rs[i].ok})
    /\ p.fees = SumFunctionOnSet(Fees(rs), Mine(rs, p.start))
    /\ p.gas = SumFunctionOnSet(Gases(rs), Mine(rs, p.start))

\* The periods ps count the transactions rs made so far: those are in some period, and the
\* later the period, the later its interval.
Exactly(rs, ps) ==
    /\ \A i \in DOMAIN ps : Exact(rs, ps[i])
    /\ \A i, j \in DOMAIN ps : i < j => ps[i].start < ps[j].start
    /\ \A i \in DOMAIN rs : \E j \in DOMAIN ps : ps[j].start = PeriodOf(rs[i].at)
Counting(rs, ps, t) ==
    /\ Exactly(rs, ps)
    /\ \A i \in DOMAIN rs : rs[i].at <= t
    /\ ps # <<>> => /\ ps[Len(ps)].end <= t
                    /\ ps[Len(ps)].start = PeriodOf(ps[Len(ps)].end)

\* The transactions of a sequence are finitely many, and have fees and gas.
LEMMA MineFinite ==
  ASSUME NEW rs \in Seq(Transaction), NEW s
  PROVE  /\ DOMAIN rs = 1 .. Len(rs) /\ Len(rs) \in Nat
         /\ IsFiniteSet(DOMAIN rs) /\ IsFiniteSet(Mine(rs, s)) /\ Mine(rs, s) \in SUBSET DOMAIN rs
         /\ Summable(Fees(rs), DOMAIN rs) /\ Summable(Gases(rs), DOMAIN rs)
         /\ Summable(Fees(rs), Mine(rs, s)) /\ Summable(Gases(rs), Mine(rs, s))
<1>1. DOMAIN rs = 1 .. Len(rs) /\ Len(rs) \in Nat
  OBVIOUS
<1>2. IsFiniteSet(1 .. Len(rs))
  <2>1. 1 \in Int /\ Len(rs) \in Int
    BY <1>1, SMT
  <2> QED
    BY <2>1, FS_Interval
<1>3. Mine(rs, s) \in SUBSET DOMAIN rs
  BY DEF Mine
<1>4. \A i \in DOMAIN rs : rs[i].fee \in Int /\ rs[i].gas \in Int
  <2> SUFFICES ASSUME NEW i \in DOMAIN rs PROVE rs[i].fee \in Int /\ rs[i].gas \in Int
    OBVIOUS
  <2>1. rs[i] \in Transaction
    OBVIOUS
  <2> QED
    BY <2>1 DEF Transaction
<1>5. Summable(Fees(rs), DOMAIN rs) /\ Summable(Gases(rs), DOMAIN rs)
  BY <1>4 DEF Summable, Fees, Gases
<1> QED
  BY <1>1, <1>2, <1>3, <1>5, FS_Subset DEF Summable

\* A period nothing was recorded in is exact when it is new.
LEMMA ExactWhenNew ==
  ASSUME NEW rs \in Seq(Transaction), NEW p, p.total = 0, p.ok = 0, p.fees = 0, p.gas = 0,
         \A i \in DOMAIN rs : PeriodOf(rs[i].at) # p.start
  PROVE  Exact(rs, p)
<1>1. Mine(rs, p.start) = {} /\ {i \in Mine(rs, p.start) : rs[i].ok} = {}
  BY DEF Mine
<1>2. Cardinality({}) = 0
  BY FS_EmptySet
<1>3. IsFiniteSet({}) /\ Summable(Fees(rs), {}) /\ Summable(Gases(rs), {})
  BY FS_EmptySet DEF Summable
<1>4. SumFunctionOnSet(Fees(rs), {}) = 0 /\ SumFunctionOnSet(Gases(rs), {}) = 0
  BY <1>3, SumTakesFirst
<1> QED
  BY <1>1, <1>2, <1>4 DEF Exact

\* A transaction of another interval leaves a period exact.
LEMMA ExactStays ==
  ASSUME NEW rs \in Seq(Transaction), NEW tr \in Transaction, NEW p, Exact(rs, p),
         PeriodOf(tr.at) # p.start
  PROVE  Exact(Append(rs, tr), p)
<1>1. PICK ts : ts = Append(rs, tr)
  OBVIOUS
<1>2. /\ ts \in Seq(Transaction) /\ Len(ts) = Len(rs) + 1 /\ ts[Len(rs) + 1] = tr
      /\ \A i \in DOMAIN rs : ts[i] = rs[i]
      /\ DOMAIN ts = DOMAIN rs \cup {Len(rs) + 1}
  BY <1>1
<1>3. PICK S : S = Mine(rs, p.start)
  OBVIOUS
<1>4. S \in SUBSET DOMAIN rs /\ IsFiniteSet(S)
      /\ Summable(Fees(rs), S) /\ Summable(Gases(rs), S)
  BY <1>3, MineFinite
<1>5. Mine(ts, p.start) = S
  BY <1>2, <1>3 DEF Mine
<1>6. {i \in S : ts[i].ok} = {i \in S : rs[i].ok}
  BY <1>2, <1>4
<1>7. \A i \in S : Fees(ts)[i] = Fees(rs)[i] /\ Gases(ts)[i] = Gases(rs)[i]
  BY <1>2, <1>4 DEF Fees, Gases
<1>8. /\ SumFunctionOnSet(Fees(ts), S) = SumFunctionOnSet(Fees(rs), S)
      /\ SumFunctionOnSet(Gases(ts), S) = SumFunctionOnSet(Gases(rs), S)
  BY <1>4, <1>7, SumsAlike
<1> QED
  BY <1>1, <1>3, <1>5, <1>6, <1>8 DEF Exact

\* A period that counts a transaction of its interval stays exact.
LEMMA ExactCounts ==
  ASSUME NEW rs \in Seq(Transaction), NEW tr \in Transaction, NEW p, Exact(rs, p),
         PeriodOf(tr.at) = p.start, NEW q, q.start = p.start, q.total = p.total + 1,
         q.ok = IF tr.ok THEN p.ok + 1 ELSE p.ok,
         q.fees = p.fees + tr.fee, q.gas = p.gas + tr.gas
  PROVE  Exact(Append(rs, tr), q)
<1>1. PICK ts : ts = Append(rs, tr)
  OBVIOUS
<1>2. PICK k \in Nat : k = Len(rs) + 1
  BY SMT
<1>3. /\ ts \in Seq(Transaction) /\ ts[k] = tr /\ DOMAIN rs = 1 .. Len(rs) /\ Len(rs) \in Nat
      /\ \A i \in DOMAIN rs : ts[i] = rs[i]
      /\ DOMAIN ts = DOMAIN rs \cup {k}
  BY <1>1, <1>2
<1>4. k \notin DOMAIN rs
  BY <1>2, <1>3, SMT
<1>5. PICK S : S = Mine(rs, p.start)
  OBVIOUS
<1>6. S \in SUBSET DOMAIN rs /\ IsFiniteSet(S) /\ k \notin S
      /\ Summable(Fees(rs), S) /\ Summable(Gases(rs), S)
  BY <1>4, <1>5, MineFinite
<1>7. PICK T : T = Mine(ts, q.start)
  OBVIOUS
<1>8. T = S \cup {k} /\ k \in T /\ T \ {k} = S
  BY <1>3, <1>5, <1>6, <1>7 DEF Mine
<1>9. IsFiniteSet(T) /\ T \in SUBSET T /\ Summable(Fees(ts), T) /\ Summable(Gases(ts), T)
  BY <1>3, <1>7, MineFinite
<1>10. \A i \in S : ts[i] = rs[i] /\ Fees(ts)[i] = Fees(rs)[i] /\ Gases(ts)[i] = Gases(rs)[i]
  BY <1>3, <1>6 DEF Fees, Gases
<1>11. Fees(ts)[k] = tr.fee /\ Gases(ts)[k] = tr.gas
  BY <1>3 DEF Fees, Gases
<1>12. /\ SumFunctionOnSet(Fees(ts), S) = SumFunctionOnSet(Fees(rs), S)
       /\ SumFunctionOnSet(Gases(ts), S) = SumFunctionOnSet(Gases(rs), S)
  BY <1>6, <1>10, SumsAlike
<1>13. /\ SumFunctionOnSet(Fees(ts), T) = tr.fee + SumFunctionOnSet(Fees(rs), S)
       /\ SumFunctionOnSet(Gases(ts), T) = tr.gas + SumFunctionOnSet(Gases(rs), S)
  BY <1>8, <1>9, <1>11, <1>12, SumTakesAny
<1>14. /\ SumFunctionOnSet(Fees(rs), S) \in Int /\ SumFunctionOnSet(Gases(rs), S) \in Int
       /\ tr.fee \in Int /\ tr.gas \in Int
  BY <1>6, SumTakesFirst DEF Transaction
<1>15. /\ SumFunctionOnSet(Fees(ts), T) = SumFunctionOnSet(Fees(rs), S) + tr.fee
       /\ SumFunctionOnSet(Gases(ts), T) = SumFunctionOnSet(Gases(rs), S) + tr.gas
  BY <1>13, <1>14, SMT
<1>16. Cardinality(T) = Cardinality(S) + 1
  BY <1>6, <1>8, FS_AddElement
<1>17. PICK O : O = {i \in S : rs[i].ok}
  OBVIOUS
<1>18. IsFiniteSet(O) /\ k \notin O
  BY <1>6, <1>17, FS_Subset
<1>19. CASE tr.ok
  <2>1. {i \in T : ts[i].ok} = O \cup {k}
    BY <1>3, <1>8, <1>10, <1>17, <1>19
  <2>2. Cardinality(O \cup {k}) = Cardinality(O) + 1
    BY <1>18, FS_AddElement
  <2> QED
    BY <1>1, <1>5, <1>7, <1>15, <1>16, <1>17, <1>19, <2>1, <2>2 DEF Exact
<1>20. CASE ~tr.ok
  <2>1. {i \in T : ts[i].ok} = O
    BY <1>3, <1>8, <1>10, <1>17, <1>20
  <2> QED
    BY <1>1, <1>5, <1>7, <1>15, <1>16, <1>17, <1>20, <2>1 DEF Exact
<1> QED
  BY <1>19, <1>20

\* Opening a period where the last one is over leaves all periods exact, and a period of this
\* interval as the last.
LEMMA OpenedExactly ==
  ASSUME now \in Nat, recorded \in Seq(Transaction), periods \in Seq(Period),
         Counting(recorded, periods, now), NEW P, P = Opened
  PROVE  /\ P \in Seq(Period) /\ Len(P) > 0 /\ P[Len(P)].start = PeriodOf(now)
         /\ Exactly(recorded, P)
<1>1. PICK s \in Nat : s = PeriodOf(now)
  BY PeriodAround
<1>2. Interval \in Nat
  BY MonitorAssumption, SMT
<1>3. PICK new \in Period : new = NewPeriod
  <2>1. s + Interval \in Nat
    BY <1>2, SMT
  <2>2. NewPeriod \in Period
    BY <1>1, <2>1, SMT DEF NewPeriod, Period
  <2> QED
    BY <2>2
<1>4. /\ new.start = s /\ new.total = 0 /\ new.ok = 0 /\ new.fees = 0 /\ new.gas = 0
  BY <1>1, <1>3 DEF NewPeriod
<1>5. /\ \A i \in DOMAIN periods : Exact(recorded, periods[i])
      /\ \A i, j \in DOMAIN periods : i < j => periods[i].start < periods[j].start
      /\ \A i \in DOMAIN recorded : \E j \in DOMAIN periods :
            periods[j].start = PeriodOf(recorded[i].at)
  BY DEF Counting, Exactly
<1>6. CASE periods = <<>>
  <2>1. P = <<new>>
    BY <1>3, <1>6 DEF Opened
  <2>2. P \in Seq(Period) /\ Len(P) = 1 /\ DOMAIN P = {1} /\ P[1] = new
    BY <2>1
  <2>3. DOMAIN recorded = {}
    BY <1>5, <1>6
  <2>4. Exact(recorded, new)
    BY <1>4, <2>3, ExactWhenNew
  <2>5. ~(1 < 1) /\ 1 > 0
    BY SMT
  <2> QED
    BY <1>1, <1>4, <2>2, <2>3, <2>4, <2>5 DEF Exactly
<1>7. CASE periods # <<>>
  <2>1. PICK n \in Nat : n = Len(periods)
    OBVIOUS
  <2>2. n > 0 /\ DOMAIN periods = 1 .. n /\ n \in 1 .. n
    BY <1>7, <2>1, SMT
  <2>3. PICK last \in Period : last = periods[n]
    BY <2>2
  <2>4. last.end \in Nat /\ last.start \in Nat /\ last.end <= now
        /\ last.start = PeriodOf(last.end)
    BY <1>7, <2>1, <2>3 DEF Counting, Period
  <2>5. PICK e \in Nat : e = last.end
    BY <2>4
  <2>6. CASE ~PeriodOver(periods[n])
    <3>1. P = periods
      BY <1>7, <2>1, <2>6 DEF Opened
    <3>2. s <= e /\ e <= now
      BY <1>1, <2>3, <2>4, <2>5, <2>6, SMT DEF PeriodOver
    <3>3. PeriodOf(e) = PeriodOf(now)
      BY <1>1, <3>2, PeriodSame
    <3> QED
      BY <2>1, <2>2, <2>3, <2>4, <2>5, <3>1, <3>3 DEF Counting
  <2>7. CASE PeriodOver(periods[n])
    <3>1. last.start < s
      <4>1. e < s
        BY <1>1, <2>3, <2>5, <2>7 DEF PeriodOver
      <4>2. PeriodOf(e) <= e
        BY PeriodAround
      <4> QED
        BY <2>4, <2>5, <4>1, <4>2, SMT
    <3>2. PICK Q \in Seq(Period) :
             /\ Len(Q) = n /\ P = Append(Q, new)
             /\ \A i \in 1 .. n :
                  /\ Q[i].start = periods[i].start /\ Q[i].total = periods[i].total
                  /\ Q[i].ok = periods[i].ok
                  /\ Q[i].fees = periods[i].fees /\ Q[i].gas = periods[i].gas
      <4>1. CASE periods[n].end >= PeriodOf(now) - Interval
        <5>1. PICK closing : closing = [last EXCEPT !.end = now]
          OBVIOUS
        <5>2. /\ closing \in Period /\ closing.start = last.start /\ closing.total = last.total
              /\ closing.ok = last.ok /\ closing.fees = last.fees /\ closing.gas = last.gas
          BY <5>1 DEF Period
        <5>3. PICK Q : Q = [periods EXCEPT ![n] = closing]
          OBVIOUS
        <5>4. Q \in Seq(Period) /\ Len(Q) = n /\ Q[n] = closing
              /\ \A i \in 1 .. n : i # n => Q[i] = periods[i]
          BY <2>1, <2>2, <5>2, <5>3
        <5>5. P = Append(Q, new)
          BY <1>3, <1>7, <2>1, <2>3, <2>7, <4>1, <5>1, <5>3 DEF Opened
        <5> QED
          BY <2>3, <5>2, <5>4, <5>5
      <4>2. CASE ~(periods[n].end >= PeriodOf(now) - Interval)
        <5>1. P = Append(periods, new)
          BY <1>3, <1>7, <2>1, <2>7, <4>2 DEF Opened
        <5> QED
          BY <2>1, <5>1
      <4> QED
        BY <4>1, <4>2
    <3>3. PICK k \in Nat : k = n + 1
      BY SMT
    <3>4. /\ P \in Seq(Period) /\ Len(P) = k /\ P[k] = new /\ DOMAIN P = 1 .. k
          /\ \A i \in 1 .. n : i \in 1 .. k /\ P[i] = Q[i]
          /\ \A i \in 1 .. k : i \in 1 .. n \/ i = k
          /\ k > 0
      BY <3>2, <3>3, SMT
    <3>5. ASSUME NEW i \in 1 .. n PROVE periods[i].start \in Nat /\ periods[i].start < s
      <4>1. periods[i] \in Period
        BY <2>2
      <4>2. periods[i].start \in Nat
        BY <4>1 DEF Period
      <4>3. CASE i = n
        BY <2>3, <3>1, <4>2, <4>3
      <4>4. CASE i # n
        <5>1. i < n
          BY <4>4, SMT
        <5>2. periods[i].start < last.start
          BY <1>5, <2>2, <2>3, <5>1
        <5> QED
          BY <2>4, <3>1, <4>2, <5>2, SMT
      <4> QED
        BY <4>3, <4>4
    <3>6. ASSUME NEW i \in DOMAIN recorded
          PROVE  \E j \in 1 .. n : periods[j].start = PeriodOf(recorded[i].at)
      BY <1>5, <2>2
    <3>7. ASSUME NEW i \in DOMAIN recorded
          PROVE  PeriodOf(recorded[i].at) # new.start
      <4>1. PICK j \in 1 .. n : periods[j].start = PeriodOf(recorded[i].at)
        BY <3>6
      <4>2. periods[j].start \in Nat /\ periods[j].start < s
        BY <3>5
      <4>3. periods[j].start # s
        BY <4>2, SMT
      <4> QED
        BY <1>4, <4>1, <4>3
    <3>8. ASSUME NEW i \in DOMAIN P PROVE Exact(recorded, P[i])
      <4>1. CASE i \in 1 .. n
        <5>1. P[i] = Q[i] /\ Exact(recorded, periods[i])
          BY <1>5, <2>2, <3>4, <4>1
        <5>2. /\ Q[i].start = periods[i].start /\ Q[i].total = periods[i].total
              /\ Q[i].ok = periods[i].ok
              /\ Q[i].fees = periods[i].fees /\ Q[i].gas = periods[i].gas
          BY <3>2, <4>1
        <5>3. Mine(recorded, Q[i].start) = Mine(recorded, periods[i].start)
          BY <5>2
        <5> QED
          BY <5>1, <5>2, <5>3, Zenon DEF Exact
      <4>2. CASE i = k
        BY <1>4, <3>4, <3>7, <4>2, ExactWhenNew
      <4> QED
        BY <3>4, <4>1, <4>2
    <3>9. ASSUME NEW i \in DOMAIN P, NEW j \in DOMAIN P, i < j
          PROVE  P[i].start < P[j].start
      <4>1. i \in 1 .. n
        BY <3>3, <3>4, <3>9, SMT
      <4>2. P[i].start = periods[i].start
        BY <3>2, <3>4, <4>1
      <4>3. CASE j \in 1 .. n
        BY <1>5, <2>2, <3>2, <3>4, <3>9, <4>1, <4>2, <4>3
      <4>4. CASE j = k
        BY <1>4, <3>4, <3>5, <4>1, <4>2, <4>4
      <4> QED
        BY <3>4, <4>3, <4>4
    <3>10. ASSUME NEW i \in DOMAIN recorded
           PROVE  \E j \in DOMAIN P : P[j].start = PeriodOf(recorded[i].at)
      BY <3>2, <3>4, <3>6
    <3> QED
      BY <1>1, <1>4, <3>4, <3>8, <3>9, <3>10 DEF Exactly
  <2> QED
    BY <2>6, <2>7
<1> QED
  BY <1>6, <1>7

\* Counting a transaction in the last of these periods leaves all exact.
LEMMA CountedExactly ==
  ASSUME now \in Nat, recorded \in Seq(Transaction), periods \in Seq(Period),
         Counting(recorded, periods, now),
         NEW success \in BOOLEAN, NEW fee \in Int, NEW gas \in Int,
         NEW after, after = Counted(success, fee, gas),
         NEW tr, tr = [at |-> now, ok |-> success, fee |-> fee, gas |-> gas]
  PROVE  /\ after \in Seq(Period) /\ Len(after) > 0
         /\ after[Len(after)].total > 0
         /\ Append(recorded, tr) \in Seq(Transaction)
         /\ Counting(Append(recorded, tr), after, now)
<1>1. PICK P : P = Opened
  OBVIOUS
<1>2. /\ P \in Seq(Period) /\ Len(P) > 0 /\ P[Len(P)].start = PeriodOf(now)
      /\ Exactly(recorded, P)
  BY <1>1, OpenedExactly
<1>3. PICK n \in Nat : n = Len(P)
  BY <1>2
<1>4. n > 0 /\ DOMAIN P = 1 .. n /\ n \in 1 .. n
  BY <1>2, <1>3, SMT
<1>5. PICK p \in Period : p = P[n]
  BY <1>2, <1>4
<1>6. PICK q : q = Adding(p, success, fee, gas)
  OBVIOUS
<1>7. /\ p.total \in Nat /\ p.ok \in Nat /\ p.fees \in Int /\ p.gas \in Int /\ p.start \in Nat
  BY DEF Period
<1>8. /\ q.start = p.start /\ q.total = p.total + 1
      /\ q.ok = (IF success THEN p.ok + 1 ELSE p.ok)
      /\ q.fees = p.fees + fee /\ q.gas = p.gas + gas /\ q.end = now
  BY <1>6 DEF Period, Adding
<1>9. q \in Period
  <2>1. /\ p.total + 1 \in Nat /\ p.ok + 1 \in Nat
        /\ p.fees + fee \in Int /\ p.gas + gas \in Int
    BY <1>7, SMT
  <2>2. (IF success THEN p.ok + 1 ELSE p.ok) \in Nat
    BY <1>7, <2>1
  <2>3. q = [start |-> p.start, end |-> now, total |-> p.total + 1,
             ok |-> IF success THEN p.ok + 1 ELSE p.ok,
             fees |-> p.fees + fee, gas |-> p.gas + gas]
    BY <1>6 DEF Period, Adding
  <2> QED
    BY <1>7, <2>1, <2>2, <2>3 DEF Period
<1>10. after = [P EXCEPT ![n] = q]
  <2>1. after = [P EXCEPT ![n] = Adding(P[n], success, fee, gas)]
    BY <1>1, <1>3 DEF Counted
  <2> QED
    BY <1>5, <1>6, <2>1
<1>11. /\ after \in Seq(Period) /\ Len(after) = n /\ after[n] = q /\ DOMAIN after = 1 .. n
       /\ \A i \in 1 .. n : i # n => after[i] = P[i]
  BY <1>2, <1>3, <1>4, <1>9, <1>10
<1>12. q.total > 0
  BY <1>7, <1>8, SMT
<1>13. tr \in Transaction /\ tr.at = now /\ tr.ok = success /\ tr.fee = fee /\ tr.gas = gas
  BY DEF Transaction
<1>14. PICK rs : rs = Append(recorded, tr)
  OBVIOUS
<1>15. /\ rs \in Seq(Transaction)
       /\ \A i \in DOMAIN rs : rs[i] = tr \/ (i \in DOMAIN recorded /\ rs[i] = recorded[i])
  BY <1>13, <1>14
<1>16. /\ \A i \in 1 .. n : Exact(recorded, P[i])
       /\ \A i, j \in 1 .. n : i < j => P[i].start < P[j].start
       /\ \A i \in DOMAIN recorded : \E j \in 1 .. n : P[j].start = PeriodOf(recorded[i].at)
  BY <1>2, <1>4 DEF Exactly
<1>17. \A i \in 1 .. n : after[i].start = P[i].start
  BY <1>5, <1>8, <1>11
<1>18. \A i \in DOMAIN recorded : recorded[i].at <= now
  BY DEF Counting
<1>19. PeriodOf(now) = p.start
  BY <1>2, <1>3, <1>5
<1>20. ASSUME NEW i \in 1 .. n PROVE Exact(rs, after[i])
  <2>1. CASE i = n
    <3>1. Exact(recorded, p) /\ after[i] = q
      BY <1>4, <1>5, <1>11, <1>16, <2>1
    <3>2. PeriodOf(tr.at) = p.start
      BY <1>13, <1>19
    <3>3. /\ q.ok = (IF tr.ok THEN p.ok + 1 ELSE p.ok)
          /\ q.fees = p.fees + tr.fee /\ q.gas = p.gas + tr.gas
      BY <1>8, <1>13
    <3>4. Exact(Append(recorded, tr), q)
      BY <1>8, <1>13, <3>1, <3>2, <3>3, ExactCounts
    <3> QED
      BY <1>14, <3>1, <3>4
  <2>2. CASE i # n
    <3>1. i < n
      BY <2>2, SMT
    <3>2. P[i].start < p.start
      BY <1>4, <1>5, <1>16, <3>1
    <3>3. P[i].start \in Nat
      <4>1. P[i] \in Period
        BY <1>2, <1>4
      <4> QED
        BY <4>1 DEF Period
    <3>4. P[i].start # p.start
      BY <1>7, <3>2, <3>3, SMT
    <3> QED
      BY <1>11, <1>13, <1>14, <1>16, <1>19, <2>2, <3>4, ExactStays
  <2> QED
    BY <2>1, <2>2
<1>21. Exactly(rs, after)
  <2>1. ASSUME NEW i \in DOMAIN rs
        PROVE  \E j \in 1 .. n : after[j].start = PeriodOf(rs[i].at)
    <3>1. CASE rs[i] = tr
      BY <1>4, <1>8, <1>11, <1>13, <1>19, <3>1
    <3>2. CASE i \in DOMAIN recorded /\ rs[i] = recorded[i]
      BY <1>16, <1>17, <3>2
    <3> QED
      BY <1>15, <3>1, <3>2
  <2> QED
    BY <1>11, <1>16, <1>17, <1>20, <2>1 DEF Exactly
<1>22. \A i \in DOMAIN rs : rs[i].at <= now
  <2>1. now <= now
    BY SMT
  <2> QED
    BY <1>13, <1>15, <1>18, <2>1
<1>23. after[Len(after)].end <= now /\ after[Len(after)].start = PeriodOf(after[Len(after)].end)
  <2>1. now <= now
    BY SMT
  <2> QED
    BY <1>8, <1>11, <1>19, <2>1
<1>24. Counting(rs, after, now)
  BY <1>21, <1>22, <1>23 DEF Counting
<1> QED
  BY <1>4, <1>11, <1>12, <1>14, <1>15, <1>24

IsAlert(a) ==
    a \in [id : {a.id}, at : Nat, metric : Metric, severity : Severity,
           channels : SUBSET Channel, acknowledged : BOOLEAN, anomaly : {"detected", "none"}]

MonitorType ==
    /\ now \in Nat /\ LongestCooldown <= now
    /\ channelOn \in [Channel -> BOOLEAN]
    /\ severityOf \in [Metric -> Severity]
    /\ lastAlert \in [Metric \X Severity -> Nat]
    /\ periods \in Seq(Period)
    /\ recorded \in Seq(Transaction)
    /\ baseline \in [Metric \ {"failureRate"} -> Seq(Int)]
    /\ \A a \in alerts : IsAlert(a)

\* Alerts as of one kind are a cooldown apart, and none is later than the last one noted.
AlertsApart(a, b) ==
    a.id # b.id /\ a.metric = b.metric /\ a.severity = b.severity =>
        a.at - b.at >= Cooldown[a.severity] \/ b.at - a.at >= Cooldown[a.severity]
Cooled(as, last, t) ==
    /\ \A m \in Metric, s \in Severity : last[<<m, s>>] <= t
    /\ \A a \in as : a.at <= last[<<a.metric, a.severity>>]
    /\ \A a, b \in as : AlertsApart(a, b)

\* The console has the alert a metric was last seen with, unless it was off.
OnConsole(a, m) == a.metric = m /\ "console" \in a.channels
ConsoleHas(off, on, as, last) ==
    ~off => /\ on["console"]
            /\ \A m \in Metric, s \in Severity :
                 last[<<m, s>>] = 0 \/ \E a \in as : OnConsole(a, m) /\ a.at = last[<<m, s>>]

Reported(off, rs, ps, as, t) ==
    \/ off \/ rs = <<>> \/ rs[Len(rs)].at # t
    \/ \A m \in Metric : Breached(m, ps[Len(ps)]) =>
          \E a \in as : OnConsole(a, m) /\ (a.at = t \/ t - a.at < LongestCooldown)

Calm(as) == Window <= Deviation * Deviation + 1 => \A a \in as : a.anomaly = "none"

MonitorInv ==
    /\ MonitorType
    /\ Counting(recorded, periods, now)
    /\ Cooled(alerts, lastAlert, now)
    /\ ConsoleHas(hushed, channelOn, alerts, lastAlert)
    /\ Reported(hushed, recorded, periods, alerts, now)
    /\ Calm(alerts)

\* No cooldown is longer than the longest.
LEMMA LongestIs ==
  LongestCooldown \in Nat /\ \A s \in Severity : Cooldown[s] \in Nat /\ Cooldown[s] <= LongestCooldown
<1>1. PICK a \in Nat : a = Cooldown["warning"]
  BY MonitorAssumption
<1>2. PICK b \in Nat : b = Cooldown["critical"]
  BY MonitorAssumption
<1>3. PICK S : S = {Cooldown[s] : s \in Severity}
  OBVIOUS
<1>4. S = {a, b}
  BY <1>1, <1>2, <1>3 DEF Severity
<1>5. \E x \in S : \A y \in S : x >= y
  <2>1. CASE a >= b
    <3>1. a >= a
      BY SMT
    <3> QED
      BY <1>4, <2>1, <3>1
  <2>2. CASE ~(a >= b)
    <3>1. b >= a /\ b >= b
      BY <2>2, SMT
    <3> QED
      BY <1>4, <3>1
  <2> QED
    BY <2>1, <2>2
<1>6. LongestCooldown \in S /\ \A y \in S : LongestCooldown >= y
  BY <1>3, <1>5 DEF LongestCooldown, Max
<1>7. LongestCooldown \in Nat /\ a <= LongestCooldown /\ b <= LongestCooldown
  BY <1>4, <1>6, SMT
<1> QED
  BY <1>1, <1>2, <1>7 DEF Severity

\* Acknowledging changes nothing else of an alert.
LEMMA Acknowledged ==
  ASSUME NEW a, IsAlert(a), NEW b, b = [a EXCEPT !.acknowledged = TRUE]
  PROVE  /\ IsAlert(b) /\ b.id = a.id /\ b.at = a.at /\ b.metric = a.metric
         /\ b.severity = a.severity /\ b.channels = a.channels /\ b.anomaly = a.anomaly
BY DEF IsAlert

\* The values of a period that counts something are numbers.
LEMMA ValueNumber ==
  ASSUME NEW p \in Period, p.total > 0, NEW m \in Metric, m # "failureRate"
  PROVE  Value(p)[m] \in Int
<1>1. p.total \in Nat /\ p.ok \in Nat /\ p.fees \in Int /\ p.gas \in Int
  BY DEF Period
<1>2. ASSUME NEW k \in Int, NEW n \in Nat, n > 0 PROVE (k \div n) \in Int
  BY <1>2, SMT
<1>3. 1000 * p.ok \in Int /\ 1000 * p.gas \in Int /\ 1000 * p.fees \in Int
  BY <1>1, SMT
<1>4. (1000 * p.ok) \div p.total \in Int /\ (1000 * p.gas) \div p.total \in Int
  BY <1>1, <1>2, <1>3
<1>5. /\ Value(p)["successRate"] = (1000 * p.ok) \div p.total
      /\ Value(p)["avgGasCost"] = (1000 * p.gas) \div p.total
      /\ Value(p)["totalFees"] = 1000 * p.fees
  BY DEF Value
<1>6. m = "successRate" \/ m = "avgGasCost" \/ m = "totalFees"
  BY DEF Metric
<1> QED
  BY <1>3, <1>4, <1>5, <1>6

\* recordTransaction: the period it falls into counts it, and every breach has an alert
\* on the console now, or had one within the cooldown.
LEMMA RecordKeeps ==
  ASSUME MonitorInv, NEW success \in BOOLEAN, NEW fee \in Fee, NEW gas \in Gas,
         RecordTransaction(success, fee, gas)
  PROVE  MonitorInv'
<1>1. MonitorType
  BY DEF MonitorInv
<1>2. fee \in Int /\ gas \in Int
  BY MonitorAssumption
<1>3. PICK after : after = Counted(success, fee, gas)
  OBVIOUS
<1>4. PICK tr : tr = [at |-> now, ok |-> success, fee |-> fee, gas |-> gas]
  OBVIOUS
<1>5. /\ after \in Seq(Period) /\ Len(after) > 0
      /\ after[Len(after)].total > 0
      /\ Append(recorded, tr) \in Seq(Transaction)
      /\ Counting(Append(recorded, tr), after, now)
  BY <1>1, <1>2, <1>3, <1>4, CountedExactly DEF MonitorType, MonitorInv
<1>6. PICK p \in Period : p = after[Len(after)]
  BY <1>5
<1>7. PICK ms : ms = Alerting(p)
  OBVIOUS
<1>8. /\ periods' = after /\ baseline' = Windowed(p)
      /\ alerts' = alerts \cup {a \in {Emitted(m, p) : m \in ms} : a.channels # {}}
      /\ lastAlert' = [k \in Metric \X Severity |->
            IF k[1] \in ms /\ k[2] = severityOf[k[1]] THEN now ELSE lastAlert[k]]
      /\ recorded' = Append(recorded, tr)
      /\ now' = now /\ channelOn' = channelOn /\ severityOf' = severityOf /\ hushed' = hushed
  BY <1>3, <1>4, <1>6, <1>7 DEF RecordTransaction
<1>9. \A m \in ms : m \in Metric /\ CooledDown(m) /\ severityOf[m] \in Severity
  BY <1>1, <1>7 DEF Alerting, MonitorType
<1>10. ASSUME NEW m \in Metric, m # "failureRate"
       PROVE  baseline[m] \in Seq(Int) /\ Value(p)[m] \in Int /\ m \in DOMAIN baseline
  BY <1>1, <1>5, <1>6, <1>10, ValueNumber DEF MonitorType
<1>11. baseline' \in [Metric \ {"failureRate"} -> Seq(Int)]
  <2>1. DOMAIN baseline = Metric \ {"failureRate"}
    BY <1>1 DEF MonitorType
  <2>2. ASSUME NEW m \in Metric \ {"failureRate"}
        PROVE  LastKept(Append(baseline[m], Value(p)[m]), Window) \in Seq(Int)
    <3>1. Window \in Nat /\ Window > 0
      BY MonitorAssumption, SMT
    <3> QED
      BY <1>10, <3>1, KeptWindow
  <2> QED
    BY <1>8, <2>1, <2>2 DEF Windowed
<1>12. ASSUME NEW m \in Metric
       PROVE  /\ Anomaly(m, p) \in {"detected", "none"}
              /\ Window <= Deviation * Deviation + 1 => Anomaly(m, p) = "none"
  <2>1. ASSUME Window <= Deviation * Deviation + 1, m \in DOMAIN baseline
        PROVE  ~Anomalous(Windowed(p)[m], Value(p)[m])
    <3>1. m # "failureRate"
      BY <1>1, <2>1 DEF MonitorType
    <3>2. Windowed(p)[m] = LastKept(Append(baseline[m], Value(p)[m]), Window)
      BY <2>1 DEF Windowed
    <3> QED
      BY <1>10, <2>1, <3>1, <3>2, NoAnomaly
  <2> QED
    BY <2>1 DEF Anomaly
<1>13. PICK on : on = {c \in Channel : channelOn[c]}
  OBVIOUS
<1>14. ASSUME NEW m \in ms, NEW e, e = Emitted(m, p)
       PROVE  /\ e.id = <<alertCounter, m>> /\ e.at = now /\ e.metric = m
              /\ e.severity = severityOf[m] /\ e.channels = on /\ e.anomaly = Anomaly(m, p)
              /\ IsAlert(e)
  <2>1. e = [id |-> <<alertCounter, m>>, at |-> now, metric |-> m, severity |-> severityOf[m],
             channels |-> on, acknowledged |-> FALSE, anomaly |-> Anomaly(m, p)]
    BY <1>13, <1>14 DEF Emitted
  <2>2. on \in SUBSET Channel /\ now \in Nat
    BY <1>1, <1>13 DEF MonitorType
  <2>3. Anomaly(m, p) \in {"detected", "none"} /\ m \in Metric /\ severityOf[m] \in Severity
    BY <1>9, <1>12
  <2>4. PICK an \in {"detected", "none"} : an = Anomaly(m, p)
    BY <2>3
  <2> HIDE DEF Metric, Severity
  <2> QED
    BY <2>1, <2>2, <2>3, <2>4 DEF IsAlert
<1>15. ASSUME NEW a \in alerts'
       PROVE  a \in alerts \/ \E m \in ms : a = Emitted(m, p)
  BY <1>8
<1>16. ASSUME NEW m \in Metric, NEW s \in Severity
       PROVE  lastAlert'[<<m, s>>] =
                  IF m \in ms /\ s = severityOf[m] THEN now ELSE lastAlert[<<m, s>>]
  BY <1>8
<1>17. lastAlert' \in [Metric \X Severity -> Nat]
  BY <1>1, <1>8 DEF MonitorType
<1>18. MonitorType'
  <2>1. \A a \in alerts' : IsAlert(a)
    BY <1>1, <1>14, <1>15 DEF MonitorType
  <2>2. now' \in Nat /\ LongestCooldown <= now'
    BY <1>1, <1>8 DEF MonitorType
  <2> QED
    BY <1>1, <1>5, <1>8, <1>11, <1>17, <2>1, <2>2 DEF MonitorType
<1>19. Cooled(alerts, lastAlert, now) /\ now \in Nat
       /\ \A m \in Metric, s \in Severity : lastAlert[<<m, s>>] \in Nat /\ Cooldown[s] \in Nat
  BY <1>1, LongestIs DEF MonitorInv, MonitorType
<1>20. ASSUME NEW a \in alerts
       PROVE  a.metric \in Metric /\ a.severity \in Severity /\ a.at \in Nat
  BY <1>1 DEF MonitorType, IsAlert
<1>21. Cooled(alerts', lastAlert', now')
  <2>1. ASSUME NEW m \in Metric, NEW s \in Severity PROVE lastAlert'[<<m, s>>] <= now
    <3>1. now <= now
      BY <1>19, SMT
    <3> QED
      BY <1>16, <1>19, <3>1 DEF Cooled
  <2>2. ASSUME NEW a \in alerts' PROVE a.at <= lastAlert'[<<a.metric, a.severity>>]
    <3>1. CASE a \in alerts
      <4>1. a.at <= lastAlert[<<a.metric, a.severity>>]
        BY <1>19, <3>1 DEF Cooled
      <4>2. lastAlert[<<a.metric, a.severity>>] \in Nat
            /\ lastAlert[<<a.metric, a.severity>>] <= now
        BY <1>19, <1>20, <3>1 DEF Cooled
      <4>3. a.at <= now
        BY <1>19, <1>20, <3>1, <4>1, <4>2, SMT
      <4> QED
        BY <1>16, <1>20, <3>1, <4>1, <4>3
    <3>2. CASE \E m \in ms : a = Emitted(m, p)
      <4>1. PICK m \in ms : a = Emitted(m, p)
        BY <3>2
      <4>2. a.at = now /\ a.metric = m /\ a.severity = severityOf[m]
        BY <1>14, <4>1
      <4>3. lastAlert'[<<m, severityOf[m]>>] = now /\ now <= now
        BY <1>9, <1>16, <1>19, SMT
      <4> QED
        BY <4>2, <4>3
    <3> QED
      BY <1>15, <3>1, <3>2
  <2>3. ASSUME NEW a \in alerts, NEW m \in ms, NEW b, b = Emitted(m, p)
        PROVE  AlertsApart(a, b) /\ AlertsApart(b, a)
    <3> SUFFICES ASSUME a.metric = b.metric, a.severity = b.severity
                 PROVE  b.at - a.at >= Cooldown[a.severity]
      BY DEF AlertsApart
    <3>1. b.at = now /\ b.metric = m /\ b.severity = severityOf[m]
      BY <1>14, <2>3
    <3>2. now - lastAlert[<<a.metric, a.severity>>] >= Cooldown[a.severity]
      BY <1>9, <3>1 DEF CooledDown
    <3>3. a.at <= lastAlert[<<a.metric, a.severity>>]
      BY <1>19 DEF Cooled
    <3>4. PICK l \in Nat : l = lastAlert[<<a.metric, a.severity>>]
      BY <1>19, <1>20
    <3>5. PICK c \in Nat : c = Cooldown[a.severity]
      BY <1>19, <1>20
    <3>6. PICK t \in Nat : t = a.at
      BY <1>20
    <3>7. now - l >= c /\ t <= l
      BY <3>2, <3>3, <3>4, <3>5, <3>6
    <3>8. now - t >= c
      BY <1>19, <3>7, SMT
    <3> QED
      BY <3>1, <3>5, <3>6, <3>8
  <2>4. ASSUME NEW m \in ms, NEW k \in ms, NEW a, a = Emitted(m, p), NEW b, b = Emitted(k, p)
        PROVE  AlertsApart(a, b)
    <3>1. a.id = <<alertCounter, a.metric>> /\ b.id = <<alertCounter, b.metric>>
      BY <1>14, <2>4
    <3> QED
      BY <3>1 DEF AlertsApart
  <2>5. \A a, b \in alerts' : AlertsApart(a, b)
    BY <1>15, <1>19, <2>3, <2>4 DEF Cooled
  <2> QED
    BY <1>8, <2>1, <2>2, <2>5 DEF Cooled
<1>22. ConsoleHas(hushed, channelOn, alerts, lastAlert) /\ "console" \in Channel
  BY MonitorAssumption DEF MonitorInv
<1>23. ASSUME ~hushed, NEW m \in ms
       PROVE  \E a \in alerts' : OnConsole(a, m) /\ a.at = now
  <2>1. PICK e : e = Emitted(m, p)
    OBVIOUS
  <2>2. e.at = now /\ e.metric = m /\ e.channels = on
    BY <1>14, <2>1
  <2>3. "console" \in on
    BY <1>13, <1>22, <1>23 DEF ConsoleHas
  <2>4. e \in alerts'
    BY <1>8, <2>1, <2>2, <2>3
  <2> QED
    BY <2>2, <2>3, <2>4 DEF OnConsole
<1>24. ConsoleHas(hushed', channelOn', alerts', lastAlert')
  <2> SUFFICES ASSUME ~hushed, NEW m \in Metric, NEW s \in Severity
               PROVE  lastAlert'[<<m, s>>] = 0
                      \/ \E a \in alerts' : OnConsole(a, m) /\ a.at = lastAlert'[<<m, s>>]
    BY <1>8, <1>22 DEF ConsoleHas
  <2>1. CASE m \in ms /\ s = severityOf[m]
    BY <1>16, <1>23, <2>1
  <2>2. CASE ~(m \in ms /\ s = severityOf[m])
    BY <1>8, <1>16, <1>22, <2>2 DEF ConsoleHas
  <2> QED
    BY <2>1, <2>2
<1>25. Reported(hushed', recorded', periods', alerts', now')
  <2> SUFFICES ASSUME ~hushed, NEW m \in Metric, Breached(m, p)
               PROVE  \E a \in alerts' : OnConsole(a, m)
                                         /\ (a.at = now \/ now - a.at < LongestCooldown)
    BY <1>6, <1>8 DEF Reported
  <2>1. CASE m \in ms
    BY <1>23, <2>1
  <2>2. CASE m \notin ms
    <3>1. PICK s \in Severity : s = severityOf[m]
      BY <1>1 DEF MonitorType
    <3>2. PICK l \in Nat : l = lastAlert[<<m, s>>]
      BY <1>19
    <3>3. PICK c \in Nat : c = Cooldown[s]
      BY <1>19
    <3>4. ~(now - l >= c)
      BY <1>7, <2>2, <3>1, <3>2, <3>3 DEF Alerting, CooledDown
    <3>5. PICK h \in Nat : h = LongestCooldown
      BY LongestIs
    <3>6. c <= h /\ h <= now
      BY <1>1, <3>3, <3>5, LongestIs DEF MonitorType
    <3>7. l # 0 /\ now - l < h
      BY <1>19, <3>4, <3>6, SMT
    <3>8. PICK a \in alerts : OnConsole(a, m) /\ a.at = l
      BY <1>22, <3>2, <3>7 DEF ConsoleHas
    <3> QED
      BY <1>8, <3>5, <3>7, <3>8
  <2> QED
    BY <2>1, <2>2
<1>26. Calm(alerts')
  <2>1. Calm(alerts)
    BY DEF MonitorInv
  <2> QED
    BY <1>9, <1>12, <1>14, <1>15, <2>1 DEF Calm
<1> QED
  BY <1>5, <1>8, <1>18, <1>21, <1>24, <1>25, <1>26 DEF MonitorInv

\* A new monitor has nothing recorded, no alerts, and a console that is on.
LEMMA InitKeeps == MonitorInit => MonitorInv
<1> SUFFICES ASSUME MonitorInit PROVE MonitorInv
  OBVIOUS
<1>1. PICK h \in Nat : h = LongestCooldown
  BY LongestIs
<1>2. Interval \in Nat /\ Interval > 0 /\ "console" \in Channel
  BY MonitorAssumption, SMT
<1>3. now \in Nat /\ LongestCooldown <= now
  <2>1. now = Interval * h
    BY <1>1 DEF MonitorInit
  <2>2. PICK k \in Nat : Interval = k + 1
    <3>1. Interval - 1 \in Nat /\ Interval = (Interval - 1) + 1
      BY <1>2, SMT
    <3> QED
      BY <3>1
  <2>3. k * h >= 0 /\ k * h \in Int
    BY SMT
  <2>4. Interval * h = k * h + h
    BY <2>2, SMT
  <2>5. Interval * h \in Nat /\ h <= Interval * h
    BY <2>3, <2>4, SMT
  <2> QED
    BY <1>1, <2>1, <2>5
<1>4. /\ periods = <<>> /\ recorded = <<>> /\ alerts = {} /\ channelOn["console"]
  BY <1>2 DEF MonitorInit
<1>5. lastAlert \in [Metric \X Severity -> Nat]
      /\ \A m \in Metric, s \in Severity : lastAlert[<<m, s>>] = 0
  BY DEF MonitorInit, NeverAlerted
<1>6. MonitorType
  <2>1. severityOf \in [Metric -> Severity]
    BY DEF MonitorInit, Severity
  <2>2. channelOn \in [Channel -> BOOLEAN]
    BY DEF MonitorInit
  <2>3. baseline \in [Metric \ {"failureRate"} -> Seq(Int)]
    BY DEF MonitorInit, NoBaseline
  <2> QED
    BY <1>3, <1>4, <1>5, <2>1, <2>2, <2>3 DEF MonitorType
<1>7. Counting(recorded, periods, now)
  BY <1>4 DEF Counting, Exactly
<1>8. Cooled(alerts, lastAlert, now)
  <2>1. 0 <= now
    BY <1>3, SMT
  <2> QED
    BY <1>4, <1>5, <2>1 DEF Cooled
<1> QED
  BY <1>4, <1>5, <1>6, <1>7, <1>8 DEF MonitorInv, ConsoleHas, Reported, Calm

\* acknowledgeAlert leaves an alert what it was otherwise.
LEMMA AcknowledgeKeeps ==
  ASSUME MonitorInv, NEW a \in alerts, AcknowledgeAlert(a)
  PROVE  MonitorInv'
<1>1. PICK b : b = [a EXCEPT !.acknowledged = TRUE]
  OBVIOUS
<1>2. /\ MonitorType /\ Cooled(alerts, lastAlert, now)
      /\ ConsoleHas(hushed, channelOn, alerts, lastAlert)
      /\ Reported(hushed, recorded, periods, alerts, now) /\ Calm(alerts)
      /\ Counting(recorded, periods, now)
  BY DEF MonitorInv
<1>3. /\ IsAlert(b) /\ b.id = a.id /\ b.at = a.at /\ b.metric = a.metric
      /\ b.severity = a.severity /\ b.channels = a.channels /\ b.anomaly = a.anomaly
  BY <1>1, <1>2, Acknowledged DEF MonitorType
<1>4. /\ alerts' = (alerts \ {a}) \cup {b}
      /\ now' = now /\ channelOn' = channelOn /\ severityOf' = severityOf /\ periods' = periods
      /\ baseline' = baseline /\ lastAlert' = lastAlert /\ recorded' = recorded
      /\ hushed' = hushed
  BY <1>1 DEF AcknowledgeAlert
<1>5. ASSUME NEW c \in alerts'
      PROVE  \E d \in alerts : /\ c.id = d.id /\ c.at = d.at /\ c.metric = d.metric
                               /\ c.severity = d.severity /\ c.channels = d.channels
                               /\ c.anomaly = d.anomaly /\ IsAlert(c)
  <2>1. CASE c \in alerts
    BY <1>2, <2>1 DEF MonitorType
  <2>2. CASE c = b
    BY <1>3, <2>2
  <2> QED
    BY <1>4, <2>1, <2>2
<1>6. ASSUME NEW d \in alerts
      PROVE  \E c \in alerts' : c.at = d.at /\ c.metric = d.metric /\ c.channels = d.channels
  <2>1. CASE d = a
    BY <1>3, <1>4, <2>1
  <2>2. CASE d # a
    BY <1>4, <2>2
  <2> QED
    BY <2>1, <2>2
<1>7. MonitorType'
  BY <1>2, <1>4, <1>5 DEF MonitorType
<1>8. Cooled(alerts', lastAlert', now')
  <2>1. \A c \in alerts' : c.at <= lastAlert[<<c.metric, c.severity>>]
    BY <1>2, <1>5 DEF Cooled
  <2>2. ASSUME NEW c \in alerts', NEW d \in alerts' PROVE AlertsApart(c, d)
    <3>1. PICK x \in alerts : c.id = x.id /\ c.at = x.at /\ c.metric = x.metric
                              /\ c.severity = x.severity
      BY <1>5
    <3>2. PICK y \in alerts : d.id = y.id /\ d.at = y.at /\ d.metric = y.metric
                              /\ d.severity = y.severity
      BY <1>5
    <3>3. AlertsApart(x, y)
      BY <1>2 DEF Cooled
    <3> QED
      BY <3>1, <3>2, <3>3 DEF AlertsApart
  <2> QED
    BY <1>2, <1>4, <2>1, <2>2 DEF Cooled
<1>9. ConsoleHas(hushed', channelOn', alerts', lastAlert')
  BY <1>2, <1>4, <1>6 DEF ConsoleHas, OnConsole
<1>10. Reported(hushed', recorded', periods', alerts', now')
  <2>1. ASSUME NEW m \in Metric,
               \E d \in alerts : OnConsole(d, m) /\ (d.at = now \/ now - d.at < LongestCooldown)
        PROVE  \E c \in alerts' : OnConsole(c, m) /\ (c.at = now \/ now - c.at < LongestCooldown)
    BY <1>6, <2>1 DEF OnConsole
  <2> QED
    BY <1>2, <1>4, <2>1 DEF Reported
<1>11. Calm(alerts')
  BY <1>2, <1>5 DEF Calm
<1> QED
  BY <1>2, <1>4, <1>7, <1>8, <1>9, <1>10, <1>11 DEF MonitorInv

\* configureAlertChannel may switch the console off, which is noted.
LEMMA ChannelKeeps ==
  ASSUME MonitorInv, NEW c \in Channel, ConfigureChannel(c)
  PROVE  MonitorInv'
<1>1. /\ channelOn' = [channelOn EXCEPT ![c] = ~@]
      /\ hushed' = (hushed \/ ~channelOn'["console"])
      /\ now' = now /\ severityOf' = severityOf /\ periods' = periods /\ alerts' = alerts
      /\ baseline' = baseline /\ lastAlert' = lastAlert /\ recorded' = recorded
  BY DEF ConfigureChannel
<1>2. channelOn' \in [Channel -> BOOLEAN]
  BY <1>1 DEF MonitorInv, MonitorType
<1>3. ConsoleHas(hushed', channelOn', alerts', lastAlert')
  BY <1>1 DEF MonitorInv, ConsoleHas
<1>4. Reported(hushed', recorded', periods', alerts', now')
  BY <1>1 DEF MonitorInv, Reported
<1> QED
  BY <1>1, <1>2, <1>3, <1>4 DEF MonitorInv, MonitorType

\* resetMetrics forgets the alerts together with when they were given.
LEMMA ResetMetricsKeeps ==
  ASSUME MonitorInv, ResetMetrics
  PROVE  MonitorInv'
<1>1. /\ periods' = <<>> /\ baseline' = NoBaseline /\ alerts' = {} /\ lastAlert' = NeverAlerted
      /\ recorded' = <<>> /\ hushed' = ~channelOn["console"]
      /\ now' = now /\ channelOn' = channelOn /\ severityOf' = severityOf
  BY DEF ResetMetrics
<1>2. MonitorType
  BY DEF MonitorInv
<1>3. lastAlert' \in [Metric \X Severity -> Nat]
      /\ \A m \in Metric, s \in Severity : lastAlert'[<<m, s>>] = 0
  BY <1>1 DEF NeverAlerted
<1>4. MonitorType'
  <2>1. baseline' \in [Metric \ {"failureRate"} -> Seq(Int)]
    BY <1>1 DEF NoBaseline
  <2> QED
    BY <1>1, <1>2, <1>3, <2>1 DEF MonitorType
<1>5. Counting(recorded', periods', now')
  BY <1>1 DEF Counting, Exactly
<1>6. Cooled(alerts', lastAlert', now')
  <2>1. 0 <= now
    BY <1>2, SMT DEF MonitorType
  <2> QED
    BY <1>1, <1>3, <2>1 DEF Cooled
<1> QED
  BY <1>1, <1>3, <1>4, <1>5, <1>6 DEF MonitorInv, ConsoleHas, Reported, Calm

\* Time that passes makes no transaction the one of now, and no alert later than it was.
LEMMA ClockKeeps ==
  ASSUME MonitorInv, ClockAdvances
  PROVE  MonitorInv'
<1>1. /\ now' = now + 1
      /\ channelOn' = channelOn /\ severityOf' = severityOf /\ periods' = periods
      /\ alerts' = alerts /\ baseline' = baseline /\ lastAlert' = lastAlert
      /\ recorded' = recorded /\ hushed' = hushed
  BY DEF ClockAdvances
<1>2. /\ MonitorType /\ Counting(recorded, periods, now) /\ Cooled(alerts, lastAlert, now)
  BY DEF MonitorInv
<1>3. now \in Nat /\ LongestCooldown \in Nat /\ LongestCooldown <= now
  BY <1>2, LongestIs DEF MonitorType
<1>4. ASSUME NEW t \in Nat, t <= now PROVE t <= now' /\ t # now'
  BY <1>1, <1>3, <1>4, SMT
<1>5. now' \in Nat /\ LongestCooldown <= now'
  BY <1>1, <1>3, SMT
<1>6. MonitorType'
  BY <1>1, <1>2, <1>5 DEF MonitorType
<1>7. ASSUME NEW i \in DOMAIN recorded PROVE recorded[i].at <= now' /\ recorded[i].at # now'
  <2>1. recorded[i] \in Transaction
    BY <1>2 DEF MonitorType
  <2>2. recorded[i].at \in Nat /\ recorded[i].at <= now
    BY <1>2, <2>1 DEF Transaction, Counting
  <2> QED
    BY <1>4, <2>2
<1>8. periods # <<>> => periods[Len(periods)].end <= now'
  <2> SUFFICES ASSUME periods # <<>> PROVE periods[Len(periods)].end <= now'
    OBVIOUS
  <2>1. periods[Len(periods)] \in Period
    BY <1>2 DEF MonitorType
  <2>2. periods[Len(periods)].end \in Nat /\ periods[Len(periods)].end <= now
    BY <1>2, <2>1 DEF Period, Counting
  <2> QED
    BY <1>4, <2>2
<1>9. Counting(recorded', periods', now')
  BY <1>1, <1>2, <1>7, <1>8 DEF Counting
<1>10. Cooled(alerts', lastAlert', now')
  <2>1. ASSUME NEW m \in Metric, NEW s \in Severity PROVE lastAlert[<<m, s>>] <= now'
    <3>1. lastAlert[<<m, s>>] \in Nat /\ lastAlert[<<m, s>>] <= now
      BY <1>2 DEF MonitorType, Cooled
    <3> QED
      BY <1>4, <3>1
  <2> QED
    BY <1>1, <1>2, <2>1 DEF Cooled
<1>11. Reported(hushed', recorded', periods', alerts', now')
  <2>1. ASSUME recorded # <<>> PROVE Len(recorded) \in DOMAIN recorded
    BY <1>2, <2>1 DEF MonitorType
  <2> QED
    BY <1>1, <1>7, <2>1 DEF Reported
<1> QED
  BY <1>1, <1>6, <1>9, <1>10, <1>11 DEF MonitorInv

\* configureThresholds leaves what was reported as it was.
LEMMA ThresholdKeeps ==
  ASSUME MonitorInv, NEW m \in Metric, NEW s \in Severity, ConfigureThreshold(m, s)
  PROVE  MonitorInv'
<1>1. /\ severityOf' = [severityOf EXCEPT ![m] = s]
      /\ channelOn' = channelOn /\ now' = now /\ periods' = periods
      /\ alerts' = alerts /\ baseline' = baseline /\ lastAlert' = lastAlert
      /\ recorded' = recorded /\ hushed' = hushed
  BY DEF ConfigureThreshold
<1>2. severityOf' \in [Metric -> Severity]
  BY <1>1 DEF MonitorInv, MonitorType
<1> QED
  BY <1>1, <1>2 DEF MonitorInv, MonitorType

\* startMonitor, stopMonitor and updateMonitorConfig touch none of it.
LEMMA OthersKeep ==
  ASSUME MonitorInv, StartMonitor \/ StopMonitor \/ UpdateMonitorConfig \/ UNCHANGED monitorVars
  PROVE  MonitorInv'
<1>1. /\ channelOn' = channelOn /\ now' = now /\ periods' = periods
      /\ alerts' = alerts /\ baseline' = baseline /\ lastAlert' = lastAlert
      /\ recorded' = recorded /\ hushed' = hushed /\ severityOf' = severityOf
  BY DEF StartMonitor, StopMonitor, UpdateMonitorConfig, monitorVars
<1> QED
  BY <1>1 DEF MonitorInv, MonitorType

\* No step breaks the invariant.
LEMMA MonitorStep == MonitorInv /\ [MonitorNext]_monitorVars => MonitorInv'
<1> SUFFICES ASSUME MonitorInv, [MonitorNext]_monitorVars PROVE MonitorInv'
  OBVIOUS
<1>1. ASSUME NEW success \in BOOLEAN, NEW fee \in Fee, NEW gas \in Gas,
             RecordTransaction(success, fee, gas)
      PROVE  MonitorInv'
  BY <1>1, RecordKeeps
<1>2. ASSUME NEW c \in Channel, ConfigureChannel(c) PROVE MonitorInv'
  BY <1>2, ChannelKeeps
<1>3. ASSUME NEW m \in Metric, NEW s \in Severity, ConfigureThreshold(m, s) PROVE MonitorInv'
  BY <1>3, ThresholdKeeps
<1>4. ASSUME NEW a \in alerts, AcknowledgeAlert(a) PROVE MonitorInv'
  BY <1>4, AcknowledgeKeeps
<1>5. CASE ResetMetrics
  BY <1>5, ResetMetricsKeeps
<1>6. CASE ClockAdvances
  BY <1>6, ClockKeeps
<1>7. CASE StartMonitor \/ StopMonitor \/ UpdateMonitorConfig \/ UNCHANGED monitorVars
  BY <1>7, OthersKeep
<1> QED
  BY <1>1, <1>2, <1>3, <1>4, <1>5, <1>6, <1>7 DEF MonitorNext

\* Whatever is recorded, configured, acknowledged and reset, and however much time
\* passes between: periods count exactly the transactions of their interval, alerts of a
\* kind are a cooldown apart, a breach with the console on has an alert there, and a
\* small window finds no anomaly (recordTransaction, evaluateThresholds, emitAlert,
\* detectAnomaly).
THEOREM MonitorAlwaysHonest == MonitorInit /\ [][MonitorNext]_monitorVars => []MonitorHonest
<1>1. MonitorInv => MonitorHonest
  <2> SUFFICES ASSUME MonitorInv PROVE MonitorHonest
    OBVIOUS
  <2>1. \A i \in DOMAIN periods : PeriodExact(periods[i])
    <3> SUFFICES ASSUME NEW i \in DOMAIN periods PROVE PeriodExact(periods[i])
      OBVIOUS
    <3>1. Exact(recorded, periods[i])
      BY DEF MonitorInv, Counting, Exactly
    <3> QED
      BY <3>1 DEF PeriodExact, Exact, Mine, Fees, Gases
  <2>2. \A i \in DOMAIN recorded : \E j \in DOMAIN periods :
            periods[j].start = PeriodOf(recorded[i].at)
    BY DEF MonitorInv, Counting, Exactly
  <2>3. \A a, b \in alerts : AlertsApart(a, b)
    BY DEF MonitorInv, Cooled
  <2>4. \A m \in Metric : BreachReported(m)
    BY DEF MonitorInv, Reported, OnConsole, BreachReported
  <2>5. Calm(alerts)
    BY DEF MonitorInv
  <2> QED
    BY <2>1, <2>2, <2>3, <2>4, <2>5 DEF MonitorHonest, AlertsApart, Calm
<1> QED
  BY <1>1, InitKeeps, MonitorStep, PTL

-----------------------------------------------------------------------------
(***************************************************************************)
(* LoggerTree: histories in arrays that loggers share.                     *)
(***************************************************************************)
Levels == {DEBUG, INFO, WARN}
Transport == [name : {"console", "sink", "buffer"}, of : Nat]
LoggerRecord == [array : Nat, level : Levels, registered : BOOLEAN, seen : SUBSET OnceKey]
LogEntry == [by : Nat, number : Nat, level : Levels]

LoggerTypes ==
    /\ arrays \in Seq(SUBSET Transport)
    /\ loggers \in Seq(LoggerRecord)
    /\ histories \in Seq(Seq(LogEntry)) /\ Len(histories) = Len(loggers)
    /\ written \in Seq(Seq(LogEntry)) /\ Len(written) = Len(loggers)

\* A history stands in the array of its logger, from where only removeTransport takes it.
HistoriesPlaced ==
    /\ \A l \in DOMAIN loggers : loggers[l].array \in DOMAIN arrays
    /\ \A a \in DOMAIN arrays : \A t \in arrays[a] :
          t.name = "buffer" => t.of \in DOMAIN loggers /\ loggers[t.of].array = a
    /\ \A l \in DOMAIN loggers :
          l \notin cutOff => HistoryOf(l) \in arrays[loggers[l].array]

Numbered(l, entries) ==
    \A n \in DOMAIN entries : entries[n].by = l /\ entries[n].number = n

RingsSound ==
    \A l \in DOMAIN loggers :
       /\ Len(histories[l]) <= MaxLogHistory
       /\ Numbered(l, written[l])
       /\ l \notin cutOff => LastWarnings(l, histories[l], written[l])
       /\ \A i \in DOMAIN histories[l] :
             /\ histories[l][i].by \in DOMAIN loggers
             /\ loggers[histories[l][i].by].array = loggers[l].array

LoggerInv == LoggerTypes /\ HistoriesPlaced /\ RingsSound

\* What a ring of n entries is after an entry was pushed, and the oldest perhaps gone.
Pushed(s, n, e, new, gone) ==
    /\ new \in Seq(LogEntry) /\ Len(new) = n + 1 - gone
    /\ Len(new) <= MaxLogHistory
    /\ new[n + 1 - gone] = e
    /\ \A i \in 1 .. (n - gone) : new[i] = s[i + gone]
    /\ gone = 1 => Len(new) = MaxLogHistory
    /\ n = MaxLogHistory => gone = 1

\* What a ring is after a push, whether or not the oldest entry had to go.
LEMMA RingIs ==
    ASSUME NEW s \in Seq(LogEntry), Len(s) <= MaxLogHistory, NEW e \in LogEntry,
           NEW new, new = LastEntries(Append(s, e)), NEW n \in Nat, n = Len(s)
    PROVE  \E gone \in {0, 1} : Pushed(s, n, e, new, gone)
<1>1. PICK all : all = Append(s, e)
  OBVIOUS
<1>2. /\ all \in Seq(LogEntry) /\ Len(all) = Len(s) + 1 /\ all[Len(s) + 1] = e
      /\ \A i \in 1 .. Len(s) : all[i] = s[i]
  BY <1>1
<1>3. n = Len(s)
  OBVIOUS
<1>4. CASE n + 1 > MaxLogHistory
  <2>1. new = Tail(all) /\ n = MaxLogHistory
    BY <1>1, <1>2, <1>3, <1>4, LoggerAssumption DEF LastEntries
  <2>2. new \in Seq(LogEntry) /\ Len(new) = n /\ \A i \in 1 .. n : new[i] = all[i + 1]
    BY <1>2, <1>3, <2>1
  <2>3. n \in 1 .. n
    BY <2>1, LoggerAssumption
  <2>4. new[n] = e /\ \A i \in 1 .. (n - 1) : new[i] = s[i + 1]
    BY <1>2, <1>3, <2>2, <2>3
  <2>6. /\ Len(new) = n + 1 - 1 /\ Len(new) <= MaxLogHistory /\ new[n + 1 - 1] = e
        /\ Len(new) = MaxLogHistory
    <3>1. n + 1 - 1 = n /\ MaxLogHistory <= MaxLogHistory
      BY LoggerAssumption
    <3>2. QED
      BY <2>1, <2>2, <2>4, <3>1
  <2>5. Pushed(s, n, e, new, 1)
    BY <2>2, <2>4, <2>6 DEF Pushed
  <2>7. QED
    BY <2>5
<1>5. CASE ~(n + 1 > MaxLogHistory)
  <2>1. new = all
    BY <1>1, <1>2, <1>3, <1>5 DEF LastEntries
  <2>2. n + 1 <= MaxLogHistory
    BY <1>5, LoggerAssumption
  <2>3. new \in Seq(LogEntry) /\ Len(new) = n + 1 - 0 /\ new[n + 1 - 0] = e
        /\ \A i \in 1 .. (n - 0) : new[i] = s[i + 0]
    BY <1>2, <1>3, <2>1
  <2>4. n # MaxLogHistory /\ Len(new) <= MaxLogHistory
    BY <2>2, <2>3, LoggerAssumption
  <2>5. Pushed(s, n, e, new, 0)
    BY <2>3, <2>4 DEF Pushed
  <2>6. QED
    BY <2>5
<1>6. QED
  BY <1>4, <1>5

\* An entry of another logger in a ring takes no warning of its owner's out of turn.
LEMMA OtherWritten ==
    ASSUME NEW l \in Nat, NEW s \in Seq(LogEntry), NEW w \in Seq(LogEntry), Len(s) <= MaxLogHistory,
           LastWarnings(l, s, w), Numbered(l, w), NEW e \in LogEntry, e.by # l,
           NEW new, new = LastEntries(Append(s, e))
    PROVE  LastWarnings(l, new, w)
<1>1. PICK n \in Nat : n = Len(s)
  OBVIOUS
<1>14. PICK gone \in {0, 1} : Pushed(s, n, e, new, gone)
  BY <1>1, RingIs
<1>2. /\ new \in Seq(LogEntry) /\ Len(new) = n + 1 - gone
      /\ Len(new) <= MaxLogHistory
      /\ new[n + 1 - gone] = e
      /\ \A i \in 1 .. (n - gone) : new[i] = s[i + gone]
      /\ gone = 1 => Len(new) = MaxLogHistory
      /\ n = MaxLogHistory => gone = 1
  BY <1>14 DEF Pushed
<1>3. DOMAIN s = 1 .. n /\ DOMAIN new = 1 .. (n + 1 - gone)
  BY <1>1, <1>2
<1>4. \A i \in DOMAIN new : new[i].by = l =>
        i + gone \in DOMAIN s /\ new[i] = s[i + gone]
  <2>1. SUFFICES ASSUME NEW i \in DOMAIN new, new[i].by = l
                 PROVE  i + gone \in DOMAIN s /\ new[i] = s[i + gone]
    OBVIOUS
  <2>2. i # n + 1 - gone
    BY <1>2, <2>1
  <2>3. i \in 1 .. (n - gone) /\ i + gone \in 1 .. n
    BY <1>3, <2>1, <2>2
  <2>4. QED
    BY <1>2, <1>3, <2>3
<1>5. \A i, j \in DOMAIN new :
        new[i].by = l /\ new[j].by = l /\ i < j => new[i].number < new[j].number
  <2>1. SUFFICES ASSUME NEW i \in DOMAIN new, NEW j \in DOMAIN new,
                        new[i].by = l, new[j].by = l, i < j
                 PROVE  new[i].number < new[j].number
    OBVIOUS
  <2>2. i + gone < j + gone
    <3>1. i \in Nat /\ j \in Nat
      BY <1>3
    <3>2. QED
      BY <2>1, <3>1
  <2>3. QED
    BY <1>4, <2>1, <2>2 DEF LastWarnings
<1>6. \A i \in DOMAIN new : new[i].by = l =>
        /\ new[i].number \in DOMAIN w /\ new[i] = w[new[i].number] /\ new[i].level >= WARN
  BY <1>4 DEF LastWarnings
<1>7. ASSUME NEW k \in DOMAIN w, w[k].level >= WARN
      PROVE  \/ \E i \in DOMAIN new : new[i] = w[k]
             \/ /\ Len(new) = MaxLogHistory
                /\ \A i \in DOMAIN new : new[i].by = l => new[i].number > k
  <2>1. CASE \E i \in DOMAIN s : s[i] = w[k]
    <3>1. PICK i \in 1 .. n : s[i] = w[k]
      BY <1>3, <2>1
    <3>2. CASE i > gone
      <4>1. i - gone \in 1 .. (n - gone) /\ i - gone \in DOMAIN new /\ (i - gone) + gone = i
        BY <1>3, <3>2
      <4>2. QED
        BY <1>2, <3>1, <4>1
    <3>3. CASE ~(i > gone)
      <4>1. gone = 1 /\ i = 1
        BY <3>3
      <4>2. s[i].by = l /\ s[i].number = k
        BY <3>1 DEF Numbered
      <4>3. ASSUME NEW j \in DOMAIN new, new[j].by = l PROVE new[j].number > k
        <5>1. j + gone \in DOMAIN s /\ new[j] = s[j + gone] /\ i < j + gone /\ i \in DOMAIN s
          BY <1>3, <1>4, <4>1, <4>3
        <5>2. s[i].number < s[j + gone].number
          BY <4>2, <4>3, <5>1 DEF LastWarnings
        <5>3. s[i] \in LogEntry /\ s[j + gone] \in LogEntry
          BY <5>1
        <5>4. QED
          BY <4>2, <5>1, <5>2, <5>3 DEF LogEntry
      <4>4. QED
        BY <1>2, <4>1, <4>3
    <3>4. QED
      BY <3>2, <3>3
  <2>2. CASE /\ Len(s) = MaxLogHistory
             /\ \A i \in DOMAIN s : s[i].by = l => s[i].number > k
    <3>1. Len(new) = MaxLogHistory
      BY <1>1, <1>2, <2>2
    <3>2. QED
      BY <1>4, <2>2, <3>1
  <2>3. QED
    BY <1>7, <2>1, <2>2 DEF LastWarnings
<1>8. QED
  BY <1>5, <1>6, <1>7 DEF LastWarnings

\* An entry below a warning goes into no ring.
LEMMA QuietWritten ==
    ASSUME NEW l \in Nat, NEW s \in Seq(LogEntry), NEW w \in Seq(LogEntry),
           LastWarnings(l, s, w), NEW e \in LogEntry, ~(e.level >= WARN)
    PROVE  LastWarnings(l, s, Append(w, e))
<1>1. PICK v : v = Append(w, e)
  OBVIOUS
<1>2. PICK m \in Nat : m = Len(w)
  OBVIOUS
<1>3. v[m + 1] = e /\ (\A k \in 1 .. m : v[k] = w[k]) /\ DOMAIN w = 1 .. m
      /\ DOMAIN v = 1 .. (m + 1)
  BY <1>1, <1>2
<1>4. \A k \in DOMAIN w : k \in DOMAIN v /\ v[k] = w[k]
  BY <1>3
<1>5. \A k \in DOMAIN v : v[k].level >= WARN => k \in DOMAIN w /\ v[k] = w[k]
  BY <1>3
<1>6. LastWarnings(l, s, v)
  BY <1>4, <1>5 DEF LastWarnings
<1>7. QED
  BY <1>1, <1>6

\* A warning goes to the end of its own logger's ring.
LEMMA WarningWritten ==
    ASSUME NEW l \in Nat, NEW s \in Seq(LogEntry), NEW w \in Seq(LogEntry), Len(s) <= MaxLogHistory,
           LastWarnings(l, s, w), Numbered(l, w), NEW e \in LogEntry, e.by = l,
           e.number = Len(w) + 1, e.level >= WARN,
           NEW new, new = LastEntries(Append(s, e))
    PROVE  LastWarnings(l, new, Append(w, e))
<1>1. PICK n \in Nat : n = Len(s)
  OBVIOUS
<1>14. PICK gone \in {0, 1} : Pushed(s, n, e, new, gone)
  BY <1>1, RingIs
<1>2. /\ new \in Seq(LogEntry) /\ Len(new) = n + 1 - gone
      /\ Len(new) <= MaxLogHistory
      /\ new[n + 1 - gone] = e
      /\ \A i \in 1 .. (n - gone) : new[i] = s[i + gone]
      /\ gone = 1 => Len(new) = MaxLogHistory
      /\ n = MaxLogHistory => gone = 1
  BY <1>14 DEF Pushed
<1>3. DOMAIN s = 1 .. n /\ DOMAIN new = 1 .. (n + 1 - gone)
  BY <1>1, <1>2
<1>4. PICK v : v = Append(w, e)
  OBVIOUS
<1>5. PICK m \in Nat : m = Len(w)
  OBVIOUS
<1>6. v[m + 1] = e /\ (\A k \in 1 .. m : v[k] = w[k]) /\ DOMAIN w = 1 .. m
      /\ DOMAIN v = 1 .. (m + 1) /\ e.number = m + 1
  BY <1>4, <1>5
<1>7. \A i \in DOMAIN new :
        \/ i = n + 1 - gone /\ new[i] = e
        \/ i + gone \in DOMAIN s /\ new[i] = s[i + gone]
  <2>1. SUFFICES ASSUME NEW i \in DOMAIN new, i # n + 1 - gone
                 PROVE  i + gone \in DOMAIN s /\ new[i] = s[i + gone]
    BY <1>2
  <2>2. i \in 1 .. (n - gone) /\ i + gone \in 1 .. n
    BY <1>3, <2>1
  <2>3. QED
    BY <1>2, <1>3, <2>2
<1>8. \A i \in DOMAIN s : s[i].by = l =>
        /\ s[i].number \in DOMAIN w /\ s[i].number < m + 1 /\ s[i] = w[s[i].number]
        /\ s[i].level >= WARN
  <2>1. \A i \in DOMAIN s : s[i].by = l =>
          s[i].number \in 1 .. m /\ s[i] = w[s[i].number] /\ s[i].level >= WARN
    BY <1>6 DEF LastWarnings
  <2>2. \A k \in 1 .. m : k < m + 1
    OBVIOUS
  <2>3. QED
    BY <1>6, <2>1, <2>2
<1>9. ASSUME NEW i \in DOMAIN new, NEW j \in DOMAIN new,
             new[i].by = l, new[j].by = l, i < j
      PROVE  new[i].number < new[j].number
  <2>1. i + gone \in DOMAIN s /\ new[i] = s[i + gone]
    BY <1>3, <1>7, <1>9
  <2>2. CASE new[j] = e
    BY <1>6, <1>8, <1>9, <2>1, <2>2
  <2>3. CASE j + gone \in DOMAIN s /\ new[j] = s[j + gone]
    <3>3. i \in 1 .. (n + 1 - gone) /\ j \in 1 .. (n + 1 - gone)
      BY <1>3, <1>9
    <3>1. i + gone < j + gone
      BY <1>9, <3>3
    <3>2. QED
      BY <1>9, <2>1, <2>3, <3>1 DEF LastWarnings
  <2>4. QED
    BY <1>7, <2>2, <2>3
<1>10. ASSUME NEW i \in DOMAIN new, new[i].by = l
       PROVE  /\ new[i].number \in DOMAIN v /\ new[i] = v[new[i].number]
              /\ new[i].level >= WARN
  <2>1. CASE new[i] = e
    BY <1>6, <2>1
  <2>2. CASE i + gone \in DOMAIN s /\ new[i] = s[i + gone]
    <3>1. \A k \in DOMAIN w : k \in DOMAIN v /\ v[k] = w[k]
      BY <1>6
    <3>2. QED
      BY <1>8, <1>10, <2>2, <3>1
  <2>3. QED
    BY <1>7, <2>1, <2>2
<1>11. ASSUME NEW k \in DOMAIN v, v[k].level >= WARN
       PROVE  \/ \E i \in DOMAIN new : new[i] = v[k]
              \/ /\ Len(new) = MaxLogHistory
                 /\ \A i \in DOMAIN new : new[i].by = l => new[i].number > k
  <2>1. CASE k = m + 1
    <3>1. n + 1 - gone \in 1 .. (n + 1 - gone)
      <4>1. gone = 1 => n >= 1
        BY <1>2, LoggerAssumption
      <4>2. QED
        BY <4>1
    <3>2. QED
      BY <1>2, <1>3, <1>6, <2>1, <3>1
  <2>2. CASE k \in DOMAIN w
    <3>1. v[k] = w[k] /\ k \in Nat /\ k < m + 1
      BY <1>6, <2>2
    <3>2. CASE \E i \in DOMAIN s : s[i] = w[k]
      <4>1. PICK i \in 1 .. n : s[i] = w[k]
        BY <1>3, <3>2
      <4>2. CASE i > gone
        <5>1. i - gone \in 1 .. (n - gone) /\ i - gone \in DOMAIN new /\ (i - gone) + gone = i
          BY <1>3, <4>2
        <5>2. QED
          BY <1>2, <3>1, <4>1, <5>1
      <4>3. CASE ~(i > gone)
        <5>1. gone = 1 /\ i = 1
          BY <4>3
        <5>2. s[i].by = l /\ s[i].number = k
          BY <2>2, <4>1 DEF Numbered
        <5>3. ASSUME NEW j \in DOMAIN new, new[j].by = l PROVE new[j].number > k
          <6>1. CASE new[j] = e
            BY <1>6, <3>1, <6>1
          <6>2. CASE j + gone \in DOMAIN s /\ new[j] = s[j + gone]
            <7>1. i < j + gone /\ i \in DOMAIN s
              BY <1>3, <5>1
            <7>2. s[i].number < s[j + gone].number
              BY <5>2, <5>3, <6>2, <7>1 DEF LastWarnings
            <7>3. s[i] \in LogEntry /\ s[j + gone] \in LogEntry
              BY <6>2, <7>1
            <7>4. QED
              BY <5>2, <6>2, <7>2, <7>3 DEF LogEntry
          <6>3. QED
            BY <1>7, <6>1, <6>2
        <5>4. QED
          BY <1>2, <5>1, <5>3
      <4>4. QED
        BY <4>2, <4>3
    <3>3. CASE /\ Len(s) = MaxLogHistory
               /\ \A i \in DOMAIN s : s[i].by = l => s[i].number > k
      <4>1. Len(new) = MaxLogHistory
        BY <1>1, <1>2, <3>3
      <4>2. ASSUME NEW j \in DOMAIN new, new[j].by = l PROVE new[j].number > k
        BY <1>6, <1>7, <3>1, <3>3, <4>2
      <4>3. QED
        BY <4>1, <4>2
    <3>4. QED
      BY <1>11, <2>2, <3>1, <3>2, <3>3 DEF LastWarnings
  <2>3. QED
    BY <1>6, <2>1, <2>2
<1>12. LastWarnings(l, new, v)
  BY <1>9, <1>10, <1>11 DEF LastWarnings
<1>13. QED
  BY <1>4, <1>12

\* What holds of a logger at any time.
LEMMA LoggerHeld ==
    ASSUME LoggerInv, NEW l \in DOMAIN loggers
    PROVE  /\ l \in Nat /\ loggers[l] \in LoggerRecord /\ DOMAIN loggers = 1 .. Len(loggers)
           /\ DOMAIN histories = DOMAIN loggers /\ DOMAIN written = DOMAIN loggers
           /\ histories[l] \in Seq(LogEntry) /\ written[l] \in Seq(LogEntry)
           /\ Len(histories[l]) <= MaxLogHistory /\ Numbered(l, written[l])
           /\ loggers[l].array \in DOMAIN arrays
  BY DEF LoggerInv, LoggerTypes, HistoriesPlaced, RingsSound

\* An entry is written to the histories of an array.
LEMMA WrittenKeeps ==
    ASSUME LoggerInv, NEW l \in DOMAIN loggers, NEW level \in Levels, Write(l, level),
           written' = [written EXCEPT ![l] = Append(@, Entry(l, level))],
           loggers' \in Seq(LoggerRecord), Len(loggers') = Len(loggers),
           \A k \in DOMAIN loggers : loggers'[k].array = loggers[k].array,
           UNCHANGED <<arrays, cutOff>>
    PROVE  LoggerInv'
<1>1. PICK e : e = Entry(l, level)
  OBVIOUS
<1>2. PICK mine : mine = written[l]
  OBVIOUS
<1>3. PICK a : a = loggers[l].array
  OBVIOUS
<1>4. /\ l \in Nat /\ mine \in Seq(LogEntry) /\ Numbered(l, mine) /\ a \in DOMAIN arrays
      /\ DOMAIN loggers = 1 .. Len(loggers) /\ DOMAIN histories = DOMAIN loggers
      /\ DOMAIN written = DOMAIN loggers /\ DOMAIN loggers' = DOMAIN loggers
  BY <1>2, <1>3, LoggerHeld
<1>5. e \in LogEntry /\ e.by = l /\ e.number = Len(mine) + 1 /\ e.level = level
  BY <1>1, <1>2, <1>4 DEF Entry, LogEntry
<1>6. PICK more : more = Append(mine, e)
  OBVIOUS
<1>7. /\ more \in Seq(LogEntry) /\ Numbered(l, more)
      /\ written'[l] = more /\ DOMAIN written' = DOMAIN loggers
      /\ \A k \in DOMAIN loggers : k # l => written'[k] = written[k]
  <2>1. more \in Seq(LogEntry) /\ DOMAIN more = 1 .. (Len(mine) + 1)
        /\ more[Len(mine) + 1] = e /\ \A k \in 1 .. Len(mine) : more[k] = mine[k]
    BY <1>4, <1>5, <1>6
  <2>2. DOMAIN mine = 1 .. Len(mine) /\ Len(mine) \in Nat
    BY <1>4
  <2>3. Numbered(l, more)
    BY <1>4, <1>5, <2>1, <2>2 DEF Numbered
  <2>4. QED
    BY <1>1, <1>2, <1>4, <1>6, <2>1, <2>3
<1>8. DOMAIN histories' = DOMAIN loggers
  BY <1>4 DEF Write
<1>9. ASSUME NEW h \in DOMAIN loggers
      PROVE  \/ histories'[h] = histories[h] /\ (level >= WARN => HistoryOf(h) \notin arrays[a])
             \/ /\ histories'[h] = LastEntries(Append(histories[h], e)) /\ level >= WARN
                /\ HistoryOf(h) \in arrays[a]
  BY <1>1, <1>3, <1>4 DEF Write
<1>10. ASSUME NEW h \in DOMAIN loggers
       PROVE  /\ histories'[h] \in Seq(LogEntry) /\ Len(histories'[h]) <= MaxLogHistory
              /\ \A i \in DOMAIN histories'[h] :
                    /\ histories'[h][i].by \in DOMAIN loggers
                    /\ loggers[histories'[h][i].by].array = loggers[h].array
  <2>1. /\ histories[h] \in Seq(LogEntry) /\ Len(histories[h]) <= MaxLogHistory
        /\ \A i \in DOMAIN histories[h] :
              /\ histories[h][i].by \in DOMAIN loggers
              /\ loggers[histories[h][i].by].array = loggers[h].array
    BY LoggerHeld DEF LoggerInv, RingsSound
  <2>2. CASE histories'[h] = histories[h]
    BY <2>1, <2>2
  <2>3. CASE histories'[h] = LastEntries(Append(histories[h], e)) /\ HistoryOf(h) \in arrays[a]
    <3>1. PICK s : s = histories[h]
      OBVIOUS
    <3>2. PICK n \in Nat : n = Len(s)
      BY <2>1, <3>1
    <3>3. PICK new : new = histories'[h]
      OBVIOUS
    <3>4. PICK gone \in {0, 1} : Pushed(s, n, e, new, gone)
      BY <1>5, <2>1, <2>3, <3>1, <3>2, <3>3, RingIs
    <3>5. loggers[h].array = a
      BY <1>4, <2>3 DEF LoggerInv, HistoriesPlaced, HistoryOf
    <3>6. new \in Seq(LogEntry) /\ Len(new) <= MaxLogHistory /\ DOMAIN new = 1 .. (n + 1 - gone)
      BY <3>4 DEF Pushed
    <3>7. ASSUME NEW i \in DOMAIN new
          PROVE  /\ new[i].by \in DOMAIN loggers
                 /\ loggers[new[i].by].array = a
      <4>1. CASE i = n + 1 - gone
        BY <1>3, <1>5, <3>4, <4>1 DEF Pushed
      <4>2. CASE i # n + 1 - gone
        <5>1. i \in 1 .. (n - gone) /\ i + gone \in 1 .. n
          BY <3>6, <4>2
        <5>4. DOMAIN s = 1 .. n
          BY <2>1, <3>1, <3>2
        <5>2. new[i] = s[i + gone] /\ i + gone \in DOMAIN s
          BY <3>4, <5>1, <5>4 DEF Pushed
        <5>3. QED
          BY <2>1, <3>1, <3>5, <5>2
      <4>3. QED
        BY <4>1, <4>2
    <3>8. QED
      BY <3>3, <3>5, <3>6, <3>7
  <2>4. QED
    BY <1>9, <2>2, <2>3
<1>11. ASSUME NEW h \in DOMAIN loggers, h \notin cutOff
       PROVE  LastWarnings(h, histories'[h], written'[h])
  <2>1. /\ histories[h] \in Seq(LogEntry) /\ Len(histories[h]) <= MaxLogHistory
        /\ written[h] \in Seq(LogEntry) /\ Numbered(h, written[h]) /\ h \in Nat
        /\ LastWarnings(h, histories[h], written[h]) /\ HistoryOf(h) \in arrays[loggers[h].array]
    BY <1>11, LoggerHeld DEF LoggerInv, RingsSound, HistoriesPlaced
  <2>2. CASE h = l
    <3>1. CASE level >= WARN
      <4>1. histories'[h] = LastEntries(Append(histories[h], e))
        BY <1>3, <1>9, <2>1, <2>2, <3>1
      <4>2. LastWarnings(l, histories'[h], Append(mine, e))
        BY <1>2, <1>4, <1>5, <2>1, <2>2, <3>1, <4>1, WarningWritten
      <4>3. QED
        BY <1>6, <1>7, <2>2, <4>2
    <3>2. CASE ~(level >= WARN)
      <4>1. histories'[h] = histories[h]
        BY <1>9, <3>2
      <4>2. LastWarnings(l, histories[h], Append(mine, e))
        BY <1>2, <1>4, <1>5, <2>1, <2>2, <3>2, QuietWritten
      <4>3. QED
        BY <1>6, <1>7, <2>2, <4>1, <4>2
    <3>3. QED
      BY <3>1, <3>2
  <2>3. CASE h # l
    <3>1. written'[h] = written[h]
      BY <1>7, <2>3
    <3>2. CASE histories'[h] = histories[h]
      BY <2>1, <3>1, <3>2
    <3>3. CASE histories'[h] = LastEntries(Append(histories[h], e))
      <4>1. LastWarnings(h, histories'[h], written[h])
        BY <1>5, <2>1, <2>3, <3>3, OtherWritten
      <4>2. QED
        BY <3>1, <4>1
    <3>4. QED
      BY <1>9, <3>2, <3>3
  <2>4. QED
    BY <2>2, <2>3
<1>12. LoggerTypes'
  <2>1. histories' = [h \in DOMAIN loggers |-> histories'[h]]
    BY <1>4 DEF Write
  <2>2. histories' \in Seq(Seq(LogEntry)) /\ Len(histories') = Len(loggers)
    <3>1. PICK n \in Nat : n = Len(loggers)
      BY DEF LoggerInv, LoggerTypes
    <3>2. PICK all : all = histories'
      OBVIOUS
    <3>3. all \in [1 .. n -> Seq(LogEntry)]
      BY <1>4, <1>10, <2>1, <3>1, <3>2
    <3>4. all \in Seq(Seq(LogEntry)) /\ Len(all) = n
      BY <3>1, <3>3
    <3>5. QED
      BY <3>1, <3>2, <3>4
  <2>3. written' \in Seq(Seq(LogEntry)) /\ Len(written') = Len(loggers)
    BY <1>1, <1>2, <1>4, <1>6, <1>7 DEF LoggerInv, LoggerTypes
  <2>4. QED
    BY <2>2, <2>3 DEF LoggerInv, LoggerTypes
<1>13. HistoriesPlaced'
  BY <1>4 DEF LoggerInv, HistoriesPlaced
<1>14. RingsSound'
  <2>1. ASSUME NEW h \in DOMAIN loggers PROVE Numbered(h, written'[h])
    BY <1>7, LoggerHeld
  <2>2. QED
    BY <1>4, <1>10, <1>11, <2>1 DEF RingsSound
<1>15. QED
  BY <1>12, <1>13, <1>14 DEF LoggerInv

\* Levels, keys seen and the registry change, and what loggers share does not.
LEMMA SettingsKept ==
    ASSUME LoggerInv, loggers' \in Seq(LoggerRecord), Len(loggers') = Len(loggers),
           \A k \in DOMAIN loggers : loggers'[k].array = loggers[k].array,
           UNCHANGED <<arrays, histories, written, cutOff>>
    PROVE  LoggerInv'
<1>1. DOMAIN loggers' = DOMAIN loggers
  BY DEF LoggerInv, LoggerTypes
<1>2. LoggerTypes'
  BY DEF LoggerInv, LoggerTypes
<1>3. HistoriesPlaced'
  BY <1>1 DEF LoggerInv, HistoriesPlaced
<1>4. RingsSound'
  BY <1>1 DEF LoggerInv, RingsSound
<1>5. QED
  BY <1>2, <1>3, <1>4 DEF LoggerInv

\* An array changes by transports that are no histories, or loses a history that is cut
\* off from then on.
LEMMA TransportsKeep ==
    ASSUME LoggerInv, NEW a \in DOMAIN arrays, NEW new \in SUBSET Transport,
           arrays' = [arrays EXCEPT ![a] = new],
           \A t \in new : t.name = "buffer" => t \in arrays[a],
           \A l \in DOMAIN loggers : HistoryOf(l) \in arrays[a] /\ l \notin cutOff' => HistoryOf(l) \in new,
           cutOff \subseteq cutOff',
           UNCHANGED <<loggers, histories, written>>
    PROVE  LoggerInv'
<1>1. DOMAIN arrays' = DOMAIN arrays /\ arrays'[a] = new
      /\ \A b \in DOMAIN arrays : b # a => arrays'[b] = arrays[b]
  OBVIOUS
<1>2. LoggerTypes'
  BY DEF LoggerInv, LoggerTypes
<1>3. HistoriesPlaced'
  BY <1>1 DEF LoggerInv, HistoriesPlaced
<1>4. RingsSound'
  BY DEF LoggerInv, RingsSound
<1>5. QED
  BY <1>2, <1>3, <1>4 DEF LoggerInv

\* A logger is made, with an array given or one of its own.
LEMMA ConstructKeeps ==
    ASSUME LoggerInv, NEW a \in Nat, a \in DOMAIN arrays \/ a = NewArray,
           NEW transports \in SUBSET Transport, \A t \in transports : t.name # "buffer",
           NEW level \in Levels, NEW registered \in BOOLEAN,
           Construct(a, transports, level, registered)
    PROVE  LoggerInv'
<1>1. PICK n \in Nat : n = Len(loggers)
  BY DEF LoggerInv, LoggerTypes
<1>2. PICK r : r = [array |-> a, level |-> level, registered |-> registered, seen |-> {}]
  OBVIOUS
<1>3. r \in LoggerRecord /\ r.array = a
  BY <1>2 DEF LoggerRecord
<1>4. /\ loggers' = Append(loggers, r) /\ histories' = Append(histories, <<>>)
      /\ written' = Append(written, <<>>) /\ cutOff' = cutOff
  BY <1>2 DEF Construct
<1>5. /\ loggers \in Seq(LoggerRecord) /\ histories \in Seq(Seq(LogEntry))
      /\ written \in Seq(Seq(LogEntry)) /\ Len(histories) = n /\ Len(written) = n
      /\ arrays \in Seq(SUBSET Transport)
  BY <1>1 DEF LoggerInv, LoggerTypes
<1>6. /\ loggers' \in Seq(LoggerRecord) /\ Len(loggers') = n + 1 /\ loggers'[n + 1] = r
      /\ DOMAIN loggers' = DOMAIN loggers \cup {n + 1} /\ DOMAIN loggers = 1 .. n
      /\ \A l \in DOMAIN loggers : loggers'[l] = loggers[l]
  BY <1>1, <1>3, <1>4, <1>5
<1>7. <<>> \in Seq(LogEntry)
  OBVIOUS
<1>8. /\ histories' \in Seq(Seq(LogEntry)) /\ Len(histories') = n + 1 /\ histories'[n + 1] = <<>>
      /\ \A l \in DOMAIN loggers : histories'[l] = histories[l]
  BY <1>4, <1>5, <1>6, <1>7
<1>9. /\ written' \in Seq(Seq(LogEntry)) /\ Len(written') = n + 1 /\ written'[n + 1] = <<>>
      /\ \A l \in DOMAIN loggers : written'[l] = written[l]
  BY <1>4, <1>5, <1>6, <1>7
<1>10. PICK own : own = HistoryOf(n + 1)
  OBVIOUS
<1>11. own \in Transport /\ own.name = "buffer" /\ own.of = n + 1
  BY <1>10 DEF HistoryOf, Transport
<1>12. /\ arrays' \in Seq(SUBSET Transport) /\ DOMAIN arrays \subseteq DOMAIN arrays'
       /\ DOMAIN arrays' = DOMAIN arrays \cup {a} /\ own \in arrays'[a]
       /\ \A b \in DOMAIN arrays : b # a => arrays'[b] = arrays[b]
       /\ a \in DOMAIN arrays => arrays'[a] = arrays[a] \cup {own}
       /\ a \notin DOMAIN arrays => arrays'[a] = transports \cup {own}
  <2>1. CASE a \in DOMAIN arrays
    <3>1. arrays' = [arrays EXCEPT ![a] = @ \cup {own}]
      BY <1>1, <1>10, <2>1 DEF Construct
    <3>2. arrays[a] \cup {own} \in SUBSET Transport
      BY <1>5, <1>11, <2>1
    <3>3. PICK m \in Nat : DOMAIN arrays = 1 .. m /\ arrays \in [1 .. m -> SUBSET Transport]
      BY <1>5
    <3>4. arrays' \in [1 .. m -> SUBSET Transport]
      BY <3>1, <3>2, <3>3
    <3>5. arrays' \in Seq(SUBSET Transport)
      BY <3>4
    <3>6. QED
      BY <2>1, <3>1, <3>3, <3>4, <3>5
  <2>2. CASE a \notin DOMAIN arrays
    <3>1. PICK new : new = transports \cup {own}
      OBVIOUS
    <3>2. arrays' = Append(arrays, new) /\ new \in SUBSET Transport /\ a = Len(arrays) + 1
      BY <1>1, <1>10, <1>11, <2>2, <3>1 DEF Construct, NewArray
    <3>3. /\ arrays' \in Seq(SUBSET Transport) /\ DOMAIN arrays' = DOMAIN arrays \cup {a}
          /\ arrays'[a] = new /\ \A b \in DOMAIN arrays : arrays'[b] = arrays[b]
      BY <1>5, <3>2
    <3>4. QED
      BY <2>2, <3>1, <3>3
  <2>3. QED
    BY <2>1, <2>2
<1>13. HistoriesPlaced'
  <2>1. \A l \in DOMAIN loggers' : loggers'[l].array \in DOMAIN arrays'
    BY <1>3, <1>6, <1>12 DEF LoggerInv, HistoriesPlaced
  <2>2. ASSUME NEW b \in DOMAIN arrays', NEW t \in arrays'[b], t.name = "buffer"
        PROVE  t.of \in DOMAIN loggers' /\ loggers'[t.of].array = b
    <3>1. CASE t = own /\ b = a
      BY <1>3, <1>6, <1>11, <3>1
    <3>2. CASE b \in DOMAIN arrays /\ t \in arrays[b]
      BY <1>6, <2>2, <3>2 DEF LoggerInv, HistoriesPlaced
    <3>3. QED
      BY <1>12, <2>2, <3>1, <3>2
  <2>3. ASSUME NEW l \in DOMAIN loggers', l \notin cutOff
        PROVE  HistoryOf(l) \in arrays'[loggers'[l].array]
    <3>1. CASE l = n + 1
      BY <1>3, <1>6, <1>10, <1>12, <3>1
    <3>2. CASE l \in DOMAIN loggers
      BY <1>6, <1>12, <2>3, <3>2 DEF LoggerInv, HistoriesPlaced
    <3>3. QED
      BY <1>6, <3>1, <3>2
  <2>4. QED
    BY <1>4, <2>1, <2>2, <2>3 DEF HistoriesPlaced
<1>14. RingsSound'
  <2>1. ASSUME NEW l \in DOMAIN loggers'
        PROVE  /\ Len(histories'[l]) <= MaxLogHistory
               /\ Numbered(l, written'[l])
               /\ l \notin cutOff => LastWarnings(l, histories'[l], written'[l])
               /\ \A i \in DOMAIN histories'[l] :
                     /\ histories'[l][i].by \in DOMAIN loggers'
                     /\ loggers'[histories'[l][i].by].array = loggers'[l].array
    <3>1. CASE l = n + 1
      <4>1. histories'[l] = <<>> /\ written'[l] = <<>>
        BY <1>8, <1>9, <3>1
      <4>2. QED
        BY <4>1, LoggerAssumption DEF Numbered, LastWarnings
    <3>2. CASE l \in DOMAIN loggers
      <4>1. PICK ring, wrote : ring = histories[l] /\ wrote = written[l]
        OBVIOUS
      <4>2. /\ Len(ring) <= MaxLogHistory /\ Numbered(l, wrote)
            /\ l \notin cutOff => LastWarnings(l, ring, wrote)
            /\ \A i \in DOMAIN ring : /\ ring[i].by \in DOMAIN loggers
                                      /\ loggers[ring[i].by].array = loggers[l].array
        BY <3>2, <4>1 DEF LoggerInv, RingsSound
      <4>3. histories'[l] = ring /\ written'[l] = wrote /\ loggers'[l] = loggers[l]
        BY <1>6, <1>8, <1>9, <3>2, <4>1
      <4>4. \A i \in DOMAIN ring : /\ ring[i].by \in DOMAIN loggers'
                                   /\ loggers'[ring[i].by].array = loggers'[l].array
        BY <1>6, <4>2, <4>3
      <4>5. QED
        BY <4>2, <4>3, <4>4
    <3>3. QED
      BY <1>6, <3>1, <3>2
  <2>2. QED
    BY <1>4, <2>1 DEF RingsSound
<1>15. LoggerTypes'
  BY <1>6, <1>8, <1>9, <1>12 DEF LoggerTypes
<1>16. QED
  BY <1>13, <1>14, <1>15 DEF LoggerInv

\* A logger or a child is made.
LEMMA LoggersMadeKeep ==
    ASSUME LoggerInv,
           \/ \E a \in 0 .. Given, registered \in BOOLEAN : NewLogger(a, registered)
           \/ \E l \in DOMAIN loggers : Child(l)
    PROVE  LoggerInv'
<1>1. arrays \in Seq(SUBSET Transport) /\ NewArray \in Nat
  BY DEF LoggerInv, LoggerTypes, NewArray
<1>2. {} \in SUBSET Transport /\ {Console} \in SUBSET Transport /\ Console.name # "buffer"
      /\ INFO \in Levels
  BY DEF Transport, Console, Levels
<1>3. ASSUME NEW a \in 0 .. Given, NEW registered \in BOOLEAN, NewLogger(a, registered)
      PROVE  LoggerInv'
  <2>1. a \in Nat
    BY LoggerAssumption
  <2>2. CASE a \in DOMAIN arrays /\ arrays[a] # {}
    <3>1. Construct(a, {}, INFO, registered)
      BY <1>3, <2>2 DEF NewLogger
    <3>2. QED
      BY <1>2, <2>1, <2>2, <3>1, ConstructKeeps
  <2>3. CASE ~(a \in DOMAIN arrays /\ arrays[a] # {})
    <3>1. Construct(NewArray, {Console}, INFO, registered)
      BY <1>3, <2>3 DEF NewLogger
    <3>2. QED
      BY <1>1, <1>2, <3>1, ConstructKeeps
  <2>4. QED
    BY <2>2, <2>3
<1>4. ASSUME NEW l \in DOMAIN loggers, Child(l) PROVE LoggerInv'
  <2>1. PICK kept : kept = Inherited(arrays[loggers[l].array])
    OBVIOUS
  <2>2. loggers[l] \in LoggerRecord /\ loggers[l].array \in DOMAIN arrays
    BY LoggerHeld
  <2>3. kept \in SUBSET Transport /\ \A t \in kept : t.name # "buffer"
    BY <1>1, <2>1, <2>2 DEF Inherited
  <2>4. PICK transports : transports = IF kept = {} THEN {Console} ELSE kept
    OBVIOUS
  <2>5. transports \in SUBSET Transport /\ \A t \in transports : t.name # "buffer"
    BY <1>2, <2>3, <2>4
  <2>6. PICK level \in Levels : level = loggers[l].level
    BY <2>2 DEF LoggerRecord
  <2>7. Construct(NewArray, transports, level, FALSE)
    BY <1>4, <2>1, <2>4, <2>6 DEF Child
  <2>8. QED
    BY <1>1, <2>5, <2>7, ConstructKeeps
<1>5. QED
  BY <1>3, <1>4

\* An entry passes the level of its logger, or a key is remembered.
LEMMA LogsKeep ==
    ASSUME LoggerInv, NEW l \in DOMAIN loggers, NEW level \in Levels,
           Log(l, level) \/ \E k \in OnceKey : LogOnce(l, k, level)
    PROVE  LoggerInv'
<1>1. loggers \in Seq(LoggerRecord)
  BY DEF LoggerInv, LoggerTypes
<1>2. CASE Log(l, level)
  BY <1>1, <1>2, WrittenKeeps DEF Log
<1>3. ASSUME NEW key \in OnceKey, LogOnce(l, key, level) PROVE LoggerInv'
  <2>1. PICK r : r = [loggers[l] EXCEPT !.seen = @ \union {key}]
    OBVIOUS
  <2>2. r \in LoggerRecord /\ r.array = loggers[l].array
    BY <2>1, LoggerHeld DEF LoggerRecord
  <2>3. loggers' = [loggers EXCEPT ![l] = r]
    BY <1>3, <2>1 DEF LogOnce
  <2>4. /\ loggers' \in Seq(LoggerRecord) /\ Len(loggers') = Len(loggers)
        /\ \A k \in DOMAIN loggers : loggers'[k].array = loggers[k].array
    BY <1>1, <2>2, <2>3
  <2>5. CASE level >= loggers[l].level
    BY <1>3, <2>4, <2>5, WrittenKeeps DEF LogOnce
  <2>6. CASE ~(level >= loggers[l].level)
    BY <1>3, <2>4, <2>6, SettingsKept DEF LogOnce
  <2>7. QED
    BY <2>5, <2>6
<1>4. QED
  BY <1>2, <1>3

\* Levels are set, the registry cleared, the counters reset.
LEMMA LevelsKeep ==
    ASSUME LoggerInv,
           \/ \E l \in DOMAIN loggers, level \in Levels : SetLevel(l, level)
           \/ \E level \in Levels : SetGlobalLevel(level)
           \/ ClearRegistry \/ \E l \in DOMAIN loggers : ResetCounters(l)
    PROVE  LoggerInv'
<1>1. PICK n \in Nat : n = Len(loggers)
  BY DEF LoggerInv, LoggerTypes
<1>2. loggers \in [1 .. n -> LoggerRecord] /\ DOMAIN loggers = 1 .. n
  BY <1>1 DEF LoggerInv, LoggerTypes
<1>3. UNCHANGED <<arrays, histories, written, cutOff>>
  BY DEF SetLevel, SetGlobalLevel, ClearRegistry, ResetCounters
<1>4. ASSUME loggers' \in [1 .. n -> LoggerRecord],
             \A k \in 1 .. n : loggers'[k].array = loggers[k].array
      PROVE  LoggerInv'
  <2>1. loggers' \in Seq(LoggerRecord) /\ Len(loggers') = n
    BY <1>4
  <2>2. QED
    BY <1>1, <1>2, <1>3, <1>4, <2>1, SettingsKept
<1>5. ASSUME NEW l \in DOMAIN loggers, NEW level \in Levels, SetLevel(l, level) PROVE LoggerInv'
  <2>1. loggers' = [loggers EXCEPT ![l].level = level]
    BY <1>5 DEF SetLevel
  <2>2. QED
    BY <1>2, <1>4, <2>1 DEF LoggerRecord
<1>6. ASSUME NEW level \in Levels, SetGlobalLevel(level) PROVE LoggerInv'
  <2>1. loggers' = [l \in DOMAIN loggers |->
          IF loggers[l].registered THEN [loggers[l] EXCEPT !.level = level] ELSE loggers[l]]
    BY <1>6 DEF SetGlobalLevel
  <2>2. QED
    BY <1>2, <1>4, <2>1 DEF LoggerRecord
<1>7. CASE ClearRegistry
  <2>1. loggers' = [l \in DOMAIN loggers |-> [loggers[l] EXCEPT !.registered = FALSE]]
    BY <1>7 DEF ClearRegistry
  <2>2. QED
    BY <1>2, <1>4, <2>1 DEF LoggerRecord
<1>8. ASSUME NEW l \in DOMAIN loggers, ResetCounters(l) PROVE LoggerInv'
  <2>1. loggers' = loggers
    BY <1>8 DEF ResetCounters
  <2>2. QED
    BY <1>2, <1>4, <2>1
<1>9. QED
  BY <1>5, <1>6, <1>7, <1>8

\* A transport is added unless one has its name.
LEMMA AddTransportKeeps ==
    ASSUME LoggerInv, NEW l \in DOMAIN loggers, AddTransport(l, Sink)
    PROVE  LoggerInv'
<1>1. PICK a \in DOMAIN arrays : a = loggers[l].array
  BY LoggerHeld
<1>2. PICK new : new = IF \E t \in arrays[a] : t.name = Sink.name THEN arrays[a]
                       ELSE arrays[a] \cup {Sink}
  OBVIOUS
<1>3. arrays \in Seq(SUBSET Transport)
  BY DEF LoggerInv, LoggerTypes
<1>4. Sink \in Transport /\ Sink.name # "buffer"
  BY DEF Sink, Transport
<1>5. new \in SUBSET Transport /\ arrays[a] \subseteq new
      /\ \A t \in new : t.name = "buffer" => t \in arrays[a]
  BY <1>2, <1>3, <1>4
<1>6. arrays' = [arrays EXCEPT ![a] = new]
  <2>1. arrays = [arrays EXCEPT ![a] = arrays[a]]
    BY <1>3
  <2>2. arrays' = IF \E t \in arrays[a] : t.name = Sink.name
                  THEN arrays ELSE [arrays EXCEPT ![a] = arrays[a] \cup {Sink}]
    BY <1>1 DEF AddTransport
  <2>3. QED
    BY <1>2, <2>1, <2>2
<1>7. UNCHANGED <<loggers, histories, written, cutOff>>
  BY DEF AddTransport
<1>8. QED
  BY <1>5, <1>6, <1>7, TransportsKeep

\* The first transport of a name goes.
LEMMA RemoveTransportKeeps ==
    ASSUME LoggerInv, NEW l \in DOMAIN loggers, NEW name, RemoveTransport(l, name)
    PROVE  LoggerInv'
<1>1. PICK a \in DOMAIN arrays : a = loggers[l].array
  BY LoggerHeld
<1>2. arrays \in Seq(SUBSET Transport)
  BY DEF LoggerInv, LoggerTypes
<1>3. UNCHANGED <<loggers, histories, written>>
  BY DEF RemoveTransport
<1>4. CASE UNCHANGED <<arrays, cutOff>>
  BY <1>3, <1>4, SettingsKept DEF LoggerInv, LoggerTypes
<1>5. ASSUME NEW first \in arrays[a], arrays' = [arrays EXCEPT ![a] = @ \ {first}],
             cutOff' = cutOff \cup {first.of}
      PROVE  LoggerInv'
  <2>1. PICK new : new = arrays[a] \ {first}
    OBVIOUS
  <2>2. new \in SUBSET Transport /\ \A t \in new : t.name = "buffer" => t \in arrays[a]
    BY <1>2, <2>1
  <2>3. \A k \in DOMAIN loggers : HistoryOf(k) \in arrays[a] /\ k \notin cutOff' => HistoryOf(k) \in new
    BY <1>5, <2>1 DEF HistoryOf
  <2>4. arrays' = [arrays EXCEPT ![a] = new] /\ cutOff \subseteq cutOff'
    BY <1>5, <2>1
  <2>5. QED
    BY <1>3, <2>2, <2>3, <2>4, TransportsKeep
<1>6. QED
  BY <1>1, <1>4, <1>5 DEF RemoveTransport

\* Each step of the loggers keeps the invariant.
LEMMA LoggersStep == ASSUME LoggerInv, [LoggersNext]_loggerVars PROVE LoggerInv'
<1>1. CASE \E a \in 0 .. Given, registered \in BOOLEAN : NewLogger(a, registered)
  BY <1>1, LoggersMadeKeep
<1>2. ASSUME NEW l \in DOMAIN loggers, Child(l) \/ ResetCounters(l) PROVE LoggerInv'
  BY <1>2, LoggersMadeKeep, LevelsKeep
<1>3. ASSUME NEW l \in DOMAIN loggers, NEW level \in {DEBUG, INFO, WARN},
             Log(l, level) \/ SetLevel(l, level) \/ \E k \in OnceKey : LogOnce(l, k, level)
      PROVE  LoggerInv'
  BY <1>3, LogsKeep, LevelsKeep DEF Levels
<1>4. ASSUME NEW l \in DOMAIN loggers, AddTransport(l, Sink) PROVE LoggerInv'
  BY <1>4, AddTransportKeeps
<1>5. ASSUME NEW l \in DOMAIN loggers, NEW name, RemoveTransport(l, name) PROVE LoggerInv'
  BY <1>5, RemoveTransportKeeps
<1>6. ASSUME NEW level \in {INFO, WARN}, SetGlobalLevel(level) PROVE LoggerInv'
  BY <1>6, LevelsKeep DEF Levels
<1>7. CASE ClearRegistry
  BY <1>7, LevelsKeep
<1>8. CASE UNCHANGED loggerVars
  BY <1>8, SettingsKept DEF loggerVars, LoggerInv, LoggerTypes
<1>9. QED
  BY <1>1, <1>2, <1>3, <1>4, <1>5, <1>6, <1>7, <1>8 DEF LoggersNext

\* The arrays of callers hold no history.
LEMMA LoggersStart == ASSUME LoggersInit PROVE LoggerInv
<1>1. Sink \in Transport /\ Sink.name # "buffer"
  BY DEF Sink, Transport
<1>2. arrays \in [1 .. Given -> SUBSET Transport]
      /\ \A a \in DOMAIN arrays : \A t \in arrays[a] : t.name # "buffer"
  BY <1>1 DEF LoggersInit
<1>3. arrays \in Seq(SUBSET Transport)
  BY <1>2, LoggerAssumption
<1>4. loggers = <<>> /\ histories = <<>> /\ written = <<>>
  BY DEF LoggersInit
<1>5. QED
  BY <1>2, <1>3, <1>4 DEF LoggerInv, LoggerTypes, HistoriesPlaced, RingsSound

\* The invariant of the loggers.
LEMMA LoggersInvariance == LoggersInit /\ [][LoggersNext]_loggerVars => []LoggerInv
<1>1. QED
  BY LoggersStart, LoggersStep, PTL

\* For any arrays, loggers and entries the history of a logger that is still in its
\* array has the last of its warnings, each once and in order, and other entries only of
\* loggers that write to the same array: logger.ts puts a logger's history into the
\* array that callers share, and takes transports out of it by name.
THEOREM HistoriesAlwaysOwn == LoggersInit /\ [][LoggersNext]_loggerVars => []HistoriesOwn
<1>1. LoggerInv => HistoriesOwn
  BY DEF LoggerInv, RingsSound, HistoriesOwn
<1>2. QED
  BY <1>1, LoggersInvariance, PTL

-----------------------------------------------------------------------------
(***************************************************************************)
(* PayloadBatches: workers that share the items of a batch.                *)
(***************************************************************************)
Payload ==
    [format : {"wire", "garbled", "legacy"}, version : {"this", "other"},
     checksum : {"right", "wrong"}, body : {"right", "wrong"}, item : Index]

BatchTypes ==
    /\ items \in [Index -> ItemKind] /\ phase \in {"compress", "stored", "decompress", "over"}
    /\ workers \in Nat /\ cursor \in Nat /\ damaged \in Nat
    /\ taken \in [Index -> Nat] /\ DOMAIN results = Index
    /\ encoded \in [Index -> Payload \cup {Missing}]

\* Workers that wait have items of their own that the cursor has passed; an item the cursor
\* has passed is waited for or has its entry.
WorkShared ==
    /\ \A w \in Index : taken[w] # 0 => w \in Workers /\ taken[w] < cursor /\ taken[w] \in Index
    /\ \A v, w \in Index : v # w /\ taken[v] # 0 => taken[v] # taken[w]
    /\ \A i \in Index : i < cursor => results[i].is # "hole" \/ \E w \in Index : taken[w] = i
    /\ phase \in {"stored", "over"} =>
          /\ \A w \in Index : taken[w] = 0
          /\ workers > 0 => \A i \in Index : results[i].is # "hole"

\* What an entry and what a stored payload say of their item.
EntriesTrue ==
    \A i \in Index :
        /\ results[i].is = "value" =>
              /\ results[i].item = i /\ items[i] \in {"json", "undefined"}
              /\ phase \in {"decompress", "over"} => items[i] = "json"
        /\ encoded[i] # Missing => encoded[i].item = i /\ items[i] \in {"json", "undefined"}
        /\ encoded[i] # Missing /\ encoded[i].format = "legacy" => items[i] = "json"
        /\ damaged = 0 => encoded[i] \in {Missing, Wire(i)}
        /\ phase \in {"decompress", "over"} /\ damaged = 0 /\ streams /\ results[i].is # "hole" =>
              (results[i].is = "value" <=> encoded[i] # Missing /\ items[i] = "json")

BatchInv == BatchTypes /\ WorkShared /\ EntriesTrue

\* A missing entry is no payload, and what goes over the wire is one.
LEMMA PayloadFormats ==
  /\ Missing.format = "missing" /\ \A e \in Payload : e.format # "missing" /\ e # Missing
  /\ \A i \in Index : Wire(i) \in Payload /\ Wire(i).item = i /\ Wire(i).format = "wire"
BY DEF Missing, Wire, Payload

\* What compress returns.
LEMMA CompressedSays ==
  ASSUME NEW i, items[i] \in ItemKind, NEW r \in Compressed(i)
  PROVE  /\ r.is \in {"value", "error"}
         /\ r.is = "value" => r.item = i /\ items[i] \in {"json", "undefined"}
<1>1. \A code : ErrorOf(code).is = "error"
  BY DEF ErrorOf
<1>2. ValueOf(i).is = "value" /\ ValueOf(i).item = i
  BY DEF ValueOf
<1>3. \/ \E code : r = ErrorOf(code)
      \/ r = ValueOf(i) /\ items[i] # "cyclic" /\ items[i] # "oversized"
  BY DEF Compressed
<1> QED
  BY <1>1, <1>2, <1>3 DEF ItemKind

\* What decompress returns.
LEMMA DecompressedSays ==
  ASSUME NEW e, NEW r \in Decompressed(e)
  PROVE  /\ r.is \in {"value", "error"}
         /\ r.is = "value" => /\ r.item = e.item /\ e.format # "missing"
                              /\ e.format = "legacy" \/ items[e.item] # "undefined"
<1>1. \A code : ErrorOf(code).is = "error"
  BY DEF ErrorOf
<1>2. ValueOf(e.item).is = "value" /\ ValueOf(e.item).item = e.item
  BY DEF ValueOf
<1>3. \/ \E code : r = ErrorOf(code)
      \/ /\ r = ValueOf(e.item) /\ e.format # "missing"
         /\ e.format = "legacy" \/ items[e.item] # "undefined"
  BY DEF Decompressed
<1> QED
  BY <1>1, <1>2, <1>3

\* An entry nobody damaged reads back as its item, where streams are there.
LEMMA IntactReadsBack ==
  ASSUME streams, NEW i, items[i] \in {"json", "undefined"}, NEW e, e = Wire(i), NEW r \in Decompressed(e)
  PROVE  r.is = "value" <=> items[i] = "json"
<1>1. /\ e.format = "wire" /\ e.version = "this" /\ e.body = "right" /\ e.checksum = "right"
      /\ e.item = i
  BY DEF Wire
<1>2. Decompressed(e) = IF items[i] = "undefined" THEN {ErrorOf("DECOMPRESS_FAILED")} ELSE {ValueOf(i)}
  BY <1>1 DEF Decompressed
<1>3. ErrorOf("DECOMPRESS_FAILED").is = "error" /\ ValueOf(i).is = "value"
  BY DEF ErrorOf, ValueOf
<1> QED
  BY <1>2, <1>3

\* A worker for each item at most.
LEMMA WorkersAreItems == ASSUME workers \in Nat PROVE Workers \subseteq Index
BY BatchAssumption, SMT DEF Workers, Index, Min2

\* A worker takes the next item.
LEMMA TakeKeeps ==
  ASSUME BatchInv, NEW w \in Workers, Take(w)
  PROVE  BatchInv'
<1>1. /\ w \in Index /\ cursor \in Nat /\ BatchLength \in Nat /\ taken \in [Index -> Nat]
  BY WorkersAreItems, BatchAssumption DEF BatchInv, BatchTypes
<1>2. /\ Running /\ taken[w] = 0 /\ cursor <= BatchLength /\ cursor' = cursor + 1
      /\ taken' = [taken EXCEPT ![w] = cursor]
      /\ UNCHANGED <<items, phase, streams, workers, results, encoded, damaged>>
  BY DEF Take
<1>3. taken' \in [Index -> Nat] /\ taken'[w] = cursor /\ \A v \in Index : v # w => taken'[v] = taken[v]
  BY <1>1, <1>2
<1>4. BatchTypes'
  BY <1>1, <1>2, <1>3, SMT DEF BatchInv, BatchTypes
<1>5. cursor # 0 => cursor \in Index
  BY <1>1, <1>2, SMT DEF Index
<1>6. \A v \in Index : taken[v] # 0 => taken[v] # cursor /\ taken[v] < cursor + 1
  BY <1>1, SMT DEF BatchInv, WorkShared
<1>7. Workers' = Workers /\ cursor < cursor + 1
  BY <1>1, <1>2, SMT DEF Workers
<1>8. \A i \in Index : i < cursor + 1 => i < cursor \/ i = cursor
  BY <1>1, SMT DEF Index
<1>9. ~(phase \in {"stored", "over"})
  BY <1>2 DEF Running
<1>10. \A v \in Index : taken'[v] # 0 => v \in Workers' /\ taken'[v] < cursor' /\ taken'[v] \in Index
  BY <1>2, <1>3, <1>5, <1>6, <1>7 DEF BatchInv, WorkShared
<1>11. \A v, x \in Index : v # x /\ taken'[v] # 0 => taken'[v] # taken'[x]
  BY <1>2, <1>3, <1>6 DEF BatchInv, WorkShared
<1>12. \A i \in Index : i < cursor' => results'[i].is # "hole" \/ \E v \in Index : taken'[v] = i
  <2> SUFFICES ASSUME NEW i \in Index, i < cursor + 1, results[i].is = "hole"
               PROVE  \E v \in Index : taken'[v] = i
    BY <1>2
  <2>1. CASE i = cursor
    BY <1>1, <1>3, <2>1
  <2>2. CASE i < cursor
    <3>1. PICK v \in Index : taken[v] = i
      BY <2>2 DEF BatchInv, WorkShared
    <3>2. i # 0
      BY BatchAssumption, SMT DEF Index
    <3> QED
      BY <1>2, <1>3, <3>1, <3>2
  <2> QED
    BY <1>8, <2>1, <2>2
<1>13. WorkShared'
  BY <1>2, <1>9, <1>10, <1>11, <1>12 DEF WorkShared
<1>14. EntriesTrue'
  BY <1>2 DEF BatchInv, EntriesTrue
<1> QED
  BY <1>4, <1>13, <1>14 DEF BatchInv

\* A worker finishes its item.
LEMMA DoneKeeps ==
  ASSUME BatchInv, NEW w \in Workers, Done(w)
  PROVE  BatchInv'
<1>1. w \in Index /\ taken \in [Index -> Nat] /\ DOMAIN results = Index
  BY WorkersAreItems DEF BatchInv, BatchTypes
<1>2. PICK i : i = taken[w]
  OBVIOUS
<1>3. /\ Running /\ i # 0 /\ taken' = [taken EXCEPT ![w] = 0]
      /\ UNCHANGED <<items, phase, streams, workers, cursor, encoded, damaged>>
  BY <1>2 DEF Done
<1>4. PICK r \in Outcomes(i) : results' = [results EXCEPT ![i] = r]
  BY <1>2 DEF Done, Position
<1>5. i \in Index
  BY <1>1, <1>2, <1>3 DEF BatchInv, WorkShared
<1>6. taken' \in [Index -> Nat] /\ taken'[w] = 0 /\ \A v \in Index : v # w => taken'[v] = taken[v]
  BY <1>1, <1>3
<1>7. DOMAIN results' = Index /\ results'[i] = r /\ \A j \in Index : j # i => results'[j] = results[j]
  BY <1>1, <1>4, <1>5
<1>8. /\ r.is \in {"value", "error"}
      /\ r.is = "value" => /\ r.item = i /\ items[i] \in {"json", "undefined"}
                           /\ phase # "compress" => items[i] = "json"
      /\ phase # "compress" /\ damaged = 0 /\ streams =>
            (r.is = "value" <=> encoded[i] # Missing /\ items[i] = "json")
  <2>1. CASE phase = "compress"
    <3>1. r \in Compressed(i) /\ items[i] \in ItemKind
      BY <1>4, <1>5, <2>1 DEF Outcomes, BatchInv, BatchTypes
    <3> QED
      BY <2>1, <3>1, CompressedSays
  <2>2. CASE phase # "compress"
    <3>1. PICK e : e = encoded[i]
      OBVIOUS
    <3>2. r \in Decompressed(e) /\ e \in Payload \cup {Missing}
      BY <1>4, <1>5, <2>2, <3>1 DEF Outcomes, BatchInv, BatchTypes
    <3>3. /\ r.is \in {"value", "error"}
          /\ r.is = "value" => /\ r.item = e.item /\ e.format # "missing"
                               /\ e.format = "legacy" \/ items[e.item] # "undefined"
      BY <3>2, DecompressedSays
    <3>4. /\ e # Missing => e.item = i /\ items[i] \in {"json", "undefined"}
          /\ e # Missing /\ e.format = "legacy" => items[i] = "json"
          /\ damaged = 0 => e \in {Missing, Wire(i)}
      BY <1>5, <3>1 DEF BatchInv, EntriesTrue
    <3>5. r.is = "value" => e # Missing /\ items[i] = "json"
      BY <3>3, <3>4, PayloadFormats
    <3>6. ASSUME damaged = 0, streams, e # Missing, items[i] = "json" PROVE r.is = "value"
      <4>1. e = Wire(i)
        BY <3>4, <3>6
      <4> QED
        BY <3>2, <3>6, <4>1, IntactReadsBack
    <3> QED
      BY <3>1, <3>3, <3>4, <3>5, <3>6
  <2> QED
    BY <2>1, <2>2
<1>9. BatchTypes'
  BY <1>3, <1>6, <1>7 DEF BatchInv, BatchTypes
<1>10. WorkShared'
  <2>1. ~(phase \in {"stored", "over"}) /\ Workers' = Workers
    BY <1>3 DEF Running, Workers
  <2>2. \A v \in Index : taken'[v] # 0 => v \in Workers /\ taken'[v] < cursor /\ taken'[v] \in Index
    BY <1>6 DEF BatchInv, WorkShared
  <2>3. \A v, x \in Index : v # x /\ taken'[v] # 0 => taken'[v] # taken'[x]
    BY <1>6 DEF BatchInv, WorkShared
  <2>4. \A j \in Index : j < cursor => results'[j].is # "hole" \/ \E v \in Index : taken'[v] = j
    <3> SUFFICES ASSUME NEW j \in Index, j < cursor, j # i, results[j].is = "hole"
                 PROVE  \E v \in Index : taken'[v] = j
      BY <1>7, <1>8
    <3>1. PICK v \in Index : taken[v] = j
      BY DEF BatchInv, WorkShared
    <3> QED
      BY <1>2, <1>6, <3>1
  <2> QED
    BY <1>3, <2>1, <2>2, <2>3, <2>4 DEF WorkShared
<1>11. EntriesTrue'
  BY <1>3, <1>7, <1>8 DEF BatchInv, EntriesTrue, Running
<1> QED
  BY <1>9, <1>10, <1>11 DEF BatchInv

\* The batch ends when every worker has, or at the first error.
LEMMA BatchEndsKeeps == ASSUME BatchInv, BatchEnds PROVE BatchInv'
<1>1. /\ Running /\ \A w \in Workers : taken[w] = 0 /\ cursor > BatchLength
      /\ phase' = IF phase = "compress" THEN "stored" ELSE "over"
      /\ UNCHANGED <<items, streams, workers, cursor, taken, results, damaged>>
  BY DEF BatchEnds
<1>2. CASE phase = "compress"
  <2>1. /\ phase' = "stored"
        /\ encoded' = [i \in Index |-> IF results[i].is = "value" THEN Wire(results[i].item) ELSE Missing]
    BY <1>1, <1>2 DEF BatchEnds
  <2>2. ASSUME NEW i \in Index
        PROVE  /\ encoded'[i] \in {Missing, Wire(i)}
               /\ encoded'[i] # Missing => items[i] \in {"json", "undefined"}
    BY <2>1 DEF BatchInv, EntriesTrue
  <2>3. encoded' \in [Index -> Payload \cup {Missing}]
    <3>1. \A i \in Index : encoded'[i] \in Payload \cup {Missing}
      BY <2>2, PayloadFormats
    <3> QED
      BY <2>1, <3>1
  <2>4. EntriesTrue'
    BY <1>1, <2>1, <2>2, PayloadFormats DEF BatchInv, EntriesTrue
  <2> QED
    <3>1. BatchTypes'
      BY <1>1, <2>1, <2>3 DEF BatchInv, BatchTypes
    <3>2. /\ \A w \in Index : taken[w] = 0
          /\ workers > 0 => \A i \in Index : results[i].is # "hole"
      <4>1. \A w \in Index : taken[w] = 0
        BY <1>1 DEF BatchInv, WorkShared
      <4>2. ASSUME workers > 0, NEW i \in Index PROVE results[i].is # "hole"
        <5>1. 1 \in Workers
          BY <4>2, BatchAssumption, SMT DEF Workers, Min2, BatchInv, BatchTypes
        <5>2. cursor > BatchLength /\ cursor \in Nat
          BY <1>1, <5>1 DEF BatchInv, BatchTypes
        <5>3. i < cursor /\ i # 0
          BY <5>2, BatchAssumption, SMT DEF Index
        <5> QED
          BY <4>1, <5>3 DEF BatchInv, WorkShared
      <4> QED
        BY <4>1, <4>2
    <3>3. WorkShared'
      BY <1>1, <3>2 DEF BatchInv, WorkShared, Workers
    <3> QED
      BY <2>4, <3>1, <3>3 DEF BatchInv
<1>3. CASE phase = "decompress"
  <2>1. phase' = "over" /\ encoded' = encoded
    BY <1>1, <1>3 DEF BatchEnds
  <2>2. BatchTypes' /\ EntriesTrue'
    BY <1>1, <1>3, <2>1 DEF BatchInv, BatchTypes, EntriesTrue
  <2>3. /\ \A w \in Index : taken[w] = 0
        /\ workers > 0 => \A i \in Index : results[i].is # "hole"
    <3>1. \A w \in Index : taken[w] = 0
      BY <1>1 DEF BatchInv, WorkShared
    <3>2. ASSUME workers > 0, NEW i \in Index PROVE results[i].is # "hole"
      <4>1. 1 \in Workers
        BY <3>2, BatchAssumption, SMT DEF Workers, Min2, BatchInv, BatchTypes
      <4>2. cursor > BatchLength /\ cursor \in Nat
        BY <1>1, <4>1 DEF BatchInv, BatchTypes
      <4>3. i < cursor /\ i # 0
        BY <4>2, BatchAssumption, SMT DEF Index
      <4> QED
        BY <3>1, <4>3 DEF BatchInv, WorkShared
    <3> QED
      BY <3>1, <3>2
  <2>4. WorkShared'
    BY <1>1, <2>1, <2>3 DEF BatchInv, WorkShared, Workers
  <2> QED
    BY <2>2, <2>4 DEF BatchInv
<1> QED
  BY <1>1, <1>2, <1>3 DEF Running

\* An entry is damaged, cut off or lost on its way.
LEMMA DamageKeeps ==
  ASSUME BatchInv, NEW i \in Index, Damage(i)
  PROVE  BatchInv'
<1>1. /\ phase = "stored" /\ damaged \in Nat /\ damaged + 1 \in Nat /\ damaged + 1 # 0
      /\ encoded \in [Index -> Payload \cup {Missing}]
  BY SMT DEF Damage, BatchInv, BatchTypes
<1>2. /\ damaged' = damaged + 1 /\ encoded[i].format = "wire"
      /\ UNCHANGED <<items, phase, streams, workers, cursor, taken, results>>
  BY DEF Damage
<1>3. encoded[i] \in Payload /\ encoded[i] # Missing
  BY <1>1, <1>2, PayloadFormats
<1>4. PICK e : /\ encoded' = [encoded EXCEPT ![i] = e] /\ e \in Payload
               /\ e.item = encoded[i].item
               /\ e.format = "legacy" => items[i] = "json"
  <2>1. PICK e : /\ encoded' = [encoded EXCEPT ![i] = e]
                 /\ \/ e = [encoded[i] EXCEPT !.format = "garbled"]
                    \/ e = [encoded[i] EXCEPT !.version = "other"]
                    \/ e = [encoded[i] EXCEPT !.checksum = "wrong"]
                    \/ e = [encoded[i] EXCEPT !.body = "wrong"]
                    \/ items[i] = "json" /\ e = [encoded[i] EXCEPT !.format = "legacy"]
    BY DEF Damage
  <2>2. e \in Payload /\ e.item = encoded[i].item
    BY <1>3, <2>1 DEF Payload
  <2>3. e.format = "legacy" => items[i] = "json"
    BY <1>2, <1>3, <2>1 DEF Payload
  <2> QED
    BY <2>1, <2>2, <2>3
<1>5. /\ encoded' \in [Index -> Payload \cup {Missing}] /\ encoded'[i] = e
      /\ \A j \in Index : j # i => encoded'[j] = encoded[j]
  BY <1>1, <1>4
<1>6. BatchTypes'
  BY <1>1, <1>2, <1>5 DEF BatchInv, BatchTypes
<1>7. WorkShared'
  BY <1>2 DEF BatchInv, WorkShared, Workers
<1>8. EntriesTrue'
  <2>1. encoded[i].item = i /\ items[i] \in {"json", "undefined"}
    BY <1>3 DEF BatchInv, EntriesTrue
  <2>2. \A j \in Index :
           /\ encoded'[j] # Missing => encoded'[j].item = j /\ items[j] \in {"json", "undefined"}
           /\ encoded'[j] # Missing /\ encoded'[j].format = "legacy" => items[j] = "json"
    <3>1. /\ e.item = i
          /\ e.format = "legacy" => items[i] = "json"
          /\ encoded'[i].item = i /\ encoded'[i].format = e.format
      BY <1>4, <1>5, <2>1
    <3>2. ASSUME NEW j \in Index, j # i
          PROVE  /\ encoded'[j] # Missing => encoded'[j].item = j /\ items[j] \in {"json", "undefined"}
                 /\ encoded'[j] # Missing /\ encoded'[j].format = "legacy" => items[j] = "json"
      BY <1>5, <3>2 DEF BatchInv, EntriesTrue
    <3> QED
      BY <2>1, <3>1, <3>2
  <2>3. /\ damaged' # 0 /\ ~(phase' \in {"decompress", "over"})
        /\ \A j \in Index : results[j].is = "value" =>
               results[j].item = j /\ items[j] \in {"json", "undefined"}
    BY <1>1, <1>2 DEF BatchInv, EntriesTrue
  <2> QED
    BY <1>2, <2>2, <2>3 DEF EntriesTrue
<1> QED
  BY <1>6, <1>7, <1>8 DEF BatchInv

\* Entries are read back.
LEMMA ReadBackKeeps == ASSUME BatchInv, ReadBack PROVE BatchInv'
<1>1. /\ phase = "stored" /\ phase' = "decompress" /\ workers' \in Nat /\ cursor' = 1
      /\ results' = [i \in Index |-> Hole]
      /\ UNCHANGED <<items, taken, encoded, damaged>>
  BY BatchAssumption, SMT DEF ReadBack
<1>2. Hole.is = "hole"
  BY DEF Hole
<1>3. \A i \in Index : ~(i < 1)
  BY SMT DEF Index
<1>4. BatchTypes'
  BY <1>1, SMT DEF BatchInv, BatchTypes
<1>5. WorkShared'
  BY <1>1, <1>3 DEF BatchInv, WorkShared
<1>6. EntriesTrue'
  BY <1>1, <1>2 DEF BatchInv, EntriesTrue
<1> QED
  BY <1>4, <1>5, <1>6 DEF BatchInv

\* The invariant of the batches.
LEMMA BatchInvariance == BatchSpec => []BatchInv
<1>1. BatchesInit => BatchInv
  <2> SUFFICES ASSUME BatchesInit PROVE BatchInv
    OBVIOUS
  <2>1. /\ items \in [Index -> ItemKind] /\ phase = "compress" /\ workers \in Nat /\ cursor = 1
        /\ taken = [w \in Index |-> 0] /\ results = [i \in Index |-> Hole]
        /\ encoded = [i \in Index |-> Missing] /\ damaged = 0
    BY BatchAssumption, SMT DEF BatchesInit
  <2>2. Hole.is = "hole" /\ \A i \in Index : ~(i < 1)
    BY SMT DEF Hole, Index
  <2>3. BatchTypes
    BY <2>1, SMT DEF BatchTypes
  <2>4. WorkShared /\ EntriesTrue
    BY <2>1, <2>2 DEF WorkShared, EntriesTrue
  <2> QED
    BY <2>3, <2>4 DEF BatchInv
<1>2. BatchInv /\ UNCHANGED batchVars => BatchInv'
  BY DEF batchVars, BatchInv, BatchTypes, WorkShared, EntriesTrue, Workers
<1>3. BatchInv /\ BatchesNext => BatchInv'
  BY TakeKeeps, DoneKeeps, BatchEndsKeeps, ReadBackKeeps, DamageKeeps DEF BatchesNext
<1> QED
  BY <1>1, <1>2, <1>3, PTL DEF BatchSpec

\* For any number of items and workers, in whatever order the workers end and whatever
\* fails, an entry is about its item, what reads back is what was compressed or an
\* error, and a batch that is over has an entry for every item: compression.ts shares
\* one index among concurrent workers and stores in several formats.
THEOREM PayloadsAlwaysSurvive == BatchSpec => []PayloadsSurvive
<1>1. BatchInv => PayloadsSurvive
  <2> SUFFICES ASSUME BatchInv PROVE PayloadsSurvive
    OBVIOUS
  <2>1. Hole.is = "hole"
    BY DEF Hole
  <2> QED
    BY <2>1 DEF BatchInv, WorkShared, EntriesTrue, PayloadsSurvive
<1> QED
  BY <1>1, BatchInvariance, PTL
=============================================================================
