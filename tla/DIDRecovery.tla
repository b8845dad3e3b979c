----------------------------- MODULE DIDRecovery -----------------------------
(***************************************************************************)
(* The DIDRecovery contract (src/src/did_recovery.rs): a DID holder sets   *)
(* up a recovery method, a request to hand the DID to a new controller is  *)
(* opened, approved by guardians or held by a time lock, then executed or  *)
(* cancelled.                                                              *)
(*                                                                         *)
(* A contract call is one transaction: an action is a call that returns    *)
(* Ok, and a call that returns Err or traps is rolled back by the Soroban  *)
(* host, so it is a stuttering step.  Any number of calls share a ledger;  *)
(* Tick closes the ledger and advances timestamp and sequence together.    *)
(* A request id is "rec:<timestamp>:<sequence>", hence a function of the   *)
(* ledger alone, and the model uses the ledger time itself as the id.      *)
(*                                                                         *)
(* require_auth only checks that the address passed as caller has signed;  *)
(* the contract compares it with nothing unless a guard below says so: the *)
(* comments that name a controller (159, 237, 349, 600) are not enforced,  *)
(* and nothing here is claimed about who configures, opens or cancels.     *)
(* Guardian weights, notes, cancelled_by and the created/updated times     *)
(* are stored but never read by an operation, and are left out.            *)
(*                                                                         *)
(* An operator F_Fault is a faulty variant of F that no action uses: with  *)
(* it in place of F the property named beside it must fail.                *)
(***************************************************************************)
EXTENDS Integers, FiniteSets

CONSTANTS
    Did,        \* decentralized identifiers
    Address,    \* account addresses: guardians, services, new controllers
    None,       \* Option::None, and a storage key that is not present
    Thresholds, \* guardian thresholds a caller may pass
    Locks,      \* time-lock durations a caller may pass
    MaxTime,    \* bound: the last ledger the model closes
    U32Max,     \* the largest u32; an addition beyond it traps
    U64Max      \* the largest u64; an addition beyond it traps

ASSUME BoundsAssumption == MaxTime \in Nat /\ U32Max \in Nat /\ U64Max \in Nat
ASSUME InputAssumption == Thresholds \subseteq 0 .. U32Max /\ Locks \subseteq 0 .. U64Max
ASSUME AddressAssumption == IsFiniteSet(Address)
ASSUME NoneAssumption == None \notin Address /\ None \notin Nat

VARIABLES
    now,            \* ledger timestamp (and sequence)
    config,         \* RecoveryKey::RecoveryConfig(did)
    guardian,       \* RecoveryKey::Guardian(did, address)
    request,        \* RecoveryKey::RecoveryRequest(id)
    didRequests,    \* RecoveryKey::DidRequests(did), as the set of its ids
    recoveryIndex,  \* RecoveryKey::RecoveryIndex, as the set of its ids
    leastAsked      \* history: the lowest threshold in force while a request was pending

vars == <<now, config, guardian, request, didRequests, recoveryIndex, leastAsked>>

Id     == 0 .. MaxTime
U32    == 0 .. U32Max
U64    == 0 .. U64Max
Method == {"SocialRecovery", "TimeLockedRecovery", "TrustedThirdParty"}
\* RecoveryRequestStatus; no operation ever writes Expired.
Status == {"Pending", "Approved", "Executed", "Cancelled", "Expired"}

RecoveryConfig ==
    [method : Method, threshold : U32, total : U32, lock : U64,
     ttp : Address \cup {None}, active : BOOLEAN, count : U32]

RecoveryRequest ==
    [did : Did, newController : Address, method : Method, status : Status,
     approvals : SUBSET Address, expiresAt : U64 \cup {None},
     completedAt : Id \cup {None}]

ASSUME RecordAssumption == None \notin RecoveryConfig /\ None \notin RecoveryRequest

TypeOK ==
    /\ now \in Id
    /\ config \in [Did -> RecoveryConfig \cup {None}]
    /\ guardian \in [Did -> [Address -> {"absent", "active", "inactive"}]]
    /\ request \in [Id -> RecoveryRequest \cup {None}]
    /\ didRequests \in [Did -> SUBSET Id]
    /\ recoveryIndex \subseteq Id
    /\ leastAsked \in [Id -> U32]

Init ==
    /\ now = 0
    /\ config = [d \in Did |-> None]
    /\ guardian = [d \in Did |-> [a \in Address |-> "absent"]]
    /\ request = [r \in Id |-> None]
    /\ didRequests = [d \in Did |-> {}]
    /\ recoveryIndex = {}
    /\ leastAsked = [r \in Id |-> 0]

-----------------------------------------------------------------------------
(* Reads of the stored records. *)

ActiveGuardians(d) == {a \in Address : guardian[d][a] = "active"}
Stored(r)  == request[r] # None
Open(r)    == Stored(r) /\ request[r].status \in {"Pending", "Approved"}
Pending(r) == Stored(r) /\ request[r].status = "Pending"

\* The status check of execute_recovery.
Resolvable(r) == Open(r)

\* The status check of cancel_recovery.
Cancellable(r) == Stored(r) /\ request[r].status \notin {"Executed", "Cancelled"}

-----------------------------------------------------------------------------
(* The ledger closes. *)
Tick ==
    /\ now < MaxTime
    /\ now' = now + 1
    /\ UNCHANGED <<config, guardian, request, didRequests, recoveryIndex, leastAsked>>

ValidConfiguration(m, t, l, ttp) ==
    \/ m = "SocialRecovery" /\ t # 0
    \/ m = "TimeLockedRecovery" /\ l # 0
    \/ m = "TrustedThirdParty" /\ ttp # None

ConfigureRecovery(d, m, t, l, ttp) ==
    /\ config[d] = None
    /\ ValidConfiguration(m, t, l, ttp)
    /\ config' = [config EXCEPT ![d] =
          [method |-> m, threshold |-> t, total |-> 0, lock |-> l,
           ttp |-> ttp, active |-> TRUE, count |-> 0]]
    /\ UNCHANGED <<now, guardian, request, didRequests, recoveryIndex, leastAsked>>

\* A removed guardian keeps its (inactive) record, so it is never added again.
CanAddGuardian(d, g) == guardian[d][g] = "absent"

AddGuardian(d, g) ==
    /\ config[d] # None
    /\ config[d].method = "SocialRecovery"
    /\ config[d].active
    /\ CanAddGuardian(d, g)
    /\ config[d].total < U32Max
    /\ guardian' = [guardian EXCEPT ![d][g] = "active"]
    /\ config' = [config EXCEPT ![d].total = @ + 1]
    /\ UNCHANGED <<now, request, didRequests, recoveryIndex, leastAsked>>

TotalAfterRemoval(total) == IF total > 0 THEN total - 1 ELSE total

\* The record only has to exist: removing an inactive guardian counts again.
RemoveGuardian(d, g) ==
    /\ config[d] # None
    /\ guardian[d][g] # "absent"
    /\ guardian' = [guardian EXCEPT ![d][g] = "inactive"]
    /\ config' = [config EXCEPT ![d].total = TotalAfterRemoval(@)]
    /\ UNCHANGED <<now, request, didRequests, recoveryIndex, leastAsked>>

\* Fault: no duplicate check (KeepsLifecycle).
NoPendingListed_Unchecked(d) == TRUE
\* The duplicate check of initiate_recovery walks the DID's own id list.
NoPendingListed(d) == \A r \in didRequests[d] : ~Pending(r)

Enlist(ids) == ids \cup {now}

\* The expiry fixed when the request is opened.
TimeLockExpiry(d) ==
    IF config[d].method = "TimeLockedRecovery"
    THEN now + config[d].lock
    ELSE None

InitiateRecovery(d, c) ==
    /\ config[d] # None
    /\ config[d].active
    /\ NoPendingListed(d)
    /\ TimeLockExpiry(d) # None => TimeLockExpiry(d) <= U64Max
    /\ request' = [request EXCEPT ![now] =
          [did |-> d, newController |-> c, method |-> config[d].method,
           status |-> "Pending", approvals |-> {},
           expiresAt |-> TimeLockExpiry(d), completedAt |-> None]]
    /\ didRequests' = [didRequests EXCEPT ![d] = Enlist(@)]
    /\ recoveryIndex' = recoveryIndex \cup {now}
    /\ leastAsked' = [leastAsked EXCEPT ![now] = config[d].threshold]
    /\ UNCHANGED <<now, config, guardian>>

MayApprove(g, r) ==
    /\ guardian[request[r].did][g] = "active"
    /\ g \notin request[r].approvals

ApproveRecovery(g, r) ==
    /\ Pending(r)
    /\ config[request[r].did] # None
    /\ MayApprove(g, r)
    /\ LET approvals == request[r].approvals \cup {g} IN
       request' = [request EXCEPT ![r].approvals = approvals,
                                  ![r].status =
          IF Cardinality(approvals) >= config[request[r].did].threshold
          THEN "Approved" ELSE @]
    /\ UNCHANGED <<now, config, guardian, didRequests, recoveryIndex, leastAsked>>

\* Fault: the approvals are not required (RecoverySound).
EnoughApproved_Skipped(r) == TRUE
EnoughApproved(r) == request[r].status = "Approved"

\* Fault: one ledger early (RecoverySound).
LockExpired_Early(r) == request[r].expiresAt # None => now + 1 >= request[r].expiresAt
LockExpired(r) == request[r].expiresAt # None => now >= request[r].expiresAt

\* Fault: a deactivated configuration blocks execution (ExecutableResolved).
MayExecute_WhileActive(e, r) ==
    LET cfg == config[request[r].did] IN
    /\ cfg.active
    /\ \/ cfg.method = "SocialRecovery" /\ EnoughApproved(r)
       \/ cfg.method = "TimeLockedRecovery" /\ LockExpired(r)
       \/ cfg.method = "TrustedThirdParty" /\ cfg.ttp = e
\* What each method asks for, by the configuration as it is now.
MayExecute(e, r) ==
    LET cfg == config[request[r].did] IN
    \/ cfg.method = "SocialRecovery" /\ EnoughApproved(r)
    \/ cfg.method = "TimeLockedRecovery" /\ LockExpired(r)
    \/ cfg.method = "TrustedThirdParty" /\ cfg.ttp = e

ExecuteRecovery(e, r) ==
    /\ Resolvable(r)
    /\ config[request[r].did] # None
    /\ MayExecute(e, r)
    /\ config[request[r].did].count < U32Max
    /\ request' = [request EXCEPT ![r].status = "Executed",
                                  ![r].completedAt = now]
    /\ config' = [config EXCEPT ![request[r].did].count = @ + 1]
    /\ UNCHANGED <<now, guardian, didRequests, recoveryIndex, leastAsked>>

CancelRecovery(r) ==
    /\ Cancellable(r)
    /\ request' = [request EXCEPT ![r].status = "Cancelled"]
    /\ UNCHANGED <<now, config, guardian, didRequests, recoveryIndex, leastAsked>>

\* Each argument is an Option; None leaves the field as it is.
UpdateRecoveryConfig(d, t, l, ttp) ==
    /\ config[d] # None
    /\ config[d].active
    /\ t # None => t # 0 /\ t <= config[d].total
    /\ config' = [config EXCEPT
          ![d].threshold = IF t = None THEN @ ELSE t,
          ![d].lock      = IF l = None THEN @ ELSE l,
          ![d].ttp       = IF ttp = None THEN @ ELSE ttp]
    /\ leastAsked' = [r \in Id |->
          IF t # None /\ Pending(r) /\ request[r].did = d /\ t < leastAsked[r]
          THEN t ELSE leastAsked[r]]
    /\ UNCHANGED <<now, guardian, request, didRequests, recoveryIndex>>

DeactivateRecovery(d) ==
    /\ config[d] # None
    /\ config' = [config EXCEPT ![d].active = FALSE]
    /\ UNCHANGED <<now, guardian, request, didRequests, recoveryIndex, leastAsked>>

-----------------------------------------------------------------------------
\* Every call but initiate_recovery, and the close of the ledger.
OtherSteps ==
    \/ Tick
    \/ \E d \in Did, m \in Method, t \in Thresholds, l \in Locks,
          ttp \in Address \cup {None} : ConfigureRecovery(d, m, t, l, ttp)
    \/ \E d \in Did, g \in Address : AddGuardian(d, g)
    \/ \E d \in Did, g \in Address : RemoveGuardian(d, g)
    \/ \E g \in Address, r \in Id : ApproveRecovery(g, r)
    \/ \E e \in Address, r \in Id : ExecuteRecovery(e, r)
    \/ \E r \in Id : CancelRecovery(r)
    \/ \E d \in Did, t \in Thresholds \cup {None}, l \in Locks \cup {None},
          ttp \in Address \cup {None} : UpdateRecoveryConfig(d, t, l, ttp)
    \/ \E d \in Did : DeactivateRecovery(d)

Next ==
    \/ \E d \in Did, c \in Address : InitiateRecovery(d, c)
    \/ OtherSteps

Spec == Init /\ [][Next]_vars

\* The same contract under callers that open at most one request per ledger,
\* so that the ledger-derived request ids are never used twice.
NextSpaced ==
    \/ \E d \in Did, c \in Address : ~Stored(now) /\ InitiateRecovery(d, c)
    \/ OtherSteps

SpecSpaced == Init /\ [][NextSpaced]_vars

\* Ledgers keep closing, and someone keeps calling execute_recovery on every
\* request until the contract lets it through.
SpecFair ==
    /\ SpecSpaced
    /\ WF_vars(Tick)
    /\ \A r \in Id : WF_vars(\E e \in Address : ExecuteRecovery(e, r))

-----------------------------------------------------------------------------
(* Safety under any calls. *)

\* initiate_recovery refuses a second pending request for a DID by walking the
\* DID's id list: at most one request naming a DID is ever pending, even when
\* ids collide and the lists of two DIDs share an id.
AtMostOnePending ==
    \A r, s \in Id :
        Pending(r) /\ Pending(s) /\ request[r].did = request[s].did => r = s

\* The guard above is only as good as the list it walks: every stored request is
\* on the list of the DID it names and in the global index.
RequestsIndexed ==
    \A r \in Id : Stored(r) => r \in didRequests[request[r].did] \cap recoveryIndex

\* Everyone in a request's approvals holds a guardian record of that request's
\* own DID, also after removals and after the id is reused for another DID.
ApproversAreGuardians ==
    \A r \in Id : Stored(r) =>
        \A a \in request[r].approvals : guardian[request[r].did][a] # "absent"

\* A social recovery is approved, and completes, with at least one guardian behind it,
\* and no fewer than the lowest threshold in force while it was pending.  The threshold
\* when it executes may be higher: raising it takes nothing back, and approvals
\* outlive the removal of those who gave them.
SocialHandoverApproved ==
    \A r \in Id :
        Stored(r) /\ request[r].method = "SocialRecovery"
        /\ request[r].status \in {"Approved", "Executed"}
            => leastAsked[r] >= 1 /\ Cardinality(request[r].approvals) >= leastAsked[r]

\* A time-locked recovery never completes before the expiry fixed when it was
\* opened, although update_recovery_config may shorten the lock meanwhile.
TimeLockRespected ==
    \A r \in Id :
        Stored(r) /\ request[r].status = "Executed" /\ request[r].expiresAt # None
            => request[r].completedAt >= request[r].expiresAt

\* Whatever changes between opening and execution: a handover has the guardians of its
\* own DID behind it, as many as were asked for, or its time lock has run out.
HandoverJustified ==
    ApproversAreGuardians /\ SocialHandoverApproved /\ TimeLockRespected

\* total_guardians never exceeds the number of active guardians, although a guardian can
\* be removed twice.
GuardianCountBounded ==
    \A d \in Did : config[d] # None =>
        config[d].total <= Cardinality(ActiveGuardians(d))

\* The active guardians of d can meet its threshold.
Reachable(d) == config[d].threshold <= Cardinality(ActiveGuardians(d))

\* configure_recovery takes any threshold before there is a guardian, so a threshold may
\* be out of reach from the start.  Once the active guardians can meet it, only the
\* removal of one of them puts it out of reach again: no reconfiguration does,
\* since what update_recovery_config compares with never runs ahead of the guardians.
ReachKept ==
    \A d \in Did : config[d] # None /\ Reachable(d) =>
        Reachable(d)' \/ (\E g \in ActiveGuardians(d) : g \notin ActiveGuardians(d)')

\* Handovers have the approvals or the time behind them that were asked for, and the
\* threshold of a DID stays within the reach of its guardians until one is removed.
RecoverySound ==
    /\ [](HandoverJustified /\ GuardianCountBounded)
    /\ [][ReachKept]_vars

\* A request is judged by the configuration as it is when the call comes, not as
\* it was when the request was opened: the two always agree on the method, the
\* configuration is never gone, and exactly the time-locked requests carry an
\* expiry (and no request is ever Expired).
TermsMatchConfig ==
    \A r \in Id : Stored(r) =>
        /\ config[request[r].did] # None
        /\ request[r].method = config[request[r].did].method
        /\ request[r].expiresAt # None <=> request[r].method = "TimeLockedRecovery"
        /\ request[r].status # "Expired"

\* Why approvals mean something: the threshold a pending request is judged by is never
\* below the lowest one recorded for it, and no social recovery has the threshold zero.
ThresholdsHeld ==
    /\ \A r \in Id : Pending(r) =>
          /\ leastAsked[r] <= config[request[r].did].threshold
          /\ request[r].method = "SocialRecovery" => leastAsked[r] >= 1
    /\ \A d \in Did : config[d] # None /\ config[d].method = "SocialRecovery"
          => config[d].threshold >= 1

\* The requests' share of the inductive invariant, and all of it.
RequestInv ==
    /\ TermsMatchConfig
    /\ RequestsIndexed
    /\ AtMostOnePending
    /\ ApproversAreGuardians
    /\ ThresholdsHeld
    /\ SocialHandoverApproved
    /\ TimeLockRespected

IInv == TypeOK /\ RequestInv /\ GuardianCountBounded

-----------------------------------------------------------------------------
(* Safety under spaced calls. *)

\* get_did_recovery_requests returns "all recovery requests for a DID": each id
\* on the list of a DID is a stored request of that DID.
RequestListExact ==
    \A d \in Did : \A r \in didRequests[d] : Stored(r) /\ request[r].did = d

\* recovery_count is the number of executed requests of the DID: none is lost
\* and none is executed twice.
HandoversCounted ==
    \A d \in Did : config[d] # None =>
        config[d].count =
            Cardinality({r \in Id : Stored(r) /\ request[r].did = d
                                    /\ request[r].status = "Executed"})

\* The terms under which guardians approve do not move: while a request is
\* stored, its DID, new controller, method and lock expiry stay, and once it is
\* executed or cancelled nothing about it changes.
TermsFixed ==
    [][\A r \in Id : Stored(r) =>
          /\ request'[r].did = request[r].did
          /\ request'[r].newController = request[r].newController
          /\ request'[r].method = request[r].method
          /\ request'[r].expiresAt = request[r].expiresAt
          /\ request[r].approvals \subseteq request'[r].approvals
          /\ ~Open(r) => request'[r] = request[r]]_vars

PhaseOf(status) ==
    CASE status = "Pending"   -> "pending"
      [] status = "Approved"  -> "consented"
      [] status = "Executed"  -> "done"
      [] status = "Cancelled" -> "withdrawn"
      [] status = "Expired"   -> "lapsed"

AskedOf(r) == IF Stored(r) THEN request[r].did ELSE None
PhaseAt(r) == IF Stored(r) THEN PhaseOf(request[r].status) ELSE "new"
CountOf(d) == IF config[d] = None THEN 0 ELSE config[d].count

Lifecycle == INSTANCE RecoveryLifecycle WITH
    asked     <- [r \in Id |-> AskedOf(r)],
    phase     <- [r \in Id |-> PhaseAt(r)],
    byConsent <- {r \in Id : Stored(r) /\ request[r].method = "SocialRecovery"},
    handovers <- [d \in Did |-> CountOf(d)]

\* The contract implements RecoveryLifecycle: whatever is configured, reconfigured,
\* deactivated, added and removed around it, a request lives the life promised there.
KeepsLifecycle == Lifecycle!Spec

-----------------------------------------------------------------------------
(* Liveness. *)

\* The guards of execute_recovery that no later call can make false again.
Executable(r) ==
    /\ Open(r)
    /\ \/ request[r].method = "SocialRecovery" /\ request[r].status = "Approved"
       \/ request[r].method = "TimeLockedRecovery" /\ request[r].expiresAt <= MaxTime
       \/ request[r].method = "TrustedThirdParty"

\* A recovery that has its approvals, its service or a lock that runs out is
\* resolved, whatever configuration changes, removals and deactivations happen:
\* none of them can block it for good.
ExecutableResolved == \A r \in Id : Executable(r) ~> ~Open(r)
=============================================================================
