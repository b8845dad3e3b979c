--------------------------- MODULE DIDRecoveryProofs ---------------------------
(***************************************************************************)
(* Proofs about DIDRecovery, for every set of identifiers, addresses,      *)
(* thresholds and locks and every bound.                                   *)
(***************************************************************************)
EXTENDS DIDRecovery, FiniteSetTheorems, TLAPS

-----------------------------------------------------------------------------
(* What a stored record is, and what the helpers return. *)

\* A present configuration or request is a record of its type.
LEMMA PresentRecords ==
    ASSUME TypeOK
    PROVE  /\ \A d \in Did : config[d] # None => config[d] \in RecoveryConfig
           /\ \A r \in Id : Stored(r) => request[r] \in RecoveryRequest
  BY DEF TypeOK, Stored

\* The expiry of a new request fits a u64 when the addition does not trap.
LEMMA ExpiryType ==
    ASSUME TypeOK, NEW d \in Did, config[d] # None,
           TimeLockExpiry(d) # None => TimeLockExpiry(d) <= U64Max
    PROVE  TimeLockExpiry(d) \in U64 \cup {None}
  <1>1. config[d].lock \in U64 /\ now \in Id
    BY PresentRecords DEF TypeOK, RecoveryConfig
  <1>2. now + config[d].lock \in Nat
    BY <1>1, BoundsAssumption DEF U64, Id
  <1>3. CASE config[d].method = "TimeLockedRecovery"
    <2>1. TimeLockExpiry(d) = now + config[d].lock
      BY <1>3 DEF TimeLockExpiry
    <2>2. TimeLockExpiry(d) # None
      BY <2>1, <1>2, NoneAssumption
    <2>. QED BY <2>1, <2>2, <1>2, BoundsAssumption DEF U64
  <1>4. CASE config[d].method # "TimeLockedRecovery"
    BY <1>4 DEF TimeLockExpiry
  <1>. QED BY <1>3, <1>4

-----------------------------------------------------------------------------
(* Steps that rewrite one configuration. *)

\* The configuration of d is rewritten: its method stays, its guardian count is n.
Reconfigured(d, n) ==
    /\ config[d] # None
    /\ \E c \in RecoveryConfig :
          c.method = config[d].method /\ c.total = n /\ config' = [config EXCEPT ![d] = c]

\* Such a step keeps the type, every configuration and every method.
LEMMA ReconfiguredFrame ==
    ASSUME TypeOK, NEW d \in Did, NEW n, Reconfigured(d, n)
    PROVE  /\ config' \in [Did -> RecoveryConfig \cup {None}]
           /\ config'[d].total = n
           /\ \A e \in Did \ {d} : config'[e] = config[e]
           /\ \A e \in Did : config[e] # None =>
                  config'[e] # None /\ config'[e].method = config[e].method
           /\ \A e \in Did : config[e] = None => config'[e] = None
  <1>1. PICK c \in RecoveryConfig :
            c.method = config[d].method /\ c.total = n /\ config' = [config EXCEPT ![d] = c]
    BY DEF Reconfigured
  <1>2. config'[d] = c /\ \A e \in Did \ {d} : config'[e] = config[e]
    BY <1>1 DEF TypeOK
  <1>. QED BY <1>1, <1>2, RecordAssumption DEF TypeOK, Reconfigured

LEMMA AddReconfigures ==
    ASSUME TypeOK, NEW d \in Did, NEW g \in Address, AddGuardian(d, g)
    PROVE  Reconfigured(d, config[d].total + 1)
  <1>1. config[d] \in RecoveryConfig
    BY PresentRecords DEF AddGuardian
  <1>2. config[d].total + 1 \in U32
    BY <1>1, BoundsAssumption DEF AddGuardian, RecoveryConfig, U32
  <1>3. [config[d] EXCEPT !.total = config[d].total + 1] \in RecoveryConfig
    BY <1>1, <1>2 DEF RecoveryConfig
  <1>. QED BY <1>1, <1>3 DEF AddGuardian, Reconfigured, RecoveryConfig

LEMMA RemoveReconfigures ==
    ASSUME TypeOK, NEW d \in Did, NEW g \in Address, RemoveGuardian(d, g)
    PROVE  Reconfigured(d, TotalAfterRemoval(config[d].total))
  <1>1. config[d] \in RecoveryConfig
    BY PresentRecords DEF RemoveGuardian
  <1>2. TotalAfterRemoval(config[d].total) \in U32
    BY <1>1, BoundsAssumption DEF TotalAfterRemoval, RecoveryConfig, U32
  <1>3. [config[d] EXCEPT !.total = TotalAfterRemoval(config[d].total)] \in RecoveryConfig
    BY <1>1, <1>2 DEF RecoveryConfig
  <1>. QED BY <1>1, <1>3 DEF RemoveGuardian, Reconfigured, RecoveryConfig

LEMMA ExecuteReconfigures ==
    ASSUME TypeOK, NEW e \in Address, NEW r \in Id, ExecuteRecovery(e, r)
    PROVE  /\ request[r].did \in Did
           /\ Reconfigured(request[r].did, config[request[r].did].total)
  <1>. DEFINE d == request[r].did
  <1>1. d \in Did
    BY PresentRecords DEF ExecuteRecovery, Resolvable, Open, RecoveryRequest
  <1>2. config[d] \in RecoveryConfig
    BY <1>1, PresentRecords DEF ExecuteRecovery
  <1>3. config[d].count + 1 \in U32
    BY <1>2, BoundsAssumption DEF ExecuteRecovery, RecoveryConfig, U32
  <1>4. [config[d] EXCEPT !.count = config[d].count + 1] \in RecoveryConfig
    BY <1>2, <1>3 DEF RecoveryConfig
  <1>. QED BY <1>1, <1>2, <1>4 DEF ExecuteRecovery, Reconfigured, RecoveryConfig

LEMMA UpdateReconfigures ==
    ASSUME TypeOK, NEW d \in Did, NEW t \in Thresholds \cup {None},
           NEW l \in Locks \cup {None}, NEW ttp \in Address \cup {None},
           UpdateRecoveryConfig(d, t, l, ttp)
    PROVE  Reconfigured(d, config[d].total)
  <1>. DEFINE c == [config[d] EXCEPT !.threshold = IF t = None THEN @ ELSE t,
                                     !.lock      = IF l = None THEN @ ELSE l,
                                     !.ttp       = IF ttp = None THEN @ ELSE ttp]
  <1>1. config[d] \in RecoveryConfig
    BY PresentRecords DEF UpdateRecoveryConfig
  <1>2. (IF t = None THEN config[d].threshold ELSE t) \in U32
    BY <1>1, InputAssumption DEF RecoveryConfig, U32
  <1>3. (IF l = None THEN config[d].lock ELSE l) \in U64
    BY <1>1, InputAssumption DEF RecoveryConfig, U64
  <1>4. c \in RecoveryConfig
    BY <1>1, <1>2, <1>3 DEF RecoveryConfig
  <1>5. c.method = config[d].method /\ c.total = config[d].total
    BY <1>1 DEF RecoveryConfig
  <1>6. config' = [config EXCEPT ![d] = c]
    BY <1>1 DEF UpdateRecoveryConfig, RecoveryConfig, TypeOK
  <1>7. config[d] # None
    BY DEF UpdateRecoveryConfig
  <1>. QED BY <1>4, <1>5, <1>6, <1>7 DEF Reconfigured

LEMMA DeactivateReconfigures ==
    ASSUME TypeOK, NEW d \in Did, DeactivateRecovery(d)
    PROVE  Reconfigured(d, config[d].total)
  <1>1. config[d] \in RecoveryConfig
    BY PresentRecords DEF DeactivateRecovery
  <1>2. [config[d] EXCEPT !.active = FALSE] \in RecoveryConfig
    BY <1>1 DEF RecoveryConfig
  <1>. QED BY <1>1, <1>2 DEF DeactivateRecovery, Reconfigured, RecoveryConfig

-----------------------------------------------------------------------------
(* Type correctness, action by action. *)

LEMMA ConfigureType ==
    ASSUME TypeOK, NEW d \in Did, NEW m \in Method, NEW t \in Thresholds,
           NEW l \in Locks, NEW ttp \in Address \cup {None},
           ConfigureRecovery(d, m, t, l, ttp)
    PROVE  TypeOK'
  <1>1. [method |-> m, threshold |-> t, total |-> 0, lock |-> l,
         ttp |-> ttp, active |-> TRUE, count |-> 0] \in RecoveryConfig
    BY InputAssumption, BoundsAssumption DEF RecoveryConfig, U32, U64
  <1>. QED BY <1>1 DEF ConfigureRecovery, TypeOK

LEMMA GuardianType ==
    ASSUME TypeOK, NEW d \in Did, NEW g \in Address,
           AddGuardian(d, g) \/ RemoveGuardian(d, g)
    PROVE  TypeOK'
  <1>1. config' \in [Did -> RecoveryConfig \cup {None}]
    BY AddReconfigures, RemoveReconfigures, ReconfiguredFrame
  <1>2. guardian' \in [Did -> [Address -> {"absent", "active", "inactive"}]]
    <2>1. PICK v \in {"active", "inactive"} : guardian' = [guardian EXCEPT ![d][g] = v]
      BY DEF AddGuardian, RemoveGuardian
    <2>. QED BY <2>1 DEF TypeOK
  <1>. QED BY <1>1, <1>2 DEF TypeOK, AddGuardian, RemoveGuardian

LEMMA InitiateType ==
    ASSUME TypeOK, NEW d \in Did, NEW c \in Address, InitiateRecovery(d, c)
    PROVE  TypeOK'
  <1>1. TimeLockExpiry(d) \in U64 \cup {None}
    BY ExpiryType DEF InitiateRecovery
  <1>2. config[d].method \in Method
    BY PresentRecords DEF InitiateRecovery, RecoveryConfig
  <1>3. [did |-> d, newController |-> c, method |-> config[d].method,
         status |-> "Pending", approvals |-> {},
         expiresAt |-> TimeLockExpiry(d), completedAt |-> None] \in RecoveryRequest
    BY <1>1, <1>2 DEF RecoveryRequest, Status
  <1>4. config[d].threshold \in U32
    BY PresentRecords DEF InitiateRecovery, RecoveryConfig
  <1>5. leastAsked' \in [Id -> U32]
    BY <1>4 DEF InitiateRecovery, TypeOK
  <1>. QED BY <1>3, <1>5 DEF InitiateRecovery, TypeOK, Enlist

LEMMA ApproveType ==
    ASSUME TypeOK, NEW g \in Address, NEW r \in Id, ApproveRecovery(g, r)
    PROVE  TypeOK'
  <1>1. request[r] \in RecoveryRequest
    BY PresentRecords DEF ApproveRecovery, Pending
  <1>2. PICK as \in SUBSET Address, st \in Status :
            request' = [request EXCEPT ![r].approvals = as, ![r].status = st]
    <2>1. request[r].approvals \cup {g} \in SUBSET Address
      BY <1>1 DEF RecoveryRequest
    <2>2. request[r].status \in Status /\ "Approved" \in Status
      BY <1>1 DEF RecoveryRequest, Status
    <2>. QED BY <2>1, <2>2 DEF ApproveRecovery
  <1>3. request' \in [Id -> RecoveryRequest \cup {None}]
    BY <1>1, <1>2 DEF TypeOK, RecoveryRequest
  <1>. QED BY <1>3 DEF TypeOK, ApproveRecovery

LEMMA ExecuteType ==
    ASSUME TypeOK, NEW e \in Address, NEW r \in Id, ExecuteRecovery(e, r)
    PROVE  TypeOK'
  <1>1. request[r] \in RecoveryRequest
    BY PresentRecords DEF ExecuteRecovery, Resolvable, Open
  <1>2. config' \in [Did -> RecoveryConfig \cup {None}]
    BY ExecuteReconfigures, ReconfiguredFrame
  <1>3. request' \in [Id -> RecoveryRequest \cup {None}]
    BY <1>1 DEF ExecuteRecovery, TypeOK, RecoveryRequest, Status
  <1>. QED BY <1>2, <1>3 DEF TypeOK, ExecuteRecovery

LEMMA CancelType ==
    ASSUME TypeOK, NEW r \in Id, CancelRecovery(r)
    PROVE  TypeOK'
  <1>1. request[r] \in RecoveryRequest
    BY PresentRecords DEF CancelRecovery, Cancellable
  <1>2. request' \in [Id -> RecoveryRequest \cup {None}]
    BY <1>1 DEF CancelRecovery, TypeOK, RecoveryRequest, Status
  <1>. QED BY <1>2 DEF TypeOK, CancelRecovery

LEMMA UpdateType ==
    ASSUME TypeOK, NEW d \in Did, NEW t \in Thresholds \cup {None},
           NEW l \in Locks \cup {None}, NEW ttp \in Address \cup {None},
           UpdateRecoveryConfig(d, t, l, ttp)
    PROVE  TypeOK'
  <1>1. config' \in [Did -> RecoveryConfig \cup {None}]
    BY UpdateReconfigures, ReconfiguredFrame
  <1>2. t # None => t \in U32
    BY InputAssumption DEF U32
  <1>3. leastAsked' \in [Id -> U32]
    BY <1>2 DEF TypeOK, UpdateRecoveryConfig
  <1>. QED BY <1>1, <1>3 DEF TypeOK, UpdateRecoveryConfig

LEMMA DeactivateType ==
    ASSUME TypeOK, NEW d \in Did, DeactivateRecovery(d)
    PROVE  TypeOK'
  <1>1. config' \in [Did -> RecoveryConfig \cup {None}]
    BY DeactivateReconfigures, ReconfiguredFrame
  <1>. QED BY <1>1 DEF TypeOK, DeactivateRecovery

LEMMA TypeStep == TypeOK /\ [Next]_vars => TypeOK'
  <1> SUFFICES ASSUME TypeOK, [Next]_vars PROVE TypeOK'
    OBVIOUS
  <1>1. CASE Tick
    BY <1>1, BoundsAssumption DEF Tick, TypeOK, Id
  <1>2. CASE UNCHANGED vars
    BY <1>2 DEF vars, TypeOK
  <1>. QED
    BY <1>1, <1>2, ConfigureType, GuardianType, InitiateType, ApproveType,
       ExecuteType, CancelType, UpdateType, DeactivateType DEF Next, OtherSteps

LEMMA TypeInit == Init => TypeOK
  BY BoundsAssumption DEF Init, TypeOK, Id, U32

\* Every reachable state is well typed: no counter leaves its u32, no expiry its
\* u64, whatever is added, removed, executed and configured.
THEOREM TypeCorrect == Spec => []TypeOK
  BY TypeInit, TypeStep, PTL DEF Spec

-----------------------------------------------------------------------------
(* The inductive invariant.  The request parts are preserved by two kinds  *)
(* of steps: those that leave the requests alone, and those that move one  *)
(* request forward without touching its terms.                             *)

\* Thresholds that stay, and a new one that is not zero, keep ThresholdsHeld.
LEMMA ThresholdsFrame ==
    ASSUME TypeOK, RequestInv, leastAsked' = leastAsked,
           \A r \in Id : Pending(r)' => /\ Pending(r)
                                        /\ request'[r].did = request[r].did
                                        /\ request'[r].method = request[r].method,
           \A d \in Did : config[d] # None => /\ config'[d].method = config[d].method
                                              /\ config'[d].threshold = config[d].threshold,
           \A d \in Did : config[d] = None /\ config'[d] # None
                           /\ config'[d].method = "SocialRecovery" => config'[d].threshold >= 1
    PROVE  ThresholdsHeld'
  <1>1. \A r \in Id : Pending(r) => request[r].did \in Did /\ config[request[r].did] # None
    BY PresentRecords DEF RecoveryRequest, Pending, RequestInv, TermsMatchConfig
  <1>2. ASSUME NEW r \in Id, Pending(r)'
        PROVE  /\ leastAsked'[r] <= config'[request'[r].did].threshold
               /\ request'[r].method = "SocialRecovery" => leastAsked'[r] >= 1
    BY <1>1, <1>2 DEF RequestInv, ThresholdsHeld
  <1>3. ASSUME NEW d \in Did, config'[d] # None, config'[d].method = "SocialRecovery"
        PROVE  config'[d].threshold >= 1
    BY <1>3 DEF RequestInv, ThresholdsHeld
  <1>. QED BY <1>2, <1>3 DEF ThresholdsHeld

\* Guardian calls, executions and deactivations keep every threshold.
LEMMA ThresholdsStay ==
    ASSUME TypeOK, NEW d \in Did,
           \/ \E g \in Address : AddGuardian(d, g) \/ RemoveGuardian(d, g)
           \/ \E e \in Address, r \in Id : ExecuteRecovery(e, r) /\ d = request[r].did
           \/ DeactivateRecovery(d)
    PROVE  \A e \in Did : config[e] # None => config'[e].threshold = config[e].threshold
  <1>1. config[d] # None /\ config[d] \in RecoveryConfig
    BY PresentRecords DEF AddGuardian, RemoveGuardian, ExecuteRecovery, DeactivateRecovery
  <1>2. CASE \E g \in Address : AddGuardian(d, g) \/ RemoveGuardian(d, g)
    <2>1. PICK n : config' = [config EXCEPT ![d].total = n]
      BY <1>2 DEF AddGuardian, RemoveGuardian
    <2>. QED BY <1>1, <2>1 DEF TypeOK, RecoveryConfig
  <1>3. CASE \E e \in Address, r \in Id : ExecuteRecovery(e, r) /\ d = request[r].did
    <2>1. PICK n : config' = [config EXCEPT ![d].count = n]
      BY <1>3 DEF ExecuteRecovery
    <2>. QED BY <1>1, <2>1 DEF TypeOK, RecoveryConfig
  <1>4. CASE DeactivateRecovery(d)
    BY <1>1, <1>4 DEF DeactivateRecovery, TypeOK, RecoveryConfig
  <1>. QED BY <1>2, <1>3, <1>4

\* A step that keeps the requests and their lists keeps RequestInv, as long as no
\* configuration vanishes or changes its method, no guardian record vanishes and the
\* thresholds recorded for what is no longer pending stay.
LEMMA ConfigurationFrame ==
    ASSUME TypeOK, RequestInv,
           UNCHANGED <<request, didRequests, recoveryIndex>>,
           ThresholdsHeld',
           \A r \in Id : ~Pending(r) => leastAsked'[r] = leastAsked[r],
           \A d \in Did : config[d] # None =>
               config'[d] # None /\ config'[d].method = config[d].method,
           \A d \in Did, a \in Address :
               guardian[d][a] # "absent" => guardian'[d][a] # "absent"
    PROVE  RequestInv'
  <1>1. \A r \in Id : Stored(r) => request[r].did \in Did /\ request[r].approvals \subseteq Address
    BY PresentRecords DEF RecoveryRequest
  <1>2. TermsMatchConfig'
    BY <1>1 DEF RequestInv, TermsMatchConfig, Stored
  <1>3. RequestsIndexed'
    BY DEF RequestInv, RequestsIndexed, Stored
  <1>4. AtMostOnePending'
    BY DEF RequestInv, AtMostOnePending, Pending, Stored
  <1>5. ApproversAreGuardians'
    BY <1>1 DEF RequestInv, ApproversAreGuardians, Stored
  <1>6. SocialHandoverApproved'
    BY DEF RequestInv, SocialHandoverApproved, Stored, Pending
  <1>7. TimeLockRespected'
    BY DEF RequestInv, TimeLockRespected, Stored
  <1>. QED BY <1>2, <1>3, <1>4, <1>5, <1>6, <1>7 DEF RequestInv

\* Only the request r moves, and its terms stay.
Moves(r) ==
    /\ Stored(r) /\ Stored(r)'
    /\ \A s \in Id \ {r} : request'[s] = request[s]
    /\ request'[r].did = request[r].did
    /\ request'[r].method = request[r].method
    /\ request'[r].expiresAt = request[r].expiresAt
    /\ Pending(r)' => Pending(r)
    /\ request'[r].status # "Expired"

\* A step that moves one request keeps the parts about terms, lists and pending
\* requests.
LEMMA RequestFrame ==
    ASSUME TypeOK, RequestInv, NEW r \in Id, Moves(r),
           UNCHANGED <<didRequests, recoveryIndex>>,
           \A d \in Did : config[d] # None =>
               config'[d] # None /\ config'[d].method = config[d].method
    PROVE  TermsMatchConfig' /\ RequestsIndexed' /\ AtMostOnePending'
  <1>1. \A s \in Id : Stored(s) => request[s].did \in Did
    BY PresentRecords DEF RecoveryRequest
  <1>2. \A s \in Id : Stored(s)' =>
            /\ Stored(s)
            /\ request'[s].did = request[s].did
            /\ request'[s].method = request[s].method
            /\ request'[s].expiresAt = request[s].expiresAt
            /\ Pending(s)' => Pending(s)
    BY DEF Moves, Stored, Pending
  <1>3. TermsMatchConfig'
    BY <1>1, <1>2 DEF RequestInv, TermsMatchConfig, Moves, Stored
  <1>4. RequestsIndexed'
    BY <1>2 DEF RequestInv, RequestsIndexed
  <1>5. AtMostOnePending'
    <2> SUFFICES ASSUME NEW s \in Id, NEW t \in Id, Pending(s)', Pending(t)',
                        request'[s].did = request'[t].did
                 PROVE  s = t
      BY DEF AtMostOnePending
    <2>1. Stored(s)' /\ Stored(t)'
      BY DEF Pending
    <2>. QED BY <1>2, <2>1 DEF RequestInv, AtMostOnePending
  <1>. QED BY <1>3, <1>4, <1>5

\* initiate_recovery: the DID's list holds every earlier request of the DID
\* (RequestsIndexed), so the walk over it sees every pending one.
LEMMA InitiateSafe ==
    ASSUME TypeOK, RequestInv, NEW d \in Did, NEW c \in Address, InitiateRecovery(d, c)
    PROVE  RequestInv'
  <1>1. now \in Id
    BY DEF TypeOK
  <1>2. /\ request'[now].did = d
        /\ request'[now].method = config[d].method
        /\ request'[now].status = "Pending"
        /\ request'[now].approvals = {}
        /\ request'[now].expiresAt = TimeLockExpiry(d)
    BY <1>1 DEF InitiateRecovery, TypeOK
  <1>3. \A s \in Id \ {now} : request'[s] = request[s]
    BY <1>1 DEF InitiateRecovery, TypeOK
  <1>4. /\ now \in didRequests'[d]
        /\ now \in recoveryIndex'
        /\ recoveryIndex \subseteq recoveryIndex'
        /\ \A e \in Did : didRequests[e] \subseteq didRequests'[e]
    BY <1>1 DEF InitiateRecovery, TypeOK, Enlist
  <1>5. config' = config /\ guardian' = guardian
    BY DEF InitiateRecovery
  <1>6. \A s \in Id : Stored(s) => request[s].did \in Did
    BY PresentRecords DEF RecoveryRequest
  <1>7. TermsMatchConfig'
    <2>1. config[d] # None
      BY DEF InitiateRecovery
    <2>2. TimeLockExpiry(d) # None <=> config[d].method = "TimeLockedRecovery"
      <3>1. config[d].lock \in U64 /\ now \in Nat
        BY <1>1, <2>1, PresentRecords, BoundsAssumption DEF RecoveryConfig, Id
      <3>2. now + config[d].lock \in Nat
        BY <3>1, BoundsAssumption DEF U64
      <3>. QED BY <3>2, NoneAssumption DEF TimeLockExpiry
    <2>3. ASSUME NEW s \in Id, Stored(s)'
          PROVE  /\ config[request'[s].did] # None
                 /\ request'[s].method = config[request'[s].did].method
                 /\ request'[s].expiresAt # None <=> request'[s].method = "TimeLockedRecovery"
                 /\ request'[s].status # "Expired"
      <3>1. CASE s = now
        BY <3>1, <1>2, <2>1, <2>2
      <3>2. CASE s # now
        <4>1. request'[s] = request[s] /\ Stored(s)
          BY <2>3, <3>2, <1>3 DEF Stored
        <4>. QED BY <4>1 DEF RequestInv, TermsMatchConfig
      <3>. QED BY <3>1, <3>2
    <2>. QED BY <1>5, <2>3 DEF TermsMatchConfig
  <1>8. RequestsIndexed'
    <2> SUFFICES ASSUME NEW s \in Id, Stored(s)'
                 PROVE  s \in didRequests'[request'[s].did] \cap recoveryIndex'
      BY DEF RequestsIndexed
    <2>1. CASE s = now
      BY <2>1, <1>2, <1>4
    <2>2. CASE s # now
      <3>1. request'[s] = request[s] /\ Stored(s)
        BY <2>2, <1>3 DEF Stored
      <3>. QED BY <3>1, <1>4, <1>6 DEF RequestInv, RequestsIndexed
    <2>. QED BY <2>1, <2>2
  <1>9. AtMostOnePending'
    <2>1. ASSUME NEW s \in Id, Pending(s)', request'[s].did = d
          PROVE  s = now
      <3> SUFFICES ASSUME s # now PROVE FALSE
        OBVIOUS
      <3>1. request'[s] = request[s]
        BY <1>3
      <3>2. Pending(s) /\ request[s].did = d
        BY <2>1, <3>1 DEF Pending, Stored
      <3>3. s \in didRequests[d]
        BY <3>2 DEF RequestInv, RequestsIndexed, Pending
      <3>. QED BY <3>2, <3>3 DEF InitiateRecovery, NoPendingListed
    <2>2. ASSUME NEW s \in Id, NEW t \in Id, Pending(s)', Pending(t)',
                 request'[s].did = request'[t].did
          PROVE  s = t
      <3>1. CASE request'[s].did = d
        BY <3>1, <2>1, <2>2
      <3>2. CASE request'[s].did # d
        <4>1. s # now /\ t # now
          BY <3>2, <2>2, <1>2
        <4>2. request'[s] = request[s] /\ request'[t] = request[t]
          BY <4>1, <1>3
        <4>3. Pending(s) /\ Pending(t) /\ request[s].did = request[t].did
          BY <4>2, <2>2 DEF Pending, Stored
        <4>. QED BY <4>3 DEF RequestInv, AtMostOnePending
      <3>. QED BY <3>1, <3>2
    <2>. QED BY <2>2 DEF AtMostOnePending
  <1>10. /\ leastAsked'[now] = config[d].threshold
         /\ \A s \in Id \ {now} : leastAsked'[s] = leastAsked[s]
    BY <1>1 DEF InitiateRecovery, TypeOK
  <1>11. ThresholdsHeld'
    <2>1. config[d].threshold \in Nat
      BY PresentRecords, BoundsAssumption DEF InitiateRecovery, RecoveryConfig, U32
    <2>2. ASSUME NEW s \in Id, Pending(s)'
          PROVE  /\ leastAsked'[s] <= config[request'[s].did].threshold
                 /\ request'[s].method = "SocialRecovery" => leastAsked'[s] >= 1
      <3>1. CASE s = now
        BY <3>1, <1>2, <1>10, <2>1 DEF RequestInv, ThresholdsHeld, InitiateRecovery
      <3>2. CASE s # now
        <4>1. request'[s] = request[s] /\ Pending(s)
          BY <2>2, <3>2, <1>3 DEF Pending, Stored
        <4>. QED BY <3>2, <4>1, <1>10 DEF RequestInv, ThresholdsHeld
      <3>. QED BY <3>1, <3>2
    <2>. QED BY <1>5, <2>2 DEF RequestInv, ThresholdsHeld
  <1>12. ApproversAreGuardians' /\ SocialHandoverApproved' /\ TimeLockRespected'
    <2>1. \A s \in Id : s # now /\ Stored(s)' => Stored(s) /\ request'[s] = request[s]
      BY <1>3 DEF Stored
    <2>2. ApproversAreGuardians'
      BY <1>2, <1>5, <2>1 DEF RequestInv, ApproversAreGuardians
    <2>3. SocialHandoverApproved'
      BY <1>2, <1>10, <2>1 DEF RequestInv, SocialHandoverApproved
    <2>4. TimeLockRespected'
      BY <1>2, <2>1 DEF RequestInv, TimeLockRespected
    <2>. QED BY <2>2, <2>3, <2>4
  <1>. QED BY <1>7, <1>8, <1>9, <1>12, <1>11 DEF RequestInv

\* approve_recovery: the new approver has an active record, and a request becomes
\* Approved by the threshold of the moment, which is at least the lowest recorded one.
LEMMA ApproveSafe ==
    ASSUME TypeOK, RequestInv, NEW g \in Address, NEW r \in Id, ApproveRecovery(g, r)
    PROVE  RequestInv'
  <1>1. Pending(r) /\ Stored(r) /\ request[r] \in RecoveryRequest
    BY PresentRecords DEF ApproveRecovery, Pending
  <1>2. PICK st \in {"Pending", "Approved"} :
            request' = [request EXCEPT ![r].approvals = request[r].approvals \cup {g},
                                       ![r].status = st]
    BY <1>1 DEF ApproveRecovery, Pending
  <1>3. /\ request'[r] = [request[r] EXCEPT !.approvals = request[r].approvals \cup {g},
                                            !.status = st]
        /\ \A s \in Id \ {r} : request'[s] = request[s]
    BY <1>2 DEF TypeOK
  <1>4. /\ request'[r].did = request[r].did
        /\ request'[r].method = request[r].method
        /\ request'[r].expiresAt = request[r].expiresAt
        /\ request'[r].approvals = request[r].approvals \cup {g}
        /\ request'[r].status = st
    BY <1>1, <1>3 DEF RecoveryRequest
  <1>5. Stored(r)'
    <2>0. st \in Status /\ request[r].approvals \cup {g} \in SUBSET Address
      BY <1>1 DEF RecoveryRequest, Status
    <2>1. request'[r] \in RecoveryRequest
      BY <1>1, <1>3, <2>0 DEF RecoveryRequest
    <2>. QED BY <2>1, RecordAssumption DEF Stored
  <1>6. Moves(r)
    BY <1>1, <1>3, <1>4, <1>5 DEF Moves
  <1>7. UNCHANGED <<config, guardian, didRequests, recoveryIndex>>
    BY DEF ApproveRecovery
  <1>8. TermsMatchConfig' /\ RequestsIndexed' /\ AtMostOnePending'
    BY <1>6, <1>7, RequestFrame
  <1>9. \A s \in Id : s # r /\ Stored(s)' => Stored(s) /\ request'[s] = request[s]
    BY <1>3 DEF Stored
  <1>10. ApproversAreGuardians'
    <2>1. guardian[request[r].did][g] # "absent"
      BY DEF ApproveRecovery, MayApprove
    <2>. QED BY <1>1, <1>4, <1>7, <1>9, <2>1 DEF RequestInv, ApproversAreGuardians
  <1>11. leastAsked' = leastAsked
    BY DEF ApproveRecovery
  <1>12. SocialHandoverApproved'
    <2>0. /\ Cardinality(request'[r].approvals) \in Nat
          /\ leastAsked[r] \in Nat
          /\ config[request[r].did].threshold \in Nat
      <3>1. request'[r].approvals \subseteq Address
        BY <1>1, <1>4 DEF RecoveryRequest
      <3>2. config[request[r].did] \in RecoveryConfig
        BY <1>1, PresentRecords DEF ApproveRecovery, RecoveryRequest
      <3>. QED BY <3>1, <3>2, AddressAssumption, FS_Subset, FS_CardinalityType, BoundsAssumption
               DEF TypeOK, RecoveryConfig, U32
    <2>1. ASSUME request'[r].method = "SocialRecovery", request'[r].status = "Approved"
          PROVE  leastAsked[r] >= 1 /\ Cardinality(request'[r].approvals) >= leastAsked[r]
      <3>1. Cardinality(request'[r].approvals) >= config[request[r].did].threshold
        BY <1>1, <1>4, <2>1 DEF ApproveRecovery, Pending, TypeOK, RecoveryRequest
      <3>2. /\ leastAsked[r] <= config[request[r].did].threshold
            /\ leastAsked[r] >= 1
        BY <1>1, <1>4, <2>1 DEF RequestInv, ThresholdsHeld
      <3>. QED BY <2>0, <3>1, <3>2
    <2>2. request'[r].status # "Executed"
      BY <1>4
    <2>. QED BY <1>9, <1>11, <2>1, <2>2 DEF RequestInv, SocialHandoverApproved
  <1>13. TimeLockRespected'
    BY <1>4, <1>9 DEF RequestInv, TimeLockRespected
  <1>14. ThresholdsHeld'
    <2>1. \A s \in Id : Pending(s)' => /\ Pending(s)
                                       /\ request'[s].did = request[s].did
                                       /\ request'[s].method = request[s].method
      BY <1>1, <1>4, <1>9 DEF Pending
    <2>. QED BY <1>7, <1>11, <2>1, ThresholdsFrame
  <1>. QED BY <1>8, <1>10, <1>12, <1>13, <1>14 DEF RequestInv

\* execute_recovery: TermsMatchConfig carries the check of the configuration's
\* method over to the request's own.
LEMMA ExecuteSafe ==
    ASSUME TypeOK, RequestInv, NEW e \in Address, NEW r \in Id, ExecuteRecovery(e, r)
    PROVE  RequestInv'
  <1>1. Stored(r) /\ request[r] \in RecoveryRequest
    BY PresentRecords DEF ExecuteRecovery, Resolvable, Open
  <1>2. /\ request'[r] = [request[r] EXCEPT !.status = "Executed", !.completedAt = now]
        /\ \A s \in Id \ {r} : request'[s] = request[s]
    BY DEF ExecuteRecovery, TypeOK
  <1>3. /\ request'[r].did = request[r].did
        /\ request'[r].method = request[r].method
        /\ request'[r].expiresAt = request[r].expiresAt
        /\ request'[r].approvals = request[r].approvals
        /\ request'[r].status = "Executed"
        /\ request'[r].completedAt = now
    BY <1>1, <1>2 DEF RecoveryRequest
  <1>4. Stored(r)'
    <2>1. request'[r] \in RecoveryRequest
      BY <1>1, <1>2 DEF RecoveryRequest, Status, TypeOK
    <2>. QED BY <2>1, RecordAssumption DEF Stored
  <1>5. Moves(r)
    BY <1>1, <1>2, <1>3, <1>4 DEF Moves, Pending
  <1>6. \A d \in Did : config[d] # None =>
            config'[d] # None /\ config'[d].method = config[d].method
    BY ExecuteReconfigures, ReconfiguredFrame
  <1>7. UNCHANGED <<guardian, didRequests, recoveryIndex>>
    BY DEF ExecuteRecovery
  <1>8. TermsMatchConfig' /\ RequestsIndexed' /\ AtMostOnePending'
    BY <1>5, <1>6, <1>7, RequestFrame
  <1>9. \A s \in Id : s # r /\ Stored(s)' => Stored(s) /\ request'[s] = request[s]
    BY <1>2 DEF Stored
  <1>10. ApproversAreGuardians'
    BY <1>1, <1>3, <1>7, <1>9 DEF RequestInv, ApproversAreGuardians
  <1>11. config[request[r].did].method = request[r].method
    BY <1>1 DEF RequestInv, TermsMatchConfig
  <1>12. leastAsked' = leastAsked
    BY DEF ExecuteRecovery
  <1>13. ThresholdsHeld'
    <2>1. \A s \in Id : Pending(s)' => /\ Pending(s)
                                       /\ request'[s].did = request[s].did
                                       /\ request'[s].method = request[s].method
      BY <1>3, <1>9 DEF Pending
    <2>2. /\ request[r].did \in Did
          /\ \A d \in Did : config[d] = None => config'[d] = None
      BY ExecuteReconfigures, ReconfiguredFrame
    <2>3. \A d \in Did : config[d] # None => config'[d].threshold = config[d].threshold
      BY <2>2, ThresholdsStay
    <2>. QED BY <1>6, <1>12, <2>1, <2>2, <2>3, ThresholdsFrame
  <1>14. SocialHandoverApproved'
    <2>1. request[r].method = "SocialRecovery" => request[r].status = "Approved"
      BY <1>11 DEF ExecuteRecovery, MayExecute, EnoughApproved
    <2>2. request[r].method = "SocialRecovery" =>
              /\ leastAsked[r] >= 1
              /\ Cardinality(request'[r].approvals) >= leastAsked[r]
      BY <1>1, <1>3, <2>1 DEF RequestInv, SocialHandoverApproved
    <2>. QED BY <1>3, <1>9, <1>12, <2>2 DEF RequestInv, SocialHandoverApproved
  <1>15. TimeLockRespected'
    <2>1. request[r].expiresAt # None => request[r].method = "TimeLockedRecovery"
      BY <1>1 DEF RequestInv, TermsMatchConfig
    <2>2. request[r].expiresAt # None => now >= request[r].expiresAt
      BY <1>11, <2>1 DEF ExecuteRecovery, MayExecute, LockExpired
    <2>. QED BY <1>3, <1>9, <2>2 DEF RequestInv, TimeLockRespected
  <1>. QED BY <1>8, <1>10, <1>14, <1>15, <1>13 DEF RequestInv

LEMMA CancelSafe ==
    ASSUME TypeOK, RequestInv, NEW r \in Id, CancelRecovery(r)
    PROVE  RequestInv'
  <1>1. Stored(r) /\ request[r] \in RecoveryRequest
    BY PresentRecords DEF CancelRecovery, Cancellable
  <1>2. /\ request'[r] = [request[r] EXCEPT !.status = "Cancelled"]
        /\ \A s \in Id \ {r} : request'[s] = request[s]
    BY DEF CancelRecovery, TypeOK
  <1>3. /\ request'[r].did = request[r].did
        /\ request'[r].method = request[r].method
        /\ request'[r].expiresAt = request[r].expiresAt
        /\ request'[r].approvals = request[r].approvals
        /\ request'[r].status = "Cancelled"
    BY <1>1, <1>2 DEF RecoveryRequest
  <1>4. Stored(r)'
    <2>1. request'[r] \in RecoveryRequest
      BY <1>1, <1>2 DEF RecoveryRequest, Status
    <2>. QED BY <2>1, RecordAssumption DEF Stored
  <1>5. Moves(r)
    BY <1>1, <1>2, <1>3, <1>4 DEF Moves, Pending
  <1>6. UNCHANGED <<config, guardian, didRequests, recoveryIndex>>
    BY DEF CancelRecovery
  <1>7. TermsMatchConfig' /\ RequestsIndexed' /\ AtMostOnePending'
    BY <1>5, <1>6, RequestFrame
  <1>8. \A s \in Id : s # r /\ Stored(s)' => Stored(s) /\ request'[s] = request[s]
    BY <1>2 DEF Stored
  <1>9. ApproversAreGuardians'
    BY <1>1, <1>3, <1>6, <1>8 DEF RequestInv, ApproversAreGuardians
  <1>10. leastAsked' = leastAsked
    BY DEF CancelRecovery
  <1>11. SocialHandoverApproved'
    BY <1>3, <1>8, <1>10 DEF RequestInv, SocialHandoverApproved
  <1>12. TimeLockRespected'
    BY <1>3, <1>8 DEF RequestInv, TimeLockRespected
  <1>13. ThresholdsHeld'
    <2>1. \A s \in Id : Pending(s)' => /\ Pending(s)
                                       /\ request'[s].did = request[s].did
                                       /\ request'[s].method = request[s].method
      BY <1>3, <1>8 DEF Pending
    <2>. QED BY <1>6, <1>10, <2>1, ThresholdsFrame
  <1>. QED BY <1>7, <1>9, <1>11, <1>12, <1>13 DEF RequestInv

\* update_recovery_config: the lowest threshold of a pending request follows the new one
\* down, and the new one is not zero.
LEMMA UpdateThresholds ==
    ASSUME TypeOK, RequestInv, NEW d \in Did, NEW t \in Thresholds \cup {None},
           NEW l \in Locks \cup {None}, NEW ttp \in Address \cup {None},
           UpdateRecoveryConfig(d, t, l, ttp)
    PROVE  ThresholdsHeld'
  <1>1. /\ config[d] # None /\ config[d] \in RecoveryConfig
        /\ config[d].threshold \in Nat
    BY PresentRecords, BoundsAssumption DEF UpdateRecoveryConfig, RecoveryConfig, U32
  <1>2. t # None => t \in Nat /\ t >= 1
    BY InputAssumption, BoundsAssumption DEF UpdateRecoveryConfig
  <1>3. /\ config'[d].threshold = IF t = None THEN config[d].threshold ELSE t
        /\ \A e \in Did \ {d} : config'[e] = config[e]
    BY <1>1 DEF UpdateRecoveryConfig, TypeOK, RecoveryConfig
  <1>4. \A e \in Did : /\ config[e] # None => config'[e].method = config[e].method
                       /\ config[e] = None => config'[e] = None
    BY UpdateReconfigures, ReconfiguredFrame
  <1>5. request' = request
    BY DEF UpdateRecoveryConfig
  <1>6. ASSUME NEW r \in Id, Pending(r)'
        PROVE  /\ leastAsked'[r] <= config'[request'[r].did].threshold
               /\ request'[r].method = "SocialRecovery" => leastAsked'[r] >= 1
    <2>1. Pending(r) /\ request[r].did \in Did
      BY <1>5, <1>6, PresentRecords DEF Pending, Stored, RecoveryRequest
    <2>2. /\ leastAsked[r] \in Nat
          /\ leastAsked[r] <= config[request[r].did].threshold
          /\ request[r].method = "SocialRecovery" => leastAsked[r] >= 1
      BY <2>1, BoundsAssumption DEF RequestInv, ThresholdsHeld, TypeOK, U32
    <2>3. leastAsked'[r] = IF t # None /\ request[r].did = d /\ t < leastAsked[r]
                           THEN t ELSE leastAsked[r]
      BY <2>1 DEF UpdateRecoveryConfig
    <2>4. CASE request[r].did = d
      BY <1>1, <1>2, <1>3, <1>5, <2>2, <2>3, <2>4
    <2>5. CASE request[r].did # d
      BY <1>3, <1>5, <2>1, <2>2, <2>3, <2>5
    <2>. QED BY <2>4, <2>5
  <1>7. ASSUME NEW e \in Did, config'[e] # None, config'[e].method = "SocialRecovery"
        PROVE  config'[e].threshold >= 1
    <2>1. config[e] # None /\ config[e].method = "SocialRecovery"
      <3>1. config[e] # None
        BY <1>4, <1>7
      <3>2. config'[e].method = config[e].method
        BY <1>4, <3>1
      <3>. QED BY <1>7, <3>1, <3>2
    <2>2. config[e].threshold >= 1
      BY <2>1 DEF RequestInv, ThresholdsHeld
    <2>. QED BY <1>2, <1>3, <2>2
  <1>. QED BY <1>6, <1>7 DEF ThresholdsHeld

-----------------------------------------------------------------------------
(* The guardian count. *)

\* total_guardians stays at or below the number of active guardians: adding an
\* absent guardian raises both, removing an active one lowers both, and removing
\* an inactive one lowers the count alone.
LEMMA CountStep ==
    ASSUME TypeOK, GuardianCountBounded, NEW d \in Did, NEW g \in Address,
           AddGuardian(d, g) \/ RemoveGuardian(d, g)
    PROVE  GuardianCountBounded'
  <1>1. \A e \in Did : IsFiniteSet(ActiveGuardians(e))
    BY AddressAssumption, FS_Subset DEF ActiveGuardians
  <1>2. config[d] \in RecoveryConfig /\ config[d].total \in Nat
    BY PresentRecords, BoundsAssumption
       DEF AddGuardian, RemoveGuardian, RecoveryConfig, U32
  <1>3. \A e \in Did \ {d} :
            config'[e] = config[e] /\ ActiveGuardians(e)' = ActiveGuardians(e)
    BY AddReconfigures, RemoveReconfigures, ReconfiguredFrame
       DEF AddGuardian, RemoveGuardian, TypeOK, ActiveGuardians
  <1>4. config'[d].total <= Cardinality(ActiveGuardians(d)')
    <2>0. config[d].total <= Cardinality(ActiveGuardians(d))
      BY DEF GuardianCountBounded, AddGuardian, RemoveGuardian
    <2>1. CASE AddGuardian(d, g)
      <3>1. g \notin ActiveGuardians(d)
        BY <2>1 DEF AddGuardian, CanAddGuardian, ActiveGuardians
      <3>2. ActiveGuardians(d)' = ActiveGuardians(d) \cup {g}
        BY <2>1 DEF AddGuardian, ActiveGuardians, TypeOK
      <3>3. Cardinality(ActiveGuardians(d)') = Cardinality(ActiveGuardians(d)) + 1
        BY <1>1, <3>1, <3>2, FS_AddElement
      <3>4. config'[d].total = config[d].total + 1
        BY <2>1, AddReconfigures, ReconfiguredFrame
      <3>. QED BY <1>1, <1>2, <2>0, <3>3, <3>4, FS_CardinalityType
    <2>2. CASE RemoveGuardian(d, g)
      <3>1. ActiveGuardians(d)' = ActiveGuardians(d) \ {g}
        BY <2>2 DEF RemoveGuardian, ActiveGuardians, TypeOK
      <3>2. Cardinality(ActiveGuardians(d)') =
                IF g \in ActiveGuardians(d) THEN Cardinality(ActiveGuardians(d)) - 1
                                            ELSE Cardinality(ActiveGuardians(d))
        BY <1>1, <3>1, FS_RemoveElement
      <3>3. config'[d].total = TotalAfterRemoval(config[d].total)
        BY <2>2, RemoveReconfigures, ReconfiguredFrame
      <3>4. Cardinality(ActiveGuardians(d)') \in Nat /\ Cardinality(ActiveGuardians(d)) \in Nat
        BY <1>1, <3>1, FS_CardinalityType, FS_RemoveElement
      <3>. QED BY <1>2, <2>0, <3>2, <3>3, <3>4 DEF TotalAfterRemoval
    <2>. QED BY <2>1, <2>2
  <1>5. ASSUME NEW e \in Did, config'[e] # None
        PROVE  config'[e].total <= Cardinality(ActiveGuardians(e)')
    <2>1. CASE e = d
      BY <2>1, <1>4
    <2>2. CASE e # d
      BY <2>2, <1>3, <1>5 DEF GuardianCountBounded
    <2>. QED BY <2>1, <2>2
  <1>. QED BY <1>5 DEF GuardianCountBounded

\* No other step touches the guardians or raises the count.
LEMMA CountFrame ==
    ASSUME TypeOK, GuardianCountBounded, guardian' = guardian,
           \A d \in Did : config'[d] # None =>
               config'[d].total = IF config[d] = None THEN 0 ELSE config[d].total
    PROVE  GuardianCountBounded'
  <1>1. \A d \in Did : Cardinality(ActiveGuardians(d)) \in Nat
    BY AddressAssumption, FS_Subset, FS_CardinalityType DEF ActiveGuardians
  <1>2. \A d \in Did : ActiveGuardians(d)' = ActiveGuardians(d)
    BY DEF ActiveGuardians
  <1>. QED BY <1>1, <1>2 DEF GuardianCountBounded

-----------------------------------------------------------------------------
(* The theorems. *)

LEMMA SafeInit == Init => IInv
  BY TypeInit
     DEF Init, IInv, RequestInv, TermsMatchConfig, RequestsIndexed, AtMostOnePending,
         ApproversAreGuardians, SocialHandoverApproved, TimeLockRespected,
         ThresholdsHeld, GuardianCountBounded, Stored, Pending

LEMMA SafeStep == IInv /\ [Next]_vars => IInv'
  <1> SUFFICES ASSUME IInv, [Next]_vars PROVE IInv'
    OBVIOUS
  <1>. USE DEF IInv
  <1>1. TypeOK'
    BY TypeStep
  <1>2. ASSUME NEW d \in Did, NEW c \in Address, InitiateRecovery(d, c) PROVE IInv'
    <2>1. GuardianCountBounded'
      BY <1>2 DEF InitiateRecovery, GuardianCountBounded, ActiveGuardians
    <2>. QED BY <1>1, <1>2, <2>1, InitiateSafe
  <1>3. ASSUME NEW g \in Address, NEW r \in Id, ApproveRecovery(g, r) PROVE IInv'
    <2>1. GuardianCountBounded'
      BY <1>3 DEF ApproveRecovery, GuardianCountBounded, ActiveGuardians
    <2>. QED BY <1>1, <1>3, <2>1, ApproveSafe
  <1>4. ASSUME NEW e \in Address, NEW r \in Id, ExecuteRecovery(e, r) PROVE IInv'
    <2>1. guardian' = guardian
      BY <1>4 DEF ExecuteRecovery
    <2>2. GuardianCountBounded'
      BY <1>4, <2>1, ExecuteReconfigures, ReconfiguredFrame, CountFrame
    <2>. QED BY <1>1, <1>4, <2>2, ExecuteSafe
  <1>5. ASSUME NEW r \in Id, CancelRecovery(r) PROVE IInv'
    <2>1. GuardianCountBounded'
      BY <1>5 DEF CancelRecovery, GuardianCountBounded, ActiveGuardians
    <2>. QED BY <1>1, <1>5, <2>1, CancelSafe
  <1>6. ASSUME NEW d \in Did, NEW g \in Address, AddGuardian(d, g) \/ RemoveGuardian(d, g)
        PROVE  IInv'
    <2>1. \A e \in Did : config[e] # None =>
              config'[e] # None /\ config'[e].method = config[e].method
      BY <1>6, AddReconfigures, RemoveReconfigures, ReconfiguredFrame
    <2>2. \A e \in Did, a \in Address : guardian[e][a] # "absent" => guardian'[e][a] # "absent"
      BY <1>6 DEF AddGuardian, RemoveGuardian, TypeOK
    <2>3. UNCHANGED <<request, didRequests, recoveryIndex, leastAsked>>
      BY <1>6 DEF AddGuardian, RemoveGuardian
    <2>4. \A e \in Did : config[e] = None => config'[e] = None
      BY <1>6, AddReconfigures, RemoveReconfigures, ReconfiguredFrame
    <2>5. \A e \in Did : config[e] # None => config'[e].threshold = config[e].threshold
      BY <1>6, ThresholdsStay
    <2>6. ThresholdsHeld'
      BY <2>1, <2>3, <2>4, <2>5, ThresholdsFrame DEF Pending, Stored
    <2>7. RequestInv'
      BY <2>1, <2>2, <2>3, <2>6, ConfigurationFrame
    <2>8. GuardianCountBounded'
      BY <1>6, CountStep
    <2>. QED BY <1>1, <2>7, <2>8
  <1>7. ASSUME NEW d \in Did, NEW m \in Method, NEW t \in Thresholds, NEW l \in Locks,
               NEW ttp \in Address \cup {None}, ConfigureRecovery(d, m, t, l, ttp)
        PROVE  IInv'
    <2>1. \A e \in Did \ {d} : config'[e] = config[e]
      BY <1>7 DEF ConfigureRecovery, TypeOK
    <2>2. config[d] = None /\ config'[d].total = 0
      BY <1>7 DEF ConfigureRecovery, TypeOK
    <2>3. UNCHANGED <<guardian, request, didRequests, recoveryIndex, leastAsked>>
      BY <1>7 DEF ConfigureRecovery
    <2>4. config'[d].method = "SocialRecovery" => config'[d].threshold >= 1
      <3>1. config'[d].method = m /\ config'[d].threshold = t
        BY <1>7 DEF ConfigureRecovery, TypeOK
      <3>2. m = "SocialRecovery" => t # 0
        BY <1>7 DEF ConfigureRecovery, ValidConfiguration
      <3>3. t \in Nat
        BY InputAssumption, BoundsAssumption
      <3>. QED BY <3>1, <3>2, <3>3
    <2>5. ThresholdsHeld'
      BY <2>1, <2>2, <2>3, <2>4, ThresholdsFrame DEF Pending, Stored
    <2>6. RequestInv'
      BY <2>1, <2>2, <2>3, <2>5, ConfigurationFrame
    <2>7. GuardianCountBounded'
      BY <2>1, <2>2, <2>3, CountFrame
    <2>. QED BY <1>1, <2>6, <2>7
  <1>8. ASSUME NEW d \in Did, Reconfigured(d, config[d].total),
               UNCHANGED <<guardian, request, didRequests, recoveryIndex>>,
               ThresholdsHeld',
               \A r \in Id : ~Pending(r) => leastAsked'[r] = leastAsked[r]
        PROVE  IInv'
    <2>1. RequestInv'
      BY <1>8, ReconfiguredFrame, ConfigurationFrame
    <2>2. GuardianCountBounded'
      BY <1>8, ReconfiguredFrame, CountFrame
    <2>. QED BY <1>1, <2>1, <2>2
  <1>9. ASSUME NEW d \in Did, NEW t \in Thresholds \cup {None}, NEW l \in Locks \cup {None},
               NEW ttp \in Address \cup {None}, UpdateRecoveryConfig(d, t, l, ttp)
        PROVE  IInv'
    <2>1. \A r \in Id : ~Pending(r) => leastAsked'[r] = leastAsked[r]
      BY <1>9 DEF UpdateRecoveryConfig
    <2>2. ThresholdsHeld'
      BY <1>9, UpdateThresholds
    <2>. QED BY <1>8, <1>9, <2>1, <2>2, UpdateReconfigures DEF UpdateRecoveryConfig
  <1>10. ASSUME NEW d \in Did, DeactivateRecovery(d) PROVE IInv'
    <2>1. UNCHANGED <<guardian, request, didRequests, recoveryIndex, leastAsked>>
      BY <1>10 DEF DeactivateRecovery
    <2>2. \A e \in Did : config[e] # None =>
              config'[e].method = config[e].method /\ config'[e].threshold = config[e].threshold
      BY <1>10, DeactivateReconfigures, ReconfiguredFrame, ThresholdsStay
    <2>3. \A e \in Did : config[e] = None => config'[e] = None
      BY <1>10, DeactivateReconfigures, ReconfiguredFrame
    <2>4. ThresholdsHeld'
      BY <2>1, <2>2, <2>3, ThresholdsFrame DEF Pending, Stored
    <2>. QED BY <1>8, <1>10, <2>1, <2>4, DeactivateReconfigures
  <1>11. CASE Tick \/ UNCHANGED vars
    <2>1. UNCHANGED <<config, guardian, request, didRequests, recoveryIndex, leastAsked>>
      BY <1>11 DEF Tick, vars
    <2>2. ThresholdsHeld'
      BY <2>1, ThresholdsFrame DEF Pending, Stored
    <2>3. RequestInv'
      BY <2>1, <2>2, ConfigurationFrame
    <2>4. GuardianCountBounded'
      BY <2>1 DEF GuardianCountBounded, ActiveGuardians
    <2>. QED BY <1>1, <2>3, <2>4
  <1>. QED
    BY <1>2, <1>3, <1>4, <1>5, <1>6, <1>7, <1>9, <1>10, <1>11 DEF Next, OtherSteps

\* Whatever is called in whatever order: at most one pending request per DID, every
\* request on its DID's list, approvals by guardians, locks and approvals respected
\* by every execution, and a guardian count that the active guardians back.
THEOREM Safety ==
    Spec => [](/\ TermsMatchConfig /\ AtMostOnePending /\ RequestsIndexed
               /\ ApproversAreGuardians /\ SocialHandoverApproved
               /\ TimeLockRespected /\ GuardianCountBounded)
  <1>1. Spec => []IInv
    BY SafeInit, SafeStep, PTL DEF Spec
  <1>2. IInv => /\ TermsMatchConfig /\ AtMostOnePending /\ RequestsIndexed
                /\ ApproversAreGuardians /\ SocialHandoverApproved
                /\ TimeLockRespected /\ GuardianCountBounded
    BY DEF IInv, RequestInv
  <1>. QED BY <1>1, <1>2, PTL

\* For every set of DIDs, addresses and bounds: a handover has as many approvals behind
\* it as some threshold in force asked for, or an expired lock.
THEOREM HandoversJustified == Spec => []HandoverJustified
  BY Safety, PTL DEF HandoverJustified

\* The guardian counter that thresholds are compared with never runs ahead.
THEOREM CounterBounded == Spec => []GuardianCountBounded
  BY Safety, PTL

\* A threshold the active guardians meet: only update_recovery_config changes it, to one
\* the counter allows, and only a removal makes the active guardians fewer.
LEMMA ReachStep == IInv /\ IInv' /\ [Next]_vars => ReachKept
  <1> SUFFICES ASSUME IInv, IInv', [Next]_vars, NEW e \in Did, config[e] # None, Reachable(e),
                      \A g \in ActiveGuardians(e) : g \in ActiveGuardians(e)'
               PROVE  Reachable(e)'
    BY DEF ReachKept
  <1>. USE DEF IInv
  <1>1. /\ IsFiniteSet(ActiveGuardians(e)')
        /\ Cardinality(ActiveGuardians(e)) \in Nat /\ Cardinality(ActiveGuardians(e)') \in Nat
        /\ Cardinality(ActiveGuardians(e)) <= Cardinality(ActiveGuardians(e)')
    <2>1. ActiveGuardians(e) \subseteq ActiveGuardians(e)'
      OBVIOUS
    <2>2. ActiveGuardians(e) \subseteq Address /\ ActiveGuardians(e)' \subseteq Address
      BY DEF ActiveGuardians
    <2>. QED BY <2>1, <2>2, AddressAssumption, FS_Subset, FS_CardinalityType
  <1>2. config[e] \in RecoveryConfig /\ config[e].threshold \in Nat
    BY PresentRecords, BoundsAssumption DEF RecoveryConfig, U32
  <1>3. CASE config'[e].threshold = config[e].threshold
    BY <1>1, <1>2, <1>3 DEF Reachable
  <1>4. ASSUME NEW d \in Did, NEW t \in Thresholds \cup {None}, NEW l \in Locks \cup {None},
               NEW ttp \in Address \cup {None}, UpdateRecoveryConfig(d, t, l, ttp)
        PROVE  Reachable(e)'
    <2>1. CASE d = e /\ t # None
      <3>0. config'[e] # None /\ config'[e].total = config[e].total
        BY <1>4, <2>1, UpdateReconfigures, ReconfiguredFrame
      <3>1. config'[e].threshold = t
        BY <1>2, <1>4, <2>1 DEF UpdateRecoveryConfig, TypeOK, RecoveryConfig
      <3>2. t <= config[e].total /\ t \in Nat /\ config[e].total \in Nat
        BY <1>2, <1>4, <2>1, InputAssumption, BoundsAssumption
           DEF UpdateRecoveryConfig, RecoveryConfig, U32
      <3>3. config'[e].total <= Cardinality(ActiveGuardians(e)')
        BY <3>0 DEF GuardianCountBounded
      <3>. QED BY <1>1, <3>0, <3>1, <3>2, <3>3 DEF Reachable
    <2>2. CASE ~(d = e /\ t # None)
      BY <1>2, <1>3, <1>4, <2>2 DEF UpdateRecoveryConfig, TypeOK, RecoveryConfig
    <2>. QED BY <2>1, <2>2
  <1>5. ASSUME NEW d \in Did, NEW m \in Method, NEW t \in Thresholds, NEW l \in Locks,
               NEW ttp \in Address \cup {None}, ConfigureRecovery(d, m, t, l, ttp)
        PROVE  Reachable(e)'
    BY <1>3, <1>5 DEF ConfigureRecovery, TypeOK
  <1>6. ASSUME NEW d \in Did, \/ \E g \in Address : AddGuardian(d, g) \/ RemoveGuardian(d, g)
                             \/ DeactivateRecovery(d)
        PROVE  Reachable(e)'
    BY <1>3, <1>6, ThresholdsStay
  <1>7. ASSUME NEW a \in Address, NEW r \in Id, ExecuteRecovery(a, r)
        PROVE  Reachable(e)'
    BY <1>3, <1>7, ExecuteReconfigures, ThresholdsStay
  <1>8. CASE \/ Tick \/ UNCHANGED vars
             \/ \E d \in Did, c \in Address : InitiateRecovery(d, c)
             \/ \E g \in Address, r \in Id : ApproveRecovery(g, r)
             \/ \E r \in Id : CancelRecovery(r)
    <2>1. config' = config
      BY <1>8 DEF Tick, vars, InitiateRecovery, ApproveRecovery, CancelRecovery
    <2>. QED BY <1>3, <2>1
  <1>. QED BY <1>4, <1>5, <1>6, <1>7, <1>8 DEF Next, OtherSteps

\* What the run checks, under any calls: handovers have the approvals or the time behind
\* them that were asked for, and no call but a removal takes a threshold out of reach.
THEOREM RecoveryAlwaysSound == Spec => RecoverySound
  <1>1. Spec => []IInv
    BY SafeInit, SafeStep, PTL DEF Spec
  <1>2. Spec => [][ReachKept]_vars
    BY <1>1, ReachStep, PTL DEF Spec
  <1>. QED BY <1>2, HandoversJustified, CounterBounded, PTL DEF RecoverySound

-----------------------------------------------------------------------------
(***************************************************************************)
(* What DIDRecovery keeps beyond Safety when request ids are never reused. *)
(***************************************************************************)
LEMMA SpacedIsNext == [NextSpaced]_vars => [Next]_vars
  BY DEF NextSpaced, Next

-----------------------------------------------------------------------------
(* What each call does to the requests. *)

\* r is a new pending request of d.
Opens(d, r) ==
    /\ ~Stored(r)
    /\ request'[r].did = d /\ request'[r].status = "Pending"
    /\ Stored(r)'
    /\ didRequests' = [didRequests EXCEPT ![d] = @ \cup {r}]
    /\ config' = config

\* r moves on within its terms, and its status goes from one of a set of statuses
\* to a status.
MovesOn(r, from, to) ==
    /\ Stored(r) /\ Stored(r)'
    /\ request[r].status \in from /\ request'[r].status \in to
    /\ request'[r].did = request[r].did
    /\ request'[r].newController = request[r].newController
    /\ request'[r].method = request[r].method
    /\ request'[r].expiresAt = request[r].expiresAt
    /\ request[r].approvals \subseteq request'[r].approvals
    /\ didRequests' = didRequests

OnlyAt(r) == \A s \in Id \ {r} : request'[s] = request[s]

\* Every configuration stays and keeps its count, and a new one starts at zero.
CountsKept == \A d \in Did :
    /\ config[d] # None => config'[d] # None
    /\ config'[d] # None => config'[d].count = IF config[d] = None THEN 0 ELSE config[d].count

\* The count of d alone goes up by one.
CountRaised(d) ==
    /\ config[d] # None /\ config'[d] # None
    /\ config'[d].count = config[d].count + 1
    /\ \A e \in Did \ {d} : config'[e] = config[e]

LEMMA InitiateOpens ==
    ASSUME TypeOK, NEW d \in Did, NEW c \in Address, ~Stored(now), InitiateRecovery(d, c)
    PROVE  now \in Id /\ Opens(d, now) /\ OnlyAt(now)
  <1>1. now \in Id
    BY DEF TypeOK
  <1>2. /\ request'[now] = [did |-> d, newController |-> c, method |-> config[d].method,
                            status |-> "Pending", approvals |-> {},
                            expiresAt |-> TimeLockExpiry(d), completedAt |-> None]
        /\ OnlyAt(now)
    BY <1>1 DEF InitiateRecovery, TypeOK, OnlyAt
  <1>3. request'[now] \in RecoveryRequest
    <2>1. TimeLockExpiry(d) \in U64 \cup {None}
      BY ExpiryType DEF InitiateRecovery
    <2>2. config[d].method \in Method
      BY PresentRecords DEF InitiateRecovery, RecoveryConfig
    <2>. QED BY <1>2, <2>1, <2>2 DEF RecoveryRequest, Status
  <1>4. Stored(now)'
    <2>1. request'[now] # None
      BY <1>3, RecordAssumption
    <2>2. didRequests' = [didRequests EXCEPT ![d] = @ \cup {now}] /\ now' = now
      BY DEF InitiateRecovery, Enlist
    <2>. QED BY <2>1, <2>2 DEF Stored
  <1>5. didRequests' = [didRequests EXCEPT ![d] = @ \cup {now}] /\ config' = config
    BY DEF InitiateRecovery, Enlist
  <1>. QED BY <1>1, <1>2, <1>4, <1>5 DEF Opens

LEMMA ApproveMovesOn ==
    ASSUME TypeOK, NEW g \in Address, NEW r \in Id, ApproveRecovery(g, r)
    PROVE  MovesOn(r, {"Pending"}, {"Pending", "Approved"}) /\ OnlyAt(r) /\ CountsKept
  <1>1. Pending(r) /\ request[r] \in RecoveryRequest
    BY PresentRecords DEF ApproveRecovery, Pending
  <1>2. PICK st \in {"Pending", "Approved"} :
            request' = [request EXCEPT ![r].approvals = request[r].approvals \cup {g},
                                       ![r].status = st]
    BY <1>1 DEF ApproveRecovery, Pending
  <1>3. /\ request'[r] = [request[r] EXCEPT !.approvals = request[r].approvals \cup {g},
                                            !.status = st]
        /\ OnlyAt(r)
    BY <1>2 DEF TypeOK, OnlyAt
  <1>4. request'[r] \in RecoveryRequest
    <2>1. st \in Status /\ request[r].approvals \cup {g} \in SUBSET Address
      BY <1>1 DEF RecoveryRequest, Status
    <2>. QED BY <1>1, <1>3, <2>1 DEF RecoveryRequest
  <1>5. /\ request'[r].status = st
        /\ request'[r].approvals = request[r].approvals \cup {g}
        /\ request'[r].did = request[r].did
        /\ request'[r].newController = request[r].newController
        /\ request'[r].method = request[r].method
        /\ request'[r].expiresAt = request[r].expiresAt
    BY <1>1, <1>3 DEF RecoveryRequest
  <1>6. config' = config /\ didRequests' = didRequests
    BY DEF ApproveRecovery
  <1>7. Stored(r)'
    BY <1>4, RecordAssumption DEF Stored
  <1>. QED BY <1>1, <1>3, <1>5, <1>6, <1>7 DEF MovesOn, CountsKept, Pending

LEMMA ExecuteMovesOn ==
    ASSUME TypeOK, NEW e \in Address, NEW r \in Id, ExecuteRecovery(e, r)
    PROVE  /\ MovesOn(r, {"Pending", "Approved"}, {"Executed"}) /\ OnlyAt(r)
           /\ request[r].did \in Did /\ CountRaised(request[r].did)
  <1>1. Open(r) /\ request[r] \in RecoveryRequest
    BY PresentRecords DEF ExecuteRecovery, Resolvable, Open
  <1>2. /\ request'[r] = [request[r] EXCEPT !.status = "Executed", !.completedAt = now]
        /\ OnlyAt(r)
    BY DEF ExecuteRecovery, TypeOK, OnlyAt
  <1>3. request'[r] \in RecoveryRequest
    BY <1>1, <1>2 DEF RecoveryRequest, Status, TypeOK
  <1>4. /\ request'[r].status = "Executed"
        /\ request'[r].approvals = request[r].approvals
        /\ request'[r].did = request[r].did
        /\ request'[r].newController = request[r].newController
        /\ request'[r].method = request[r].method
        /\ request'[r].expiresAt = request[r].expiresAt
    BY <1>1, <1>2 DEF RecoveryRequest
  <1>5. MovesOn(r, {"Pending", "Approved"}, {"Executed"})
    <2>1. Stored(r)'
      BY <1>3, RecordAssumption DEF Stored
    <2>2. didRequests' = didRequests
      BY DEF ExecuteRecovery
    <2>. QED BY <1>1, <1>4, <2>1, <2>2 DEF MovesOn, Open
  <1>6. CountRaised(request[r].did)
    <2>. DEFINE d == request[r].did
    <2>1. d \in Did
      BY <1>1 DEF RecoveryRequest
    <2>2. config[d] \in RecoveryConfig /\ config[d] # None
      BY <2>1, PresentRecords DEF ExecuteRecovery
    <2>3. /\ config'[d] = [config[d] EXCEPT !.count = config[d].count + 1]
          /\ \A f \in Did \ {d} : config'[f] = config[f]
      BY <2>1 DEF ExecuteRecovery, TypeOK
    <2>4. config'[d].count = config[d].count + 1
      BY <2>2, <2>3 DEF RecoveryConfig
    <2>5. config'[d] # None
      BY <2>1, <2>2, ExecuteReconfigures, ReconfiguredFrame
    <2>. QED BY <2>2, <2>3, <2>4, <2>5 DEF CountRaised
  <1>7. request[r].did \in Did
    BY <1>1 DEF RecoveryRequest
  <1>. QED BY <1>2, <1>5, <1>6, <1>7

LEMMA CancelMovesOn ==
    ASSUME TypeOK, NEW r \in Id, CancelRecovery(r)
    PROVE  /\ MovesOn(r, {"Pending", "Approved", "Expired"}, {"Cancelled"}) /\ OnlyAt(r)
           /\ CountsKept
  <1>1. request[r] \in RecoveryRequest /\ Stored(r)
    BY PresentRecords DEF CancelRecovery, Cancellable
  <1>2. request'[r] = [request[r] EXCEPT !.status = "Cancelled"] /\ OnlyAt(r)
    BY DEF CancelRecovery, TypeOK, OnlyAt
  <1>3. request'[r] \in RecoveryRequest
    BY <1>1, <1>2 DEF RecoveryRequest, Status
  <1>4. /\ request'[r].status = "Cancelled"
        /\ request'[r].approvals = request[r].approvals
        /\ request'[r].did = request[r].did
        /\ request'[r].newController = request[r].newController
        /\ request'[r].method = request[r].method
        /\ request'[r].expiresAt = request[r].expiresAt
    BY <1>1, <1>2 DEF RecoveryRequest
  <1>5. Stored(r)'
    BY <1>3, RecordAssumption DEF Stored
  <1>6. request[r].status \in {"Pending", "Approved", "Expired"}
    BY <1>1 DEF CancelRecovery, Cancellable, RecoveryRequest, Status
  <1>7. config' = config /\ didRequests' = didRequests
    BY DEF CancelRecovery
  <1>. QED BY <1>1, <1>2, <1>4, <1>5, <1>6, <1>7 DEF MovesOn, CountsKept

LEMMA QuietSteps ==
    ASSUME TypeOK,
           \/ Tick \/ UNCHANGED vars
           \/ \E d \in Did, m \in Method, t \in Thresholds, l \in Locks,
                 ttp \in Address \cup {None} : ConfigureRecovery(d, m, t, l, ttp)
           \/ \E d \in Did, g \in Address : AddGuardian(d, g) \/ RemoveGuardian(d, g)
           \/ \E d \in Did, t \in Thresholds \cup {None}, l \in Locks \cup {None},
                 ttp \in Address \cup {None} : UpdateRecoveryConfig(d, t, l, ttp)
           \/ \E d \in Did : DeactivateRecovery(d)
    PROVE  request' = request /\ didRequests' = didRequests /\ CountsKept
  <1>1. ASSUME NEW d \in Did, NEW n, Reconfigured(d, n), config'[d].count = config[d].count
        PROVE  CountsKept
    BY <1>1, ReconfiguredFrame DEF CountsKept, Reconfigured
  <1>2. CASE Tick \/ UNCHANGED vars
    BY <1>2 DEF Tick, vars, CountsKept
  <1>3. ASSUME NEW d \in Did, NEW m \in Method, NEW t \in Thresholds, NEW l \in Locks,
               NEW ttp \in Address \cup {None}, ConfigureRecovery(d, m, t, l, ttp)
        PROVE  request' = request /\ didRequests' = didRequests /\ CountsKept
    BY <1>3 DEF ConfigureRecovery, CountsKept, TypeOK
  <1>4. ASSUME NEW d \in Did, NEW g \in Address, AddGuardian(d, g) \/ RemoveGuardian(d, g)
        PROVE  request' = request /\ didRequests' = didRequests /\ CountsKept
    <2>1. config[d] # None /\ config[d] \in RecoveryConfig
      BY <1>4, PresentRecords DEF AddGuardian, RemoveGuardian
    <2>2. \E n : config' = [config EXCEPT ![d].total = n]
      BY <1>4 DEF AddGuardian, RemoveGuardian
    <2>3. config'[d].count = config[d].count /\ \A e \in Did \ {d} : config'[e] = config[e]
      BY <2>1, <2>2 DEF TypeOK, RecoveryConfig
    <2>4. CountsKept
      BY <1>1, <1>4, <2>3, AddReconfigures, RemoveReconfigures
    <2>. QED BY <1>4, <2>4 DEF AddGuardian, RemoveGuardian
  <1>5. ASSUME NEW d \in Did, NEW t \in Thresholds \cup {None}, NEW l \in Locks \cup {None},
               NEW ttp \in Address \cup {None}, UpdateRecoveryConfig(d, t, l, ttp)
        PROVE  request' = request /\ didRequests' = didRequests /\ CountsKept
    <2>1. config[d] # None /\ config[d] \in RecoveryConfig
      BY <1>5, PresentRecords DEF UpdateRecoveryConfig
    <2>2. \E nt, nl, na :
              config' = [config EXCEPT ![d].threshold = nt, ![d].lock = nl, ![d].ttp = na]
      BY <1>5 DEF UpdateRecoveryConfig
    <2>3. config'[d].count = config[d].count /\ \A e \in Did \ {d} : config'[e] = config[e]
      BY <2>1, <2>2 DEF TypeOK, RecoveryConfig
    <2>4. CountsKept
      BY <1>1, <1>5, <2>3, UpdateReconfigures
    <2>. QED BY <1>5, <2>4 DEF UpdateRecoveryConfig
  <1>6. ASSUME NEW d \in Did, DeactivateRecovery(d)
        PROVE  request' = request /\ didRequests' = didRequests /\ CountsKept
    <2>1. config[d] # None /\ config[d] \in RecoveryConfig
      BY <1>6, PresentRecords DEF DeactivateRecovery
    <2>2. config'[d].count = config[d].count /\ \A e \in Did \ {d} : config'[e] = config[e]
      BY <1>6, <2>1 DEF DeactivateRecovery, TypeOK, RecoveryConfig
    <2>3. CountsKept
      BY <1>1, <1>6, <2>2, DeactivateReconfigures
    <2>. QED BY <1>6, <2>3 DEF DeactivateRecovery
  <1>. QED BY <1>2, <1>3, <1>4, <1>5, <1>6

InFlight == {"Pending", "Approved"}
NoOtherPending(d) == \A s \in Id : Stored(s) /\ request[s].did = d => ~Pending(s)

\* The four kinds of step: a request is opened, moved on without a handover,
\* executed, or none is touched.
StepOpens(d, r) == Opens(d, r) /\ OnlyAt(r) /\ NoOtherPending(d)
StepMoves(r) ==
    /\ MovesOn(r, InFlight, InFlight \cup {"Cancelled"})
    /\ request'[r].status # "Cancelled" => Pending(r)
    /\ OnlyAt(r)
    /\ CountsKept
StepExecutes(r) ==
    /\ MovesOn(r, InFlight, {"Executed"})
    /\ request[r].method = "SocialRecovery" => request[r].status = "Approved"
    /\ OnlyAt(r)
    /\ request[r].did \in Did
    /\ CountRaised(request[r].did)
StepQuiet == request' = request /\ didRequests' = didRequests /\ CountsKept

LEMMA SpacedStep ==
    ASSUME IInv, [NextSpaced]_vars
    PROVE  \/ \E d \in Did, r \in Id : StepOpens(d, r)
           \/ \E r \in Id : StepMoves(r)
           \/ \E r \in Id : StepExecutes(r)
           \/ StepQuiet
  <1>1. TypeOK
    BY DEF IInv
  <1>2. ASSUME NEW d \in Did, NEW c \in Address, ~Stored(now), InitiateRecovery(d, c)
        PROVE  \E e \in Did, r \in Id : StepOpens(e, r)
    <2>1. NoOtherPending(d)
      BY <1>2 DEF IInv, RequestInv, RequestsIndexed, InitiateRecovery, NoPendingListed,
                  NoOtherPending
    <2>. QED BY <1>1, <1>2, <2>1, InitiateOpens DEF StepOpens
  <1>3. ASSUME NEW g \in Address, NEW r \in Id, ApproveRecovery(g, r)
        PROVE  StepMoves(r)
    BY <1>1, <1>3, ApproveMovesOn DEF MovesOn, InFlight, StepMoves, ApproveRecovery
  <1>4. ASSUME NEW e \in Address, NEW r \in Id, ExecuteRecovery(e, r)
        PROVE  StepExecutes(r)
    <2>1. request[r].method = config[request[r].did].method
      BY <1>4 DEF IInv, RequestInv, TermsMatchConfig, ExecuteRecovery, Resolvable, Open
    <2>2. request[r].method = "SocialRecovery" => request[r].status = "Approved"
      BY <1>4, <2>1 DEF ExecuteRecovery, MayExecute, EnoughApproved
    <2>. QED BY <1>1, <1>4, <2>2, ExecuteMovesOn DEF InFlight, StepExecutes
  <1>5. ASSUME NEW r \in Id, CancelRecovery(r)
        PROVE  StepMoves(r)
    <2>1. request[r].status # "Expired"
      BY <1>5 DEF IInv, RequestInv, TermsMatchConfig, CancelRecovery, Cancellable
    <2>. QED BY <1>1, <1>5, <2>1, CancelMovesOn DEF MovesOn, InFlight, StepMoves
  <1>. QED
    BY <1>1, <1>2, <1>3, <1>4, <1>5, QuietSteps DEF NextSpaced, OtherSteps, StepQuiet

-----------------------------------------------------------------------------
(* The theorems. *)

LEMMA ListStep ==
    ASSUME IInv, RequestListExact, [NextSpaced]_vars
    PROVE  RequestListExact'
  <1> SUFFICES ASSUME NEW e \in Did, NEW s \in didRequests'[e]
               PROVE  Stored(s)' /\ request'[s].did = e
    BY DEF RequestListExact
  <1>0. didRequests \in [Did -> SUBSET Id]
    BY DEF IInv, TypeOK
  <1>1. ASSUME NEW d \in Did, NEW r \in Id, Opens(d, r), OnlyAt(r)
        PROVE  Stored(s)' /\ request'[s].did = e
    <2>1. CASE s \in didRequests[e]
      <3>1. Stored(s) /\ request[s].did = e /\ s \in Id
        BY <1>0, <2>1 DEF RequestListExact
      <3>2. s # r
        BY <1>1, <3>1 DEF Opens
      <3>. QED BY <1>1, <3>1, <3>2 DEF OnlyAt, Stored
    <2>2. CASE s \notin didRequests[e]
      <3>1. s = r /\ e = d
        BY <1>0, <1>1, <2>2 DEF Opens
      <3>. QED BY <1>1, <3>1 DEF Opens
    <2>. QED BY <2>1, <2>2
  <1>2. ASSUME NEW r \in Id, NEW to, MovesOn(r, InFlight, to), OnlyAt(r)
        PROVE  Stored(s)' /\ request'[s].did = e
    <2>1. Stored(s) /\ request[s].did = e /\ s \in Id
      BY <1>0, <1>2 DEF RequestListExact, MovesOn
    <2>. QED BY <1>2, <2>1 DEF OnlyAt, Stored, MovesOn
  <1>3. CASE request' = request /\ didRequests' = didRequests
    BY <1>0, <1>3 DEF RequestListExact, Stored
  <1>. QED
    BY <1>1, <1>2, <1>3, SpacedStep DEF StepOpens, StepMoves, StepExecutes, StepQuiet

LEMMA SpacedInv == SpecSpaced => []IInv
  BY SafeInit, SafeStep, SpacedIsNext, PTL DEF SpecSpaced

\* With ids never reused, the request list of a DID holds the requests of that DID
\* and no other.
THEOREM ListsExact == SpecSpaced => []RequestListExact
  <1>1. Init => RequestListExact
    BY DEF Init, RequestListExact
  <1>2. IInv /\ RequestListExact /\ [NextSpaced]_vars => RequestListExact'
    BY ListStep
  <1>. QED BY <1>1, <1>2, SpacedInv, PTL DEF SpecSpaced

\* With ids never reused, what the guardians approve is what is executed: the terms
\* of a request never change, and a settled request never changes at all.
THEOREM TermsKept == SpecSpaced => TermsFixed
  <1>1. ASSUME IInv, [NextSpaced]_vars, NEW r \in Id, Stored(r)
        PROVE  /\ request'[r].did = request[r].did
               /\ request'[r].newController = request[r].newController
               /\ request'[r].method = request[r].method
               /\ request'[r].expiresAt = request[r].expiresAt
               /\ request[r].approvals \subseteq request'[r].approvals
               /\ ~Open(r) => request'[r] = request[r]
    <2>1. ASSUME NEW d \in Did, NEW s \in Id, Opens(d, s), OnlyAt(s)
          PROVE  request'[r] = request[r]
      BY <1>1, <2>1 DEF Opens, OnlyAt
    <2>2. ASSUME NEW s \in Id, s # r, OnlyAt(s)
          PROVE  request'[r] = request[r]
      BY <2>2 DEF OnlyAt
    <2>3. ASSUME NEW to, MovesOn(r, InFlight, to)
          PROVE  /\ request'[r].did = request[r].did
                 /\ request'[r].newController = request[r].newController
                 /\ request'[r].method = request[r].method
                 /\ request'[r].expiresAt = request[r].expiresAt
                 /\ request[r].approvals \subseteq request'[r].approvals
                 /\ Open(r)
      BY <2>3 DEF MovesOn, InFlight, Open
    <2>4. CASE \E d \in Did, s \in Id : StepOpens(d, s)
      BY <2>1, <2>4 DEF StepOpens
    <2>5. CASE \E s \in Id : StepMoves(s) \/ StepExecutes(s)
      BY <2>2, <2>3, <2>5 DEF StepMoves, StepExecutes
    <2>6. CASE StepQuiet
      BY <2>6 DEF StepQuiet
    <2>. QED BY <1>1, <2>4, <2>5, <2>6, SpacedStep
  <1>2. IInv /\ [NextSpaced]_vars =>
            [\A r \in Id : Stored(r) =>
                /\ request'[r].did = request[r].did
                /\ request'[r].newController = request[r].newController
                /\ request'[r].method = request[r].method
                /\ request'[r].expiresAt = request[r].expiresAt
                /\ request[r].approvals \subseteq request'[r].approvals
                /\ ~Open(r) => request'[r] = request[r]]_vars
    BY <1>1
  <1>. QED BY <1>2, SpacedInv, PTL DEF SpecSpaced, TermsFixed

\* The executed requests of a DID.
Executed(d) == {r \in Id : Stored(r) /\ request[r].did = d /\ request[r].status = "Executed"}

LEMMA CountedStep ==
    ASSUME IInv, HandoversCounted, [NextSpaced]_vars
    PROVE  HandoversCounted'
  <1>1. \A e \in Did : IsFiniteSet(Executed(e))
    <2>1. IsFiniteSet(Id)
      BY BoundsAssumption, FS_Interval DEF Id
    <2>2. \A e \in Did : Executed(e) \subseteq Id
      BY DEF Executed
    <2>. QED
      BY <2>1, <2>2, FS_Subset
  <1>2. \A e \in Did : config[e] # None => config[e].count = Cardinality(Executed(e))
    BY DEF HandoversCounted, Executed
  <1>3. \A e \in Did : config[e] = None => Executed(e) = {}
    BY DEF IInv, RequestInv, TermsMatchConfig, Executed
  <1>4. ASSUME \A e \in Did : Executed(e)' = Executed(e), CountsKept
        PROVE  HandoversCounted'
    <2>1. \A e \in Did : config'[e] # None => config'[e].count = Cardinality(Executed(e)')
      BY <1>2, <1>3, <1>4, FS_EmptySet DEF CountsKept
    <2>. QED BY <2>1 DEF HandoversCounted, Executed
  <1>5. ASSUME NEW d \in Did, NEW r \in Id, Opens(d, r), OnlyAt(r)
        PROVE  HandoversCounted'
    <2>1. \A e \in Did : Executed(e)' = Executed(e)
      BY <1>5 DEF Executed, Opens, OnlyAt, Stored
    <2>2. CountsKept
      BY <1>5 DEF Opens, CountsKept
    <2>. QED BY <1>4, <2>1, <2>2
  <1>6. ASSUME NEW r \in Id, MovesOn(r, InFlight, InFlight \cup {"Cancelled"}), OnlyAt(r),
               CountsKept
        PROVE  HandoversCounted'
    <2>1. \A e \in Did : Executed(e)' = Executed(e)
      BY <1>6 DEF Executed, MovesOn, OnlyAt, Stored, InFlight
    <2>. QED BY <1>4, <1>6, <2>1
  <1>7. ASSUME NEW r \in Id, MovesOn(r, InFlight, {"Executed"}), OnlyAt(r),
               request[r].did \in Did, CountRaised(request[r].did)
        PROVE  HandoversCounted'
    <2>0. PICK d \in Did : d = request[r].did
      BY <1>7
    <2>1. \A e \in Did \ {d} : Executed(e)' = Executed(e)
      BY <1>7, <2>0 DEF Executed, MovesOn, OnlyAt, Stored, InFlight
    <2>2. r \notin Executed(d) /\ Executed(d)' = Executed(d) \cup {r}
      BY <1>7, <2>0 DEF Executed, MovesOn, OnlyAt, Stored, InFlight
    <2>3. Cardinality(Executed(d)') = Cardinality(Executed(d)) + 1
      BY <1>1, <1>7, <2>2, FS_AddElement
    <2>4. \A e \in Did : config'[e] # None => config'[e].count = Cardinality(Executed(e)')
      BY <1>2, <1>7, <2>0, <2>1, <2>3 DEF CountRaised
    <2>. QED BY <2>4 DEF HandoversCounted, Executed
  <1>8. CASE request' = request /\ CountsKept
    <2>1. \A e \in Did : Executed(e)' = Executed(e)
      BY <1>8 DEF Executed, Stored
    <2>. QED BY <1>4, <1>8, <2>1
  <1>. QED
    BY <1>5, <1>6, <1>7, <1>8, SpacedStep DEF StepOpens, StepMoves, StepExecutes, StepQuiet

\* With ids never reused, recovery_count counts every executed request once.
THEOREM EveryHandoverCounted == SpecSpaced => []HandoversCounted
  <1>1. Init => HandoversCounted
    BY DEF Init, HandoversCounted
  <1>2. IInv /\ HandoversCounted /\ [NextSpaced]_vars => HandoversCounted'
    BY CountedStep
  <1>. QED BY <1>1, <1>2, SpacedInv, PTL DEF SpecSpaced

-----------------------------------------------------------------------------
(***************************************************************************)
(* DIDRecovery implements RecoveryLifecycle: the initial state maps to its *)
(* initial state, and each step to a step of it or to a stutter.           *)
(***************************************************************************)
NeedsConsent == {r \in Id : Stored(r) /\ request[r].method = "SocialRecovery"}

\* The requests other than r keep what they map to.
LEMMA OthersKept ==
    ASSUME NEW r \in Id, OnlyAt(r), NEW s \in Id \ {r}
    PROVE  /\ AskedOf(s)' = AskedOf(s)
           /\ PhaseAt(s)' = PhaseAt(s)
           /\ s \in NeedsConsent' <=> s \in NeedsConsent
  BY DEF OnlyAt, Stored, AskedOf, PhaseAt, NeedsConsent

\* Counts that are kept map to counts that are kept.
LEMMA CountsKeptMapped ==
    ASSUME CountsKept
    PROVE  \A d \in Did : CountOf(d)' = CountOf(d)
  BY DEF CountsKept, CountOf

\* A request opened under a fresh id is asked for.
LEMMA OpensAsks ==
    ASSUME TypeOK, NEW d \in Did, NEW r \in Id, StepOpens(d, r)
    PROVE  Lifecycle!Ask(r, d)
  <1>1. PhaseAt(r) = "new"
    BY DEF StepOpens, Opens, PhaseAt
  <1>2. \A s \in Id : AskedOf(s) = d => PhaseAt(s) # "pending"
    <2>1. \A s \in Id : Stored(s) => request[s].status \in Status
      BY PresentRecords DEF RecoveryRequest
    <2>2. \A s \in Id : Stored(s) /\ request[s].did = d => request[s].status # "Pending"
      BY DEF StepOpens, NoOtherPending, Pending
    <2>. QED BY <2>1, <2>2 DEF AskedOf, PhaseAt, PhaseOf, Status
  <1>3. [s \in Id |-> AskedOf(s)]' = [[s \in Id |-> AskedOf(s)] EXCEPT ![r] = d]
    <2>1. AskedOf(r)' = d
      BY DEF StepOpens, Opens, AskedOf
    <2>2. \A s \in Id \ {r} : AskedOf(s)' = AskedOf(s)
      BY OthersKept DEF StepOpens
    <2>. QED BY <2>1, <2>2
  <1>4. [s \in Id |-> PhaseAt(s)]' = [[s \in Id |-> PhaseAt(s)] EXCEPT ![r] = "pending"]
    <2>1. PhaseAt(r)' = "pending"
      BY DEF StepOpens, Opens, PhaseAt, PhaseOf
    <2>2. \A s \in Id \ {r} : PhaseAt(s)' = PhaseAt(s)
      BY OthersKept DEF StepOpens
    <2>. QED BY <2>1, <2>2
  <1>5. NeedsConsent' \in {NeedsConsent, NeedsConsent \cup {r}}
    <2>1. \A s \in Id \ {r} : s \in NeedsConsent' <=> s \in NeedsConsent
      BY OthersKept DEF StepOpens
    <2>2. r \notin NeedsConsent
      BY DEF StepOpens, Opens, NeedsConsent
    <2>. QED BY <2>1, <2>2 DEF NeedsConsent
  <1>6. [e \in Did |-> CountOf(e)]' = [e \in Did |-> CountOf(e)]
    BY DEF StepOpens, Opens, CountOf
  <1>. QED BY <1>1, <1>2, <1>3, <1>4, <1>5, <1>6 DEF Lifecycle!Ask, NeedsConsent

\* What a request that moves on within its terms keeps, and where its phase goes.
LEMMA MovesOnMapped ==
    ASSUME NEW r \in Id, NEW from, NEW to, MovesOn(r, from, to), OnlyAt(r)
    PROVE  /\ [s \in Id |-> AskedOf(s)]' = [s \in Id |-> AskedOf(s)]
           /\ NeedsConsent' = NeedsConsent
           /\ [s \in Id |-> PhaseAt(s)]' =
                 [[s \in Id |-> PhaseAt(s)] EXCEPT ![r] = PhaseOf(request'[r].status)]
           /\ PhaseAt(r) = PhaseOf(request[r].status)
  <1>1. AskedOf(r)' = AskedOf(r) /\ (r \in NeedsConsent' <=> r \in NeedsConsent)
    BY DEF MovesOn, AskedOf, NeedsConsent
  <1>2. PhaseAt(r)' = PhaseOf(request'[r].status) /\ PhaseAt(r) = PhaseOf(request[r].status)
    BY DEF MovesOn, PhaseAt, PhaseOf
  <1>3. \A s \in Id \ {r} : AskedOf(s)' = AskedOf(s) /\ PhaseAt(s)' = PhaseAt(s)
    BY OthersKept
  <1>4. NeedsConsent' = NeedsConsent
    <2>1. \A s \in Id \ {r} : s \in NeedsConsent' <=> s \in NeedsConsent
      BY OthersKept
    <2>. QED BY <1>1, <2>1 DEF NeedsConsent
  <1>. QED BY <1>1, <1>2, <1>3, <1>4

\* An approval gives consent or adds to it; a cancellation withdraws.
LEMMA MovesMapped ==
    ASSUME TypeOK, NEW r \in Id, StepMoves(r)
    PROVE  Lifecycle!Consent(r) \/ Lifecycle!Withdraw(r) \/ UNCHANGED Lifecycle!vars
  <1>1. MovesOn(r, InFlight, InFlight \cup {"Cancelled"}) /\ OnlyAt(r)
    BY DEF StepMoves
  <1>2. /\ [s \in Id |-> AskedOf(s)]' = [s \in Id |-> AskedOf(s)]
        /\ NeedsConsent' = NeedsConsent
        /\ [s \in Id |-> PhaseAt(s)]' =
              [[s \in Id |-> PhaseAt(s)] EXCEPT ![r] = PhaseOf(request'[r].status)]
        /\ PhaseAt(r) = PhaseOf(request[r].status)
    BY <1>1, MovesOnMapped
  <1>3. [d \in Did |-> CountOf(d)]' = [d \in Did |-> CountOf(d)]
    BY CountsKeptMapped DEF StepMoves
  <1>4. CASE request'[r].status = "Cancelled"
    <2>1. PhaseAt(r) \in {"pending", "consented"}
      BY <1>1, <1>2 DEF MovesOn, InFlight, PhaseOf
    <2>2. PhaseOf(request'[r].status) = "withdrawn"
      BY <1>4 DEF PhaseOf
    <2>. QED BY <1>2, <1>3, <2>1, <2>2 DEF Lifecycle!Withdraw, NeedsConsent
  <1>5. CASE request'[r].status = "Approved"
    <2>1. PhaseAt(r) = "pending"
      BY <1>2, <1>5 DEF StepMoves, Pending, PhaseOf
    <2>2. PhaseOf(request'[r].status) = "consented"
      BY <1>5 DEF PhaseOf
    <2>. QED BY <1>2, <1>3, <2>1, <2>2 DEF Lifecycle!Consent, NeedsConsent
  <1>6. CASE request'[r].status = "Pending"
    <2>1. PhaseAt(r) = PhaseOf(request'[r].status)
      BY <1>2, <1>6 DEF StepMoves, Pending
    <2>2. [s \in Id |-> PhaseAt(s)]' = [s \in Id |-> PhaseAt(s)]
      BY <1>2, <2>1
    <2>. QED BY <1>2, <1>3, <2>2 DEF Lifecycle!vars, NeedsConsent
  <1>. QED BY <1>1, <1>4, <1>5, <1>6 DEF MovesOn, InFlight

\* An execution is a handover: consented, if the request needs consent, and counted.
LEMMA ExecutesMapped ==
    ASSUME TypeOK, NEW r \in Id, StepExecutes(r)
    PROVE  Lifecycle!Handover(r)
  <1>1. MovesOn(r, InFlight, {"Executed"}) /\ OnlyAt(r)
    BY DEF StepExecutes
  <1>2. /\ [s \in Id |-> AskedOf(s)]' = [s \in Id |-> AskedOf(s)]
        /\ NeedsConsent' = NeedsConsent
        /\ [s \in Id |-> PhaseAt(s)]' =
              [[s \in Id |-> PhaseAt(s)] EXCEPT ![r] = PhaseOf(request'[r].status)]
        /\ PhaseAt(r) = PhaseOf(request[r].status)
    BY <1>1, MovesOnMapped
  <1>3. PhaseAt(r) \in {"pending", "consented"} /\ PhaseOf(request'[r].status) = "done"
    BY <1>1, <1>2 DEF MovesOn, InFlight, PhaseOf
  <1>4. r \in NeedsConsent => PhaseAt(r) = "consented"
    BY <1>2 DEF StepExecutes, NeedsConsent, PhaseOf
  <1>5. [d \in Did |-> CountOf(d)]' = [[d \in Did |-> CountOf(d)] EXCEPT ![AskedOf(r)] = @ + 1]
    <2>1. PICK e \in Did : e = request[r].did
      BY DEF StepExecutes
    <2>2. AskedOf(r) = e
      BY <1>1, <2>1 DEF AskedOf, MovesOn
    <2>3. CountOf(e)' = CountOf(e) + 1
      BY <2>1 DEF StepExecutes, CountRaised, CountOf
    <2>4. \A d \in Did \ {e} : CountOf(d)' = CountOf(d)
      BY <2>1 DEF StepExecutes, CountRaised, CountOf
    <2>. QED BY <2>2, <2>3, <2>4
  <1>6. [s \in Id |-> AskedOf(s)][r] = AskedOf(r)
    OBVIOUS
  <1>. QED BY <1>2, <1>3, <1>4, <1>5, <1>6 DEF Lifecycle!Handover, NeedsConsent

\* With ids never reused, the contract implements the lifecycle, whatever is
\* configured, added, removed and deactivated around the requests.
THEOREM ImplementsLifecycle == SpecSpaced => KeepsLifecycle
  <1>1. Init => Lifecycle!Init
    BY DEF Init, Lifecycle!Init, Stored, AskedOf, PhaseAt, CountOf
  <1>2. IInv /\ [NextSpaced]_vars => [Lifecycle!Next]_(Lifecycle!vars)
    <2> SUFFICES ASSUME IInv, [NextSpaced]_vars
                 PROVE  [Lifecycle!Next]_(Lifecycle!vars)
      OBVIOUS
    <2>1. TypeOK
      BY DEF IInv
    <2>2. ASSUME NEW d \in Did, NEW r \in Id, StepOpens(d, r)
          PROVE  Lifecycle!Next
      BY <2>1, <2>2, OpensAsks DEF Lifecycle!Next
    <2>3. ASSUME NEW r \in Id, StepMoves(r)
          PROVE  Lifecycle!Next \/ UNCHANGED Lifecycle!vars
      BY <2>1, <2>3, MovesMapped DEF Lifecycle!Next
    <2>4. ASSUME NEW r \in Id, StepExecutes(r)
          PROVE  Lifecycle!Next
      BY <2>1, <2>4, ExecutesMapped DEF Lifecycle!Next
    <2>5. CASE StepQuiet
      <3>1. \A r \in Id : AskedOf(r)' = AskedOf(r) /\ PhaseAt(r)' = PhaseAt(r)
                         /\ (r \in NeedsConsent' <=> r \in NeedsConsent)
        BY <2>5 DEF StepQuiet, AskedOf, PhaseAt, NeedsConsent, Stored
      <3>2. \A d \in Did : CountOf(d)' = CountOf(d)
        BY <2>5, CountsKeptMapped DEF StepQuiet
      <3>3. NeedsConsent' = NeedsConsent
        BY <3>1 DEF NeedsConsent
      <3>. QED BY <3>1, <3>2, <3>3 DEF Lifecycle!vars, NeedsConsent
    <2>. QED BY <2>2, <2>3, <2>4, <2>5, SpacedStep
  <1>. QED BY <1>1, <1>2, SpacedInv, PTL DEF SpecSpaced, KeepsLifecycle, Lifecycle!Spec
=============================================================================
