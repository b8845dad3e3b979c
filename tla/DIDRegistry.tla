----------------------------- MODULE DIDRegistry -----------------------------
(***************************************************************************)
(* The documents of the DIDRegistry contract (src/src/did_registry.rs): a  *)
(* controller creates DIDs at a limited rate, changes its document and     *)
(* deactivates it.  DIDMultiSig adds the multi-signature operations.       *)
(*                                                                         *)
(* Every call but create_did finds the document through the controller's   *)
(* address, which names one DID at a time, the last one created.  An       *)
(* action is a call that returns Ok; the others are rolled back.  DIDs are *)
(* well formed.  Verification methods and services are replaced as a whole *)
(* and read by no operation; the time of the last change stands for them.  *)
(* The authentication list is taken as a set: removing a method removes    *)
(* all its occurrences.  A bucket with a count of zero is an absent one.   *)
(*                                                                         *)
(* An operator F_Fault is a faulty variant of F that no action uses: with  *)
(* it in place of F the property named beside it must fail.                *)
(***************************************************************************)
EXTENDS RateLimit, FiniteSets

CONSTANTS
    Did,            \* decentralized identifiers
    Address,        \* controllers
    AuthMethod,     \* authentication methods
    None,           \* Option::None, and a storage key that is not present
    MaxCalls,       \* CREATE_DID_MAX
    Window,         \* CREATE_DID_WINDOW
    MaxTime         \* bound: the last ledger the model closes

ASSUME BoundsAssumption == MaxTime \in Nat
ASSUME LimitAssumption == MaxCalls \in Nat \ {0} /\ Window \in Nat \ {0}
ASSUME NoneAssumption == None \notin Did

VARIABLES
    now,            \* ledger timestamp (and sequence)
    doc,            \* DidKey::Doc(did)
    controllerDid,  \* DidKey::Controller(address)
    bucket          \* the rate limit of create_did, per controller

docVars == <<now, doc, controllerDid, bucket>>

Time == 0 .. MaxTime

DIDDocument ==
    [controller : Address, authentication : SUBSET AuthMethod,
     created : Time, updated : Time, deactivated : BOOLEAN]

ASSUME RecordAssumption == None \notin DIDDocument

DocTypeOK ==
    /\ now \in Time
    /\ doc \in [Did -> DIDDocument \cup {None}]
    /\ controllerDid \in [Address -> Did \cup {None}]
    /\ bucket \in [Address -> [count : 0 .. MaxCalls, start : Time]]

DocInit ==
    /\ now = 0
    /\ doc = [d \in Did |-> None]
    /\ controllerDid = [a \in Address |-> None]
    /\ bucket = [a \in Address |-> [count |-> 0, start |-> 0]]

-----------------------------------------------------------------------------
Created(d) == doc[d] # None

\* Fault: the document is not looked at (ClosedNeverChanges).
MayChange_Deactivated(a, d) == controllerDid[a] = d /\ Created(d)
\* The checks every change of a document starts with.
MayChange(a, d) == controllerDid[a] = d /\ Created(d) /\ ~doc[d].deactivated

CloseLedger ==
    /\ now < MaxTime
    /\ now' = now + 1
    /\ UNCHANGED <<doc, controllerDid, bucket>>

CreateDid(a, d) ==
    LET current == CurrentBucket(bucket[a].count > 0, bucket[a], now, Window) IN
    /\ Admits(current, 1, MaxCalls)
    /\ ~Created(d)
    /\ doc' = [doc EXCEPT ![d] =
          [controller |-> a, authentication |-> {}, created |-> now, updated |-> now,
           deactivated |-> FALSE]]
    /\ controllerDid' = [controllerDid EXCEPT ![a] = d]
    /\ bucket' = [bucket EXCEPT ![a] = AfterCalls(current, 1)]
    /\ UNCHANGED now

Changed(d, auth, deactivated) ==
    /\ doc' = [doc EXCEPT ![d].authentication = auth, ![d].updated = now,
                          ![d].deactivated = deactivated]
    /\ UNCHANGED <<now, controllerDid, bucket>>

UpdateDid(a, d) == MayChange(a, d) /\ Changed(d, doc[d].authentication, FALSE)

DeactivateDid(a, d) == MayChange(a, d) /\ Changed(d, doc[d].authentication, TRUE)

AddAuthentication(a, d, m) ==
    MayChange(a, d) /\ Changed(d, doc[d].authentication \cup {m}, FALSE)

RemoveAuthentication(a, d, m) ==
    /\ MayChange(a, d)
    /\ m \in doc[d].authentication
    /\ Changed(d, doc[d].authentication \ {m}, FALSE)

-----------------------------------------------------------------------------
DocSteps ==
    \/ CloseLedger
    \/ \E a \in Address, d \in Did :
          \/ CreateDid(a, d) \/ UpdateDid(a, d) \/ DeactivateDid(a, d)
          \/ \E m \in AuthMethod : AddAuthentication(a, d, m) \/ RemoveAuthentication(a, d, m)

-----------------------------------------------------------------------------
\* No document is dated ahead: with it ControllerOwns is inductive.
CreatedPast == \A d \in Did : Created(d) => doc[d].created <= now

Named(d) == controllerDid[doc[d].controller]

\* The address map and the documents agree: what an address names is a document of its
\* own, created no earlier than any other it controls, and every controller has a name.
ControllerOwns ==
    \A d \in Did : Created(d) =>
        /\ Named(d) # None /\ Created(Named(d))
        /\ doc[Named(d)].controller = doc[d].controller
        /\ doc[d].created <= doc[Named(d)].created

\* A document stays with its controller, and a deactivated one never changes again.
DocumentsKept ==
    \A d \in Did : Created(d) =>
        /\ doc'[d].controller = doc[d].controller
        /\ doc[d].deactivated => doc'[d] = doc[d]
=============================================================================
