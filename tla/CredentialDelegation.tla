------------------------- MODULE CredentialDelegation -------------------------
(***************************************************************************)
(* Delegated issuance (src/src/credential_issuer.rs, #92): an issuer lets  *)
(* a delegate issue a limited number of credentials in its name, until a   *)
(* date or until it revokes the delegation.                                *)
(*                                                                         *)
(* Delegation ids ("del:<timestamp>:<sequence>") are the ledger time, like *)
(* credential ids.  The authorized types only restrict the types a         *)
(* credential may name; the model's delegates name authorized ones.  The   *)
(* id lists of delegates and delegators are taken as sets.  A delegated    *)
(* issue past the expiry sets active to FALSE and returns Err, so that the *)
(* host rolls the write back.  The history variable via tells through      *)
(* which delegation a credential was issued; only properties read it.      *)
(***************************************************************************)
EXTENDS CredentialIssuer

CONSTANTS
    Limits      \* max_issuances a delegator may pass

ASSUME DelegationInputAssumption == Limits \subseteq Nat \ {0}

VARIABLES
    delegation,     \* CredKey::Delegation(id)
    delegateAuths,  \* CredKey::DelegateAuths(delegate), as the set of its ids
    delegatorAuths, \* CredKey::DelegatorAuths(delegator), as the set of its ids
    via             \* history: the delegation a credential was issued through

grantVars == <<delegation, delegateAuths, delegatorAuths>>
delegationVars == <<issuerVars, grantVars, via>>

Delegation ==
    [delegator : Address, delegate : Address, max : Limits, issued : Nat,
     expires : Expiries, active : BOOLEAN]

ASSUME DelegationRecordAssumption == None \notin Delegation

DelegationTypeOK ==
    /\ IssuerTypeOK
    /\ delegation \in [Id -> Delegation \cup {None}]
    /\ \A g \in Id : delegation[g] # None => delegation[g].issued <= delegation[g].max
    /\ delegateAuths \in [Address -> SUBSET Id]
    /\ delegatorAuths \in [Address -> SUBSET Id]
    /\ via \in [Id -> Id \cup {None}]

DelegationInit ==
    /\ IssuerInit
    /\ delegation = [g \in Id |-> None]
    /\ delegateAuths = [a \in Address |-> {}]
    /\ delegatorAuths = [a \in Address |-> {}]
    /\ via = [c \in Id |-> None]

-----------------------------------------------------------------------------
Granted(g) == delegation[g] # None

AuthorizeDelegation(i, e, max, expires) ==
    /\ expires > now
    /\ delegation' = [delegation EXCEPT ![now] =
          [delegator |-> i, delegate |-> e, max |-> max, issued |-> 0,
           expires |-> expires, active |-> TRUE]]
    /\ delegateAuths' = [delegateAuths EXCEPT ![e] = @ \cup {now}]
    /\ delegatorAuths' = [delegatorAuths EXCEPT ![i] = @ \cup {now}]
    /\ UNCHANGED <<issuerVars, via>>

RevokeDelegation(i, g) ==
    /\ Granted(g) /\ delegation[g].delegator = i /\ delegation[g].active
    /\ delegation' = [delegation EXCEPT ![g].active = FALSE]
    /\ UNCHANGED <<issuerVars, delegateAuths, delegatorAuths, via>>

\* Faults: a revoked delegation goes on (DelegationHonoured); the expiry is not
\* looked at (DelegationHonoured).
NotRevoked_Unchecked(g) == TRUE
NotRevoked(g) == delegation[g].active
InTime_Unchecked(g) == TRUE
InTime(g) == now <= delegation[g].expires
BelowLimit(g) == delegation[g].issued < delegation[g].max

CanIssueFor(e, g) ==
    /\ Granted(g) /\ delegation[g].delegate = e
    /\ NotRevoked(g) /\ InTime(g) /\ BelowLimit(g)

\* Not limited in rate.
IssueDelegatedCredential(e, g, item) ==
    /\ CanIssueFor(e, g)
    /\ StoreCredentials(delegation[g].delegator, <<item>>)
    /\ delegation' = [delegation EXCEPT ![g].issued = @ + 1]
    /\ via' = [via EXCEPT ![now] = g]
    /\ UNCHANGED <<bucket, delegateAuths, delegatorAuths>>

-----------------------------------------------------------------------------
Authorize ==
    \E i, e \in Address, max \in Limits, x \in Expiries : AuthorizeDelegation(i, e, max, x)
RevokeGrant == \E i \in Address, g \in Id : RevokeDelegation(i, g)
IssueForOther ==
    \E e \in Address, g \in Id, item \in Item : IssueDelegatedCredential(e, g, item)

\* What issuers do themselves.
OwnSteps ==
    /\ UNCHANGED <<grantVars, via>>
    /\ \/ \E i \in Address, item \in Item : ~Stored(now) /\ IssueCredentials(i, <<item>>)
       \/ \E i \in Address, c \in Id : RevokeCredential(i, c, None)
       \/ CloseLedger

\* At most one credential is issued and one delegation granted per ledger, so that no id
\* is used twice.
NextSpaced ==
    \/ ~Granted(now) /\ Authorize
    \/ RevokeGrant
    \/ ~Stored(now) /\ IssueForOther
    \/ OwnSteps

SpecDelegating == DelegationInit /\ [][NextSpaced]_delegationVars

-----------------------------------------------------------------------------
\* What a delegate issues stays within its delegation, whatever the delegator and other
\* delegates do meanwhile: in the delegator's name, between grant and expiry, and as
\* many as the delegation counts; and the delegator finds every such credential on the
\* list its bulk revocation walks.
IssuedWithinDelegation ==
    /\ \A c \in Id : via[c] # None =>
          LET g == delegation[via[c]] IN
          /\ Stored(c) /\ credential[c].issuer = g.delegator
          /\ c \in ToSet(issuerCreds[g.delegator])
          /\ via[c] <= c /\ c <= g.expires
    /\ \A g \in Id : Granted(g) =>
          Cardinality({c \in Id : via[c] = g}) = delegation[g].issued

\* A revoked delegation never comes back or counts another credential, and no
\* delegation ever changes its parties, limit or date.
DelegationKept ==
    \A g \in Id : Granted(g) =>
        /\ ~delegation[g].active => delegation'[g] = delegation[g]
        /\ \A field \in {"delegator", "delegate", "max", "expires"} :
              delegation'[g][field] = delegation[g][field]

\* Delegates issue within what they were granted, and what was revoked or granted is
\* not rewritten behind the delegator's back.
DelegationHonoured == [][IssuedWithinDelegation' /\ DelegationKept]_delegationVars
=============================================================================
