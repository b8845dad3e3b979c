--------------------------- MODULE RecoveryLifecycle ---------------------------
(***************************************************************************)
(* What DIDRecovery promises about a request, without ledgers, guardians,  *)
(* thresholds, services or configurations: a request is asked for once,    *)
(* for one DID; while it is pending no other one of the DID is; it is      *)
(* settled once, by a handover or a withdrawal; a request that needs       *)
(* consent is not handed over without it; and handovers are counted.       *)
(***************************************************************************)
EXTENDS Naturals

CONSTANTS
    Did,    \* decentralized identifiers
    Id,     \* request ids
    None    \* no DID: the request has not been asked for

VARIABLES
    asked,      \* the DID each request was asked for
    phase,      \* "new", "pending", "consented", "done" or "withdrawn"
    byConsent,  \* the requests that need consent
    handovers   \* the number of handovers of each DID

vars == <<asked, phase, byConsent, handovers>>

Init ==
    /\ asked = [r \in Id |-> None]
    /\ phase = [r \in Id |-> "new"]
    /\ byConsent = {}
    /\ handovers = [d \in Did |-> 0]

Ask(r, d) ==
    /\ phase[r] = "new"
    /\ \A s \in Id : asked[s] = d => phase[s] # "pending"
    /\ asked' = [asked EXCEPT ![r] = d]
    /\ phase' = [phase EXCEPT ![r] = "pending"]
    /\ byConsent' \in {byConsent, byConsent \cup {r}}
    /\ UNCHANGED handovers

Consent(r) ==
    /\ phase[r] = "pending"
    /\ phase' = [phase EXCEPT ![r] = "consented"]
    /\ UNCHANGED <<asked, byConsent, handovers>>

Handover(r) ==
    /\ phase[r] \in {"pending", "consented"}
    /\ r \in byConsent => phase[r] = "consented"
    /\ phase' = [phase EXCEPT ![r] = "done"]
    /\ handovers' = [handovers EXCEPT ![asked[r]] = @ + 1]
    /\ UNCHANGED <<asked, byConsent>>

Withdraw(r) ==
    /\ phase[r] \in {"pending", "consented"}
    /\ phase' = [phase EXCEPT ![r] = "withdrawn"]
    /\ UNCHANGED <<asked, byConsent, handovers>>

Next ==
    \E r \in Id :
        \/ \E d \in Did : Ask(r, d)
        \/ Consent(r) \/ Handover(r) \/ Withdraw(r)

Spec == Init /\ [][Next]_vars
=============================================================================
