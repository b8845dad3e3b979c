-------------------------- MODULE CredentialVerdicts --------------------------
(***************************************************************************)
(* CredentialClient (src/sdk/src/credentialClient.ts) at work on one       *)
(* credential: verifications, each of three reads one after the other and  *)
(* a cached verdict, while the credential is revoked through the client or *)
(* elsewhere and expires.  What is awaited ends in any order.  The deployed *)
(* contract and the clocks are external.                                   *)
(*                                                                         *)
(* The verdict's revoked is left out: the status comes back as bytes and   *)
(* is compared with a string, so it is never set.  A reading is handed out *)
(* when its last answer arrives.  Presentations and batches verify their   *)
(* credentials one by one and keep nothing.                                *)
(***************************************************************************)
EXTENDS Naturals

CONSTANTS
    VerifyCall,         \* verifications in flight
    MaxRevocations      \* bound: calls of revokeCredential

ASSUME VerdictsAssumption == MaxRevocations \in Nat

VARIABLES
    revoked,            \* external: whether the ledger has the revocation
    lapsed,             \* external: the clocks by which the credential has expired
    revocations,        \* external: revocations sent that may still get into a ledger
    readable,           \* whether the stored data parses: the client itself stores them
                        \* compressed, and parseCredential takes them for JSON
    check,              \* per verification: what it awaits and the validity it read
    cached,             \* the cached result: at most one
    revoking,           \* what revokeCredential awaits
    asked               \* calls of revokeCredential, counted for the bound

chain == <<revoked, lapsed, revocations, readable>>
verdictVars == <<chain, check, cached, revoking, asked>>

\* The contract compares seconds of the ledger, the client milliseconds of its own.
Clock == {"ledger", "client"}
NoCheck == [awaits |-> "none", valid |-> FALSE]

VerdictsInit ==
    /\ revoked = FALSE
    /\ lapsed = {}
    /\ revocations = 0
    /\ readable \in BOOLEAN
    /\ check = [v \in VerifyCall |-> NoCheck]
    /\ cached = {}
    /\ revoking = "none"
    /\ asked = 0

-----------------------------------------------------------------------------
(* verifyCredential *)

\* verify_credential of the contract.
Valid == ~revoked /\ "ledger" \notin lapsed

\* isCredentialExpired asks the client's clock.
Verdict(valid) == [valid |-> valid, expired |-> "client" \in lapsed]

\* With a cached result the call returns at once.
Verify(v) ==
    /\ check[v] = NoCheck /\ cached = {}
    /\ check' = [check EXCEPT ![v].awaits = "record"]
    /\ UNCHANGED <<chain, cached, revoking, asked>>

RecordArrives(v) ==
    /\ check[v].awaits = "record" /\ readable
    /\ check' = [check EXCEPT ![v].awaits = "validity"]
    /\ UNCHANGED <<chain, cached, revoking, asked>>

ValidityArrives(v) ==
    /\ check[v].awaits = "validity"
    /\ check' = [check EXCEPT ![v] = [awaits |-> "status", valid |-> Valid]]
    /\ UNCHANGED <<chain, cached, revoking, asked>>

StatusArrives(v) ==
    /\ check[v].awaits = "status"
    /\ cached' = {Verdict(check[v].valid)}
    /\ check' = [check EXCEPT ![v] = NoCheck]
    /\ UNCHANGED <<chain, revoking, asked>>

\* Fault: a verification that failed is remembered as a negative one (VerdictsSettle).
AfterError_Negative == {Verdict(FALSE)}
AfterError == cached

\* A read fails or is not understood: the call throws.
VerifyThrows(v) ==
    /\ check[v].awaits # "none"
    /\ check' = [check EXCEPT ![v] = NoCheck]
    /\ cached' = AfterError
    /\ UNCHANGED <<chain, revoking, asked>>

\* The entry's thirty seconds are over.
VerdictExpires ==
    /\ cached # {}
    /\ cached' = {}
    /\ UNCHANGED <<chain, check, revoking, asked>>

-----------------------------------------------------------------------------
(* revokeCredential *)

Revoke ==
    /\ revoking = "none" /\ asked < MaxRevocations
    /\ asked' = asked + 1
    /\ revoking' = "account"
    /\ UNCHANGED <<chain, check, cached>>

AccountArrives ==
    /\ revoking = "account" /\ revoking' = "prepare"
    /\ UNCHANGED <<chain, check, cached, asked>>

\* The simulation lets the call through.
RevocationPrepared ==
    /\ revoking = "prepare" /\ revoking' = "send"
    /\ UNCHANGED <<chain, check, cached, asked>>

RevocationThrows ==
    /\ revoking # "none" /\ revoking' = "none"
    /\ \/ UNCHANGED revocations
       \/ revoking = "send" /\ revocations' = revocations + 1
    /\ UNCHANGED <<revoked, lapsed, readable, check, cached, asked>>

\* The status of the submission is not looked at: it may have been refused.
RevocationReturns ==
    /\ revoking = "send" /\ revoking' = "none"
    /\ revocations' \in {revocations, revocations + 1}
    /\ cached' = {}
    /\ UNCHANGED <<revoked, lapsed, readable, check, asked>>

-----------------------------------------------------------------------------
(* The ledger and the clocks (external). *)

RevocationLands ==
    /\ revocations > 0
    /\ revocations' = revocations - 1
    /\ revoked' \in {revoked, TRUE}
    /\ UNCHANGED <<lapsed, readable, check, cached, revoking, asked>>

RevokedElsewhere ==
    /\ ~revoked /\ revoked' = TRUE
    /\ UNCHANGED <<lapsed, revocations, readable, check, cached, revoking, asked>>

Lapses(k) ==
    /\ k \notin lapsed
    /\ lapsed' = lapsed \cup {k}
    /\ UNCHANGED <<revoked, revocations, readable, check, cached, revoking, asked>>

VerdictsNext ==
    \/ \E v \in VerifyCall :
          \/ Verify(v) \/ RecordArrives(v) \/ ValidityArrives(v) \/ StatusArrives(v)
          \/ VerifyThrows(v)
    \/ VerdictExpires
    \/ Revoke \/ AccountArrives \/ RevocationPrepared
    \/ RevocationThrows \/ RevocationReturns
    \/ RevocationLands \/ RevokedElsewhere
    \/ \E k \in Clock : Lapses(k)

VerdictsSpec == VerdictsInit /\ [][VerdictsNext]_verdictVars

-----------------------------------------------------------------------------
\* Whatever is revoked or expires between the reads of a verification and while its
\* result is cached, a negative verdict is never wrong, and a positive one that has
\* become wrong, or was put back by a late verification, does not last.
VerdictsSettle ==
    /\ [](\A c \in cached : c.valid \/ ~Valid)
    /\ <>[](cached \subseteq {Verdict(Valid)})
=============================================================================
