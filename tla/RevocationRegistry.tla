-------------------------- MODULE RevocationRegistry --------------------------
(***************************************************************************)
(* Revocation registries (src/src/credential_issuer.rs, #91): an issuer    *)
(* revokes credentials into a registry of its own, one by one or in        *)
(* batches, and each revocation leaves a proof that others can verify.     *)
(*                                                                         *)
(* Registry and batch ids are the ledger time, like credential ids.  The   *)
(* nonce of a proof is a hash of the time, in a batch of the time and the  *)
(* credential id; the hash is taken to be injective, so <<time>> stands    *)
(* for the nonce of a single revocation and <<time, id>> for a batch's.    *)
(* A registry's own nonce and creation time are stored and never read.     *)
(***************************************************************************)
EXTENDS CredentialIssuer

CONSTANTS
    MaxBatch    \* bound: ids passed to batch_revoke_credentials

ASSUME BatchAssumption == MaxBatch \in Nat

VARIABLES
    registry,   \* CredKey::RevocationRegistry(id)
    proof,      \* CredKey::RevocationProof(credential id)
    batch       \* CredKey::BatchRevocation(id): the ids it was called with

registryVars == <<issuerVars, registry, proof, batch>>

Nonce == {<<t>> : t \in Id} \cup (Id \X Id)
Registry == [issuer : Address, ids : Seq(Id), revokedCount : 0 .. MaxTime + 1]
Proof == [registry : Id, nonce : Nonce, time : Id]

ASSUME RegistryRecordAssumption == None \notin Registry /\ None \notin Proof

RegistryTypeOK ==
    /\ IssuerTypeOK
    /\ registry \in [Id -> Registry \cup {None}]
    /\ proof \in [Id -> Proof \cup {None}]
    /\ batch \in [Id -> Seq(Id) \cup {None}]

RegistryInit ==
    /\ IssuerInit
    /\ registry = [g \in Id |-> None]
    /\ proof = [c \in Id |-> None]
    /\ batch = [b \in Id |-> None]

-----------------------------------------------------------------------------
\* The registry is there and the caller's.
OwnRegistry(i, g) == registry[g] # None /\ registry[g].issuer = i

CreateRevocationRegistry(i) ==
    /\ registry' = [registry EXCEPT ![now] = [issuer |-> i, ids |-> <<>>, revokedCount |-> 0]]
    /\ UNCHANGED <<issuerVars, proof, batch>>

\* Fault: the list starts over with each batch (RegistriesTrustworthy).
Extended_Replaced(g, ids) ==
    [registry EXCEPT ![g].ids = ids, ![g].revokedCount = @ + Len(ids)]
\* The registry with more ids on its list.
Extended(g, ids) ==
    [registry EXCEPT ![g].ids = @ \o ids, ![g].revokedCount = @ + Len(ids)]

ProofsAfter(g, ids, nonce) ==
    [c \in Id |-> IF c \in ToSet(ids)
                  THEN [registry |-> g, nonce |-> nonce[c], time |-> now]
                  ELSE proof[c]]

\* revoke_credential, unless the registry is missing or not the caller's.
RevokeCredentialWithRegistry(i, c, g, why) ==
    /\ RevokeCredential(i, c, why)
    /\ OwnRegistry(i, g)
    /\ proof' = ProofsAfter(g, <<c>>, [x \in Id |-> <<now>>])
    /\ registry' = Extended(g, <<c>>)
    /\ UNCHANGED batch

\* Fault: a repeated id is revoked twice (RegistryExact).
NewlyRevoked_Twice(ids) == {SelectSeq(ids, LAMBDA c : ~revoked[c])}
\* The loop over the ids skips what is revoked, also by an earlier round of its own: what is
\* left comes once each, in the order of its first place.  There is one such sequence.
NewlyRevoked(ids) ==
    LET left == {c \in ToSet(ids) : ~revoked[c]}
    IN  {new \in [1 .. Cardinality(left) -> left] :
            \A j, k \in DOMAIN new : j < k => Before(ids, new[j], new[k])}

BatchRevokeCredentials(i, ids, g, why) ==
    /\ OwnRegistry(i, g)
    /\ \A k \in DOMAIN ids : Stored(ids[k]) /\ credential[ids[k]].issuer = i
    /\ \E new \in NewlyRevoked(ids) :
       /\ credential' = CredentialsRevoked(ToSet(new))
       /\ revoked' = [c \in Id |-> revoked[c] \/ c \in ToSet(new)]
       /\ reason' = [c \in Id |-> IF c \in ToSet(new) /\ why # None THEN why ELSE reason[c]]
       /\ proof' = ProofsAfter(g, new, [x \in Id |-> <<now, x>>])
       /\ registry' = Extended(g, new)
    /\ batch' = [batch EXCEPT ![now] = ids]
    /\ UNCHANGED <<now, issuerCreds, subjectCreds, bucket>>

\* verify_revocation_proof for the proof p that was handed out for a credential c.
VerifyRevocationProof(c, p) ==
    /\ proof[c] # None
    /\ proof[c].registry = p.registry /\ proof[c].nonce = p.nonce
    /\ revoked[c]

-----------------------------------------------------------------------------
Create == \E i \in Address : CreateRevocationRegistry(i)

RegistrySteps ==
    \/ \E i \in Address, c, g \in Id : RevokeCredentialWithRegistry(i, c, g, None)
    \/ \E i \in Address, g \in Id, ids \in SeqOf(Id, MaxBatch) :
          BatchRevokeCredentials(i, ids, g, "given")

\* Credentials are issued one by one, and revoked without a registry too.
Issue == \E i \in Address, item \in Item : IssueCredentials(i, <<item>>)
PlainSteps ==
    /\ \/ ~Stored(now) /\ Issue
       \/ RevokeSteps
       \/ CloseLedger
    /\ UNCHANGED <<registry, proof, batch>>

\* At most one credential is issued and one registry created per ledger, so that no id
\* is used twice.
NextRegistry ==
    \/ registry[now] = None /\ Create
    \/ RegistrySteps
    \/ PlainSteps

SpecRegistry == RegistryInit /\ [][NextRegistry]_registryVars

Sweep(i) == RevokeExpiredCredentials(i, 1) /\ UNCHANGED <<registry, proof, batch>>

\* Ledgers keep closing, and every issuer keeps calling revoke_expired_credentials, for
\* one credential at a time.
SpecSwept ==
    /\ SpecRegistry
    /\ WF_registryVars(CloseLedger /\ UNCHANGED <<registry, proof, batch>>)
    /\ \A i \in Address : WF_registryVars(Sweep(i))

-----------------------------------------------------------------------------
\* Registries, proofs and batches tell the same story: a registry lists revoked
\* credentials of its issuer, each once and in one registry only, a credential has a
\* proof exactly when a registry lists it, the one the proof names, and every credential
\* named in the record of a batch is revoked although the batch skips some of them.
RegistryExact ==
    /\ \A g \in Id : registry[g] # None =>
          /\ \A c \in ToSet(registry[g].ids) :
                /\ revoked[c] /\ credential[c].issuer = registry[g].issuer
                /\ proof[c].registry = g
          /\ IsInjective(registry[g].ids)
          /\ registry[g].revokedCount = Len(registry[g].ids)
    /\ \A c \in Id : proof[c] # None => c \in ToSet(registry[proof[c].registry].ids)
    /\ \A b \in Id : batch[b] # None => \A c \in ToSet(batch[b]) : revoked[c]

\* A proof handed out once verifies for ever, whatever is revoked after it, and a
\* registry never loses an entry or changes hands.
RegistryKept ==
    /\ \A c \in Id : proof[c] # None => VerifyRevocationProof(c, proof[c])'
                                        /\ proof'[c] = proof[c]
    /\ \A g \in Id : registry[g] # None =>
          /\ registry'[g].issuer = registry[g].issuer
          /\ IsPrefix(registry[g].ids, registry'[g].ids)

\* Registries, proofs and statuses agree in every state, and what they once said stays.
RegistriesTrustworthy == [][RegistryExact' /\ RegistryKept]_registryVars

\* Bulk revocation, however small its batches and whatever was revoked before it, gets
\* to every expired credential.
ExpiredCleared ==
    \A c \in Id : Stored(c) /\ credential[c].expiration # None
                  /\ credential[c].expiration < MaxTime ~> revoked[c]
=============================================================================
