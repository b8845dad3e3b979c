--------------------------- MODULE CredentialIssuer ---------------------------
(***************************************************************************)
(* The core of the CredentialIssuer contract                               *)
(* (src/src/credential_issuer.rs): credentials are issued one by one or in *)
(* batches, renewed, verified and revoked, by their issuer or in bulk once *)
(* they have expired.  CredentialDelegation and RevocationRegistry add the *)
(* rest of the contract.                                                   *)
(*                                                                         *)
(* An action is a call that returns Ok; any other call is rolled back, so  *)
(* the reentrancy lock issue_credential takes is free between calls.  A    *)
(* credential id is "vc:<timestamp>:<sequence>", a function of the ledger, *)
(* and the model uses the ledger time for it.  Types, data and proofs are  *)
(* validated, stored and read by nothing else; the model takes valid ones. *)
(* The rate limit's bucket is kept as long as its window (RateLimiter      *)
(* shows when that holds); a count of zero stands for an absent bucket.    *)
(* issue_credential_with_schema has no action: it asks for the latest      *)
(* version of its schema under SchemaKey::Version, which nothing writes    *)
(* (src/src/schema_registry.rs), and so always returns SchemaNotFound.     *)
(*                                                                         *)
(* An operator F_Fault is a faulty variant of F that no action uses: with  *)
(* it in place of F the property named beside it must fail.                *)
(***************************************************************************)
EXTENDS RateLimit, FiniteSets, SequencesExt

CONSTANTS
    Address,    \* issuers and subjects
    None,       \* Option::None, and a storage key that is not present
    Expiries,   \* expiration dates a caller may pass
    BatchSizes, \* lengths of a batch_issue_credentials call, and batch_size arguments
    MaxCalls,   \* ISSUE_CREDENTIAL_MAX
    Window,     \* ISSUE_CREDENTIAL_WINDOW
    MaxTime,    \* bound: the last ledger the model closes
    MaxIssued   \* bound: entries on the issuers' lists together

ASSUME BoundsAssumption == MaxTime \in Nat /\ MaxIssued \in Nat
ASSUME InputAssumption == Expiries \subseteq Nat /\ BatchSizes \subseteq Nat \ {0}
ASSUME LimitAssumption == MaxCalls \in Nat \ {0} /\ Window \in Nat \ {0}
ASSUME NoneAssumption == None \notin Address /\ None \notin Nat

VARIABLES
    now,            \* ledger timestamp (and sequence)
    credential,     \* CredKey::Credential(id)
    revoked,        \* CredKey::Status(id): is it 1?
    reason,         \* CredKey::Reason(id)
    issuerCreds,    \* CredKey::IssuerCreds(issuer)
    subjectCreds,   \* CredKey::SubjectCreds(subject)
    bucket          \* the rate limit of issue_credential, per issuer

issuerVars == <<now, credential, revoked, reason, issuerCreds, subjectCreds, bucket>>

Id == 0 .. MaxTime
Reason == {"given", "expired"}

Credential ==
    [issuer : Address, subject : Address, expiration : Expiries \cup {None},
     revocation : Id \cup {None}]

ASSUME RecordAssumption == None \notin Credential /\ None \notin Reason

IssuerTypeOK ==
    /\ now \in Id
    /\ credential \in [Id -> Credential \cup {None}]
    /\ revoked \in [Id -> BOOLEAN]
    /\ reason \in [Id -> Reason \cup {None}]
    /\ issuerCreds \in [Address -> Seq(Id)]
    /\ subjectCreds \in [Address -> Seq(Id)]
    /\ bucket \in [Address -> [count : 0 .. MaxCalls, start : Id]]

IssuerInit ==
    /\ now = 0
    /\ credential = [c \in Id |-> None]
    /\ revoked = [c \in Id |-> FALSE]
    /\ reason = [c \in Id |-> None]
    /\ issuerCreds = [a \in Address |-> <<>>]
    /\ subjectCreds = [a \in Address |-> <<>>]
    /\ bucket = [a \in Address |-> [count |-> 0, start |-> 0]]

-----------------------------------------------------------------------------
Stored(c)  == credential[c] # None
Expired(c) == credential[c].expiration # None /\ now > credential[c].expiration

\* What verify_credential answers for a stored credential.
Valid(c) == Stored(c) /\ ~revoked[c] /\ ~Expired(c)

Repeat(x, n) == [k \in 1 .. n |-> x]

\* What a caller passes for one credential of a batch.
Item == [subject : Address, expiration : Expiries \cup {None}]

\* Fault: a revocation found under the id is kept (RevocationsSound).
RevokedAfterIssue_Kept == revoked
RevokedAfterIssue == [revoked EXCEPT ![now] = FALSE]

\* All credentials of one call get the id of the ledger: each overwrites the one
\* before and clears its status, and the id is listed once for each.
StoreCredentials(i, items) ==
    /\ SumFunction([a \in Address |-> Len(issuerCreds[a])]) + Len(items) <= MaxIssued
    /\ LET last == items[Len(items)] IN
       credential' = [credential EXCEPT ![now] =
          [issuer |-> i, subject |-> last.subject, expiration |-> last.expiration,
           revocation |-> None]]
    /\ revoked' = RevokedAfterIssue
    /\ issuerCreds' = [issuerCreds EXCEPT ![i] = @ \o Repeat(now, Len(items))]
    /\ subjectCreds' = [a \in Address |-> subjectCreds[a] \o
          Repeat(now, Cardinality({k \in DOMAIN items : items[k].subject = a}))]
    /\ UNCHANGED <<now, reason>>

-----------------------------------------------------------------------------
\* The ledger closes.
CloseLedger ==
    /\ now < MaxTime
    /\ now' = now + 1
    /\ UNCHANGED <<credential, revoked, reason, issuerCreds, subjectCreds, bucket>>

\* issue_credential once (a sequence of one) or for every item of a batch; a batch
\* whose last item exceeds the limit is rolled back as a whole.
IssueCredentials(i, items) ==
    LET current == CurrentBucket(bucket[i].count > 0, bucket[i], now, Window) IN
    /\ Admits(current, Len(items), MaxCalls)
    /\ bucket' = [bucket EXCEPT ![i] = AfterCalls(current, Len(items))]
    /\ StoreCredentials(i, items)

\* A revoked or expired credential may be renewed too, and the original stays as it is
\* unless it was issued in this very ledger.
RenewCredential(i, c, e) ==
    /\ Stored(c) /\ credential[c].issuer = i
    /\ e > now
    /\ IssueCredentials(i, <<[subject |-> credential[c].subject, expiration |-> e]>>)

CredentialsRevoked(ids) ==
    [c \in Id |-> IF c \in ids THEN [credential[c] EXCEPT !.revocation = now]
                              ELSE credential[c]]

\* Fault: an earlier revocation is not looked at (RevocationsSound).
CanRevoke_Again(i, c) == Stored(c) /\ credential[c].issuer = i
CanRevoke(i, c) == Stored(c) /\ credential[c].issuer = i /\ ~revoked[c]

RevokeCredential(i, c, why) ==
    /\ CanRevoke(i, c)
    /\ credential' = CredentialsRevoked({c})
    /\ revoked' = [revoked EXCEPT ![c] = TRUE]
    /\ reason' = IF why = None THEN reason ELSE [reason EXCEPT ![c] = why]
    /\ UNCHANGED <<now, issuerCreds, subjectCreds, bucket>>

Overdue(i) == {c \in ToSet(issuerCreds[i]) : Stored(c) /\ ~revoked[c] /\ Expired(c)}

Before(list, d, c) == \E k \in DOMAIN list : list[k] = d /\ \A j \in 1 .. k : list[j] # c

\* Fault: the first entries of the list are processed, revoked or not (ExpiredCleared,
\* of RevocationRegistry).
FirstOverdue_Entries(i, size) ==
    {c \in Overdue(i) : \E k \in DOMAIN issuerCreds[i] : k <= size /\ issuerCreds[i][k] = c}
\* The walk over the caller's list stops after size revocations.
FirstOverdue(i, size) ==
    {c \in Overdue(i) :
        Cardinality({d \in Overdue(i) : Before(issuerCreds[i], d, c)}) < size}

RevokeExpiredCredentials(i, size) ==
    /\ FirstOverdue(i, size) # {}
    /\ credential' = CredentialsRevoked(FirstOverdue(i, size))
    /\ revoked' = [c \in Id |-> revoked[c] \/ c \in FirstOverdue(i, size)]
    /\ reason' = [c \in Id |-> IF c \in FirstOverdue(i, size) THEN "expired" ELSE reason[c]]
    /\ UNCHANGED <<now, issuerCreds, subjectCreds, bucket>>

-----------------------------------------------------------------------------
IssueBatch ==
    \E i \in Address, n \in BatchSizes :
        \E items \in [1 .. n -> Item] : IssueCredentials(i, items)
Renew == \E i \in Address, c \in Id, e \in Expiries : RenewCredential(i, c, e)

RevokeSteps ==
    \/ \E i \in Address, c \in Id, why \in {None, "given"} : RevokeCredential(i, c, why)
    \/ \E i \in Address, size \in BatchSizes : RevokeExpiredCredentials(i, size)

Next == IssueBatch \/ Renew \/ RevokeSteps \/ CloseLedger

Spec == IssuerInit /\ [][Next]_issuerVars

-----------------------------------------------------------------------------
\* The two places that tell whether a credential is revoked agree, also after an id
\* has been issued again or revoked in bulk.
StatusMatchesRecord ==
    \A c \in Id : Stored(c) => (revoked[c] <=> credential[c].revocation # None)

\* Once the ledger that issued it has closed, a credential's revocation is final: its
\* time and reason are never rewritten, by a second call, by bulk revocation or by a
\* renewal, and what verify_credential calls invalid, revoked or expired, stays invalid
\* whatever its issuer renews.  (Within that ledger its id may be issued again.)
RevocationsKept ==
    \A c \in Id : c < now =>
        /\ revoked[c] =>
              revoked'[c] /\ credential'[c] = credential[c] /\ reason'[c] = reason[c]
        /\ Stored(c) /\ ~Valid(c) => ~Valid(c)'

\* Both: whoever asks is told of a revocation, once and for all.
RevocationsSound == [][StatusMatchesRecord' /\ RevocationsKept]_issuerVars

-----------------------------------------------------------------------------
(* A statement of a comment that the code does not keep. *)

\* "Issue multiple credentials in a single transaction" (credential_issuer.rs:472): the
\* ids one call adds to an issuer's list are as many credentials.
BatchIssuesEach ==
    [][\A i \in Address :
          \A j, k \in Len(issuerCreds[i]) + 1 .. Len(issuerCreds'[i]) :
              issuerCreds'[i][j] = issuerCreds'[i][k] => j = k]_issuerVars
=============================================================================
