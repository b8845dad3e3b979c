------------------------- MODULE CredentialIssuerProofs -------------------------
(***************************************************************************)
(* What holds of CredentialIssuer for every number of issuers, credentials *)
(* and ledgers, and for batches of any size: the two records of a          *)
(* revocation agree, and once made it is never undone.                     *)
(***************************************************************************)
EXTENDS CredentialDelegation, RevocationRegistry, FiniteSetTheorems, SequenceTheorems,
        TLAPS

IInv == IssuerTypeOK /\ StatusMatchesRecord

LEMMA Initially == IssuerInit => IInv
<1> SUFFICES ASSUME IssuerInit PROVE IInv
  OBVIOUS
<1>1. IssuerTypeOK
  BY BoundsAssumption, LimitAssumption, SMT DEF IssuerInit, IssuerTypeOK, Id
<1> QED
  BY <1>1 DEF IInv, IssuerInit, StatusMatchesRecord, Stored

-----------------------------------------------------------------------------
\* What the three list and bucket updates of an issuing call leave.
LEMMA RepeatTyped ==
  ASSUME NEW x \in Id, NEW n \in Nat
  PROVE  Repeat(x, n) \in Seq(Id)
BY SMT DEF Repeat

LEMMA BucketTyped ==
  ASSUME IssuerTypeOK, NEW i \in Address, NEW n \in Nat,
         NEW current, current = CurrentBucket(bucket[i].count > 0, bucket[i], now, Window),
         Admits(current, n, MaxCalls)
  PROVE  AfterCalls(current, n) \in [count : 0 .. MaxCalls, start : Id]
<1>1. bucket[i] \in [count : 0 .. MaxCalls, start : Id] /\ now \in Id
  BY DEF IssuerTypeOK
<1>2. current \in [count : 0 .. MaxCalls, start : Id]
  BY <1>1, LimitAssumption, SMT DEF CurrentBucket
<1> QED
  BY <1>2, LimitAssumption, SMT DEF Admits, AfterCalls

\* A batch of n items, one at least, is a sequence of length n.
LEMMA BatchTyped ==
  ASSUME NEW n \in Nat \ {0}, NEW items \in [1 .. n -> Item]
  PROVE  /\ Len(items) = n /\ DOMAIN items = 1 .. n
         /\ items[n] \in Item
         /\ \A a \in Address : Cardinality({k \in DOMAIN items : items[k].subject = a}) \in Nat
<1>1. items \in Seq(Item) /\ Len(items) = n /\ DOMAIN items = 1 .. n
  BY SMT
<1>2. IsFiniteSet(1 .. n)
  BY FS_Interval, SMT
<1>3. ASSUME NEW a \in Address
      PROVE  Cardinality({k \in DOMAIN items : items[k].subject = a}) \in Nat
  BY <1>1, <1>2, FS_Subset, FS_CardinalityType
<1> QED
  BY <1>1, <1>3, SMT

\* Storing leaves every credential but the ledger's own alone, and that one unrevoked;
\* both lists stay lists of ids.
LEMMA StoreEffect ==
  ASSUME IInv, NEW i \in Address, NEW n \in Nat \ {0}, NEW items \in [1 .. n -> Item],
         StoreCredentials(i, items)
  PROVE  /\ credential' \in [Id -> Credential \cup {None}] /\ revoked' \in [Id -> BOOLEAN]
         /\ issuerCreds' \in [Address -> Seq(Id)] /\ subjectCreds' \in [Address -> Seq(Id)]
         /\ credential'[now] \in Credential /\ credential'[now].revocation = None
         /\ credential'[now].issuer = i
         /\ ~revoked'[now]
         /\ \A c \in Id : c # now => /\ credential'[c] = credential[c]
                                     /\ revoked'[c] = revoked[c]
         /\ issuerCreds' = [issuerCreds EXCEPT ![i] = @ \o Repeat(now, n)]
         /\ reason' = reason /\ now' = now
<1> USE DEF IInv, IssuerTypeOK, StoreCredentials, RevokedAfterIssue
<1>1. items[n] \in Item /\ Len(items) = n
      /\ \A a \in Address : Cardinality({k \in DOMAIN items : items[k].subject = a}) \in Nat
  BY BatchTyped
<1>2. credential' = [credential EXCEPT ![now] =
          [issuer |-> i, subject |-> items[n].subject,
           expiration |-> items[n].expiration, revocation |-> None]]
  BY <1>1
<1>3. /\ credential'[now] \in Credential /\ credential'[now].revocation = None
      /\ credential'[now].issuer = i
  BY <1>1, <1>2 DEF Item, Credential
<1>4. /\ \A c \in Id : c # now => credential'[c] = credential[c] /\ revoked'[c] = revoked[c]
      /\ ~revoked'[now] /\ revoked' \in [Id -> BOOLEAN]
  BY <1>2
<1>5. credential' \in [Id -> Credential \cup {None}]
  BY <1>2, <1>3
<1>6. issuerCreds' = [issuerCreds EXCEPT ![i] = @ \o Repeat(now, n)]
  BY <1>1
<1>7. issuerCreds' \in [Address -> Seq(Id)]
  <2>1. Repeat(now, n) \in Seq(Id) /\ issuerCreds[i] \in Seq(Id)
    BY RepeatTyped
  <2>2. issuerCreds[i] \o Repeat(now, n) \in Seq(Id)
    BY <2>1, SMT
  <2> QED
    BY <1>6, <2>2
<1>8. subjectCreds' \in [Address -> Seq(Id)]
  <2> DEFINE More(a) == Cardinality({k \in DOMAIN items : items[k].subject = a})
  <2>1. ASSUME NEW a \in Address
        PROVE  subjectCreds[a] \o Repeat(now, More(a)) \in Seq(Id)
    <3>1. Repeat(now, More(a)) \in Seq(Id) /\ subjectCreds[a] \in Seq(Id)
      BY <1>1, RepeatTyped
    <3> QED
      BY <3>1, SMT
  <2>2. subjectCreds' = [a \in Address |-> subjectCreds[a] \o Repeat(now, More(a))]
    OBVIOUS
  <2> QED
    BY <2>1, <2>2
<1> QED
  BY <1>3, <1>4, <1>5, <1>6, <1>7, <1>8

LEMMA StoreKeeps ==
  ASSUME IInv, NEW i \in Address, NEW n \in Nat \ {0}, NEW items \in [1 .. n -> Item],
         StoreCredentials(i, items),
         bucket' \in [Address -> [count : 0 .. MaxCalls, start : Id]]
  PROVE  IInv'
<1>1. /\ credential' \in [Id -> Credential \cup {None}] /\ revoked' \in [Id -> BOOLEAN]
      /\ issuerCreds' \in [Address -> Seq(Id)] /\ subjectCreds' \in [Address -> Seq(Id)]
      /\ credential'[now] \in Credential /\ credential'[now].revocation = None
      /\ ~revoked'[now]
      /\ \A c \in Id : c # now => credential'[c] = credential[c] /\ revoked'[c] = revoked[c]
      /\ reason' = reason /\ now' = now
  BY StoreEffect
<1>2. IssuerTypeOK'
  BY <1>1 DEF IInv, IssuerTypeOK
<1>3. StatusMatchesRecord'
  BY <1>1 DEF IInv, StatusMatchesRecord, Stored
<1> QED
  BY <1>2, <1>3 DEF IInv

LEMMA IssueKeeps ==
  ASSUME IInv, NEW i \in Address, NEW n \in Nat \ {0}, NEW items \in [1 .. n -> Item],
         IssueCredentials(i, items)
  PROVE  IInv'
<1> DEFINE current == CurrentBucket(bucket[i].count > 0, bucket[i], now, Window)
<1>1. Len(items) = n
  BY BatchTyped
<1>2. Admits(current, n, MaxCalls) /\ bucket' = [bucket EXCEPT ![i] = AfterCalls(current, n)]
  BY <1>1 DEF IssueCredentials
<1>3. AfterCalls(current, n) \in [count : 0 .. MaxCalls, start : Id]
  BY <1>2, BucketTyped DEF IInv
<1>4. bucket' \in [Address -> [count : 0 .. MaxCalls, start : Id]]
  BY <1>2, <1>3 DEF IInv, IssuerTypeOK
<1> QED
  BY <1>4, StoreKeeps DEF IssueCredentials

\* A renewal is an issuing call for one credential.
LEMMA RenewIssues ==
  ASSUME IInv, NEW i \in Address, NEW c \in Id, NEW e \in Expiries, RenewCredential(i, c, e)
  PROVE  \E items \in [1 .. 1 -> Item] : IssueCredentials(i, items)
<1>1. [subject |-> credential[c].subject, expiration |-> e] \in Item
  BY DEF IInv, IssuerTypeOK, RenewCredential, Stored, Credential, Item
<1>2. <<[subject |-> credential[c].subject, expiration |-> e]>> \in [1 .. 1 -> Item]
  BY <1>1, SMT
<1> QED
  BY <1>2 DEF RenewCredential

-----------------------------------------------------------------------------
\* Both ways to revoke mark stored, unrevoked credentials in both places; `set` is the
\* one named, or the overdue ones the walk reached.
RevokesOnly(set) ==
    /\ \A c \in set : Stored(c) /\ ~revoked[c]
    /\ credential' = CredentialsRevoked(set)
    /\ \A c \in Id : revoked'[c] = (revoked[c] \/ c \in set)
    /\ revoked' \in [Id -> BOOLEAN]
    /\ reason' \in [Id -> Reason \cup {None}]
    /\ \A c \in Id \ set : reason'[c] = reason[c]
    /\ UNCHANGED <<now, issuerCreds, subjectCreds, bucket>>

LEMMA RevokeCredentialEffect ==
  ASSUME IInv, NEW i \in Address, NEW c \in Id, NEW why \in {None, "given"},
         RevokeCredential(i, c, why)
  PROVE  RevokesOnly({c})
<1>1. \A d \in Id : revoked'[d] = (revoked[d] \/ d \in {c})
  BY DEF IInv, IssuerTypeOK, RevokeCredential
<1>2. reason' \in [Id -> Reason \cup {None}] /\ \A d \in Id \ {c} : reason'[d] = reason[d]
  BY DEF IInv, IssuerTypeOK, RevokeCredential, Reason
<1>3. revoked' \in [Id -> BOOLEAN]
  BY DEF IInv, IssuerTypeOK, RevokeCredential
<1> QED
  BY <1>1, <1>2, <1>3 DEF RevokesOnly, RevokeCredential, CanRevoke

LEMMA RevokeEffect ==
  ASSUME IInv, RevokeSteps
  PROVE  \E set \in SUBSET Id : RevokesOnly(set)
<1>1. ASSUME NEW i \in Address, NEW c \in Id, NEW why \in {None, "given"},
             RevokeCredential(i, c, why)
      PROVE  RevokesOnly({c})
  BY <1>1, RevokeCredentialEffect
<1>2. ASSUME NEW i \in Address, NEW size \in BatchSizes, RevokeExpiredCredentials(i, size)
      PROVE  FirstOverdue(i, size) \in SUBSET Id /\ RevokesOnly(FirstOverdue(i, size))
  <2> DEFINE set == FirstOverdue(i, size)
  <2>1. \A c \in set : c \in Overdue(i)
    BY DEF FirstOverdue
  <2>2. issuerCreds[i] \in Seq(Id)
    BY DEF IInv, IssuerTypeOK
  <2>3. \A c \in Overdue(i) : c \in Id /\ Stored(c) /\ ~revoked[c]
    BY <2>2, SMT DEF Overdue, ToSet
  <2>4. credential' = CredentialsRevoked(set)
        /\ UNCHANGED <<now, issuerCreds, subjectCreds, bucket>>
    BY <1>2 DEF RevokeExpiredCredentials
  <2> HIDE DEF set
  <2>5. /\ revoked' = [c \in Id |-> revoked[c] \/ c \in set]
        /\ reason' = [c \in Id |-> IF c \in set THEN "expired" ELSE reason[c]]
    BY <1>2 DEF RevokeExpiredCredentials, set
  <2>6. \A c \in Id : revoked'[c] = (revoked[c] \/ c \in set)
    BY <2>5, Zenon
  <2>7. revoked' \in [Id -> BOOLEAN]
    BY <2>5, <2>6 DEF IInv, IssuerTypeOK
  <2>8. reason' \in [Id -> Reason \cup {None}] /\ \A c \in Id \ set : reason'[c] = reason[c]
    BY <2>5 DEF IInv, IssuerTypeOK, Reason
  <2>9. set \in SUBSET Id /\ RevokesOnly(set)
    BY <2>1, <2>3, <2>4, <2>6, <2>7, <2>8 DEF RevokesOnly
  <2> QED
    BY <2>9 DEF set
<1> QED
  BY <1>1, <1>2 DEF RevokeSteps

LEMMA RevokedTyped ==
  ASSUME IInv, NEW set \in SUBSET Id, RevokesOnly(set)
  PROVE  /\ credential' \in [Id -> Credential \cup {None}]
         /\ \A c \in Id : Stored(c)' <=> Stored(c)
         /\ \A c \in set : credential'[c] = [credential[c] EXCEPT !.revocation = now]
                           /\ credential'[c] \in Credential
                           /\ credential'[c].revocation = now
                           /\ credential'[c].expiration = credential[c].expiration
         /\ \A c \in Id \ set : credential'[c] = credential[c] /\ revoked'[c] = revoked[c]
<1>1. credential \in [Id -> Credential \cup {None}] /\ now \in Id
  BY DEF IInv, IssuerTypeOK
<1>2. \A c \in Id : credential'[c] = IF c \in set
                       THEN [credential[c] EXCEPT !.revocation = now] ELSE credential[c]
  BY DEF RevokesOnly, CredentialsRevoked
<1>3. ASSUME NEW c \in set
      PROVE  /\ credential'[c] = [credential[c] EXCEPT !.revocation = now]
             /\ credential'[c] \in Credential /\ credential'[c].revocation = now
             /\ credential'[c].expiration = credential[c].expiration
             /\ Stored(c)
  <2>1. credential[c] \in Credential /\ Stored(c)
    BY <1>1 DEF RevokesOnly, Stored
  <2> QED
    BY <1>1, <1>2, <2>1 DEF Credential
<1>4. credential' \in [Id -> Credential \cup {None}]
  BY <1>1, <1>2, <1>3 DEF RevokesOnly, CredentialsRevoked
<1>5. \A c \in Id \ set : revoked'[c] = revoked[c]
  BY DEF RevokesOnly, IInv, IssuerTypeOK
<1>6. \A c \in Id : Stored(c)' <=> Stored(c)
  BY <1>2, <1>3, RecordAssumption DEF Stored
<1> QED
  BY <1>2, <1>3, <1>4, <1>5, <1>6

LEMMA RevokesKeepStatus ==
  ASSUME IInv, NEW set \in SUBSET Id, RevokesOnly(set)
  PROVE  StatusMatchesRecord'
<1> SUFFICES ASSUME NEW c \in Id, Stored(c)'
             PROVE  revoked'[c] <=> credential'[c].revocation # None
  BY DEF StatusMatchesRecord
<1>1. CASE c \in set
  <2>1. revoked'[c] /\ credential'[c].revocation = now
    BY <1>1, RevokedTyped DEF RevokesOnly
  <2>2. now # None
    BY BoundsAssumption, NoneAssumption, SMT DEF IInv, IssuerTypeOK, Id
  <2> QED
    BY <2>1, <2>2
<1>2. CASE c \notin set
  <2>1. revoked'[c] = revoked[c] /\ credential'[c] = credential[c] /\ Stored(c)
    BY <1>2, RevokedTyped
  <2> QED
    BY <2>1 DEF IInv, StatusMatchesRecord
<1> QED
  BY <1>1, <1>2

LEMMA RevokeKeeps == ASSUME IInv, RevokeSteps PROVE IInv'
<1>1. PICK set \in SUBSET Id : RevokesOnly(set)
  BY RevokeEffect
<1>2. IssuerTypeOK'
  BY <1>1, RevokedTyped DEF RevokesOnly, IInv, IssuerTypeOK
<1> QED
  BY <1>1, <1>2, RevokesKeepStatus DEF IInv

LEMMA CloseKeeps == ASSUME IInv, CloseLedger PROVE IInv'
<1>1. IssuerTypeOK'
  BY BoundsAssumption, SMT DEF IInv, IssuerTypeOK, CloseLedger, Id
<1> QED
  BY <1>1 DEF IInv, CloseLedger, StatusMatchesRecord, Stored

LEMMA Invariance == Spec => []IInv
<1>1. IInv /\ [Next]_issuerVars => IInv'
  <2> SUFFICES ASSUME IInv, [Next]_issuerVars PROVE IInv'
    OBVIOUS
  <2>1. CASE IssueBatch
    BY <2>1, IssueKeeps, InputAssumption DEF IssueBatch
  <2>2. CASE Renew
    <3>1. PICK i \in Address, items \in [1 .. 1 -> Item] : IssueCredentials(i, items)
      BY <2>2, RenewIssues DEF Renew
    <3>2. 1 \in Nat \ {0}
      BY SMT
    <3> QED
      BY <3>1, <3>2, IssueKeeps
  <2>3. CASE RevokeSteps
    BY <2>3, RevokeKeeps
  <2>4. CASE CloseLedger
    BY <2>4, CloseKeeps
  <2>5. CASE UNCHANGED issuerVars
    BY <2>5 DEF issuerVars, IInv, IssuerTypeOK, StatusMatchesRecord, Stored
  <2> QED
    BY <2>1, <2>2, <2>3, <2>4, <2>5 DEF Next
<1> QED
  BY <1>1, Initially, PTL DEF Spec

\* Every reachable state is one the contract's storage can hold.
THEOREM TypeCorrect == Spec => []IssuerTypeOK
BY Invariance, PTL DEF IInv

-----------------------------------------------------------------------------
LEMMA IssueFinal ==
  ASSUME IInv, NEW i \in Address, NEW n \in Nat \ {0}, NEW items \in [1 .. n -> Item],
         IssueCredentials(i, items)
  PROVE  RevocationsKept
<1>1. /\ \A c \in Id : c # now => credential'[c] = credential[c] /\ revoked'[c] = revoked[c]
      /\ reason' = reason /\ now' = now
  BY StoreEffect DEF IssueCredentials
<1>2. \A c \in Id : c < now => c # now
  BY BoundsAssumption, SMT DEF IInv, IssuerTypeOK, Id
<1> QED
  BY <1>1, <1>2 DEF RevocationsKept, Valid, Stored, Expired

LEMMA RevokeFinal == ASSUME IInv, RevokeSteps PROVE RevocationsKept
<1>1. PICK set \in SUBSET Id : RevokesOnly(set)
  BY RevokeEffect
<1> SUFFICES ASSUME NEW c \in Id
             PROVE  /\ revoked[c] => revoked'[c] /\ credential'[c] = credential[c]
                                     /\ reason'[c] = reason[c]
                    /\ Stored(c) /\ ~Valid(c) => ~Valid(c)'
  BY DEF RevocationsKept
<1>2. CASE c \in set
  <2>1. ~revoked[c] /\ revoked'[c]
    BY <1>1, <1>2 DEF RevokesOnly
  <2> QED
    BY <2>1 DEF Valid
<1>3. CASE c \notin set
  <2>1. /\ revoked'[c] = revoked[c] /\ credential'[c] = credential[c]
        /\ reason'[c] = reason[c] /\ now' = now
    BY <1>1, <1>3, RevokedTyped DEF RevokesOnly
  <2> QED
    BY <2>1 DEF Valid, Stored, Expired
<1> QED
  BY <1>2, <1>3

LEMMA CloseFinal == ASSUME IInv, CloseLedger PROVE RevocationsKept
<1> SUFFICES ASSUME NEW c \in Id
             PROVE  /\ revoked[c] => revoked'[c] /\ credential'[c] = credential[c]
                                     /\ reason'[c] = reason[c]
                    /\ Stored(c) /\ ~Valid(c) => ~Valid(c)'
  BY DEF RevocationsKept
<1>1. /\ revoked' = revoked /\ credential' = credential /\ reason' = reason
      /\ now' = now + 1 /\ now \in Int
  BY BoundsAssumption, SMT DEF CloseLedger, IInv, IssuerTypeOK, Id
<1>2. Stored(c) /\ Expired(c) => Expired(c)'
  <2> SUFFICES ASSUME Stored(c), Expired(c) PROVE Expired(c)'
    OBVIOUS
  <2>1. credential[c] \in Credential
    BY DEF IInv, IssuerTypeOK, Stored
  <2>2. credential[c].expiration \in Expiries
    BY <2>1 DEF Credential, Expired
  <2>3. credential[c].expiration \in Int
    BY <2>2, InputAssumption, SMT
  <2> QED
    BY <1>1, <2>3, SMT DEF Expired
<1> QED
  BY <1>1, <1>2 DEF Valid, Stored

\* Whoever asks is told of a revocation once and for all: the two places that hold it
\* agree, and after its ledger nothing rewrites it, for any issuers and batch sizes.
THEOREM RevocationsAlwaysSound == Spec => RevocationsSound
<1>1. IInv /\ [Next]_issuerVars => [RevocationsKept]_issuerVars
  <2> SUFFICES ASSUME IInv, Next PROVE RevocationsKept
    OBVIOUS
  <2>1. CASE IssueBatch
    BY <2>1, IssueFinal, InputAssumption DEF IssueBatch
  <2>2. CASE Renew
    <3>1. PICK i \in Address, items \in [1 .. 1 -> Item] : IssueCredentials(i, items)
      BY <2>2, RenewIssues DEF Renew
    <3>2. 1 \in Nat \ {0}
      BY SMT
    <3> QED
      BY <3>1, <3>2, IssueFinal
  <2>3. CASE RevokeSteps
    BY <2>3, RevokeFinal
  <2>4. CASE CloseLedger
    BY <2>4, CloseFinal
  <2> QED
    BY <2>1, <2>2, <2>3, <2>4 DEF Next
<1>2. Spec => []StatusMatchesRecord
  BY Invariance, PTL DEF IInv
<1> QED
  BY <1>1, <1>2, Invariance, PTL DEF Spec, RevocationsSound

-----------------------------------------------------------------------------
(***************************************************************************)
(* What CredentialIssuer does for others and in lists: issues through      *)
(* delegations (CredentialDelegation) and revokes into registries          *)
(* (RevocationRegistry), over the invariant above.                         *)
(***************************************************************************)
\* An id is a ledger time.
LEMMA IdNotNone == None \notin Id /\ IsFiniteSet(Id) /\ Cardinality(Id) = MaxTime + 1
BY BoundsAssumption, NoneAssumption, FS_Interval, SMT DEF Id

-----------------------------------------------------------------------------
(* Delegations. *)

\* A credential issued through a delegation names one that was granted, no later; and
\* every delegation is dated by the ledger that names it.
GrantsDated ==
    /\ \A g \in Id : Granted(g) => g <= now
    /\ \A c \in Id : via[c] # None => via[c] \in Id /\ Granted(via[c])

DelegationInv ==
    IInv /\ DelegationTypeOK /\ GrantsDated /\ IssuedWithinDelegation

LEMMA DelegationInitially == DelegationInit => DelegationInv
<1> SUFFICES ASSUME DelegationInit PROVE DelegationInv
  OBVIOUS
<1>1. IInv
  BY Initially DEF DelegationInit
<1>2. DelegationTypeOK
  BY <1>1 DEF IInv, DelegationInit, DelegationTypeOK
<1>3. GrantsDated
  BY DEF DelegationInit, GrantsDated, Granted
<1>4. IssuedWithinDelegation
  <2>1. \A c \in Id : via[c] = None
    BY DEF DelegationInit
  <2>2. \A g \in Id : ~Granted(g)
    BY DEF DelegationInit, Granted
  <2> QED
    BY <2>1, <2>2 DEF IssuedWithinDelegation
<1> QED
  BY <1>1, <1>2, <1>3, <1>4 DEF DelegationInv

\* The credentials issued through a delegation.
Through(g) == {c \in Id : via[c] = g}

LEMMA ThroughFinite ==
  ASSUME NEW g \in Id
  PROVE  IsFiniteSet(Through(g)) /\ Cardinality(Through(g)) \in Nat
BY IdNotNone, FS_Subset, FS_CardinalityType DEF Through

LEMMA SingleTyped ==
  ASSUME NEW item \in Item
  PROVE  <<item>> \in [1 .. 1 -> Item] /\ 1 \in Nat \ {0}
BY SMT

\* What an issuing call leaves of what delegations rest on.
LEMMA StoreGrantView ==
  ASSUME IInv, NEW i \in Address, NEW item \in Item, StoreCredentials(i, <<item>>)
  PROVE  /\ Stored(now)' /\ credential'[now].issuer = i /\ now \in ToSet(issuerCreds'[i])
         /\ \A c \in Id \ {now} : credential'[c] = credential[c]
         /\ \A a \in Address : ToSet(issuerCreds[a]) \subseteq ToSet(issuerCreds'[a])
         /\ now' = now /\ now \in Id
<1>1. /\ credential'[now] \in Credential /\ credential'[now].issuer = i
      /\ \A c \in Id : c # now => credential'[c] = credential[c]
      /\ issuerCreds' = [issuerCreds EXCEPT ![i] = @ \o Repeat(now, 1)]
      /\ now' = now
  BY SingleTyped, StoreEffect
<1>2. issuerCreds \in [Address -> Seq(Id)] /\ now \in Id
  BY DEF IInv, IssuerTypeOK
<1>3. Stored(now)'
  BY <1>1, RecordAssumption DEF Stored
<1>4. /\ Repeat(now, 1) \in Seq(Id) /\ Len(Repeat(now, 1)) = 1 /\ Repeat(now, 1)[1] = now
  BY <1>2, SMT DEF Repeat
<1>5. issuerCreds'[i] = issuerCreds[i] \o Repeat(now, 1)
  BY <1>1, <1>2
<1>6. now \in ToSet(issuerCreds'[i]) /\ ToSet(issuerCreds[i]) \subseteq ToSet(issuerCreds'[i])
  <2>1. /\ Len(issuerCreds'[i]) = Len(issuerCreds[i]) + 1
        /\ issuerCreds'[i] \in Seq(Id)
        /\ Len(issuerCreds[i]) \in Nat
        /\ \A k \in 1 .. Len(issuerCreds[i]) + 1 :
              issuerCreds'[i][k] = IF k <= Len(issuerCreds[i]) THEN issuerCreds[i][k]
                                   ELSE Repeat(now, 1)[k - Len(issuerCreds[i])]
    BY <1>2, <1>4, <1>5, ConcatProperties, LenProperties
  <2>2. DOMAIN issuerCreds'[i] = 1 .. Len(issuerCreds[i]) + 1
        /\ DOMAIN issuerCreds[i] = 1 .. Len(issuerCreds[i])
    BY <1>2, <2>1, LenProperties
  <2>3. issuerCreds'[i][Len(issuerCreds[i]) + 1] = now
    BY <1>4, <2>1, SMT
  <2> QED
    BY <2>1, <2>2, <2>3, SMT DEF ToSet
<1>7. ASSUME NEW a \in Address
      PROVE  ToSet(issuerCreds[a]) \subseteq ToSet(issuerCreds'[a])
  BY <1>1, <1>2, <1>6
<1> QED
  BY <1>1, <1>2, <1>3, <1>6, <1>7

\* Calls that leave delegations alone and keep the issuer of every credential that was
\* issued through one.
LEMMA UntouchedGrants ==
  ASSUME DelegationInv, IInv', UNCHANGED <<grantVars, via>>, now' >= now,
         \A c \in Id : via[c] # None /\ Stored(c) =>
             Stored(c)' /\ credential'[c].issuer = credential[c].issuer,
         \A a \in Address : ToSet(issuerCreds[a]) \subseteq ToSet(issuerCreds'[a])
  PROVE  DelegationInv' /\ DelegationKept
<1> USE DEF grantVars
<1>1. DelegationTypeOK'
  BY DEF DelegationInv, DelegationTypeOK, IInv
<1>2. now \in Int /\ now' \in Int /\ Id \subseteq Int
  BY BoundsAssumption, SMT DEF DelegationInv, IInv, IssuerTypeOK, Id
<1>3. GrantsDated'
  <2>1. \A g \in Id : g <= now => g <= now'
    BY <1>2, SMT
  <2> QED
    BY <2>1 DEF DelegationInv, GrantsDated, Granted
<1>4. IssuedWithinDelegation'
  <2>1. ASSUME NEW c \in Id, via[c] # None
        PROVE  /\ Stored(c)' /\ credential'[c].issuer = delegation[via[c]].delegator
               /\ c \in ToSet(issuerCreds'[delegation[via[c]].delegator])
               /\ via[c] <= c /\ c <= delegation[via[c]].expires
    <3>1. /\ Stored(c) /\ credential[c].issuer = delegation[via[c]].delegator
          /\ c \in ToSet(issuerCreds[delegation[via[c]].delegator])
          /\ via[c] <= c /\ c <= delegation[via[c]].expires
      BY <2>1 DEF DelegationInv, IssuedWithinDelegation
    <3>2. delegation[via[c]].delegator \in Address
      BY <2>1 DEF DelegationInv, DelegationTypeOK, GrantsDated, Granted, Delegation
    <3> QED
      BY <2>1, <3>1, <3>2
  <2>2. \A g \in Id : Granted(g)' =>
            Cardinality({c \in Id : via'[c] = g}) = delegation'[g].issued
    BY DEF DelegationInv, IssuedWithinDelegation, Granted
  <2> QED
    BY <2>1, <2>2 DEF IssuedWithinDelegation
<1> QED
  BY <1>1, <1>3, <1>4 DEF DelegationInv, DelegationKept

LEMMA AuthorizeKeeps ==
  ASSUME DelegationInv, ~Granted(now), NEW i \in Address, NEW e \in Address,
         NEW max \in Limits, NEW expires \in Expiries, AuthorizeDelegation(i, e, max, expires)
  PROVE  DelegationInv' /\ DelegationKept
<1> DEFINE new == [delegator |-> i, delegate |-> e, max |-> max, issued |-> 0,
                   expires |-> expires, active |-> TRUE]
<1>1. /\ IInv /\ DelegationTypeOK /\ GrantsDated /\ IssuedWithinDelegation /\ IssuerTypeOK
      /\ now \in Id /\ delegation \in [Id -> Delegation \cup {None}] /\ via' = via
      /\ UNCHANGED issuerVars
  BY DEF DelegationInv, IInv, IssuerTypeOK, DelegationTypeOK, AuthorizeDelegation
<1>2. IInv'
  BY <1>1 DEF issuerVars, IInv, IssuerTypeOK, StatusMatchesRecord, Stored
<1>3. new \in Delegation /\ new.issued <= new.max
  BY DelegationInputAssumption, SMT DEF Delegation
<1>4. delegation' = [delegation EXCEPT ![now] = new]
  BY DEF AuthorizeDelegation
<1> HIDE DEF new
<1>5. \A g \in Id \ {now} : delegation'[g] = delegation[g]
  BY <1>1, <1>4
<1>6. delegation'[now] = new
  BY <1>1, <1>4
<1>7. DelegationTypeOK'
  <2>1. /\ delegateAuths' \in [Address -> SUBSET Id] /\ delegatorAuths' \in [Address -> SUBSET Id]
    BY <1>1 DEF DelegationTypeOK, AuthorizeDelegation
  <2>2. delegation' \in [Id -> Delegation \cup {None}]
    BY <1>1, <1>3, <1>4
  <2>3. \A g \in Id : delegation'[g] # None => delegation'[g].issued <= delegation'[g].max
    BY <1>1, <1>3, <1>5, <1>6 DEF DelegationTypeOK
  <2> QED
    BY <1>1, <1>2, <2>1, <2>2, <2>3 DEF DelegationTypeOK, IInv
<1>8. now' = now /\ credential' = credential /\ issuerCreds' = issuerCreds
  BY <1>1 DEF issuerVars
<1>9. GrantsDated'
  <2>1. \A g \in Id : Granted(g)' => g <= now
    BY <1>1, <1>5, BoundsAssumption, SMT DEF GrantsDated, Granted, Id
  <2>2. \A c \in Id : via[c] # None => via[c] \in Id /\ Granted(via[c])'
    BY <1>1, <1>5 DEF GrantsDated, Granted
  <2> QED
    BY <1>1, <1>8, <2>1, <2>2 DEF GrantsDated
<1>10. \A c \in Id : via[c] # now
  BY <1>1, NoneAssumption, BoundsAssumption, SMT DEF GrantsDated, Id
<1>11. IssuedWithinDelegation'
  <2>1. \A c \in Id : via[c] # None => delegation'[via[c]] = delegation[via[c]]
    BY <1>1, <1>5, <1>10 DEF GrantsDated
  <2>2. ASSUME NEW g \in Id, Granted(g)'
        PROVE  Cardinality({c \in Id : via[c] = g}) = delegation'[g].issued
    <3>1. CASE g = now
      <4>1. {c \in Id : via[c] = g} = {}
        BY <1>10, <3>1
      <4> QED
        BY <1>6, <3>1, <4>1, FS_EmptySet DEF new
    <3>2. CASE g # now
      BY <1>1, <1>5, <2>2, <3>2 DEF IssuedWithinDelegation, Granted
    <3> QED
      BY <3>1, <3>2
  <2>3. \A c \in Id : Stored(c)' <=> Stored(c)
    BY <1>8 DEF Stored
  <2> QED
    BY <1>1, <1>8, <2>1, <2>2, <2>3 DEF IssuedWithinDelegation
<1>12. DelegationKept
  BY <1>1, <1>5 DEF DelegationKept
<1> QED
  BY <1>2, <1>7, <1>9, <1>11, <1>12 DEF DelegationInv

LEMMA RevokeGrantKeeps ==
  ASSUME DelegationInv, NEW i \in Address, NEW g \in Id, RevokeDelegation(i, g)
  PROVE  DelegationInv' /\ DelegationKept
<1>1. /\ IInv /\ DelegationTypeOK /\ GrantsDated /\ IssuedWithinDelegation /\ IssuerTypeOK
      /\ delegation \in [Id -> Delegation \cup {None}] /\ via' = via
      /\ UNCHANGED issuerVars /\ delegation[g] \in Delegation
  BY DEF DelegationInv, IInv, IssuerTypeOK, DelegationTypeOK, RevokeDelegation, Granted
<1>2. IInv'
  BY <1>1 DEF issuerVars, IInv, IssuerTypeOK, StatusMatchesRecord, Stored
<1>3. now' = now /\ credential' = credential /\ issuerCreds' = issuerCreds
  BY <1>1 DEF issuerVars
<1>4. /\ delegation' = [delegation EXCEPT ![g] = delegation'[g]]
      /\ delegation'[g] \in Delegation
      /\ delegation'[g].delegator = delegation[g].delegator
      /\ delegation'[g].delegate = delegation[g].delegate
      /\ delegation'[g].max = delegation[g].max
      /\ delegation'[g].issued = delegation[g].issued
      /\ delegation'[g].expires = delegation[g].expires
      /\ \A h \in Id \ {g} : delegation'[h] = delegation[h]
  BY <1>1 DEF RevokeDelegation, Delegation
<1>5. \A h \in Id : Granted(h)' <=> Granted(h)
  BY <1>1, <1>4, DelegationRecordAssumption DEF Granted
<1>6. DelegationTypeOK'
  <2>1. /\ delegateAuths' \in [Address -> SUBSET Id] /\ delegatorAuths' \in [Address -> SUBSET Id]
    BY <1>1 DEF DelegationTypeOK, RevokeDelegation
  <2>2. delegation' \in [Id -> Delegation \cup {None}]
    BY <1>1, <1>4
  <2>3. \A h \in Id : delegation'[h] # None => delegation'[h].issued <= delegation'[h].max
    BY <1>1, <1>4, DelegationRecordAssumption DEF DelegationTypeOK
  <2> QED
    BY <1>1, <1>2, <2>1, <2>2, <2>3 DEF DelegationTypeOK, IInv
<1>7. GrantsDated'
  BY <1>1, <1>3, <1>5 DEF GrantsDated
<1>8. IssuedWithinDelegation'
  <2>1. \A h \in Id : /\ delegation'[h].delegator = delegation[h].delegator
                      /\ delegation'[h].expires = delegation[h].expires
                      /\ delegation'[h].issued = delegation[h].issued
    BY <1>4
  <2>2. \A c \in Id : Stored(c)' <=> Stored(c)
    BY <1>3 DEF Stored
  <2>3. \A c \in Id : via[c] # None => via[c] \in Id
    BY <1>1 DEF GrantsDated
  <2> QED
    BY <1>1, <1>3, <1>5, <2>1, <2>2, <2>3 DEF IssuedWithinDelegation
<1>9. DelegationKept
  <2> SUFFICES ASSUME NEW h \in Id, Granted(h)
               PROVE  /\ ~delegation[h].active => delegation'[h] = delegation[h]
                      /\ \A field \in {"delegator", "delegate", "max", "expires"} :
                            delegation'[h][field] = delegation[h][field]
    BY DEF DelegationKept
  <2>1. CASE h = g
    BY <1>4, <2>1 DEF RevokeDelegation
  <2>2. CASE h # g
    BY <1>4, <2>2
  <2> QED
    BY <2>1, <2>2
<1> QED
  BY <1>2, <1>6, <1>7, <1>8, <1>9 DEF DelegationInv

LEMMA IssueForOtherKeeps ==
  ASSUME DelegationInv, ~Stored(now), NEW e \in Address, NEW g \in Id, NEW item \in Item,
         IssueDelegatedCredential(e, g, item)
  PROVE  DelegationInv' /\ DelegationKept
<1> DEFINE i == delegation[g].delegator
<1>1. /\ IInv /\ DelegationTypeOK /\ GrantsDated /\ IssuedWithinDelegation /\ IssuerTypeOK
      /\ delegation \in [Id -> Delegation \cup {None}] /\ via \in [Id -> Id \cup {None}]
      /\ Granted(g) /\ delegation[g] \in Delegation /\ i \in Address
      /\ delegation[g].active /\ now <= delegation[g].expires
      /\ delegation[g].issued < delegation[g].max
      /\ delegation[g].issued \in Nat /\ delegation[g].max \in Nat
      /\ StoreCredentials(i, <<item>>)
  BY DelegationInputAssumption
     DEF DelegationInv, IInv, DelegationTypeOK, IssueDelegatedCredential, CanIssueFor, Granted,
         NotRevoked, InTime, BelowLimit, Delegation
<1>2. /\ Stored(now)' /\ credential'[now].issuer = i /\ now \in ToSet(issuerCreds'[i])
      /\ \A c \in Id \ {now} : credential'[c] = credential[c]
      /\ \A a \in Address : ToSet(issuerCreds[a]) \subseteq ToSet(issuerCreds'[a])
      /\ now' = now /\ now \in Id
  BY <1>1, StoreGrantView
<1>3. IInv'
  <2>1. bucket' \in [Address -> [count : 0 .. MaxCalls, start : Id]]
    BY <1>1 DEF IssueDelegatedCredential, IssuerTypeOK
  <2> QED
    BY <1>1, <2>1, SingleTyped, StoreKeeps
<1>4. /\ delegation' = [delegation EXCEPT ![g] = delegation'[g]]
      /\ delegation'[g] \in Delegation
      /\ delegation'[g].delegator = delegation[g].delegator
      /\ delegation'[g].delegate = delegation[g].delegate
      /\ delegation'[g].max = delegation[g].max
      /\ delegation'[g].issued = delegation[g].issued + 1
      /\ delegation'[g].expires = delegation[g].expires
      /\ \A h \in Id \ {g} : delegation'[h] = delegation[h]
  BY <1>1 DEF IssueDelegatedCredential, Delegation
<1>5. /\ via' = [via EXCEPT ![now] = g] /\ via'[now] = g
      /\ \A c \in Id \ {now} : via'[c] = via[c]
      /\ via[now] = None
  BY <1>1, <1>2 DEF IssueDelegatedCredential, IssuedWithinDelegation
<1>6. \A h \in Id : Granted(h)' <=> Granted(h)
  BY <1>1, <1>4, DelegationRecordAssumption DEF Granted
<1>7. DelegationTypeOK'
  <2>1. /\ delegateAuths' \in [Address -> SUBSET Id] /\ delegatorAuths' \in [Address -> SUBSET Id]
    BY <1>1 DEF DelegationTypeOK, IssueDelegatedCredential
  <2>2. delegation' \in [Id -> Delegation \cup {None}]
    BY <1>1, <1>4
  <2>3. delegation'[g].issued <= delegation'[g].max
    BY <1>1, <1>4, SMT
  <2>4. \A h \in Id : delegation'[h] # None => delegation'[h].issued <= delegation'[h].max
    BY <1>1, <1>4, <2>3 DEF DelegationTypeOK
  <2>5. via' \in [Id -> Id \cup {None}]
    BY <1>1, <1>5
  <2> QED
    BY <1>3, <2>1, <2>2, <2>4, <2>5 DEF DelegationTypeOK, IInv
<1>8. GrantsDated'
  <2>1. \A c \in Id : via'[c] # None => via'[c] \in Id /\ delegation'[via'[c]] # None
    BY <1>1, <1>5, <1>6 DEF GrantsDated, Granted
  <2> QED
    BY <1>1, <1>2, <1>6, <2>1 DEF GrantsDated, Granted
<1>9. IssuedWithinDelegation'
  <2>1. ASSUME NEW c \in Id, via'[c] # None
        PROVE  LET h == via'[c] IN
               /\ Stored(c)' /\ credential'[c].issuer = delegation'[h].delegator
               /\ c \in ToSet(issuerCreds'[delegation'[h].delegator])
               /\ h <= c /\ c <= delegation'[h].expires
    <3>1. CASE c = now
      BY <1>1, <1>2, <1>4, <1>5, <3>1 DEF GrantsDated
    <3>2. CASE c # now
      <4>1. via'[c] = via[c] /\ via[c] \in Id /\ Granted(via[c]) /\ credential'[c] = credential[c]
        BY <1>1, <1>2, <1>5, <2>1, <3>2 DEF GrantsDated
      <4>2. /\ Stored(c) /\ credential[c].issuer = delegation[via[c]].delegator
            /\ c \in ToSet(issuerCreds[delegation[via[c]].delegator])
            /\ via[c] <= c /\ c <= delegation[via[c]].expires
        BY <1>1, <2>1, <4>1 DEF IssuedWithinDelegation
      <4>3. /\ delegation'[via[c]].delegator = delegation[via[c]].delegator
            /\ delegation'[via[c]].expires = delegation[via[c]].expires
            /\ delegation[via[c]].delegator \in Address
        BY <1>1, <1>4, <4>1 DEF Granted, Delegation
      <4>4. Stored(c)'
        BY <4>1, <4>2 DEF Stored
      <4> QED
        BY <1>2, <4>1, <4>2, <4>3, <4>4
    <3> QED
      BY <3>1, <3>2
  <2>2. ASSUME NEW h \in Id, Granted(h)'
        PROVE  Cardinality({c \in Id : via'[c] = h}) = delegation'[h].issued
    <3>1. Cardinality(Through(h)) = delegation[h].issued
      BY <1>1, <1>6, <2>2 DEF IssuedWithinDelegation, Through
    <3>2. CASE h = g
      <4>1. {c \in Id : via'[c] = h} = Through(h) \cup {now} /\ now \notin Through(h)
        BY <1>2, <1>5, <3>2, NoneAssumption, BoundsAssumption, SMT DEF Through, Id
      <4> QED
        BY <1>4, <3>1, <3>2, <4>1, ThroughFinite, FS_AddElement
    <3>3. CASE h # g
      <4>1. None \notin Id
        BY NoneAssumption, BoundsAssumption, SMT DEF Id
      <4>2. {c \in Id : via'[c] = h} = Through(h)
        BY <1>5, <3>3, <4>1 DEF Through
      <4> QED
        BY <1>4, <3>1, <3>3, <4>2
    <3> QED
      BY <3>2, <3>3
  <2> QED
    BY <2>1, <2>2 DEF IssuedWithinDelegation
<1>10. DelegationKept
  <2> SUFFICES ASSUME NEW h \in Id, Granted(h)
               PROVE  /\ ~delegation[h].active => delegation'[h] = delegation[h]
                      /\ \A field \in {"delegator", "delegate", "max", "expires"} :
                            delegation'[h][field] = delegation[h][field]
    BY DEF DelegationKept
  <2>1. CASE h = g
    BY <1>1, <1>4, <2>1
  <2>2. CASE h # g
    BY <1>4, <2>2
  <2> QED
    BY <2>1, <2>2
<1> QED
  BY <1>3, <1>7, <1>8, <1>9, <1>10 DEF DelegationInv

LEMMA OwnStepsKeep ==
  ASSUME DelegationInv, OwnSteps
  PROVE  DelegationInv' /\ DelegationKept
<1>1. IInv /\ UNCHANGED <<grantVars, via>>
  BY DEF DelegationInv, OwnSteps
<1>2. ASSUME NEW i \in Address, NEW item \in Item, ~Stored(now),
             IssueCredentials(i, <<item>>)
      PROVE  DelegationInv' /\ DelegationKept
  <2>1. StoreCredentials(i, <<item>>)
    BY <1>2 DEF IssueCredentials
  <2>2. IInv'
    BY <1>1, <1>2, SingleTyped, IssueKeeps
  <2>3. /\ \A c \in Id \ {now} : credential'[c] = credential[c]
        /\ \A a \in Address : ToSet(issuerCreds[a]) \subseteq ToSet(issuerCreds'[a])
        /\ now' = now /\ now \in Id
    BY <1>1, <2>1, StoreGrantView
  <2>4. now' >= now
    BY <2>3, BoundsAssumption, SMT DEF Id
  <2>5. \A c \in Id : Stored(c) => Stored(c)' /\ credential'[c].issuer = credential[c].issuer
    BY <1>2, <2>3 DEF Stored
  <2> QED
    BY <1>1, <2>2, <2>3, <2>4, <2>5, UntouchedGrants
<1>3. ASSUME NEW i \in Address, NEW c \in Id, RevokeCredential(i, c, None)
      PROVE  DelegationInv' /\ DelegationKept
  <2>1. RevokeSteps
    BY <1>3 DEF RevokeSteps
  <2>2. IInv'
    BY <1>1, <2>1, RevokeKeeps
  <2>3. PICK set \in SUBSET Id : RevokesOnly(set)
    BY <1>1, <2>1, RevokeEffect
  <2>4. \A d \in Id : Stored(d) => Stored(d)' /\ credential'[d].issuer = credential[d].issuer
    <3> SUFFICES ASSUME NEW d \in Id, Stored(d)
                 PROVE  Stored(d)' /\ credential'[d].issuer = credential[d].issuer
      OBVIOUS
    <3>1. Stored(d)' /\ credential[d] \in Credential
      BY <1>1, <2>3, RevokedTyped DEF IInv, IssuerTypeOK, Stored
    <3>2. credential'[d] = [credential[d] EXCEPT !.revocation = now]
          \/ credential'[d] = credential[d]
      BY <1>1, <2>3, RevokedTyped
    <3> QED
      BY <3>1, <3>2 DEF Credential
  <2>5. now' >= now /\ issuerCreds' = issuerCreds
    BY <1>1, <2>3, BoundsAssumption, SMT DEF RevokesOnly, IInv, IssuerTypeOK, Id
  <2> QED
    BY <1>1, <2>2, <2>4, <2>5, UntouchedGrants
<1>4. ASSUME CloseLedger
      PROVE  DelegationInv' /\ DelegationKept
  <2>1. IInv'
    BY <1>1, <1>4, CloseKeeps
  <2>2. now' >= now
    BY <1>1, <1>4, BoundsAssumption, SMT DEF CloseLedger, IInv, IssuerTypeOK, Id
  <2>3. credential' = credential /\ issuerCreds' = issuerCreds
    BY <1>4 DEF CloseLedger
  <2>4. \A c \in Id : Stored(c) => Stored(c)' /\ credential'[c].issuer = credential[c].issuer
    BY <2>3 DEF Stored
  <2> QED
    BY <1>1, <2>1, <2>2, <2>3, <2>4, UntouchedGrants
<1> QED
  BY <1>2, <1>3, <1>4 DEF OwnSteps

LEMMA DelegationStep ==
  DelegationInv /\ [NextSpaced]_delegationVars => DelegationInv' /\ [DelegationKept]_delegationVars
<1> SUFFICES ASSUME DelegationInv, [NextSpaced]_delegationVars
             PROVE  DelegationInv' /\ [DelegationKept]_delegationVars
  OBVIOUS
<1>1. CASE ~Granted(now) /\ Authorize
  BY <1>1, AuthorizeKeeps DEF Authorize
<1>2. CASE RevokeGrant
  BY <1>2, RevokeGrantKeeps DEF RevokeGrant
<1>3. CASE ~Stored(now) /\ IssueForOther
  BY <1>3, IssueForOtherKeeps DEF IssueForOther
<1>4. CASE OwnSteps
  BY <1>4, OwnStepsKeep
<1>5. CASE UNCHANGED delegationVars
  BY <1>5 DEF delegationVars, issuerVars, grantVars, DelegationInv, IInv, IssuerTypeOK,
     StatusMatchesRecord, Stored, DelegationTypeOK, GrantsDated, Granted, IssuedWithinDelegation
<1> QED
  BY <1>1, <1>2, <1>3, <1>4, <1>5 DEF NextSpaced

LEMMA DelegationInvariance == SpecDelegating => []DelegationInv
BY DelegationInitially, DelegationStep, PTL DEF SpecDelegating

\* issue_delegated_credential, authorize_delegation and revoke_delegation, for any parties,
\* limits and dates and in any order: a delegate issues in the delegator's name, between
\* grant and expiry and as many as its delegation counts, a revoked delegation never
\* counts another, and none is rewritten.
THEOREM DelegationAlwaysHonoured == SpecDelegating => DelegationHonoured
<1>1. SpecDelegating => []IssuedWithinDelegation
  BY DelegationInvariance, PTL DEF DelegationInv
<1>2. DelegationInv /\ [NextSpaced]_delegationVars => [DelegationKept]_delegationVars
  BY DelegationStep
<1> QED
  BY <1>1, <1>2, DelegationInvariance, PTL DEF SpecDelegating, DelegationHonoured

-----------------------------------------------------------------------------
(* Registries. *)

\* Only stored credentials are revoked, and a proof names a registry that is there.
RegistryBacked ==
    /\ \A c \in Id : revoked[c] => Stored(c)
    /\ \A c \in Id : proof[c] # None => registry[proof[c].registry] # None

RegistryInv == IInv /\ RegistryTypeOK /\ RegistryExact /\ RegistryBacked

LEMMA RegistryInitially == RegistryInit => RegistryInv
<1> SUFFICES ASSUME RegistryInit PROVE RegistryInv
  OBVIOUS
<1>1. IInv
  BY Initially DEF RegistryInit
<1>2. RegistryTypeOK
  BY <1>1 DEF IInv, RegistryInit, RegistryTypeOK
<1>3. RegistryExact /\ RegistryBacked
  BY DEF RegistryInit, IssuerInit, RegistryExact, RegistryBacked
<1> QED
  BY <1>1, <1>2, <1>3 DEF RegistryInv

\* An injective list of ids is no longer than there are ids.
LEMMA InjectiveBound ==
  ASSUME NEW s \in Seq(Id), IsInjective(s)
  PROVE  Len(s) \in 0 .. MaxTime + 1
<1>1. Len(s) \in Nat /\ s \in [1 .. Len(s) -> Id] /\ DOMAIN s = 1 .. Len(s)
  BY LenProperties
<1>2. s \in Injection(1 .. Len(s), Id)
  BY <1>1 DEF IsInjective, Injection
<1>3. Cardinality(1 .. Len(s)) <= Cardinality(Id)
  BY <1>2, IdNotNone, FS_Injection
<1>4. Cardinality(1 .. Len(s)) = Len(s)
  BY <1>1, FS_Interval, SMT
<1> QED
  BY <1>1, <1>3, <1>4, IdNotNone, BoundsAssumption, SMT

\* What a list extended by another contains.
LEMMA ConcatSets ==
  ASSUME NEW s \in Seq(Id), NEW t \in Seq(Id)
  PROVE  /\ s \o t \in Seq(Id) /\ Len(s \o t) = Len(s) + Len(t)
         /\ ToSet(s \o t) = ToSet(s) \cup ToSet(t)
         /\ IsPrefix(s, s \o t)
         /\ IsInjective(s) /\ IsInjective(t) /\ ToSet(s) \cap ToSet(t) = {}
              => IsInjective(s \o t)
<1>1. /\ s \o t \in Seq(Id) /\ Len(s \o t) = Len(s) + Len(t)
      /\ Len(s) \in Nat /\ Len(t) \in Nat
      /\ DOMAIN s = 1 .. Len(s) /\ DOMAIN t = 1 .. Len(t)
      /\ DOMAIN (s \o t) = 1 .. Len(s) + Len(t)
      /\ \A k \in 1 .. Len(s) + Len(t) :
            (s \o t)[k] = IF k <= Len(s) THEN s[k] ELSE t[k - Len(s)]
  BY ConcatProperties, LenProperties
<1>2. \A k \in 1 .. Len(s) : k \in 1 .. Len(s) + Len(t) /\ (s \o t)[k] = s[k]
  BY <1>1, SMT
<1>3. \A k \in 1 .. Len(t) : Len(s) + k \in 1 .. Len(s) + Len(t) /\ (s \o t)[Len(s) + k] = t[k]
  BY <1>1, SMT
<1>4. \A k \in 1 .. Len(s) + Len(t) :
          \/ k \in 1 .. Len(s) /\ (s \o t)[k] = s[k]
          \/ k - Len(s) \in 1 .. Len(t) /\ (s \o t)[k] = t[k - Len(s)]
  BY <1>1, SMT
<1>5. ToSet(s \o t) = ToSet(s) \cup ToSet(t)
  BY <1>1, <1>2, <1>3, <1>4 DEF ToSet
<1>6. IsPrefix(s, s \o t)
  <2>1. Len(s) <= Len(s \o t)
    BY <1>1, SMT
  <2>2. CASE Len(s) = 0
    BY <1>1, <2>1, <2>2, SubSeqEmpty, SMT DEF IsPrefix
  <2>3. CASE Len(s) # 0
    <3>1. 1 \in 1 .. Len(s) /\ Len(s) \in 1 .. Len(s)
      BY <1>1, <2>3, SMT
    <3> QED
      BY <2>1, <3>1, SubSeqOfConcat1 DEF IsPrefix
  <2> QED
    BY <2>2, <2>3
<1>7. ASSUME IsInjective(s), IsInjective(t), ToSet(s) \cap ToSet(t) = {}
      PROVE  IsInjective(s \o t)
  <2> SUFFICES ASSUME NEW j \in 1 .. Len(s) + Len(t), NEW k \in 1 .. Len(s) + Len(t),
                      (s \o t)[j] = (s \o t)[k]
               PROVE  j = k
    BY <1>1 DEF IsInjective
  <2>1. \A a \in 1 .. Len(s), b \in 1 .. Len(t) : s[a] # t[b]
    BY <1>1, <1>7 DEF ToSet
  <2>2. \A a, b \in 1 .. Len(s) : s[a] = s[b] => a = b
    BY <1>1, <1>7 DEF IsInjective
  <2>3. \A a, b \in 1 .. Len(t) : t[a] = t[b] => a = b
    BY <1>1, <1>7 DEF IsInjective
  <2>4. j - Len(s) = k - Len(s) => j = k
    BY <1>1, SMT
  <2> QED
    BY <1>4, <2>1, <2>2, <2>3, <2>4
<1> QED
  BY <1>1, <1>5, <1>6, <1>7

\* What a batch newly revokes is the unrevoked part of its ids, each once.
LEMMA NewlyRevokedIds ==
  ASSUME IInv, NEW ids \in Seq(Id), NEW new \in NewlyRevoked(ids)
  PROVE  /\ new \in Seq(Id) /\ IsInjective(new)
         /\ ToSet(new) = {c \in ToSet(ids) : ~revoked[c]}
<1> DEFINE left == {c \in ToSet(ids) : ~revoked[c]}
<1>1. ToSet(ids) \subseteq Id /\ left \subseteq Id
  BY ElementOfSeq, LenProperties DEF ToSet
<1>2. IsFiniteSet(left) /\ Cardinality(left) \in Nat
  BY <1>1, IdNotNone, FS_Subset, FS_CardinalityType
<1> DEFINE n == Cardinality(left)
<1>3. new \in [1 .. n -> left] /\ \A j, k \in 1 .. n : j < k => Before(ids, new[j], new[k])
  BY DEF NewlyRevoked
<1> HIDE DEF left, n
<1>4. n \in Nat
  BY <1>2 DEF n
<1>5. new \in Seq(Id) /\ DOMAIN new = 1 .. n
  BY <1>1, <1>3, <1>4, SMT
<1>6. \A c \in Id : ~Before(ids, c, c)
  <2> SUFFICES ASSUME NEW c \in Id, Before(ids, c, c) PROVE FALSE
    OBVIOUS
  <2>1. PICK k \in DOMAIN ids : ids[k] = c /\ \A j \in 1 .. k : ids[j] # c
    BY DEF Before
  <2>2. k \in 1 .. k
    BY <2>1, LenProperties, SMT
  <2> QED
    BY <2>1, <2>2
<1>7. IsInjective(new)
  <2> SUFFICES ASSUME NEW j \in 1 .. n, NEW k \in 1 .. n, new[j] = new[k], j # k
               PROVE  FALSE
    BY <1>5 DEF IsInjective
  <2>1. j < k \/ k < j
    BY <1>4, SMT
  <2>2. new[j] \in Id
    BY <1>1, <1>3
  <2> QED
    BY <1>3, <1>6, <2>1, <2>2
<1>8. ToSet(new) = left
  <2>1. new \in Injection(1 .. n, left)
    BY <1>3, <1>5, <1>7 DEF IsInjective, Injection
  <2>2. Cardinality(1 .. n) = Cardinality(left)
    BY <1>4, FS_Interval, SMT DEF n
  <2>3. new \in Surjection(1 .. n, left)
    BY <1>2, <2>1, <2>2, FS_Injection
  <2> QED
    BY <1>3, <1>5, <2>3 DEF Surjection, ToSet
<1> QED
  BY <1>5, <1>7, <1>8 DEF left

\* Steps that revoke a list of credentials into a registry of their issuer.
RevokesInto(i, g, new, nonce) ==
    /\ OwnRegistry(i, g)
    /\ new \in Seq(Id) /\ IsInjective(new)
    /\ \A c \in ToSet(new) : credential[c].issuer = i
    /\ RevokesOnly(ToSet(new))
    /\ nonce \in [Id -> Nonce]
    /\ proof' = ProofsAfter(g, new, nonce)
    /\ registry' = Extended(g, new)

LEMMA RevokesIntoKeeps ==
  ASSUME RegistryInv, NEW i \in Address, NEW g \in Id, NEW new, NEW nonce,
         RevokesInto(i, g, new, nonce),
         batch' \in [Id -> Seq(Id) \cup {None}],
         \A b \in Id : batch'[b] # None => \A c \in ToSet(batch'[b]) : revoked'[c]
  PROVE  RegistryInv' /\ RegistryKept
<1>1. /\ IInv /\ RegistryTypeOK /\ RegistryExact /\ RegistryBacked /\ IssuerTypeOK
      /\ registry \in [Id -> Registry \cup {None}] /\ proof \in [Id -> Proof \cup {None}]
      /\ now \in Id
      /\ registry[g] # None /\ registry[g].issuer = i
      /\ new \in Seq(Id) /\ IsInjective(new)
      /\ RevokesOnly(ToSet(new)) /\ now' = now
  BY DEF RegistryInv, RegistryTypeOK, RevokesInto, OwnRegistry, IInv, IssuerTypeOK, RevokesOnly
<1> DEFINE set == ToSet(new)
           old == registry[g].ids
<1>2. set \in SUBSET Id /\ set \subseteq Id
  BY <1>1, ElementOfSeq, LenProperties DEF ToSet
<1>3. /\ registry[g] \in Registry /\ old \in Seq(Id)
      /\ registry[g].revokedCount = Len(old) /\ IsInjective(old)
      /\ \A c \in ToSet(old) : revoked[c] /\ credential[c].issuer = i /\ proof[c].registry = g
  BY <1>1 DEF RegistryExact, Registry
<1>4. ToSet(old) \subseteq Id
  BY <1>3, ElementOfSeq, LenProperties DEF ToSet
<1>5. /\ \A c \in Id : revoked'[c] = (revoked[c] \/ c \in set)
      /\ \A c \in set : Stored(c) /\ ~revoked[c]
      /\ revoked' \in [Id -> BOOLEAN]
  BY <1>1 DEF RevokesOnly
<1>6. \A c \in Id : (revoked[c] => revoked'[c]) /\ (c \in set => revoked'[c])
  BY <1>5
<1>7. /\ credential' \in [Id -> Credential \cup {None}]
      /\ \A c \in Id : Stored(c)' <=> Stored(c)
      /\ \A c \in Id : Stored(c) => credential'[c].issuer = credential[c].issuer
  <2>1. /\ credential' \in [Id -> Credential \cup {None}]
        /\ \A c \in Id : Stored(c)' <=> Stored(c)
        /\ \A c \in set : credential'[c] = [credential[c] EXCEPT !.revocation = now]
        /\ \A c \in Id \ set : credential'[c] = credential[c]
    BY <1>1, <1>2, RevokedTyped
  <2>2. ASSUME NEW c \in Id, Stored(c) PROVE credential'[c].issuer = credential[c].issuer
    <3>1. credential[c] \in Credential
      BY <1>1, <2>2 DEF IssuerTypeOK, Stored
    <3> QED
      BY <2>1, <3>1 DEF Credential
  <2> QED
    BY <2>1, <2>2
<1>8. IInv'
  <2>1. IssuerTypeOK'
    BY <1>1, <1>7 DEF RevokesOnly, IssuerTypeOK
  <2>2. StatusMatchesRecord'
    BY <1>1, <1>2, RevokesKeepStatus
  <2> QED
    BY <2>1, <2>2 DEF IInv
<1>9. ToSet(old) \cap set = {}
  BY <1>3, <1>5
<1>10. /\ old \o new \in Seq(Id) /\ Len(old \o new) = Len(old) + Len(new)
       /\ ToSet(old \o new) = ToSet(old) \cup set
       /\ IsPrefix(old, old \o new) /\ IsInjective(old \o new)
  BY <1>1, <1>3, <1>9, ConcatSets
<1>11. /\ registry' = [registry EXCEPT ![g] = registry'[g]]
       /\ registry'[g] \in Registry
       /\ registry'[g].issuer = i /\ registry'[g].ids = old \o new
       /\ registry'[g].revokedCount = Len(old \o new)
       /\ \A h \in Id \ {g} : registry'[h] = registry[h]
  <2>1. registry' = [registry EXCEPT ![g].ids = old \o new,
                                     ![g].revokedCount = @ + Len(new)]
    BY DEF RevokesInto, Extended
  <2>2. registry'[g] = [issuer |-> i, ids |-> old \o new, revokedCount |-> Len(old) + Len(new)]
    BY <1>1, <1>3, <2>1 DEF Registry
  <2>3. Len(old \o new) \in 0 .. MaxTime + 1
    BY <1>10, InjectiveBound
  <2>4. registry'[g] \in Registry
    BY <1>10, <2>2, <2>3 DEF Registry
  <2>5. \A h \in Id \ {g} : registry'[h] = registry[h]
    BY <1>1, <2>1
  <2>6. registry' = [registry EXCEPT ![g] = registry'[g]]
    BY <1>1, <2>1
  <2> QED
    BY <1>10, <2>2, <2>4, <2>5, <2>6
<1>12. /\ \A h \in Id : registry'[h] # None <=> registry[h] # None
       /\ \A h \in Id : registry[h] # None => /\ registry'[h].issuer = registry[h].issuer
                                              /\ IsPrefix(registry[h].ids, registry'[h].ids)
  <2>1. ASSUME NEW h \in Id, h # g, registry[h] # None
        PROVE  IsPrefix(registry[h].ids, registry[h].ids)
    BY DEF IsPrefix
  <2>2. registry'[g] # None
    BY <1>11, RegistryRecordAssumption
  <2> QED
    BY <1>1, <1>10, <1>11, <2>1, <2>2
<1>13. /\ \A c \in set : /\ proof'[c] \in Proof /\ proof'[c].registry = g
       /\ \A c \in Id \ set : proof'[c] = proof[c]
       /\ proof' \in [Id -> Proof \cup {None}]
  <2>1. nonce \in [Id -> Nonce] /\ \A c \in Id : proof'[c] =
            IF c \in set THEN [registry |-> g, nonce |-> nonce[c], time |-> now] ELSE proof[c]
    BY DEF RevokesInto, ProofsAfter
  <2>2. \A c \in set : [registry |-> g, nonce |-> nonce[c], time |-> now] \in Proof
    BY <1>1, <1>2, <2>1 DEF Proof
  <2>3. proof' = [c \in Id |-> proof'[c]]
    BY DEF RevokesInto, ProofsAfter
  <2>4. \A c \in Id : proof'[c] \in Proof \cup {None}
    BY <1>1, <2>1, <2>2
  <2> QED
    BY <1>2, <2>1, <2>2, <2>3, <2>4
<1>14. \A c \in Id : proof[c] # None => revoked[c] /\ c \notin set
  <2> SUFFICES ASSUME NEW c \in Id, proof[c] # None PROVE revoked[c]
    BY <1>5
  <2>1. /\ proof[c] \in Proof /\ proof[c].registry \in Id
        /\ registry[proof[c].registry] # None /\ c \in ToSet(registry[proof[c].registry].ids)
    BY <1>1 DEF RegistryExact, RegistryBacked, Proof
  <2> QED
    BY <1>1, <2>1 DEF RegistryExact
<1>15. RegistryTypeOK'
  <2>1. registry' \in [Id -> Registry \cup {None}]
    BY <1>1, <1>11
  <2> QED
    BY <1>8, <1>13, <2>1 DEF RegistryTypeOK, IInv
<1>16. RegistryExact'
  <2>1. ASSUME NEW h \in Id, registry'[h] # None
        PROVE  /\ \A c \in ToSet(registry'[h].ids) :
                     /\ revoked'[c] /\ credential'[c].issuer = registry'[h].issuer
                     /\ proof'[c].registry = h
               /\ IsInjective(registry'[h].ids)
               /\ registry'[h].revokedCount = Len(registry'[h].ids)
    <3>1. CASE h = g
      <4>1. ASSUME NEW c \in ToSet(old) \cup set
            PROVE  /\ revoked'[c] /\ credential'[c].issuer = i /\ proof'[c].registry = g
        <5>1. CASE c \in set
          BY <1>2, <1>5, <1>6, <1>7, <1>13, <5>1 DEF RevokesInto
        <5>2. CASE c \in ToSet(old)
          BY <1>1, <1>3, <1>4, <1>6, <1>7, <1>9, <1>13, <5>2 DEF RegistryBacked
        <5> QED
          BY <5>1, <5>2
      <4> QED
        BY <1>10, <1>11, <3>1, <4>1
    <3>2. CASE h # g
      <4>1. registry'[h] = registry[h] /\ registry[h] # None /\ registry[h] \in Registry
        BY <1>1, <1>11, <2>1, <3>2
      <4>2. ToSet(registry[h].ids) \subseteq Id
        BY <4>1, ElementOfSeq, LenProperties DEF Registry, ToSet
      <4>3. \A c \in ToSet(registry[h].ids) :
               revoked[c] /\ credential[c].issuer = registry[h].issuer /\ proof[c].registry = h
        BY <1>1, <4>1 DEF RegistryExact
      <4>4. \A c \in ToSet(registry[h].ids) : c \notin set /\ Stored(c)
        BY <1>1, <1>5, <4>2, <4>3 DEF RegistryBacked
      <4>5. IsInjective(registry[h].ids) /\ registry[h].revokedCount = Len(registry[h].ids)
        BY <1>1, <4>1 DEF RegistryExact
      <4> QED
        BY <1>6, <1>7, <1>13, <4>1, <4>2, <4>3, <4>4, <4>5
    <3> QED
      BY <3>1, <3>2
  <2>2. ASSUME NEW c \in Id, proof'[c] # None
        PROVE  c \in ToSet(registry'[proof'[c].registry].ids)
    <3>1. CASE c \in set
      BY <1>10, <1>11, <1>13, <3>1
    <3>2. CASE c \notin set
      <4>1. /\ proof'[c] = proof[c] /\ proof[c] \in Proof /\ proof[c].registry \in Id
            /\ c \in ToSet(registry[proof[c].registry].ids)
        BY <1>1, <1>13, <2>2, <3>2 DEF RegistryExact, Proof
      <4> QED
        BY <1>10, <1>11, <4>1
    <3> QED
      BY <3>1, <3>2
  <2> QED
    BY <2>1, <2>2 DEF RegistryExact
<1>17. RegistryBacked'
  <2>1. \A c \in Id : revoked'[c] => Stored(c)'
    BY <1>1, <1>5, <1>7 DEF RegistryBacked
  <2>2. \A c \in Id : proof'[c] # None => registry'[proof'[c].registry] # None
    <3> SUFFICES ASSUME NEW c \in Id, proof'[c] # None
                 PROVE  registry'[proof'[c].registry] # None
      OBVIOUS
    <3>1. CASE c \in set
      BY <1>1, <1>12, <1>13, <3>1
    <3>2. CASE c \notin set
      <4>1. /\ proof'[c] = proof[c] /\ proof[c] \in Proof /\ proof[c].registry \in Id
            /\ registry[proof[c].registry] # None
        BY <1>1, <1>13, <3>2 DEF RegistryBacked, Proof
      <4> QED
        BY <1>12, <4>1
    <3> QED
      BY <3>1, <3>2
  <2> QED
    BY <2>1, <2>2 DEF RegistryBacked
<1>18. RegistryKept
  <2>1. ASSUME NEW c \in Id, proof[c] # None
        PROVE  VerifyRevocationProof(c, proof[c])' /\ proof'[c] = proof[c]
    BY <1>6, <1>13, <1>14, <2>1 DEF VerifyRevocationProof
  <2> QED
    BY <1>12, <2>1 DEF RegistryKept
<1> QED
  BY <1>8, <1>15, <1>16, <1>17, <1>18 DEF RegistryInv

LEMMA RevokeWithRegistryKeeps ==
  ASSUME RegistryInv, NEW i \in Address, NEW c \in Id, NEW g \in Id,
         RevokeCredentialWithRegistry(i, c, g, None)
  PROVE  RegistryInv' /\ RegistryKept
<1> DEFINE nonce == [x \in Id |-> <<now>>]
<1>1. IInv /\ now \in Id /\ RevokeCredential(i, c, None)
  BY DEF RegistryInv, IInv, IssuerTypeOK, RevokeCredentialWithRegistry
<1>2. <<c>> \in Seq(Id) /\ ToSet(<<c>>) = {c} /\ IsInjective(<<c>>)
  BY SMT DEF ToSet, IsInjective
<1>3. RevokesOnly({c})
  BY <1>1, RevokeCredentialEffect
<1>4. nonce \in [Id -> Nonce]
  BY <1>1 DEF Nonce
<1>5. RevokesInto(i, g, <<c>>, nonce)
  BY <1>1, <1>2, <1>3, <1>4 DEF RevokesInto, RevokeCredentialWithRegistry, RevokeCredential, CanRevoke
<1>6. /\ batch' \in [Id -> Seq(Id) \cup {None}]
      /\ \A b \in Id : batch'[b] # None => \A d \in ToSet(batch'[b]) : revoked'[d]
  <2>1. batch' = batch /\ batch \in [Id -> Seq(Id) \cup {None}]
    BY DEF RegistryInv, RegistryTypeOK, RevokeCredentialWithRegistry
  <2>2. ASSUME NEW b \in Id, batch[b] # None, NEW d \in ToSet(batch[b])
        PROVE  revoked'[d]
    <3>1. d \in Id
      BY <2>1, <2>2, ElementOfSeq, LenProperties DEF ToSet
    <3>2. revoked[d]
      BY <2>2 DEF RegistryInv, RegistryExact
    <3> QED
      BY <1>3, <3>1, <3>2 DEF RevokesOnly
  <2> QED
    BY <2>1, <2>2
<1> QED
  BY <1>5, <1>6, RevokesIntoKeeps

LEMMA BatchKeeps ==
  ASSUME RegistryInv, NEW i \in Address, NEW g \in Id, NEW ids \in Seq(Id),
         BatchRevokeCredentials(i, ids, g, "given")
  PROVE  RegistryInv' /\ RegistryKept
<1>1. IInv /\ IssuerTypeOK /\ now \in Id
  BY DEF RegistryInv, IInv, IssuerTypeOK
<1>2. PICK new \in NewlyRevoked(ids) :
         /\ credential' = CredentialsRevoked(ToSet(new))
         /\ revoked' = [c \in Id |-> revoked[c] \/ c \in ToSet(new)]
         /\ reason' = [c \in Id |-> IF c \in ToSet(new) THEN "given" ELSE reason[c]]
         /\ proof' = ProofsAfter(g, new, [x \in Id |-> <<now, x>>])
         /\ registry' = Extended(g, new)
  <2>1. "given" # None
    BY RecordAssumption DEF Reason
  <2> QED
    BY <2>1 DEF BatchRevokeCredentials
<1>3. /\ new \in Seq(Id) /\ IsInjective(new)
      /\ ToSet(new) = {c \in ToSet(ids) : ~revoked[c]}
  BY <1>1, NewlyRevokedIds
<1>4. ToSet(ids) \subseteq Id
  BY ElementOfSeq, LenProperties DEF ToSet
<1>5. \A c \in ToSet(ids) : Stored(c) /\ credential[c].issuer = i
  BY DEF BatchRevokeCredentials, ToSet
<1>6. RevokesOnly(ToSet(new))
  <2>1. \A c \in Id : revoked'[c] = (revoked[c] \/ c \in ToSet(new))
    BY <1>2, Zenon
  <2>2. revoked' \in [Id -> BOOLEAN]
    BY <1>1, <1>2 DEF IssuerTypeOK
  <2>3. /\ reason' \in [Id -> Reason \cup {None}]
        /\ \A c \in Id \ ToSet(new) : reason'[c] = reason[c]
    BY <1>1, <1>2 DEF IssuerTypeOK, Reason
  <2> QED
    BY <1>2, <1>3, <1>5, <2>1, <2>2, <2>3 DEF RevokesOnly, BatchRevokeCredentials
<1>7. [x \in Id |-> <<now, x>>] \in [Id -> Nonce]
  BY <1>1 DEF Nonce
<1>8. RevokesInto(i, g, new, [x \in Id |-> <<now, x>>])
  BY <1>2, <1>3, <1>5, <1>6, <1>7 DEF RevokesInto, BatchRevokeCredentials
<1>9. \A c \in Id : revoked[c] => revoked'[c]
  BY <1>6 DEF RevokesOnly
<1>10. /\ batch' \in [Id -> Seq(Id) \cup {None}]
       /\ \A b \in Id : batch'[b] # None => \A c \in ToSet(batch'[b]) : revoked'[c]
  <2>1. batch \in [Id -> Seq(Id) \cup {None}] /\ batch' = [batch EXCEPT ![now] = ids]
    BY DEF RegistryInv, RegistryTypeOK, BatchRevokeCredentials
  <2>2. \A c \in ToSet(ids) : revoked'[c]
    <3> SUFFICES ASSUME NEW c \in ToSet(ids) PROVE revoked'[c]
      OBVIOUS
    <3>1. CASE revoked[c]
      BY <1>4, <1>9, <3>1
    <3>2. CASE ~revoked[c]
      BY <1>3, <1>4, <1>6, <3>2 DEF RevokesOnly
    <3> QED
      BY <3>1, <3>2
  <2>3. ASSUME NEW b \in Id, b # now, batch[b] # None, NEW c \in ToSet(batch[b])
        PROVE  revoked'[c]
    <3>1. c \in Id
      BY <2>1, <2>3, ElementOfSeq, LenProperties DEF ToSet
    <3>2. revoked[c]
      BY <2>3 DEF RegistryInv, RegistryExact
    <3> QED
      BY <1>9, <3>1, <3>2
  <2> QED
    BY <1>1, <2>1, <2>2, <2>3
<1> QED
  BY <1>8, <1>10, RevokesIntoKeeps

LEMMA CreateKeeps ==
  ASSUME RegistryInv, registry[now] = None, NEW i \in Address, CreateRevocationRegistry(i)
  PROVE  RegistryInv' /\ RegistryKept
<1>1. /\ IInv /\ RegistryTypeOK /\ RegistryExact /\ RegistryBacked
      /\ registry \in [Id -> Registry \cup {None}] /\ proof \in [Id -> Proof \cup {None}]
      /\ now \in Id /\ UNCHANGED <<issuerVars, proof, batch>>
      /\ registry' = [registry EXCEPT ![now] = [issuer |-> i, ids |-> <<>>, revokedCount |-> 0]]
  BY DEF RegistryInv, RegistryTypeOK, IInv, IssuerTypeOK, CreateRevocationRegistry
<1>2. /\ now' = now /\ credential' = credential /\ revoked' = revoked /\ proof' = proof
      /\ batch' = batch
  BY <1>1 DEF issuerVars
<1>3. IInv'
  BY <1>1 DEF issuerVars, IInv, IssuerTypeOK, StatusMatchesRecord, Stored
<1>4. /\ registry'[now] \in Registry /\ registry'[now].ids = <<>>
      /\ registry'[now].revokedCount = 0
      /\ \A g \in Id \ {now} : registry'[g] = registry[g]
  BY <1>1, BoundsAssumption, SMT DEF Registry
<1>5. \A c \in Id : proof[c] # None => proof[c].registry \in Id \ {now}
  BY <1>1 DEF RegistryBacked, Proof
<1>6. RegistryTypeOK'
  <2>1. registry' \in [Id -> Registry \cup {None}]
    BY <1>1, <1>4
  <2> QED
    BY <1>1, <1>2, <1>3, <2>1 DEF RegistryTypeOK, IInv
<1>7. ToSet(<<>>) = {} /\ IsInjective(<<>>) /\ Len(<<>>) = 0
  BY SMT DEF ToSet, IsInjective
<1>8. RegistryExact'
  <2>1. ASSUME NEW g \in Id, registry'[g] # None
        PROVE  /\ \A c \in ToSet(registry'[g].ids) :
                     /\ revoked[c] /\ credential[c].issuer = registry'[g].issuer
                     /\ proof[c].registry = g
               /\ IsInjective(registry'[g].ids)
               /\ registry'[g].revokedCount = Len(registry'[g].ids)
    <3>1. CASE g = now
      BY <1>4, <1>7, <3>1
    <3>2. CASE g # now
      BY <1>1, <1>4, <2>1, <3>2 DEF RegistryExact
    <3> QED
      BY <3>1, <3>2
  <2>2. \A c \in Id : proof[c] # None => c \in ToSet(registry'[proof[c].registry].ids)
    BY <1>1, <1>4, <1>5 DEF RegistryExact
  <2>3. \A b \in Id : batch[b] # None => \A c \in ToSet(batch[b]) : revoked[c]
    BY <1>1 DEF RegistryExact
  <2> QED
    BY <1>2, <2>1, <2>2, <2>3 DEF RegistryExact
<1>9. RegistryBacked'
  BY <1>1, <1>2, <1>4, <1>5 DEF RegistryBacked, Stored
<1>10. RegistryKept
  <2>1. ASSUME NEW g \in Id, registry[g] # None
        PROVE  registry'[g] = registry[g] /\ IsPrefix(registry[g].ids, registry[g].ids)
    BY <1>4, <2>1 DEF IsPrefix
  <2>2. ASSUME NEW c \in Id, proof[c] # None
        PROVE  VerifyRevocationProof(c, proof[c])'
    <3>1. /\ registry[proof[c].registry] # None /\ c \in ToSet(registry[proof[c].registry].ids)
          /\ proof[c].registry \in Id
      BY <1>1, <1>5, <2>2 DEF RegistryExact, RegistryBacked
    <3>2. revoked[c]
      BY <1>1, <3>1 DEF RegistryExact
    <3> QED
      BY <1>2, <2>2, <3>2 DEF VerifyRevocationProof
  <2> QED
    BY <1>2, <2>1, <2>2 DEF RegistryKept
<1> QED
  BY <1>3, <1>6, <1>8, <1>9, <1>10 DEF RegistryInv

\* Steps that only add revocations and leave registries alone.
LEMMA UntouchedRegistries ==
  ASSUME RegistryInv, IInv', UNCHANGED <<registry, proof, batch>>,
         \A c \in Id : revoked[c] => revoked'[c],
         \A c \in Id : revoked'[c] => Stored(c)',
         \A c \in Id : revoked[c] => credential'[c].issuer = credential[c].issuer
  PROVE  RegistryInv' /\ RegistryKept
<1>1. /\ RegistryTypeOK /\ RegistryExact /\ RegistryBacked
      /\ registry \in [Id -> Registry \cup {None}] /\ proof \in [Id -> Proof \cup {None}]
      /\ batch \in [Id -> Seq(Id) \cup {None}]
      /\ registry' = registry /\ proof' = proof /\ batch' = batch
  BY DEF RegistryInv, RegistryTypeOK
<1>2. \A g \in Id : registry[g] # None => ToSet(registry[g].ids) \subseteq Id
  BY <1>1, ElementOfSeq, LenProperties DEF ToSet, Registry
<1>3. \A b \in Id : batch[b] # None => ToSet(batch[b]) \subseteq Id
  BY <1>1, ElementOfSeq, LenProperties DEF ToSet
<1>4. RegistryTypeOK'
  BY <1>1 DEF RegistryTypeOK, IInv
<1>5. RegistryExact'
  BY <1>1, <1>2, <1>3 DEF RegistryExact
<1>6. RegistryBacked'
  BY <1>1 DEF RegistryBacked
<1>7. RegistryKept
  <2>1. ASSUME NEW g \in Id, registry[g] # None
        PROVE  IsPrefix(registry[g].ids, registry[g].ids)
    BY DEF IsPrefix
  <2>2. ASSUME NEW c \in Id, proof[c] # None
        PROVE  VerifyRevocationProof(c, proof[c])'
    <3>1. /\ registry[proof[c].registry] # None /\ c \in ToSet(registry[proof[c].registry].ids)
          /\ proof[c].registry \in Id
      BY <1>1, <2>2 DEF RegistryExact, RegistryBacked, Proof
    <3>2. revoked[c]
      BY <1>1, <3>1 DEF RegistryExact
    <3> QED
      BY <1>1, <2>2, <3>2 DEF VerifyRevocationProof
  <2> QED
    BY <1>1, <2>1, <2>2 DEF RegistryKept
<1> QED
  BY <1>4, <1>5, <1>6, <1>7 DEF RegistryInv

LEMMA PlainStepsKeep ==
  ASSUME RegistryInv, PlainSteps
  PROVE  RegistryInv' /\ RegistryKept
<1>1. IInv /\ IssuerTypeOK /\ RegistryBacked /\ UNCHANGED <<registry, proof, batch>>
  BY DEF RegistryInv, IInv, PlainSteps
<1>2. ASSUME NEW i \in Address, NEW item \in Item, ~Stored(now), IssueCredentials(i, <<item>>)
      PROVE  RegistryInv' /\ RegistryKept
  <2>1. <<item>> \in [1 .. 1 -> Item] /\ 1 \in Nat \ {0}
    BY SMT
  <2>2. IInv'
    BY <1>1, <1>2, <2>1, IssueKeeps
  <2>3. /\ ~revoked'[now]
        /\ \A c \in Id : c # now => credential'[c] = credential[c] /\ revoked'[c] = revoked[c]
    BY <1>1, <1>2, <2>1, StoreEffect DEF IssueCredentials
  <2>4. ~revoked[now]
    BY <1>1, <1>2 DEF IssuerTypeOK, RegistryBacked
  <2>5. \A c \in Id : revoked[c] => c # now /\ revoked'[c] /\ credential'[c] = credential[c]
    BY <2>3, <2>4
  <2>6. \A c \in Id : revoked'[c] => Stored(c)'
    BY <1>1, <2>3 DEF RegistryBacked, Stored
  <2> QED
    BY <1>1, <2>2, <2>5, <2>6, UntouchedRegistries
<1>3. ASSUME RevokeSteps
      PROVE  RegistryInv' /\ RegistryKept
  <2>1. IInv'
    BY <1>1, <1>3, RevokeKeeps
  <2>2. PICK set \in SUBSET Id : RevokesOnly(set)
    BY <1>1, <1>3, RevokeEffect
  <2>3. /\ \A c \in Id : revoked'[c] = (revoked[c] \/ c \in set)
        /\ \A c \in set : Stored(c) /\ ~revoked[c]
    BY <2>2 DEF RevokesOnly
  <2>4. /\ \A c \in Id : Stored(c)' <=> Stored(c)
        /\ \A c \in Id \ set : credential'[c] = credential[c]
    BY <1>1, <2>2, RevokedTyped
  <2>5. \A c \in Id : revoked[c] => revoked'[c] /\ credential'[c] = credential[c]
    BY <2>3, <2>4
  <2>6. \A c \in Id : revoked'[c] => Stored(c)'
    BY <1>1, <2>3, <2>4 DEF RegistryBacked
  <2> QED
    BY <1>1, <2>1, <2>5, <2>6, UntouchedRegistries
<1>4. ASSUME CloseLedger
      PROVE  RegistryInv' /\ RegistryKept
  <2>1. IInv'
    BY <1>1, <1>4, CloseKeeps
  <2>2. revoked' = revoked /\ credential' = credential
    BY <1>4 DEF CloseLedger
  <2>3. \A c \in Id : revoked'[c] => Stored(c)'
    BY <1>1, <2>2 DEF RegistryBacked, Stored
  <2> QED
    BY <1>1, <2>1, <2>2, <2>3, UntouchedRegistries
<1> QED
  BY <1>2, <1>3, <1>4 DEF PlainSteps, Issue

LEMMA RegistryStep ==
  RegistryInv /\ [NextRegistry]_registryVars => RegistryInv' /\ [RegistryKept]_registryVars
<1> SUFFICES ASSUME RegistryInv, [NextRegistry]_registryVars
             PROVE  RegistryInv' /\ [RegistryKept]_registryVars
  OBVIOUS
<1>1. CASE registry[now] = None /\ Create
  BY <1>1, CreateKeeps DEF Create
<1>2. CASE RegistrySteps
  <2>1. ASSUME NEW ids \in SeqOf(Id, MaxBatch) PROVE ids \in Seq(Id)
    BY BatchAssumption, SMT DEF SeqOf
  <2> QED
    BY <1>2, <2>1, RevokeWithRegistryKeeps, BatchKeeps DEF RegistrySteps
<1>3. CASE PlainSteps
  BY <1>3, PlainStepsKeep
<1>4. CASE UNCHANGED registryVars
  <2>1. RegistryInv'
    BY <1>4 DEF registryVars, issuerVars, RegistryInv, IInv, IssuerTypeOK, StatusMatchesRecord,
       Stored, RegistryTypeOK, RegistryExact, RegistryBacked
  <2> QED
    BY <1>4, <2>1
<1> QED
  BY <1>1, <1>2, <1>3, <1>4 DEF NextRegistry

LEMMA RegistryInvariance == SpecRegistry => []RegistryInv
BY RegistryInitially, RegistryStep, PTL DEF SpecRegistry

\* create_revocation_registry, batch_revoke_credentials and every way of revoking one by
\* one, for any lists of ids, repeated ones too: registries, proofs and statuses agree, and
\* verify_revocation_proof accepts for ever what it accepted once.
THEOREM RegistriesAlwaysTrustworthy == SpecRegistry => RegistriesTrustworthy
<1>1. SpecRegistry => []RegistryExact
  BY RegistryInvariance, PTL DEF RegistryInv
<1>2. RegistryInv /\ [NextRegistry]_registryVars => [RegistryKept]_registryVars
  BY RegistryStep
<1> QED
  BY <1>1, <1>2, RegistryInvariance, PTL DEF SpecRegistry, RegistriesTrustworthy
=============================================================================
