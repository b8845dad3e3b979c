------------------------- MODULE CredentialOfferProofs -------------------------
(***************************************************************************)
(* What holds of CredentialOffer for every number of parties, offers and   *)
(* ledgers, with any number of calls in a ledger.                          *)
(***************************************************************************)
EXTENDS CredentialOffer, TLAPS

LEMMA Initially == Init => IInv
  <1> SUFFICES ASSUME Init PROVE IInv
    OBVIOUS
  <1>1. TypeOK
    BY BoundsAssumption, SMT DEF Init, TypeOK, Id
  <1>2. \A o \in Id : ~Stored(o) /\ issuedCred[o] = None
    BY DEF Init, Stored
  <1> QED
    BY <1>1, <1>2 DEF IInv, IdsDated, AcceptedInTime, StatusLagsByExpiryOnly, CredentialsBacked

\* A stored offer is a record, and so is its status.
LEMMA StoredTyped ==
  ASSUME TypeOK, NEW o \in Id, Stored(o)
  PROVE  /\ offer[o] \in Offer
         /\ statusRecord[o] # None => statusRecord[o] \in OfferStatus
  BY DEF TypeOK, Stored

LEMMA StatusAfterTyped ==
  ASSUME TypeOK, NEW o \in Id, NEW s \in OfferStatusCode
  PROVE  /\ StatusAfter(o, s) \in [Id -> OfferStatus \cup {None}]
         /\ StatusAfter(o, s)[o] = [status |-> s, updatedAt |-> now]
         /\ StatusAfter(o, s)[o] # None
         /\ \A p \in Id : p # o => StatusAfter(o, s)[p] = statusRecord[p]
  <1>1. [status |-> s, updatedAt |-> now] \in OfferStatus
    BY DEF TypeOK, OfferStatus
  <1> QED
    BY <1>1, RecordAssumption DEF TypeOK, StatusAfter

\* A pending offer that is rejected, cancelled or found to be overdue.
LEMMA LeavePending ==
  ASSUME IInv, NEW o \in Id, Pending(o),
         NEW s \in {"Rejected", "Cancelled", "Expired"},
         offer' = [offer EXCEPT ![o].status = s],
         \/ statusRecord' = StatusAfter(o, s)
         \/ s = "Expired" /\ UNCHANGED statusRecord,
         UNCHANGED <<now, issuerOffers, holderOffers, offerIndex, issuedCred, reused>>
  PROVE  IInv'
<1>1. TypeOK /\ IdsDated /\ AcceptedInTime /\ StatusLagsByExpiryOnly /\ CredentialsBacked
  BY DEF IInv
<1>2. offer[o] \in Offer /\ Stored(o) /\ offer[o].status = "Pending"
  BY <1>1, StoredTyped DEF Pending
<1>3. s \in OfferStatusCode /\ s # "Accepted"
  BY DEF OfferStatusCode
<1>4. /\ offer'[o] \in Offer /\ offer'[o].status = s
      /\ offer'[o].createdAt = offer[o].createdAt
      /\ offer'[o].credential = offer[o].credential
      /\ \A p \in Id : p # o => offer'[p] = offer[p]
      /\ offer' \in [Id -> Offer \cup {None}]
  <2>1. offer'[o] = [offer[o] EXCEPT !.status = s]
    BY <1>1 DEF TypeOK
  <2>2. offer'[o] \in Offer
    BY <1>2, <1>3, <2>1 DEF Offer
  <2>3. /\ offer'[o].status = s
        /\ offer'[o].createdAt = offer[o].createdAt
        /\ offer'[o].credential = offer[o].credential
    BY <1>2, <2>1 DEF Offer
  <2>4. \A p \in Id : p # o => offer'[p] = offer[p]
    BY <1>1 DEF TypeOK
  <2>5. offer' \in [Id -> Offer \cup {None}]
    BY <1>1, <2>2, <2>1 DEF TypeOK
  <2> QED
    BY <2>2, <2>3, <2>4, <2>5
<1>5. \A p \in Id : Stored(p)' <=> Stored(p)
  BY <1>2, <1>4, RecordAssumption DEF Stored
<1>0. /\ StatusAfter(o, s) \in [Id -> OfferStatus \cup {None}]
      /\ StatusAfter(o, s)[o] = [status |-> s, updatedAt |-> now]
      /\ StatusAfter(o, s)[o] # None
      /\ \A p \in Id : p # o => StatusAfter(o, s)[p] = statusRecord[p]
  BY <1>1, <1>3, StatusAfterTyped
<1>6. TypeOK'
  <2>1. statusRecord' \in [Id -> OfferStatus \cup {None}]
    BY <1>0, <1>1 DEF TypeOK
  <2> QED
    BY <1>1, <1>4, <2>1 DEF TypeOK
<1>7. IdsDated'
  BY <1>1, <1>2, <1>3, <1>4, <1>5 DEF IdsDated
<1>8. AcceptedInTime'
  BY <1>1, <1>3, <1>4, <1>5 DEF AcceptedInTime
<1>9. StatusLagsByExpiryOnly'
  <2>1. ASSUME NEW p \in Id, p # o, Stored(p)
        PROVE  statusRecord'[p] = statusRecord[p] /\ offer'[p] = offer[p]
    BY <2>1, <1>0, <1>4
  <2>2. /\ statusRecord'[o] # None
        /\ statusRecord'[o].status # s => statusRecord'[o].status = "Pending" /\ s = "Expired"
    <3>1. CASE statusRecord' = StatusAfter(o, s)
      BY <1>0, <3>1
    <3>2. CASE s = "Expired" /\ UNCHANGED statusRecord
      BY <1>1, <1>2, <3>2 DEF StatusLagsByExpiryOnly
    <3> QED
      BY <3>1, <3>2
  <2> QED
    BY <1>1, <1>4, <1>5, <2>1, <2>2 DEF StatusLagsByExpiryOnly
<1>10. CredentialsBacked'
  <2>1. \A p \in Id : Stored(p)' /\ offer'[p].status = "Accepted" =>
            p # o /\ offer'[p] = offer[p] /\ Stored(p)
    BY <1>3, <1>4, <1>5
  <2>2. \A p \in Id : Stored(p) /\ offer[p].status = "Accepted" =>
            p # o /\ offer'[p] = offer[p] /\ Stored(p)'
    BY <1>2, <1>4, <1>5
  <2>3. \A p \in Id : Stored(p) => offer'[p].credential = offer[p].credential
    BY <1>4
  <2>4. ASSUME NEW c \in Id \ reused, issuedCred[c] # None
        PROVE  \E p \in Id : /\ Stored(p)' /\ offer'[p].status = "Accepted"
                             /\ offer'[p].credential = c
                             /\ \A q \in Id : Stored(q)' /\ offer'[q].credential = c => q = p
    <3>1. PICK p \in Id : /\ Stored(p) /\ offer[p].status = "Accepted"
                          /\ offer[p].credential = c
                          /\ \A q \in Id : Stored(q) /\ offer[q].credential = c => q = p
      BY <1>1, <2>4 DEF CredentialsBacked
    <3> QED
      BY <3>1, <2>2, <2>3, <1>5
  <2>5. ASSUME NEW p \in Id, Stored(p)', offer'[p].status = "Accepted",
               offer'[p].credential \notin reused
        PROVE  issuedCred[offer'[p].credential]
                   = [issuer |-> offer'[p].issuer, subject |-> offer'[p].holder]
    BY <2>5, <2>1, <1>1 DEF CredentialsBacked
  <2> QED
    BY <2>4, <2>5 DEF CredentialsBacked
<1> QED
  BY <1>6, <1>7, <1>8, <1>9, <1>10 DEF IInv

LEMMA TickKeeps ==
  ASSUME IInv, Tick
  PROVE  IInv'
<1>1. TypeOK /\ IdsDated /\ AcceptedInTime /\ StatusLagsByExpiryOnly /\ CredentialsBacked
  BY DEF IInv
<1>2. now \in Nat /\ now' = now + 1 /\ now' \in Id
  BY <1>1, BoundsAssumption, SMT DEF Tick, TypeOK, Id
<1>3. UNCHANGED <<offer, statusRecord, issuerOffers, holderOffers, offerIndex, issuedCred, reused>>
  BY DEF Tick
<1>4. \A o \in Id : Stored(o)' <=> Stored(o)
  BY <1>3 DEF Stored
<1>5. TypeOK'
  BY <1>1, <1>2, <1>3 DEF TypeOK
<1>6. IdsDated'
  <2>1. \A o \in Id : o <= now => o <= now'
    BY <1>2, BoundsAssumption, SMT DEF Id
  <2>2. \A o \in Id : o .. now \subseteq o .. now'
    BY <1>2, BoundsAssumption, SMT DEF Id
  <2> QED
    BY <1>1, <1>3, <1>4, <2>1, <2>2 DEF IdsDated
<1>7. AcceptedInTime' /\ StatusLagsByExpiryOnly' /\ CredentialsBacked'
  BY <1>1, <1>3, <1>4
     DEF AcceptedInTime, StatusLagsByExpiryOnly, CredentialsBacked
<1> QED
  BY <1>5, <1>6, <1>7 DEF IInv

\* The new offer may replace one created earlier in the ledger; a credential of that one
\* was issued in this ledger too, so that its id becomes a reused one.
LEMMA CreateKeeps ==
  ASSUME IInv, NEW i \in Address, NEW h \in Address, NEW e \in Expiries \cup {None},
         CreateOffer(i, h, e)
  PROVE  IInv'
<1> DEFINE new == [issuer |-> i, holder |-> h, createdAt |-> now, expiresAt |-> e,
                   status |-> "Pending", acceptedAt |-> None, credential |-> None]
<1>1. TypeOK /\ IdsDated /\ AcceptedInTime /\ StatusLagsByExpiryOnly /\ CredentialsBacked
  BY DEF IInv
<1>2. now \in Id /\ now' = now /\ issuedCred' = issuedCred
  BY <1>1 DEF TypeOK, CreateOffer
<1>3. new \in Offer /\ new # None /\ new.status = "Pending" /\ new.createdAt = now
      /\ new.credential = None
  BY <1>2, RecordAssumption DEF Offer, OfferStatusCode
<1>4. /\ offer' \in [Id -> Offer \cup {None}]
      /\ offer'[now] = new
      /\ \A p \in Id : p # now => offer'[p] = offer[p]
  <2>1. offer' = [offer EXCEPT ![now] = new]
    BY DEF CreateOffer
  <2> QED
    BY <1>1, <1>2, <1>3, <2>1 DEF TypeOK
<1>5. /\ statusRecord' \in [Id -> OfferStatus \cup {None}]
      /\ statusRecord'[now] # None /\ statusRecord'[now].status = "Pending"
      /\ \A p \in Id : p # now => statusRecord'[p] = statusRecord[p]
  <2>1. "Pending" \in OfferStatusCode
    BY DEF OfferStatusCode
  <2>2. statusRecord' = StatusAfter(now, "Pending")
    BY DEF CreateOffer
  <2>3. /\ StatusAfter(now, "Pending") \in [Id -> OfferStatus \cup {None}]
        /\ StatusAfter(now, "Pending")[now] = [status |-> "Pending", updatedAt |-> now]
        /\ StatusAfter(now, "Pending")[now] # None
        /\ \A p \in Id : p # now => StatusAfter(now, "Pending")[p] = statusRecord[p]
    BY <1>1, <1>2, <2>1, StatusAfterTyped
  <2> QED
    BY <2>2, <2>3
<1>6. Stored(now)' /\ \A p \in Id : p # now => (Stored(p)' <=> Stored(p))
  BY <1>2, <1>3, <1>4 DEF Stored
<1>7. reused' = IF Stored(now) THEN reused \cup {now} ELSE reused
  BY DEF CreateOffer
<1>8. TypeOK'
  <2>1. issuerOffers' \in [Address -> Seq(Id)] /\ holderOffers' \in [Address -> Seq(Id)]
    BY <1>1, <1>2 DEF TypeOK, CreateOffer
  <2>2. offerIndex' \in Seq(Id)
    BY <1>1, <1>2 DEF TypeOK, CreateOffer
  <2>3. reused' \subseteq Id
    BY <1>1, <1>2, <1>7 DEF TypeOK
  <2> QED
    BY <1>1, <1>2, <1>4, <1>5, <2>1, <2>2, <2>3 DEF TypeOK
<1>9. IdsDated'
  <2>1. now <= now
    BY <1>2, BoundsAssumption, SMT DEF Id
  <2> QED
    BY <1>1, <1>2, <1>3, <1>4, <1>6, <2>1 DEF IdsDated
<1>10. AcceptedInTime' /\ StatusLagsByExpiryOnly'
  BY <1>1, <1>2, <1>3, <1>4, <1>5, <1>6 DEF AcceptedInTime, StatusLagsByExpiryOnly
<1>11. CredentialsBacked'
  <2>1. ASSUME NEW p \in Id, Stored(p)', offer'[p].status = "Accepted",
               offer'[p].credential \notin reused'
        PROVE  issuedCred'[offer'[p].credential]
                   = [issuer |-> offer'[p].issuer, subject |-> offer'[p].holder]
    <3>1. p # now
      BY <2>1, <1>3, <1>4
    <3>2. Stored(p) /\ offer'[p] = offer[p] /\ offer[p].credential \notin reused
      BY <2>1, <3>1, <1>4, <1>6, <1>7
    <3> QED
      BY <2>1, <3>2, <1>1, <1>2 DEF CredentialsBacked
  <2>2. ASSUME NEW c \in Id \ reused', issuedCred'[c] # None
        PROVE  \E p \in Id : /\ Stored(p)' /\ offer'[p].status = "Accepted"
                             /\ offer'[p].credential = c
                             /\ \A q \in Id : Stored(q)' /\ offer'[q].credential = c => q = p
    <3>1. PICK p \in Id : /\ Stored(p) /\ offer[p].status = "Accepted"
                          /\ offer[p].credential = c
                          /\ \A q \in Id : Stored(q) /\ offer[q].credential = c => q = p
      BY <1>1, <1>2, <1>7, <2>2 DEF CredentialsBacked
    <3>2. p # now
      <4> SUFFICES ASSUME p = now PROVE FALSE
        OBVIOUS
      <4>1. offer[now].acceptedAt \in now .. now /\ c = offer[now].acceptedAt
        BY <1>1, <1>2, <3>1 DEF IdsDated
      <4>2. c = now
        BY <4>1, <1>2, BoundsAssumption, SMT DEF Id
      <4> QED
        BY <3>1, <4>2, <1>7, <2>2
    <3>3. Stored(p)' /\ offer'[p] = offer[p]
      BY <3>1, <3>2, <1>4, <1>6
    <3>4. \A q \in Id : Stored(q)' /\ offer'[q].credential = c => q = p
      <4>1. c # None
        BY <2>2, NoneAssumption, BoundsAssumption, SMT DEF Id
      <4> QED
        BY <3>1, <4>1, <1>3, <1>4, <1>6
    <3> QED
      BY <3>1, <3>3, <3>4
  <2> QED
    BY <2>1, <2>2 DEF CredentialsBacked
<1> QED
  BY <1>8, <1>9, <1>10, <1>11 DEF IInv

\* The credential may replace one issued earlier in the ledger, whose id becomes a
\* reused one.
LEMMA AcceptKeeps ==
  ASSUME IInv, NEW h \in Address, NEW o \in Id, AcceptOffer(h, o)
  PROVE  IInv'
<1>1. TypeOK /\ IdsDated /\ AcceptedInTime /\ StatusLagsByExpiryOnly /\ CredentialsBacked
  BY DEF IInv
<1>2. now \in Id /\ now' = now /\ now # None
  BY <1>1, BoundsAssumption, NoneAssumption, SMT DEF TypeOK, AcceptOffer, Id
<1>3. offer[o] \in Offer /\ Stored(o) /\ offer[o].status = "Pending" /\ ~Overdue(o)
  BY <1>1, StoredTyped DEF AcceptOffer, CanAccept, Pending
<1>4. /\ offer' \in [Id -> Offer \cup {None}]
      /\ offer'[o] \in Offer /\ offer'[o].status = "Accepted"
      /\ offer'[o].acceptedAt = now /\ offer'[o].credential = now
      /\ offer'[o].issuer = offer[o].issuer /\ offer'[o].holder = offer[o].holder
      /\ offer'[o].createdAt = offer[o].createdAt
      /\ offer'[o].expiresAt = offer[o].expiresAt
      /\ \A p \in Id : p # o => offer'[p] = offer[p]
  <2>1. offer' = [offer EXCEPT ![o].status = "Accepted",
                               ![o].acceptedAt = now, ![o].credential = now]
    BY DEF AcceptOffer
  <2>2. offer'[o] = [offer[o] EXCEPT !.status = "Accepted",
                                     !.acceptedAt = now, !.credential = now]
    BY <1>1, <2>1 DEF TypeOK
  <2>3. offer'[o] \in Offer
    BY <1>2, <1>3, <2>2 DEF Offer, OfferStatusCode
  <2>4. /\ offer'[o].status = "Accepted"
        /\ offer'[o].acceptedAt = now /\ offer'[o].credential = now
        /\ offer'[o].issuer = offer[o].issuer /\ offer'[o].holder = offer[o].holder
        /\ offer'[o].createdAt = offer[o].createdAt
        /\ offer'[o].expiresAt = offer[o].expiresAt
    BY <1>3, <2>2 DEF Offer
  <2>5. offer' \in [Id -> Offer \cup {None}] /\ \A p \in Id : p # o => offer'[p] = offer[p]
    BY <1>1, <2>1, <2>3, <2>2 DEF TypeOK
  <2> QED
    BY <2>3, <2>4, <2>5
<1>5. /\ statusRecord' \in [Id -> OfferStatus \cup {None}]
      /\ statusRecord'[o] # None /\ statusRecord'[o].status = "Accepted"
      /\ \A p \in Id : p # o => statusRecord'[p] = statusRecord[p]
  <2>1. "Accepted" \in OfferStatusCode
    BY DEF OfferStatusCode
  <2>2. statusRecord' = StatusAfter(o, "Accepted")
    BY DEF AcceptOffer
  <2>3. /\ StatusAfter(o, "Accepted") \in [Id -> OfferStatus \cup {None}]
        /\ StatusAfter(o, "Accepted")[o] = [status |-> "Accepted", updatedAt |-> now]
        /\ StatusAfter(o, "Accepted")[o] # None
        /\ \A p \in Id : p # o => StatusAfter(o, "Accepted")[p] = statusRecord[p]
    BY <1>1, <2>1, StatusAfterTyped
  <2> QED
    BY <2>2, <2>3
<1>6. \A p \in Id : Stored(p)' <=> Stored(p)
  BY <1>3, <1>4, RecordAssumption DEF Stored
<1>7. /\ issuedCred' \in [Id -> Credential \cup {None}]
      /\ issuedCred'[now] = [issuer |-> offer[o].issuer, subject |-> offer[o].holder]
      /\ issuedCred'[now] # None
      /\ \A c \in Id : c # now => issuedCred'[c] = issuedCred[c]
  <2>1. IssuedTo(o) \in Credential
    BY <1>3 DEF IssuedTo, Offer, Credential
  <2>2. issuedCred' = [issuedCred EXCEPT ![now] = IssuedTo(o)]
    BY DEF AcceptOffer
  <2> QED
    BY <1>1, <1>2, <2>1, <2>2, RecordAssumption DEF TypeOK, IssuedTo
<1>8. reused' = IF issuedCred[now] # None THEN reused \cup {now} ELSE reused
  BY DEF AcceptOffer
<1>9. TypeOK'
  <2>1. UNCHANGED <<issuerOffers, holderOffers, offerIndex>>
    BY DEF AcceptOffer
  <2> QED
    BY <1>1, <1>2, <1>4, <1>5, <1>7, <1>8, <2>1 DEF TypeOK
<1>10. IdsDated'
  <2>1. ASSUME NEW p \in Id, Stored(p)'
        PROVE  /\ offer'[p].createdAt = p /\ p <= now'
               /\ offer'[p].status # "Accepted" => offer'[p].credential = None
               /\ offer'[p].status = "Accepted" =>
                     /\ offer'[p].acceptedAt \in p .. now'
                     /\ offer'[p].credential = offer'[p].acceptedAt
                     /\ issuedCred'[offer'[p].credential] # None
    <3>1. CASE p = o
      <4>1. o <= now /\ offer[o].createdAt = o
        BY <1>1, <1>3 DEF IdsDated
      <4>2. now \in o .. now
        BY <4>1, <1>2, BoundsAssumption, SMT DEF Id
      <4> QED
        BY <3>1, <4>1, <4>2, <1>2, <1>4, <1>7
    <3>2. CASE p # o
      <4>1. Stored(p) /\ offer'[p] = offer[p]
        BY <2>1, <3>2, <1>4, <1>6
      <4>2. offer[p].status = "Accepted" => issuedCred'[offer[p].credential] # None
        <5> SUFFICES ASSUME offer[p].status = "Accepted"
                     PROVE  issuedCred'[offer[p].credential] # None
          OBVIOUS
        <5>1. /\ offer[p].acceptedAt \in p .. now
              /\ offer[p].credential = offer[p].acceptedAt
              /\ issuedCred[offer[p].credential] # None
          BY <1>1, <4>1 DEF IdsDated
        <5>2. offer[p].credential \in Id
          BY <5>1, <1>2, BoundsAssumption, SMT DEF Id
        <5> QED
          BY <5>1, <5>2, <1>7
      <4> QED
        BY <4>1, <4>2, <1>1, <1>2 DEF IdsDated
    <3> QED
      BY <3>1, <3>2
  <2>2. \A c \in Id : issuedCred'[c] # None => c <= now'
    <3>1. now <= now
      BY <1>2, BoundsAssumption, SMT DEF Id
    <3> QED
      BY <3>1, <1>1, <1>2, <1>7 DEF IdsDated
  <2> QED
    BY <2>1, <2>2 DEF IdsDated
<1>11. AcceptedInTime'
  <2>1. offer[o].createdAt <= now
    BY <1>1, <1>3 DEF IdsDated
  <2>2. offer[o].expiresAt # None => now <= offer[o].expiresAt
    <3>1. offer[o].expiresAt # None => offer[o].expiresAt \in Nat /\ ~(now > offer[o].expiresAt)
      BY <1>3, InputAssumption DEF Overdue, Offer
    <3> QED
      BY <3>1, <1>2, BoundsAssumption, SMT DEF Id
  <2>3. ASSUME NEW p \in Id, Stored(p)', offer'[p].status = "Accepted"
        PROVE  /\ offer'[p].createdAt <= offer'[p].acceptedAt
               /\ offer'[p].expiresAt # None => offer'[p].acceptedAt <= offer'[p].expiresAt
    <3>1. CASE p = o
      BY <3>1, <1>4, <2>1, <2>2
    <3>2. CASE p # o
      BY <2>3, <3>2, <1>1, <1>4, <1>6 DEF AcceptedInTime
    <3> QED
      BY <3>1, <3>2
  <2> QED
    BY <2>3 DEF AcceptedInTime
<1>12. StatusLagsByExpiryOnly'
  BY <1>1, <1>4, <1>5, <1>6 DEF StatusLagsByExpiryOnly
<1>13. CredentialsBacked'
  <2>1. \A p \in Id : Stored(p) /\ p # o /\ offer[p].credential = now => now \in reused'
    <3> SUFFICES ASSUME NEW p \in Id, Stored(p), p # o, offer[p].credential = now
                 PROVE  now \in reused'
      OBVIOUS
    <3>1. offer[p].status = "Accepted"
      BY <1>1, <1>2 DEF IdsDated
    <3>2. issuedCred[now] # None
      BY <1>1, <3>1 DEF IdsDated
    <3> QED
      BY <3>2, <1>8
  <2>2. ASSUME NEW p \in Id, Stored(p)', offer'[p].status = "Accepted",
               offer'[p].credential \notin reused'
        PROVE  issuedCred'[offer'[p].credential]
                   = [issuer |-> offer'[p].issuer, subject |-> offer'[p].holder]
    <3>1. CASE p = o
      BY <3>1, <1>4, <1>7
    <3>2. CASE p # o
      <4>1. /\ Stored(p) /\ offer'[p] = offer[p] /\ offer[p].status = "Accepted"
            /\ offer[p].credential # now /\ offer[p].credential \notin reused
        BY <2>1, <2>2, <3>2, <1>4, <1>6, <1>8
      <4>2. offer[p].credential \in Id
        BY <1>1, <4>1, StoredTyped, NoneAssumption, SMT DEF IdsDated, Offer, Id
      <4> QED
        BY <4>1, <4>2, <1>1, <1>7 DEF CredentialsBacked
    <3> QED
      BY <3>1, <3>2
  <2>3. ASSUME NEW c \in Id \ reused', issuedCred'[c] # None
        PROVE  \E p \in Id : /\ Stored(p)' /\ offer'[p].status = "Accepted"
                             /\ offer'[p].credential = c
                             /\ \A q \in Id : Stored(q)' /\ offer'[q].credential = c => q = p
    <3>1. CASE c = now
      <4>1. \A q \in Id : Stored(q)' /\ offer'[q].credential = c => q = o
        BY <2>1, <2>3, <3>1, <1>4, <1>6
      <4> QED
        BY <3>1, <4>1, <1>3, <1>4, <1>6
    <3>2. CASE c # now
      <4>1. issuedCred[c] # None /\ c \notin reused
        BY <2>3, <3>2, <1>7, <1>8
      <4>2. PICK p \in Id : /\ Stored(p) /\ offer[p].status = "Accepted"
                            /\ offer[p].credential = c
                            /\ \A q \in Id : Stored(q) /\ offer[q].credential = c => q = p
        BY <4>1, <1>1 DEF CredentialsBacked
      <4>3. p # o
        BY <4>2, <1>3
      <4>4. \A q \in Id : Stored(q)' /\ offer'[q].credential = c => q = p
        BY <4>2, <3>2, <1>4, <1>6
      <4> QED
        BY <4>2, <4>3, <4>4, <1>4, <1>6
    <3> QED
      BY <3>1, <3>2
  <2> QED
    BY <2>2, <2>3 DEF CredentialsBacked
<1> QED
  BY <1>9, <1>10, <1>11, <1>12, <1>13 DEF IInv

-----------------------------------------------------------------------------
LEMMA StepKeeps == IInv /\ [Next]_vars => IInv'
<1> SUFFICES ASSUME IInv, [Next]_vars PROVE IInv'
  OBVIOUS
<1>1. CASE UNCHANGED vars
  BY <1>1 DEF vars, IInv, TypeOK, IdsDated, AcceptedInTime, StatusLagsByExpiryOnly,
              CredentialsBacked, Stored
<1>2. CASE Tick
  BY <1>2, TickKeeps
<1>3. ASSUME NEW i \in Address, NEW h \in Address, NEW e \in Expiries \cup {None},
             CreateOffer(i, h, e)
      PROVE  IInv'
  BY <1>3, CreateKeeps
<1>4. ASSUME NEW a \in Address, NEW o \in Id, AcceptOffer(a, o) PROVE IInv'
  BY <1>4, AcceptKeeps
<1>5. ASSUME NEW a \in Address, NEW o \in Id, RejectOffer(a, o) PROVE IInv'
  BY <1>5, LeavePending DEF RejectOffer
<1>6. ASSUME NEW a \in Address, NEW o \in Id, CancelOffer(a, o) PROVE IInv'
  BY <1>6, LeavePending DEF CancelOffer
<1>7. ASSUME NEW o \in Id, GetOfferStatus(o) PROVE IInv'
  BY <1>7, LeavePending DEF GetOfferStatus
<1>8. ASSUME NEW o \in Id, GetOffer(o) PROVE IInv'
  BY <1>8, LeavePending DEF GetOffer
<1> QED
  BY <1>1, <1>2, <1>3, <1>4, <1>5, <1>6, <1>7, <1>8 DEF Next

\* Every stored record has its type, whatever calls come.
THEOREM TypeCorrect == Spec => []TypeOK
<1>1. IInv => TypeOK
  BY DEF IInv
<1> QED
  BY <1>1, Initially, StepKeeps, PTL DEF Spec

\* An offer is accepted within its life, the two copies of its status differ by an
\* expiry only, and acceptances and credentials are one to one but for reused ids.
THEOREM Safety == Spec => [](AcceptedInTime /\ StatusLagsByExpiryOnly /\ CredentialsBacked)
<1>1. IInv => AcceptedInTime /\ StatusLagsByExpiryOnly /\ CredentialsBacked
  BY DEF IInv
<1> QED
  BY <1>1, Initially, StepKeeps, PTL DEF Spec

\* Once its ledger has closed an offer keeps its parties and its expiry, and when it has
\* left Pending nothing of it changes.
THEOREM SettledOffersFinal == Spec => SettledFinal
<1> DEFINE SameTerms(o) == /\ offer'[o].issuer = offer[o].issuer
                           /\ offer'[o].holder = offer[o].holder
                           /\ offer'[o].expiresAt = offer[o].expiresAt
           Kept(o) == SameTerms(o) /\ (offer[o].status # "Pending" => offer'[o] = offer[o])
<1>1. IInv /\ [Next]_vars => [\A o \in Id : Stored(o) /\ o < now => Kept(o)]_vars
  <2> SUFFICES ASSUME IInv, Next, NEW o \in Id, Stored(o), o < now PROVE Kept(o)
    OBVIOUS
  <2>1. offer \in [Id -> Offer \cup {None}] /\ offer[o] \in Offer /\ now \in Id
    BY DEF IInv, TypeOK, Stored
  <2>2. o # now
    BY <2>1, BoundsAssumption, SMT DEF Id
  <2>3. CASE UNCHANGED offer
    BY <2>3
  <2>4. ASSUME NEW i \in Address, NEW h \in Address, NEW e \in Expiries \cup {None},
               CreateOffer(i, h, e)
        PROVE  offer'[o] = offer[o]
    BY <2>1, <2>2, <2>4 DEF CreateOffer
  <2>5. ASSUME NEW x \in Id, Pending(x),
               \/ offer' = [offer EXCEPT ![x].status = "Accepted", ![x].acceptedAt = now,
                                         ![x].credential = now]
               \/ \E s : offer' = [offer EXCEPT ![x].status = s]
        PROVE  Kept(o)
    BY <2>1, <2>5 DEF Pending, Offer
  <2>6. ASSUME NEW a \in Address, NEW x \in Id,
               AcceptOffer(a, x) \/ RejectOffer(a, x) \/ CancelOffer(a, x)
        PROVE  Kept(o)
    BY <2>5, <2>6 DEF AcceptOffer, CanAccept, RejectOffer, CancelOffer
  <2>7. ASSUME NEW x \in Id, GetOfferStatus(x) \/ GetOffer(x) PROVE Kept(o)
    BY <2>5, <2>7 DEF GetOfferStatus, GetOffer
  <2>8. CASE Tick
    BY <2>3, <2>8 DEF Tick
  <2> QED
    BY <2>4, <2>6, <2>7, <2>8 DEF Next
<1>2. Spec => []IInv
  BY Initially, StepKeeps, PTL DEF Spec
<1>3. IInv /\ [Next]_vars => [SettledKept]_vars
  BY <1>1 DEF SettledKept
<1> QED
  BY <1>2, <1>3, PTL DEF Spec, SettledFinal

\* Acceptances in time and statuses that agree but for an expiry, under any calls.
THEOREM ExpiryAlwaysRespected == Spec => []ExpiryRespected
  BY Safety, PTL DEF ExpiryRespected

\* All that is claimed of offers but their settlement at last, under any calls.
THEOREM OffersAlwaysSound == Spec => OffersSound
<1>1. Spec => []CredentialsBacked
  BY Safety, PTL
<1> QED
  BY <1>1, ExpiryAlwaysRespected, SettledOffersFinal, PTL DEF OffersSound, SettledFinal
=============================================================================
