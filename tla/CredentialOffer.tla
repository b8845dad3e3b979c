---------------------------- MODULE CredentialOffer ----------------------------
(***************************************************************************)
(* The CredentialOffer contract (src/src/credential_offer.rs): an issuer   *)
(* offers a credential to a holder, who accepts or rejects it before it    *)
(* expires, unless the issuer cancels it.                                  *)
(*                                                                         *)
(* An action is a call that returns Ok; a call that returns Err or traps   *)
(* is rolled back, the Expired status accept_offer writes before it        *)
(* returns OfferExpired included.  Offer ids ("offer:<ts>:<seq>") and      *)
(* credential ids ("vc:offer:<ts>:<seq>") depend on the ledger only, and   *)
(* the ledger time stands for both.  The state of an offer is kept twice,  *)
(* in the Offer record and in a Status record beside it.  Credential data, *)
(* type, schema, proof and reason are validated or stored but never read.  *)
(* The history variable reused is read by properties only.                 *)
(*                                                                         *)
(* An operator F_Fault is a faulty variant of F that no action uses: with  *)
(* it in place of F the property named beside it must fail.                *)
(***************************************************************************)
EXTENDS Naturals, SequencesExt

CONSTANTS
    Address,    \* issuers and holders
    None,       \* Option::None, and a storage key that is not present
    Expiries,   \* expiry times a caller may pass
    MaxTime,    \* bound: the last ledger the model closes
    MaxOffers   \* bound: create_offer calls

ASSUME BoundsAssumption == MaxTime \in Nat /\ MaxOffers \in Nat
ASSUME InputAssumption == Expiries \subseteq Nat
ASSUME NoneAssumption == None \notin Address /\ None \notin Nat

VARIABLES
    now,            \* ledger timestamp (and sequence)
    offer,          \* OfferKey::Offer(id)
    statusRecord,   \* OfferKey::Status(id)
    issuerOffers,   \* OfferKey::IssuerOffers(issuer)
    holderOffers,   \* OfferKey::HolderOffers(holder)
    offerIndex,     \* OfferKey::OfferIndex
    issuedCred,     \* OfferKey::IssuedCred(id)
    reused          \* history: the offer and credential ids given out again

vars == <<now, offer, statusRecord, issuerOffers, holderOffers, offerIndex, issuedCred,
          reused>>

Id == 0 .. MaxTime
OfferStatusCode == {"Pending", "Accepted", "Rejected", "Expired", "Cancelled"}

Offer ==
    [issuer : Address, holder : Address, createdAt : Id, expiresAt : Expiries \cup {None},
     status : OfferStatusCode, acceptedAt : Id \cup {None}, credential : Id \cup {None}]

OfferStatus == [status : OfferStatusCode, updatedAt : Id]

Credential == [issuer : Address, subject : Address]

ASSUME RecordAssumption ==
    None \notin Offer /\ None \notin OfferStatus /\ None \notin Credential

TypeOK ==
    /\ now \in Id
    /\ offer \in [Id -> Offer \cup {None}]
    /\ statusRecord \in [Id -> OfferStatus \cup {None}]
    /\ issuerOffers \in [Address -> Seq(Id)]
    /\ holderOffers \in [Address -> Seq(Id)]
    /\ offerIndex \in Seq(Id)
    /\ issuedCred \in [Id -> Credential \cup {None}]
    /\ reused \subseteq Id

Init ==
    /\ now = 0
    /\ offer = [o \in Id |-> None]
    /\ statusRecord = [o \in Id |-> None]
    /\ issuerOffers = [a \in Address |-> <<>>]
    /\ holderOffers = [a \in Address |-> <<>>]
    /\ offerIndex = <<>>
    /\ issuedCred = [c \in Id |-> None]
    /\ reused = {}

-----------------------------------------------------------------------------
Stored(o) == offer[o] # None

\* Fault: the status of the offer is not looked at (OffersSound).
Pending_Unchecked(o) == Stored(o)
\* The status match that accept, reject and cancel share.
Pending(o) == Stored(o) /\ offer[o].status = "Pending"

\* Past its expiry, whatever its status.
Overdue(o) == Stored(o) /\ offer[o].expiresAt # None /\ now > offer[o].expiresAt

ValidExpiry(e) == e # None => e > now

\* Fault: the Status record is only written for acceptances (OffersSound).
StatusAfter_AcceptOnly(o, s) ==
    IF s = "Accepted"
    THEN [statusRecord EXCEPT ![o] = [status |-> s, updatedAt |-> now]]
    ELSE statusRecord
\* update_offer_status
StatusAfter(o, s) == [statusRecord EXCEPT ![o] = [status |-> s, updatedAt |-> now]]

-----------------------------------------------------------------------------
\* The ledger closes.
Tick ==
    /\ now < MaxTime
    /\ now' = now + 1
    /\ UNCHANGED <<offer, statusRecord, issuerOffers, holderOffers, offerIndex, issuedCred,
                   reused>>

CreateOffer(i, h, e) ==
    /\ Len(offerIndex) < MaxOffers
    /\ ValidExpiry(e)
    /\ offer' = [offer EXCEPT ![now] =
          [issuer |-> i, holder |-> h, createdAt |-> now, expiresAt |-> e,
           status |-> "Pending", acceptedAt |-> None, credential |-> None]]
    /\ statusRecord' = StatusAfter(now, "Pending")
    /\ issuerOffers' = [issuerOffers EXCEPT ![i] = Append(@, now)]
    /\ holderOffers' = [holderOffers EXCEPT ![h] = Append(@, now)]
    /\ offerIndex' = Append(offerIndex, now)
    /\ reused' = IF Stored(now) THEN reused \cup {now} ELSE reused
    /\ UNCHANGED <<now, issuedCred>>

\* Fault: the expiry is not looked at (OffersSound).
CanAccept_Late(h, o) == Pending(o) /\ offer[o].holder = h
CanAccept(h, o) == Pending(o) /\ offer[o].holder = h /\ ~Overdue(o)

\* Fault: the issuer is the subject too (OffersSound).
IssuedTo_Issuer(o) == [issuer |-> offer[o].issuer, subject |-> offer[o].issuer]
\* issue_credential_from_offer
IssuedTo(o) == [issuer |-> offer[o].issuer, subject |-> offer[o].holder]

AcceptOffer(h, o) ==
    /\ CanAccept(h, o)
    /\ issuedCred' = [issuedCred EXCEPT ![now] = IssuedTo(o)]
    /\ offer' = [offer EXCEPT ![o].status = "Accepted",
                              ![o].acceptedAt = now,
                              ![o].credential = now]
    /\ statusRecord' = StatusAfter(o, "Accepted")
    /\ reused' = IF issuedCred[now] # None THEN reused \cup {now} ELSE reused
    /\ UNCHANGED <<now, issuerOffers, holderOffers, offerIndex>>

RejectOffer(h, o) ==
    /\ Pending(o)
    /\ offer[o].holder = h
    /\ offer' = [offer EXCEPT ![o].status = "Rejected"]
    /\ statusRecord' = StatusAfter(o, "Rejected")
    /\ UNCHANGED <<now, issuerOffers, holderOffers, offerIndex, issuedCred, reused>>

CancelOffer(i, o) ==
    /\ Pending(o)
    /\ offer[o].issuer = i
    /\ offer' = [offer EXCEPT ![o].status = "Cancelled"]
    /\ statusRecord' = StatusAfter(o, "Cancelled")
    /\ UNCHANGED <<now, issuerOffers, holderOffers, offerIndex, issuedCred, reused>>

\* Fault: only the Status record expires (OverdueSettled).
GetOfferStatus_StatusOnly(o) ==
    /\ Pending(o) /\ Overdue(o)
    /\ statusRecord' = StatusAfter(o, "Expired")
    /\ UNCHANGED <<now, offer, issuerOffers, holderOffers, offerIndex, issuedCred, reused>>
\* The reads that write: an overdue pending offer expires in both records ...
GetOfferStatus(o) ==
    /\ Pending(o) /\ Overdue(o)
    /\ offer' = [offer EXCEPT ![o].status = "Expired"]
    /\ statusRecord' = StatusAfter(o, "Expired")
    /\ UNCHANGED <<now, issuerOffers, holderOffers, offerIndex, issuedCred, reused>>

\* ... or in the Offer record alone.
GetOffer(o) ==
    /\ Pending(o) /\ Overdue(o)
    /\ offer' = [offer EXCEPT ![o].status = "Expired"]
    /\ UNCHANGED <<now, statusRecord, issuerOffers, holderOffers, offerIndex, issuedCred,
                   reused>>

-----------------------------------------------------------------------------
Next ==
    \/ Tick
    \/ \E i, h \in Address, e \in Expiries \cup {None} : CreateOffer(i, h, e)
    \/ \E a \in Address, o \in Id : AcceptOffer(a, o) \/ RejectOffer(a, o) \/ CancelOffer(a, o)
    \/ \E o \in Id : GetOfferStatus(o) \/ GetOffer(o)

Spec == Init /\ [][Next]_vars

\* Ledgers keep closing, and someone keeps asking for the status of every offer.
SpecPolled ==
    /\ Spec
    /\ WF_vars(Tick)
    /\ \A o \in Id : WF_vars(GetOfferStatus(o))

-----------------------------------------------------------------------------
\* An offer is accepted within its life, although an overdue one stays Pending until
\* somebody reads it and an id may be created twice.
AcceptedInTime ==
    \A o \in Id : Stored(o) /\ offer[o].status = "Accepted" =>
        /\ offer[o].createdAt <= offer[o].acceptedAt
        /\ offer[o].expiresAt # None => offer[o].acceptedAt <= offer[o].expiresAt

\* The two copies of the status differ in one way only: the Offer record has expired
\* through get_offer while the Status record still says Pending.
StatusLagsByExpiryOnly ==
    \A o \in Id : Stored(o) =>
        /\ statusRecord[o] # None
        /\ statusRecord[o].status # offer[o].status =>
               statusRecord[o].status = "Pending" /\ offer[o].status = "Expired"

\* Expiry is written late and in one of two records, and is respected all the same.
ExpiryRespected == AcceptedInTime /\ StatusLagsByExpiryOnly

\* But for ids given out twice in a ledger, acceptances and credentials are one to one:
\* each accepted offer names a stored credential of its issuer for its holder, and each
\* credential has its one offer.
CredentialsBacked ==
    /\ \A o \in Id :
          Stored(o) /\ offer[o].status = "Accepted" /\ offer[o].credential \notin reused =>
              issuedCred[offer[o].credential]
                  = [issuer |-> offer[o].issuer, subject |-> offer[o].holder]
    /\ \A c \in Id \ reused : issuedCred[c] # None =>
          \E o \in Id : /\ Stored(o) /\ offer[o].status = "Accepted"
                        /\ offer[o].credential = c
                        /\ \A p \in Id : Stored(p) /\ offer[p].credential = c => p = o

\* Ids tell when offers were created and credentials issued, and every accepted offer
\* names a stored credential: with it the invariants above are inductive.
IdsDated ==
    /\ \A o \in Id : Stored(o) =>
          /\ offer[o].createdAt = o /\ o <= now
          /\ offer[o].status # "Accepted" => offer[o].credential = None
          /\ offer[o].status = "Accepted" =>
                /\ offer[o].acceptedAt \in o .. now
                /\ offer[o].credential = offer[o].acceptedAt
                /\ issuedCred[offer[o].credential] # None
    /\ \A c \in Id : issuedCred[c] # None => c <= now

IInv == TypeOK /\ IdsDated /\ AcceptedInTime /\ StatusLagsByExpiryOnly /\ CredentialsBacked

\* Once the ledger it was created in has closed, an offer's parties and expiry never
\* change, and when it has left Pending nothing of it does.
SettledKept ==
    \A o \in Id : Stored(o) /\ o < now =>
        /\ offer'[o].issuer = offer[o].issuer
        /\ offer'[o].holder = offer[o].holder
        /\ offer'[o].expiresAt = offer[o].expiresAt
        /\ offer[o].status # "Pending" => offer'[o] = offer[o]

SettledFinal == [][SettledKept]_vars

\* An offer is settled once, in time, and with a credential exactly if it was accepted,
\* however accepting, rejecting, cancelling and polling fall together.
OffersSound == [][ExpiryRespected' /\ CredentialsBacked' /\ SettledKept]_vars

\* An offer whose ledger has closed and that runs out does not stay pending for good
\* once somebody polls it.
OverdueSettled ==
    \A o \in Id : /\ o < now /\ Pending(o)
                 /\ offer[o].expiresAt # None /\ offer[o].expiresAt < MaxTime
                      ~> ~Pending(o)
=============================================================================
