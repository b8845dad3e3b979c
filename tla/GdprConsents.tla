----------------------------- MODULE GdprConsents -----------------------------
(***************************************************************************)
(* The consents GDPREngine (src/sdk/src/gdpr.ts) keeps in memory for each  *)
(* person, in the order in which they were recorded.  Persons share        *)
(* nothing, so that one is modelled.  The log of data processings, which   *)
(* only grows, is left out.                                                *)
(***************************************************************************)
EXTENDS Naturals, Sequences

CONSTANTS
    ConsentId, Purpose,
    MaxTicks,           \* bound: time
    MaxConsents         \* bound: consents recorded

ASSUME ConsentsAssumption == MaxTicks \in Nat /\ MaxConsents \in Nat

VARIABLES
    consents,
    ticks,              \* Date.now()
    withdrawn           \* history: the ids revoked, each with the consents there were then

consentVars == <<consents, ticks, withdrawn>>

Never == MaxTicks + 1

ConsentsInit ==
    /\ consents = <<>>
    /\ ticks = 1
    /\ withdrawn = {}

\* The record is the caller's: its id may be in use, and its end may be past.
RecordConsent(id, purpose) ==
    /\ Len(consents) < MaxConsents
    /\ \E until \in 1 .. Never :
          consents' = Append(consents, [id |-> id, purpose |-> purpose, revokedAt |-> 0, until |-> until])
    /\ UNCHANGED <<ticks, withdrawn>>

Under(id) == {i \in DOMAIN consents : consents[i].id = id}
\* Fault: the consent recorded last under the id is marked (WithdrawalsHold).
Found_Last(id) == {i \in Under(id) : \A j \in Under(id) : j <= i}
\* The first that was recorded under the id, if any, withdrawn before or not.
Found(id) == {i \in Under(id) : \A j \in Under(id) : i <= j}

RevokeConsent(id) ==
    /\ consents' = [i \in DOMAIN consents |->
                       IF i \in Found(id) THEN [consents[i] EXCEPT !.revokedAt = ticks] ELSE consents[i]]
    /\ withdrawn' = withdrawn \cup {<<id, Len(consents)>>}
    /\ UNCHANGED ticks

RunsOn(c) == c.until = Never \/ c.until > ticks
InForce(c) == c.revokedAt = 0 /\ RunsOn(c)
HasValidConsent(purpose) == \E i \in DOMAIN consents : consents[i].purpose = purpose /\ InForce(consents[i])

TimePasses ==
    /\ ticks < MaxTicks
    /\ ticks' = ticks + 1
    /\ UNCHANGED <<consents, withdrawn>>

ConsentsNext ==
    \/ \E id \in ConsentId : RevokeConsent(id) \/ \E purpose \in Purpose : RecordConsent(id, purpose)
    \/ TimePasses

ConsentsSpec == ConsentsInit /\ [][ConsentsNext]_consentVars

-----------------------------------------------------------------------------
\* By the history alone: the consent was the first under its id, and the id was withdrawn
\* when it was there.
Reached(i) ==
    /\ \A j \in 1 .. i - 1 : consents[j].id # consents[i].id
    /\ \E mark \in withdrawn : mark[1] = consents[i].id /\ mark[2] >= i

\* There is a valid consent for a purpose exactly when one was recorded for it that has not
\* run out and that no withdrawal reached: withdrawals are for good and concern nobody
\* else's consent, whatever is recorded and withdrawn in between.  A withdrawal reaches the
\* first consent under its id only, so that one recorded later under an id in use, after a
\* withdrawal or before it, stays valid however often it is withdrawn (revokeConsent,
\* hasValidConsent).
WithdrawalsHold ==
    \A purpose \in Purpose :
        HasValidConsent(purpose) <=>
            \E i \in DOMAIN consents :
                consents[i].purpose = purpose /\ RunsOn(consents[i]) /\ ~Reached(i)
=============================================================================
