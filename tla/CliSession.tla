------------------------------ MODULE CliSession ------------------------------
(***************************************************************************)
(* One session of the command line (src/cli/index.ts): the DIDs,           *)
(* credentials, reputations and proofs it keeps in memory, and the menus   *)
(* whose entries create, change and read them.  A person drives it: an     *)
(* entry asks its questions, waits for a spinner and changes the session,  *)
(* and no other entry runs meanwhile, so that each is one action.          *)
(*                                                                         *)
(* Entries that change nothing are not actions; what they tell about a     *)
(* credential or a score is an operator.  Names, reasons and the contents  *)
(* of documents and credentials are left out.  A number is asked for with  *)
(* parseInt, which makes NaN of anything else.                             *)
(***************************************************************************)
EXTENDS Integers, FiniteSets

CONSTANTS
    Person,             \* addresses that may be typed in
    Saved,              \* those of the saved keypairs, which sign
    NaN,
    Amount,             \* numbers typed in for years, incomes and bounds
    CurrentYear,
    MockScore,          \* scores drawn for an address that has none
    MaxCommands         \* bound: entries chosen

ASSUME SessionAssumption ==
    /\ Saved \subseteq Person
    /\ Amount \subseteq Int /\ NaN \notin Int /\ CurrentYear \in Int
    /\ MockScore \subseteq 400 .. 799
    /\ MaxCommands \in Nat

VARIABLES
    dids,               \* session.dids: per address its document, at most one
    credentials,        \* session.credentials
    reputations,        \* session.reputations: per address at most one
    proofs,             \* session.proofs
    day,                \* the clock, in the periods that expiries are given in
    commands,           \* counted for the bound
    withdrawn           \* history: credentials revoked, and renewed from such

sessionVars == <<dids, credentials, reputations, proofs, day, commands, withdrawn>>

SessionInit ==
    /\ dids = [a \in Person |-> {}]
    /\ credentials = {}
    /\ reputations = [a \in Person |-> {}]
    /\ proofs = {}
    /\ day = 0 /\ commands = 0
    /\ withdrawn = {}

Command == commands < MaxCommands /\ commands' = commands + 1
Number == Amount \cup {NaN}

\* Every comparison with NaN is false.
Below(x, y) == NaN \notin {x, y} /\ x < y
AtMost(x, y) == NaN \notin {x, y} /\ x <= y

\* A time from now in days as typed in: none is left, some are, or it is not a number,
\* which is then no expiry.
Expiry == {day, day + 1, NaN}
Passed(expires) == Below(expires, day)

DayPasses ==
    /\ day < 2 /\ day' = day + 1
    /\ UNCHANGED <<dids, credentials, reputations, proofs, commands, withdrawn>>

-----------------------------------------------------------------------------
(* didMenu *)

Keep(a, deactivated, extended) ==
    [dids EXCEPT ![a] = {[deactivated |-> deactivated, extended |-> extended]}]

\* A DID that is there already, deactivated or not, is replaced.
CreateDID(a) ==
    /\ a \in Saved
    /\ dids' = Keep(a, FALSE, FALSE)
    /\ UNCHANGED <<credentials, reputations, proofs, withdrawn>>

\* updateDID and addAuthentication add to the document they find, also to a deactivated one;
\* removeAuthentication changes none.
UpdateDID(a) ==
    /\ a \in Saved
    /\ \E d \in dids[a] : dids' = Keep(a, d.deactivated, TRUE)
    /\ UNCHANGED <<credentials, reputations, proofs, withdrawn>>

AddAuthentication(a) == UpdateDID(a)

DeactivateDID(a) ==
    /\ a \in Saved
    /\ \E d \in dids[a] : dids' = Keep(a, TRUE, d.extended)
    /\ UNCHANGED <<credentials, reputations, proofs, withdrawn>>

DidMenu == \E a \in Saved :
    CreateDID(a) \/ UpdateDID(a) \/ AddAuthentication(a) \/ DeactivateDID(a)

-----------------------------------------------------------------------------
(* credentialMenu *)

\* mockCredential: the id is drawn, the expiry a year ahead.
MockCredential(expires) ==
    [id |-> Cardinality(credentials) + 1, revoked |-> FALSE, expires |-> expires]

Issue(expires) ==
    /\ credentials' = credentials \cup {MockCredential(expires)}
    /\ UNCHANGED <<dids, reputations, proofs, withdrawn>>

\* Zero days and what is no number leave the year.
IssueCredential == Issue(day + 1)
IssueKYCCredential == Issue(day + 1)
IssueEducationCredential == Issue(day + 1)
IssueEmploymentCredential == Issue(day + 1)

\* No keypair is compared with the issuer.  An id that is not there changes nothing.
RevokeCredential(c) ==
    /\ credentials' = (credentials \ {c}) \cup {[c EXCEPT !.revoked = TRUE]}
    /\ withdrawn' = withdrawn \cup {c.id}
    /\ UNCHANGED <<dids, reputations, proofs>>

\* Fault: the renewed credential gets a proof of its own (SessionTruthful).
Renewed_Anew(c, expires) == MockCredential(expires)
\* A copy, the mark of a revocation included.
Renewed(c, expires) == [c EXCEPT !.id = Cardinality(credentials) + 1, !.expires = expires]

RenewCredential(c, expires) ==
    /\ credentials' = credentials \cup {Renewed(c, expires)}
    /\ withdrawn' = IF c.id \in withdrawn THEN withdrawn \cup {Renewed(c, expires).id} ELSE withdrawn
    /\ UNCHANGED <<dids, reputations, proofs>>

\* What verifyCredential, getCredentialStatus and batchVerifyCredentials say.
VerifyCredential(c) == ~c.revoked /\ ~Passed(c.expires)
GetCredentialStatus(c) == IF c.revoked THEN "revoked" ELSE "active"
BatchVerify == {c \in credentials : ~c.revoked}
GetSubjectCredentials == [c \in credentials |-> GetCredentialStatus(c)]

CredentialMenu ==
    \/ IssueCredential \/ IssueKYCCredential
    \/ IssueEducationCredential \/ IssueEmploymentCredential
    \/ \E c \in credentials :
          RevokeCredential(c) \/ \E expires \in Expiry : RenewCredential(c, expires)

-----------------------------------------------------------------------------
(* reputationMenu *)

Within(low, high, x) == IF x < low THEN low ELSE IF x > high THEN high ELSE x

\* Fault: the boundary belongs to the tier below (SessionTruthful).
ScoreTier_Above(s) ==
    IF s > 900 THEN "Prime" ELSE IF s > 750 THEN "Strong" ELSE IF s > 550 THEN "Established"
    ELSE IF s > 300 THEN "Emerging" ELSE "Seedling"
ScoreTier(s) ==
    IF s >= 900 THEN "Prime" ELSE IF s >= 750 THEN "Strong" ELSE IF s >= 550 THEN "Established"
    ELSE IF s >= 300 THEN "Emerging" ELSE "Seedling"

MockReputation(s) == [score |-> s, tier |-> ScoreTier(s)]
Initial == [score |-> 100, tier |-> "Seedling"]

SetReputation(a, r) ==
    /\ reputations' = [reputations EXCEPT ![a] = {r}]
    /\ UNCHANGED <<dids, credentials, proofs, withdrawn>>

InitReputation(a) == a \in Saved /\ SetReputation(a, Initial)

\* What there is, or a score that is drawn now and kept.
GetOrCreateRep(a) ==
    IF reputations[a] # {} THEN reputations[a] ELSE {MockReputation(s) : s \in MockScore}

\* The entries that only ask for a score: a first question makes a reputation.
GetReputationScore(a) == \E r \in GetOrCreateRep(a) : SetReputation(a, r)
GetReputationBreakdown(a) == GetReputationScore(a)
CheckReputationThreshold(a) == GetReputationScore(a)
GetReputationPercentile(a) == GetReputationScore(a)

CompareReputations(a, b) ==
    \E r \in GetOrCreateRep(a), s \in GetOrCreateRep(b) :
        /\ a = b => r = s
        /\ reputations' = [reputations EXCEPT ![a] = {r}, ![b] = {s}]
        /\ UNCHANGED <<dids, credentials, proofs, withdrawn>>

Scored(a, points) ==
    /\ a \in Saved
    /\ \E r \in GetOrCreateRep(a) :
          LET s == Within(0, 1000, r.score + points)
          IN  SetReputation(a, [score |-> s, tier |-> ScoreTier(s)])

UpdateTransactionRep(a, success) == Scored(a, IF success THEN 10 ELSE -5)
UpdateCredentialRep(a, valid) == Scored(a, IF valid THEN 20 ELSE -15)

\* getReputationTier looks a score up in a table of its own, from the top.
TierFloor == [Prime |-> 900, Strong |-> 750, Established |-> 550, Emerging |-> 300, Seedling |-> 0]
GetReputationTier(s) ==
    CHOOSE t \in DOMAIN TierFloor :
        /\ s >= TierFloor[t]
        /\ \A u \in DOMAIN TierFloor : s >= TierFloor[u] => TierFloor[u] <= TierFloor[t]

ReputationMenu ==
    \/ \E a \in Person :
          \/ GetReputationScore(a) \/ GetReputationBreakdown(a)
          \/ CheckReputationThreshold(a) \/ GetReputationPercentile(a)
          \/ \E b \in Person : CompareReputations(a, b)
    \/ \E a \in Saved :
          \/ InitReputation(a)
          \/ \E good \in BOOLEAN : UpdateTransactionRep(a, good) \/ UpdateCredentialRep(a, good)

-----------------------------------------------------------------------------
(* zkMenu: a proof states something of a value, or is of a kind that was not compared. *)

AddProof(stated, holds, expires) ==
    /\ proofs' = proofs \cup {[stated |-> stated, holds |-> holds, expires |-> expires]}
    /\ UNCHANGED <<dids, credentials, reputations, withdrawn>>

Month == day + 1
Numbers(s) == IF NaN \in s THEN "nonsense" ELSE "numbers"

\* The difference of the years: one too many before the birthday.
Age(birthYear) == IF birthYear = NaN THEN NaN ELSE CurrentYear - birthYear

GenerateAgeProof(birthYear, minAge, expires) ==
    /\ ~Below(Age(birthYear), minAge)
    /\ AddProof(Numbers({Age(birthYear), minAge}), AtMost(minAge, Age(birthYear)), expires)

GenerateIncomeProof(income, minIncome) ==
    /\ ~Below(income, minIncome)
    /\ AddProof(Numbers({income, minIncome}), AtMost(minIncome, income), Month)

GenerateRangeProof(value, low, high) ==
    /\ ~(Below(value, low) \/ Below(high, value))
    /\ AddProof(Numbers({value, low, high}), AtMost(low, value) /\ AtMost(value, high), Month)

GenerateGreaterThanProof(value, threshold) ==
    /\ ~AtMost(value, threshold)
    /\ AddProof(Numbers({value, threshold}), Below(threshold, value), Month)

\* Made of what is typed in; the composite proof asks for no age or country.
Uncompared == AddProof("other", FALSE, Month)
GenerateCredentialOwnershipProof == Uncompared
GenerateEqualityDisclosure == Uncompared
GenerateKYCCompositeProof == Uncompared
CreateSelectiveDisclosure == Uncompared

\* What verifyProofOnChain and listSessionProofs say; an id that is not there is valid.
VerifyProofOnChain(p) == ~Passed(p.expires)

ZkMenu ==
    \/ \E x, y \in Number :
          \/ \E expires \in Expiry : GenerateAgeProof(x, y, expires)
          \/ GenerateIncomeProof(x, y) \/ GenerateGreaterThanProof(x, y)
          \/ \E z \in Number : GenerateRangeProof(x, y, z)
    \/ GenerateCredentialOwnershipProof \/ GenerateEqualityDisclosure
    \/ GenerateKYCCompositeProof \/ CreateSelectiveDisclosure

-----------------------------------------------------------------------------
\* An address of which the session knows nothing yet: a keypair drawn just now.
Fresh(a) == dids[a] = {} /\ reputations[a] = {}

\* runFullDemo: one of everything, nothing of it compared.
RunFullDemo(a) ==
    /\ Fresh(a)
    /\ dids' = Keep(a, FALSE, FALSE)
    /\ \E s \in MockScore : reputations' = [reputations EXCEPT ![a] = {MockReputation(s)}]
    /\ credentials' = credentials \cup
          {[MockCredential(day + 1) EXCEPT !.id = @ + i] : i \in {0, 1}}
    /\ proofs' = proofs \cup {[stated |-> "other", holds |-> FALSE, expires |-> Month]}
    /\ UNCHANGED withdrawn

\* quickStart, a choice of the first menu.
QuickStart(a) ==
    /\ commands = 0 /\ Fresh(a)
    /\ dids' = Keep(a, FALSE, FALSE)
    /\ reputations' = [reputations EXCEPT ![a] = {Initial}]
    /\ UNCHANGED <<credentials, proofs, withdrawn>>

SessionNext ==
    \/ DayPasses
    \/ /\ Command /\ UNCHANGED day
       /\ \/ DidMenu \/ CredentialMenu \/ ReputationMenu \/ ZkMenu
          \/ \E a \in Person : RunFullDemo(a) \/ QuickStart(a)

SessionSpec == SessionInit /\ [][SessionNext]_sessionVars

-----------------------------------------------------------------------------
\* What was revoked is never valid again, nor is what is renewed from it later, wherever one
\* asks; a tier shown with a score is the one looked up for that score; and a proof about
\* numbers states what was true of them, an age being the difference of two years.
SessionTruthful ==
    /\ \A c \in credentials : c.id \in withdrawn =>
          /\ ~VerifyCredential(c) /\ c \notin BatchVerify
          /\ GetSubjectCredentials[c] = "revoked"
    /\ \A a \in Person : \A r \in reputations[a] : r.tier = GetReputationTier(r.score)
    /\ \A p \in proofs : p.stated = "numbers" => p.holds
=============================================================================
