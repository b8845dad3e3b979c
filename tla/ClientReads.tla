------------------------------ MODULE ClientReads ------------------------------
(***************************************************************************)
(* The methods of the SDK that read: zkProofs.ts, reputation.ts,           *)
(* regulatoryReporting.ts, credentialClient.ts and gdpr.ts (all in         *)
(* src/sdk/src).  Each read is a simulation of its own (simulateRead), so  *)
(* that an answer made of several shows the ledger at several moments;     *)
(* what fails is thrown, or replaced by a default that looks like an       *)
(* answer.                                                                 *)
(*                                                                         *)
(* An Item is what a contract keeps: a proof, a template, a report, a      *)
(* credential, a profile.  Of its data only the version is kept, and       *)
(* whether its date of expiry has passed.  The contracts are external; of  *)
(* them is kept which functions they have and with which arguments.        *)
(***************************************************************************)
EXTENDS Naturals, FiniteSets

CONSTANTS
    Reader,             \* calls under way
    Item,
    Unparsed,           \* the credentials that are stored compressed
    MaxVersions         \* bound: changes of the contracts' data

ASSUME ReadsAssumption == Unparsed \subseteq Item /\ MaxVersions \in Nat

VARIABLES
    version,            \* external: per item, the number of its last change, 0 without it
    outdated,             \* external: the items whose date of expiry has passed
    reading             \* per call: what it awaits and what it has got

readVars == <<version, outdated, reading>>
Ledger == <<version, outdated>>

Listed == {x \in Item : version[x] > 0}
LastChange == CHOOSE n \in 0 .. MaxVersions :
               /\ \A x \in Item : version[x] <= n
               /\ n > 0 => \E x \in Item : version[x] = n

Unread == [at |-> "new", open |-> {}, then |-> "end", onError |-> "throw", got |-> {}, missed |-> {},
         todo |-> {}, from |-> [x \in Item |-> 0], wasOutdated |-> {}]

ReadsInit ==
    /\ version = [x \in Item |-> 0]
    /\ outdated = {}
    /\ reading = [r \in Reader |-> Unread]

-----------------------------------------------------------------------------
(* The methods: what is asked for together, what after that, what an error becomes. *)

Reads(r, open, then, onError) ==
    /\ reading[r].at = "new"
    /\ reading' = [reading EXCEPT ![r] =
          [Unread EXCEPT !.at = "reading", !.open = open, !.then = then, !.onError = onError,
                       !.from = version, !.wasOutdated = outdated]]
    /\ UNCHANGED Ledger

One(r, function, x, onError) == Reads(r, {<<function, x>>}, "end", onError)

\* ZKProofsClient.
VerifyProof(r, x) == Reads(r, {<<"verify_proof", x>>}, "get_proof", "throw")
VerifyProofOnChain(r, x) == VerifyProof(r, x)
VerifySelectiveDisclosure(r, x) ==
    Reads(r, {<<"verify_selective_disclosure", x>>}, "get_selective_disclosure", "throw")
GetProof(r, x) == One(r, "get_proof", x, "throw")
GetSelectiveDisclosure(r, x) == One(r, "get_selective_disclosure", x, "throw")
GetCombinedDisclosure(r, x) == One(r, "get_combined_disclosure", x, "throw")
GetCircuit(r, x) == One(r, "get_circuit", x, "throw")
GetCircuitProofs(r, x) == One(r, "get_circuit_proofs", x, "throw")
GetActiveCircuits(r, x) == One(r, "get_active_circuits", x, "throw")
VerifyAgeProof(r, x) == One(r, "verify_age_proof", x, "throw")

\* ReputationClient.
CalculateReputation(r, x) == One(r, "calculate_reputation", x, "throw")
GetReputationScoreValue(r, x) == One(r, "get_reputation_score", x, "throw")
GetReputationData(r, x) == One(r, "get_reputation_data", x, "throw")
GetReputationHistory(r, x) == One(r, "get_reputation_history", x, "throw")
GetTrustGraph(r, x) == One(r, "get_trust_graph", x, "throw")
MeetsReputationThreshold(r, x) == One(r, "meets_reputation_threshold", x, "throw")
ScoreParts(x) == {<<"get_reputation_data", x>>, <<"get_reputation_percentile", x>>}
GetReputationScore(r, x) == Reads(r, ScoreParts(x), "end", "throw")
GetReputationTierProof(r, x) == GetReputationScore(r, x)
CompareReputation(r, x, y) == Reads(r, ScoreParts(x) \cup ScoreParts(y), "end", "throw")
GetReputationAnalysis(r, x) ==
    Reads(r, ScoreParts(x) \cup {<<"get_reputation_history", x>>}, "end", "throw")

\* RegulatoryReportingClient: an error becomes null, nothing, zeros or the default templates.
GetTemplate(r, x) == One(r, "get_template", x, "default")
GetReports(r, x) == One(r, "get_reports_paginated", x, "default")
GetSAR(r, x) == One(r, "get_sar", x, "default")
GetSARs(r, x) == One(r, "get_sars_paginated", x, "default")
GetSchedules(r, x) == One(r, "get_all_schedule_ids", x, "default")
GetExportSnapshots(r, x) == One(r, "get_export_snapshots", x, "default")
GetStatistics(r, x) == One(r, "get_statistics", x, "default")
\* The ids, then a template for each, together.
GetAllTemplates(r, x) == Reads(r, {<<"get_all_template_ids", x>>}, "get_template", "default")

\* CredentialClient.
GetIssuerCredentials(r, x) == One(r, "get_issuer_credentials", x, "throw")
GetSubjectCredentials(r, x) == One(r, "get_subject_credentials", x, "throw")
GetCredentialStatus(r, x) == One(r, "get_credential_status", x, "throw")
GetRevocationReason(r, x) == One(r, "get_revocation_reason", x, "throw")

\* GDPREngine: the document, the ids, then the credentials one after the other.
ExportDataPortability(r, x) == Reads(r, {<<"resolveDID", x>>}, "get_subject_credentials", "default")

ReadMethod(r, x) ==
    \/ VerifyProof(r, x) \/ VerifyProofOnChain(r, x) \/ VerifySelectiveDisclosure(r, x)
    \/ GetProof(r, x) \/ GetSelectiveDisclosure(r, x) \/ GetCombinedDisclosure(r, x)
    \/ GetCircuit(r, x) \/ GetCircuitProofs(r, x) \/ GetActiveCircuits(r, x) \/ VerifyAgeProof(r, x)
    \/ CalculateReputation(r, x) \/ GetReputationScoreValue(r, x) \/ GetReputationData(r, x)
    \/ GetReputationHistory(r, x) \/ GetTrustGraph(r, x) \/ MeetsReputationThreshold(r, x)
    \/ GetReputationScore(r, x) \/ GetReputationTierProof(r, x) \/ GetReputationAnalysis(r, x)
    \/ \E y \in Item : CompareReputation(r, x, y)
    \/ GetTemplate(r, x) \/ GetReports(r, x) \/ GetSAR(r, x) \/ GetSARs(r, x) \/ GetSchedules(r, x)
    \/ GetExportSnapshots(r, x) \/ GetStatistics(r, x) \/ GetAllTemplates(r, x)
    \/ GetIssuerCredentials(r, x) \/ GetSubjectCredentials(r, x)
    \/ GetCredentialStatus(r, x) \/ GetRevocationReason(r, x) \/ ExportDataPortability(r, x)

-----------------------------------------------------------------------------
(* The answers. *)

\* No such functions, or one that wants the circuit as a symbol and is given bytes.
Impossible == {"calculate_reputation", "get_reputation_data", "verify_age_proof",
               "get_circuit", "get_circuit_proofs"}

\* Functions that fail for what is not there; the others answer null, or nothing.
Refusing == {"verify_proof", "verify_selective_disclosure", "get_proof", "get_selective_disclosure",
             "get_combined_disclosure", "get_reputation_percentile", "meets_reputation_threshold",
             "get_credential"}

Listing == {"get_active_circuits", "get_all_template_ids", "get_subject_credentials",
            "get_issuer_credentials"}

\* parseCredential does not get to the decompression; decoding a symbol as bytes fails.
Unreadable(function, x) ==
    \/ function = "get_credential" /\ x \in Unparsed
    \/ function = "get_active_circuits" /\ Listed # {}

CanAnswer(p) ==
    /\ p[1] \notin Impossible
    /\ p[1] \in Refusing => version[p[2]] > 0
    /\ ~Unreadable(p[1], p[2])

\* The parsers of zkProofs.ts take fields by position out of a structure that has names:
\* all of them are blank.  Those of regulatoryReporting.ts take them by name.  A document may
\* come from the cache of the DID client, at any age.
Positional == {"get_proof", "get_selective_disclosure", "get_combined_disclosure"}
Kept(p) == IF p[1] \in Positional \cup Listing \cup {"resolveDID"} THEN 0 ELSE version[p[2]]

AnswerOf(p) == [part |-> p, n |-> Kept(p), valid |-> p[2] \notin outdated,
                list |-> IF p[1] \in Listing THEN Listed ELSE {}, then |-> version]

PartRead(r, p) ==
    /\ p \in reading[r].open /\ CanAnswer(p)
    /\ reading' = [reading EXCEPT ![r].open = @ \ {p}, ![r].got = @ \cup {AnswerOf(p)}]
    /\ UNCHANGED Ledger

\* Fault: a part that failed is left out of an answer (ReadsExplained).
Failed_Dropped(c, p) == [c EXCEPT !.open = @ \ {p}, !.missed = @ \cup {p}]
Failed(c, p) ==
    IF c.onError = "throw" THEN [Unread EXCEPT !.at = "threw"]
    ELSE [c EXCEPT !.open = @ \ {p}, !.missed = @ \cup {p}]

\* The function fails, or the request.
ReadFails(r, p) ==
    /\ p \in reading[r].open
    /\ reading' = [reading EXCEPT ![r] = Failed(@, p)]
    /\ UNCHANGED Ledger

\* The ids that were listed.  A template that cannot be read is dropped, also one of the
\* defaults: the id listed is bytes, which the id of a default never equals.
Ids(c) == UNION {a.list : a \in c.got}

Continued(c) ==
    CASE c.then = "end" -> [c EXCEPT !.at = "returned"]
      [] c.then = "get_template" ->
            [c EXCEPT !.then = "end", !.open = {<<"get_template", x>> : x \in Ids(c)}]
      [] c.then = "get_subject_credentials" ->
            [c EXCEPT !.then = "get_credential", !.open = {<<c.then, x>> : x \in {a[2] : a \in
                         c.missed \cup {b.part : b \in c.got}}}]
      [] c.then = "get_credential" -> [c EXCEPT !.then = "inTurn", !.todo = Ids(c)]
      [] c.then = "inTurn" /\ c.todo = {} -> [c EXCEPT !.then = "end"]
      [] c.then \in {"get_proof", "get_selective_disclosure"} ->
            [c EXCEPT !.then = "end", !.open = {<<c.then, a.part[2]>> : a \in c.got}]

Continue(r) ==
    /\ reading[r].at = "reading" /\ reading[r].open = {}
    /\ \/ /\ reading[r].then # "inTurn" \/ reading[r].todo = {}
          /\ reading' = [reading EXCEPT ![r] = Continued(@)]
       \/ /\ reading[r].then = "inTurn"
          /\ \E x \in reading[r].todo :
                reading' = [reading EXCEPT ![r].todo = @ \ {x}, ![r].open = {<<"get_credential", x>>}]
    /\ UNCHANGED Ledger

-----------------------------------------------------------------------------
(* The contracts, and time. *)

DataChanges(x) ==
    /\ LastChange < MaxVersions
    /\ version' = [version EXCEPT ![x] = LastChange + 1]
    /\ UNCHANGED <<outdated, reading>>

ItemOutdated(x) ==
    /\ version[x] > 0
    /\ outdated' = outdated \cup {x}
    /\ UNCHANGED <<version, reading>>

ReadsNext ==
    \/ \E r \in Reader :
          \/ \E x \in Item : ReadMethod(r, x)
          \/ \E p \in reading[r].open : PartRead(r, p) \/ ReadFails(r, p)
          \/ Continue(r)
    \/ \E x \in Item : DataChanges(x) \/ ItemOutdated(x)

ReadsSpec == ReadsInit /\ [][ReadsNext]_readVars

-----------------------------------------------------------------------------
Returned == {r \in Reader : reading[r].at = "returned"}
Got(r, function) == {a \in reading[r].got : a.part[1] = function}

\* Whatever changes, expires and fails between the reads of a call: an answer that is not a
\* default has every part, each not older than the call; a proof is called valid only if it
\* had not expired when the call began; the details of an item listed by the same call are
\* not older than the list; and an export in which no read failed has every credential there
\* was when it began, unless compressed.
ReadsExplained ==
    \A r \in Returned :
        /\ reading[r].onError = "throw" => reading[r].missed = {}
        /\ \A a \in reading[r].got : a.n > 0 => a.n >= reading[r].from[a.part[2]]
        /\ \A a \in Got(r, "verify_proof") : a.valid => a.part[2] \notin reading[r].wasOutdated
        /\ \A a \in Got(r, "get_credential") \cup Got(r, "get_template"), b \in reading[r].got :
              a.part[2] \in b.list => a.n >= b.then[a.part[2]]
        /\ (Got(r, "resolveDID") # {} /\ reading[r].missed = {}) =>
              \A x \in Item \ Unparsed : reading[r].from[x] > 0 =>
                  \E a \in Got(r, "get_credential") : a.part[2] = x
=============================================================================
