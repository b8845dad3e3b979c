----------------------------- MODULE ServiceClients -----------------------------
(***************************************************************************)
(* The clients of the SDK that send transactions and do not wait for the   *)
(* ledger: zkProofs.ts, reputation.ts, compliance.ts,                      *)
(* regulatoryReporting.ts, credentialClient.ts and, through it, gdpr.ts    *)
(* (all in src/sdk/src).  Their methods share one course: read the         *)
(* account, prepare by simulation, sign and send.  They differ in what     *)
(* comes before and in what is done with the answer.  Several are under    *)
(* way for one account at once; what is awaited ends in any order.  RPC    *)
(* server and ledger are external.                                         *)
(*                                                                         *)
(* Arguments and encodings are left out.  Of a contract's state only the   *)
(* number of changes made is kept, which is also what a change returns.    *)
(***************************************************************************)
EXTENDS Naturals, FiniteSets

CONSTANTS
    ServiceCall,        \* calls made
    MaxErased           \* bound: credentials of the subject of an erasure

ASSUME ServicesAssumption == MaxErased \in Nat \ {0}

VARIABLES
    accountSeq,         \* external: the account's sequence number
    changesMade,        \* external: the number of changes of the contract's state
    mempool,            \* external: transactions that may still get into a ledger
    landed,             \* external: those that did, with the value each returned, or 0
                        \* when it failed in the contract
    task                \* per call: its kind, what it awaits, its number, what is left

serviceVars == <<accountSeq, changesMade, mempool, landed, task>>

NewTask == [kind |-> "none", at |-> "new", number |-> 0, left |-> 1, value |-> 0,
            sends |-> 0, before |-> 0]

ServicesInit ==
    /\ accountSeq = 0 /\ changesMade = 0
    /\ mempool = {} /\ landed = {}
    /\ task = [c \in ServiceCall |-> NewTask]

-----------------------------------------------------------------------------
(* The methods. *)

\* blind: the answer to the submission is not looked at.  checked: ERROR is thrown.  valued
\* and breakdown: as checked, then the value is asked for.  bestEffort: nothing is thrown.
\* forgiving: throws are turned into FALSE.
Begin(c, kind, first, left) ==
    /\ task[c].at = "new"
    /\ task' = [task EXCEPT ![c] =
          [NewTask EXCEPT !.kind = kind, !.at = first, !.left = left, !.before = changesMade]]
    /\ UNCHANGED <<accountSeq, changesMade, mempool, landed>>

\* ZKProofsClient.
SubmitProof(c) == Begin(c, "blind", "account", 1)
SubmitAgeProof(c) == SubmitProof(c)
SubmitIncomeProof(c) == SubmitProof(c)
SubmitCredentialOwnershipProof(c) == SubmitProof(c)
SubmitRangeProof(c) == SubmitProof(c)
\* generateProof comes first: the circuit's files are loaded and the proof is computed.
CreateAgeProof(c) == Begin(c, "blind", "proof", 1)
CreateIncomeProof(c) == Begin(c, "blind", "proof", 1)
CreateKYCProof(c) == Begin(c, "blind", "proof", 1)
CreateLoanApplicationProof(c) == Begin(c, "blind", "proof", 1)
CreateSelectiveDisclosureProof(c) == Begin(c, "blind", "account", 1)
CreateGreaterThanProof(c) == CreateSelectiveDisclosureProof(c)
CreateRangeProof(c) == CreateSelectiveDisclosureProof(c)
CreateEqualityDisclosure(c) == CreateSelectiveDisclosureProof(c)
CombineSelectiveDisclosures(c) == Begin(c, "blind", "account", 1)
RegisterCircuit(c) == Begin(c, "blind", "account", 1)
DeactivateCircuit(c) == Begin(c, "blind", "account", 1)
ReactivateCircuit(c) == Begin(c, "blind", "account", 1)

\* ComplianceClient.
UpdateSanctionsList(c) == Begin(c, "checked", "account", 1)
FileRegulatoryReport(c) == Begin(c, "checked", "account", 1)
RegisterComplianceRule(c) == Begin(c, "blind", "account", 1)

\* RegulatoryReportingClient.
RegisterTemplate(c) == Begin(c, "checked", "account", 1)
GenerateReport(c) == Begin(c, "checked", "account", 1)
FileTransactionReport(c) == Begin(c, "checked", "account", 1)
FileSAR(c) == Begin(c, "checked", "account", 1)
ScheduleReport(c) == Begin(c, "checked", "account", 1)
CancelSchedule(c) == Begin(c, "blind", "account", 1)
ExportReport(c) == Begin(c, "bestEffort", "account", 1)

\* CredentialClient: the data are signed first for a credential of a known kind.  The id
\* that is returned is made of the time, it is not the contract's.
IssueByClient(c) == Begin(c, "checked", "account", 1)
IssueKYCByClient(c) == Begin(c, "checked", "proof", 1)
IssueEducationByClient(c) == Begin(c, "checked", "proof", 1)

\* ReputationClient: invokeWrite, and updateReputation reads the percentile after it.
InitializeReputation(c) == Begin(c, "valued", "account", 1)
UpdateReputation(c) == Begin(c, "breakdown", "account", 1)
UpdateTransactionReputation(c) == Begin(c, "valued", "account", 1)
UpdateCredentialReputation(c) == Begin(c, "valued", "account", 1)
AttestTrust(c) == Begin(c, "valued", "account", 1)
ResetReputation(c) == Begin(c, "valued", "account", 1)

\* GDPREngine: one revocation per credential, each after the one before was sent.
ProcessErasureRequest(c) == \E n \in 0 .. MaxErased : Begin(c, "forgiving", "list", n)
ProcessRectification(c) == Begin(c, "forgiving", "account", 1)

ZkMethod(c) ==
    \/ SubmitProof(c) \/ SubmitAgeProof(c) \/ SubmitIncomeProof(c)
    \/ SubmitCredentialOwnershipProof(c) \/ SubmitRangeProof(c)
    \/ CreateAgeProof(c) \/ CreateIncomeProof(c) \/ CreateKYCProof(c)
    \/ CreateLoanApplicationProof(c) \/ CreateSelectiveDisclosureProof(c)
    \/ CreateGreaterThanProof(c) \/ CreateRangeProof(c) \/ CreateEqualityDisclosure(c)
    \/ CombineSelectiveDisclosures(c) \/ RegisterCircuit(c)
    \/ DeactivateCircuit(c) \/ ReactivateCircuit(c)

ReportMethod(c) ==
    \/ UpdateSanctionsList(c) \/ FileRegulatoryReport(c) \/ RegisterComplianceRule(c)
    \/ RegisterTemplate(c) \/ GenerateReport(c) \/ FileTransactionReport(c) \/ FileSAR(c)
    \/ ScheduleReport(c) \/ CancelSchedule(c) \/ ExportReport(c)

SubjectMethod(c) ==
    \/ IssueByClient(c) \/ IssueKYCByClient(c) \/ IssueEducationByClient(c)
    \/ InitializeReputation(c) \/ UpdateReputation(c) \/ UpdateTransactionReputation(c)
    \/ UpdateCredentialReputation(c) \/ AttestTrust(c) \/ ResetReputation(c)
    \/ ProcessErasureRequest(c) \/ ProcessRectification(c)

-----------------------------------------------------------------------------
(* Their course. *)

Step(c, from, to) == task[c].at = from /\ task' = [task EXCEPT ![c].at = to]
Chain == <<accountSeq, changesMade, mempool, landed>>

ProofGenerated(c) == Step(c, "proof", "account") /\ UNCHANGED Chain

\* The ids of the subject's credentials, perhaps none.
CredentialsListed(c) ==
    /\ Step(c, "list", IF task[c].left = 0 THEN "returned" ELSE "account")
    /\ UNCHANGED Chain

SequenceRead(c) ==
    /\ task[c].at = "account"
    /\ task' = [task EXCEPT ![c].at = "prepare", ![c].number = accountSeq + 1]
    /\ UNCHANGED Chain

\* The simulation of the change lets it through.
Simulated(c) == Step(c, "prepare", "send") /\ UNCHANGED Chain

\* After a submission: what is asked next.
Following(c) ==
    IF task[c].kind \in {"valued", "breakdown"} THEN "result"
    ELSE IF task[c].left > 1 THEN "account" ELSE "returned"

Submitted(c) ==
    /\ task[c].at = "send"
    /\ task' = [task EXCEPT ![c].at = Following(c), ![c].left = @ - 1, ![c].sends = @ + 1]
    /\ UNCHANGED <<accountSeq, changesMade, landed>>

SentAccepted(c) ==
    /\ task[c].number > accountSeq
    /\ Submitted(c)
    /\ mempool' = mempool \cup {[call |-> c, number |-> task[c].number]}

\* Those of which the answer to the submission is looked at.
ReportsErrors == {"checked", "valued", "breakdown"}

\* TRY_AGAIN_LATER, or ERROR where it is not looked at.
SentIgnored(c) == Submitted(c) /\ UNCHANGED mempool

SentRefused(c) ==
    /\ task[c].kind \in ReportsErrors
    /\ Step(c, "send", "refused")
    /\ UNCHANGED Chain

\* How a call ends of which a request fails: proof, account, simulation, submission.
Thrown(c) ==
    IF task[c].kind = "bestEffort" THEN "returned"
    ELSE IF task[c].kind = "forgiving" THEN "false"
    ELSE "threw"

Awaiting == {"proof", "list", "account", "prepare", "send", "result", "simulate", "percentile"}

AnswerFails(c) ==
    /\ task[c].at \in Awaiting \ {"send"}
    /\ task' = [task EXCEPT ![c].at = Thrown(c)]
    /\ UNCHANGED Chain

\* Before or after the server took the transaction.
SentLost(c) ==
    /\ task[c].at = "send"
    /\ task' = [task EXCEPT ![c].at = Thrown(c), ![c].sends = @ + 1]
    /\ \/ UNCHANGED mempool
       \/ /\ task[c].number > accountSeq
          /\ mempool' = mempool \cup {[call |-> c, number |-> task[c].number]}
    /\ UNCHANGED <<accountSeq, changesMade, landed>>

-----------------------------------------------------------------------------
(* invokeWrite of the ReputationClient, after the submission. *)

ValueKnown(c, v) ==
    task' = [task EXCEPT ![c].value = v,
                         ![c].at = IF task[c].kind = "breakdown" THEN "percentile" ELSE "returned"]

\* getTransaction knows the transaction and the value it returned.
ResultFound(c) ==
    /\ task[c].at = "result"
    /\ \E t \in landed : t.call = c /\ t.value > 0 /\ ValueKnown(c, t.value)
    /\ UNCHANGED Chain

\* Not in a ledger yet, dropped, or failed in the contract.
ResultMissing(c) == Step(c, "result", "simulate") /\ UNCHANGED Chain

\* Fault: the state is read instead of the change being simulated (CallsReported).
SimulatedValue_Read == changesMade
\* The change is simulated once more, on the state as it is now.
SimulatedValue == changesMade + 1

ValueSimulated(c) ==
    /\ task[c].at = "simulate"
    /\ ValueKnown(c, SimulatedValue)
    /\ UNCHANGED Chain

PercentileRead(c) == Step(c, "percentile", "returned") /\ UNCHANGED Chain

-----------------------------------------------------------------------------
(* The ledger (external): in the order of the account's numbers. *)

TransactionLands(t) ==
    /\ t \in mempool /\ t.number = accountSeq + 1
    /\ mempool' = mempool \ {t}
    /\ accountSeq' = t.number
    /\ \/ /\ changesMade' = changesMade + 1
          /\ landed' = landed \cup {[call |-> t.call, number |-> t.number, value |-> changesMade + 1]}
       \/ /\ UNCHANGED changesMade
          /\ landed' = landed \cup {[call |-> t.call, number |-> t.number, value |-> 0]}
    /\ UNCHANGED task

TransactionDropped(t) ==
    /\ t \in mempool
    /\ mempool' = mempool \ {t}
    /\ UNCHANGED <<accountSeq, changesMade, landed, task>>

ServicesNext ==
    \/ \E c \in ServiceCall :
          \/ ZkMethod(c) \/ ReportMethod(c) \/ SubjectMethod(c)
          \/ ProofGenerated(c) \/ CredentialsListed(c) \/ SequenceRead(c) \/ Simulated(c)
          \/ SentAccepted(c) \/ SentIgnored(c) \/ SentRefused(c) \/ SentLost(c)
          \/ AnswerFails(c)
          \/ ResultFound(c) \/ ResultMissing(c) \/ ValueSimulated(c) \/ PercentileRead(c)
    \/ \E t \in mempool : TransactionLands(t) \/ TransactionDropped(t)

ServicesSpec == ServicesInit /\ [][ServicesNext]_serviceVars

-----------------------------------------------------------------------------
\* A call makes no more changes than it sent, and none when its submission was refused
\* with an error or it failed before; a value that is returned counts the call's own change
\* and every change made before it began, whether or not the transaction was found.
CallsReported ==
    \A c \in ServiceCall :
        /\ Cardinality({t \in landed : t.call = c}) <= task[c].sends
        /\ task[c].at = "refused" => \A t \in landed : t.call # c
        /\ task[c].kind \in {"valued", "breakdown"} /\ task[c].at = "returned" =>
              task[c].value > task[c].before
=============================================================================
