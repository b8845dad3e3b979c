------------------------------- MODULE Screening -------------------------------
(***************************************************************************)
(* Sanctions lists, risk scores and screenings: the ComplianceFilter       *)
(* contract (src/src/compliance_filter.rs) and the ComplianceClient of the *)
(* SDK (src/sdk/src/compliance.ts), which screens by simulation.  A call   *)
(* of the contract that returns an error is rolled back, with what it had  *)
(* stored; a screening that refuses leaves no trace.  The SDK tells the    *)
(* refusals apart by the text of the error.                                *)
(*                                                                         *)
(* Who may change the lists and the scores, rules and weights are left     *)
(* out.  Of the audit trail the times are kept: one entry per party and    *)
(* timestamp, that of the first action.                                    *)
(***************************************************************************)
EXTENDS Naturals, FiniteSets

CONSTANTS
    Party, List,
    Score,              \* scores that oracles give
    ScreenCall,         \* calls of the ComplianceClient
    Staleness,          \* ORACLE_STALENESS_SECS, in ticks
    MaxScreenTime,      \* bound: ticks of the ledger's clock
    MaxUpdates          \* bound: calls that change the contract's state

ASSUME ScreeningAssumption ==
    /\ Score \subseteq 0 .. 100
    /\ Staleness \in Nat /\ MaxScreenTime \in Nat /\ MaxUpdates \in Nat

VARIABLES
    lists,              \* per list: whether it is known, whether it is active, its entries
    stored,             \* per party: at most one screening result
    trail,              \* per party: the timestamps of its audit entries
    ledgerNow, updates,
    said,               \* history: what oracles last said of each party, and when
    screens             \* per call of the client: whether it is to give a proof of not being
                        \* sanctioned, what it awaits, its answers

screenVars == <<lists, stored, trail, ledgerNow, updates, said, screens>>

NotScreening == [kind |-> "none", at |-> "new", open |-> {}, answers |-> {}]

ScreenInit ==
    /\ lists = [l \in List |-> [known |-> FALSE, active |-> FALSE, entries |-> {}]]
    /\ stored = [p \in Party |-> {}]
    /\ trail = [p \in Party |-> {}]
    /\ ledgerNow = 1 /\ updates = 0
    /\ said = [p \in Party |-> [score |-> 0, at |-> 0]]
    /\ screens = [c \in ScreenCall |-> NotScreening]

Update == updates < MaxUpdates /\ updates' = updates + 1 /\ UNCHANGED <<ledgerNow, screens>>
Audit(parties) ==
    trail' = [p \in Party |-> IF p \in parties THEN trail[p] \cup {ledgerNow} ELSE trail[p]]

-----------------------------------------------------------------------------
(* The contract. *)

HIGH_RISK_THRESHOLD == 70
MAX_RISK_SCORE == 100

\* Creates the list, or makes it active again with the entries it had.
UpdateList(l) ==
    /\ lists' = [lists EXCEPT ![l].known = TRUE, ![l].active = TRUE]
    /\ UNCHANGED <<stored, trail, said>>

LoadListEntries(l) ==
    /\ lists[l].known
    /\ \E entries \in SUBSET Party : lists' = [lists EXCEPT ![l].entries = entries]
    /\ UNCHANGED <<stored, trail, said>>

AddToSanctionsList(l, p) ==
    /\ lists[l].known /\ lists[l].active /\ p \notin lists[l].entries
    /\ lists' = [lists EXCEPT ![l].entries = @ \cup {p}]
    /\ Audit({p})
    /\ UNCHANGED <<stored, said>>

\* Also into a list that is not active.
BatchAddToSanctionsList(l, parties) ==
    /\ lists[l].known
    /\ lists' = [lists EXCEPT ![l].entries = @ \cup parties]
    /\ Audit(parties \ lists[l].entries)
    /\ UNCHANGED <<stored, said>>

RemoveFromSanctionsList(l, p) ==
    /\ lists[l].known /\ p \in lists[l].entries
    /\ lists' = [lists EXCEPT ![l].entries = @ \ {p}]
    /\ Audit({p})
    /\ UNCHANGED <<stored, said>>

DeactivateSanctionsList(l) ==
    /\ lists[l].known
    /\ lists' = [lists EXCEPT ![l].active = FALSE]
    /\ UNCHANGED <<stored, trail, said>>

UpdateRiskScore(p, score) ==
    /\ stored' = [stored EXCEPT ![p] = {[score |-> score, at |-> ledgerNow]}]
    /\ said' = [said EXCEPT ![p] = [score |-> score, at |-> ledgerNow]]
    /\ Audit({p})
    /\ UNCHANGED lists

Blocked(p) == \E l \in List : lists[l].active /\ p \in lists[l].entries
FreshResult(p) == {s \in stored[p] : ledgerNow - s.at <= Staleness}
Merged(p) == IF Blocked(p) THEN MAX_RISK_SCORE
             ELSE IF FreshResult(p) = {} THEN 0 ELSE (CHOOSE s \in FreshResult(p) : TRUE).score

Refusal(p) ==
    IF Blocked(p) \/ Merged(p) >= MAX_RISK_SCORE THEN "AddressBlocked"
    ELSE IF Merged(p) > HIGH_RISK_THRESHOLD THEN "HighRisk" ELSE "none"

\* Fault: what a refused screening stored is kept (AlarmsExact).
Commits_Refused(p) == TRUE
Commits(p) == Refusal(p) = "none"

\* The score counts anew from then on: one that is not refused stays as long as screenings
\* follow each other in time, one that is refused does not.
ScreenOnLedger(p) ==
    /\ Commits(p)
    /\ stored' = [stored EXCEPT ![p] = {[score |-> Merged(p), at |-> ledgerNow]}]
    /\ Audit({p})
    /\ UNCHANGED <<lists, said>>

\* At most one report per second and subject, and none in a second that has an audit entry.
FileReport(p) == Audit({p}) /\ UNCHANGED <<lists, stored, said>>

LedgerCall ==
    /\ Update
    /\ \/ \E l \in List :
             \/ UpdateList(l) \/ LoadListEntries(l) \/ DeactivateSanctionsList(l)
             \/ \E p \in Party : AddToSanctionsList(l, p) \/ RemoveFromSanctionsList(l, p)
             \/ BatchAddToSanctionsList(l, Party)
       \/ \E p \in Party :
             \/ \E score \in Score : UpdateRiskScore(p, score)
             \/ ScreenOnLedger(p) \/ FileReport(p)

TimeTicks ==
    /\ ledgerNow < MaxScreenTime
    /\ ledgerNow' = ledgerNow + 1
    /\ UNCHANGED <<lists, stored, trail, updates, said, screens>>

-----------------------------------------------------------------------------
(* The ComplianceClient. *)

ContractState == <<lists, stored, trail, ledgerNow, updates, said>>

Screens(c, kind, first, parties) ==
    /\ screens[c].at = "new"
    /\ screens' = [screens EXCEPT ![c] =
          [kind |-> kind, at |-> first, open |-> parties, answers |-> {}]]
    /\ UNCHANGED ContractState

ScreenAddress(c, p) == Screens(c, "screening", "screen", {p})
\* screen_did, which the contract does not have, comes first.
ScreenDID(c, p) == Screens(c, "screening", "asked", {p})
ScreenTransaction(c, p, q) == Screens(c, "screening", "screen", {p, q})
\* The audit trail comes first.
GenerateComplianceReport(c, p) == Screens(c, "screening", "asked", {p})
ProveComplianceStatus(c, p) ==
    \E kind \in {"sanctions-clear", "screening"} : Screens(c, kind, "screen", {p})

\* What was asked first fails, or is of no use: get_regulatory_report is called with one
\* argument for two, so that a report has no history whatever the trail has.
AskedFails(c) ==
    /\ screens[c].at = "asked"
    /\ screens' = [screens EXCEPT ![c].at = "screen"]
    /\ UNCHANGED ContractState

\* The text of an error has the number of the refusal, and 1 perhaps somewhere else.
StatusOf(refusal, has1) ==
    IF refusal = "AddressBlocked" \/ has1 THEN "blocked"
    ELSE IF refusal = "HighRisk" THEN "suspicious" ELSE "clear"
ScoreOf(status) == CASE status = "blocked" -> 100 [] status = "suspicious" -> 80 [] OTHER -> 0

\* The answers, and history: what the contract held of the party at that moment.
ScreenAnswer(p, status, score, failed) ==
    [party |-> p, status |-> status, score |-> score, failed |-> failed,
     refusal |-> Refusal(p), listed |-> Blocked(p), merged |-> Merged(p)]

Receives(c, p, answer) ==
    /\ p \in screens[c].open /\ screens[c].at = "screen"
    /\ screens' = [screens EXCEPT ![c].open = @ \ {p}, ![c].answers = @ \cup {answer}]
    /\ UNCHANGED ContractState

ScreeningSimulated(c, p) ==
    IF Refusal(p) = "none"
    THEN Receives(c, p, ScreenAnswer(p, "clear", Merged(p), FALSE))
    ELSE \E has1 \in BOOLEAN :
            LET status == StatusOf(Refusal(p), has1) IN
            Receives(c, p, ScreenAnswer(p, status, ScoreOf(status), FALSE))

\* The request fails with some text: perhaps one with 1 or 2 in it, and clear otherwise.
ScreeningFails(c, p) ==
    \E status \in {"blocked", "suspicious", "clear"} :
        Receives(c, p, ScreenAnswer(p, status, ScoreOf(status), TRUE))

ScreenReturns(c) ==
    /\ screens[c].at = "screen" /\ screens[c].open = {}
    /\ screens' = [screens EXCEPT ![c].at =
          IF /\ screens[c].kind = "sanctions-clear"
             /\ \E a \in screens[c].answers : a.status = "blocked"
          THEN "threw" ELSE "returned"]
    /\ UNCHANGED ContractState

ScreenNext ==
    \/ LedgerCall \/ TimeTicks
    \/ \E c \in ScreenCall :
          \/ \E p \in Party :
                \/ ScreenAddress(c, p) \/ ScreenDID(c, p) \/ GenerateComplianceReport(c, p)
                \/ ProveComplianceStatus(c, p) \/ \E q \in Party : ScreenTransaction(c, p, q)
                \/ ScreeningSimulated(c, p) \/ ScreeningFails(c, p)
          \/ AskedFails(c) \/ ScreenReturns(c)

ScreenSpec == ScreenInit /\ [][ScreenNext]_screenVars

-----------------------------------------------------------------------------
\* Whatever is screened, stored again and forgotten: the contract refuses exactly who is on
\* an active list or was last given more than 70 by an oracle, no longer ago than the data
\* count; whom it does not refuse it gives no score but the oracles' last or none; and when
\* a kept score was stored the audit trail tells.  Of the SDK, when its requests do not fail:
\* nobody is clear whom the contract refuses at that moment or the other way round, a clear
\* one has the contract's score, and a proof of not being sanctioned is made for nobody on a
\* list then.
AlarmsExact ==
    /\ \A p \in Party :
          /\ Refusal(p) # "none" <=>
                \/ Blocked(p)
                \/ said[p].score > HIGH_RISK_THRESHOLD /\ ledgerNow - said[p].at <= Staleness
          /\ ~Blocked(p) => Merged(p) \in {0, said[p].score}
          /\ \A s \in stored[p] : s.at \in trail[p]
    /\ \A c \in ScreenCall : \A a \in screens[c].answers :
          ~a.failed =>
              /\ a.status = "clear" <=> a.refusal = "none"
              /\ a.status = "clear" => a.score = a.merged
              /\ (screens[c].kind = "sanctions-clear" /\ screens[c].at = "returned") => ~a.listed
=============================================================================
