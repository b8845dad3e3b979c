--------------------------- MODULE UpgradeGovernance ---------------------------
(***************************************************************************)
(* The ContractUpgradeGovernance contract                                  *)
(* (src/src/contract_upgrade_governance.rs) from initialize on: governors  *)
(* vote on proposals, each with the power it was registered with, a        *)
(* proposal is decided by the vote that completes its quorum or comes in   *)
(* the last second, and executed after a time lock and before a deadline.  *)
(*                                                                         *)
(* Titles, hashes, types and the admin's identity are left out: register,  *)
(* remove, configure, pause and roll back are the admin's calls.  A call   *)
(* that returns an error is rolled back, and so never leaves a proposal    *)
(* Expired.  No call but a vote decides anything: what is undecided when   *)
(* its voting ends stays Active.                                           *)
(***************************************************************************)
EXTENDS Naturals, Sequences, FiniteSetsExt

CONSTANTS
    Governor,
    Power,              \* voting powers the admin gives
    VotingPeriods, TimeLocks, Quorums, Approvals,   \* what update_config may be given
    MinTimelock,        \* MIN_TIMELOCK_SECS, in ticks
    MAX_GOVERNORS,      \* governors that can be registered, those of initialize included
    MaxProposals,       \* MAX_PROPOSALS
    Grace,              \* the seven days after which an execution is refused
    MaxClock,           \* bound: ticks of the ledger's clock
    MaxGovCalls         \* bound: calls that change the contract's state

ASSUME GovernanceAssumption ==
    /\ Power \subseteq Nat /\ VotingPeriods \subseteq Nat /\ TimeLocks \subseteq Nat
    /\ Quorums \subseteq 0 .. 10000 /\ Approvals \subseteq 0 .. 10000
    /\ \A lock \in TimeLocks : lock >= MinTimelock
    /\ MinTimelock \in Nat /\ MAX_GOVERNORS \in Nat /\ MaxProposals \in Nat /\ Grace \in Nat
    /\ MaxClock \in Nat /\ MaxGovCalls \in Nat

ASSUME GovernorAssumption == IsFiniteSet(Governor)

VARIABLES
    governors,          \* per address: its power, and whether it is active, once registered
    governorIndex,      \* length of the list of governors, the removed ones included
    govConfig,
    proposals,          \* by id, from 1
    votes,              \* per proposal: the votes, by governor
    simulations,        \* per proposal: the last result recorded by anybody, if any
    snapshots,          \* per proposal executed: when
    paused,
    clock, govCalls,
    terms               \* history: per decided proposal: the time, configuration and number
                        \* of governors it was decided with

govVars == <<governors, governorIndex, govConfig, proposals, votes, simulations, snapshots,
             paused, clock, govCalls, terms>>

Config == [period : VotingPeriods, lock : TimeLocks, quorum : Quorums, approval : Approvals]
VoteType == {"for", "against", "abstain"}
Proposal == DOMAIN proposals
Unknown == [power |-> 0, active |-> FALSE, known |-> FALSE]

\* After initialize, whose list may name a governor twice.
GovInit ==
    /\ \E initial \in (SUBSET Governor) \ {{}}, twice \in 0 .. 1 :
          /\ governors = [g \in Governor |-> IF g \in initial
                            THEN [power |-> 1, active |-> TRUE, known |-> TRUE] ELSE Unknown]
          /\ governorIndex = Cardinality(initial) + twice
    /\ govConfig \in Config
    /\ proposals = <<>> /\ votes = <<>> /\ simulations = <<>> /\ snapshots = <<>>
    /\ paused = FALSE
    /\ clock = 0 /\ govCalls = 0
    /\ terms = <<>>

Called == govCalls < MaxGovCalls /\ govCalls' = govCalls + 1 /\ UNCHANGED clock

-----------------------------------------------------------------------------
(* The admin. *)

\* A governor that was removed is never registered again, and keeps its place in the list.
RegisterGovernor(g, power) ==
    /\ Called /\ governorIndex < MAX_GOVERNORS /\ ~governors[g].known
    /\ governors' = [governors EXCEPT ![g] = [power |-> power, active |-> TRUE, known |-> TRUE]]
    /\ governorIndex' = governorIndex + 1
    /\ UNCHANGED <<govConfig, proposals, votes, simulations, snapshots, paused, terms>>

RemoveGovernor(g) ==
    /\ Called /\ governors[g].known
    /\ governors' = [governors EXCEPT ![g].active = FALSE]
    /\ UNCHANGED <<governorIndex, govConfig, proposals, votes, simulations, snapshots, paused,
                   terms>>

UpdateGovConfig(c) ==
    /\ Called
    /\ govConfig' = c
    /\ UNCHANGED <<governors, governorIndex, proposals, votes, simulations, snapshots, paused,
                   terms>>

SetPaused(to) ==
    /\ Called
    /\ paused' = to
    /\ UNCHANGED <<governors, governorIndex, govConfig, proposals, votes, simulations,
                   snapshots, terms>>

-----------------------------------------------------------------------------
(* Proposals. *)

MayAct(g) == ~paused /\ governors[g].active

\* Fault: the time lock runs from the creation (GovernanceSound).
ExecutionTime_FromStart(c) == clock + c.lock
ExecutionTime(c) == clock + c.period + c.lock

\* A new proposal; a simulation must be recorded before one with a simulation hash runs.
Opened(execution, rollbackOf, hashed) ==
    /\ proposals' = Append(proposals,
          [start |-> clock, end |-> clock + govConfig.period, execution |-> execution,
           status |-> "Active", tally |-> [v \in VoteType |-> 0], rollbackOf |-> rollbackOf,
           hashed |-> hashed])
    /\ votes' = Append(votes, [g \in Governor |-> "none"])
    /\ simulations' = Append(simulations, "none")
    /\ snapshots' = Append(snapshots, {})
    /\ terms' = Append(terms, {})
    /\ UNCHANGED <<governors, governorIndex, govConfig, paused>>

CreateProposal(g, hashed) ==
    /\ Called /\ MayAct(g) /\ Len(proposals) < MaxProposals
    /\ Opened(ExecutionTime(govConfig), 0, hashed)

\* By the admin, for what was executed, any number of times and beyond MaxProposals; the lock
\* is the shortest one and runs while the votes are cast.
QueueRollback(p) ==
    /\ Called /\ ~paused /\ snapshots[p] # {}
    /\ Opened(clock + MinTimelock, p, FALSE)

Total(tally) == tally["for"] + tally["against"] + tally["abstain"]
Valid(tally) == tally["for"] + tally["against"]

\* maybe_finalize, for the votes as they are after the one just cast.  The quorum compares
\* powers with the number of addresses ever registered, and only before the last second.
Quorate(tally) == (Total(tally) * 10000) \div governorIndex >= govConfig.quorum
Decided(p, tally) == (clock < proposals[p].end => Quorate(tally)) /\ Valid(tally) > 0
Approved(tally) == (tally["for"] * 10000) \div Valid(tally) >= govConfig.approval

\* Fault: who has voted may vote again (SumsExact).
MayVote_Again(g, p) == proposals[p].status = "Active" /\ clock <= proposals[p].end
MayVote(g, p) ==
    /\ proposals[p].status = "Active" /\ clock <= proposals[p].end
    /\ votes[p][g] = "none"

CastVote(g, p, vote) ==
    /\ Called /\ MayAct(g) /\ MayVote(g, p)
    /\ votes' = [votes EXCEPT ![p][g] = vote]
    /\ LET tally == [proposals[p].tally EXCEPT ![vote] = @ + governors[g].power]
           status == IF ~Decided(p, tally) THEN "Active"
                     ELSE IF Approved(tally) THEN "Succeeded" ELSE "Defeated"
       IN  /\ proposals' = [proposals EXCEPT ![p].tally = tally, ![p].status = status]
           /\ terms' = IF status = "Active" THEN terms
                       ELSE [terms EXCEPT ![p] =
                               {[at |-> clock, config |-> govConfig, index |-> governorIndex]}]
    /\ UNCHANGED <<governors, governorIndex, govConfig, simulations, snapshots, paused>>

\* By anybody, paused or not.
RecordSimulation(p, result) ==
    /\ Called
    /\ simulations' = [simulations EXCEPT ![p] = result]
    /\ UNCHANGED <<governors, governorIndex, govConfig, proposals, votes, snapshots, paused,
                   terms>>

VerifySimulation(p) ==
    \/ simulations[p] = "success"
    \/ simulations[p] = "none" /\ ~proposals[p].hashed

\* The status is the last thing that changes: executed_at is never set.
ExecuteProposal(g, p) ==
    /\ Called /\ MayAct(g)
    /\ proposals[p].status = "Succeeded"
    /\ clock \in proposals[p].execution .. proposals[p].execution + Grace
    /\ VerifySimulation(p)
    /\ proposals' = [proposals EXCEPT ![p].status = "Executed"]
    /\ snapshots' = [snapshots EXCEPT ![p] = {clock}]
    /\ UNCHANGED <<governors, governorIndex, govConfig, votes, simulations, paused, terms>>

ClockAdvances ==
    /\ clock < MaxClock
    /\ clock' = clock + 1
    /\ UNCHANGED <<governors, governorIndex, govConfig, proposals, votes, simulations,
                   snapshots, paused, govCalls, terms>>

GovNext ==
    \/ \E g \in Governor :
          \/ \E power \in Power : RegisterGovernor(g, power)
          \/ RemoveGovernor(g)
          \/ \E hashed \in BOOLEAN : CreateProposal(g, hashed)
          \/ \E p \in Proposal :
                \/ \E vote \in VoteType : CastVote(g, p, vote)
                \/ ExecuteProposal(g, p)
    \/ \E c \in Config \ {govConfig} : UpdateGovConfig(c)
    \/ SetPaused(~paused)
    \/ \E p \in Proposal :
          \/ QueueRollback(p)
          \/ \E result \in {"success", "failure"} : RecordSimulation(p, result)
    \/ ClockAdvances

GovSpec == GovInit /\ [][GovNext]_govVars

-----------------------------------------------------------------------------
\* What the governors who voted v on p brought to its tally.
Cast(p, v) == [g \in Governor |-> IF votes[p][g] = v THEN governors[g].power ELSE 0]

\* The tally of a proposal is the votes on record, each counted once with the power of its
\* governor, whoever was registered or removed since (cast_vote).
Tallied == \A p \in Proposal, v \in VoteType : proposals[p].tally[v] = SumFunction(Cast(p, v))

\* A decision is that of the final tally under the terms of its moment, and, unless taken at
\* the very end, has the quorum of that moment.
DecidedFairly ==
    \A p \in Proposal : \A t \in terms[p] :
        /\ proposals[p].status \in {"Succeeded", "Executed"} <=>
              proposals[p].tally["for"] * 10000
                  >= t.config.approval * Valid(proposals[p].tally)
        /\ t.at < proposals[p].end =>
              Total(proposals[p].tally) * 10000 >= t.config.quorum * t.index

\* What is executed waited out the shortest lock, from the end of its voting or, for a
\* rollback, from its proposal; and what is rolled back was executed before.
LockedFirst ==
    \A p \in Proposal :
        LET original == proposals[p].rollbackOf
        IN  /\ \A at \in snapshots[p] :
                  at >= MinTimelock + IF original = 0 THEN proposals[p].end
                                      ELSE proposals[p].start
            /\ original # 0 =>
                  original < p /\ \E at \in snapshots[original] : at <= proposals[p].start

\* What is decided, or was not when its voting ended, keeps its votes, and its status but
\* for one execution.
DecisionsKept ==
    \A p \in Proposal :
        proposals[p].status # "Active" \/ clock > proposals[p].end =>
            /\ votes'[p] = votes[p] /\ proposals'[p].tally = proposals[p].tally
            /\ proposals'[p].status # proposals[p].status =>
                  proposals[p].status = "Succeeded" /\ proposals'[p].status = "Executed"

\* However governors come and go, terms change and calls are paused between the votes:
\* decisions are those of their votes and stand, and nothing runs before its lock
\* (cast_vote, maybe_finalize, execute_proposal, queue_rollback).
GovernanceSound ==
    [][DecidedFairly' /\ LockedFirst' /\ DecisionsKept]_govVars
=============================================================================
