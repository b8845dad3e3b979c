---------------------------- MODULE ReputationOracle ----------------------------
(***************************************************************************)
(* The ReputationOracle contract (src/src/reputation_oracle.rs): oracles   *)
(* submit feeds about subjects, anybody has them applied to the subject's  *)
(* cached reputation, disputes them, and, as any caller passes for an      *)
(* admin, suspends, reactivates, deactivates and slashes oracles.          *)
(*                                                                         *)
(* Feeds are named by the ledger they were submitted in and disputes by    *)
(* their feed and ledger, so a later one of the ledger replaces an earlier *)
(* one.  Names, keys, payloads and signatures are left out, and so are the *)
(* lists, which name every record ever stored.                             *)
(***************************************************************************)
EXTENDS Integers, FiniteSetsExt

CONSTANTS
    Oracle, Subject, Disputer,
    Impacts,            \* of feeds
    Penalties,          \* that slash_oracle may be given; SLASHING_PENALTY among them
    SlashesBeforeSuspend,   \* MAX_SLASHES_BEFORE_SUSPEND
    MaxLedger,          \* bound: ledgers closed
    MaxOracleCalls      \* bound: calls that change the contract's state

ASSUME OracleAssumption ==
    /\ Impacts \subseteq Int /\ Penalties \subseteq Nat /\ SlashesBeforeSuspend \in Nat \ {0}
    /\ MaxLedger \in Nat /\ MaxOracleCalls \in Nat

ASSUME OraclesFinite == IsFiniteSet(Oracle)

VARIABLES
    oracles,            \* the records of the registered oracles
    feeds, disputes,    \* as stored, by ledger and by feed and ledger
    reputationCache,    \* per subject: the impacts applied
    ledger, oracleCalls,
    applied,            \* history: the impacts applied, per subject and submission of an oracle
    pardoned            \* history: the oracles reactivated since they were last slashed

oracleVars == <<oracles, feeds, disputes, reputationCache, ledger, oracleCalls,
                applied, pardoned>>

BaseReputation == 5000
MaxReputation == 10000
SlashingPenalty == 500
\* A map whose entry for x is y, whether or not it had one (env.storage().persistent().set).
Stored(map, x, y) == [z \in DOMAIN map \cup {x} |-> IF z = x THEN y ELSE map[z]]

AtMost(limit, n) == IF n > limit THEN limit ELSE n
AtLeastZero(n) == IF n < 0 THEN 0 ELSE n

OracleInit ==
    /\ oracles = [o \in {} |-> 0] /\ feeds = [l \in {} |-> 0] /\ disputes = [d \in {} |-> 0]
    /\ reputationCache = [s \in Subject |-> 0]
    /\ ledger = 0 /\ oracleCalls = 0
    /\ applied = [s \in Subject |-> [key \in Oracle \X (1 .. MaxOracleCalls) |-> 0]]
    /\ pardoned = {}

OracleCalled ==
    /\ oracleCalls < MaxOracleCalls
    /\ oracleCalls' = oracleCalls + 1
    /\ UNCHANGED ledger

-----------------------------------------------------------------------------
(* Feeds. *)

RegisterOracle(o) ==
    /\ OracleCalled /\ o \notin DOMAIN oracles
    /\ oracles' = Stored(oracles, o, [status |-> "Active", reputation |-> BaseReputation,
                                      total |-> 0, successful |-> 0, disputed |-> 0])
    /\ UNCHANGED <<feeds, disputes, reputationCache, applied, pardoned>>

IsActive(o) == o \in DOMAIN oracles /\ oracles[o].status = "Active"

\* "serial" is history: which submission of its oracle the feed is.
NewFeed(o, s, impact) ==
    [oracle |-> o, subject |-> s, impact |-> impact, processed |-> FALSE,
     serial |-> oracles[o].total + 1]

\* The oracle's record once a feed was applied; one without impact does not count.
Credited(record, impact) ==
    CASE impact > 0 -> [record EXCEPT !.reputation = AtMost(MaxReputation, @ + 10),
                                      !.successful = @ + 1]
      [] impact < 0 -> [record EXCEPT !.reputation = AtLeastZero(@ - 5), !.successful = @ + 1]
      [] OTHER -> record

\* Fault: the feed is not marked as processed (SumsExact).
Processed_Unmarked(feed) == feed
Processed(feed) == [feed EXCEPT !.processed = TRUE]

\* The feed is stored in ledger l as processed, and its impact applied.
Apply(l, feed, record) ==
    /\ feeds' = Stored(feeds, l, Processed(feed))
    /\ oracles' = [oracles EXCEPT ![feed.oracle] = Credited(record, feed.impact)]
    /\ reputationCache' = [reputationCache EXCEPT ![feed.subject] = @ + feed.impact]
    /\ applied' = [applied EXCEPT ![feed.subject][<<feed.oracle, feed.serial>>] = feed.impact]

Submitted(o) == [oracles[o] EXCEPT !.total = @ + 1]

SubmitDataFeed(o, s, impact) ==
    /\ OracleCalled /\ IsActive(o)
    /\ feeds' = Stored(feeds, ledger, NewFeed(o, s, impact))
    /\ oracles' = [oracles EXCEPT ![o] = Submitted(o)]
    /\ UNCHANGED <<disputes, reputationCache, applied, pardoned>>

ProcessDataFeed(l) ==
    /\ OracleCalled
    /\ ~feeds[l].processed /\ IsActive(feeds[l].oracle)
    /\ Apply(l, feeds[l], oracles[feeds[l].oracle])
    /\ UNCHANGED <<disputes, pardoned>>

SubmitAndProcess(o, s, impact) ==
    /\ OracleCalled /\ IsActive(o)
    /\ Apply(ledger, NewFeed(o, s, impact), Submitted(o))
    /\ UNCHANGED <<disputes, pardoned>>

-----------------------------------------------------------------------------
(* Oracles' status. *)

\* suspend_oracle and deactivate_oracle, from any status.
SetOracleStatus(o, status) ==
    /\ OracleCalled
    /\ oracles' = [oracles EXCEPT ![o].status = status]
    /\ UNCHANGED <<feeds, disputes, reputationCache, applied, pardoned>>

ReactivateOracle(o) ==
    /\ OracleCalled /\ oracles[o].status = "Suspended"
    /\ oracles' = [oracles EXCEPT ![o].status = "Active"]
    /\ pardoned' = pardoned \cup {o}
    /\ UNCHANGED <<feeds, disputes, reputationCache, applied>>

\* Fault: the slash at hand is not counted yet (OraclesAccountable).
TooOften_BeforeCount(record) == record.disputed >= SlashesBeforeSuspend
TooOften(record) == record.disputed + 1 >= SlashesBeforeSuspend

\* A deactivated oracle slashed often enough is Suspended again.
Slash(o, penalty) ==
    /\ oracles' = [oracles EXCEPT
          ![o].reputation = AtLeastZero(@ - penalty),
          ![o].disputed = @ + 1,
          ![o].status = IF TooOften(oracles[o]) THEN "Suspended" ELSE @]
    /\ pardoned' = pardoned \ {o}

SlashOracle(o, penalty) ==
    /\ OracleCalled
    /\ Slash(o, penalty)
    /\ UNCHANGED <<feeds, disputes, reputationCache, applied>>

-----------------------------------------------------------------------------
(* Disputes. *)

FileDispute(who, l) ==
    /\ OracleCalled
    /\ ~\E d \in DOMAIN disputes : disputes[d].feed = l /\ disputes[d].disputer = who
    /\ disputes' = Stored(disputes, <<l, ledger>>,
          [feed |-> l, disputer |-> who, status |-> "Filed", oracle |-> feeds[l].oracle])
    /\ UNCHANGED <<oracles, feeds, reputationCache, applied, pardoned>>

ResolveDispute(d, uphold) ==
    /\ OracleCalled /\ disputes[d].status = "Filed"
    /\ disputes' = [disputes EXCEPT ![d].status = IF uphold THEN "Resolved" ELSE "Dismissed"]
    /\ IF uphold THEN Slash(disputes[d].oracle, SlashingPenalty)
       ELSE UNCHANGED <<oracles, pardoned>>
    /\ UNCHANGED <<feeds, reputationCache, applied>>

LedgerCloses ==
    /\ ledger < MaxLedger
    /\ ledger' = ledger + 1
    /\ UNCHANGED <<oracles, feeds, disputes, reputationCache, oracleCalls, applied,
                   pardoned>>

OracleNext ==
    \/ \E o \in Oracle : RegisterOracle(o)
    \/ \E o \in DOMAIN oracles :
          \/ \E s \in Subject, impact \in Impacts :
                SubmitDataFeed(o, s, impact) \/ SubmitAndProcess(o, s, impact)
          \/ \E status \in {"Suspended", "Deactivated"} : SetOracleStatus(o, status)
          \/ ReactivateOracle(o)
          \/ \E penalty \in Penalties : SlashOracle(o, penalty)
    \/ \E l \in DOMAIN feeds :
          \/ ProcessDataFeed(l)
          \/ \E who \in Disputer : FileDispute(who, l)
    \/ \E d \in DOMAIN disputes, uphold \in BOOLEAN : ResolveDispute(d, uphold)
    \/ LedgerCloses

OracleSpec == OracleInit /\ [][OracleNext]_oracleVars

-----------------------------------------------------------------------------
\* A subject's cached reputation is the sum of what was applied to it, each submission at most
\* once, whatever replaced it, whenever it was processed and whatever became of its oracle
\* (submit_data_feed, process_data_feed, submit_and_process).
CacheExact == \A s \in Subject : reputationCache[s] = SumFunction(applied[s])

\* Every dispute upheld against an oracle has cost it a slash; and, slashed too often, it is
\* Active only if somebody reactivated it after the last time.
SlashesCounted ==
    \A o \in DOMAIN oracles :
        /\ oracles[o].disputed >= Cardinality({d \in DOMAIN disputes :
                disputes[d].oracle = o /\ disputes[d].status = "Resolved"})
        /\ oracles[o].disputed >= SlashesBeforeSuspend /\ oracles[o].status = "Active" =>
              o \in pardoned
        /\ oracles[o].successful <= oracles[o].total

\* The dispute and the feed of a closed ledger keep their parties, and are settled and
\* applied once; nobody has two disputes of one feed.
RecordsKept ==
    /\ \A l \in DOMAIN feeds : l < ledger =>
          feeds'[l] \in {feeds[l], [feeds[l] EXCEPT !.processed = TRUE]}
    /\ \A d \in DOMAIN disputes : d[2] < ledger =>
          \/ disputes'[d] = disputes[d]
          \/ /\ disputes[d].status = "Filed"
             /\ \E status \in {"Resolved", "Dismissed"} :
                   disputes'[d] = [disputes[d] EXCEPT !.status = status]
    /\ \A d, e \in DOMAIN disputes' :
          disputes'[d].feed = disputes'[e].feed /\ disputes'[d].disputer = disputes'[e].disputer
              => d = e

\* Over feeds replaced, processed late and disputed, and oracles suspended and reactivated in
\* between, slashes count every dispute upheld, feeds are applied and disputes settled once
\* (process_data_feed, slash_oracle, file_dispute, resolve_dispute).
OraclesAccountable ==
    [][SlashesCounted' /\ RecordsKept]_oracleVars
=============================================================================
