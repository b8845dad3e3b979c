------------------------------ MODULE MCContracts ------------------------------
(***************************************************************************)
(* The rate limiter, the upgrade governance and the reputation oracle,     *)
(* checked side by side.  They share no state, so one of them, chosen at   *)
(* the start, takes all the steps.                                         *)
(***************************************************************************)
EXTENDS RateLimiter, UpgradeGovernance, ReputationOracle

ImpactsDef == {0 - 1, 0, 1}
FirstPeriod == CHOOSE p \in VotingPeriods : TRUE

VARIABLE active         \* the module that takes the steps

contractVars == <<active, vars, govVars, oracleVars>>

InitContracts ==
    /\ active \in {"limiter", "governance", "oracle"}
    /\ Init /\ GovInit /\ OracleInit
    \* What the others could choose is fixed.
    /\ active # "governance" =>
          /\ governorIndex = Cardinality(Governor) /\ (\A g \in Governor : governors[g].known)
          /\ govConfig.period = FirstPeriod

NextContracts ==
    /\ UNCHANGED active
    /\ \/ /\ active = "limiter" /\ Next
          /\ UNCHANGED <<govVars, oracleVars>>
       \/ /\ active = "governance" /\ GovNext
          /\ UNCHANGED <<vars, oracleVars>>
       \/ /\ active = "oracle" /\ OracleNext
          /\ UNCHANGED <<vars, govVars>>

SpecContracts == InitContracts /\ [][NextContracts]_contractVars

-----------------------------------------------------------------------------
\* What the contracts sum up as they go is the sum of its parts: the tally of a proposal that
\* of the votes on record, a subject's reputation that of what was applied to it
\* (cast_vote, apply_reputation_impact).
SumsExact == Tallied /\ CacheExact
=============================================================================
