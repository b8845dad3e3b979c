--------------------------------- MODULE MCSdk ---------------------------------
(***************************************************************************)
(* The connections, retries and caches of the SDK, checked side by side.   *)
(* These modules share no state, so one of them, chosen at the start,      *)
(* takes all the steps: the states of the run are those of one module or   *)
(* another, never their product.                                           *)
(***************************************************************************)
EXTENDS RetryBreaker, RegistryClients, EventConnection, EventDelivery, CredentialVerdicts,
        ClientReads, GdprConsents, DidEdits

VARIABLE active         \* the module that takes the steps

sdkVars == <<active, breakerVars, clientVars, vars, deliveryVars, verdictVars, readVars,
             consentVars, editVars>>

InitSdk ==
    /\ active \in {"breaker", "clients", "connection", "delivery", "verdicts", "reads",
                    "consents", "edits"}
    /\ BreakerInit /\ ClientsInit /\ Init /\ DeliveryInit
    /\ VerdictsInit /\ ReadsInit /\ ConsentsInit /\ EditsInit
    \* What the others could choose is fixed.
    /\ active # "delivery" => kind = [s \in Sub |-> "plain"]
    /\ active # "verdicts" => readable

NextSdk ==
    /\ UNCHANGED active
    /\ \/ /\ active = "breaker" /\ BreakerNext
          /\ UNCHANGED <<clientVars, vars, deliveryVars, verdictVars, readVars, consentVars,
                         editVars>>
       \/ /\ active = "clients" /\ ClientsNext
          /\ UNCHANGED <<breakerVars, vars, deliveryVars, verdictVars, readVars,
                         consentVars, editVars>>
       \/ /\ active = "connection" /\ Next
          /\ UNCHANGED <<breakerVars, clientVars, deliveryVars, verdictVars, readVars,
                         consentVars, editVars>>
       \/ /\ active = "delivery" /\ DeliveryNext
          /\ UNCHANGED <<breakerVars, clientVars, vars, verdictVars, readVars, consentVars,
                         editVars>>
       \/ /\ active = "verdicts" /\ VerdictsNext
          /\ UNCHANGED <<breakerVars, clientVars, vars, deliveryVars, readVars, consentVars,
                         editVars>>
       \/ /\ active = "reads" /\ ReadsNext
          /\ UNCHANGED <<breakerVars, clientVars, vars, deliveryVars, verdictVars,
                         consentVars, editVars>>
       \/ /\ active = "consents" /\ ConsentsNext
          /\ UNCHANGED <<breakerVars, clientVars, vars, deliveryVars, verdictVars, readVars,
                         editVars>>
       \/ /\ active = "edits" /\ EditsNext
          /\ UNCHANGED <<breakerVars, clientVars, vars, deliveryVars, verdictVars, readVars,
                         consentVars>>

-----------------------------------------------------------------------------
\* Callers keep calling, attempts are answered, sleeps end and the reset timeout passes.
BreakerFairness ==
    /\ \A c \in Call :
          /\ WF_breakerVars(active = "breaker" /\ Admit(c))
          /\ WF_breakerVars(active = "breaker" /\ Answered(c))
          /\ WF_breakerVars(active = "breaker" /\ SleepEnds(c))
    /\ WF_breakerVars(active = "breaker" /\ ResetTimeoutPasses)

\* The fairness of EventConnection.
ConnectionFairness ==
    /\ \A s \in Socket :
          /\ WF_vars(active = "connection" /\ SocketOpens(s))
          /\ WF_vars(active = "connection" /\ CloseCompletes(s))
    /\ WF_vars(active = "connection" /\ Tick)
    /\ WF_vars(active = "connection" /\ Pong)
    /\ WF_vars(active = "connection" /\ PongMissing)
    /\ WF_vars(active = "connection" /\ ReconnectFires)

\* Entries of the caches grow old, and a batch timer that runs ticks.
FairnessSdk ==
    /\ BreakerFairness
    /\ ConnectionFairness
    /\ \A c \in Cache : WF_clientVars(active = "clients" /\ TtlPasses(c))
    /\ \A s \in Sub : WF_deliveryVars(active = "delivery" /\ BatchTick(s))
    /\ WF_verdictVars(active = "verdicts" /\ VerdictExpires)

SpecSdk == InitSdk /\ [][NextSdk]_sdkVars /\ FairnessSdk
=============================================================================
