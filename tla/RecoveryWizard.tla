----------------------------- MODULE RecoveryWizard -----------------------------
(***************************************************************************)
(* The recovery wizard of the web interface                                *)
(* (src/ui/src/components/DIDRecoveryWizard.tsx): four steps, each with    *)
(* one request to the SDK, while the user goes back, changes the DID and   *)
(* changes the method.  A request carries what was on the screen when it   *)
(* was sent; its answer sets the step whatever is on the screen then.      *)
(* What the SDK answers is external.                                       *)
(***************************************************************************)
EXTENDS Naturals

CONSTANTS
    WizardDid,          \* what may be entered, the empty text left out
    Method,             \* recovery methods
    KeyMethod,          \* the one by recovery key
    Threshold,          \* approvals needed, the same for every DID
    NoChoice

ASSUME WizardAssumption ==
    /\ KeyMethod \in Method
    /\ NoChoice \notin WizardDid \cup Method
    /\ Threshold \in Nat \ {0}

VARIABLES
    step, did, method,  \* did and method may be NoChoice: none entered, none selected
    recoveryConfig,     \* the DID it was loaded for and the approvals it shows
    request,            \* the request in flight: its kind, or "none", and what it carries
    recovered,          \* recoveredDid is set
    spinner,            \* loading
    approvedFor,        \* history: the DID and method last approved for
    strayed             \* history: DID or method changed while a request was in flight

wizardVars ==
    <<step, did, method, recoveryConfig, request, recovered, spinner, approvedFor, strayed>>

NoConfig == [did |-> NoChoice, approvals |-> 0]
NoRequest == [kind |-> "none", did |-> NoChoice, method |-> NoChoice]

WizardInit ==
    /\ step = "identify"
    /\ did = NoChoice /\ method = NoChoice
    /\ recoveryConfig = NoConfig
    /\ request = NoRequest
    /\ recovered = FALSE
    /\ spinner = FALSE
    /\ approvedFor = <<NoChoice, NoChoice>>
    /\ strayed = FALSE

-----------------------------------------------------------------------------
(* What the user does. *)

ShowStep(s) ==
    /\ step' = s
    /\ UNCHANGED <<did, method, recoveryConfig, request, recovered, spinner, approvedFor, strayed>>

EnterDid(d) ==
    /\ step = "identify"
    /\ did' = d
    /\ strayed' = (strayed \/ (request # NoRequest /\ d # did))
    /\ UNCHANGED <<step, method, recoveryConfig, request, recovered, spinner, approvedFor>>

\* Fault: the methods stay on the screen once one is confirmed (ExecutesWhatWasApproved).
MethodSteps_All == {"select-method", "gather-approvals", "execute"}
MethodSteps == {"select-method"}

SelectMethod(m) ==
    /\ step \in MethodSteps /\ recoveryConfig # NoConfig
    /\ method' = m
    /\ strayed' = (strayed \/ (request # NoRequest /\ m # method))
    /\ UNCHANGED <<step, did, recoveryConfig, request, recovered, spinner, approvedFor>>

ConfirmMethod ==
    /\ step = "select-method" /\ method # NoChoice
    /\ ShowStep("gather-approvals")

\* None of the Back buttons is disabled while a request is in flight.
Back ==
    \/ step = "select-method" /\ ShowStep("identify")
    \/ step = "gather-approvals" /\ ShowStep("select-method")
    \/ step = "execute" /\ ~recovered /\ ShowStep("gather-approvals")

Send(kind) ==
    /\ ~spinner /\ spinner' = TRUE
    /\ request' = [kind |-> kind, did |-> did, method |-> method]
    /\ UNCHANGED <<step, did, method, recoveryConfig, recovered, approvedFor, strayed>>

Identify == step = "identify" /\ did # NoChoice /\ Send("identify")

\* Without a recovery key handleApprove returns, through its finally.
Approve == step = "gather-approvals" /\ recoveryConfig # NoConfig /\ method # NoChoice /\ Send("approve")

\* handleExecute: too few approvals are an error, but not for a recovery key.
Execute ==
    /\ step = "execute" /\ ~recovered
    /\ recoveryConfig # NoConfig /\ method # NoChoice
    /\ method = KeyMethod \/ recoveryConfig.approvals >= Threshold
    /\ Send("execute")

-----------------------------------------------------------------------------
(* Answers. *)

Answer == request' = NoRequest /\ spinner' = FALSE

Identified(approvals) ==
    /\ request.kind = "identify" /\ Answer
    /\ recoveryConfig' = [did |-> request.did, approvals |-> approvals]
    /\ step' = "select-method"
    /\ UNCHANGED <<did, method, recovered, approvedFor, strayed>>

\* The configuration read again may be missing; the step changes all the same.
Approved(approvals) ==
    /\ request.kind = "approve" /\ Answer
    /\ recoveryConfig' \in {recoveryConfig, [did |-> request.did, approvals |-> approvals]}
    /\ step' = "execute"
    /\ approvedFor' = <<request.did, request.method>>
    /\ UNCHANGED <<did, method, recovered, strayed>>

Executed ==
    /\ request.kind = "execute" /\ Answer
    /\ recovered' = TRUE
    /\ UNCHANGED <<step, did, method, recoveryConfig, approvedFor, strayed>>

\* An error, a DID that is not found, or one without a recovery configuration.
RequestRejected ==
    /\ request # NoRequest /\ Answer
    /\ UNCHANGED <<step, did, method, recoveryConfig, recovered, approvedFor, strayed>>

WizardNext ==
    \/ \E d \in WizardDid \cup {NoChoice} : EnterDid(d)
    \/ \E m \in Method : SelectMethod(m)
    \/ ConfirmMethod \/ Back \/ Identify \/ Approve \/ Execute
    \/ \E n \in 0 .. Threshold : Identified(n) \/ Approved(n)
    \/ Executed \/ RequestRejected

WizardSpec == WizardInit /\ [][WizardNext]_wizardVars

-----------------------------------------------------------------------------
\* A recovery is executed for the DID whose approvals are on the screen and by the method
\* last approved for, however the user went back and forth, unless the DID or the method
\* was changed while an answer was awaited; and the buttons come back when it is there.
ExecutesWhatWasApproved ==
    /\ request.kind = "execute" /\ ~strayed =>
          /\ request.did = recoveryConfig.did
          /\ approvedFor = <<request.did, request.method>>
    /\ spinner <=> request # NoRequest
=============================================================================
