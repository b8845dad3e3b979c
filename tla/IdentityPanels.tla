----------------------------- MODULE IdentityPanels -----------------------------
(***************************************************************************)
(* The React side of the web interface (src/ui/src): the session of        *)
(* hooks/useStellarIdentity.ts and one of its panels, a data hook of that  *)
(* file or a component, that loads data for the address of the session and *)
(* changes them.  Every request carries the address it was sent for, and   *)
(* requests end in any order, also after the address has changed.          *)
(*                                                                         *)
(* The data are known by the address they belong to.  Of error messages    *)
(* only whether one is shown is kept, and what a panel shows beside its    *)
(* main data (forms, verification results, circuits) is left out.  React   *)
(* runs the effects of a change of state in the same step.                 *)
(***************************************************************************)
EXTENDS Naturals, FiniteSets

CONSTANTS
    Address,
    NoAddress,
    Request,            \* requests in flight at once
    MaxMoves            \* bound: changes of the session

ASSUME PanelsAssumption == NoAddress \notin Address /\ MaxMoves \in Nat

VARIABLES
    panel,              \* which panel this is, chosen at the start
    autoConnect,        \* the session's option, chosen at the start
    account,            \* address
    storedSecret,       \* the address of the secret in localStorage
    shown,              \* whose data the panel shows
    loading, error,
    pending,            \* per request: what it does and for whom
    late,               \* history: the data shown came after the address had changed
    moves               \* counted for the bound

panelVars ==
    <<panel, autoConnect, account, storedSecret, shown, loading, error, pending, late, moves>>

Hook == {"useDID", "useCredentials", "useReputation", "useCompliance"}
Component == {"DIDManager", "CredentialWallet", "ProofRequest", "RegulatoryDashboard",
              "ComplianceCheck", "ReputationBadge"}

\* Fault: the load effect of the hooks does not name the address (PanelsSettle).
FollowsAddress_Components == Component \ {"RegulatoryDashboard", "ComplianceCheck"}
\* Whose load effect names the address: the dashboard loads again on a change of tab, the
\* compliance check follows an address of its own.
FollowsAddress == (Hook \cup Component) \ {"RegulatoryDashboard", "ComplianceCheck"}

\* The buttons are disabled, or not there, while loading is set.
Guarded == Component
Changing == (Hook \cup Component) \ {"useCompliance", "ComplianceCheck", "ReputationBadge"}
Refreshing == Hook \cup {"RegulatoryDashboard", "ComplianceCheck"}
\* A load takes an earlier error off the screen.
LoadClearsError == Hook \cup {"RegulatoryDashboard", "ComplianceCheck", "ReputationBadge"}

Nothing == [kind |-> "none", for |-> NoAddress]
InFlight == {q \in Request : pending[q] # Nothing}

PanelsInit ==
    /\ panel \in Hook \cup Component
    /\ autoConnect \in BOOLEAN
    /\ account = NoAddress /\ storedSecret = NoAddress
    /\ shown = NoAddress
    /\ loading = FALSE /\ error = FALSE
    /\ pending = [q \in Request |-> Nothing]
    /\ late = FALSE /\ moves = 0

-----------------------------------------------------------------------------
(* The panel as the address changes. *)

Blank ==
    /\ shown' = NoAddress /\ loading' = FALSE /\ error' = FALSE /\ late' = FALSE
    /\ pending' = [q \in Request |-> Nothing]

Unmoved == UNCHANGED <<shown, loading, error, pending, late>>

BeginLoad(q, a) ==
    /\ pending[q] = Nothing
    /\ pending' = [pending EXCEPT ![q] = [kind |-> "load", for |-> a]]
    /\ loading' = TRUE
    /\ error' = IF panel \in LoadClearsError THEN FALSE ELSE error
    /\ UNCHANGED <<shown, late>>

\* A new instance of the panel, its first load begun: answers for the one before are lost.
Mounted(a) ==
    \E q \in Request :
        /\ pending' = [r \in Request |-> IF r = q THEN [kind |-> "load", for |-> a] ELSE Nothing]
        /\ shown' = NoAddress /\ loading' = TRUE /\ error' = FALSE /\ late' = FALSE

\* The dashboard page has its components only while connected; a page with a hook keeps
\* it, and what it shows, without an address.
AddressBecomes(a) ==
    IF a = NoAddress THEN IF panel \in Component THEN Blank ELSE Unmoved
    ELSE IF panel \in Component /\ account = NoAddress THEN Mounted(a)
    ELSE IF panel \in FollowsAddress /\ a # account THEN \E q \in Request : BeginLoad(q, a)
    ELSE Unmoved

-----------------------------------------------------------------------------
(* useStellarIdentity *)

Move == moves < MaxMoves /\ moves' = moves + 1 /\ UNCHANGED <<panel, autoConnect>>

\* With a secret, which is stored, or with a random keypair, which leaves an earlier one.
Connect(a, secret) ==
    /\ Move
    /\ account' = a
    /\ storedSecret' = IF secret THEN a ELSE storedSecret
    /\ AddressBecomes(a)

Disconnect ==
    /\ Move
    /\ account' = NoAddress
    /\ storedSecret' = NoAddress
    /\ AddressBecomes(NoAddress)

AutoConnected == IF autoConnect THEN storedSecret ELSE NoAddress

\* The page is loaded again.
PageReload ==
    /\ Move
    /\ account' = AutoConnected
    /\ UNCHANGED storedSecret
    /\ IF AutoConnected = NoAddress THEN Blank ELSE Mounted(AutoConnected)

\* Another options.config: a new SDK without an account.  Its effect connects again in the
\* next render, so that components are there anew; a hook loads with the new SDK.
ConfigChanges ==
    /\ Move
    /\ account' = AutoConnected
    /\ UNCHANGED storedSecret
    /\ IF AutoConnected = NoAddress THEN AddressBecomes(NoAddress)
       ELSE IF panel \in Component THEN Mounted(AutoConnected)
       ELSE \E q \in Request : BeginLoad(q, AutoConnected)

-----------------------------------------------------------------------------
(* The panel as its user and its requests go on. *)

Session == UNCHANGED <<panel, autoConnect, account, storedSecret, moves>>

MayAct == account # NoAddress /\ (panel \in Guarded => ~loading)

\* A call of the hook's load function, a button, or another tab, which is not disabled.
Refresh(q) ==
    /\ panel \in Refreshing /\ account # NoAddress
    /\ MayAct \/ panel = "RegulatoryDashboard"
    /\ BeginLoad(q, account)
    /\ Session

\* The compliance check of an address typed in.
CheckOther(q, a) ==
    /\ panel = "ComplianceCheck" /\ MayAct
    /\ BeginLoad(q, a)
    /\ Session

\* A form with a field missing: handled, through the finally, without a request.
FormRefused ==
    /\ panel \in {"CredentialWallet", "ProofRequest"} /\ MayAct
    /\ error' = TRUE /\ loading' = FALSE
    /\ UNCHANGED <<shown, pending, late>>
    /\ Session

\* "change": followed by a load.  "final": deactivating, which leaves no data.  "other":
\* the data stay as they are, as for verifying, scheduling and exporting.
ChangeKind ==
    CASE panel = "DIDManager" -> {"change", "final"}
      [] panel \in {"ProofRequest", "RegulatoryDashboard"} -> {"change", "other"}
      [] OTHER -> {"change"}

BeginChange(q, k) ==
    /\ panel \in Changing /\ MayAct
    /\ pending[q] = Nothing /\ k \in ChangeKind
    /\ pending' = [pending EXCEPT ![q] = [kind |-> k, for |-> account]]
    /\ loading' = TRUE
    /\ error' = IF k = "other" /\ panel = "ProofRequest" THEN error ELSE FALSE
    /\ UNCHANGED <<shown, late>>
    /\ Session

Ended(q) == pending' = [pending EXCEPT ![q] = Nothing] /\ loading' = FALSE

\* The load that follows is of the function that made the change: for its address.
ChangeSucceeds(q) ==
    /\ pending[q].kind = "change"
    /\ pending' = [pending EXCEPT ![q].kind = "load"]
    /\ loading' = TRUE
    /\ error' = IF panel \in LoadClearsError THEN FALSE ELSE error
    /\ UNCHANGED <<shown, late>>
    /\ Session

EndSucceeds(q) ==
    /\ pending[q].kind \in {"final", "other"}
    /\ Ended(q)
    /\ shown' = IF pending[q].kind = "final" THEN NoAddress ELSE shown
    /\ UNCHANGED <<error, late>>
    /\ Session

ChangeFails(q) ==
    /\ pending[q].kind \in {"change", "final", "other"}
    /\ Ended(q) /\ error' = TRUE
    /\ UNCHANGED <<shown, late>>
    /\ Session

LoadSucceeds(q) ==
    /\ pending[q].kind = "load"
    /\ Ended(q)
    /\ shown' = pending[q].for
    /\ late' = (pending[q].for # account)
    /\ UNCHANGED error
    /\ Session

\* A DID that cannot be resolved may not exist yet: no data and no error.
LoadFails(q) ==
    /\ pending[q].kind = "load"
    /\ Ended(q)
    /\ IF panel = "DIDManager" THEN shown' = NoAddress /\ UNCHANGED error
       ELSE error' = TRUE /\ UNCHANGED shown
    /\ UNCHANGED late
    /\ Session

PanelsNext ==
    \/ \E a \in Address, secret \in BOOLEAN : Connect(a, secret)
    \/ Disconnect \/ PageReload \/ ConfigChanges
    \/ FormRefused
    \/ \E q \in Request :
          \/ Refresh(q) \/ \E a \in Address : CheckOther(q, a)
          \/ \E k \in {"change", "final", "other"} : BeginChange(q, k)
          \/ ChangeSucceeds(q) \/ EndSucceeds(q) \/ ChangeFails(q)
          \/ LoadSucceeds(q) \/ LoadFails(q)

PanelsSpec == PanelsInit /\ [][PanelsNext]_panelVars

-----------------------------------------------------------------------------
\* When no request is in flight, no spinner is left, and a panel that follows the address
\* shows data of the address now connected, nothing or an error, whatever was connected,
\* changed and answered in between, unless an answer came after the address had changed.
PanelsSettle ==
    InFlight = {} =>
        /\ ~loading
        /\ \/ panel \in {"RegulatoryDashboard", "ComplianceCheck"} \/ account = NoAddress
           \/ late \/ error
           \/ shown \in {account, NoAddress}
=============================================================================
