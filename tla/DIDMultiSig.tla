----------------------------- MODULE DIDMultiSig -----------------------------
(***************************************************************************)
(* The multi-signature operations of the DIDRegistry contract              *)
(* (src/src/did_registry.rs, #93): a controller names the signers of its   *)
(* DID and a threshold, a signer proposes an operation, signers approve it *)
(* and anybody executes it.                                                *)
(*                                                                         *)
(* An operation id is "op:<timestamp>:<sequence>", so the ledger time      *)
(* stands for it.  Signer weights are stored and never read.  What an      *)
(* operation does is returned to the caller, not carried out.              *)
(***************************************************************************)
EXTENDS DIDRegistry, SequencesExt

CONSTANTS
    MaxSigners  \* bound: signers of a DID

ASSUME SignersAssumption == MaxSigners \in Nat

VARIABLES
    multiSig,   \* DidKey::MultiSig(did)
    operation,  \* DidKey::Operation(id)
    emptied     \* history: the DIDs whose last signer was removed

multiSigVars == <<docVars, multiSig, operation, emptied>>

MultiSigConfig == [signers : Seq(Address), threshold : 0 .. MaxSigners]
Operation == [did : Did, approvals : SUBSET Address, executed : BOOLEAN]

ASSUME MultiSigRecordAssumption == None \notin MultiSigConfig /\ None \notin Operation

MultiSigTypeOK ==
    /\ DocTypeOK
    /\ multiSig \in [Did -> MultiSigConfig \cup {None}]
    /\ operation \in [Time -> Operation \cup {None}]
    /\ emptied \subseteq Did

MultiSigInit ==
    /\ DocInit
    /\ multiSig = [d \in Did |-> None]
    /\ operation = [o \in Time |-> None]
    /\ emptied = {}

-----------------------------------------------------------------------------
Configured(d) == multiSig[d] # None
Proposed(o) == operation[o] # None
Signers(d) == ToSet(multiSig[d].signers)

ValidThreshold(threshold, signers) == threshold \in 1 .. Len(signers)

\* The signers may be named twice.
ConfigureMultiSig(a, d, signers, threshold) ==
    /\ ValidThreshold(threshold, signers)
    /\ MayChange(a, d)
    /\ Changed(d, doc[d].authentication, FALSE)
    /\ multiSig' = [multiSig EXCEPT ![d] = [signers |-> signers, threshold |-> threshold]]
    /\ UNCHANGED <<operation, emptied>>

\* The signer list of a deactivated DID may still change.
AddMultiSigSigner(a, d, s) ==
    /\ controllerDid[a] = d /\ Configured(d)
    /\ Len(multiSig[d].signers) < MaxSigners
    /\ s \notin Signers(d)
    /\ multiSig' = [multiSig EXCEPT ![d].signers = Append(@, s)]
    /\ UNCHANGED <<docVars, operation, emptied>>

\* Fault: the threshold is made one less than the signers that are left (MultiSigSound).
ClampedThreshold_BelowCount(threshold, left) ==
    IF threshold >= Len(left) /\ left # <<>> THEN Len(left) - 1 ELSE threshold
\* Removing the last signer leaves a threshold of zero.
ClampedThreshold(threshold, left) == IF threshold > Len(left) THEN Len(left) ELSE threshold

Without(signers, s) == SelectSeq(signers, LAMBDA x : x # s)

RemoveMultiSigSigner(a, d, s) ==
    /\ controllerDid[a] = d /\ Configured(d)
    /\ s \in Signers(d)
    /\ \E left \in SeqOf(Address, MaxSigners) :
          /\ left = Without(multiSig[d].signers, s)
          /\ multiSig' = [multiSig EXCEPT
                ![d] = [signers |-> left, threshold |-> ClampedThreshold(@.threshold, left)]]
          /\ emptied' = IF left = <<>> THEN emptied \cup {d} ELSE emptied
    /\ UNCHANGED <<docVars, operation>>

UpdateMultiSigThreshold(a, d, threshold) ==
    /\ controllerDid[a] = d /\ Configured(d)
    /\ ValidThreshold(threshold, multiSig[d].signers)
    /\ multiSig' = [multiSig EXCEPT ![d].threshold = threshold]
    /\ UNCHANGED <<docVars, operation, emptied>>

CreateMultiSigOperation(s, d) ==
    /\ Configured(d) /\ s \in Signers(d)
    /\ operation' = [operation EXCEPT ![now] =
          [did |-> d, approvals |-> {}, executed |-> FALSE]]
    /\ UNCHANGED <<docVars, multiSig, emptied>>

\* Fault: an executed operation is signed and executed again (MultiSigSound).
Open_Executed(o) == Proposed(o)
Open(o) == Proposed(o) /\ ~operation[o].executed

SignMultiSigOperation(s, o) ==
    /\ Open(o)
    /\ s \in Signers(operation[o].did) \ operation[o].approvals
    /\ operation' = [operation EXCEPT ![o].approvals = @ \cup {s}]
    /\ UNCHANGED <<docVars, multiSig, emptied>>

\* Fault: the threshold has to be exceeded (ExecutedOnceSteady).
EnoughApprovals_Exceeded(o) ==
    Cardinality(operation[o].approvals) > multiSig[operation[o].did].threshold
\* The threshold as it is now, and the approvals of former signers too.
EnoughApprovals(o) ==
    Cardinality(operation[o].approvals) >= multiSig[operation[o].did].threshold

ExecuteMultiSigOperation(o) ==
    /\ Open(o) /\ EnoughApprovals(o)
    /\ operation' = [operation EXCEPT ![o].executed = TRUE]
    /\ UNCHANGED <<docVars, multiSig, emptied>>

-----------------------------------------------------------------------------
MultiSigSteps ==
    \/ \E a \in Address, d \in Did :
          \/ \E signers \in SeqOf(Address, MaxSigners), t \in 0 .. MaxSigners + 1 :
                ConfigureMultiSig(a, d, signers, t)
          \/ \E s \in Address : AddMultiSigSigner(a, d, s) \/ RemoveMultiSigSigner(a, d, s)
          \/ \E t \in 0 .. MaxSigners + 1 : UpdateMultiSigThreshold(a, d, t)
    \/ \E s \in Address, d \in Did : CreateMultiSigOperation(s, d)
    \/ \E s \in Address, o \in Time : SignMultiSigOperation(s, o)
    \/ \E o \in Time : ExecuteMultiSigOperation(o)

DocumentSteps == DocSteps /\ UNCHANGED <<multiSig, operation, emptied>>

Next == DocumentSteps \/ MultiSigSteps

\* Ledgers keep closing, every signer keeps signing what it can, and somebody keeps
\* executing what has its approvals.
Spec ==
    /\ MultiSigInit /\ [][Next]_multiSigVars
    /\ WF_multiSigVars(CloseLedger /\ UNCHANGED <<multiSig, operation, emptied>>)
    /\ \A o \in Time : /\ \A s \in Address : WF_multiSigVars(SignMultiSigOperation(s, o))
                       /\ WF_multiSigVars(ExecuteMultiSigOperation(o))

-----------------------------------------------------------------------------
\* An operation of a DID whose last signer was never removed is not executed without an
\* approval, however signers and thresholds change while it is open and although
\* another operation may take its id.
ExecutedApproved ==
    \A o \in Time :
        Proposed(o) /\ operation[o].executed /\ operation[o].did \notin emptied
            => operation[o].approvals # {}

\* A configuration has signers and a threshold they can reach unless its last signer was
\* removed, and operations are of configured DIDs: with it ExecutedApproved is inductive.
ThresholdsMet ==
    /\ \A d \in Did : Configured(d) =>
          /\ Len(multiSig[d].signers) <= MaxSigners
          /\ d \notin emptied => multiSig[d].threshold \in 1 .. Len(multiSig[d].signers)
    /\ \A o \in Time : Proposed(o) => Configured(operation[o].did)

IInv == MultiSigTypeOK /\ CreatedPast /\ ControllerOwns /\ ThresholdsMet /\ ExecutedApproved

\* Once the ledger it was proposed in has closed, no approval of an operation is ever
\* lost, and an executed operation never changes or runs again.
OperationsKept ==
    \A o \in Time : Proposed(o) /\ o < now =>
        /\ operation'[o].did = operation[o].did
        /\ operation[o].approvals \subseteq operation'[o].approvals
        /\ operation[o].executed => operation'[o] = operation[o]

\* What is executed was approved, and what is closed, a deactivated document or an executed
\* operation, never changes again, though documents are found through addresses and
\* operations through ids used twice.
MultiSigSound == [][ExecutedApproved' /\ DocumentsKept /\ OperationsKept]_multiSigVars

\* Those whose approvals an operation has or can still get.
Reachable(o) ==
    multiSig[operation[o].did].threshold
        <= Cardinality(Signers(operation[o].did) \cup operation[o].approvals)

\* Once the signers and thresholds stop changing, every operation of a closed ledger
\* whose threshold the signers can reach is executed; only a configuration that names a
\* signer twice can put it out of reach.
ExecutedOnceSteady ==
    <>[][UNCHANGED multiSig]_multiSigVars =>
        \A o \in Time :
            o < now /\ Proposed(o) ~> Proposed(o) /\ (operation[o].executed \/ ~Reachable(o))
=============================================================================
