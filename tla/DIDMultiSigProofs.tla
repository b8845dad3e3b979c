--------------------------- MODULE DIDMultiSigProofs ---------------------------
(***************************************************************************)
(* What holds of the DID registry for every number of documents, signers   *)
(* and ledgers: first the documents, then the multi-signature operations.  *)
(***************************************************************************)
EXTENDS DIDMultiSig, FiniteSetTheorems, TLAPS

DocInv == DocTypeOK /\ CreatedPast /\ ControllerOwns

LEMMA DocInitially == DocInit => DocInv
  <1> SUFFICES ASSUME DocInit PROVE DocInv
    OBVIOUS
  <1>1. DocTypeOK
    BY BoundsAssumption, LimitAssumption, SMT DEF DocInit, DocTypeOK, Time
  <1> QED
    BY <1>1 DEF DocInv, DocInit, CreatedPast, ControllerOwns, Named, Created

\* The bucket a call finds and leaves stays within the limit.
LEMMA BucketTyped ==
  ASSUME DocTypeOK, NEW a \in Address,
         NEW current, current = CurrentBucket(bucket[a].count > 0, bucket[a], now, Window),
         Admits(current, 1, MaxCalls)
  PROVE  AfterCalls(current, 1) \in [count : 0 .. MaxCalls, start : Time]
<1>1. bucket[a] \in [count : 0 .. MaxCalls, start : Time] /\ now \in Time
  BY DEF DocTypeOK
<1>2. current \in [count : 0 .. MaxCalls, start : Time]
  BY <1>1, LimitAssumption, SMT DEF CurrentBucket
<1> QED
  BY <1>2, LimitAssumption, SMT DEF Admits, AfterCalls

-----------------------------------------------------------------------------
LEMMA CloseKeeps == DocInv /\ CloseLedger => DocInv'
<1> SUFFICES ASSUME DocInv, CloseLedger PROVE DocInv'
  OBVIOUS
<1>1. DocTypeOK'
  BY BoundsAssumption, SMT DEF DocInv, CloseLedger, DocTypeOK, Time
<1>2. CreatedPast'
  <2>1. ASSUME NEW d \in Did, Created(d)' PROVE doc'[d].created <= now'
    <3>1. Created(d) /\ doc'[d] = doc[d] /\ doc[d] \in DIDDocument
      BY <2>1 DEF DocInv, DocTypeOK, CloseLedger, Created
    <3>2. doc[d].created \in Time /\ doc[d].created <= now
      BY <3>1 DEF DocInv, CreatedPast, DIDDocument
    <3> QED
      BY <3>1, <3>2, BoundsAssumption, SMT DEF DocInv, DocTypeOK, CloseLedger, Time
  <2> QED
    BY <2>1 DEF CreatedPast
<1>3. ControllerOwns'
  BY DEF DocInv, CloseLedger, ControllerOwns, Named, Created
<1> QED
  BY <1>1, <1>2, <1>3 DEF DocInv

\* The controller's address names the new document, the latest of its documents.
LEMMA CreateDidKeeps ==
  ASSUME DocInv, NEW a \in Address, NEW d \in Did, CreateDid(a, d)
  PROVE  DocInv'
<1> DEFINE new == [controller |-> a, authentication |-> {}, created |-> now,
                   updated |-> now, deactivated |-> FALSE]
<1>1. DocTypeOK /\ CreatedPast /\ ControllerOwns /\ now \in Time
  BY DEF DocInv, DocTypeOK
<1>2. new \in DIDDocument /\ new # None /\ new.controller = a /\ new.created = now
  <2>1. new \in DIDDocument
    BY <1>1 DEF DIDDocument
  <2> QED
    BY <2>1, RecordAssumption
<1>3. /\ doc' \in [Did -> DIDDocument \cup {None}]
      /\ doc'[d] = new
      /\ \A x \in Did : x # d => doc'[x] = doc[x]
  BY <1>1, <1>2 DEF CreateDid, DocTypeOK
<1>4. /\ controllerDid' \in [Address -> Did \cup {None}]
      /\ controllerDid'[a] = d
      /\ \A b \in Address : b # a => controllerDid'[b] = controllerDid[b]
  BY <1>1 DEF CreateDid, DocTypeOK
<1>5. now' = now /\ ~Created(d)
  BY DEF CreateDid
<1>6. Created(d)' /\ \A x \in Did : x # d => (Created(x)' <=> Created(x))
  BY <1>2, <1>3 DEF Created
<1>7. DocTypeOK'
  <2>1. PICK current : /\ current = CurrentBucket(bucket[a].count > 0, bucket[a], now, Window)
                       /\ Admits(current, 1, MaxCalls)
                       /\ bucket' = [bucket EXCEPT ![a] = AfterCalls(current, 1)]
    BY DEF CreateDid
  <2>2. AfterCalls(current, 1) \in [count : 0 .. MaxCalls, start : Time]
    BY <1>1, <2>1, BucketTyped
  <2>3. bucket' \in [Address -> [count : 0 .. MaxCalls, start : Time]]
    BY <1>1, <2>1, <2>2 DEF DocTypeOK
  <2> QED
    BY <1>1, <1>3, <1>4, <1>5, <2>3 DEF DocTypeOK
<1>8. now <= now
  BY <1>1, BoundsAssumption, SMT DEF Time
<1>9. CreatedPast'
  BY <1>1, <1>2, <1>3, <1>5, <1>6, <1>8 DEF CreatedPast
<1>10. ControllerOwns'
  <2> SUFFICES ASSUME NEW x \in Did, Created(x)'
               PROVE  /\ controllerDid'[doc'[x].controller] # None
                      /\ doc'[controllerDid'[doc'[x].controller]] # None
                      /\ doc'[controllerDid'[doc'[x].controller]].controller
                             = doc'[x].controller
                      /\ doc'[x].created <= doc'[controllerDid'[doc'[x].controller]].created
    BY DEF ControllerOwns, Created, Named
  <2>1. CASE doc'[x].controller = a
    <3>1. doc'[x].created <= now
      BY <1>9, <1>5 DEF CreatedPast
    <3> QED
      BY <2>1, <3>1, <1>2, <1>3, <1>4, NoneAssumption
  <2>2. CASE doc'[x].controller # a
    <3>1. x # d /\ Created(x) /\ doc'[x] = doc[x]
      BY <2>2, <1>2, <1>3, <1>6
    <3>2. doc[x].controller \in Address
      BY <1>1, <3>1 DEF DocTypeOK, DIDDocument, Created
    <3>3. PICK named : named = controllerDid[doc[x].controller]
      OBVIOUS
    <3>4. /\ named # None /\ Created(named)
          /\ doc[named].controller = doc[x].controller
          /\ doc[x].created <= doc[named].created
      BY <1>1, <3>1, <3>3 DEF ControllerOwns, Named
    <3>5. named \in Did /\ named # d /\ controllerDid'[doc[x].controller] = named
      BY <1>1, <1>4, <1>5, <2>2, <3>1, <3>2, <3>3, <3>4 DEF DocTypeOK
    <3> QED
      BY <3>1, <3>4, <3>5, <1>3 DEF Created
  <2> QED
    BY <2>1, <2>2
<1> QED
  BY <1>7, <1>9, <1>10 DEF DocInv

\* A change of a document leaves its controller and its creation alone.
LEMMA ChangeKeeps ==
  ASSUME DocInv, NEW a \in Address, NEW d \in Did, MayChange(a, d),
         NEW auth \in SUBSET AuthMethod, NEW off \in BOOLEAN, Changed(d, auth, off)
  PROVE  DocInv'
<1>1. DocTypeOK /\ CreatedPast /\ ControllerOwns /\ now \in Time
  BY DEF DocInv, DocTypeOK
<1>2. doc[d] \in DIDDocument
  BY <1>1 DEF DocTypeOK, MayChange, Created
<1>3. doc' = [doc EXCEPT ![d] = [doc[d] EXCEPT !.authentication = auth, !.updated = now,
                                               !.deactivated = off]]
  BY <1>1, <1>2 DEF Changed, DocTypeOK
<1>4. [doc[d] EXCEPT !.authentication = auth, !.updated = now, !.deactivated = off]
          \in DIDDocument
  BY <1>1, <1>2 DEF DIDDocument
<1>5. /\ doc' \in [Did -> DIDDocument \cup {None}]
      /\ doc'[d] \in DIDDocument
      /\ doc'[d].controller = doc[d].controller /\ doc'[d].created = doc[d].created
      /\ \A x \in Did : x # d => doc'[x] = doc[x]
  BY <1>1, <1>2, <1>3, <1>4 DEF DocTypeOK, DIDDocument
<1>6. now' = now /\ controllerDid' = controllerDid /\ bucket' = bucket
  BY DEF Changed
<1>7. \A x \in Did : /\ Created(x)' <=> Created(x)
                     /\ Created(x) => /\ doc'[x].controller = doc[x].controller
                                      /\ doc'[x].created = doc[x].created
  BY <1>2, <1>5, RecordAssumption DEF Created
<1>8. DocTypeOK'
  BY <1>1, <1>5, <1>6 DEF DocTypeOK
<1>9. CreatedPast'
  BY <1>1, <1>6, <1>7 DEF CreatedPast
<1>10. ControllerOwns'
  <2> SUFFICES ASSUME NEW x \in Did, Created(x)'
               PROVE  /\ controllerDid'[doc'[x].controller] # None
                      /\ doc'[controllerDid'[doc'[x].controller]] # None
                      /\ doc'[controllerDid'[doc'[x].controller]].controller
                             = doc'[x].controller
                      /\ doc'[x].created <= doc'[controllerDid'[doc'[x].controller]].created
    BY DEF ControllerOwns, Created, Named
  <2>1. PICK named : named = controllerDid[doc[x].controller]
    OBVIOUS
  <2>2. Created(x) /\ doc'[x].controller = doc[x].controller
        /\ doc'[x].created = doc[x].created
    BY <1>7
  <2>3. /\ named # None /\ Created(named)
        /\ doc[named].controller = doc[x].controller
        /\ doc[x].created <= doc[named].created
    BY <1>1, <2>1, <2>2 DEF ControllerOwns, Named
  <2>4. named \in Did
    BY <1>1, <2>1, <2>2, <2>3 DEF DocTypeOK, DIDDocument, Created
  <2> QED
    BY <2>1, <2>2, <2>3, <2>4, <1>6, <1>7 DEF Created
<1> QED
  BY <1>8, <1>9, <1>10 DEF DocInv

LEMMA DocStepKeeps == DocInv /\ [DocSteps]_docVars => DocInv'
<1> SUFFICES ASSUME DocInv, [DocSteps]_docVars PROVE DocInv'
  OBVIOUS
<1>1. CASE UNCHANGED docVars
  BY <1>1 DEF docVars, DocInv, DocTypeOK, CreatedPast, ControllerOwns, Named, Created
<1>2. CASE CloseLedger
  BY <1>2, CloseKeeps
<1>3. ASSUME NEW a \in Address, NEW d \in Did, CreateDid(a, d) PROVE DocInv'
  BY <1>3, CreateDidKeeps
<1>4. ASSUME NEW d \in Did, Created(d), DocInv PROVE doc[d].authentication \in SUBSET AuthMethod
  BY <1>4 DEF DocInv, DocTypeOK, DIDDocument, Created
<1>5. ASSUME NEW a \in Address, NEW d \in Did, UpdateDid(a, d) \/ DeactivateDid(a, d)
      PROVE  DocInv'
  BY <1>4, <1>5, ChangeKeeps DEF UpdateDid, DeactivateDid, MayChange
<1>6. ASSUME NEW a \in Address, NEW d \in Did, NEW m \in AuthMethod, AddAuthentication(a, d, m)
      PROVE  DocInv'
  <2>1. doc[d].authentication \cup {m} \in SUBSET AuthMethod
    BY <1>4, <1>6 DEF AddAuthentication, MayChange
  <2> QED
    BY <1>6, <2>1, ChangeKeeps DEF AddAuthentication
<1>7. ASSUME NEW a \in Address, NEW d \in Did, NEW m \in AuthMethod,
             RemoveAuthentication(a, d, m)
      PROVE  DocInv'
  <2>1. doc[d].authentication \ {m} \in SUBSET AuthMethod
    BY <1>4, <1>7 DEF RemoveAuthentication, MayChange
  <2> QED
    BY <1>7, <2>1, ChangeKeeps DEF RemoveAuthentication
<1> QED
  BY <1>1, <1>2, <1>3, <1>5, <1>6, <1>7 DEF DocSteps

-----------------------------------------------------------------------------
MultiSigInv ==
    /\ multiSig \in [Did -> MultiSigConfig \cup {None}]
    /\ operation \in [Time -> Operation \cup {None}]
    /\ emptied \subseteq Did
    /\ ThresholdsMet
    /\ ExecutedApproved

LEMMA MultiSigInitially == MultiSigInit => MultiSigInv
  BY DEF MultiSigInit, MultiSigInv, ThresholdsMet, ExecutedApproved, Configured, Proposed

LEMMA SeqOfTyped ==
  ASSUME NEW s \in SeqOf(Address, MaxSigners)
  PROVE  s \in Seq(Address) /\ Len(s) \in 0 .. MaxSigners
<1>1. PICK m \in 0 .. MaxSigners : s \in [1 .. m -> Address]
  BY DEF SeqOf
<1> QED
  BY <1>1, SignersAssumption, SMT

\* A step that gives a DID another configuration keeps the invariant when the threshold
\* is met or the last signer is gone.
LEMMA ConfigKeeps ==
  ASSUME MultiSigInv, NEW d \in Did, NEW cfg \in MultiSigConfig,
         multiSig' = [multiSig EXCEPT ![d] = cfg], operation' = operation,
         emptied \subseteq emptied', emptied' \subseteq Did,
         Len(cfg.signers) <= MaxSigners,
         d \notin emptied' => cfg.threshold \in 1 .. Len(cfg.signers)
  PROVE  MultiSigInv'
<1>1. /\ multiSig' \in [Did -> MultiSigConfig \cup {None}]
      /\ multiSig'[d] = cfg /\ Configured(d)'
      /\ \A x \in Did : x # d => multiSig'[x] = multiSig[x]
  BY MultiSigRecordAssumption DEF MultiSigInv, Configured
<1>2. \A x \in Did : Configured(x) => Configured(x)'
  BY <1>1 DEF Configured
<1>3. ASSUME NEW o \in Time, Proposed(o) PROVE operation[o].did \in Did
  BY <1>3 DEF MultiSigInv, Operation, Proposed
<1>4. ThresholdsMet'
  <2>1. ASSUME NEW x \in Did, Configured(x)'
        PROVE  /\ Len(multiSig'[x].signers) <= MaxSigners
               /\ x \notin emptied' =>
                      multiSig'[x].threshold \in 1 .. Len(multiSig'[x].signers)
    <3>1. CASE x = d
      BY <3>1, <1>1
    <3>2. CASE x # d
      BY <2>1, <3>2, <1>1 DEF MultiSigInv, ThresholdsMet, Configured
    <3> QED
      BY <3>1, <3>2
  <2>2. ASSUME NEW o \in Time, operation'[o] # None
        PROVE  multiSig'[operation'[o].did] # None
    <3>1. Proposed(o) /\ operation'[o].did = operation[o].did /\ Configured(operation[o].did)
      BY <2>2 DEF MultiSigInv, ThresholdsMet, Proposed
    <3> QED
      BY <3>1, <1>2, <1>3 DEF Configured
  <2> QED
    BY <2>1, <2>2 DEF ThresholdsMet, Configured, Proposed
<1>5. ExecutedApproved'
  BY DEF MultiSigInv, ExecutedApproved, Proposed
<1> QED
  BY <1>1, <1>4, <1>5 DEF MultiSigInv

\* A step that stores an operation of a configured DID keeps it when an executed one has
\* an approval.
LEMMA OperationKeeps ==
  ASSUME MultiSigInv, NEW o \in Time, NEW op \in Operation,
         operation' = [operation EXCEPT ![o] = op], UNCHANGED <<multiSig, emptied>>,
         Configured(op.did),
         op.executed /\ op.did \notin emptied => op.approvals # {}
  PROVE  MultiSigInv'
<1>1. /\ operation' \in [Time -> Operation \cup {None}]
      /\ operation'[o] = op
      /\ \A x \in Time : x # o => operation'[x] = operation[x]
  BY DEF MultiSigInv
<1>2. ThresholdsMet'
  BY <1>1 DEF MultiSigInv, ThresholdsMet, Configured, Proposed
<1>3. ExecutedApproved'
  BY <1>1 DEF MultiSigInv, ExecutedApproved, Proposed
<1> QED
  BY <1>1, <1>2, <1>3 DEF MultiSigInv

-----------------------------------------------------------------------------
LEMMA MultiSigStepKeeps ==
  ASSUME IInv, MultiSigSteps
  PROVE  MultiSigInv'
<1>1. MultiSigInv /\ now \in Time
  BY DEF IInv, MultiSigTypeOK, MultiSigInv, DocTypeOK
<1>2. ASSUME NEW d \in Did, Configured(d)
      PROVE  /\ multiSig[d] \in MultiSigConfig /\ Len(multiSig[d].signers) <= MaxSigners
             /\ multiSig[d].signers \in Seq(Address) /\ multiSig[d].threshold \in 0 .. MaxSigners
             /\ d \notin emptied => multiSig[d].threshold \in 1 .. Len(multiSig[d].signers)
  BY <1>1, <1>2 DEF MultiSigInv, ThresholdsMet, MultiSigConfig, Configured
<1>3. ASSUME NEW a \in Address, NEW d \in Did, NEW signers \in SeqOf(Address, MaxSigners),
             NEW t \in 0 .. MaxSigners + 1, ConfigureMultiSig(a, d, signers, t)
      PROVE  MultiSigInv'
  <2> DEFINE cfg == [signers |-> signers, threshold |-> t]
  <2>1. t \in 1 .. Len(signers) /\ signers \in Seq(Address) /\ Len(signers) \in 0 .. MaxSigners
    BY <1>3, SeqOfTyped DEF ConfigureMultiSig, ValidThreshold
  <2>2. t \in 0 .. MaxSigners
    BY <2>1, SignersAssumption, SMT
  <2>3. cfg \in MultiSigConfig /\ Len(cfg.signers) <= MaxSigners
        /\ cfg.threshold \in 1 .. Len(cfg.signers)
    BY <2>1, <2>2, SignersAssumption, SMT DEF MultiSigConfig
  <2>4. multiSig' = [multiSig EXCEPT ![d] = cfg] /\ UNCHANGED <<operation, emptied>>
    BY <1>3 DEF ConfigureMultiSig
  <2>5. emptied \subseteq emptied' /\ emptied' \subseteq Did
    BY <1>1, <2>4 DEF MultiSigInv
  <2> QED
    BY <1>1, <2>3, <2>4, <2>5, ConfigKeeps
<1>4. ASSUME NEW a \in Address, NEW d \in Did, NEW s \in Address, AddMultiSigSigner(a, d, s)
      PROVE  MultiSigInv'
  <2> DEFINE cfg == [signers |-> Append(multiSig[d].signers, s),
                     threshold |-> multiSig[d].threshold]
  <2>1. Configured(d) /\ Len(multiSig[d].signers) < MaxSigners
    BY <1>4 DEF AddMultiSigSigner
  <2>2. cfg \in MultiSigConfig
    BY <1>2, <2>1 DEF MultiSigConfig
  <2>3. /\ Len(cfg.signers) <= MaxSigners
        /\ d \notin emptied => cfg.threshold \in 1 .. Len(cfg.signers)
    BY <1>2, <2>1, SignersAssumption, SMT
  <2>4. multiSig' = [multiSig EXCEPT ![d] = cfg] /\ UNCHANGED <<operation, emptied>>
    <3>1. /\ multiSig' = [multiSig EXCEPT ![d].signers = Append(@, s)]
          /\ UNCHANGED <<operation, emptied>>
      BY <1>4 DEF AddMultiSigSigner
    <3>2. \A list : [multiSig[d] EXCEPT !.signers = list]
                        = [signers |-> list, threshold |-> multiSig[d].threshold]
      BY <1>2, <2>1 DEF MultiSigConfig
    <3>3. multiSig' = [multiSig EXCEPT ![d] = [multiSig[d] EXCEPT
                          !.signers = Append(multiSig[d].signers, s)]]
      BY <1>1, <3>1 DEF MultiSigInv
    <3> QED
      BY <3>1, <3>2, <3>3, Zenon
  <2>5. emptied \subseteq emptied' /\ emptied' \subseteq Did
    BY <1>1, <2>4 DEF MultiSigInv
  <2> QED
    BY <1>1, <2>2, <2>3, <2>4, <2>5, ConfigKeeps
<1>5. ASSUME NEW a \in Address, NEW d \in Did, NEW s \in Address, RemoveMultiSigSigner(a, d, s)
      PROVE  MultiSigInv'
  <2>1. Configured(d) /\ operation' = operation
    BY <1>5 DEF RemoveMultiSigSigner
  <2>2. PICK left \in SeqOf(Address, MaxSigners) :
          /\ multiSig' = [multiSig EXCEPT
                ![d] = [signers |-> left, threshold |-> ClampedThreshold(@.threshold, left)]]
          /\ emptied' = IF left = <<>> THEN emptied \cup {d} ELSE emptied
    BY <1>5 DEF RemoveMultiSigSigner
  <2> DEFINE cfg == [signers |-> left,
                     threshold |-> ClampedThreshold(multiSig[d].threshold, left)]
  <2>3. left \in Seq(Address) /\ Len(left) \in 0 .. MaxSigners
    BY SeqOfTyped
  <2>4. cfg.threshold \in 0 .. MaxSigners
    BY <1>2, <2>1, <2>3, SignersAssumption, SMT DEF ClampedThreshold
  <2>5. cfg \in MultiSigConfig /\ Len(cfg.signers) <= MaxSigners
    BY <2>3, <2>4, SignersAssumption, SMT DEF MultiSigConfig
  <2>6. d \notin emptied' => cfg.threshold \in 1 .. Len(cfg.signers)
    <3> SUFFICES ASSUME d \notin emptied' PROVE cfg.threshold \in 1 .. Len(cfg.signers)
      OBVIOUS
    <3>1. left # <<>> /\ d \notin emptied
      BY <2>2
    <3>2. Len(left) >= 1
      BY <2>3, <3>1, SMT
    <3> QED
      BY <1>2, <2>1, <2>3, <3>1, <3>2, SMT DEF ClampedThreshold
  <2>7. multiSig' = [multiSig EXCEPT ![d] = cfg]
    BY <1>1, <2>2 DEF MultiSigInv
  <2>8. emptied \subseteq emptied' /\ emptied' \subseteq Did
    BY <1>1, <2>2 DEF MultiSigInv
  <2> QED
    BY <1>1, <2>1, <2>5, <2>6, <2>7, <2>8, ConfigKeeps
<1>6. ASSUME NEW a \in Address, NEW d \in Did, NEW t \in 0 .. MaxSigners + 1,
             UpdateMultiSigThreshold(a, d, t)
      PROVE  MultiSigInv'
  <2> DEFINE cfg == [signers |-> multiSig[d].signers, threshold |-> t]
  <2>1. Configured(d) /\ t \in 1 .. Len(multiSig[d].signers)
    BY <1>6 DEF UpdateMultiSigThreshold, ValidThreshold
  <2>2. cfg.threshold \in 0 .. MaxSigners
    BY <1>2, <2>1, SignersAssumption, SMT
  <2>3. cfg \in MultiSigConfig /\ Len(cfg.signers) <= MaxSigners
        /\ cfg.threshold \in 1 .. Len(cfg.signers)
    BY <1>2, <2>1, <2>2 DEF MultiSigConfig
  <2>4. multiSig' = [multiSig EXCEPT ![d] = cfg] /\ UNCHANGED <<operation, emptied>>
    <3>1. /\ multiSig' = [multiSig EXCEPT ![d].threshold = t]
          /\ UNCHANGED <<operation, emptied>>
      BY <1>6 DEF UpdateMultiSigThreshold
    <3>2. [multiSig[d] EXCEPT !.threshold = t] = cfg
      BY <1>2, <2>1 DEF MultiSigConfig
    <3> QED
      BY <1>1, <3>1, <3>2 DEF MultiSigInv
  <2>5. emptied \subseteq emptied' /\ emptied' \subseteq Did
    BY <1>1, <2>4 DEF MultiSigInv
  <2> QED
    BY <1>1, <2>3, <2>4, <2>5, ConfigKeeps
<1>7. ASSUME NEW s \in Address, NEW d \in Did, CreateMultiSigOperation(s, d) PROVE MultiSigInv'
  <2> DEFINE op == [did |-> d, approvals |-> {}, executed |-> FALSE]
  <2>1. op \in Operation
    BY DEF Operation
  <2>2. /\ operation' = [operation EXCEPT ![now] = op] /\ UNCHANGED <<multiSig, emptied>>
        /\ Configured(op.did)
    BY <1>7 DEF CreateMultiSigOperation
  <2>3. ~op.executed
    OBVIOUS
  <2> QED
    BY <1>1, <2>1, <2>2, <2>3, OperationKeeps
<1>8. ASSUME NEW o \in Time, Open(o)
      PROVE  operation[o] \in Operation /\ Configured(operation[o].did)
  BY <1>1, <1>8 DEF MultiSigInv, ThresholdsMet, Open, Proposed
<1>9. ASSUME NEW s \in Address, NEW o \in Time, SignMultiSigOperation(s, o) PROVE MultiSigInv'
  <2> DEFINE op == [operation[o] EXCEPT !.approvals = @ \cup {s}]
  <2>1. Open(o) /\ operation' = [operation EXCEPT ![o].approvals = @ \cup {s}]
        /\ UNCHANGED <<multiSig, emptied>>
    BY <1>9 DEF SignMultiSigOperation
  <2>2. op \in Operation /\ op.did = operation[o].did /\ op.approvals # {}
    BY <1>8, <2>1 DEF Operation
  <2>3. operation' = [operation EXCEPT ![o] = op]
    BY <1>1, <2>1 DEF MultiSigInv
  <2>4. Configured(op.did)
    BY <1>8, <2>1, <2>2
  <2> QED
    BY <1>1, <2>1, <2>2, <2>3, <2>4, OperationKeeps
\* A threshold of at least one is not reached without an approval.
<1>10. ASSUME NEW o \in Time, ExecuteMultiSigOperation(o) PROVE MultiSigInv'
  <2> DEFINE op == [operation[o] EXCEPT !.executed = TRUE]
  <2>1. Open(o) /\ EnoughApprovals(o) /\ operation' = [operation EXCEPT ![o].executed = TRUE]
        /\ UNCHANGED <<multiSig, emptied>>
    BY <1>10 DEF ExecuteMultiSigOperation
  <2>2. /\ op \in Operation /\ op.did = operation[o].did
        /\ op.approvals = operation[o].approvals
    BY <1>8, <2>1 DEF Operation
  <2>3. operation' = [operation EXCEPT ![o] = op]
    BY <1>1, <2>1 DEF MultiSigInv
  <2>4. Configured(op.did)
    BY <1>8, <2>1, <2>2
  <2>5. ASSUME op.did \notin emptied PROVE op.approvals # {}
    <3>1. op.did \in Did
      BY <2>2 DEF Operation
    <3>2. multiSig[op.did].threshold \in 1 .. Len(multiSig[op.did].signers)
      BY <1>2, <2>4, <2>5, <3>1
    <3>3. Len(multiSig[op.did].signers) \in Nat
      BY <1>2, <2>4, <3>1, SMT
    <3>4. Cardinality(op.approvals) # 0
      BY <2>1, <2>2, <3>2, <3>3, SMT DEF EnoughApprovals
    <3> QED
      BY <3>4, FS_EmptySet
  <2> QED
    BY <1>1, <2>1, <2>2, <2>3, <2>4, <2>5, OperationKeeps
<1> QED
  BY <1>3, <1>4, <1>5, <1>6, <1>7, <1>9, <1>10 DEF MultiSigSteps

-----------------------------------------------------------------------------
LEMMA IInvParts == IInv <=> DocInv /\ MultiSigInv
  BY DEF IInv, DocInv, MultiSigInv, MultiSigTypeOK

LEMMA StepKeeps == IInv /\ [Next]_multiSigVars => IInv'
<1> SUFFICES ASSUME IInv, [Next]_multiSigVars PROVE DocInv' /\ MultiSigInv'
  BY DEF IInv, DocInv, MultiSigInv, MultiSigTypeOK
<1>1. DocInv /\ MultiSigInv
  BY IInvParts
<1>2. CASE UNCHANGED multiSigVars
  <2>1. UNCHANGED docVars
    BY <1>2 DEF multiSigVars
  <2>2. MultiSigInv'
    BY <1>1, <1>2 DEF multiSigVars, MultiSigInv, ThresholdsMet, ExecutedApproved,
                      Configured, Proposed
  <2> QED
    BY <1>1, <2>1, <2>2, DocStepKeeps
<1>3. CASE DocumentSteps
  <2>1. MultiSigInv'
    BY <1>1, <1>3 DEF DocumentSteps, MultiSigInv, ThresholdsMet, ExecutedApproved,
                      Configured, Proposed
  <2> QED
    BY <1>1, <1>3, <2>1, DocStepKeeps DEF DocumentSteps
<1>4. CASE MultiSigSteps
  <2>1. MultiSigInv'
    BY <1>4, MultiSigStepKeeps
  <2>2. CASE UNCHANGED docVars
    BY <1>1, <2>1, <2>2, DocStepKeeps
  <2>3. ASSUME NEW a \in Address, NEW d \in Did, NEW signers, NEW t,
               ConfigureMultiSig(a, d, signers, t)
        PROVE  DocInv'
    <3>1. MayChange(a, d) /\ Changed(d, doc[d].authentication, FALSE)
      BY <2>3 DEF ConfigureMultiSig
    <3>2. doc[d].authentication \in SUBSET AuthMethod
      BY <1>1, <3>1 DEF DocInv, DocTypeOK, DIDDocument, MayChange, Created
    <3> QED
      BY <1>1, <3>1, <3>2, ChangeKeeps
  <2> QED
    BY <1>4, <2>1, <2>2, <2>3
       DEF MultiSigSteps, AddMultiSigSigner, RemoveMultiSigSigner, UpdateMultiSigThreshold,
           CreateMultiSigOperation, SignMultiSigOperation, ExecuteMultiSigOperation
<1> QED
  BY <1>2, <1>3, <1>4 DEF Next

LEMMA Invariance == Spec => []IInv
<1>1. MultiSigInit => IInv
  BY IInvParts, DocInitially, MultiSigInitially DEF MultiSigInit
<1> QED
  BY <1>1, StepKeeps, PTL DEF Spec

\* Documents, configurations and operations are well formed: a threshold and a list of
\* signers stay within their bounds and a rate limit within its limit.
THEOREM TypeCorrect == Spec => []MultiSigTypeOK
<1>1. IInv => MultiSigTypeOK
  BY DEF IInv
<1> QED
  BY <1>1, Invariance, PTL

\* The address of a controller always names one of its documents, the last one created.
THEOREM ControllersNamed == Spec => []ControllerOwns
<1>1. IInv => ControllerOwns
  BY DEF IInv
<1> QED
  BY <1>1, Invariance, PTL

\* However signers and thresholds change while an operation is open, it is not executed
\* without an approval unless the last signer of its DID was removed.
THEOREM ExecutionApproved == Spec => []ExecutedApproved
<1>1. IInv => ExecutedApproved
  BY DEF IInv
<1> QED
  BY <1>1, Invariance, PTL

\* Creating an id again never touches an existing document, and nothing changes a
\* deactivated one.
THEOREM DocumentsFinal == Spec => [][DocumentsKept]_docVars
<1>1. IInv /\ [Next]_multiSigVars => [DocumentsKept]_docVars
  <2> SUFFICES ASSUME IInv, [Next]_multiSigVars, ~UNCHANGED docVars, NEW d \in Did, Created(d)
               PROVE  /\ doc'[d].controller = doc[d].controller
                      /\ doc[d].deactivated => doc'[d] = doc[d]
    BY DEF DocumentsKept
  <2>1. doc \in [Did -> DIDDocument \cup {None}] /\ doc[d] \in DIDDocument
    BY DEF IInv, MultiSigTypeOK, DocTypeOK, Created
  <2>2. ASSUME NEW a \in Address, NEW x \in Did, MayChange(a, x), NEW auth, NEW off,
               Changed(x, auth, off)
        PROVE  /\ doc'[d].controller = doc[d].controller
               /\ doc[d].deactivated => doc'[d] = doc[d]
    BY <2>1, <2>2 DEF MayChange, Changed, DIDDocument
  <2>3. ASSUME NEW a \in Address, NEW x \in Did, CreateDid(a, x)
        PROVE  doc'[d] = doc[d]
    <3>1. ~Created(x) /\ doc' = [doc EXCEPT ![x] = doc'[x]]
      BY <2>1, <2>3 DEF CreateDid
    <3> QED
      BY <2>1, <3>1
  <2>4. CASE DocumentSteps
    BY <2>2, <2>3, <2>4 DEF DocumentSteps, DocSteps, CloseLedger, UpdateDid, DeactivateDid,
                            AddAuthentication, RemoveAuthentication
  <2>5. CASE MultiSigSteps
    BY <2>2, <2>5
       DEF MultiSigSteps, docVars, ConfigureMultiSig, AddMultiSigSigner, RemoveMultiSigSigner,
           UpdateMultiSigThreshold, CreateMultiSigOperation, SignMultiSigOperation,
           ExecuteMultiSigOperation
  <2> QED
    BY <2>4, <2>5 DEF Next, multiSigVars
<1> QED
  BY <1>1, Invariance, PTL DEF Spec

\* Once its ledger has closed an operation keeps its approvals, and when it has been
\* executed it never changes or runs again.
THEOREM OperationsFinal == Spec => [][OperationsKept]_multiSigVars
<1>1. IInv /\ [Next]_multiSigVars => [OperationsKept]_multiSigVars
  <2> SUFFICES ASSUME IInv, Next, NEW o \in Time, Proposed(o), o < now
               PROVE  /\ operation'[o].did = operation[o].did
                      /\ operation[o].approvals \subseteq operation'[o].approvals
                      /\ operation[o].executed => operation'[o] = operation[o]
    BY DEF OperationsKept
  <2>1. /\ operation \in [Time -> Operation \cup {None}]
        /\ operation[o] \in Operation /\ now \in Time
    BY DEF IInv, MultiSigTypeOK, DocTypeOK, Proposed
  <2>2. o # now
    BY <2>1, BoundsAssumption, SMT DEF Time
  <2>3. CASE UNCHANGED operation
    BY <2>3
  <2>4. ASSUME NEW s \in Address, NEW d \in Did, CreateMultiSigOperation(s, d)
        PROVE  operation'[o] = operation[o]
    BY <2>1, <2>2, <2>4 DEF CreateMultiSigOperation
  <2>5. ASSUME NEW s \in Address, NEW x \in Time, SignMultiSigOperation(s, x)
        PROVE  /\ operation'[o].did = operation[o].did
               /\ operation[o].approvals \subseteq operation'[o].approvals
               /\ operation[o].executed => operation'[o] = operation[o]
    BY <2>1, <2>5 DEF SignMultiSigOperation, Open, Operation
  <2>6. ASSUME NEW x \in Time, ExecuteMultiSigOperation(x)
        PROVE  /\ operation'[o].did = operation[o].did
               /\ operation[o].approvals \subseteq operation'[o].approvals
               /\ operation[o].executed => operation'[o] = operation[o]
    BY <2>1, <2>6 DEF ExecuteMultiSigOperation, Open, Operation
  <2> QED
    BY <2>3, <2>4, <2>5, <2>6
       DEF Next, DocumentSteps, MultiSigSteps, ConfigureMultiSig, AddMultiSigSigner,
           RemoveMultiSigSigner, UpdateMultiSigThreshold
<1> QED
  BY <1>1, Invariance, PTL DEF Spec

\* Approved when executed, and closed for good, under any calls.
THEOREM MultiSigAlwaysSound == Spec => MultiSigSound
<1>1. [DocumentsKept]_docVars => DocumentsKept
  BY DEF DocumentsKept, docVars
<1> QED
  BY <1>1, ExecutionApproved, DocumentsFinal, OperationsFinal, PTL DEF MultiSigSound
=============================================================================
