------------------------------- MODULE CliConfig -------------------------------
(***************************************************************************)
(* The configuration of the command line (src/cli/index.ts): read once     *)
(* when a process starts, changed in memory by its menus and written back  *)
(* to one file as a whole after every change.  Several processes share the *)
(* file, and a process may be killed while it waits or writes.             *)
(*                                                                         *)
(* A menu entry that asks its questions and then changes and saves the     *)
(* configuration does so in one step.  Of the settings, the name of the    *)
(* network is left out, the others are the built-in ones or the user's own.*)
(*                                                                         *)
(* A label is a number n, for kp-<n>, or MyIdentity: the two the program   *)
(* proposes for a new keypair.  Any of them may also be typed.             *)
(***************************************************************************)
EXTENDS Naturals, FiniteSets

CONSTANTS
    Process,            \* processes of the command line
    MyIdentity,         \* the label Quick Start proposes
    NoLabel,
    MaxKeys,            \* bound: keypairs made, and the numbers of labels typed
    MaxSaved,           \* bound: keypairs the file holds from before
    MaxSaves            \* bound: changes of a configuration

ASSUME CliConfigAssumption ==
    /\ NoLabel \notin Nat \cup {MyIdentity} /\ MyIdentity \notin Nat
    /\ MaxKeys \in Nat /\ MaxSaved \in Nat /\ MaxSaves \in Nat

VARIABLES
    cfg,                \* per process: its configuration while it runs, at most one
    builtin,            \* per process: where DEFAULT_CLI_CONFIG.contracts comes from
    file,               \* the configuration file: at most one configuration, when it is
                        \* there and can be read
    deploying,          \* processes inside deployAllWizard
    keysMade, saves,    \* counted for the bounds
    made,               \* history: the keypairs made or imported, numbered as they were
    deleted,            \* history: those given up by deleting their label
    lost,               \* history: those a failed or a torn write or the save of a process
                        \* that is not in step may have kept from the file
    typed,              \* history: labels typed for a keypair, not just accepted
    inStep,             \* history: processes no other has saved behind the back of
    collided            \* history: a write failed or tore the file, or a process that
                        \* was not in step has saved

keyHistory == <<made, deleted, lost, typed>>
cliHistory == <<keyHistory, inStep, collided>>
configVars == <<cfg, builtin, file, deploying, keysMade, saves, cliHistory>>

\* aliased: its contracts are the very object of the defaults, which an assignment to
\* one of them changes for the rest of the process.
Defaults(p) ==
    [rpcUrl |-> "builtin", contracts |-> builtin[p], aliased |-> TRUE,
     keys |-> {}, default |-> NoLabel]

InFile == UNION {c.keys : c \in file}

\* No file yet, or one with keypairs that were made one after the other before.
ConfigInit ==
    \E n \in 0..MaxSaved :
        /\ keysMade = n /\ saves = 0
        /\ made = {[label |-> i, id |-> i] : i \in 1..n}
        /\ file = IF n = 0 THEN {}
                  ELSE {[rpcUrl |-> "builtin", contracts |-> "builtin", aliased |-> FALSE,
                         keys |-> made, default |-> 1]}
        /\ cfg = [p \in Process |-> {}]
        /\ builtin = [p \in Process |-> "builtin"]
        /\ deploying = {}
        /\ deleted = {} /\ lost = {} /\ typed = {}
        /\ inStep = {} /\ collided = FALSE

-----------------------------------------------------------------------------
\* loadConfig: no file and an unreadable one give the defaults.
LoadConfig(p) ==
    /\ cfg[p] = {}
    /\ cfg' = [cfg EXCEPT ![p] = IF file = {} THEN {Defaults(p)} ELSE file]
    /\ inStep' = IF file = {} THEN inStep ELSE inStep \cup {p}
    /\ UNCHANGED <<builtin, file, deploying, keysMade, saves, keyHistory, collided>>

\* saveConfig: the file is replaced as a whole.  That it fails is a warning.
SaveConfig(p, c) ==
    /\ saves < MaxSaves /\ saves' = saves + 1
    /\ cfg' = [cfg EXCEPT ![p] = {c}]
    /\ \/ /\ file' = {[c EXCEPT !.aliased = FALSE]}
          /\ inStep' = {p}
          /\ lost' = (lost \cup IF p \in inStep THEN {} ELSE InFile) \ c.keys
          /\ collided' = (collided \/ (file # {} /\ p \notin inStep))
       \/ /\ UNCHANGED <<file, inStep>>
          /\ lost' = lost \cup (c.keys \ InFile)
          /\ collided' = TRUE

\* A change of the contracts changes the defaults as well while they are one object.
WithContracts(p, c, from) ==
    /\ SaveConfig(p, [c EXCEPT !.contracts = from])
    /\ builtin' = IF c.aliased THEN [builtin EXCEPT ![p] = from] ELSE builtin

Ready(p) == cfg[p] # {} /\ p \notin deploying
Current(p) == CHOOSE c \in cfg[p] : TRUE
Labels(c) == {k.label : k \in c.keys}

-----------------------------------------------------------------------------
(* keypairWizard and the first step of quickStart *)

Stored(c, k) == {o \in c.keys : o.label # k.label} \cup {k}

\* A label that is in use is given to the new keypair without a question.
StoreKeypair(p, label, default, proposed) ==
    LET c == Current(p)
        k == [label |-> label, id |-> keysMade + 1]
    IN  /\ Ready(p) /\ keysMade < MaxKeys
        /\ keysMade' = keysMade + 1
        /\ SaveConfig(p, [c EXCEPT !.keys = Stored(c, k), !.default = default])
        /\ made' = made \cup {k}
        /\ typed' = typed \cup ({label} \ proposed)
        /\ UNCHANGED <<builtin, deploying, deleted>>

\* The proposal counts the labels: kp-2 after kp-1, and after one of three was deleted
\* it may be kp-3, which is in use.
GenerateKeypair(p, label) ==
    LET c == Current(p)
    IN  StoreKeypair(p, label, IF c.keys = {} THEN label
                               ELSE IF c.default = NoLabel THEN label ELSE c.default,
                     {Cardinality(Labels(c)) + 1})

QuickStartKeypair(p, label) == StoreKeypair(p, label, label, {MyIdentity})

\* The default stays as it is, also when there is none.  The label proposed carries the
\* time, and is taken for one that is typed.
ImportKeypair(p, label) == StoreKeypair(p, label, Current(p).default, {})

DeleteKeypair(p, label) ==
    LET c == Current(p)
        gone == {k \in c.keys : k.label = label}
    IN  /\ Ready(p) /\ gone # {}
        /\ SaveConfig(p, [c EXCEPT !.keys = @ \ gone,
                                   !.default = IF @ = label THEN NoLabel ELSE @])
        /\ deleted' = deleted \cup gone
        /\ UNCHANGED <<builtin, deploying, keysMade, made, typed>>

SetDefaultKeypair(p, label) ==
    /\ Ready(p) /\ label \in Labels(Current(p))
    /\ SaveConfig(p, [Current(p) EXCEPT !.default = label])
    /\ UNCHANGED <<builtin, deploying, keysMade, made, deleted, typed>>

-----------------------------------------------------------------------------
(* deploymentWizard and configMenu *)

\* deployAllWizard, up to its loop.  A keypair is needed; the RPC URL changes at the
\* end only.
DeployAll(p) ==
    /\ Ready(p) /\ Current(p).keys # {}
    /\ deploying' = deploying \cup {p}
    /\ UNCHANGED <<cfg, builtin, file, keysMade, saves, cliHistory>>

\* The loop and what follows it: contract after contract, then one save.
DeploymentEnds(p) ==
    /\ p \in deploying
    /\ WithContracts(p, [Current(p) EXCEPT !.rpcUrl = "own"], "own")
    /\ deploying' = deploying \ {p}
    /\ UNCHANGED <<keysMade, made, deleted, typed>>

\* deploySingleContract, updateContractAddress.
SetContract(p) ==
    /\ Ready(p)
    /\ WithContracts(p, Current(p), "own")
    /\ UNCHANGED <<deploying, keysMade, made, deleted, typed>>

\* The contracts stay those of the network before.
SwitchNetwork(p) ==
    /\ Ready(p)
    /\ SaveConfig(p, [Current(p) EXCEPT !.rpcUrl = "builtin"])
    /\ UNCHANGED <<builtin, deploying, keysMade, made, deleted, typed>>

SetRpcUrl(p) ==
    /\ Ready(p)
    /\ SaveConfig(p, [Current(p) EXCEPT !.rpcUrl = "own"])
    /\ UNCHANGED <<builtin, deploying, keysMade, made, deleted, typed>>

\* Fault: the keypairs are reset with the rest (KeypairsKept).
Preserved_Not(c, fresh) == fresh
Preserved(c, fresh) == [fresh EXCEPT !.keys = c.keys, !.default = c.default]

\* The defaults name no RPC URL, so that Object.assign leaves the one there is.
ResetConfig(p) ==
    LET c == Current(p)
    IN  /\ Ready(p)
        /\ SaveConfig(p, [Preserved(c, Defaults(p)) EXCEPT !.rpcUrl = c.rpcUrl])
        /\ UNCHANGED <<builtin, deploying, keysMade, made, deleted, typed>>

\* An exported file has no keypairs, and those of the file imported are not looked at.
ImportConfig(p, url, contracts) ==
    LET c == [Current(p) EXCEPT !.rpcUrl = IF url THEN "own" ELSE @]
    IN  /\ Ready(p)
        /\ IF contracts THEN WithContracts(p, c, "own")
           ELSE SaveConfig(p, c) /\ UNCHANGED builtin
        /\ UNCHANGED <<deploying, keysMade, made, deleted, typed>>

-----------------------------------------------------------------------------
\* Leaving, an error, or a signal while a question is open or a deployment runs.
ProcessEnds(p) ==
    /\ cfg[p] # {}
    /\ cfg' = [cfg EXCEPT ![p] = {}]
    /\ builtin' = [builtin EXCEPT ![p] = "builtin"]
    /\ deploying' = deploying \ {p}
    /\ inStep' = inStep \ {p}
    /\ UNCHANGED <<file, keysMade, saves, keyHistory, collided>>

\* Killed while the file is written: it can no longer be read.
KilledWriting(p) ==
    /\ cfg[p] # {} /\ saves < MaxSaves
    /\ saves' = saves + 1
    /\ cfg' = [cfg EXCEPT ![p] = {}]
    /\ builtin' = [builtin EXCEPT ![p] = "builtin"]
    /\ deploying' = deploying \ {p}
    /\ file' = {}
    /\ inStep' = {} /\ collided' = TRUE /\ lost' = lost \cup InFile
    /\ UNCHANGED <<keysMade, made, deleted, typed>>

ConfigNext ==
    \E p \in Process :
        \/ LoadConfig(p)
        \/ \E label \in (1..MaxKeys) \cup {MyIdentity} :
              \/ GenerateKeypair(p, label) \/ QuickStartKeypair(p, label)
              \/ ImportKeypair(p, label) \/ DeleteKeypair(p, label)
              \/ SetDefaultKeypair(p, label)
        \/ DeployAll(p) \/ DeploymentEnds(p) \/ SetContract(p)
        \/ SwitchNetwork(p) \/ SetRpcUrl(p) \/ ResetConfig(p)
        \/ \E url, contracts \in BOOLEAN : ImportConfig(p, url, contracts)
        \/ ProcessEnds(p) \/ KilledWriting(p)

ConfigSpec == ConfigInit /\ [][ConfigNext]_configVars

-----------------------------------------------------------------------------
\* What a later keypair of the same label took the place of.
Overwritten(k) == \E later \in made : later.label = k.label /\ later.id > k.id

\* Nobody is asked before a keypair is overwritten, so what becomes of each is stated:
\* - one that was made or imported is in the file, unless it was deleted, overwritten by a
\*   later one of its label, or is among those that a process saving over what another
\*   had saved, a failed or a torn write may cost (and no reset, import, switch, deployment
\*   or end of a process costs any other);
\* - without such a save or write the file has exactly the others: what was deleted or
\*   overwritten does not come back;
\* - nor is then a keypair overwritten under a label nobody typed, as long as none was
\*   deleted, except by a second Quick Start: what keypairWizard proposes is free;
\* - every default names a saved keypair.
KeypairsKept ==
    /\ \A k \in made : k \in InFile \/ k \in deleted \/ Overwritten(k) \/ k \in lost
    /\ ~collided => InFile = {k \in made \ deleted : ~Overwritten(k)}
    /\ ~collided /\ deleted = {} =>
          \A k \in made : Overwritten(k) => k.label \in typed \cup {MyIdentity}
    /\ \A c \in file \cup UNION {cfg[p] : p \in Process} : c.default \in Labels(c) \cup {NoLabel}
=============================================================================
