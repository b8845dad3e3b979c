------------------------------- MODULE SdkSetup -------------------------------
(***************************************************************************)
(* How the SDK is configured (src/sdk/src/config.ts) and composed          *)
(* (src/sdk/src/index.ts): presets, builders and merges of configurations, *)
(* an SDK whose clients are made anew when it switches the network, and    *)
(* its own methods, whose parts go through those clients one after the     *)
(* other while the network may be switched between them.                   *)
(*                                                                         *)
(* A configuration refers to its map of contract addresses.  Copying the   *)
(* configuration copies the reference, so that maps are kept apart, under  *)
(* ids; those of the presets have the networks for ids.  An address stands *)
(* for the network its contract is deployed on, a URL for the network its  *)
(* server serves; what validateConfig refuses is Unusable.                 *)
(***************************************************************************)
EXTENDS Naturals, Sequences, FiniteSets

CONSTANTS
    Network,            \* mainnet, testnet, futurenet
    Preset,             \* the one whose preset has addresses: testnet
    Unusable,
    Registry,           \* the contracts
    Task,               \* calls of the SDK's own methods
    MaxSetups,          \* bound: configurations, builders and switches made
    MaxMaps             \* bound: maps of addresses

ASSUME SetupAssumption ==
    /\ Preset \in Network /\ Unusable \notin Network
    /\ Network \cap Nat = {}
    /\ MaxSetups \in Nat /\ MaxMaps \in Nat

VARIABLES
    addresses,          \* per id of a map: the address of each contract
    builders,           \* the configurations inside the ConfigBuilders
    built,              \* configurations handed out
    sdk,                \* the StellarIdentitySDK, at most one, with its clients
    setups,             \* counted for the bound
    work                \* per task: its method, what it awaits, the clients it went through

setupVars == <<addresses, builders, built, sdk, setups, work>>

\* The preset of a network; what is made of it tells where it is from.  Contracts are not deployed on the others yet.
DEFAULT_CONFIGS(n) == [network |-> n, url |-> n, map |-> n, from |-> n]

NoWork == [method |-> "none", at |-> "new", through |-> <<>>, begun |-> 0,
           url |-> Unusable, healthy |-> FALSE]

SetupInit ==
    /\ addresses = [n \in Network |-> [r \in Registry |-> IF n = Preset THEN n ELSE Unusable]]
    /\ builders = {} /\ built = {} /\ sdk = {}
    /\ setups = 0
    /\ work = [t \in Task |-> NoWork]

Setup == setups < MaxSetups /\ setups' = setups + 1
NewMap == Cardinality(DOMAIN addresses \ Network)
Room == NewMap < MaxMaps

\* What a caller passes for a network: addresses of that network for some contracts, one
\* of them perhaps not filled in.
Overrides(n) == UNION {[S -> {n, Unusable}] : S \in SUBSET Registry}
OverrideUrl(n) == {n, Unusable}

-----------------------------------------------------------------------------
(* config.ts *)

ValidContractAddress(a) == a # Unusable

\* Of the network nothing is refused: it is one of the three by its type.
ValidConfig(c, maps) ==
    /\ c.url # Unusable
    /\ \A r \in Registry : ValidContractAddress(maps[c.map][r])

Overridden(contracts, given) ==
    [r \in Registry |-> IF r \in DOMAIN given THEN given[r] ELSE contracts[r]]

\* Fault: the overrides are written over the addresses of the base (NetworksKeptApart).
MergeConfig_InPlace(base, n, url, given) ==
    [config |-> [base EXCEPT !.network = n, !.url = url],
     maps |-> [addresses EXCEPT ![base.map] = Overridden(@, given)]]
\* A map of its own: the overrides, and the addresses of the base as they are now.
MergeConfig(base, n, url, given) ==
    [config |-> [base EXCEPT !.network = n, !.url = url, !.map = NewMap],
     maps |-> [i \in DOMAIN addresses \cup {NewMap} |->
                 IF i = NewMap THEN Overridden(addresses[base.map], given) ELSE addresses[i]]]

\* The base is the preset of testnet, also for another network: what is not given is testnet's.
CreateCustomConfig(n) ==
    /\ Room
    /\ \E given \in Overrides(n), url \in OverrideUrl(n) \cup {Preset} :
          LET m == MergeConfig(DEFAULT_CONFIGS(Preset), n, url, given) IN
          /\ ValidConfig(m.config, m.maps)
          /\ addresses' = m.maps
          /\ built' = built \cup {m.config}
    /\ UNCHANGED <<builders, sdk>>

\* new ConfigBuilder: the copy of the preset refers to the preset's map.
NewBuilder(n) ==
    /\ builders' = builders \cup {DEFAULT_CONFIGS(n)}
    /\ UNCHANGED <<addresses, built, sdk>>

WithRpcUrl(b) ==
    /\ \E url \in OverrideUrl(b.network) : builders' = (builders \ {b}) \cup {[b EXCEPT !.url = url]}
    /\ UNCHANGED <<addresses, built, sdk>>

\* Into the map that every configuration made from the preset refers to.
WithContract(b) ==
    /\ \E r \in Registry, a \in {b.network, Unusable} :
          addresses' = [addresses EXCEPT ![b.map] = [@ EXCEPT ![r] = a]]
    /\ UNCHANGED <<builders, built, sdk>>

Build(b, validate) ==
    /\ validate => ValidConfig(b, addresses)
    /\ built' = built \cup {b}
    /\ UNCHANGED <<addresses, builders, sdk>>

Configure ==
    \/ \E n \in Network : CreateCustomConfig(n) \/ NewBuilder(n)
    \/ \E b \in builders : WithRpcUrl(b) \/ WithContract(b) \/ \E v \in BOOLEAN : Build(b, v)

-----------------------------------------------------------------------------
(* StellarIdentitySDK *)

\* A client keeps the addresses it finds in the configuration when it is made.
Clients(c, maps) == [network |-> c.network, url |-> c.url, contracts |-> maps[c.map],
                     from |-> c.from, made |-> setups']

\* The GDPR engine holds the clients of the start.
NewSdk(c, validate) ==
    /\ sdk = {}
    /\ validate => ValidConfig(c, addresses)
    /\ LET made == Clients(c, addresses) IN
       sdk' = {[config |-> c, clients |-> made, gdpr |-> made, checked |-> validate]}
    /\ UNCHANGED <<addresses, builders, built>>

\* Fault: the clients are made before the configuration is validated (NetworksKeptApart).
Switched_Unvalidated(s, m) ==
    [s EXCEPT !.config = m.config, !.clients = Clients(m.config, m.maps), !.checked = TRUE]
\* The configuration is set first: it stays when it is refused, and the clients stay too.
Switched(s, m) ==
    IF ValidConfig(m.config, m.maps)
    THEN [s EXCEPT !.config = m.config, !.clients = Clients(m.config, m.maps), !.checked = TRUE]
    ELSE [s EXCEPT !.config = m.config]

\* The overrides may name another network than the one to switch to, and win.
SdkSwitchNetwork(s, n) ==
    /\ Room
    /\ \E other \in Network : \E given \in Overrides(other), url \in OverrideUrl(other) \cup {n} :
          LET m == MergeConfig(DEFAULT_CONFIGS(n), other, url, given) IN
          /\ addresses' = m.maps
          /\ sdk' = {Switched(s, m)}
    /\ UNCHANGED <<builders, built>>

Compose ==
    \/ \E c \in built \cup {DEFAULT_CONFIGS(n) : n \in Network}, v \in BOOLEAN : NewSdk(c, v)
    \/ \E s \in sdk, n \in Network : SdkSwitchNetwork(s, n)

-----------------------------------------------------------------------------
(* The methods of the SDK itself. *)

Assembly == <<addresses, builders, built, sdk, setups>>

Begins(t, method, at, parts) ==
    /\ work[t].at = "new"
    /\ \E s \in sdk :
          work' = [work EXCEPT ![t] = [NoWork EXCEPT !.method = method, !.at = at, !.begun = setups,
                                                     !.through = [i \in 1 .. parts |-> s.clients]]]
    /\ UNCHANGED Assembly

\* initializeUserIdentity: the DID first, then the reputation.
InitializeUserIdentity(t) == Begins(t, "initialize", "first", 1)
\* performComplianceCheck: score and credentials together, then their verification.
PerformComplianceCheck(t) == Begins(t, "check", "first", 2)
\* getIdentityProfile: the three together.
GetIdentityProfile(t) == Begins(t, "profile", "last", 3)

\* Fault: the clients of the start are used (NetworksKeptApart).
ClientsNow_Old(s) == s.gdpr
\* The next part goes through the clients the SDK has by then.
ClientsNow(s) == s.clients

NextPart(t) ==
    /\ work[t].at = "first"
    /\ \E s \in sdk :
          work' = [work EXCEPT ![t].at = "last", ![t].through = Append(@, ClientsNow(s))]
    /\ UNCHANGED Assembly

LastPart(t) ==
    /\ work[t].at = "last"
    /\ work' = [work EXCEPT ![t].at = "returned"]
    /\ UNCHANGED Assembly

\* createDID, the reputation or a verification throws; reads that fail have a default.
PartThrows(t) ==
    /\ \/ work[t].method = "initialize" /\ work[t].at \in {"first", "last"}
       \/ work[t].method = "check" /\ work[t].at = "last"
    /\ work' = [work EXCEPT ![t].at = "threw"]
    /\ UNCHANGED Assembly

\* checkHealth: the configuration as it is when asked, clients or not.
CheckHealth(t) ==
    /\ work[t].at = "new"
    /\ \E s \in sdk :
          work' = [work EXCEPT ![t] = [NoWork EXCEPT !.method = "health", !.at = "health",
                                                     !.url = s.config.url]]
    /\ UNCHANGED Assembly

\* Any answer makes it healthy; then the latest ledger is asked for, which may fail.
HealthAnswered(t) ==
    /\ work[t].at = "health"
    /\ \/ /\ work[t].url # Unusable
          /\ work' = [work EXCEPT ![t].at = "ledger", ![t].healthy = TRUE]
       \/ work' = [work EXCEPT ![t].at = "returned"]
    /\ UNCHANGED Assembly

LedgerAnswered(t) ==
    /\ work[t].at = "ledger"
    /\ work' = [work EXCEPT ![t].at = "returned"]
    /\ UNCHANGED Assembly

SetupNext ==
    \/ Setup /\ (Configure \/ Compose) /\ UNCHANGED work
    \/ \E t \in Task :
          \/ InitializeUserIdentity(t) \/ PerformComplianceCheck(t) \/ GetIdentityProfile(t)
          \/ NextPart(t) \/ LastPart(t) \/ PartThrows(t)
          \/ CheckHealth(t) \/ HealthAnswered(t) \/ LedgerAnswered(t)

SetupSpec == SetupInit /\ [][SetupNext]_setupVars

-----------------------------------------------------------------------------
Apart(c, contracts) ==
    \A r \in Registry :
        contracts[r] \in {c.network, c.from, Unusable}

\* Whatever is built, merged and switched, through shared maps as well: a configuration names
\* contracts of its own network only, besides those of the preset that it was made from for
\* another network; so do the clients of the SDK, all of whose addresses can be
\* used once their configuration was validated; the SDK reports another network than its
\* clients' only after a switch was refused; and the parts of one call go through clients of
\* two configurations only when the SDK switched in its course, the later part through the
\* later clients.
NetworksKeptApart ==
    /\ \A c \in built \cup builders \cup {DEFAULT_CONFIGS(n) : n \in Network} \cup {s.config : s \in sdk} :
          Apart(c, addresses[c.map])
    /\ \A s \in sdk :
          /\ \A made \in {s.clients, s.gdpr} : Apart(made, made.contracts)
          /\ s.checked => \A r \in Registry : ValidContractAddress(s.clients.contracts[r])
          /\ s.config.network # s.clients.network => ~ValidConfig(s.config, addresses)
    /\ \A t \in Task : \A i, j \in DOMAIN work[t].through :
          /\ i < j => work[t].through[i].made <= work[t].through[j].made
          /\ work[t].through[i] # work[t].through[j] =>
                \E k \in {i, j} : work[t].through[k].made > work[t].begun
=============================================================================
