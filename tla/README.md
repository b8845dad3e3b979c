# A TLA+ model of the Stellar identity contracts

TLA+ modules, TLC configurations and TLAPS proofs kept beside the code of
stellar-identity-credentials: Soroban contracts in Rust (`src/src/*.rs` here, that is
`src/` of the repository), a TypeScript SDK (`src/sdk/`), a command line, a web interface,
circuits and documents. The models are written from the code, never from its documents;
`PROJECT.json` maps every definition to the lines it stands for.

    tlc -config DIDRecovery.cfg DIDRecovery     # a run: module and .cfg of PROJECT.json
    tlapm DIDRecoveryProofs.tla                 # a proof module

## 1. The system

### What a contract call is

Every public function of a contract is called in a transaction of its own. The host runs
transactions one after the other, and a call that returns `Err` or panics leaves no trace:
its writes, events and locks are rolled back. So nothing interleaves *within* a call; what
is hard is the order of whole calls by many parties, the closing of ledgers between them
(time and sequence number advance, deadlines and windows pass), records that are kept in
two places, decisions taken on records that changed since an earlier call, and the ids.

Ids are the recurring theme: requests, offers, credentials, delegations, registries,
batches, operations, feeds and disputes are all named by `"<prefix>:<timestamp>:<sequence>"`. The functions
that build them take an issuer, a subject or a DID and ignore it. Two calls of one ledger
therefore write the same record, whoever makes them.

### What a call of the SDK is

The SDK, the command line and the web interface are JavaScript: callbacks run one at a
time, and everything interleaves at an `await`. A call reads the account, simulates, signs,
submits and perhaps polls; each of these may fail, be answered late or not at all, and what
was submitted may land although its answer said otherwise. What is hard is what a call read
before an `await` and uses after it, answers that cross, several callers of one cache,
timers and event handlers of what was replaced, and callbacks that change the list being
walked.

### Components

| Component (code) | State | Operations | Depends on | What makes it correct |
|---|---|---|---|---|
| DID recovery (`did_recovery.rs`) | per DID a configuration, guardians, an id list; requests; a global index | configure, update, deactivate, add/remove guardian, initiate, approve, execute, cancel | ledger time | one pending request per DID; no handover without the approvals asked for, before the lock, or twice; what can be executed is not blocked for good; a threshold the guardians can meet stays so until one is removed |
| DID documents (`did_registry.rs`) | document per DID, DID per controller | create, update, deactivate, add/remove authentication | rate limiter | a document stays with its controller; deactivation is final; the address map names a document of its address |
| Multi-signature (`did_registry.rs`) | signers and threshold per DID, operations | configure, add/remove signer, threshold, create, sign, execute | documents | executed operations were approved; nothing changes after; what can be approved gets executed |
| Credential issuance (`credential_issuer.rs`) | record, status, reason per credential; lists per issuer and subject | issue, batch issue, renew, verify, revoke, revoke expired | rate limiter, reentrancy guard, schema registry, admin | the two records of a revocation agree; revoked and expired credentials stay invalid; bulk revocation reaches all |
| Delegation (`credential_issuer.rs`) | delegations and their lists | authorize, revoke, issue | issuance | never more, later or after revocation than granted |
| Revocation registries (`credential_issuer.rs`) | registries, proofs, batch records | create, revoke into, batch revoke, verify proof | issuance | registries, proofs and statuses tell one story; proofs verify for ever |
| Credential offers (`credential_offer.rs`) | offer, status record, credential; lists | create, accept, reject, cancel, two reads that write | ledger time | accepted in time; settled once; one credential per acceptance |
| Rate limiter (`rate_limiter.rs`) | a bucket per caller and function, in temporary storage | check | host's time to live | the limit per window; the bucket outlives its window |
| Upgrade governance (`contract_upgrade_governance.rs`) | governors, configuration, proposals, votes, simulations, snapshots | register, remove, configure, pause, propose, vote, execute, roll back | ledger time | one vote each; decisions are those of their votes; nothing runs before its lock |
| Reputation oracle (`reputation_oracle.rs`) | oracles, feeds, disputes, impacts applied | register, submit, process, dispute, resolve, slash, suspend, reactivate, deactivate | ledger | each feed counts once; disputes are settled once; slashed oracles are suspended |
| Reputation score (`reputation_score.rs`) | score and bounded history per address | update, attest, verify | | clamped arithmetic of single calls |
| Compliance filter (`compliance_filter.rs`) | sanctions lists, scores, audit entries | update, load, add, remove, screen, report | ledger time | who is listed or risky is refused, and nobody else; stale scores stop counting |
| Reentrancy guard, admin, audit trail, storage helpers | locks, roles, logs | around other calls | | no state a caller could see between calls (guard); see section 6 (admin) |
| Schema registry (`schema_registry.rs`) | versioned schemas | register, update, get | | the latest version is found (it is not: section 6) |
| Status lists (`status_list.rs`) | a bitstring per list | create, set, batch, deactivate | | single writes by one issuer |
| Zero-knowledge, regulatory, privacy contracts | circuits, proofs, reports, rules | | | cryptography and data formats |
| SDK retry and circuit breaker (`retry.ts`) | circuit state, counters | execute, reset | timers | whatever the order of answers, the circuit opens and closes at its thresholds and shields the service while open; it closes once the service is back |
| SDK event subscriber (`eventSubscriber.ts`) | socket, timers, queues, subscriptions | connect, disconnect, subscribe, pause, flush | WebSocket callbacks, timers | one live connection, none after disconnect; events once each, in order, at last |
| SDK DID client, resolver, caches (`didClient.ts`, `didResolver.ts`, `cacheManager.ts`) | three caches | create, update, deactivate, edit, resolve | RPC, ledger, HTTP | a change is applied once; own changes are seen; edits are kept; caches converge |
| SDK credential client (`credentialClient.ts`) | cached verdicts | issue, verify, revoke, list | RPC, ledger | verdicts are right or do not last |
| SDK service clients (`zkProofs.ts`, `reputation.ts`, `compliance.ts`, `regulatoryReporting.ts`, `gdpr.ts`) | consents, records | submit, read, screen, export | RPC, ledger | an answer says what happened; it is not put together from different times |
| SDK configuration and composition (`config.ts`, `index.ts`) | presets, maps, clients | build, merge, validate, switch network | | networks are kept apart |
| SDK errors, monitors, logger, compression (`errors.ts`, `networkMonitor.ts`, `errorMonitor.ts`, `logger.ts`, `compression.ts`) | tables, counters, hooks, histories | map, record, capture, log, compress | callbacks, timers | refusals are understood; counts are exact; histories and payloads are not mixed up |
| Command line (`cli/index.ts`) | configuration file, session | menus | files, other processes | keypairs are kept; what is revoked is not shown as valid |
| Web interface (`ui/src`) | session, panels, wizard | connect, load, change, recover | SDK | panels show their address; the wizard executes what was approved |
| Payment page, wallet connectors (`frontend/level1-app`, `walletConnector.ts`) | account, message, balance | connect, fund, pay, sign | wallet, Horizon | payments come from the account shown, once per click |
| Examples, circuits, gateway, benchmarks | none | | | |

The credential issuer is the only contract that calls others: the rate limiter, the
reentrancy guard, and (never successfully, see section 6) the admin module and the schema
registry. `did_registry.rs` calls the rate limiter. The SDK calls contracts through the
network, one transaction per call; the web interface calls the SDK. Of the contract sources, `lib.rs`
compiles admin, audit_trail, compliance_filter, credential_issuer, credential_offer,
did_recovery, did_registry, gas_benchmark, performance_optimizer, rate_limiter,
reentrancy_guard, reputation_oracle, reputation_score, schema_registry, status_list,
storage_optimization and zk_attestation.

The hazards, each at its line and with the properties that cover it, are in
`PROJECT.json`.

## 2. Plan

Done, in this order: recovery (the handover of an identity is the gravest thing the system
does), documents and multi-signature, issuance with its delegations and registries,
offers, the rate limiter they share, the connection of the event subscriber; then the rest
of the SDK (circuit breaker, event delivery, clients and caches, screening and services,
configuration, monitors), the command line, the web interface and the payment page; then
governance and the oracle. Proofs followed in the same order: every safety property a run
checks is a theorem now, and what recovery promises is shown to be implemented.

Left, in this order:

1. Abstract specifications: an offer like `RecoveryLifecycle`, and a cache that may be stale
   for a while, which `RegistryClients` and `CredentialVerdicts` should implement.
2. `ReputationScore` beside the oracle, should the contracts come to call each other.
3. The oracle, the scores and the screening of one deployment together: today they share
   no state, so nothing composes.

## 3. Modules

| Module | Models |
|---|---|
| `RateLimit` | the arithmetic of `check_rate_limit`: windows, counts, limits |
| `RateLimiter` | the limiter over time, with temporary storage and its time to live |
| `DIDRecovery` | the recovery contract |
| `RecoveryLifecycle` | what it promises about one request, abstractly |
| `DIDRegistry`, `DIDMultiSig` | documents; multi-signature operations over them (EXTENDS) |
| `CredentialIssuer` | issuance, renewal, revocation |
| `CredentialDelegation`, `RevocationRegistry` | the rest of that contract, each composed with the core (EXTENDS) |
| `CredentialOffer` | the offer contract |
| `UpgradeGovernance` | governors, votes, decisions, execution and rollback |
| `ReputationOracle` | oracles, feeds, disputes, slashing |
| `Screening` | the compliance filter and the SDK's client of it |
| `EventConnection` | the event subscriber's WebSocket with its timers |
| `EventDelivery` | its subscriptions, queues, batch timers and deduplication |
| `RetryBreaker` | retry loops over one circuit breaker |
| `RegistryClients` | DID client and resolver: transactions, polling, caches |
| `DidEdits` | what edits of a document by either keep of each other |
| `CredentialVerdicts` | verification, its cached verdicts, revocation |
| `ServiceClients` | the clients that submit and do not wait |
| `ClientReads` | the methods that read, each in several simulations |
| `GdprConsents` | consents and their withdrawal |
| `SdkSetup` | presets, builders, merges, network switches, composed calls |
| `ErrorMapping` | refusals and failures as the SDK's errors, and retrying on them |
| `NetworkMonitor`, `ErrorHub`, `LoggerTree`, `PayloadBatches` | network monitor, error monitor, loggers, compression |
| `CliConfig`, `CliSession` | the command line: its file, its session |
| `RecoveryWizard`, `IdentityPanels` | the web interface: recovery wizard, hooks and panels |
| `PaymentApp` | the payment page and the wallet connectors |
| `MCSdk`, `MCFront`, `MCContracts` | several of these side by side, for TLC |
| `MCCredentialIssuer`, `MCCredentialDelegation` | instances with defined constants |
| `SumProofs` | lemmas about sums over finite sets, for the proofs of what is added up |
| `DIDRecoveryProofs`, `DIDMultiSigProofs`, `CredentialOfferProofs` | theorems about the module of that name; the first also the refinement of `RecoveryLifecycle` |
| `CredentialIssuerProofs` | theorems about `CredentialIssuer`, `CredentialDelegation` and `RevocationRegistry` |
| `ContractProofs` | theorems about `RateLimiter`, `UpgradeGovernance`, `ReputationOracle`, `Screening` |
| `SdkProofs` | theorems about `RetryBreaker`, `RegistryClients`, `EventConnection`, `EventDelivery`, `ClientReads`, `GdprConsents`, `DidEdits`, `NetworkMonitor`, `LoggerTree`, `PayloadBatches` |
| `FrontProofs` | theorems about `CliConfig`, `CliSession`, `ServiceClients`, `RecoveryWizard`, `IdentityPanels`, `SdkSetup`, `PaymentApp`, `ErrorMapping`, `ErrorHub` |

Every other run instantiates the component's own module. A `.cfg` has the name of its run's
module, with a suffix where a module has several.

`MCSdk`, `MCFront` and `MCContracts` put modules that share no state into one run: `active`,
chosen at the start, is the module that takes all the steps, and the variables of the others
stay at their initial values. The states of the run are thus those of one module *or*
another, and a property of one is checked exactly as in a run of its own. Fairness is asked
of the active module's actions only. Modules that do interact are composed by EXTENDS:
`DIDMultiSig` over `DIDRegistry`, `CredentialDelegation` and `RevocationRegistry` over
`CredentialIssuer`, all over `RateLimit`; `Screening` has the contract and its client in one
module, `PaymentApp` page, wallet and ledger.

Conventions. A variable is one kind of storage key, a function from its argument to the
record or `None`. An action is one function of the contract returning `Ok`, in full: the
guard is the conjunction of its checks, and all its writes are in the one step. A call
that returns `Err` or traps changes nothing and is a stuttering step, so a refused call
needs no action. `require_auth` says that the address passed has signed; the actions take
any address, and the comparison with a stored one is a guard where the code makes it.
`now` is the ledger: its timestamp, its sequence number and, since nothing else enters
them, every id created in it. `Tick` or `CloseLedger` closes it; any number of calls fit
between two closes. Lists whose order and repetition nobody sees are sets; the issuer's
credential list, the offer lists, signer lists and registries are sequences. Names,
reasons, data and proofs are left out unless an operation reads them.

`EventConnection` is a JavaScript object: callbacks run one at a time, so an action is one
call, one socket event or one timer. `socket` holds every WebSocket, replaced ones
included: `close()` makes one `closing` at once and its close event (`CloseCompletes`) comes
at any later time, to a handler that shares `ws`, the timer and the heartbeat with its
successor. `reconnectTimer` is whether that timer is pending (the handle stays set after it
fired, which nobody can tell); `heartbeat` joins the interval and the timeout timer, which
cannot overlap since a tick comes every 20 s and an answer is awaited for 10 s. Back-off
delays, attempt counts and messages are left out: every delay is "some time". `GoesSilent`
is a peer that is gone without a close event, which only the heartbeat can notice.

`F_Fault` next to `F` is a faulty variant that no action uses, of the kind a change to the
code could introduce (a dropped check, a comparison off by one, a missed write). With it
in place of `F`, the property named in its comment is violated in the run that checks it:
each property can fail.

The modules of the SDK, the command line and the interface follow the same rules with other
units. A call in flight is a record with a field `at`, the `await` it is held up at, and
fields for the local variables it still needs; the code between two awaits is one action.
Sources outside the program (RPC server, ledger, wallet, timers, users) are actions that may
come at any time, bounded in number; a source is read when it answers and the answer may
arrive later. What was submitted lands at once, later or never, whatever its answer. Of
documents, balances and contract states a version is kept, the number of changes made.
Delays are "some time", except where clocks are compared (`NetworkMonitor`, `Screening`,
`RateLimiter`), where they are ticks. Hooks and callbacks are the caller's code: in
`ErrorHub` they may capture, subscribe, unsubscribe and clear while a list is walked.
What is kept in lists nobody sees the order of is a set: the transports of a logger in
`LoggerTree`, and the alerts of `NetworkMonitor`, where one record stands for the entries
that one alert makes for its channels.
Functions that throw have an action that ends in "threw", since callers go on after it.

History variables (`via`, `reused`, `emptied`, `let_through`, `terms`, `applied`, `said` and
the others so named in the modules) are read by properties only.

Two forms of specification. `Spec` lets callers do anything at any time, id collisions
included. `SpecSpaced` (`NextSpaced`) is the same contract under callers that create at most
one thing of a kind per ledger, so that no id is given out twice: what is promised to such
callers is stated under it. On the public network the second form is not something one
caller can arrange for all others; a property that holds only there says so.

## 4. What TLC checks

| Run | Instance | Distinct states | Shows |
|---|---|---|---|
| `recovery` | 1 DID, 2 addresses, ledgers 0-1, thresholds 0-2, locks 0-1 | 275,000 | `RecoverySound`: no handover with fewer approvals than asked for or before its lock, thresholds in reach stay so until a removal; `KeepsLifecycle`: implements `RecoveryLifecycle`; executable requests are resolved |
| `did_registry` | 1 DID, 2 addresses, ledgers 0-1, up to 2 signers, thresholds 0-3 | 31,000 | `MultiSigSound`: approvals behind executed operations, documents and operations that never change again; execution of what is reachable |
| `issuer` | 2 addresses, ledgers 0-1, batches of up to 2, limit 2 per window, 3 issued | 17,500 | `RevocationsSound`: the two records of revocation agree, revoked and expired stay so, under any calls |
| `revocation` | 2 addresses, ledgers 0-1, batches of up to 2 ids, 2 credentials, 2 registries | 243,000 | `RegistriesTrustworthy`: registries, proofs and statuses; bulk revocation gets everywhere |
| `delegation` | 2 addresses, ledgers 0-2, limits 1-2, 3 credentials | 248,000 | `DelegationHonoured`: nothing beyond the delegation |
| `offer` | 2 addresses, ledgers 0-2, 3 offers | 127,000 | `OffersSound`: acceptance in time, two status records, credentials behind acceptances, settled once; overdue offers are settled |
| `contracts` | limiter: 2 keys, ledgers of 5 or 6 s, window 11 s, 2 calls, 27 s; governance: 2 governors, 1 proposal and its rollbacks, 4 ticks, 5 calls; oracle: 2 oracles, 2 ledgers, 2 disputers, 6 calls | 824,000 | `LimitKept`, `SumsExact`, `GovernanceSound`, `OraclesAccountable` |
| `sdk` | 8 modules, 1-2 concurrent calls each; 3 sockets, 4 calls, 3 failures; queues of 2; 3 edits | 318,000 | circuit breaker, DID client and resolver, connection, delivery, verdicts, reads, consents, edits; five liveness properties |
| `front` | 13 modules: 2 processes, 2 service calls, 2 addresses and accounts, 3 entries or clicks, 10 ticks of the monitor | 1,082,000 | command line, web interface, payment page, services, screening, monitors, loggers, compression, errors, configuration |
| `connection_tangled` | 3 sockets, 2 calls, no failure | violated | a replaced socket's close event sets off reconnects without end |
| `issuer_batch` | as `issuer`, 2 issued | violated | a batch of two leaves one credential |
| `limiter_sliding` | 1 key | violated | the window does not slide |

A property whose name ends in `Sound`, `Kept` or the like is a conjunction of named parts,
each with its comment in the module; where parts speak of a state and others of a step it is
one formula `[][P' /\ A]_v`, which says `[](P /\ [A]_v)` but for `P` in the initial states.

### The bounds and why they are enough

*Two addresses* play every role, the same address in several at once included: holder and
issuer of one offer, delegator and delegate, guardian and new controller, signer named
twice. A third address would add a third approval; what distinguishes "none", "some" and
"enough" approvals already happens with thresholds 1 and 2, and thresholds 0 and one above
the number of signers are passed too. *Two ledgers* give every pair of calls the choice of
sharing a ledger or not, an id before and an id after, and a deadline in the present, past
or future; delegations and offers get three, so that a date can lie strictly between two
calls. A time lock of 1 opened in the last ledger ends after the modelled time, and
`ExecutableResolved` excludes it. *One DID* in `recovery` is enough for a spaced run: no
action but `initiate_recovery` reads another DID's records, and it reaches them through
collisions only, which the proofs cover for any number of DIDs. *Batches of two* repeat an
id, mix revoked and unrevoked ones, exceed the rate limit halfway and overwrite a record.
*The limit of the rate limiter* is 1 or 2 calls per window of one ledger in the contracts
that use it and 2 per 11 seconds in `RateLimiter`, which has two and a half windows.
*Governance* has a quorum of one vote of two and one proposal: what a second open proposal
would add, a rollback proposal adds, which `MaxProposals` does not limit; five calls are
enough to propose, decide, execute, roll back and vote again, or to vote on both sides of a
removal, a registration, a change of terms and a pause. *The oracle* is suspended at two
slashes instead of three, so that six calls reach a slash by dispute, one by hand and a
reactivation between them; two ledgers let a feed be replaced in its ledger and stay after.
`MaxIssued`, `MaxOffers`, `MaxSigners`, `MaxBatch` and `MaxTime` cap what would grow
without bound, in the guards, and are constants everywhere. `U32Max` and `U64Max` stand for
the widths; additions beyond them trap, so the call is refused.

*Three sockets* let two that were replaced outlive the current one, which is what the late
close events need; with none free a reconnect waits for a close event. Four calls suffice for
connect, disconnect, connect and a pause, three failures for a refused, a silent and a lost
connection in one behaviour; the theorems hold for any number of each.

*In the SDK* two calls in flight make every answer late with respect to another call's; what
a third would meet (a circuit opened twice, a cache filled by a late answer) a second call
of the same caller meets as well, since calls are made again within the bounds on attempts,
polls, messages and changes. Three event ids exceed a memory of one and a queue of two, in
either order. Two processes of the command line give every read-change-write of the file a
rival, two addresses and accounts every load an outdated one. The monitor's window of three
values with deviation two is below the `Deviation^2 + 1` at which an anomaly can be found at
all, and ten ticks make it full and cut; two loggers and three changes share an array in
every way; a batch of three over two workers leaves each worker waiting
while the other goes on. Two hooks and two classes of errors let each hook be
subscribed to all, to the class of an event, to the other class or to none, and the texts of a
refusal match nothing, a failure that passes, one that does not, or both.

Symmetry over addresses and keys is used in the runs without liveness properties only.
Deadlock is not checked: at the last ledger, with everything settled, the models stop,
which is the bound and not the code.

### Fairness

Safety and action properties need none. The liveness properties assume that ledgers keep
closing (the network does that whatever the contracts do), and that *somebody keeps
calling*: no contract schedules anything itself, so a claim that something eventually
happens can only be that it is not blocked. `ExecutableResolved`: someone keeps calling
`execute_recovery` on each request, with weak fairness, which lets every other call,
deactivation and removals included, come in between. `ExecutedOnceSteady`: each signer
keeps signing and someone keeps executing; it is claimed only for behaviours in which
signers and thresholds settle, which the premise says. `ExpiredCleared`: each issuer keeps
calling `revoke_expired_credentials` with a batch of one. `OverdueSettled`: someone keeps
polling `get_offer_status`. `SettlesOrTangles`: a socket that is connecting opens or fails,
a close event comes, a peer that is there answers a ping, and pending timers fire, each
with weak fairness, as the WebSocket API and the event loop guarantee; calls and failures
are finitely many by their bounds. `BreakerRecovers`: callers keep calling, attempts are
answered, sleeps end and the reset timeout passes; nothing says that answers are good before
the service is back. `CachesConverge` and `VerdictsSettle`: entries of the caches expire,
which their lifetimes ensure. `QueuesDrain`: a batch timer that runs ticks. `Maintained` is checked under `PromptSpec`, where in
addition the reconnect timer only fires when no socket is on its way up or down, so that
its violation does not rest on a close event that is slower than the timer. No fairness is put on calls that a party may simply not make
(approving a recovery, accepting an offer).

## 5. What is proved

For every number of DIDs, addresses, ledgers, every threshold, lock, window and limit that
the named assumptions admit. Assumptions about constants: `None` is no address, number or
record; `Address` is finite where approvals are counted; bounds are naturals.

Every safety property that a passing run checks is itself a theorem, for all values of the
constants: 24 invariants and step formulas, and the refinement. Each proof has an inductive
invariant, of which the property is a part or a consequence; what the invariant adds, and
why the property alone is not inductive, is the subject of the paragraphs below. Every proof
has one lemma per action (`...Keeps`), one that puts them together, and the theorem.

**Recovery** (`DIDRecoveryProofs`). `RecoveryAlwaysSound` from `Safety`, for any calls, by
`IInv`. Its parts lean on one another: *at most one pending request* needs *every request is
on the list of the DID it names*, since the guard of `initiate_recovery` sees that list only
and an id may be reused for another DID; *no social handover without the approvals asked for* and *no
handover before the lock* need *a request has the method its DID's configuration has, and an
expiry exactly when that is the time lock*, because `execute_recovery` looks at the
configuration and not at the request. How many approvals were asked for is the lowest
threshold in force while the request was pending (the history `leastAsked`, never below one
by `ThresholdsHeld`): `execute_recovery` does not compare them with the threshold again, so
that one raised in between takes nothing back. *The guardian counter is bounded by the active
guardians* is preserved by removals of inactive guardians because these only lower it; from
it follows that `update_recovery_config`, which compares with the counter, puts no threshold
out of reach that was within it (`ReachStep`). That a threshold is in reach is no invariant,
since `configure_recovery` takes any before there is a guardian (section 6). For
callers with one request per ledger, id lists are exact (`ListsExact`), the terms of a
request never move (`TermsKept`), `recovery_count` counts the executed requests
(`EveryHandoverCounted`, by cardinalities), and each step implements a step of
`RecoveryLifecycle` or a stutter (`ImplementsLifecycle`).

**Multi-signature** (`DIDMultiSigProofs`). `ExecutionApproved` by `IInv`: a configuration
has a threshold between one and its signers unless its last signer was removed
(`ThresholdsMet`), so an executed operation of any other DID had at least one approval.
`ControllersNamed`: the address map names a document of the address, created no earlier than
any other; without "no document is dated ahead" (`CreatedPast`) this is not inductive.
`DocumentsFinal` and `OperationsFinal` are the two action properties; `MultiSigAlwaysSound`
is all of it in one step formula.

**Issuance, delegations, registries** (`CredentialIssuerProofs`). `RevocationsAlwaysSound`
by `IInv`, for any addresses, expiries, limits and batch sizes: an issuing call, whatever
its batch, writes the entry of its own ledger and leaves it unrevoked in both places
(`IssueEffect`); both ways to revoke mark a set of stored, unrevoked credentials in both
places (`RevokeEffect`), for bulk revocation because its walk only stops at overdue ones. So
the two records agree, and since the id of a closed ledger is never given out again, a
revocation is final. `DelegationAlwaysHonoured` and `RegistriesAlwaysTrustworthy` take these
lemmas over for the composed contract. The first adds that delegations are dated by their
ledger and that what was issued through one is counted in it (`GrantsDated`,
`IssuedWithinDelegation`); the second that a credential has a proof exactly when one
registry lists it, once, and that batches name revoked credentials only, which a batch that
repeats an id keeps because the second occurrence is skipped.

**Offers** (`CredentialOfferProofs`). `OffersAlwaysSound` by `IInv`: every acceptance lies
in time, the status record lags behind by an expiry only, and each credential stands behind
an accepted offer unless an id was given out again; the strengthening `IdsDated` says that
records are dated by the ledger that names them, so that what is created now replaces only
what this ledger created.

**Rate limiter** (`ContractProofs`). `OutlivesWindow`: the bucket is there as long as its
window, for every window, limit and minimum time to live, *if no ledger takes less than five
seconds*. The assumption is the `/ 5` of line 119; with faster ledgers the theorem is false
and a caller gets a fresh bucket early. `LimitAlwaysKept` follows: an interval as long as a
window meets two buckets at most, and the first call of the earlier is a full window older
than that of the later, so that fewer than twice the limit get through.

**Governance and oracle** (`ContractProofs`). `GovernanceAlwaysSound`: with every decided
proposal goes the configuration and index it was decided with (`terms`), so that a decision
stays that of its votes although terms and governors change; a rollback needs what it rolls
back to be executed before, which is a statement about another proposal and hence part of
the invariant. `OraclesAlwaysAccountable`: one dispute per party and feed, upheld disputes
are slashes, and successes are submissions that wait no longer. `SumsAlwaysExact` says that
what both contracts add up as they go, the tallies of a proposal and the cached reputation
of a subject, is the sum of its parts. For tallies it needs that whoever has a vote on
record is registered, since a registered governor is not registered again and so keeps the
power its vote was counted with (`VotersKnown`); for reputations that every submission has a
number of its own, and that one whose feed waits was applied to nobody (`SerialsSound`).

**Compliance filter and its client** (`ContractProofs`). `AlarmsAlwaysExact`: at most one
result is stored, and its score is the last one said or none; a high score is left as it was
said until it is too old.

**Sums** (`SumProofs`). `SumFunctionOnSet` is a recursion over subsets, of which TLA+ only
says that it is *some* solution of its equation if there is one. So that there is one is
proved first, for subsets of up to n elements and all n (`SummedUpTo`); then that a sum may
take its elements in any order (`SumTakesAny`), moves with each of its numbers
(`SumMovesWith`), and that the square of a sum is bounded by the sum of the squares
(`SquareOfSum`). Induction is over a set of natural numbers, `{n \in Nat : ...}`, by the
well-foundedness of `<` (`AllNumbers`), which needs no operator as a parameter.

**SDK** (`SdkProofs`). For any number of calls, documents, sockets and entries.
`ConnectionAlwaysSound` (event subscriber): *an open socket is watched or about to be
replaced* survives the close event of a predecessor, which stops the heartbeat, only because
that event also schedules a reconnect, which it does while a connection is wanted, which a
current socket implies by *quiet after disconnect*; *connected is backed* needs *only the
current socket is alive*, so that whatever is closed leaves a close event to come.
`AlwaysInOrderOnce` (delivery): the ids remembered are the last ones received, so an id let
through again is long past; per subscription what was handed over and then what is queued
rise in one order, and with what was dropped add up to what reached it. `CircuitAlwaysSound`
(circuit breaker): the counts of the circuit are those of the failures heard in a row, and of
the successes since the trials began, as far as its state looks at them; a call under way
has made one more attempt than it has begun since the circuit opened. `ChangesAlwaysHonoured` (DID client): no
entry and *no answer on its way to an entry* is older than what was confirmed, unless it was
overtaken. `EditsAlwaysKept`: what an edit in flight carries was read from a document that
had all edits up to a number it knows, and the list of services is well sized in every
document. `ReadsAlwaysExplained`: the parts a call has so far are no older than its start
and no newer than the ledger, lists before details. `WithdrawalsAlwaysHold`: a consent
is marked exactly if it is the first under its id and was there at a withdrawal of that id,
because the search finds the first, and what is recorded later stands after it.
`MonitorAlwaysHonest` (network monitor): the last
period is the one of the last transaction, periods are in the order of their intervals and
the last has no transactions of a later interval, which makes each count exact across any
gaps; no alert of a kind is later than the time noted of it, so that the next one is a
cooldown after all of them; and the console has the alert of that time unless it was off, so
that a breach within the cooldown was reported. That a window of at most `Deviation^2 + 1`
values finds no anomaly is Samuelson's inequality (no value is further from the mean of n
than `sqrt(n - 1)` standard deviations), proved for integers with both sides squared.
`HistoriesAlwaysOwn` (logger): a history stands in the array of its logger, from where only
`removeTransport` takes it. `PayloadsAlwaysSurvive` (compression): a worker that waits has
an item of its own that the cursor has passed, and what the cursor has passed is waited for
or has its entry.

**Command line, interface, composition** (`FrontProofs`). `AlwaysExecutesWhatWasApproved`
(wizard): what is on the screen is what the request in flight carries and, from the approval
on, what was approved. `PanelsAlwaysSettle`: data of another account have a load on the way
that replaces them, or an error shown. `KeypairsAlwaysKept`: a process in step
with the file has dropped nothing from it but what it deleted or overwrote, so that what a
save may cost is known when a process that is not in step saves; unless that happened or a
write failed, the file has what is kept. A number nobody typed is no larger than the number of
labels in use, so that until something is deleted the next one proposed is free.
`SessionAlwaysTruthful`: credentials are numbered without gaps, so that the number a menu
revokes is one credential. `CallsAlwaysReported` (service clients): what landed of a call
and what may still land was sent, and values that landed are later than what the call began
with. `NetworksAlwaysApart`: a configuration refers to a preset's map for its own network
only, and a call that was begun goes on through the clients it began with.
`PaymentsAlwaysHonest`: a click has one payment, with its handler, floating, or landed, and
a page that one handler has for itself shows that handler's account.
`RefusalsAlwaysUnderstood`: every
answer that was tried again is retryable, and for each form of a refusal the tables say when
that is so.
`ErrorsAlwaysAccounted` (error monitor): a capture is a walk with a place and an end fixed
when it began: the hooks called are those at the places passed, and a hook that is due
stands at a place to come or was called; since a walk over a class holds on to the list it
began with, this survives captures nested in hooks. That nobody is called too often is a second
invariant: what a walk may still call was offered to its event by a subscription once more
than it was called (`OffersSound`), lists are those of the subscriptions (`SubsExact`), and
no two classes share a list (`ListsApart`).

Model-checked only: liveness, since fairness and ENABLED are outside the prover's reach
(`ExecutableResolved`, `ExecutedOnceSteady`, `ExpiredCleared`, `OverdueSettled`,
`BreakerRecovers`, `SettlesOrTangles`, `QueuesDrain`, `CachesConverge`, `VerdictsSettle`).
`CredentialVerdicts` has only properties of that kind.

## 6. Where the code and what is said of it differ

Three are runs (`connection_tangled`, `issuer_batch`, `limiter_sliding`) and findings in `PROJECT.json`. The others
were met while modelling; the models follow the code.

- *Ids.* `credential_offer.rs:632` speaks of a unique credential id, and
  `docs/SECURITY_AUDIT_PREP.md:50` derives the credential id from issuer and subject; ids
  depend on the ledger only. Consequences inside one ledger: a request, offer or operation
  is replaced by the next one, also of another DID or issuer; a revoked credential is
  issued again and valid (`docs/cli-guide.md:127` calls revocation permanent); a renewal
  in the ledger of the issue overwrites the original (`credential_issuer.rs:691`); a
  cancelled offer's id comes back pending (`credential_offer.rs:379`). All action
  properties therefore speak of ledgers that have closed, and say so.
- *Recovery.* `total_guardians` ("Total number of guardians", `did_recovery.rs:90`) drifts
  below the number of active guardians when one is removed twice, and a removed guardian
  cannot be added again. "Once enough guardians have approved (>= threshold), the recovery
  can be executed" (447): a threshold lowered later is not looked at until another guardian
  approves. A time-locked recovery does not trigger automatically (11): somebody must call
  execute. An Approved request is not pending, so a second request may be opened beside it, and
  `get_pending_recovery` returns either. Comments at 159, 237, 349 and 600 name the
  controller or the initiator as the only caller; the address passed has to sign and is
  compared with nothing, so the models let anybody make these calls, and no property says who
  does. `configure_recovery` accepts any threshold while there is no guardian, and
  `remove_guardian` leaves the threshold as it is, so that a DID may have one its guardians
  cannot meet. `recovery_count` ("Number of recovery requests made", 102) counts the executed
  ones.
- *Multi-signature.* Removing the last signer leaves a threshold of zero, under which
  operations execute without an approval (`emptied` in the model). A signer may be
  configured twice, so a threshold can be out of reach. Signers of a deactivated DID can
  still be changed (`docs/SECURITY_AUDIT_PREP.md:122`).
- *Offers.* An overdue offer may still be rejected (`credential_offer.rs:329`);
  `get_offer` expires the offer but not its status record.
- *Issuance.* `issue_credential_with_schema` asks the schema registry for the latest
  version, which is looked up under a key that no function writes, and returns
  SchemaNotFound always (`integration_tests.rs:513` expects success). `authorize_issuer` and
  `deauthorize_issuer` ask the admin module, which no contract initialises, and always
  return Err; nothing consults the authorised issuers. Delegated issuance is not rate
  limited (`rate_limiter.rs:140` says "10 per 60 seconds per issuer").
- *Governance.* A call that returns `ProposalExpired` is rolled back, so no proposal is ever
  Expired, and one that is undecided when its voting ends stays Active for good, since only
  a vote decides. The quorum compares powers with the number of addresses ever registered,
  removed and repeated ones included; a removed governor cannot be registered again. The
  lock of a rollback runs while its votes are cast, so its window may end before its voting
  does. `record_simulation` is open to anybody and a failure recorded last blocks the
  execution; `executed_at` is never set; the hash to roll back to is what the executor says.
- *Oracle.* "Deactivate an oracle permanently" (`reputation_oracle.rs:489`): a slash turns
  Deactivated into Suspended, from which it can be reactivated. Any authenticated caller
  passes for "admin". A feed replaced within its ledger is lost, its dispute stays with the
  oracle of the first.
- *Compliance.* A kept score of 70 or less is dated anew by every screening and never goes
  stale; refused screenings roll back and leave no audit entry; `append_audit` keeps one
  entry per address and timestamp (`compliance_filter.rs:1091`), in which case
  `file_regulatory_report` silently succeeds; `batch_add` adds to inactive lists. The SDK
  takes any text with a "1" for blocked and any other failure for clear, calls `screen_did`,
  which does not exist, and `get_regulatory_report` with one key for two.
- *Compilation.* `contract_upgrade_governance.rs` is not in `lib.rs`. `schema_registry.rs` returns a key of another type than it declares, and
  `CredentialIssuerError` has a discriminant twice: the crate does not compile as it is, and
  the models take the evident meaning.

In the SDK:

- *Event subscriber.* "Whether the WebSocket is currently open and ready"
  (`eventSubscriber.ts:472`): after a heartbeat timeout `isConnected` stays true until the
  close event, and after the close event of a replaced socket it is false although the
  current one is open. `pauseAll` after `disconnect` followed by the close event leaves the
  state "reconnecting" with nothing scheduled. "Events received while paused are still
  tracked in subscription queues if batching is enabled" (383-384): `dispatchEvent` skips
  paused subscriptions (644), and a flush delivers what a paused one has queued.
  `disconnect` stops the batch timers for good (376).
- *Retry.* "persistently-open circuit prevents retries from firing" (`retry.ts:329`): loops
  that were admitted before go on retrying, each with fewer than `maxAttempts` attempts.
  Answers count in the state they arrive in: a late success of a call admitted while the
  circuit was closed counts as a trial and may close it, late failures count in a circuit
  that has closed meanwhile (294-315).
- *DID client and resolver.* A read under way when a change invalidates the cache stores its
  old answer afterwards (`didClient.ts:116` speaks of automatic invalidation), and a DID
  with a suffix is never invalidated (307, 333, 632). `TRY_AGAIN_LATER` is taken for
  submitted. `addService` and `updateVerificationMethod` write back the document as resolved
  and may lose what others added, or what the same caller added before. `create_did` caps
  ids and endpoints at 128 and 512, `update_did` caps nothing, the client has limits of its
  own and the resolver none. After an RPC error the resolver falls back to sources that may
  show a deactivated DID as active.
- *Credential client.* `revoked` is always false (134); `issueCredential` returns
  `cred-<now>`; issue and revoke calls omit the issuer argument; milliseconds meet seconds
  in the expiry; compressed credentials cannot be read back; `verifyPresentation` checks
  neither signature nor holder.
- *Reads and services.* `get_reputation_data`, `calculate_reputation`, `reset_reputation`,
  `verify_age_proof` do not exist in the contracts, so that their callers always throw or use a
  default (`index.ts:369`: score 80). Parsers expect positional fields where structs are
  named. Senders that do not wait return an id although the submission was refused. An
  update's value may count it twice or come from a transaction that never lands. "Exports
  all known data" (`gdpr.ts:66`): credentials whose read failed are left out. A consent recorded
  under an id in use cannot be withdrawn (112): every withdrawal finds the first. `fireAlerts` posts nothing.
- *Configuration.* `ConfigBuilder` writes into the preset's own map of contracts; a custom
  configuration for another network keeps testnet's addresses; `switchNetwork` sets the
  configuration before it validates it, keeps the GDPR engine's clients and the cache, and
  takes the name of the network from its overrides if they have one (285-292);
  composed calls go on with the clients of the network switched to.
- *Errors.* Refusals come numbered from 1 by every contract, `mapErrorCode` expects ranges of
  hundreds: numbers 1 to 8 of any contract become errors of the DID registry, number 8 is
  retried as a rate limit. A number above 8 means nothing to the table, and the text around it
  decides (619-641): with the event log and arguments of the call in it, which may match
  "timeout", "network" or "rate limit", a contract is called again with what it refused.
- *Monitors, logger, compression.* Alerts of one moment share an id, of which
  `acknowledgeAlert` finds the first; a cooldown starts though no channel is enabled; the
  default window of 10 with deviation 3.0 can never find an anomaly. Unsubscribing during a
  dispatch skips the next hook, and `clearHooks` during one does not stop the hooks of a class. A logger puts its history into the caller's array of
  transports; `child` drops `redactedKeys`; camel-case sensitive keys are never redacted.
  `compressPayload(undefined)` cannot be decompressed; concurrency 0 leaves holes.
- *Command line.* `resetConfig` says "reset all contract addresses and RPC URLs" and leaves
  `rpcUrl`; two processes, or a kill while writing, lose keypairs. Nobody is asked before a
  keypair is overwritten: after a deletion the label proposed, `kp-<number of labels + 1>`, may be
  in use (408-414), and a second Quick Start replaces `my-identity` (3077-3084); the age
  proved is the difference of years (1943), one too many before the birthday; `createDID` revives a "permanently" deactivated DID; a renewal
  made before a revocation stays valid; "0=no expiry" means a year; NaN passes comparisons.
- *Web interface.* Answers for an old address are shown under the new one, `loading` ends
  while another load runs, `autoConnect` revives an earlier secret, some panels ignore later
  addresses, and the wizard's answers set its step whatever the user has done meanwhile.
- *Payment page and connectors.* A failed balance request after a successful payment shows an
  error, and after funding a success hides one; friendbot's HTTP status is not looked at; a
  payment whose answer is lost is shown as failed though it may land; futurenet transactions
  are signed with the testnet passphrase, and a connect pending at `disconnect` reconnects.

Assumptions about the host, none of them visible in this repository: rollback of failed
calls, one transaction at a time, `require_auth` succeeding again in a nested call of the
same contract, hashes without collisions, temporary entries dropped exactly when their time
to live is over, persistent ones kept.

## 7. What is not modelled

`PROJECT.json` has every component with its status and reason. In short:

- Reentrancy guard, admin, schema registry, audit and storage helpers, status lists,
  reputation scores: single writes, or state no caller can see between calls; the admin
  module and the schema registry are never reached with success (section 6).
- The zero-knowledge, regulatory, presentation and encryption contracts: cryptography, data
  formats and report layouts. Their clients in the SDK are modelled as far as calls, answers
  and their order go.
- Of modelled components: `issue_credential_with_schema`, `authorize_issuer` and
  `deauthorize_issuer`, which always return `Err`; presentations and sharing in the
  credential client; the cache manager's tiers, eviction and statistics; analyses, tiers and
  risk texts; `assess_risk`, roles and rules of the compliance filter; translations, forms and
  layout of the interface.
- Examples, circuits, deployment files, benchmarks and test harnesses.
