---------------------------- MODULE RegistryClients ----------------------------
(***************************************************************************)
(* DIDClient (src/sdk/src/didClient.ts) and DIDResolver (didResolver.ts)   *)
(* at work on the DID of one account: calls that change the document       *)
(* through transactions, and calls that resolve it through caches.  What   *)
(* is awaited ends in any order; a segment between two awaits is one       *)
(* action.  The ledger, stellar.toml and the HTTP endpoint are external.   *)
(*                                                                         *)
(* Of a document only its version is kept: the number of changes made.     *)
(* Version 0 is a DID that is not there.  A source is read when it answers *)
(* and the answer arrives later.  Sleeps are left out; a cache entry may   *)
(* expire at any time.  The DID is the one without a suffix.               *)
(***************************************************************************)
EXTENDS Naturals, FiniteSetsExt

CONSTANTS
    ClientCall,         \* changes made through the DIDClient
    ResolverCall,       \* changes made through the DIDResolver
    ResolveCall,        \* resolutions in flight, of either
    NoAnswer,           \* no document
    MaxRetries,         \* DEFAULT_RETRY_ATTEMPTS
    MaxPolls,           \* DEFAULT_POLL_MAX_ATTEMPTS
    MaxElsewhere        \* bound: changes by others, of the ledger or of a web page

ASSUME ClientsAssumption ==
    /\ ClientCall \cap ResolverCall = {}
    /\ MaxRetries \in Nat \ {0} /\ MaxPolls \in Nat \ {0} /\ MaxElsewhere \in Nat
    /\ NoAnswer \notin Nat

VARIABLES
    published,          \* external: the document's version at every source
    sequence,           \* external: the account's sequence number
    pool,               \* external: transactions that may still get into a ledger
    outcome,            \* external: per call, the versions its transactions have made
    stage,              \* per call: what it awaits, or how it ended
    seqUsed, tries,     \* per call: the number its transaction carries; attempts made
    cache,              \* per cache: the version of its entry while it has not expired
    lookup,             \* per resolution: the source it awaits and its answer
    ownVersion,         \* history: the latest version a DIDClient call was confirmed for
    overtaken,          \* history: an older answer was on its way at such a moment
    elsewhere           \* counted for the bound

ledger == <<published, sequence, pool, outcome>>
callVars == <<stage, seqUsed, tries>>
history == <<ownVersion, overtaken>>
clientVars == <<ledger, callVars, cache, lookup, history, elsewhere>>

Changes == ClientCall \cup ResolverCall

\* The caches: of the DIDClient, and of the DIDResolver for its three methods.
Cache == {"client", "contract", "toml", "http"}
Site == {"registry", "toml", "http"}
SiteOf == [c \in Cache |-> IF c \in {"client", "contract"} THEN "registry" ELSE c]
Fallback == [contract |-> "toml", toml |-> "http"]

Idle == [at |-> "none", chain |-> FALSE, answer |-> NoAnswer]

ClientsInit ==
    /\ published = [s \in Site |-> 0]
    /\ sequence = 0
    /\ pool = {}
    /\ outcome = [c \in Changes |-> {}]
    /\ stage = [c \in Changes |-> "new"]
    /\ seqUsed = [c \in Changes |-> 0]
    /\ tries = [c \in Changes |-> 0]
    /\ cache = [c \in Cache |-> NoAnswer]
    /\ lookup = [r \in ResolveCall |-> Idle]
    /\ ownVersion = 0
    /\ overtaken = FALSE
    /\ elsewhere = 0

-----------------------------------------------------------------------------
(* Caches: CacheManager of the DIDClient, Maps of the DIDResolver. *)

\* Fault: the resolver does not look at the date of its entries (CachesConverge).
Dated_Client == {"client"}
Dated == Cache

Hit(c) == cache[c] # NoAnswer
Without(c) == [cache EXCEPT ![c] = NoAnswer]

TtlPasses(c) ==
    /\ c \in Dated /\ Hit(c)
    /\ cache' = Without(c)
    /\ UNCHANGED <<ledger, callVars, lookup, history, elsewhere>>

\* Another DID's entry pushes this one out: only the CacheManager is bounded.
PushedOut ==
    /\ Hit("client")
    /\ cache' = Without("client")
    /\ UNCHANGED <<ledger, callVars, lookup, history, elsewhere>>

ClearCache ==
    /\ cache' = [c \in Cache |-> IF c = "client" THEN cache[c] ELSE NoAnswer]
    /\ UNCHANGED <<ledger, callVars, lookup, history, elsewhere>>

-----------------------------------------------------------------------------
(* Resolution. *)

\* A hit is returned at once and changes nothing.
Ask(r, c, chain) ==
    /\ lookup[r] = Idle
    /\ lookup' = [lookup EXCEPT ![r] = [Idle EXCEPT !.at = c, !.chain = chain]]
    /\ UNCHANGED <<ledger, callVars, cache, history, elsewhere>>

\* forceRefresh passes the cache over.
ResolveDID(r) == Ask(r, "client", FALSE)
ResolveContract(r) == ~Hit("contract") /\ Ask(r, "contract", FALSE)
ResolveViaTOML(r) == ~Hit("toml") /\ Ask(r, "toml", FALSE)
ResolveViaHTTP(r) == ~Hit("http") /\ Ask(r, "http", FALSE)
ResolveWithFallback(r) == ~Hit("contract") /\ Ask(r, "contract", TRUE)

SourceReads(r) ==
    /\ lookup[r].at \in Cache /\ lookup[r].answer = NoAnswer
    /\ published[SiteOf[lookup[r].at]] > 0
    /\ lookup' = [lookup EXCEPT ![r].answer = published[SiteOf[lookup[r].at]]]
    /\ UNCHANGED <<ledger, callVars, cache, history, elsewhere>>

AnswerArrives(r) ==
    /\ lookup[r].answer # NoAnswer
    /\ cache' = [cache EXCEPT ![lookup[r].at] = lookup[r].answer]
    /\ lookup' = [lookup EXCEPT ![r] = Idle]
    /\ UNCHANGED <<ledger, callVars, history, elsewhere>>

\* Not found, refused, timed out, or given up after the retries: an error result, or the
\* next source of the chain, whose cache may answer at once.
LookupFails(r) ==
    /\ lookup[r].at \in Cache
    /\ LET next == IF lookup[r].at \in DOMAIN Fallback THEN Fallback[lookup[r].at] ELSE "none"
       IN lookup' = [lookup EXCEPT ![r] =
                        IF lookup[r].chain /\ next \in Cache /\ ~Hit(next)
                        THEN [@ EXCEPT !.at = next, !.answer = NoAnswer] ELSE Idle]
    /\ UNCHANGED <<ledger, callVars, cache, history, elsewhere>>

-----------------------------------------------------------------------------
(* Changes. *)

Moves(c, from, to) == stage[c] = from /\ stage' = [stage EXCEPT ![c] = to]

\* createDID, updateDID, deactivateDID, addAuthentication, removeAuthentication and the
\* resolver's createDID, updateVerificationMethod and addService, the last two once their
\* own resolve, a ResolveCall, has answered: getAccount is asked for.
Start(c) ==
    /\ Moves(c, "new", "account")
    /\ UNCHANGED <<ledger, seqUsed, tries, cache, lookup, history, elsewhere>>

AccountRead(c) ==
    /\ Moves(c, "account", "prepare")
    /\ seqUsed' = [seqUsed EXCEPT ![c] = sequence + 1]
    /\ tries' = [tries EXCEPT ![c] = 0]
    /\ UNCHANGED <<ledger, cache, lookup, history, elsewhere>>

\* prepareTransaction simulates the call; the transaction is then signed and sent.
Prepared(c) ==
    /\ Moves(c, "prepare", "submit")
    /\ tries' = [tries EXCEPT ![c] = 0]
    /\ UNCHANGED <<ledger, seqUsed, cache, lookup, history, elsewhere>>

\* withRetry of the DIDClient; the resolver does not retry.
RequestFails(c) ==
    /\ stage[c] \in {"account", "prepare"}
    /\ IF c \in ClientCall /\ tries[c] + 1 < MaxRetries
       THEN tries' = [tries EXCEPT ![c] = @ + 1] /\ UNCHANGED stage
       ELSE stage' = [stage EXCEPT ![c] = "threw"] /\ UNCHANGED tries
    /\ UNCHANGED <<ledger, seqUsed, cache, lookup, history, elsewhere>>

\* Fault: a submission whose answer is lost is retried from the start (ChangesHonoured).
AfterLostAnswer_Again == "account"
AfterLostAnswer == "threw"

\* Not ERROR.  The DIDClient waits for the ledger, the resolver returns at once.
SubmitReturns(c) ==
    /\ Moves(c, "submit", IF c \in ClientCall THEN "poll" ELSE "returned")
    /\ cache' = IF c \in ResolverCall THEN Without("contract") ELSE cache
    /\ UNCHANGED <<published, sequence, outcome, seqUsed, tries, lookup, history, elsewhere>>

\* PENDING or DUPLICATE.
SubmitAccepted(c) ==
    /\ SubmitReturns(c)
    /\ seqUsed[c] > sequence
    /\ pool' = pool \cup {<<c, seqUsed[c]>>}

\* TRY_AGAIN_LATER: the call goes on, though nothing was taken.
SubmitPutOff(c) == SubmitReturns(c) /\ UNCHANGED pool

SubmitRefused(c) ==
    /\ Moves(c, "submit", "refused")
    /\ UNCHANGED <<ledger, seqUsed, tries, cache, lookup, history, elsewhere>>

\* The call to the RPC server fails, before or after the server took the transaction.
SubmitLost(c) ==
    /\ Moves(c, "submit", AfterLostAnswer)
    /\ \/ pool' = pool
       \/ seqUsed[c] > sequence /\ pool' = pool \cup {<<c, seqUsed[c]>>}
    /\ UNCHANGED <<published, sequence, outcome, seqUsed, tries, cache, lookup, history, elsewhere>>

-----------------------------------------------------------------------------
(* pollTransactionConfirmation. *)

\* Fault: the entry that is invalidated is another one (ChangesHonoured).
Invalidated_Other == Without("contract")
Invalidated == Without("client")

\* SUCCESS.  createDID leaves the cache alone, the other calls invalidate the entry.
PollSucceeds(c) ==
    /\ Moves(c, "poll", "confirmed")
    /\ outcome[c] # {}
    /\ cache' = IF 1 \in outcome[c] THEN cache ELSE Invalidated
    /\ ownVersion' = Max({ownVersion} \cup outcome[c])
    /\ overtaken' = (overtaken \/ \E r \in ResolveCall :
                        /\ lookup[r].at = "client" /\ lookup[r].answer # NoAnswer
                        /\ \E v \in outcome[c] : lookup[r].answer < v)
    /\ UNCHANGED <<ledger, seqUsed, tries, lookup, elsewhere>>

\* FAILED, or an RPC failure, which is not retried here.
PollThrows(c) ==
    /\ Moves(c, "poll", "threw")
    /\ UNCHANGED <<ledger, seqUsed, tries, cache, lookup, history, elsewhere>>

\* NOT_FOUND: not in a ledger yet, or not yet known to the server.
PollFindsNothing(c) ==
    /\ stage[c] = "poll"
    /\ IF tries[c] + 1 < MaxPolls
       THEN tries' = [tries EXCEPT ![c] = @ + 1] /\ UNCHANGED stage
       ELSE stage' = [stage EXCEPT ![c] = "threw"] /\ UNCHANGED tries
    /\ UNCHANGED <<ledger, seqUsed, cache, lookup, history, elsewhere>>

-----------------------------------------------------------------------------
(* The ledger and the web pages (external). *)

\* Only the transaction with the account's next number gets in.  It changes the document
\* or fails in the contract, and the number is used up either way.
Included(c, n) ==
    /\ <<c, n>> \in pool /\ n = sequence + 1
    /\ pool' = pool \ {<<c, n>>}
    /\ sequence' = n
    /\ \/ /\ published' = [published EXCEPT !["registry"] = @ + 1]
          /\ outcome' = [outcome EXCEPT ![c] = @ \cup {published["registry"] + 1}]
       \/ UNCHANGED <<published, outcome>>
    /\ UNCHANGED <<callVars, cache, lookup, history, elsewhere>>

\* Its time bound passes or its number was used by another one.
RunsOut(c, n) ==
    /\ <<c, n>> \in pool
    /\ pool' = pool \ {<<c, n>>}
    /\ UNCHANGED <<published, sequence, outcome, callVars, cache, lookup, history, elsewhere>>

\* Another program with the same key changes the document, or a web page is edited.
ChangedElsewhere(s) ==
    /\ elsewhere < MaxElsewhere /\ elsewhere' = elsewhere + 1
    /\ published' = [published EXCEPT ![s] = @ + 1]
    /\ sequence' = IF s = "registry" THEN sequence + 1 ELSE sequence
    /\ UNCHANGED <<pool, outcome, callVars, cache, lookup, history>>

ClientsNext ==
    \/ \E c \in Cache : TtlPasses(c)
    \/ PushedOut \/ ClearCache
    \/ \E r \in ResolveCall :
          \/ ResolveDID(r) \/ ResolveContract(r) \/ ResolveViaTOML(r)
          \/ ResolveViaHTTP(r) \/ ResolveWithFallback(r)
          \/ SourceReads(r) \/ AnswerArrives(r) \/ LookupFails(r)
    \/ \E c \in Changes :
          \/ Start(c) \/ AccountRead(c) \/ Prepared(c) \/ RequestFails(c)
          \/ SubmitAccepted(c) \/ SubmitPutOff(c) \/ SubmitRefused(c) \/ SubmitLost(c)
          \/ PollSucceeds(c) \/ PollThrows(c) \/ PollFindsNothing(c)
    \/ \E t \in pool : Included(t[1], t[2]) \/ RunsOut(t[1], t[2])
    \/ \E s \in Site : ChangedElsewhere(s)

ClientsSpec == ClientsInit /\ [][ClientsNext]_clientVars

-----------------------------------------------------------------------------
\* A call changes the document at most once, a call that is confirmed did, and one whose
\* submission was refused never does; what a call that threw otherwise did is open.
AppliedAtMostOnce ==
    \A c \in Changes :
        /\ Cardinality(outcome[c]) <= 1
        /\ stage[c] = "confirmed" => outcome[c] # {}
        /\ stage[c] = "refused" => outcome[c] = {}

\* Who changes a document through the DIDClient sees no older one through it afterwards,
\* unless an older answer was on its way to the cache when the change was confirmed.
OwnChangesSeen == Hit("client") /\ ~overtaken => cache["client"] >= ownVersion

\* Through retries, lost answers, late reads and invalidations a change is made once, known
\* for what it was and seen afterwards (executeWrite, resolveDID).
ChangesHonoured == AppliedAtMostOnce /\ OwnChangesSeen

\* Once the changes stop, no cache goes on handing out an outdated document: whatever
\* stale answer was stored late, or left by a change made elsewhere, expires.
CachesConverge == <>[](\A c \in Cache : Hit(c) => cache[c] = published[SiteOf[c]])
=============================================================================
