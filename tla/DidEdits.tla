-------------------------------- MODULE DidEdits -------------------------------
(***************************************************************************)
(* What edits of a DID document keep of each other: calls of the DIDClient *)
(* (src/sdk/src/didClient.ts), which looks at what it is given, and of the *)
(* DIDResolver (didResolver.ts), which resolves the document, perhaps from *)
(* its cache, changes what it found and writes all of it back.             *)
(*                                                                         *)
(* A transaction that was sent lands at some time or never; how it is sent *)
(* and confirmed is the matter of RegistryClients.  The document has one   *)
(* verification method, of which the key is kept.                          *)
(***************************************************************************)
EXTENDS Naturals, Sequences, FiniteSets

CONSTANTS
    Key, Service, Method,   \* keys, services, authentication methods
    Long,                   \* services longer than create_did takes
    TooLong,                \* services longer than the DIDClient takes
    MAX_SERVICES,
    Lists,                  \* lists of services that callers give
    MaxEdits                \* bound: calls

ASSUME EditsAssumption ==
    /\ TooLong \subseteq Long /\ Long \subseteq Service /\ Lists \subseteq SUBSET Service
    /\ MAX_SERVICES \in Nat /\ MaxEdits \in Nat

VARIABLES
    document,           \* on the ledger
    landed,             \* the edits that landed, in that order
    edits,              \* the calls made: what each gives, what it awaits, what it sends
    resolved            \* the resolver's cache: at most one document, and what had landed then

editVars == <<document, landed, edits, resolved>>

NoDocument == [there |-> FALSE, key |-> {}, services |-> {}, authentication |-> {},
               deactivated |-> FALSE]

EditsInit ==
    /\ document = NoDocument
    /\ landed = <<>> /\ edits = <<>> /\ resolved = {}

\* A call: its kind, what its caller gives, what it awaits, and what it writes: at most one
\* key and at most one list of services.  History: how much had landed when it saw the
\* document it writes back.  Of a call that came to nothing no more is kept.
Edit(kind, gives, at, keys, lists) ==
    [kind |-> kind, gives |-> gives, at |-> at, keys |-> keys, lists |-> lists, basis |-> 0]
InVain == Edit("none", {}, "ended", {}, {})
Makes(edit) ==
    /\ Len(edits) < MaxEdits
    /\ edits' = Append(edits, edit)
    /\ UNCHANGED <<document, landed>>

-----------------------------------------------------------------------------
(* DIDClient *)

\* Fault: the length of a service is not looked at (EditsKept).
AssertServices_NumberOnly(services) == Cardinality(services) <= MAX_SERVICES
AssertServices(services) == Cardinality(services) <= MAX_SERVICES /\ services \cap TooLong = {}

ClientEdit(kind, gives, keys, lists) ==
    /\ \A services \in lists : AssertServices(services)
    /\ Makes(Edit(kind, gives, "sent", keys, lists))
    /\ UNCHANGED resolved

CreateDID(key, services) == ClientEdit("create", {}, {{key}}, {services})
\* undefined leaves the document's own.
UpdateDID(keys, lists) == ClientEdit("update", {}, keys, lists)
AddAuthentication(method) == ClientEdit("add", {method}, {}, {})
RemoveAuthentication(method) == ClientEdit("remove", {method}, {}, {})
DeactivateDID == ClientEdit("deactivate", {}, {}, {})

-----------------------------------------------------------------------------
(* DIDResolver *)

\* A new key in place of the old one, or one more service: the rest as it was found.
\* Fault: the new service is written alone (EditsKept).
WithService_Alone(found, given) == given
WithService(found, given) == found.services \cup given
Rewritten(edit, found, basis) ==
    [edit EXCEPT !.at = "rewritten", !.basis = basis,
                 !.keys = {IF edit.kind = "updateMethod" THEN edit.gives ELSE found.key},
                 !.lists = {IF edit.kind = "addService" THEN WithService(found, edit.gives)
                            ELSE found.services}]

\* addService and updateVerificationMethod: a document that is cached is taken as it is.
ResolverEdit(kind, given) ==
    /\ LET edit == Edit(kind, {given}, "resolving", {}, {}) IN
       IF resolved = {} THEN Makes(edit)
       ELSE \E r \in resolved : Makes(Rewritten(edit, r.document, r.basis))
    /\ UNCHANGED resolved
AddService(service) == ResolverEdit("addService", service)
UpdateVerificationMethod(key) == ResolverEdit("updateMethod", key)

\* What the resolver makes of a document; that it is deactivated goes into the metadata,
\* which these calls do not look at.
Parsed(d) == [key |-> d.key, services |-> d.services]

\* The document is read and cached; one that is not there, or not read, is an error.
Resolves(i) ==
    /\ edits[i].at = "resolving"
    /\ \/ /\ document.there
          /\ resolved' = {[document |-> Parsed(document), basis |-> Len(landed)]}
          /\ edits' = [edits EXCEPT ![i] = Rewritten(@, Parsed(document), Len(landed))]
       \/ /\ edits' = [edits EXCEPT ![i] = InVain]
          /\ UNCHANGED resolved
    /\ UNCHANGED <<document, landed>>

\* Sent: what is cached is forgotten, before anything has landed.  When the answer to the
\* sending is lost the call fails and the cache stays, while the transaction may land.
SubmitsUpdate(i) ==
    /\ edits[i].at = "rewritten"
    /\ edits' = [edits EXCEPT ![i].at = "sent"]
    /\ resolved' \in {{}, resolved}
    /\ UNCHANGED <<document, landed>>

\* Its createDID does not look at what it is given.
ResolverCreateDID(key, services) ==
    /\ Makes(Edit("resolverCreate", {}, "sent", {{key}}, {services}))
    /\ resolved' \in {{}, resolved}

CacheExpires ==
    /\ resolved # {} /\ resolved' = {}
    /\ UNCHANGED <<document, landed, edits>>

-----------------------------------------------------------------------------
(* DIDRegistry, as far as it looks at documents. *)

CreateTakes(edit) ==
    ~document.there /\ \A services \in edit.lists : services \cap Long = {}

RegistryTakes(edit) ==
    CASE edit.kind \in {"create", "resolverCreate"} -> CreateTakes(edit)
      [] edit.kind = "remove" -> /\ document.there /\ ~document.deactivated
                                 /\ edit.gives \subseteq document.authentication
      [] OTHER -> document.there /\ ~document.deactivated

\* Whatever is none keeps what the document has.
Written(given, kept) == IF given = {} THEN kept ELSE CHOOSE g \in given : TRUE
After(edit) ==
    [there |-> TRUE,
     key |-> Written(edit.keys, document.key),
     services |-> Written(edit.lists, document.services),
     authentication |-> CASE edit.kind = "add" -> document.authentication \cup edit.gives
                          [] edit.kind = "remove" -> document.authentication \ edit.gives
                          [] OTHER -> document.authentication,
     deactivated |-> edit.kind = "deactivate"]

EditIncluded(i) ==
    /\ edits[i].at = "sent"
    /\ IF RegistryTakes(edits[i])
       THEN /\ document' = After(edits[i])
            /\ landed' = Append(landed, i)
            /\ edits' = [edits EXCEPT ![i].at = "landed"]
       ELSE /\ edits' = [edits EXCEPT ![i] = InVain]
            /\ UNCHANGED <<document, landed>>
    /\ UNCHANGED resolved

\* It could not be sent, or never gets into a ledger.
EditDropped(i) ==
    /\ edits[i].at \in {"rewritten", "sent"}
    /\ edits' = [edits EXCEPT ![i] = InVain]
    /\ UNCHANGED <<document, landed, resolved>>

EditsNext ==
    \/ \E services \in Lists :
          \/ \E key \in Key : CreateDID(key, services) \/ ResolverCreateDID(key, services)
          \/ \E keys \in {{}} \cup {{{k}} : k \in Key} : UpdateDID(keys, {services})
    \/ \E key \in Key : UpdateDID({{key}}, {}) \/ UpdateVerificationMethod(key)
    \/ \E service \in Service : AddService(service)
    \/ \E method \in Method : AddAuthentication(method) \/ RemoveAuthentication(method)
    \/ DeactivateDID \/ CacheExpires
    \/ \E i \in DOMAIN edits :
          Resolves(i) \/ SubmitsUpdate(i) \/ EditIncluded(i) \/ EditDropped(i)

EditsSpec == EditsInit /\ [][EditsNext]_editVars

-----------------------------------------------------------------------------
\* The edits that landed after one, and those of them that write back what was there before.
Later(n) == {landed[m] : m \in n + 1 .. Len(landed)}
Unaware(n) == {i \in Later(n) : /\ edits[i].kind \in {"addService", "updateMethod"}
                                /\ edits[i].basis < n}

\* Calls that write back what they found do not lose what the others did, as far as they
\* saw it: a service or a key given by a landed edit is in the document until a later one
\* gives other ones, or writes back a document read before; authentication methods are
\* never written back, and so stay until they are removed.  Only create_did and the
\* DIDClient look at lengths, each with limits of its own: a service too long for the client
\* comes from the resolver's addService, more services than it takes from the resolver, and
\* a service too long for create_did from a change after the creation.
EditsKept ==
    /\ \A n \in DOMAIN landed : LET e == edits[landed[n]] IN
          /\ e.kind = "addService" =>
                \/ e.gives \subseteq document.services
                \/ Unaware(n) # {} \/ \E i \in Later(n) : edits[i].kind = "update"
          /\ e.kind = "updateMethod" =>
                \/ e.gives = document.key
                \/ Unaware(n) # {}
                \/ \E i \in Later(n) : edits[i].kind \in {"update", "updateMethod"}
          /\ e.kind = "add" =>
                \/ e.gives \subseteq document.authentication
                \/ \E i \in Later(n) : edits[i].kind = "remove" /\ edits[i].gives = e.gives
    /\ \/ document.services \cap TooLong = {}
       \/ \E n \in DOMAIN landed : edits[landed[n]].kind = "addService"
    /\ \/ Cardinality(document.services) <= MAX_SERVICES
       \/ \E n \in DOMAIN landed : edits[landed[n]].kind \in {"addService", "resolverCreate"}
    /\ Len(landed) = 1 => document.services \cap Long = {}
=============================================================================
