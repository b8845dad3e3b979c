------------------------------ MODULE ErrorMapping ------------------------------
(***************************************************************************)
(* What the SDK makes of a failure (mapContractError, mapErrorCode and the *)
(* tables of src/sdk/src/errors.ts) and what withRetry of                  *)
(* src/sdk/src/retry.ts does with it: one operation is attempted, and each *)
(* attempt succeeds, is refused by a contract or breaks on the way.        *)
(*                                                                         *)
(* A message is what its patterns match.  A refusal comes with the number  *)
(* of its variant, as the host reports it and in a text of the host that   *)
(* may match any pattern, with the name of contract and variant, or with   *)
(* the name of the contract only.                                          *)
(***************************************************************************)
EXTENDS Naturals, Sequences, FiniteSets

CONSTANTS
    MaxTries,           \* maxAttempts
    Text                \* texts, as the sets of what they match

\* The error enums of the contracts, by number.
Variant == [
    did |-> <<"AlreadyExists", "NotFound", "Unauthorized", "InvalidFormat", "Deactivated",
              "InvalidSignature", "AlreadyDeactivated", "RateLimitExceeded">>,
    credential |-> <<"Unauthorized", "NotFound", "InvalidCredential", "AlreadyRevoked",
              "Expired", "InvalidSignature", "InvalidIssuer", "SchemaValidationFailed",
              "SchemaNotFound", "DelegationNotFound", "DelegationExpired",
              "DelegationLimitExceeded", "UnauthorizedCredentialType", "DelegationRevoked",
              "RegistryNotFound", "InvalidNonce", "RateLimitExceeded">>,
    reputation |-> <<"NotInitialized", "NotAdmin", "InvalidScore", "InvalidDepth",
              "AlreadyInitialized", "InvalidInput", "Unauthorized", "DuplicateAttestation",
              "RateLimitExceeded">>,
    zk |-> <<"InvalidProof", "NotFound", "Unauthorized", "InvalidCircuit",
              "VerificationFailed", "Expired", "NullifierAlreadyUsed", "InvalidPublicInputs",
              "CircuitDeactivated", "RevokedCredential", "PredicateMismatch",
              "AttributeNotFound", "DisclosureConflict", "CombiningFailed">>,
    compliance |-> <<"AddressBlocked", "HighRisk", "Unauthorized", "NotFound",
              "InvalidRiskScore", "OracleStale", "InvalidHash", "NotInitialized",
              "AlreadyInitialized", "InvalidInput", "BatchTooLarge", "AlreadyExists",
              "OracleNotRegistered">>]

Contract == DOMAIN Variant

\* What messages say of a call that broke, in the order in which mapContractError looks for it.
Condition == <<"InsufficientFunds", "SequenceMismatch", "LedgerClosed", "Timeout",
               "ConnectionFailed", "SimulationError", "RateLimitExceeded">>

ASSUME MappingAssumption ==
    MaxTries \in Nat \ {0} /\ Text \subseteq SUBSET {Condition[i] : i \in DOMAIN Condition}

VARIABLES
    answers,            \* what the attempts brought, in order
    ended               \* "running", "returned", "thrown" or "exhausted"

mappingVars == <<answers, ended>>

MappingInit == answers = <<>> /\ ended = "running"

-----------------------------------------------------------------------------
(* Tables. *)

\* An error of the SDK: its class and what its code means.
SdkError(class, meaning) == [class |-> class, meaning |-> meaning]

\* mapErrorCode below 100: the numbers are taken for those of the DID registry.  The ranges it
\* keeps for the other contracts, from 101, 201, 301 and 401 on, are numbers no contract uses.
NumberMeaning == <<"AlreadyExists", "NotFound", "Unauthorized", "InvalidFormat", "Deactivated",
                   "InvalidSignature", "Deactivated", "RateLimitExceeded">>
MapErrorCode(n) ==
    IF n \in DOMAIN NumberMeaning THEN {SdkError("did", NumberMeaning[n])} ELSE {}

\* The variants CONTRACT_CODE_MAP leaves out; AlreadyDeactivated is Deactivated there.
Unlisted == [did |-> {},
    credential |-> {"DelegationNotFound", "UnauthorizedCredentialType", "RegistryNotFound",
                    "InvalidNonce"},
    reputation |-> {"NotAdmin", "AlreadyInitialized", "InvalidInput", "DuplicateAttestation"},
    zk |-> {},
    compliance |-> {"NotInitialized", "AlreadyInitialized", "InvalidInput", "AlreadyExists"}]

ContractCodeMap(c, variant) ==
    IF variant \in Unlisted[c] THEN {}
    ELSE {SdkError(c, IF variant = "AlreadyDeactivated" THEN "Deactivated" ELSE variant)}

\* ERROR_META: what is retryable.
\* Fault: a failed transaction is retryable too (RefusalsUnderstood).
Transient_Failed ==
    {"Timeout", "ConnectionFailed", "SequenceMismatch", "LedgerClosed", "TransactionFailed"}
Transient == {"Timeout", "ConnectionFailed", "SequenceMismatch", "LedgerClosed"}
Retryable(e) == e.meaning \in Transient \union {"RateLimitExceeded"}

-----------------------------------------------------------------------------
(* mapContractError. *)

\* The first condition the message matches; a rate limit is a class of its own.
MapConditions(says) ==
    IF says = {} THEN SdkError("network", "TransactionFailed")
    ELSE LET i == CHOOSE i \in DOMAIN Condition :
                    Condition[i] \in says /\ \A j \in 1 .. (i - 1) : Condition[j] \notin says
         IN  SdkError(IF Condition[i] = "RateLimitExceeded" THEN "ratelimit" ELSE "network",
                      Condition[i])

\* Number, then name, then the name of the contract, then conditions.
MapContractError(a) ==
    LET variant == Variant[a.contract][a.number]
    IN  IF a.form = "condition" THEN MapConditions(a.says)
        ELSE IF a.form = "number" THEN
             LET known == MapErrorCode(a.number)
             IN  IF known # {} THEN CHOOSE e \in known : TRUE ELSE MapConditions(a.says)
        ELSE IF a.form = "named" /\ ContractCodeMap(a.contract, variant) # {} THEN
             CHOOSE e \in ContractCodeMap(a.contract, variant) : TRUE
        ELSE SdkError(a.contract, "TransactionFailed")

-----------------------------------------------------------------------------
(* withRetry. *)

Tried == Len(answers)

Refused(c, n, form, says) ==
    [form |-> form, contract |-> c, number |-> n, says |-> says]
Broken(says) == Refused("did", 1, "condition", says)

TrySucceeds ==
    /\ ended = "running"
    /\ ended' = "returned"
    /\ UNCHANGED answers

\* A failure that is not retryable is thrown at once, the last retryable one as an error that
\* says the attempts are used up.
TryFails(a) ==
    /\ ended = "running"
    /\ answers' = Append(answers, a)
    /\ ended' = IF ~Retryable(MapContractError(a)) THEN "thrown"
                  ELSE IF Tried + 1 = MaxTries THEN "exhausted" ELSE "running"

\* The host reports a refusal by number, in a text with the events and arguments of the call.
MappingNext ==
    \/ TrySucceeds
    \/ \E c \in Contract : \E n \in DOMAIN Variant[c] : \E says \in Text :
          TryFails(Refused(c, n, "number", says))
    \/ \E c \in Contract : \E n \in DOMAIN Variant[c] : \E form \in {"named", "contract"} :
          TryFails(Refused(c, n, form, {}))
    \/ \E says \in Text : TryFails(Broken(says))

MappingSpec == MappingInit /\ [][MappingNext]_mappingVars

-----------------------------------------------------------------------------
RateLimited(a) ==
    a.form # "condition" /\ Variant[a.contract][a.number] = "RateLimitExceeded"

\* The operation was tried again after an answer, or would have been but for MaxTries.
TriedAgain(i) == i < Tried \/ ended # "thrown"

\* Texts that tell a failure that passes.
Passing == Transient \union {"RateLimitExceeded"}

\* What a contract refuses is not sent to it again, with these exceptions (mapContractError,
\* mapErrorCode, CONTRACT_CODE_MAP, ERROR_META, withRetry):
\* - a rate limit; one with its name is always tried again;
\* - the number 8, which mapErrorCode takes for the rate limit of the DID registry whoever
\*   sent it;
\* - a number above 8, which means nothing to mapErrorCode, if the text around it matches the
\*   pattern of a failure that passes: with such a text a contract is called again with what
\*   it refused.
\* Refusals of the DID registry keep their meaning in either form, whatever the text, and a
\* refusal with its name keeps its contract.
RefusalsUnderstood ==
    \A i \in DOMAIN answers :
       LET a == answers[i]
           e == MapContractError(a)
       IN  /\ a.form # "condition" /\ TriedAgain(i) =>
                 \/ RateLimited(a)
                 \/ a.form = "number" /\ a.number = 8
                 \/ a.form = "number" /\ a.number > 8 /\ a.says \cap Passing # {}
           /\ a.form = "named" /\ RateLimited(a) => TriedAgain(i)
           /\ a.form = "named" => e.class = a.contract
           /\ a.contract = "did" /\ a.form \in {"named", "number"} =>
                 e.meaning = (IF a.number = 7 THEN "Deactivated" ELSE Variant.did[a.number])
=============================================================================
