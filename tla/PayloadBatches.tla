----------------------------- MODULE PayloadBatches -----------------------------
(***************************************************************************)
(* Compressed payloads and their batches (src/sdk/src/compression.ts).  A  *)
(* batch is compressed by workers that share a cursor, the encoded strings *)
(* are stored, where one may be damaged, and a batch of them is            *)
(* decompressed the same way.  Workers wait for the compression streams,   *)
(* which end in any order.                                                 *)
(*                                                                         *)
(* Bytes are left out.  An encoded payload is its header and the item its  *)
(* body holds; damage changes one of them.                                 *)
(***************************************************************************)
EXTENDS Naturals, Sequences

CONSTANTS
    BatchLength,        \* items of a batch
    Concurrency,        \* options.concurrency: what callers pass
    MaxDamaged          \* bound

ASSUME BatchAssumption == BatchLength \in Nat \ {0} /\ Concurrency \subseteq Nat

Index == 1 .. BatchLength

\* What an item is: JSON, JSON over maxPayloadBytes, undefined, of which nothing is
\* encoded, or a value JSON.stringify throws on.
ItemKind == {"json", "oversized", "undefined", "cyclic"}

VARIABLES
    items,              \* the items of the first batch
    phase,              \* what runs: "compress", "stored", "decompress" or "over"
    streams,            \* the runtime has compression streams
    workers,            \* concurrency of the batch that runs
    cursor,             \* the next item to take
    taken,              \* per worker, the item it waits for, or 0
    results,            \* results: per item, none, its value or an error
    encoded,            \* the strings stored: header, whose payload, or none
    damaged             \* bound: damages done

batchVars == <<items, phase, streams, workers, cursor, taken, results, encoded, damaged>>

Hole == [is |-> "hole", item |-> 0, code |-> ""]
ValueOf(i) == [is |-> "value", item |-> i, code |-> ""]
ErrorOf(code) == [is |-> "error", item |-> 0, code |-> code]

\* A string of the wire format, of a legacy payload, and the missing one.
Wire(i) == [format |-> "wire", version |-> "this", checksum |-> "right", body |-> "right",
            item |-> i]
Missing == [Wire(0) EXCEPT !.format = "missing"]

Min2(a, b) == IF a < b THEN a ELSE b

BatchesInit ==
    /\ items \in [Index -> ItemKind]
    /\ phase = "compress" /\ streams \in BOOLEAN /\ workers \in Concurrency
    /\ cursor = 1 /\ taken = [w \in Index |-> 0]
    /\ results = [i \in Index |-> Hole]
    /\ encoded = [i \in Index |-> Missing] /\ damaged = 0

-----------------------------------------------------------------------------
(* One payload. *)

Compressed(i) ==
    IF ~streams THEN {ErrorOf("STREAM_UNAVAILABLE")}
    ELSE IF items[i] = "cyclic" THEN {ErrorOf("SERIALIZE_FAILED")}
    ELSE IF items[i] = "oversized" THEN {ErrorOf("PAYLOAD_TOO_LARGE")}
    ELSE {ValueOf(i)}

\* A damaged body does not inflate, or inflates to bytes of another checksum.  What undefined
\* was compressed to inflates to nothing, which is no JSON.
Decompressed(e) ==
    IF e.format = "missing" THEN {ErrorOf("DECOMPRESS_FAILED")}
    ELSE IF e.format = "garbled" THEN {ErrorOf("INVALID_ENCODING")}
    ELSE IF e.format = "legacy" THEN {ValueOf(e.item)}
    ELSE IF e.version # "this" THEN {ErrorOf("UNKNOWN_VERSION")}
    ELSE IF ~streams THEN {ErrorOf("STREAM_UNAVAILABLE")}
    ELSE IF e.body # "right" THEN {ErrorOf("DECOMPRESS_FAILED"), ErrorOf("CHECKSUM_MISMATCH")}
    ELSE IF e.checksum # "right" THEN {ErrorOf("CHECKSUM_MISMATCH")}
    ELSE IF items[e.item] = "undefined" THEN {ErrorOf("DECOMPRESS_FAILED")}
    ELSE {ValueOf(e.item)}

Outcomes(i) == IF phase = "compress" THEN Compressed(i) ELSE Decompressed(encoded[i])

-----------------------------------------------------------------------------
(* A batch. *)

Workers == 1 .. Min2(workers, BatchLength)
Running == phase \in {"compress", "decompress"}

\* A worker takes the next item before it waits.
Take(w) ==
    /\ Running /\ taken[w] = 0 /\ cursor <= BatchLength
    /\ taken' = [taken EXCEPT ![w] = cursor]
    /\ cursor' = cursor + 1
    /\ UNCHANGED <<items, phase, streams, workers, results, encoded, damaged>>

\* Where the entry goes.
\* Fault: to the item the cursor has come to meanwhile (PayloadsSurvive).
Position_Cursor(w) == cursor - 1
Position(w) == taken[w]

\* An error is the entry of its item, and the worker goes on.
Done(w) ==
    /\ Running /\ taken[w] # 0
    /\ \E r \in Outcomes(taken[w]) : results' = [results EXCEPT ![Position(w)] = r]
    /\ taken' = [taken EXCEPT ![w] = 0]
    /\ UNCHANGED <<items, phase, streams, workers, cursor, encoded, damaged>>

\* Promise.all: every worker has found the cursor at the end.
BatchEnds ==
    /\ Running /\ \A w \in Workers : taken[w] = 0 /\ cursor > BatchLength
    /\ phase' = IF phase = "compress" THEN "stored" ELSE "over"
    /\ encoded' = IF phase = "compress"
                  THEN [i \in Index |-> IF results[i].is = "value" THEN Wire(results[i].item)
                                        ELSE Missing]
                  ELSE encoded
    /\ UNCHANGED <<items, streams, workers, cursor, taken, results, damaged>>

\* In storage: a string is no longer base64url or has lost its magic, has another version,
\* checksum or body, or was a legacy payload, plain JSON, all along.
Damage(i) ==
    /\ phase = "stored" /\ damaged < MaxDamaged /\ encoded[i].format = "wire"
    /\ damaged' = damaged + 1
    /\ \/ encoded' = [encoded EXCEPT ![i].format = "garbled"]
       \/ encoded' = [encoded EXCEPT ![i].version = "other"]
       \/ encoded' = [encoded EXCEPT ![i].checksum = "wrong"]
       \/ encoded' = [encoded EXCEPT ![i].body = "wrong"]
       \/ items[i] = "json" /\ encoded' = [encoded EXCEPT ![i].format = "legacy"]
    /\ UNCHANGED <<items, phase, streams, workers, cursor, taken, results>>

ReadBack ==
    /\ phase = "stored"
    /\ phase' = "decompress" /\ streams' \in BOOLEAN /\ workers' \in Concurrency
    /\ cursor' = 1 /\ results' = [i \in Index |-> Hole]
    /\ UNCHANGED <<items, taken, encoded, damaged>>

BatchesNext ==
    \/ \E w \in Workers : Take(w) \/ Done(w)
    \/ BatchEnds \/ ReadBack
    \/ \E i \in Index : Damage(i)

BatchSpec == BatchesInit /\ [][BatchesNext]_batchVars

-----------------------------------------------------------------------------
\* Whatever the order in which workers end and whatever fails: the entry of an item is about
\* this item; what is read back is what was compressed or an error, never a damaged value; no
\* two workers have one item; and a batch that is over, unless it ran without workers, has
\* an entry for every item (compressBatch, decompressBatch, decompressPayload).
PayloadsSurvive ==
    /\ \A i \in Index : results[i].is = "value" =>
          /\ results[i].item = i
          /\ phase \in {"decompress", "over"} => items[i] = "json"
    /\ \A v, w \in Index : v # w /\ taken[v] # 0 => taken[v] # taken[w]
    /\ phase \in {"stored", "over"} /\ workers > 0 => \A i \in Index : results[i] # Hole
    /\ phase = "over" /\ damaged = 0 /\ workers > 0 /\ streams =>
          \A i \in Index : results[i].is = "value" <=>
              encoded[i] # Missing /\ items[i] = "json"
=============================================================================
