------------------------------- MODULE LoggerTree -------------------------------
(***************************************************************************)
(* The loggers of the SDK (src/sdk/src/logger.ts) and what they share.  A  *)
(* logger keeps the array of transports it is given and puts its own       *)
(* history at the end of it, so loggers made with one array write to the   *)
(* histories of one another.  A child copies the array without histories.  *)
(*                                                                         *)
(* Messages and contexts are left out; an entry is the logger that wrote   *)
(* it, its number there and its level.  The order of an array is left out: *)
(* only histories can have a name in common, and they stand in the order   *)
(* in which their loggers were made.                                       *)
(***************************************************************************)
EXTENDS Naturals, SequencesExt

CONSTANTS
    Given,              \* arrays of transports that callers own, with one sink each
    MaxLogHistory,      \* MAX_HISTORY_SIZE
    OnceKey,            \* keys of logOnce
    MaxLoggers, MaxEntries, MaxLogCalls    \* bounds

ASSUME LoggerAssumption == Given \in Nat /\ MaxLogHistory \in Nat \ {0}

DEBUG == 1
INFO == 2
WARN == 3

VARIABLES
    arrays,             \* per array, its transports: those given, then those made here
    loggers,            \* the loggers made: array, level, in the registry, keys seen
    histories,          \* per logger, its history
    counters,           \* per logger, entries per level
    written,            \* ghost: per logger, the entries it let through
    cutOff,             \* ghost: loggers whose history was removed from their array
    callsMade           \* bound: calls made but log

loggerVars == <<arrays, loggers, histories, counters, written, cutOff, callsMade>>

Console == [name |-> "console", of |-> 0]
Sink == [name |-> "sink", of |-> 0]
HistoryOf(l) == [name |-> "buffer", of |-> l]

\* Arrays are known by their place; the first ones are those of callers.
LoggersInit ==
    /\ arrays = [i \in 1 .. Given |-> {Sink}]
    /\ loggers = <<>> /\ histories = <<>> /\ counters = <<>> /\ written = <<>>
    /\ cutOff = {} /\ callsMade = 0

OneMoreCall == callsMade < MaxLogCalls /\ callsMade' = callsMade + 1

-----------------------------------------------------------------------------
(* Loggers. *)

\* The constructor with the a-th array, or with a new one when a is none of them; the logger's
\* own history is the last transport.
Construct(a, transports, level, registered) ==
    LET l == Len(loggers) + 1
    IN  /\ l <= MaxLoggers
        /\ arrays' = IF a \in DOMAIN arrays THEN [arrays EXCEPT ![a] = @ \cup {HistoryOf(l)}]
                     ELSE Append(arrays, transports \cup {HistoryOf(l)})
        /\ loggers' = Append(loggers, [array |-> a, level |-> level,
                                       registered |-> registered, seen |-> {}])
        /\ histories' = Append(histories, <<>>)
        /\ counters' = Append(counters, [k \in {DEBUG, INFO, WARN} |-> 0])
        /\ written' = Append(written, <<>>)
        /\ UNCHANGED <<cutOff, callsMade>>

NewArray == Len(arrays) + 1

\* new Logger, or Logger.get of a category the registry does not hold: without transports, or
\* with an empty array, the logger makes its own.
NewLogger(a, registered) ==
    IF a \in DOMAIN arrays /\ arrays[a] # {} THEN Construct(a, {}, INFO, registered)
    ELSE Construct(NewArray, {Console}, INFO, registered)

\* Fault: the child takes the histories over (HistoriesOwn).
Inherited_All(transports) == transports
Inherited(transports) == {t \in transports : t.name # "buffer"}

Child(l) ==
    LET kept == Inherited(arrays[loggers[l].array])
    IN  Construct(NewArray, IF kept = {} THEN {Console} ELSE kept, loggers[l].level, FALSE)

-----------------------------------------------------------------------------
(* Entries. *)

Entry(l, level) == [by |-> l, number |-> Len(written[l]) + 1, level |-> level]
LastEntries(s) == IF Len(s) > MaxLogHistory THEN Tail(s) ELSE s
TotalWritten == FoldSeq(LAMBDA s, n : n + Len(s), 0, written)

\* Every history in the array gets what is at least a warning.
Write(l, level) ==
    LET here == arrays[loggers[l].array]
    IN  histories' = [h \in DOMAIN histories |->
            IF level >= WARN /\ HistoryOf(h) \in here
            THEN LastEntries(Append(histories[h], Entry(l, level)))
            ELSE histories[h]]

\* log: below the level, or not among the sample, nothing happens.
Log(l, level) ==
    /\ TotalWritten < MaxEntries
    /\ level >= loggers[l].level
    /\ counters' = [counters EXCEPT ![l][level] = @ + 1]
    /\ Write(l, level)
    /\ written' = [written EXCEPT ![l] = Append(@, Entry(l, level))]
    /\ UNCHANGED <<arrays, loggers, cutOff, callsMade>>

\* The key is remembered whether or not the level lets the message through.
LogOnce(l, key, level) ==
    /\ key \notin loggers[l].seen
    /\ loggers' = [loggers EXCEPT ![l].seen = @ \union {key}]
    /\ IF level >= loggers[l].level
       THEN /\ TotalWritten < MaxEntries
            /\ counters' = [counters EXCEPT ![l][level] = @ + 1]
            /\ Write(l, level)
            /\ written' = [written EXCEPT ![l] = Append(@, Entry(l, level))]
       ELSE UNCHANGED <<counters, histories, written>>
    /\ UNCHANGED <<arrays, cutOff, callsMade>>

-----------------------------------------------------------------------------
(* The other calls. *)

SetLevel(l, level) ==
    /\ OneMoreCall
    /\ loggers' = [loggers EXCEPT ![l].level = level]
    /\ UNCHANGED <<arrays, histories, counters, written, cutOff>>

SetGlobalLevel(level) ==
    /\ OneMoreCall
    /\ loggers' = [l \in DOMAIN loggers |->
          IF loggers[l].registered THEN [loggers[l] EXCEPT !.level = level] ELSE loggers[l]]
    /\ UNCHANGED <<arrays, histories, counters, written, cutOff>>

\* The loggers go on for those who hold them.
ClearRegistry ==
    /\ OneMoreCall
    /\ loggers' = [l \in DOMAIN loggers |-> [loggers[l] EXCEPT !.registered = FALSE]]
    /\ UNCHANGED <<arrays, histories, counters, written, cutOff>>

AddTransport(l, transport) ==
    /\ OneMoreCall
    /\ LET a == loggers[l].array
       IN  arrays' = IF \E t \in arrays[a] : t.name = transport.name
                     THEN arrays ELSE [arrays EXCEPT ![a] = @ \cup {transport}]
    /\ UNCHANGED <<loggers, histories, counters, written, cutOff>>

\* The first of the name goes, whosoever it is.
RemoveTransport(l, name) ==
    /\ OneMoreCall
    /\ LET a == loggers[l].array
           named == {t \in arrays[a] : t.name = name}
       IN  \/ named = {} /\ UNCHANGED <<arrays, cutOff>>
           \/ \E first \in named :
                 /\ \A t \in named : first.of <= t.of
                 /\ arrays' = [arrays EXCEPT ![a] = @ \ {first}]
                 /\ cutOff' = cutOff \cup {first.of}
    /\ UNCHANGED <<loggers, histories, counters, written>>

ResetCounters(l) ==
    /\ OneMoreCall
    /\ counters' = [counters EXCEPT ![l] = [k \in DOMAIN @ |-> 0]]
    /\ UNCHANGED <<arrays, loggers, histories, written, cutOff>>

LoggersNext ==
    \/ \E a \in 0 .. Given, registered \in BOOLEAN : NewLogger(a, registered)
    \/ \E l \in DOMAIN loggers :
          \/ Child(l) \/ ResetCounters(l)
          \/ \E level \in {DEBUG, INFO, WARN} :
                Log(l, level) \/ SetLevel(l, level) \/ \E k \in OnceKey : LogOnce(l, k, level)
          \/ AddTransport(l, Sink)
          \/ \E name \in {"console", "sink", "buffer"} : RemoveTransport(l, name)
    \/ \E level \in {INFO, WARN} : SetGlobalLevel(level)
    \/ ClearRegistry

-----------------------------------------------------------------------------
\* Of the warnings among the entries a logger let through its history has the last ones, in
\* their order.
LastWarnings(l, history, entries) ==
    /\ \A i, j \in DOMAIN history :
          history[i].by = l /\ history[j].by = l /\ i < j => history[i].number < history[j].number
    /\ \A i \in DOMAIN history : history[i].by = l =>
          /\ history[i].number \in DOMAIN entries /\ history[i] = entries[history[i].number]
          /\ history[i].level >= WARN
    /\ \A n \in DOMAIN entries : entries[n].level >= WARN =>
          \/ \E i \in DOMAIN history : history[i] = entries[n]
          \/ /\ Len(history) = MaxLogHistory
             /\ \A i \in DOMAIN history : history[i].by = l => history[i].number > n

\* Whatever arrays loggers share: the history of a logger, unless it was taken out of its
\* array, holds the warnings of this logger in their order, each once, the oldest missing only
\* when the ring is full; and the entries of others come from loggers that write to the same
\* array, never from children or parents (the constructor, child, log, addTransport,
\* removeTransport).
HistoriesOwn ==
    \A l \in DOMAIN loggers :
        /\ l \notin cutOff => LastWarnings(l, histories[l], written[l])
        /\ \A i \in DOMAIN histories[l] :
              loggers[histories[l][i].by].array = loggers[l].array
=============================================================================
