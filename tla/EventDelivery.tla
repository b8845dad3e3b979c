----------------------------- MODULE EventDelivery -----------------------------
(***************************************************************************)
(* Subscriptions and delivery of the EventSubscriber                       *)
(* (src/sdk/src/eventSubscriber.ts); its connection is EventConnection.    *)
(* Messages of the server, calls of the client and ticks of the batch      *)
(* timers come in any order, each handled in one step.                     *)
(*                                                                         *)
(* Every subscription takes every event: one that its type or filter       *)
(* refuses is as good as not received.  Callbacks do not call back into    *)
(* the subscriber, except that of once, which unsubscribes itself.         *)
(* Every event has an id; messages that are not events change nothing but  *)
(* a count of errors.                                                      *)
(***************************************************************************)
EXTENDS Naturals, Sequences, SequencesExt

CONSTANTS
    EventId,            \* ids given by the server
    Sub,                \* subscriptions
    BatchSize,          \* batchSize of the sized ones
    MaxQueue,           \* maxQueueSize
    History,            \* MAX_EVENT_HISTORY
    MaxMessages,        \* bound: events received, duplicates not counted
    MaxStops            \* bound: calls of disconnect

ASSUME DeliveryAssumption ==
    /\ {BatchSize, MaxQueue, History} \subseteq Nat \ {0}
    /\ MaxMessages \in Nat /\ MaxStops \in Nat

VARIABLES
    kind,               \* the options: "plain", "once", "sized" (a batch size and an
                        \* interval, given or by default) or "timed" (an interval only)
    subscription,       \* "new", "active", "paused" or "gone"
    eventQueue,         \* per subscription, the places of its events in received
    batchTimers,        \* the subscriptions whose timer runs
    seenEventIds,       \* ids in the order in which they were added
    received,           \* history: the ids of the events handled
    handed,             \* history: per subscription, the events its callback got
    dropped,            \* droppedCount, of a full queue
    enqueued,           \* history: per subscription, events dispatched or replayed to it
    stops               \* calls of disconnect, counted for the bound

tallies == <<handed, dropped, enqueued>>
inbox == <<seenEventIds, received>>
deliveryVars == <<kind, subscription, eventQueue, batchTimers, inbox, tallies, stops>>

Once == {s \in Sub : kind[s] = "once"}
Sized == {s \in Sub : kind[s] = "sized"}
Timed == {s \in Sub : kind[s] = "timed"}
Batched == Sized \cup Timed

DeliveryInit ==
    /\ kind \in [Sub -> {"plain", "once", "sized", "timed"}]
    /\ subscription = [s \in Sub |-> "new"]
    /\ eventQueue = [s \in Sub |-> <<>>]
    /\ batchTimers = {}
    /\ seenEventIds = <<>>
    /\ received = <<>>
    /\ handed = [s \in Sub |-> <<>>]
    /\ dropped = [s \in Sub |-> 0]
    /\ enqueued = [s \in Sub |-> 0]
    /\ stops = 0

-----------------------------------------------------------------------------
(* handleMessage *)

\* Fault: the oldest id is forgotten one event early (EachInOrderOnce).
Remembered_Early(ids) == IF Len(ids) >= 2 * History THEN Tail(ids) ELSE ids
Remembered(ids) == IF Len(ids) > 2 * History THEN Tail(ids) ELSE ids

\* The oldest event of a full queue makes room.
Enqueue(q, n) == Append(IF Len(q) >= MaxQueue THEN Tail(q) ELSE q, n)

Flushes(s, q) == s \in Sized /\ Len(q) >= BatchSize

\* What flushQueue takes off the queue: a batch, or everything.
Batch(s, q) == IF s \in Sized /\ Len(q) > BatchSize THEN SubSeq(q, 1, BatchSize) ELSE q
Rest(s, q) == SubSeq(q, Len(Batch(s, q)) + 1, Len(q))

\* dispatchEvent: a paused subscription misses the event, batched or not.
Receive(e) ==
    LET n == Len(received) + 1
        reached == {s \in Sub : subscription[s] = "active"}
        q(s) == Enqueue(eventQueue[s], n)
    IN  /\ Len(received) < MaxMessages
        /\ ~Contains(seenEventIds, e)
        /\ seenEventIds' = Remembered(Append(seenEventIds, e))
        /\ received' = Append(received, e)
        /\ enqueued' = [s \in Sub |-> enqueued[s] + IF s \in reached THEN 1 ELSE 0]
        /\ handed' = [s \in Sub |->
              IF s \notin reached THEN handed[s]
              ELSE IF s \notin Batched THEN Append(handed[s], n)
              ELSE IF Flushes(s, q(s)) THEN handed[s] \o Batch(s, q(s)) ELSE handed[s]]
        /\ eventQueue' = [s \in Sub |->
              IF s \notin reached \cap Batched THEN eventQueue[s]
              ELSE IF Flushes(s, q(s)) THEN Rest(s, q(s)) ELSE q(s)]
        /\ dropped' = [s \in Sub |-> dropped[s] +
              IF s \in reached \cap Batched /\ Len(eventQueue[s]) >= MaxQueue THEN 1 ELSE 0]
        /\ subscription' = [s \in Sub |->
              IF s \in reached \cap Once THEN "gone" ELSE subscription[s]]
        /\ UNCHANGED <<kind, batchTimers, stops>>

-----------------------------------------------------------------------------
(* Calls of the client. *)

\* Fault: only subscriptions with an interval get a timer (QueuesDrain).
HasTimer_Interval(s) == s \in Timed
HasTimer(s) == s \in Batched

\* eventHistory: the last History events received, in order.
Forgotten == IF Len(received) > History THEN Len(received) - History ELSE 0
Replayed == [i \in 1 .. Len(received) - Forgotten |-> Forgotten + i]

\* The history is handed out at once, also to a batched subscription.
Subscribe(s) ==
    /\ subscription[s] = "new"
    /\ subscription' = [subscription EXCEPT ![s] = "active"]
    /\ batchTimers' = IF HasTimer(s) THEN batchTimers \cup {s} ELSE batchTimers
    /\ \/ UNCHANGED <<handed, enqueued>>
       \/ /\ s \notin Once
          /\ handed' = [handed EXCEPT ![s] = Replayed]
          /\ enqueued' = [enqueued EXCEPT ![s] = Len(Replayed)]
    /\ UNCHANGED <<kind, eventQueue, inbox, dropped, stops>>

FlushedFirst(s) == [handed EXCEPT ![s] = @ \o Batch(s, eventQueue[s])]

\* unsubscribe, and the time-out of once.
Unsubscribe(s) ==
    /\ subscription[s] \in {"active", "paused"}
    /\ handed' = FlushedFirst(s)
    /\ subscription' = [subscription EXCEPT ![s] = "gone"]
    /\ eventQueue' = [eventQueue EXCEPT ![s] = <<>>]
    /\ batchTimers' = batchTimers \ {s}
    /\ UNCHANGED <<kind, inbox, dropped, enqueued, stops>>

Paused(S) ==
    /\ subscription' = [s \in Sub |->
          IF s \in S /\ subscription[s] = "active" THEN "paused" ELSE subscription[s]]
    /\ UNCHANGED <<kind, eventQueue, batchTimers, inbox, tallies, stops>>
Resumed(S) ==
    /\ subscription' = [s \in Sub |->
          IF s \in S /\ subscription[s] = "paused" THEN "active" ELSE subscription[s]]
    /\ UNCHANGED <<kind, eventQueue, batchTimers, inbox, tallies, stops>>

\* pause, pauseAll, resume and resumeAll.
Pause(s) == Paused({s})
PauseSubscriptions == Paused(Sub)
Resume(s) == Resumed({s})
ResumeSubscriptions == Resumed(Sub)

\* disconnect stops the batch timers, and connect does not start them again.
StopBatchTimers ==
    /\ stops < MaxStops /\ stops' = stops + 1
    /\ batchTimers' = {}
    /\ UNCHANGED <<kind, subscription, eventQueue, inbox, tallies>>

\* flushQueue does not ask whether the subscription is paused.
BatchTick(s) ==
    /\ s \in batchTimers
    /\ eventQueue[s] # <<>>
    /\ handed' = [handed EXCEPT ![s] = @ \o Batch(s, eventQueue[s])]
    /\ eventQueue' = [eventQueue EXCEPT ![s] = Rest(s, @)]
    /\ UNCHANGED <<kind, subscription, batchTimers, inbox, dropped, enqueued, stops>>

DeliveryNext ==
    \/ \E e \in EventId : Receive(e)
    \/ \E s \in Sub :
          Subscribe(s) \/ Unsubscribe(s) \/ Pause(s) \/ Resume(s) \/ BatchTick(s)
    \/ PauseSubscriptions \/ ResumeSubscriptions \/ StopBatchTimers

DeliverySpec == DeliveryInit /\ [][DeliveryNext]_deliveryVars

-----------------------------------------------------------------------------
InOrder(s) ==
    LET all == handed[s] \o eventQueue[s]
    IN \A i, j \in DOMAIN all : i < j => all[i] < all[j]

AllCounted(s) ==
    enqueued[s] = Len(handed[s]) + Len(eventQueue[s]) + dropped[s]

\* The same id is handled again only after as many others as are remembered.
NoRepeat ==
    \A i, j \in DOMAIN received :
        i < j /\ received[i] = received[j] =>
            Cardinality({received[k] : k \in i + 1 .. j - 1}) >= 2 * History

\* Every subscription gets the events that reach it once each and in order, those that
\* overflowed its queue excepted and counted, through replays, flushes by size, by timer
\* and by unsubscribe; and a duplicate is an event again only when it is long past.
EachInOrderOnce == NoRepeat /\ \A s \in Sub : InOrder(s) /\ AllCounted(s)

\* A queued event is delivered sooner or later while the subscriber is not disconnected.
QueuesDrain == \A s \in Sub : eventQueue[s] # <<>> ~> (eventQueue[s] = <<>> \/ stops > 0)
=============================================================================
