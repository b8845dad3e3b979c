-------------------------------- MODULE ErrorHub --------------------------------
(***************************************************************************)
(* The error monitor of the SDK (src/sdk/src/errorMonitor.ts).  capture    *)
(* stores the event, counts it and calls the hooks list by list, then the  *)
(* reporters.  All of it is synchronous, but a hook is the caller's code:  *)
(* while it runs it may capture again, subscribe, unsubscribe, clear the   *)
(* hooks or reset the monitor, so captures nest and lists change under the *)
(* loop that walks them.  forEach fixes the length it walks to when it     *)
(* starts and skips what is no longer there.                               *)
(*                                                                         *)
(* The lists by class, code and domain work alike; one of them, by class,  *)
(* stands for the three.                                                   *)
(***************************************************************************)
EXTENDS Integers, SequencesExt

CONSTANTS
    Callback,           \* callbacks
    ErrorClass,         \* classes of errors
    MaxHistory,         \* historySize
    MaxCaptures, MaxChanges     \* bounds

ASSUME HubAssumption == MaxHistory \in Nat \ {0}

VARIABLES
    eventHistory,       \* history: ids and classes
    counted,            \* stats: total and byClass
    nextId,             \* nextId
    globalHooks,        \* globalHooks
    classHooks,         \* classHooks: the lists made so far, kept by the loops that walk them
    classList,          \* per class, the list the map holds now, or 0
    frames,             \* captures under way, the innermost last
    hookChanges,        \* bound: calls made but capture
    sinceReset,         \* ghost: the classes of the events captured since the last reset
    called,             \* ghost: per event, the hooks called with it and the list of each
    subs,               \* ghost: who is subscribed, to all and per class
    due,                \* ghost: per event, the hooks subscribed when it was captured
    offers,             \* ghost: per event and hook, how often it may be called with it
    calm                \* ghost: the events during whose capture nobody unsubscribed

hubGhosts == <<sinceReset, called, subs, due, offers, calm>>
hubVars == <<eventHistory, counted, nextId, globalHooks, classHooks, classList, frames,
             hookChanges, hubGhosts>>

HookCall == {"global", "class"} \X Callback
NothingCounted == [total |-> 0, byClass |-> [k \in ErrorClass |-> 0]]

HubInit ==
    /\ eventHistory = <<>> /\ counted = NothingCounted /\ nextId = 1
    /\ globalHooks = <<>> /\ classHooks = <<>>
    /\ classList = [k \in ErrorClass |-> 0]
    /\ frames = <<>> /\ hookChanges = 0
    /\ sinceReset = <<>> /\ called = <<>> /\ due = <<>> /\ offers = <<>> /\ calm = {}
    /\ subs = [all |-> {}, of |-> [k \in ErrorClass |-> {}]]

-----------------------------------------------------------------------------
\* Code of the caller runs: outside of the monitor, or in a hook the innermost capture called.
CallersTurn == frames # <<>> => frames[Len(frames)].in
Bounded == hookChanges < MaxChanges /\ hookChanges' = hookChanges + 1

\* Fault: the ring gives up an event before it is full (ErrorsAccounted).
Retained_Early(s) == IF Len(s) >= MaxHistory THEN Tail(s) ELSE s
Retained(s) == IF Len(s) > MaxHistory THEN Tail(s) ELSE s

\* The hooks of a class: none when the map has no list.
OfClass(k) == IF classList[k] = 0 THEN <<>> ELSE classHooks[classList[k]]

\* The walk over the global hooks begins.
Frame(id, k) == [id |-> id, class |-> k, list |-> 0, pos |-> 0, upTo |-> Len(globalHooks),
                 stage |-> "global", in |-> FALSE]

Subscribed(k) ==
    {<<"global", h>> : h \in subs.all} \union {<<"class", h>> : h \in subs.of[k]}

Capture(k) ==
    /\ CallersTurn /\ nextId <= MaxCaptures
    /\ nextId' = nextId + 1
    /\ eventHistory' = Retained(Append(eventHistory, [id |-> nextId, class |-> k]))
    /\ counted' = [counted EXCEPT !.total = @ + 1, !.byClass[k] = @ + 1]
    /\ frames' = Append(frames, Frame(nextId, k))
    /\ due' = Append(due, Subscribed(k))
    /\ offers' = Append(offers, [s \in HookCall |-> IF s \in Subscribed(k) THEN 1 ELSE 0])
    /\ called' = Append(called, <<>>) /\ calm' = calm \union {nextId}
    /\ sinceReset' = Append(sinceReset, k)
    /\ UNCHANGED <<globalHooks, classHooks, classList, hookChanges, subs>>

Top == frames[Len(frames)]
Walked == IF Top.stage = "global" THEN globalHooks ELSE classHooks[Top.list]

\* forEach calls what is at the next position, if something is still there.
CallHook ==
    /\ ~CallersTurn
    /\ Top.stage = "global" \/ Top.list # 0
    /\ Top.pos < Top.upTo
    /\ \/ /\ Top.pos < Len(Walked)
          /\ frames' = [frames EXCEPT ![Len(frames)] = [Top EXCEPT !.pos = @ + 1, !.in = TRUE]]
          /\ called' = [called EXCEPT ![Top.id] = Append(@, <<Top.stage, Walked[Top.pos + 1]>>)]
       \/ /\ Top.pos >= Len(Walked)
          /\ frames' = [frames EXCEPT ![Len(frames)].pos = @ + 1]
          /\ UNCHANGED called
    /\ UNCHANGED <<eventHistory, counted, nextId, globalHooks, classHooks, classList,
                   hookChanges, sinceReset, subs, due, offers, calm>>

\* The hook returns or throws, which safeCall swallows.
HookEnds ==
    /\ frames # <<>> /\ Top.in
    /\ frames' = [frames EXCEPT ![Len(frames)].in = FALSE]
    /\ UNCHANGED <<eventHistory, counted, nextId, globalHooks, classHooks, classList,
                   hookChanges, hubGhosts>>

\* The list of the class is looked up only after the global hooks were called.
ClassHooksNext ==
    /\ ~CallersTurn /\ Top.stage = "global" /\ Top.pos = Top.upTo
    /\ frames' = [frames EXCEPT ![Len(frames)] =
          [@ EXCEPT !.stage = "class", !.list = classList[Top.class], !.pos = 0,
                    !.upTo = Len(OfClass(Top.class))]]
    /\ UNCHANGED <<eventHistory, counted, nextId, globalHooks, classHooks, classList,
                   hookChanges, hubGhosts>>

\* capture hands the event to the reporters and returns it.
Captured ==
    /\ ~CallersTurn /\ Top.stage = "class" /\ Top.pos = Top.upTo
    /\ frames' = Front(frames)
    /\ UNCHANGED <<eventHistory, counted, nextId, globalHooks, classHooks, classList,
                   hookChanges, hubGhosts>>

-----------------------------------------------------------------------------
(* What else callers and hooks do.  A hook is subscribed once to a list at most. *)

TimesCalled(e, s) == Cardinality({i \in DOMAIN called[e] : called[e][i] = s})

\* A subscription made during a capture of its class may still be met by it.
Offer(stage, h, during) ==
    offers' = [e \in DOMAIN offers |->
                  IF e \in during THEN [offers[e] EXCEPT ![<<stage, h>>] = @ + 1] ELSE offers[e]]

\* One that ends is not met any more.
TakeBack(gone) ==
    offers' = [e \in DOMAIN offers |->
                  [s \in HookCall |-> IF <<e, s>> \in gone THEN TimesCalled(e, s) ELSE offers[e][s]]]

UnderWay == {frames[i].id : i \in DOMAIN frames}
UnderWayOf(k) == {frames[i].id : i \in {j \in DOMAIN frames : frames[j].class = k}}
Disturbed == calm' = calm \ UnderWay

OnError(h) ==
    /\ CallersTurn /\ Bounded /\ ~Contains(globalHooks, h)
    /\ globalHooks' = Append(globalHooks, h)
    /\ subs' = [subs EXCEPT !.all = @ \union {h}]
    /\ Offer("global", h, UnderWay)
    /\ UNCHANGED <<eventHistory, counted, nextId, classHooks, classList, frames,
                   sinceReset, called, due, calm>>

\* The list is made when the class has none.
OnErrorClass(k, h) ==
    /\ CallersTurn /\ Bounded /\ ~Contains(OfClass(k), h)
    /\ IF classList[k] = 0
       THEN /\ classHooks' = Append(classHooks, <<h>>)
            /\ classList' = [classList EXCEPT ![k] = Len(classHooks) + 1]
       ELSE /\ classHooks' = [classHooks EXCEPT ![classList[k]] = Append(@, h)]
            /\ UNCHANGED classList
    /\ subs' = [subs EXCEPT !.of[k] = @ \union {h}]
    /\ Offer("class", h, UnderWayOf(k))
    /\ UNCHANGED <<eventHistory, counted, nextId, globalHooks, frames, sinceReset, called, due,
                   calm>>

\* removeHook: what stands at the place of the hook is spliced out.
UnsubscribeGlobal(h) ==
    /\ CallersTurn /\ Bounded
    /\ \E i \in DOMAIN globalHooks :
          globalHooks[i] = h /\ globalHooks' = RemoveAt(globalHooks, i)
    /\ subs' = [subs EXCEPT !.all = @ \ {h}]
    /\ TakeBack(UnderWay \X {<<"global", h>>})
    /\ Disturbed
    /\ UNCHANGED <<eventHistory, counted, nextId, classHooks, classList, frames, sinceReset,
                   called, due>>

\* The list a capture walks, or will when it comes to the hooks of its class.
Walks(f, l) == l = IF f.stage = "class" THEN f.list ELSE classList[f.class]

\* The unsubscribe function keeps its list, also when the map has forgotten it.
UnsubscribeClass(l, h) ==
    /\ CallersTurn /\ Bounded
    /\ \E i \in DOMAIN classHooks[l] :
          classHooks[l][i] = h /\ classHooks' = [classHooks EXCEPT ![l] = RemoveAt(@, i)]
    /\ subs' = [subs EXCEPT !.of =
                   [k \in ErrorClass |-> IF classList[k] = l THEN @[k] \ {h} ELSE @[k]]]
    /\ TakeBack({frames[i].id : i \in {j \in DOMAIN frames : Walks(frames[j], l)}}
                   \X {<<"class", h>>})
    /\ Disturbed
    /\ UNCHANGED <<eventHistory, counted, nextId, globalHooks, classList, frames, sinceReset,
                   called, due>>

\* The global list is emptied in place; the map forgets its lists, but a loop keeps its own,
\* so that the hooks of a class that are being called are called to the last.
ClearHooks ==
    /\ CallersTurn /\ Bounded
    /\ globalHooks' = <<>>
    /\ classList' = [k \in ErrorClass |-> 0]
    /\ subs' = [all |-> {}, of |-> [k \in ErrorClass |-> {}]]
    /\ TakeBack((UnderWay \X HookCall)
                 \ ({frames[i].id : i \in {j \in DOMAIN frames : frames[j].stage = "class"}}
                      \X ({"class"} \X Callback)))
    /\ Disturbed
    /\ UNCHANGED <<eventHistory, counted, nextId, classHooks, frames, sinceReset, called, due>>

\* The ids go on.
ResetHub ==
    /\ CallersTurn /\ Bounded
    /\ eventHistory' = <<>> /\ counted' = NothingCounted /\ sinceReset' = <<>>
    /\ UNCHANGED <<nextId, globalHooks, classHooks, classList, frames, called, subs, due,
                   offers, calm>>

HubNext ==
    \/ \E k \in ErrorClass : Capture(k)
    \/ CallHook \/ HookEnds \/ ClassHooksNext \/ Captured
    \/ \E h \in Callback : \/ OnError(h) \/ UnsubscribeGlobal(h)
                       \/ \E k \in ErrorClass : OnErrorClass(k, h)
                       \/ \E l \in DOMAIN classHooks : UnsubscribeClass(l, h)
    \/ ClearHooks \/ ResetHub

-----------------------------------------------------------------------------
PlacesOf(k, s) == {i \in DOMAIN s : s[i] = k}
Finished(e) == \A i \in DOMAIN frames : frames[i].id # e

\* However captures nest and whatever hooks do meanwhile (capture, forEach over the lists,
\* onError, onErrorClass, the unsubscribe functions, clearHooks, reset):
\* - the history is the last events captured since the reset, in the order of their ids, and
\*   the counts are theirs;
\* - an event during whose capture nobody unsubscribed reached every hook subscribed before
\*   it exactly once, and one subscribed by an earlier hook at most once;
\* - no event reaches a hook more often than that hook was subscribed, to all or to the class
\*   of the event, before or during its capture: never one of another class, and never one
\*   that has unsubscribed, but for the hooks of a class that were cleared while they were
\*   being called.
ErrorsAccounted ==
    /\ counted.total = Len(sinceReset)
    /\ \A k \in ErrorClass :
          counted.byClass[k] = Cardinality(PlacesOf(k, sinceReset))
    /\ Len(eventHistory) = IF Len(sinceReset) < MaxHistory THEN Len(sinceReset) ELSE MaxHistory
    /\ \A i \in DOMAIN eventHistory :
          /\ eventHistory[i].id = nextId - 1 - Len(eventHistory) + i
          /\ eventHistory[i].class = sinceReset[Len(sinceReset) - Len(eventHistory) + i]
    /\ \A e \in calm :
          /\ \A s \in due[e] : TimesCalled(e, s) <= 1 /\ (Finished(e) => TimesCalled(e, s) = 1)
          /\ \A s \in ToSet(called[e]) : TimesCalled(e, s) = 1
    /\ \A e \in DOMAIN called : \A s \in ToSet(called[e]) : TimesCalled(e, s) <= offers[e][s]
=============================================================================
