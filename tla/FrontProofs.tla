---------------------------- MODULE FrontProofs -----------------------------
(***************************************************************************)
(* What holds of the command line, the interface, the services and the     *)
(* composition of the SDK for any number of processes, requests, items and *)
(* answers, in whatever order they come.                                   *)
(***************************************************************************)
EXTENDS CliConfig, CliSession, ServiceClients, RecoveryWizard, IdentityPanels, SdkSetup,
        PaymentApp, ErrorMapping, ErrorHub, FiniteSetTheorems, TLAPS

-----------------------------------------------------------------------------
(***************************************************************************)
(* ErrorHub: captures nested in the hooks they call. Besides the invariant *)
(* of history and walks, lists of hooks are those of the subscriptions,    *)
(* and what a walk may still call was offered.                             *)
(***************************************************************************)
HubEvent == [id : Nat, class : ErrorClass]
HubFrame == [id : Nat, class : ErrorClass, list : Nat, pos : Nat, upTo : Nat,
             stage : {"global", "class"}, in : BOOLEAN]

\* A list of hooks, none of them twice.
HookList == {s \in Seq(Callback) : \A i, j \in DOMAIN s : s[i] = s[j] => i = j}

HubTypes ==
    /\ eventHistory \in Seq(HubEvent)
    /\ counted \in [total : Nat, byClass : [ErrorClass -> Nat]]
    /\ nextId \in Nat \ {0}
    /\ globalHooks \in HookList /\ classHooks \in Seq(HookList)
    /\ classList \in [ErrorClass -> Nat]
    /\ \A k \in ErrorClass : classList[k] # 0 => classList[k] \in DOMAIN classHooks
    /\ frames \in Seq(HubFrame)
    /\ sinceReset \in Seq(ErrorClass)
    /\ called \in Seq(Seq(HookCall)) /\ Len(called) = nextId - 1
    /\ due \in Seq(SUBSET HookCall) /\ Len(due) = nextId - 1
    /\ calm \subseteq 1 .. (nextId - 1)

\* What the history and the counts are of.
HistoryExact ==
    /\ counted.total = Len(sinceReset)
    /\ \A k \in ErrorClass :
          counted.byClass[k] = Cardinality(PlacesOf(k, sinceReset))
    /\ Len(eventHistory) = IF Len(sinceReset) < MaxHistory THEN Len(sinceReset) ELSE MaxHistory
    /\ \A i \in DOMAIN eventHistory :
          /\ eventHistory[i].id = nextId - 1 - Len(eventHistory) + i
          /\ eventHistory[i].class = sinceReset[Len(sinceReset) - Len(eventHistory) + i]

ListOf(l) == IF l = 0 THEN <<>> ELSE classHooks[l]
FirstHooks(s, n) == {s[p] : p \in 1 .. n}

\* How far the walks of a capture have come, if nobody unsubscribed since it began: the hooks
\* called are those at the places passed, and what is due is at a place to come or was called.
WalkSound(f) ==
    /\ f.pos <= f.upTo
    /\ f.stage = "global" =>
          /\ f.upTo <= Len(globalHooks)
          /\ \A s \in ToSet(called[f.id]) : s[1] = "global" /\ s[2] \in FirstHooks(globalHooks, f.pos)
          /\ \A h \in FirstHooks(globalHooks, f.pos) : <<"global", h>> \in ToSet(called[f.id])
          /\ \A s \in due[f.id] : \/ s[1] = "global" /\ s[2] \in FirstHooks(globalHooks, f.upTo)
                                  \/ s[1] = "class" /\ s[2] \in ToSet(OfClass(f.class))
    /\ f.stage = "class" =>
          /\ f.upTo <= Len(ListOf(f.list))
          /\ \A s \in ToSet(called[f.id]) :
                s[1] = "class" => s[2] \in FirstHooks(ListOf(f.list), f.pos)
          /\ \A h \in FirstHooks(ListOf(f.list), f.pos) : <<"class", h>> \in ToSet(called[f.id])
          /\ \A s \in due[f.id] : \/ s \in ToSet(called[f.id])
                                  \/ s[1] = "class" /\ s[2] \in FirstHooks(ListOf(f.list), f.upTo)

FramesSound ==
    /\ \A i \in DOMAIN frames :
          /\ frames[i].id \in 1 .. (nextId - 1)
          /\ frames[i].list # 0 => frames[i].list \in DOMAIN classHooks
          /\ frames[i].id \in calm => WalkSound(frames[i])
    /\ \A i, j \in DOMAIN frames : frames[i].id = frames[j].id => i = j

\* A hook is called once per subscription, and every hook due by the end.
CallsSound ==
    \A e \in calm :
       /\ \A p, q \in DOMAIN called[e] : called[e][p] = called[e][q] => p = q
       /\ Finished(e) => due[e] \subseteq ToSet(called[e])

HubInv == HubTypes /\ HistoryExact /\ FramesSound /\ CallsSound

\* The lists are those of the subscriptions that stand.
SubsExact ==
    /\ subs \in [all : SUBSET Callback, of : [ErrorClass -> SUBSET Callback]]
    /\ subs.all = ToSet(globalHooks)
    /\ \A k \in ErrorClass : subs.of[k] = ToSet(OfClass(k))

\* A hook that a list does not have goes to its end.
LEMMA HookAdded ==
    ASSUME NEW s \in HookList, NEW h \in Callback, ~Contains(s, h), NEW new, new = Append(s, h)
    PROVE  /\ new \in HookList /\ Len(new) = Len(s) + 1
           /\ \A i \in DOMAIN s : i \in DOMAIN new /\ new[i] = s[i]
<1>1. s \in Seq(Callback) /\ \A i, j \in DOMAIN s : s[i] = s[j] => i = j
  BY DEF HookList
<1>2. /\ new \in Seq(Callback) /\ Len(new) = Len(s) + 1 /\ new[Len(s) + 1] = h
      /\ DOMAIN s = 1 .. Len(s) /\ DOMAIN new = 1 .. (Len(s) + 1) /\ Len(s) \in Nat
      /\ \A i \in DOMAIN s : new[i] = s[i]
  BY <1>1
<1>3. \A i \in DOMAIN s : s[i] # h
  BY <1>2 DEF Contains
<1>4. \A i, j \in DOMAIN new : new[i] = new[j] => i = j
  <2>1. SUFFICES ASSUME NEW i \in DOMAIN new, NEW j \in DOMAIN new, new[i] = new[j], i # j
                 PROVE  FALSE
    OBVIOUS
  <2>2. (i \in DOMAIN s \/ i = Len(s) + 1) /\ (j \in DOMAIN s \/ j = Len(s) + 1)
    BY <1>2
  <2>3. QED
    BY <1>1, <1>2, <1>3, <2>1, <2>2
<1>5. new \in HookList
  BY <1>2, <1>4 DEF HookList
<1>7. QED
  BY <1>2, <1>5

\* A hook is spliced out of a list.
LEMMA HookRemoved ==
    ASSUME NEW s \in HookList, NEW i \in DOMAIN s, NEW new, new = RemoveAt(s, i)
    PROVE  /\ new \in HookList
           /\ DOMAIN s \subseteq Nat /\ DOMAIN new \subseteq Nat
           /\ \A j \in DOMAIN new : \E q \in DOMAIN s : q >= j /\ q # i /\ new[j] = s[q]
           /\ \A q \in DOMAIN s : q # i => \E j \in DOMAIN new : new[j] = s[q]
<1>1. s \in Seq(Callback) /\ \A j, k \in DOMAIN s : s[j] = s[k] => j = k
  BY DEF HookList
<1>2. PICK n \in Nat : n = Len(s) /\ DOMAIN s = 1 .. n
  BY <1>1
<1>3. PICK left : left = SubSeq(s, 1, i - 1)
  OBVIOUS
<1>4. left \in Seq(Callback) /\ Len(left) = i - 1 /\ \A j \in 1 .. (i - 1) : left[j] = s[j]
  BY <1>1, <1>2, <1>3
<1>5. PICK right : right = SubSeq(s, i + 1, n)
  OBVIOUS
<1>6. right \in Seq(Callback) /\ Len(right) = n - i /\ \A j \in 1 .. (n - i) : right[j] = s[i + j]
  <2>1. right \in Seq(Callback) /\ Len(right) = n - i
    BY <1>1, <1>2, <1>5
  <2>2. \A j \in 1 .. (n - i) : right[j] = s[(i + 1) + j - 1]
    BY <1>1, <1>2, <1>5
  <2>3. \A j \in 1 .. (n - i) : (i + 1) + j - 1 = i + j
    BY <1>2
  <2>4. QED
    BY <2>1, <2>2, <2>3
<1>7. new = left \o right
  BY <1>2, <1>3, <1>5 DEF RemoveAt
<1>8. /\ new \in Seq(Callback) /\ Len(new) = n - 1 /\ DOMAIN new = 1 .. (n - 1)
      /\ \A j \in 1 .. (i - 1) : new[j] = s[j]
      /\ \A j \in i .. (n - 1) : new[j] = s[j + 1]
  <2>1. new \in Seq(Callback) /\ Len(new) = n - 1 /\ DOMAIN new = 1 .. (n - 1)
    BY <1>2, <1>4, <1>6, <1>7
  <2>2. \A j \in 1 .. (i - 1) : new[j] = left[j]
    BY <1>2, <1>4, <1>6, <1>7
  <2>3. \A j \in i .. (n - 1) : new[j] = right[j - (i - 1)] /\ j - (i - 1) \in 1 .. (n - i)
                                /\ i + (j - (i - 1)) = j + 1
    BY <1>2, <1>4, <1>6, <1>7
  <2>4. QED
    BY <1>4, <1>6, <2>1, <2>2, <2>3
<1>9. PICK from \in [1 .. (n - 1) -> 1 .. n] :
         \A j \in 1 .. (n - 1) : from[j] = IF j < i THEN j ELSE j + 1
  <2>1. [j \in 1 .. (n - 1) |-> IF j < i THEN j ELSE j + 1] \in [1 .. (n - 1) -> 1 .. n]
    BY <1>2
  <2>2. QED
    BY <2>1
<1>10. \A j \in 1 .. (n - 1) : new[j] = s[from[j]]
  BY <1>2, <1>8, <1>9
<1>11. \A j, k \in 1 .. (n - 1) : from[j] = from[k] => j = k
  BY <1>2, <1>9
<1>12. new \in HookList
  BY <1>1, <1>2, <1>8, <1>9, <1>10, <1>11 DEF HookList
<1>13. \A j \in 1 .. (n - 1) : from[j] >= j /\ from[j] # i
  BY <1>2, <1>9
<1>14. \A q \in 1 .. n : q # i => \E j \in 1 .. (n - 1) : from[j] = q
  <2>1. TAKE q \in 1 .. n
  <2>2. HAVE q # i
  <2>3. CASE q < i
    BY <1>2, <1>9, <2>3
  <2>4. CASE q > i
    <3>1. q - 1 \in 1 .. (n - 1) /\ ~(q - 1 < i) /\ (q - 1) + 1 = q
      BY <1>2, <2>4
    <3>2. QED
      BY <1>9, <3>1
  <2>5. QED
    BY <1>2, <2>2, <2>3, <2>4
<1>15. \A j \in 1 .. (n - 1) : \E q \in 1 .. n : q >= j /\ q # i /\ new[j] = s[q]
  <2>1. TAKE j \in 1 .. (n - 1)
  <2>2. from[j] \in 1 .. n
    BY <1>9
  <2>3. QED
    BY <1>10, <1>13, <2>2
<1>16. \A q \in 1 .. n : q # i => \E j \in 1 .. (n - 1) : new[j] = s[q]
  BY <1>10, <1>14
<1>17. 1 .. n \subseteq Nat /\ 1 .. (n - 1) \subseteq Nat
  BY <1>2
<1>18. DOMAIN s = 1 .. n /\ DOMAIN new = 1 .. (n - 1)
  BY <1>2, <1>8
<1>19. QED
  BY <1>12, <1>15, <1>16, <1>17, <1>18

\* The empty list.
LEMMA NoHooks == <<>> \in HookList /\ Len(<<>>) = 0
  BY DEF HookList

\* Lists as they were, or longer.
Grown ==
    /\ \A i \in DOMAIN globalHooks : i \in DOMAIN globalHooks' /\ globalHooks'[i] = globalHooks[i]
    /\ \A l \in DOMAIN classHooks :
          /\ l \in DOMAIN classHooks'
          /\ \A i \in DOMAIN classHooks[l] :
                i \in DOMAIN classHooks'[l] /\ classHooks'[l][i] = classHooks[l][i]
    /\ \A k \in ErrorClass : classList[k] # 0 => classList'[k] = classList[k]

\* A walk is not disturbed while lists only grow.
LEMMA WalkKept ==
    ASSUME HubInv, HubTypes', Grown, NEW f \in HubFrame, WalkSound(f),
           f.id \in DOMAIN called, f.list # 0 => f.list \in DOMAIN classHooks,
           called'[f.id] = called[f.id], due'[f.id] = due[f.id]
    PROVE  WalkSound(f)'
<1>1. PICK calls, waits : calls = ToSet(called[f.id]) /\ waits = due[f.id]
  OBVIOUS
<1>2. ToSet(called'[f.id]) = calls /\ due'[f.id] = waits
  BY <1>1
<1>3. f.pos \in Nat /\ f.upTo \in Nat /\ f.pos <= f.upTo /\ f.class \in ErrorClass
  BY DEF HubFrame, WalkSound
<1>4. CASE f.stage = "global"
  <2>1. /\ f.upTo <= Len(globalHooks)
        /\ \A s \in calls : s[1] = "global" /\ s[2] \in FirstHooks(globalHooks, f.pos)
        /\ \A h \in FirstHooks(globalHooks, f.pos) : <<"global", h>> \in calls
        /\ \A s \in waits : \/ s[1] = "global" /\ s[2] \in FirstHooks(globalHooks, f.upTo)
                            \/ s[1] = "class" /\ s[2] \in ToSet(OfClass(f.class))
    BY <1>1, <1>4 DEF WalkSound
  <2>2. /\ globalHooks \in Seq(Callback) /\ globalHooks' \in Seq(Callback)
        /\ classHooks \in Seq(HookList) /\ classHooks' \in Seq(HookList)
    BY DEF HubInv, HubTypes, HookList
  <2>3. f.upTo <= Len(globalHooks')
    <3>1. Len(globalHooks) <= Len(globalHooks')
      BY <2>2 DEF Grown
    <3>2. QED
      BY <1>3, <2>1, <2>2, <3>1
  <2>4. \A n \in 0 .. f.upTo : FirstHooks(globalHooks', n) = FirstHooks(globalHooks, n)
    <3>1. \A p \in 1 .. f.upTo : globalHooks'[p] = globalHooks[p]
      BY <1>3, <2>1, <2>2 DEF Grown
    <3>2. QED
      BY <1>3, <3>1 DEF FirstHooks
  <2>5. ToSet(OfClass(f.class)) \subseteq ToSet(OfClass(f.class))'
    <3>1. CASE classList[f.class] = 0
      <4>1. ToSet(OfClass(f.class)) = {}
        BY <3>1 DEF OfClass, ToSet
      <4>2. QED
        BY <4>1
    <3>2. CASE classList[f.class] # 0
      <4>1. PICK l \in DOMAIN classHooks : l = classList[f.class] /\ l # 0
        BY <1>3, <3>2 DEF HubInv, HubTypes
      <4>2. classList'[f.class] = l
        BY <1>3, <4>1 DEF Grown
      <4>3. OfClass(f.class) = classHooks[l] /\ OfClass(f.class)' = classHooks'[l]
        BY <4>1, <4>2 DEF OfClass
      <4>4. \A i \in DOMAIN classHooks[l] :
               i \in DOMAIN classHooks'[l] /\ classHooks'[l][i] = classHooks[l][i]
        BY <4>1 DEF Grown
      <4>5. QED
        BY <4>3, <4>4 DEF ToSet
    <3>3. QED
      BY <3>1, <3>2
  <2>6. f.pos \in 0 .. f.upTo /\ f.upTo \in 0 .. f.upTo
    BY <1>3
  <2>7. /\ \A s \in calls : s[1] = "global" /\ s[2] \in FirstHooks(globalHooks', f.pos)
        /\ \A h \in FirstHooks(globalHooks', f.pos) : <<"global", h>> \in calls
        /\ \A s \in waits : \/ s[1] = "global" /\ s[2] \in FirstHooks(globalHooks', f.upTo)
                            \/ s[1] = "class" /\ s[2] \in ToSet(OfClass(f.class))'
    BY <2>1, <2>4, <2>5, <2>6
  <2>8. QED
    BY <1>2, <1>3, <1>4, <2>3, <2>7 DEF WalkSound
<1>5. CASE f.stage = "class"
  <2>1. PICK old, new : old = ListOf(f.list) /\ new = ListOf(f.list)'
    OBVIOUS
  <2>2. /\ f.upTo <= Len(old)
        /\ \A s \in calls : s[1] = "class" => s[2] \in FirstHooks(old, f.pos)
        /\ \A h \in FirstHooks(old, f.pos) : <<"class", h>> \in calls
        /\ \A s \in waits : \/ s \in calls
                            \/ s[1] = "class" /\ s[2] \in FirstHooks(old, f.upTo)
    BY <1>1, <1>5, <2>1 DEF WalkSound
  <2>3. /\ old \in Seq(Callback) /\ new \in Seq(Callback)
        /\ \A i \in DOMAIN old : i \in DOMAIN new /\ new[i] = old[i]
    <3>1. CASE f.list = 0
      <4>1. old = <<>> /\ new = <<>>
        BY <2>1, <3>1 DEF ListOf
      <4>2. QED
        BY <4>1
    <3>2. CASE f.list # 0
      <4>1. PICK l \in DOMAIN classHooks : l = f.list /\ l # 0
        BY <3>2
      <4>2. old = classHooks[l] /\ new = classHooks'[l] /\ l \in DOMAIN classHooks'
        BY <2>1, <4>1 DEF ListOf, Grown
      <4>3. classHooks \in Seq(HookList) /\ classHooks' \in Seq(HookList)
        BY DEF HubInv, HubTypes
      <4>4. old \in HookList /\ new \in HookList
        BY <4>1, <4>2, <4>3
      <4>5. QED
        BY <4>1, <4>2, <4>4 DEF Grown, HookList
    <3>3. QED
      BY <3>1, <3>2
  <2>4. Len(old) <= Len(new) /\ Len(old) \in Nat /\ Len(new) \in Nat
    BY <2>3
  <2>5. \A p \in 1 .. f.upTo : new[p] = old[p]
    BY <1>3, <2>2, <2>3
  <2>6. FirstHooks(new, f.pos) = FirstHooks(old, f.pos)
        /\ FirstHooks(new, f.upTo) = FirstHooks(old, f.upTo)
    BY <1>3, <2>5 DEF FirstHooks
  <2>7. f.upTo <= Len(new)
    BY <1>3, <2>2, <2>4
  <2>8. QED
    BY <1>2, <1>3, <1>5, <2>1, <2>2, <2>6, <2>7 DEF WalkSound
<1>6. QED
  BY <1>4, <1>5 DEF HubFrame

\* Hooks change during captures: lists grow, or the captures under way are no longer
\* calm.
LEMMA HooksKept ==
    ASSUME HubInv, HubTypes', UNCHANGED <<eventHistory, counted, nextId, frames, sinceReset, called, due>>,
           \/ Grown /\ calm' = calm
           \/ Disturbed /\ DOMAIN classHooks' = DOMAIN classHooks
    PROVE  HubInv'
<1>1. HistoryExact'
  BY DEF HubInv, HistoryExact
<1>2. calm' \subseteq calm
  BY DEF Disturbed
<1>3. CallsSound'
  BY <1>2 DEF HubInv, CallsSound, Finished
<1>4. ASSUME NEW i \in DOMAIN frames, frames[i].id \in calm'
      PROVE  WalkSound(frames[i])'
  <2>1. Grown /\ calm' = calm
    BY <1>4 DEF Disturbed, UnderWay
  <2>2. PICK f : f = frames[i]
    OBVIOUS
  <2>3. /\ f \in HubFrame /\ WalkSound(f)
        /\ f.list # 0 => f.list \in DOMAIN classHooks
        /\ f.id \in 1 .. (nextId - 1)
    BY <1>4, <2>1, <2>2 DEF HubInv, HubTypes, FramesSound
  <2>4. f.id \in DOMAIN called
    BY <2>3 DEF HubInv, HubTypes
  <2>5. WalkSound(f)'
    BY <2>1, <2>3, <2>4, WalkKept
  <2>6. QED
    BY <2>2, <2>5
<1>5. FramesSound'
  <2>1. \A l \in DOMAIN classHooks : l \in DOMAIN classHooks'
    <3>1. CASE Grown
      BY <3>1 DEF Grown
    <3>2. QED
      BY <3>1
  <2>2. QED
    BY <1>4, <2>1 DEF HubInv, FramesSound
<1>6. QED
  BY <1>1, <1>3, <1>5 DEF HubInv

\* A hook is subscribed, and the list of its class made if it has none.
LEMMA SubscribesKeep ==
    ASSUME HubInv, NEW h \in Callback,
           OnError(h) \/ \E k \in ErrorClass : OnErrorClass(k, h)
    PROVE  HubInv'
<1>1. CASE OnError(h)
  <2>1. globalHooks \in HookList
    BY DEF HubInv, HubTypes
  <2>2. /\ globalHooks' \in HookList
        /\ \A i \in DOMAIN globalHooks : i \in DOMAIN globalHooks' /\ globalHooks'[i] = globalHooks[i]
    BY <1>1, <2>1, HookAdded DEF OnError
  <2>3. Grown
    BY <1>1, <2>2 DEF Grown, OnError
  <2>4. HubTypes'
    BY <1>1, <2>2 DEF HubInv, HubTypes, OnError
  <2>5. QED
    BY <1>1, <2>3, <2>4, HooksKept DEF OnError
<1>2. ASSUME NEW k \in ErrorClass, OnErrorClass(k, h), classList[k] = 0 PROVE HubInv'
  <2>1. PICK m \in Nat : m = Len(classHooks) /\ DOMAIN classHooks = 1 .. m
    BY DEF HubInv, HubTypes
  <2>2. PICK new : new = <<h>>
    OBVIOUS
  <2>3. new \in HookList
    BY <2>2 DEF HookList
  <2>4. classHooks' = Append(classHooks, new) /\ classList' = [classList EXCEPT ![k] = m + 1]
    BY <1>2, <2>1, <2>2 DEF OnErrorClass
  <2>5. /\ classHooks' \in Seq(HookList) /\ DOMAIN classHooks' = 1 .. (m + 1)
        /\ \A l \in DOMAIN classHooks : classHooks'[l] = classHooks[l]
    BY <2>1, <2>3, <2>4 DEF HubInv, HubTypes
  <2>6. /\ classList' \in [ErrorClass -> Nat] /\ classList'[k] = m + 1
        /\ \A j \in ErrorClass : j # k => classList'[j] = classList[j]
    BY <2>1, <2>4 DEF HubInv, HubTypes
  <2>7. \A j \in ErrorClass : classList'[j] # 0 => classList'[j] \in DOMAIN classHooks'
    <3>1. \A j \in ErrorClass : classList[j] # 0 => classList[j] \in 1 .. m
      BY <2>1 DEF HubInv, HubTypes
    <3>2. QED
      BY <2>1, <2>5, <2>6, <3>1
  <2>8. UNCHANGED <<eventHistory, counted, nextId, globalHooks, frames, sinceReset, called, due, calm>>
    BY <1>2 DEF OnErrorClass
  <2>9. Grown
    BY <1>2, <2>1, <2>5, <2>6, <2>8 DEF Grown
  <2>10. HubTypes'
    BY <2>5, <2>6, <2>7, <2>8 DEF HubInv, HubTypes
  <2>11. QED
    BY <2>8, <2>9, <2>10, HooksKept
<1>3. ASSUME NEW k \in ErrorClass, OnErrorClass(k, h), classList[k] # 0 PROVE HubInv'
  <2>1. PICK l \in DOMAIN classHooks : l = classList[k]
    BY <1>3 DEF HubInv, HubTypes
  <2>2. PICK old, new : old = classHooks[l] /\ new = Append(old, h)
    OBVIOUS
  <2>3. old \in HookList /\ ~Contains(old, h)
    BY <1>3, <2>1, <2>2 DEF HubInv, HubTypes, OnErrorClass, OfClass
  <2>4. new \in HookList /\ \A i \in DOMAIN old : i \in DOMAIN new /\ new[i] = old[i]
    BY <2>2, <2>3, HookAdded
  <2>5. classHooks' = [classHooks EXCEPT ![l] = new] /\ classHooks \in Seq(HookList)
    BY <1>3, <2>1, <2>2 DEF OnErrorClass, HubInv, HubTypes
  <2>6. /\ classHooks' \in Seq(HookList) /\ DOMAIN classHooks' = DOMAIN classHooks
        /\ classHooks'[l] = new /\ \A j \in DOMAIN classHooks : j # l => classHooks'[j] = classHooks[j]
    BY <2>4, <2>5
  <2>7. UNCHANGED <<eventHistory, counted, nextId, globalHooks, classList, frames, sinceReset, called, due, calm>>
    BY <1>3 DEF OnErrorClass
  <2>8. Grown
    BY <2>2, <2>4, <2>6, <2>7 DEF Grown
  <2>9. HubTypes'
    BY <2>6, <2>7 DEF HubInv, HubTypes
  <2>10. QED
    BY <2>7, <2>8, <2>9, HooksKept
<1>4. QED
  BY <1>1, <1>2, <1>3

\* A hook is unsubscribed, or all hooks are cleared.
LEMMA UnsubscribesKeep ==
    ASSUME HubInv,
           \/ \E h \in Callback : UnsubscribeGlobal(h)
           \/ \E h \in Callback : \E l \in DOMAIN classHooks : UnsubscribeClass(l, h)
           \/ ClearHooks
    PROVE  HubInv'
<1>1. ASSUME NEW h \in Callback, UnsubscribeGlobal(h) PROVE HubInv'
  <2>1. globalHooks' \in HookList
    <3>1. globalHooks \in HookList
      BY DEF HubInv, HubTypes
    <3>2. PICK i \in DOMAIN globalHooks : globalHooks' = RemoveAt(globalHooks, i)
      BY <1>1 DEF UnsubscribeGlobal
    <3>3. QED
      BY <3>1, <3>2, HookRemoved
  <2>2. Disturbed /\ UNCHANGED <<eventHistory, counted, nextId, classHooks, classList, frames,
                                 sinceReset, called, due>>
    BY <1>1 DEF UnsubscribeGlobal
  <2>3. HubTypes'
    BY <2>1, <2>2 DEF HubInv, HubTypes, Disturbed, UnderWay
  <2>4. QED
    BY <2>2, <2>3, HooksKept
<1>2. ASSUME NEW h \in Callback, NEW l \in DOMAIN classHooks, UnsubscribeClass(l, h) PROVE HubInv'
  <2>1. classHooks \in Seq(HookList) /\ classHooks[l] \in HookList
    BY DEF HubInv, HubTypes
  <2>2. PICK i \in DOMAIN classHooks[l] :
           classHooks' = [classHooks EXCEPT ![l] = RemoveAt(classHooks[l], i)]
    BY <1>2 DEF UnsubscribeClass
  <2>3. PICK new : new = RemoveAt(classHooks[l], i)
    OBVIOUS
  <2>4. new \in HookList
    BY <2>1, <2>3, HookRemoved
  <2>5. classHooks' \in Seq(HookList) /\ Len(classHooks') = Len(classHooks)
        /\ DOMAIN classHooks' = DOMAIN classHooks
    BY <2>1, <2>2, <2>3, <2>4
  <2>6. Disturbed /\ UNCHANGED <<eventHistory, counted, nextId, globalHooks, classList, frames,
                                 sinceReset, called, due>>
    BY <1>2 DEF UnsubscribeClass
  <2>7. HubTypes'
    BY <2>5, <2>6 DEF HubInv, HubTypes, Disturbed, UnderWay
  <2>8. QED
    BY <2>6, <2>7, HooksKept, <2>5
<1>3. CASE ClearHooks
  <2>1. /\ globalHooks' = <<>> /\ classList' = [k \in ErrorClass |-> 0] /\ Disturbed
        /\ UNCHANGED <<eventHistory, counted, nextId, classHooks, frames, sinceReset, called, due>>
    BY <1>3 DEF ClearHooks
  <2>2. HubTypes'
    BY <2>1, NoHooks DEF HubInv, HubTypes, Disturbed, UnderWay
  <2>3. QED
    BY <2>1, <2>2, HooksKept
<1>4. QED
  BY <1>1, <1>2, <1>3

\* History and counts start again.
LEMMA ResetKeeps == ASSUME HubInv, ResetHub PROVE HubInv'
<1>1. /\ eventHistory' = <<>> /\ counted' = NothingCounted /\ sinceReset' = <<>>
      /\ UNCHANGED <<nextId, globalHooks, classHooks, classList, frames, called, due, calm>>
  BY DEF ResetHub
<1>2. HubTypes'
  BY <1>1 DEF HubInv, HubTypes, NothingCounted
<1>3. HistoryExact'
  <2>1. counted'.total = 0 /\ \A k \in ErrorClass : counted'.byClass[k] = 0
    BY <1>1 DEF NothingCounted
  <2>2. \A k \in ErrorClass : PlacesOf(k, sinceReset') = {}
    BY <1>1 DEF PlacesOf
  <2>3. Cardinality({}) = 0
    BY FS_EmptySet
  <2>4. Len(sinceReset') = 0 /\ Len(eventHistory') = 0 /\ DOMAIN eventHistory' = {}
    BY <1>1
  <2>5. QED
    BY <2>1, <2>2, <2>3, <2>4, HubAssumption DEF HistoryExact
<1>4. FramesSound'
  BY <1>1 DEF HubInv, FramesSound, WalkSound, ListOf, OfClass
<1>5. CallsSound'
  BY <1>1 DEF HubInv, CallsSound, Finished
<1>6. QED
  BY <1>2, <1>3, <1>4, <1>5 DEF HubInv

\* What the ring of n events is after an event was pushed.
EventKept(s, n, ev, new) ==
    /\ new \in Seq(HubEvent)
    /\ n < MaxHistory => Len(new) = n + 1 /\ new[n + 1] = ev /\ \A i \in 1 .. n : new[i] = s[i]
    /\ n = MaxHistory => Len(new) = n /\ new[n] = ev /\ \A i \in 1 .. (n - 1) : new[i] = s[i + 1]

\* What the history is after an event, whether or not the oldest had to go.
LEMMA EventRetained ==
    ASSUME NEW s \in Seq(HubEvent), NEW ev \in HubEvent, NEW n \in Nat, n = Len(s), n <= MaxHistory,
           NEW new, new = Retained(Append(s, ev))
    PROVE  EventKept(s, n, ev, new)
<1>1. PICK all : all = Append(s, ev)
  OBVIOUS
<1>2. /\ all \in Seq(HubEvent) /\ Len(all) = n + 1 /\ all[n + 1] = ev
      /\ \A i \in 1 .. n : all[i] = s[i]
  BY <1>1
<1>3. CASE n < MaxHistory
  <2>1. new = all
    BY <1>1, <1>2, <1>3, HubAssumption DEF Retained
  <2>2. QED
    BY <1>2, <1>3, <2>1, HubAssumption DEF EventKept
<1>4. CASE n = MaxHistory
  <2>1. new = Tail(all)
    BY <1>1, <1>2, <1>4, HubAssumption DEF Retained
  <2>2. new \in Seq(HubEvent) /\ Len(new) = n /\ \A i \in 1 .. n : new[i] = all[i + 1]
    BY <1>2, <2>1
  <2>3. n \in 1 .. n
    BY <1>4, HubAssumption
  <2>4. new[n] = ev /\ \A i \in 1 .. (n - 1) : new[i] = s[i + 1]
    BY <1>2, <2>2, <2>3
  <2>5. ~(n < MaxHistory)
    BY <1>4, HubAssumption
  <2>6. QED
    BY <2>2, <2>4, <2>5 DEF EventKept
<1>5. QED
  BY <1>3, <1>4, HubAssumption

\* The events of a class were as many before another, of a class k, came to them.
CountedIn(j, k, s, new) ==
    /\ Cardinality(PlacesOf(j, s)) \in Nat
    /\ Cardinality(PlacesOf(j, new)) = Cardinality(PlacesOf(j, s)) + (IF j = k THEN 1 ELSE 0)

\* An event is counted with its class and no other.
LEMMA CountedOnce ==
    ASSUME NEW s \in Seq(ErrorClass), NEW k \in ErrorClass, NEW new, new = Append(s, k),
           NEW j \in ErrorClass
    PROVE  CountedIn(j, k, s, new)
<1>1. PICK n \in Nat : n = Len(s) /\ DOMAIN s = 1 .. n
  OBVIOUS
<1>2. /\ DOMAIN new = 1 .. (n + 1) /\ new[n + 1] = k
      /\ \A i \in 1 .. n : new[i] = s[i]
  BY <1>1
<1>3. PICK old : old = PlacesOf(j, s)
  OBVIOUS
<1>4. IsFiniteSet(old) /\ n + 1 \notin old /\ Cardinality(old) \in Nat
  <2>1. IsFiniteSet(1 .. n) /\ old \subseteq 1 .. n
    BY <1>1, <1>3, FS_Interval DEF PlacesOf
  <2>2. IsFiniteSet(old)
    BY <2>1, FS_Subset
  <2>3. QED
    BY <2>1, <2>2, FS_CardinalityType
<1>5. CASE j = k
  <2>1. PlacesOf(j, new) = old \cup {n + 1}
    BY <1>1, <1>2, <1>3, <1>5 DEF PlacesOf
  <2>2. Cardinality(old \cup {n + 1}) = Cardinality(old) + 1
    BY <1>4, FS_AddElement
  <2>3. QED
    BY <1>3, <1>4, <1>5, <2>1, <2>2 DEF CountedIn
<1>6. CASE j # k
  <2>1. PlacesOf(j, new) = old
    BY <1>1, <1>2, <1>3, <1>6 DEF PlacesOf
  <2>2. QED
    BY <1>3, <1>4, <1>6, <2>1 DEF CountedIn
<1>7. QED
  BY <1>5, <1>6

\* History and counts stay those of the events since the reset.
LEMMA HistoryKept == ASSUME HubInv, NEW k \in ErrorClass, Capture(k) PROVE HistoryExact'
<1>1. PICK n \in Nat : n = Len(eventHistory)
  BY DEF HubInv, HubTypes
<1>2. PICK m \in Nat : m = Len(sinceReset)
  BY DEF HubInv, HubTypes
<1>3. PICK ev : ev = [id |-> nextId, class |-> k]
  OBVIOUS
<1>4. eventHistory \in Seq(HubEvent) /\ nextId \in Nat /\ sinceReset \in Seq(ErrorClass)
      /\ ev \in HubEvent /\ ev.id = nextId /\ ev.class = k
  BY <1>3 DEF HubInv, HubTypes, HubEvent
<1>5. n = (IF m < MaxHistory THEN m ELSE MaxHistory) /\ n <= MaxHistory /\ n <= m
  BY <1>1, <1>2, HubAssumption DEF HubInv, HistoryExact
<1>6. /\ eventHistory' = Retained(Append(eventHistory, ev)) /\ nextId' = nextId + 1
      /\ counted' = [counted EXCEPT !.total = @ + 1, !.byClass[k] = @ + 1]
      /\ sinceReset' = Append(sinceReset, k)
  BY <1>3 DEF Capture
<1>7. PICK new : new = eventHistory'
  OBVIOUS
<1>8. /\ new \in Seq(HubEvent)
      /\ n < MaxHistory =>
            Len(new) = n + 1 /\ new[n + 1] = ev /\ \A i \in 1 .. n : new[i] = eventHistory[i]
      /\ n = MaxHistory =>
            Len(new) = n /\ new[n] = ev /\ \A i \in 1 .. (n - 1) : new[i] = eventHistory[i + 1]
  <2>1. PICK s \in Seq(HubEvent) : s = eventHistory
    BY <1>4
  <2>2. new = Retained(Append(s, ev)) /\ n = Len(s)
    BY <1>1, <1>6, <1>7, <2>1
  <2>3. EventKept(s, n, ev, new)
    BY <1>4, <1>5, <2>2, EventRetained
  <2>4. QED
    BY <2>1, <2>3 DEF EventKept
<1>9. /\ Len(sinceReset') = m + 1 /\ sinceReset'[m + 1] = k
      /\ \A i \in 1 .. m : sinceReset'[i] = sinceReset[i]
  BY <1>2, <1>4, <1>6
<1>10. counted'.total = Len(sinceReset')
  BY <1>2, <1>6, <1>9 DEF HubInv, HubTypes, HistoryExact
<1>11. \A j \in ErrorClass :
          counted'.byClass[j] = Cardinality(PlacesOf(j, sinceReset'))
  <2>1. TAKE j \in ErrorClass
  <2>2. counted'.byClass[j] = counted.byClass[j] + (IF j = k THEN 1 ELSE 0)
    BY <1>6 DEF HubInv, HubTypes
  <2>3. counted.byClass[j] = Cardinality(PlacesOf(j, sinceReset))
    BY DEF HubInv, HistoryExact
  <2>4. QED
    <3>1. PICK s \in Seq(ErrorClass) : s = sinceReset
      BY <1>4
    <3>2. PICK longer : longer = Append(s, k)
      OBVIOUS
    <3>3. CountedIn(j, k, s, longer)
      BY <3>2, CountedOnce
    <3>4. QED
      BY <1>6, <2>2, <2>3, <3>1, <3>2, <3>3 DEF CountedIn
<1>12. \A i \in 1 .. n : /\ eventHistory[i].id = nextId - 1 - n + i
                         /\ eventHistory[i].class = sinceReset[m - n + i]
  <2>1. DOMAIN eventHistory = 1 .. n
    BY <1>1, <1>4
  <2>2. QED
    BY <1>1, <1>2, <2>1 DEF HubInv, HistoryExact
<1>16. SUFFICES /\ Len(new) = (IF m + 1 < MaxHistory THEN m + 1 ELSE MaxHistory)
                /\ \A i \in DOMAIN new :
                      /\ new[i].id = (nextId + 1) - 1 - Len(new) + i
                      /\ new[i].class = sinceReset'[(m + 1) - Len(new) + i]
  BY <1>6, <1>7, <1>9, <1>10, <1>11 DEF HistoryExact
<1>13. CASE n < MaxHistory
  <2>1. n = m /\ Len(new) = n + 1
    BY <1>5, <1>8, <1>13
  <2>2. \A i \in 1 .. n : new[i].id = (nextId + 1) - 1 - (n + 1) + i
                          /\ new[i].class = sinceReset'[(m + 1) - (n + 1) + i]
    <3>1. TAKE i \in 1 .. n
    <3>2. new[i] = eventHistory[i]
      BY <1>8, <1>13
    <3>3. /\ (m + 1) - (n + 1) + i = i /\ m - n + i = i
          /\ (nextId + 1) - 1 - (n + 1) + i = nextId - 1 - n + i
      BY <1>4, <2>1
    <3>4. i \in 1 .. m
      BY <2>1
    <3>5. QED
      BY <1>9, <1>12, <3>2, <3>3, <3>4
  <2>3. new[n + 1].id = (nextId + 1) - 1 - (n + 1) + (n + 1)
        /\ new[n + 1].class = sinceReset'[(m + 1) - (n + 1) + (n + 1)]
    <3>1. (nextId + 1) - 1 - (n + 1) + (n + 1) = nextId /\ (m + 1) - (n + 1) + (n + 1) = m + 1
      BY <1>4
    <3>2. QED
      BY <1>4, <1>8, <1>9, <1>13, <3>1
  <2>4. \A i \in DOMAIN new : i \in 1 .. n \/ i = n + 1
    BY <1>8, <2>1
  <2>5. Len(new) = IF m + 1 < MaxHistory THEN m + 1 ELSE MaxHistory
    BY <1>13, <2>1, HubAssumption
  <2>6. QED
    BY <2>1, <2>2, <2>3, <2>4, <2>5
<1>14. CASE n = MaxHistory
  <2>1. Len(new) = n /\ new[n] = ev /\ n \in Nat \ {0}
    BY <1>8, <1>14, HubAssumption
  <2>2. \A i \in 1 .. (n - 1) : new[i].id = (nextId + 1) - 1 - n + i
                                /\ new[i].class = sinceReset'[(m + 1) - n + i]
    <3>1. TAKE i \in 1 .. (n - 1)
    <3>2. new[i] = eventHistory[i + 1] /\ i + 1 \in 1 .. n
      BY <1>8, <1>14, <2>1
    <3>3. /\ m - n + (i + 1) = (m + 1) - n + i /\ m - n + (i + 1) \in 1 .. m
          /\ (nextId + 1) - 1 - n + i = nextId - 1 - n + (i + 1)
      <4>1. n <= m /\ i \in Int /\ 1 <= i /\ i <= n - 1 /\ n \in Int /\ m \in Int /\ nextId \in Int
        BY <1>4, <1>5, <2>1
      <4>2. QED
        BY <4>1
    <3>4. QED
      BY <1>9, <1>12, <3>2, <3>3
  <2>3. new[n].id = (nextId + 1) - 1 - n + n /\ new[n].class = sinceReset'[(m + 1) - n + n]
    <3>1. (nextId + 1) - 1 - n + n = nextId /\ (m + 1) - n + n = m + 1
      BY <1>4
    <3>2. QED
      BY <1>4, <1>9, <2>1, <3>1
  <2>4. \A i \in DOMAIN new : i \in 1 .. (n - 1) \/ i = n
    BY <1>8, <2>1
  <2>5. Len(new) = IF m + 1 < MaxHistory THEN m + 1 ELSE MaxHistory
    BY <1>5, <1>14, <2>1, HubAssumption
  <2>6. QED
    BY <2>1, <2>2, <2>3, <2>4, <2>5
<1>15. QED
  BY <1>5, <1>13, <1>14, HubAssumption

\* A capture leaves everything of its kind.
LEMMA CaptureTypes == ASSUME HubInv, SubsExact, NEW k \in ErrorClass, Capture(k) PROVE HubTypes'
<1>1. PICK f : f = Frame(nextId, k)
  OBVIOUS
<1>2. PICK ev : ev = [id |-> nextId, class |-> k]
  OBVIOUS
<1>3. PICK d : /\ d = Subscribed(k)
               /\ d = {<<"global", h>> : h \in ToSet(globalHooks)}
                         \union {<<"class", h>> : h \in ToSet(OfClass(k))}
  BY DEF SubsExact, Subscribed
<1>4. /\ eventHistory' = Retained(Append(eventHistory, ev)) /\ nextId' = nextId + 1
      /\ counted' = [counted EXCEPT !.total = @ + 1, !.byClass[k] = @ + 1]
      /\ sinceReset' = Append(sinceReset, k) /\ frames' = Append(frames, f)
      /\ due' = Append(due, d) /\ called' = Append(called, <<>>) /\ calm' = calm \cup {nextId}
      /\ UNCHANGED <<globalHooks, classHooks, classList>>
  BY <1>1, <1>2, <1>3 DEF Capture
<1>5. /\ nextId \in Nat \ {0} /\ globalHooks \in Seq(Callback) /\ ev \in HubEvent
      /\ Len(globalHooks) \in Nat /\ <<>> \in Seq(HookCall)
  BY <1>2 DEF HubInv, HubTypes, HookList, HubEvent
<1>6. OfClass(k) \in Seq(Callback)
  <2>1. classList[k] # 0 => classHooks[classList[k]] \in Seq(Callback)
    BY DEF HubInv, HubTypes, HookList
  <2>2. QED
    BY <2>1 DEF OfClass
<1>7. d \in SUBSET HookCall
  BY <1>3, <1>5, <1>6 DEF ToSet, HookCall
<1>8. f \in HubFrame
  BY <1>1, <1>5 DEF Frame, HubFrame
<1>9. eventHistory' \in Seq(HubEvent)
  <2>1. eventHistory \in Seq(HubEvent) /\ Len(eventHistory) \in Nat /\ Len(eventHistory) <= MaxHistory
    BY HubAssumption DEF HubInv, HubTypes, HistoryExact
  <2>2. QED
    <3>1. PICK s \in Seq(HubEvent), n \in Nat : s = eventHistory /\ n = Len(s) /\ n <= MaxHistory
      BY <2>1
    <3>2. EventKept(s, n, ev, Retained(Append(s, ev)))
      BY <1>5, <3>1, EventRetained
    <3>3. QED
      BY <1>4, <3>1, <3>2 DEF EventKept
<1>10. counted' \in [total : Nat, byClass : [ErrorClass -> Nat]]
  <2>1. PICK c \in [total : Nat, byClass : [ErrorClass -> Nat]] : c = counted
    BY DEF HubInv, HubTypes
  <2>2. counted' = [c EXCEPT !.total = c.total + 1, !.byClass = [c.byClass EXCEPT ![k] = c.byClass[k] + 1]]
    BY <1>4, <2>1
  <2>3. [c.byClass EXCEPT ![k] = c.byClass[k] + 1] \in [ErrorClass -> Nat] /\ c.total + 1 \in Nat
    OBVIOUS
  <2>4. QED
    BY <2>2, <2>3
<1>11. /\ frames' \in Seq(HubFrame) /\ sinceReset' \in Seq(ErrorClass)
       /\ called' \in Seq(Seq(HookCall)) /\ Len(called') = nextId' - 1
       /\ due' \in Seq(SUBSET HookCall) /\ Len(due') = nextId' - 1
  <2>1. /\ frames \in Seq(HubFrame) /\ sinceReset \in Seq(ErrorClass)
        /\ called \in Seq(Seq(HookCall)) /\ Len(called) = nextId - 1
        /\ due \in Seq(SUBSET HookCall) /\ Len(due) = nextId - 1
    BY DEF HubInv, HubTypes
  <2>2. frames' \in Seq(HubFrame) /\ sinceReset' \in Seq(ErrorClass)
    BY <1>4, <1>8, <2>1
  <2>3. called' \in Seq(Seq(HookCall)) /\ Len(called') = nextId' - 1
    BY <1>4, <1>5, <2>1
  <2>4. due' \in Seq(SUBSET HookCall) /\ Len(due') = nextId' - 1
    BY <1>4, <1>5, <1>7, <2>1
  <2>5. QED
    BY <2>2, <2>3, <2>4
<1>12. nextId' \in Nat \ {0} /\ calm' \subseteq 1 .. (nextId' - 1)
  <2>1. calm \subseteq 1 .. (nextId - 1)
    BY DEF HubInv, HubTypes
  <2>2. nextId' = nextId + 1 /\ calm' = calm \cup {nextId} /\ nextId \in Nat \ {0}
    BY <1>4, <1>5
  <2>3. QED
    BY <2>1, <2>2
<1>13. QED
  BY <1>4, <1>9, <1>10, <1>11, <1>12 DEF HubInv, HubTypes

\* An event is captured: its walk over the global hooks begins.
LEMMA CaptureKeeps == ASSUME HubInv, SubsExact, NEW k \in ErrorClass, Capture(k) PROVE HubInv'
<1>1. PICK id \in Nat \ {0} : id = nextId
  BY DEF HubInv, HubTypes
<1>2. PICK f : f = Frame(id, k)
  OBVIOUS
<1>3. PICK d : /\ d = Subscribed(k)
               /\ d = {<<"global", h>> : h \in ToSet(globalHooks)}
                         \union {<<"class", h>> : h \in ToSet(OfClass(k))}
  BY DEF SubsExact, Subscribed
<1>4. /\ nextId' = id + 1 /\ frames' = Append(frames, f)
      /\ due' = Append(due, d) /\ called' = Append(called, <<>>) /\ calm' = calm \cup {id}
      /\ UNCHANGED <<globalHooks, classHooks, classList>>
  BY <1>1, <1>2, <1>3 DEF Capture
<1>5. HubTypes'
  BY CaptureTypes
<1>6. PICK n \in Nat : n = Len(frames) /\ DOMAIN frames = 1 .. n
  BY DEF HubInv, HubTypes
<1>7. /\ DOMAIN frames' = 1 .. (n + 1) /\ frames'[n + 1] = f
      /\ \A i \in 1 .. n : frames'[i] = frames[i]
  BY <1>4, <1>6 DEF HubInv, HubTypes
<1>8. /\ \A e \in 1 .. (id - 1) : called'[e] = called[e] /\ due'[e] = due[e]
      /\ called'[id] = <<>> /\ due'[id] = d
      /\ DOMAIN called = 1 .. (id - 1)
  BY <1>1, <1>4 DEF HubInv, HubTypes
<1>9. Grown
  BY <1>4 DEF Grown
<1>10. /\ f.id = id /\ f.stage = "global" /\ f.class = k /\ f.pos = 0 /\ f.list = 0
       /\ f.upTo = Len(globalHooks)
  BY <1>2 DEF Frame
<1>11. globalHooks \in Seq(Callback) /\ Len(globalHooks) \in Nat
  BY DEF HubInv, HubTypes, HookList
<1>12. WalkSound(f)'
  <2>1. ToSet(called'[id]) = {}
    BY <1>8 DEF ToSet
  <2>2. FirstHooks(globalHooks, 0) = {}
    BY DEF FirstHooks
  <2>3. FirstHooks(globalHooks, Len(globalHooks)) = ToSet(globalHooks)
    BY <1>11 DEF FirstHooks, ToSet
  <2>4. \A s \in d : \/ s[1] = "global" /\ s[2] \in FirstHooks(globalHooks, Len(globalHooks))
                     \/ s[1] = "class" /\ s[2] \in ToSet(OfClass(k))
    BY <1>3, <2>3
  <2>5. OfClass(k)' = OfClass(k) /\ globalHooks' = globalHooks
    BY <1>4 DEF OfClass
  <2>6. f.pos <= f.upTo /\ f.upTo <= Len(globalHooks)
    BY <1>10, <1>11
  <2>7. QED
    BY <1>8, <1>10, <2>1, <2>2, <2>4, <2>5, <2>6 DEF WalkSound
<1>13. FramesSound'
  <2>1. ASSUME NEW i \in 1 .. n
        PROVE  /\ frames[i].id \in 1 .. (id - 1)
               /\ frames[i].list # 0 => frames[i].list \in DOMAIN classHooks
               /\ frames[i].id \in calm' => WalkSound(frames[i])'
    <3>1. PICK g : g = frames[i]
      OBVIOUS
    <3>2. /\ g \in HubFrame /\ g.id \in 1 .. (id - 1)
          /\ g.list # 0 => g.list \in DOMAIN classHooks
          /\ g.id \in calm => WalkSound(g)
      <4>1. g \in HubFrame
        BY <1>6, <2>1, <3>1 DEF HubInv, HubTypes
      <4>2. QED
        BY <1>1, <1>6, <2>1, <3>1, <4>1 DEF HubInv, FramesSound
    <3>3. g.id # id
      BY <1>1, <3>2
    <3>4. g.id \in calm' => WalkSound(g)'
      BY <1>4, <1>5, <1>8, <1>9, <3>2, <3>3, WalkKept
    <3>5. QED
      BY <1>7, <3>1, <3>2, <3>4
  <2>2. \A i \in DOMAIN frames' :
           (/\ frames[i].id \in 1 .. (nextId - 1)
            /\ frames[i].list # 0 => frames[i].list \in DOMAIN classHooks
            /\ frames[i].id \in calm => WalkSound(frames[i]))'
    <3>1. TAKE i \in DOMAIN frames'
    <3>2. CASE i = n + 1
      BY <1>1, <1>4, <1>7, <1>10, <1>12, <3>2
    <3>3. CASE i \in 1 .. n
      BY <1>1, <1>4, <1>7, <2>1, <3>3
    <3>4. QED
      BY <1>7, <3>2, <3>3
  <2>3. ASSUME NEW i \in DOMAIN frames', NEW j \in DOMAIN frames', frames'[i].id = frames'[j].id
        PROVE  i = j
    <3>1. CASE i \in 1 .. n /\ j \in 1 .. n
      BY <1>6, <1>7, <2>3, <3>1 DEF HubInv, FramesSound
    <3>2. CASE i = n + 1 /\ j \in 1 .. n
      <4>1. frames[j].id \in 1 .. (id - 1)
        BY <2>1, <3>2
      <4>2. QED
        BY <1>1, <1>7, <1>10, <2>3, <3>2, <4>1
    <3>3. CASE j = n + 1 /\ i \in 1 .. n
      <4>1. frames[i].id \in 1 .. (id - 1)
        BY <2>1, <3>3
      <4>2. QED
        BY <1>1, <1>7, <1>10, <2>3, <3>3, <4>1
    <3>4. QED
      BY <1>7, <3>1, <3>2, <3>3
  <2>4. QED
    BY <2>2, <2>3 DEF FramesSound
<1>14. CallsSound'
  <2>1. ASSUME NEW e \in calm'
        PROVE  /\ \A p, q \in DOMAIN called'[e] : called'[e][p] = called'[e][q] => p = q
               /\ Finished(e)' => due'[e] \subseteq ToSet(called'[e])
    <3>1. CASE e = id
      <4>1. DOMAIN called'[e] = {}
        BY <1>8, <3>1
      <4>2. ~Finished(e)'
        BY <1>7, <1>10, <3>1 DEF Finished
      <4>3. QED
        BY <4>1, <4>2
    <3>2. CASE e # id
      <4>1. e \in calm /\ e \in 1 .. (id - 1)
        BY <1>1, <1>4, <2>1, <3>2 DEF HubInv, HubTypes
      <4>2. Finished(e)' => Finished(e)
        BY <1>6, <1>7 DEF Finished
      <4>3. QED
        BY <1>8, <4>1, <4>2 DEF HubInv, CallsSound
    <3>3. QED
      BY <3>1, <3>2
  <2>2. QED
    BY <2>1 DEF CallsSound
<1>15. QED
  BY <1>5, <1>13, <1>14, HistoryKept DEF HubInv

\* The n-th capture, that of event id, moves to g, and nothing but its calls changes besides.
Moved(n, id, g) ==
    /\ n \in DOMAIN frames /\ g \in HubFrame
    /\ id = frames[n].id /\ g.id = id
    /\ g.list # 0 => g.list \in DOMAIN classHooks
    /\ frames' = [frames EXCEPT ![n] = g]
    /\ called' \in Seq(Seq(HookCall)) /\ Len(called') = Len(called)
    /\ \A e \in DOMAIN called : e # id => called'[e] = called[e]
    /\ UNCHANGED <<eventHistory, counted, nextId, globalHooks, classHooks, classList, sinceReset, due, calm>>
    /\ id \in calm => /\ WalkSound(g)'
                      /\ \A p, q \in DOMAIN called'[id] : called'[id][p] = called'[id][q] => p = q

\* A capture goes on, and those around it do not notice.
LEMMA TopMoves ==
    ASSUME HubInv, NEW n, NEW id, NEW g, Moved(n, id, g)
    PROVE  HubInv'
<1>0. /\ n \in DOMAIN frames /\ g \in HubFrame
      /\ id = frames[n].id /\ g.id = id
      /\ g.list # 0 => g.list \in DOMAIN classHooks
      /\ frames' = [frames EXCEPT ![n] = g]
      /\ called' \in Seq(Seq(HookCall)) /\ Len(called') = Len(called)
      /\ \A e \in DOMAIN called : e # id => called'[e] = called[e]
      /\ UNCHANGED <<eventHistory, counted, nextId, globalHooks, classHooks, classList, sinceReset, due, calm>>
      /\ id \in calm => /\ WalkSound(g)'
                        /\ \A p, q \in DOMAIN called'[id] : called'[id][p] = called'[id][q] => p = q
  BY DEF Moved
<1>2. frames \in Seq(HubFrame)
  BY DEF HubInv, HubTypes
<1>1. PICK m \in Nat : DOMAIN frames = 1 .. m /\ m = Len(frames)
  BY <1>2
<1>3. /\ frames' \in Seq(HubFrame) /\ DOMAIN frames' = 1 .. m /\ frames'[n] = g
      /\ \A i \in 1 .. m : i # n => frames'[i] = frames[i]
  BY <1>0, <1>1, <1>2
<1>4. HubTypes'
  BY <1>0, <1>3 DEF HubInv, HubTypes
<1>5. HistoryExact'
  BY <1>0 DEF HubInv, HistoryExact
<1>6. \A i \in 1 .. m : frames'[i].id = frames[i].id
  BY <1>0, <1>3
<1>7. Grown
  BY <1>0 DEF Grown
<1>8. ASSUME NEW i \in 1 .. m, i # n, frames[i].id \in calm PROVE WalkSound(frames[i])'
  <2>1. PICK f : f = frames[i]
    OBVIOUS
  <2>2. f \in HubFrame
    BY <1>1, <1>2, <2>1
  <2>3. WalkSound(f) /\ f.id \in 1 .. (nextId - 1)
    BY <1>1, <1>8, <2>1 DEF HubInv, FramesSound
  <2>4. f.list # 0 => f.list \in DOMAIN classHooks
    BY <1>1, <1>8, <2>1 DEF HubInv, FramesSound
  <2>5. f.id # id /\ f.id \in DOMAIN called
    BY <1>0, <1>1, <1>8, <2>1, <2>3 DEF HubInv, HubTypes, FramesSound
  <2>6. called'[f.id] = called[f.id] /\ due'[f.id] = due[f.id]
    BY <1>0, <2>5
  <2>7. WalkSound(f)'
    BY <1>4, <1>7, <2>2, <2>3, <2>4, <2>5, <2>6, WalkKept
  <2>8. QED
    BY <1>3, <1>8, <2>1, <2>7
<1>9. FramesSound'
  <2>1. \A i \in DOMAIN frames' :
           (/\ frames[i].id \in 1 .. (nextId - 1)
            /\ frames[i].list # 0 => frames[i].list \in DOMAIN classHooks
            /\ frames[i].id \in calm => WalkSound(frames[i]))'
    <3>1. TAKE i \in DOMAIN frames'
    <3>2. frames[i].id \in 1 .. (nextId - 1) /\ frames'[i].id = frames[i].id
      BY <1>1, <1>3, <1>6 DEF HubInv, FramesSound
    <3>3. CASE i = n
      BY <1>0, <1>1, <1>3, <3>2, <3>3
    <3>4. CASE i # n
      <4>1. frames'[i] = frames[i] /\ i \in 1 .. m
        BY <1>3, <3>4
      <4>2. frames[i].list # 0 => frames[i].list \in DOMAIN classHooks
        BY <1>1, <4>1 DEF HubInv, FramesSound
      <4>3. QED
        BY <1>0, <1>8, <3>2, <3>4, <4>1, <4>2
    <3>5. QED
      BY <3>3, <3>4
  <2>2. \A i, j \in DOMAIN frames' : frames'[i].id = frames'[j].id => i = j
    BY <1>1, <1>3, <1>6 DEF HubInv, FramesSound
  <2>3. QED
    BY <2>1, <2>2 DEF FramesSound
<1>10. CallsSound'
  <2>1. ASSUME NEW e \in calm
        PROVE  /\ \A p, q \in DOMAIN called'[e] : called'[e][p] = called'[e][q] => p = q
               /\ Finished(e)' => due'[e] \subseteq ToSet(called'[e])
    <3>1. CASE e = id
      <4>1. ~Finished(e)'
        BY <1>0, <1>1, <1>3, <3>1 DEF Finished
      <4>2. QED
        BY <1>0, <2>1, <3>1, <4>1
    <3>2. CASE e # id
      <4>1. Finished(e)' => Finished(e)
        BY <1>1, <1>3, <1>6 DEF Finished
      <4>2. called'[e] = called[e]
        BY <1>0, <2>1, <3>2 DEF HubInv, HubTypes
      <4>3. QED
        BY <1>0, <2>1, <4>1, <4>2 DEF HubInv, CallsSound
    <3>3. QED
      BY <3>1, <3>2
  <2>2. QED
    BY <1>0, <2>1 DEF CallsSound
<1>11. QED
  BY <1>4, <1>5, <1>9, <1>10 DEF HubInv

\* The calls made, none twice, are those of s and the one that followed.
CalledWith(s, x, new) ==
    /\ \A p, q \in DOMAIN new : new[p] = new[q] => p = q
    /\ ToSet(new) = ToSet(s) \cup {x}

\* A call that was not made before follows the calls made.
LEMMA CalledOnce ==
    ASSUME NEW S, NEW s \in Seq(S), NEW x \in S, x \notin ToSet(s), NEW new, new = Append(s, x),
           \A p, q \in DOMAIN s : s[p] = s[q] => p = q
    PROVE  CalledWith(s, x, new)
<1>1. PICK n \in Nat : n = Len(s) /\ DOMAIN s = 1 .. n
  OBVIOUS
<1>2. DOMAIN new = 1 .. (n + 1) /\ new[n + 1] = x /\ \A p \in 1 .. n : new[p] = s[p]
  BY <1>1
<1>3. \A p \in 1 .. n : s[p] # x
  BY <1>1 DEF ToSet
<1>4. \A p \in 1 .. (n + 1) : p \in 1 .. n \/ p = n + 1
  OBVIOUS
<1>5. \A p, q \in DOMAIN new : new[p] = new[q] => p = q
  BY <1>1, <1>2, <1>3, <1>4
<1>6. ToSet(new) = ToSet(s) \cup {x}
  BY <1>1, <1>2, <1>4 DEF ToSet
<1>7. QED
  BY <1>5, <1>6 DEF CalledWith

\* What holds of the innermost capture.
LEMMA FrameOnTop ==
    ASSUME HubInv, frames # <<>>, NEW f, f = Top
    PROVE  /\ Len(frames) \in DOMAIN frames /\ f = frames[Len(frames)] /\ f \in HubFrame
           /\ f.id \in DOMAIN called /\ f.id \in 1 .. (nextId - 1)
           /\ f.list # 0 => f.list \in DOMAIN classHooks
           /\ f.id \in calm => WalkSound(f)
<1>1. frames \in Seq(HubFrame)
  BY DEF HubInv, HubTypes
<1>2. Len(frames) \in DOMAIN frames /\ f = frames[Len(frames)] /\ f \in HubFrame
  BY <1>1 DEF Top
<1>3. /\ f.id \in 1 .. (nextId - 1)
      /\ f.list # 0 => f.list \in DOMAIN classHooks
      /\ f.id \in calm => WalkSound(f)
  BY <1>2 DEF HubInv, FramesSound
<1>4. f.id \in DOMAIN called
  BY <1>3 DEF HubInv, HubTypes
<1>5. QED
  BY <1>2, <1>3, <1>4

\* A hook returns.
LEMMA HookEndsKeeps == ASSUME HubInv, HookEnds PROVE HubInv'
<1>1. PICK f : f = Top
  OBVIOUS
<1>2. PICK n : n = Len(frames)
  OBVIOUS
<1>3. frames # <<>>
  BY DEF HookEnds
<1>4. /\ n \in DOMAIN frames /\ f = frames[n] /\ f \in HubFrame
      /\ f.list # 0 => f.list \in DOMAIN classHooks
      /\ f.id \in calm => WalkSound(f)
  BY <1>1, <1>2, <1>3, FrameOnTop
<1>5. PICK g : g = [f EXCEPT !.in = FALSE]
  OBVIOUS
<1>6. /\ frames' = [frames EXCEPT ![n] = g]
      /\ UNCHANGED <<eventHistory, counted, nextId, globalHooks, classHooks, classList, sinceReset,
                     called, due, calm>>
  BY <1>2, <1>4, <1>5 DEF HookEnds, hubGhosts
<1>7. /\ g \in HubFrame /\ g.id = f.id /\ g.class = f.class /\ g.list = f.list /\ g.pos = f.pos
      /\ g.upTo = f.upTo /\ g.stage = f.stage
  BY <1>4, <1>5 DEF HubFrame
<1>8. ASSUME f.id \in calm
      PROVE  WalkSound(g)' /\ \A p, q \in DOMAIN called'[f.id] : called'[f.id][p] = called'[f.id][q] => p = q
  <2>1. WalkSound(f)
    BY <1>4, <1>8
  <2>2. WalkSound(g)
    BY <1>7, <2>1 DEF WalkSound
  <2>3. WalkSound(g)'
    BY <1>6, <2>2 DEF WalkSound, ListOf, OfClass
  <2>4. QED
    BY <1>6, <1>8, <2>3 DEF HubInv, CallsSound
<1>9. called' \in Seq(Seq(HookCall)) /\ Len(called') = Len(called)
  BY <1>6 DEF HubInv, HubTypes
<1>10. Moved(n, f.id, g)
  BY <1>4, <1>6, <1>7, <1>8, <1>9 DEF Moved
<1>11. QED
  BY <1>10, TopMoves

\* The walk over the hooks of the class begins.
LEMMA ClassHooksKeep == ASSUME HubInv, ClassHooksNext PROVE HubInv'
<1>1. PICK f : f = Top
  OBVIOUS
<1>2. PICK n : n = Len(frames)
  OBVIOUS
<1>3. frames # <<>>
  BY DEF ClassHooksNext, CallersTurn
<1>4. /\ n \in DOMAIN frames /\ f = frames[n] /\ f \in HubFrame
      /\ f.id \in calm => WalkSound(f)
      /\ f.id \in 1 .. (nextId - 1)
  BY <1>1, <1>2, <1>3, FrameOnTop
<1>5. PICK walk : walk = OfClass(f.class)
  OBVIOUS
<1>6. PICK g : g = [f EXCEPT !.stage = "class", !.list = classList[f.class], !.pos = 0, !.upTo = Len(walk)]
  OBVIOUS
<1>7. /\ frames' = [frames EXCEPT ![n] = g] /\ f.stage = "global" /\ f.pos = f.upTo
      /\ UNCHANGED <<eventHistory, counted, nextId, globalHooks, classHooks, classList, sinceReset,
                     called, due, calm>>
  BY <1>1, <1>2, <1>4, <1>5, <1>6 DEF ClassHooksNext, hubGhosts
<1>8. /\ classList[f.class] \in Nat
      /\ classList[f.class] # 0 => classList[f.class] \in DOMAIN classHooks
      /\ walk = ListOf(classList[f.class])
  BY <1>4, <1>5 DEF HubInv, HubTypes, HubFrame, OfClass, ListOf
<1>9. walk \in Seq(Callback) /\ Len(walk) \in Nat
  BY <1>8 DEF HubInv, HubTypes, HookList, ListOf
<1>10. /\ g \in HubFrame /\ g.id = f.id /\ g.class = f.class /\ g.list = classList[f.class]
       /\ g.pos = 0 /\ g.upTo = Len(walk) /\ g.stage = "class"
  BY <1>4, <1>6, <1>8, <1>9 DEF HubFrame
<1>11. ASSUME f.id \in calm
       PROVE  WalkSound(g)' /\ \A p, q \in DOMAIN called'[f.id] : called'[f.id][p] = called'[f.id][q] => p = q
  <2>1. PICK calls, waits : calls = ToSet(called[f.id]) /\ waits = due[f.id]
    OBVIOUS
  <2>2. /\ \A s \in calls : s[1] = "global" /\ s[2] \in FirstHooks(globalHooks, f.pos)
        /\ \A h \in FirstHooks(globalHooks, f.pos) : <<"global", h>> \in calls
        /\ \A s \in waits : \/ s[1] = "global" /\ s[2] \in FirstHooks(globalHooks, f.upTo)
                            \/ s[1] = "class" /\ s[2] \in ToSet(OfClass(f.class))
    BY <1>4, <1>7, <1>11, <2>1 DEF WalkSound
  <2>3. \A s \in waits : s = <<s[1], s[2]>>
    <3>1. due \in Seq(SUBSET HookCall) /\ f.id \in DOMAIN due
      BY <1>4 DEF HubInv, HubTypes
    <3>2. waits \subseteq HookCall
      BY <2>1, <3>1
    <3>3. QED
      BY <3>2 DEF HookCall
  <2>4. FirstHooks(walk, 0) = {} /\ ToSet(OfClass(f.class)) = FirstHooks(walk, Len(walk))
    BY <1>5, <1>9 DEF FirstHooks, ToSet
  <2>5. \A s \in waits : \/ s \in calls
                         \/ s[1] = "class" /\ s[2] \in FirstHooks(walk, Len(walk))
    BY <1>7, <2>2, <2>3, <2>4
  <2>6. \A s \in calls : s[1] # "class"
    BY <2>2
  <2>7. WalkSound(g)
    BY <1>8, <1>9, <1>10, <2>1, <2>4, <2>5, <2>6 DEF WalkSound
  <2>8. WalkSound(g)'
    BY <1>7, <2>7 DEF WalkSound, ListOf, OfClass
  <2>9. QED
    BY <1>7, <1>11, <2>8 DEF HubInv, CallsSound
<1>12. called' \in Seq(Seq(HookCall)) /\ Len(called') = Len(called)
  BY <1>7 DEF HubInv, HubTypes
<1>13. g.list # 0 => g.list \in DOMAIN classHooks
  BY <1>8, <1>10
<1>14. PICK id : id = frames[n].id /\ id = f.id /\ g.id = id
  BY <1>4, <1>10
<1>15. Moved(n, id, g)
  BY <1>4, <1>7, <1>10, <1>11, <1>12, <1>13, <1>14 DEF Moved
<1>16. QED
  BY <1>15, TopMoves

\* The hook at the next place is called; in a calm capture there is one, and it was not
\* called before.
LEMMA CallHookKeeps == ASSUME HubInv, CallHook PROVE HubInv'
<1>1. PICK f : f = Top
  OBVIOUS
<1>2. PICK n : n = Len(frames)
  OBVIOUS
<1>3. frames # <<>>
  BY DEF CallHook, CallersTurn
<1>4. /\ n \in DOMAIN frames /\ f = frames[n] /\ f \in HubFrame /\ f.id \in DOMAIN called
      /\ f.list # 0 => f.list \in DOMAIN classHooks
      /\ f.id \in calm => WalkSound(f)
  BY <1>1, <1>2, <1>3, FrameOnTop
<1>5. PICK walk : walk = Walked
  OBVIOUS
<1>8. PICK x : x = <<f.stage, walk[f.pos + 1]>>
  OBVIOUS
<1>10. f.stage \in {"global", "class"} /\ f.pos \in Nat /\ f.upTo \in Nat
  BY <1>4 DEF HubFrame
<1>11. walk = IF f.stage = "global" THEN globalHooks ELSE classHooks[f.list]
  BY <1>1, <1>5 DEF Walked
<1>9. /\ f.pos < f.upTo
      /\ f.stage = "global" \/ f.list # 0
      /\ UNCHANGED <<eventHistory, counted, nextId, globalHooks, classHooks, classList, sinceReset,
                     due, calm>>
  BY <1>1 DEF CallHook
<1>12. walk \in HookList
  BY <1>4, <1>9, <1>10, <1>11 DEF HubInv, HubTypes
<1>13. walk \in Seq(Callback) /\ Len(walk) \in Nat /\ \A i, j \in DOMAIN walk : walk[i] = walk[j] => i = j
  BY <1>12 DEF HookList
<1>6. called' = IF f.pos < Len(walk) THEN [called EXCEPT ![f.id] = Append(@, x)] ELSE called
  <2>1. \/ f.pos < Len(walk) /\ called' = [called EXCEPT ![f.id] = Append(@, x)]
        \/ f.pos >= Len(walk) /\ called' = called
    BY <1>1, <1>5, <1>8 DEF CallHook
  <2>2. f.pos >= Len(walk) => ~(f.pos < Len(walk))
    BY <1>10, <1>13
  <2>3. QED
    BY <2>1, <2>2
<1>14. PICK g \in HubFrame :
          /\ frames' = [frames EXCEPT ![n] = g]
          /\ g.id = f.id /\ g.class = f.class /\ g.list = f.list
          /\ g.pos = f.pos + 1 /\ g.upTo = f.upTo /\ g.stage = f.stage
  <2>1. CASE f.pos < Len(walk)
    <3>1. PICK g : g = [f EXCEPT !.pos = @ + 1, !.in = TRUE]
      OBVIOUS
    <3>2. frames' = [frames EXCEPT ![n] = g]
      <4>1. ~(f.pos >= Len(walk))
        BY <1>10, <1>13, <2>1
      <4>2. QED
        BY <1>1, <1>2, <1>4, <1>5, <3>1, <4>1 DEF CallHook
    <3>3. PICK further : further = [f EXCEPT !.pos = f.pos + 1]
      OBVIOUS
    <3>4. /\ further \in HubFrame /\ further.id = f.id /\ further.class = f.class
          /\ further.list = f.list /\ further.pos = f.pos + 1 /\ further.upTo = f.upTo
          /\ further.stage = f.stage
      BY <1>4, <1>10, <3>3 DEF HubFrame
    <3>5. g = [further EXCEPT !.in = TRUE]
      BY <3>1, <3>3
    <3>6. /\ g \in HubFrame /\ g.id = f.id /\ g.class = f.class /\ g.list = f.list
          /\ g.pos = f.pos + 1 /\ g.upTo = f.upTo /\ g.stage = f.stage
      BY <3>4, <3>5 DEF HubFrame
    <3>7. QED
      BY <3>2, <3>6
  <2>2. CASE ~(f.pos < Len(walk))
    <3>1. PICK g : g = [f EXCEPT !.pos = f.pos + 1]
      OBVIOUS
    <3>2. /\ g \in HubFrame /\ g.id = f.id /\ g.class = f.class /\ g.list = f.list
          /\ g.pos = f.pos + 1 /\ g.upTo = f.upTo /\ g.stage = f.stage
      BY <1>4, <1>10, <3>1 DEF HubFrame
    <3>3. frames' = [frames EXCEPT ![n] = g]
      BY <1>1, <1>2, <1>4, <1>5, <1>10, <1>13, <2>2, <3>1 DEF CallHook
    <3>4. QED
      BY <3>2, <3>3
  <2>3. QED
    BY <2>1, <2>2
<1>15. called \in Seq(Seq(HookCall))
  BY DEF HubInv, HubTypes
<1>16. f.pos < Len(walk) => x \in HookCall
  <2>1. f.pos < Len(walk) => walk[f.pos + 1] \in Callback
    BY <1>10, <1>13
  <2>2. QED
    BY <1>8, <1>10, <2>1 DEF HookCall
<1>17. /\ called' \in Seq(Seq(HookCall)) /\ Len(called') = Len(called)
       /\ \A e \in DOMAIN called : e # f.id => called'[e] = called[e]
       /\ f.pos < Len(walk) => called'[f.id] = Append(called[f.id], x)
  <2>1. CASE f.pos < Len(walk)
    <3>1. PICK longer : longer = Append(called[f.id], x)
      OBVIOUS
    <3>2. longer \in Seq(HookCall)
      <4>1. called[f.id] \in Seq(HookCall) /\ x \in HookCall
        BY <1>4, <1>15, <1>16, <2>1
      <4>2. QED
        BY <3>1, <4>1
    <3>3. called' = [called EXCEPT ![f.id] = longer]
      BY <1>6, <2>1, <3>1
    <3>4. QED
      BY <1>4, <1>15, <3>1, <3>2, <3>3
  <2>2. CASE ~(f.pos < Len(walk))
    BY <1>6, <1>15, <2>2
  <2>3. QED
    BY <2>1, <2>2
<1>18. ASSUME f.id \in calm
       PROVE  WalkSound(g)' /\ \A p, q \in DOMAIN called'[f.id] : called'[f.id][p] = called'[f.id][q] => p = q
  <2>1. f.upTo <= Len(walk)
    BY <1>4, <1>9, <1>10, <1>11, <1>18 DEF WalkSound, ListOf
  <2>2. f.pos < Len(walk) /\ f.pos + 1 \in DOMAIN walk /\ f.pos + 1 <= f.upTo
    BY <1>9, <1>10, <1>13, <2>1
  <2>3. PICK h : h = walk[f.pos + 1] /\ x = <<f.stage, h>>
    BY <1>8
  <2>4. PICK calls, waits : calls = ToSet(called[f.id]) /\ waits = due[f.id]
    OBVIOUS
  <2>5. PICK passed : passed = FirstHooks(walk, f.pos)
    OBVIOUS
  <2>6. h \notin passed
    <3>1. \A p \in 1 .. f.pos : p \in DOMAIN walk /\ p # f.pos + 1
      BY <1>10, <1>13, <2>2
    <3>2. QED
      BY <1>13, <2>2, <2>3, <2>5, <3>1 DEF FirstHooks
  <2>7. FirstHooks(walk, f.pos + 1) = passed \cup {h}
    <3>1. 1 .. (f.pos + 1) = (1 .. f.pos) \cup {f.pos + 1}
      BY <1>10
    <3>2. QED
      BY <2>3, <2>5, <3>1 DEF FirstHooks
  <2>8. \A s \in calls : s[1] = f.stage => s[2] \in passed
    <3>1. CASE f.stage = "global"
      BY <1>4, <1>11, <1>18, <2>4, <2>5, <3>1 DEF WalkSound
    <3>2. CASE f.stage = "class"
      BY <1>4, <1>9, <1>11, <1>18, <2>4, <2>5, <3>2 DEF WalkSound, ListOf
    <3>3. QED
      BY <1>10, <3>1, <3>2
  <2>9. x \notin calls
    BY <2>3, <2>6, <2>8
  <2>10. /\ \A p, q \in DOMAIN called'[f.id] : called'[f.id][p] = called'[f.id][q] => p = q
         /\ ToSet(called'[f.id]) = calls \cup {x}
    <3>1. PICK s \in Seq(HookCall) : s = called[f.id]
      BY <1>4, <1>15
    <3>2. PICK new : new = Append(s, x)
      OBVIOUS
    <3>3. x \notin ToSet(s) /\ x \in HookCall
      BY <1>16, <2>2, <2>4, <2>9, <3>1
    <3>4. \A p, q \in DOMAIN s : s[p] = s[q] => p = q
      BY <1>18, <3>1 DEF HubInv, CallsSound
    <3>5. /\ \A p, q \in DOMAIN new : new[p] = new[q] => p = q
          /\ ToSet(new) = ToSet(s) \cup {x}
      <4>1. CalledWith(s, x, new)
        BY <3>2, <3>3, <3>4, CalledOnce
      <4>2. QED
        BY <4>1 DEF CalledWith
    <3>6. called'[f.id] = new
      BY <1>17, <2>2, <3>1, <3>2
    <3>7. QED
      BY <2>4, <3>1, <3>5, <3>6
  <2>11. globalHooks' = globalHooks /\ ListOf(g.list)' = ListOf(f.list)
         /\ OfClass(g.class)' = OfClass(f.class) /\ due'[g.id] = waits
    BY <1>9, <1>14, <2>4 DEF ListOf, OfClass
  <2>12. ToSet(called'[g.id]) = calls \cup {x}
    BY <1>14, <2>10
  <2>13. CASE f.stage = "global"
    <3>1. /\ f.upTo <= Len(globalHooks)
          /\ \A s \in calls : s[1] = "global" /\ s[2] \in passed
          /\ \A k \in passed : <<"global", k>> \in calls
          /\ \A s \in waits : \/ s[1] = "global" /\ s[2] \in FirstHooks(globalHooks, f.upTo)
                              \/ s[1] = "class" /\ s[2] \in ToSet(OfClass(f.class))
      BY <1>4, <1>11, <1>18, <2>4, <2>5, <2>13 DEF WalkSound
    <3>2. walk = globalHooks
      BY <1>11, <2>13
    <3>3. /\ \A s \in calls \cup {x} : s[1] = "global" /\ s[2] \in FirstHooks(globalHooks, f.pos + 1)
          /\ \A k \in FirstHooks(globalHooks, f.pos + 1) : <<"global", k>> \in calls \cup {x}
      BY <2>3, <2>7, <2>13, <3>1, <3>2
    <3>4. WalkSound(g)'
      BY <1>14, <2>2, <2>11, <2>12, <2>13, <3>1, <3>3 DEF WalkSound
    <3>5. QED
      BY <2>10, <3>4
  <2>14. CASE f.stage = "class"
    <3>1. /\ \A k \in passed : <<"class", k>> \in calls
          /\ \A s \in waits : \/ s \in calls
                              \/ s[1] = "class" /\ s[2] \in FirstHooks(walk, f.upTo)
      BY <1>4, <1>9, <1>11, <1>18, <2>4, <2>5, <2>14 DEF WalkSound, ListOf
    <3>2. walk = ListOf(f.list)
      BY <1>9, <1>11, <2>14 DEF ListOf
    <3>3. /\ \A s \in calls \cup {x} : s[1] = "class" => s[2] \in FirstHooks(walk, f.pos + 1)
          /\ \A k \in FirstHooks(walk, f.pos + 1) : <<"class", k>> \in calls \cup {x}
          /\ \A s \in waits : \/ s \in calls \cup {x}
                              \/ s[1] = "class" /\ s[2] \in FirstHooks(walk, f.upTo)
      BY <2>3, <2>7, <2>8, <2>14, <3>1
    <3>4. WalkSound(g)'
      BY <1>14, <2>1, <2>2, <2>11, <2>12, <2>14, <3>2, <3>3 DEF WalkSound
    <3>5. QED
      BY <2>10, <3>4
  <2>15. QED
    BY <1>10, <2>13, <2>14
<1>19. g.list # 0 => g.list \in DOMAIN classHooks
  BY <1>4, <1>14
<1>20. PICK id : id = frames[n].id /\ id = f.id /\ g.id = id
  BY <1>4, <1>14
<1>21. /\ called' \in Seq(Seq(HookCall)) /\ Len(called') = Len(called)
       /\ \A e \in DOMAIN called : e # id => called'[e] = called[e]
       /\ frames' = [frames EXCEPT ![n] = g]
  BY <1>14, <1>17, <1>20
<1>22. id \in calm => /\ WalkSound(g)'
                      /\ \A p, q \in DOMAIN called'[id] : called'[id][p] = called'[id][q] => p = q
  BY <1>18, <1>20
<1>23. n \in DOMAIN frames
  BY <1>4
<1>24. Moved(n, id, g)
  BY <1>9, <1>14, <1>19, <1>20, <1>21, <1>22, <1>23 DEF Moved
<1>25. QED
  BY <1>24, TopMoves

\* A capture ends, with every hook due called if it was calm.
LEMMA CapturedKeeps == ASSUME HubInv, Captured PROVE HubInv'
<1>1. PICK f : f = Top
  OBVIOUS
<1>2. PICK n : n = Len(frames)
  OBVIOUS
<1>3. frames # <<>>
  BY DEF Captured, CallersTurn
<1>4. /\ n \in DOMAIN frames /\ f = frames[n] /\ f \in HubFrame
      /\ f.id \in calm => WalkSound(f)
  BY <1>1, <1>2, <1>3, FrameOnTop
<1>5. /\ frames' = Front(frames) /\ f.stage = "class" /\ f.pos = f.upTo
      /\ UNCHANGED <<eventHistory, counted, nextId, globalHooks, classHooks, classList, sinceReset,
                     called, due, calm>>
  BY <1>1 DEF Captured, hubGhosts
<1>6. frames \in Seq(HubFrame) /\ n \in Nat \ {0}
  BY <1>2, <1>3 DEF HubInv, HubTypes
<1>7. /\ frames' \in Seq(HubFrame) /\ DOMAIN frames' = 1 .. (n - 1) /\ DOMAIN frames = 1 .. n
      /\ \A i \in 1 .. (n - 1) : frames'[i] = frames[i]
  BY <1>2, <1>5, <1>6 DEF Front
<1>8. HubTypes'
  BY <1>5, <1>7 DEF HubInv, HubTypes
<1>9. HistoryExact'
  BY <1>5 DEF HubInv, HistoryExact
<1>10. FramesSound'
  <2>1. ASSUME NEW i \in 1 .. (n - 1), frames[i].id \in calm PROVE WalkSound(frames[i])'
    <3>1. PICK g : g = frames[i]
      OBVIOUS
    <3>2. WalkSound(g)
      <4>1. i \in DOMAIN frames
        BY <1>6, <1>7
      <4>2. QED
        BY <2>1, <3>1, <4>1 DEF HubInv, FramesSound
    <3>3. WalkSound(g)'
      BY <1>5, <3>2 DEF WalkSound, ListOf, OfClass
    <3>4. QED
      BY <1>7, <2>1, <3>1, <3>3
  <2>2. \A i \in DOMAIN frames' :
           (/\ frames[i].id \in 1 .. (nextId - 1)
            /\ frames[i].list # 0 => frames[i].list \in DOMAIN classHooks
            /\ frames[i].id \in calm => WalkSound(frames[i]))'
    <3>1. TAKE i \in DOMAIN frames'
    <3>2. i \in DOMAIN frames /\ frames'[i] = frames[i]
      BY <1>6, <1>7
    <3>3. frames[i].id \in 1 .. (nextId - 1)
          /\ (frames[i].list # 0 => frames[i].list \in DOMAIN classHooks)
      BY <3>2 DEF HubInv, FramesSound
    <3>4. QED
      BY <1>5, <1>7, <2>1, <3>2, <3>3
  <2>3. \A i, j \in DOMAIN frames' : frames'[i].id = frames'[j].id => i = j
    <3>1. \A i \in 1 .. (n - 1) : i \in DOMAIN frames
      BY <1>6, <1>7
    <3>2. QED
      BY <1>7, <3>1 DEF HubInv, FramesSound
  <2>4. QED
    BY <2>2, <2>3 DEF FramesSound
<1>11. CallsSound'
  <2>1. ASSUME NEW e \in calm, Finished(e)' PROVE due[e] \subseteq ToSet(called[e])
    <3>1. CASE e = f.id
      <4>1. WalkSound(f)
        BY <1>4, <2>1, <3>1
      <4>2. \A s \in due[e] : \/ s \in ToSet(called[e])
                              \/ s[1] = "class" /\ s[2] \in FirstHooks(ListOf(f.list), f.pos)
        BY <1>5, <3>1, <4>1 DEF WalkSound
      <4>3. \A h \in FirstHooks(ListOf(f.list), f.pos) : <<"class", h>> \in ToSet(called[e])
        BY <1>5, <3>1, <4>1 DEF WalkSound
      <4>4. \A s \in due[e] : s = <<s[1], s[2]>>
        <5>1. due[e] \in SUBSET HookCall
          BY <2>1 DEF HubInv, HubTypes
        <5>2. QED
          BY <5>1 DEF HookCall
      <4>5. QED
        BY <4>2, <4>3, <4>4
    <3>2. CASE e # f.id
      <4>1. \A i \in 1 .. n : i = n \/ i \in 1 .. (n - 1)
        BY <1>6
      <4>2. Finished(e)
        BY <1>4, <1>7, <2>1, <3>2, <4>1 DEF Finished
      <4>3. QED
        BY <2>1, <4>2 DEF HubInv, CallsSound
    <3>3. QED
      BY <3>1, <3>2
  <2>2. QED
    BY <1>5, <2>1 DEF HubInv, CallsSound
<1>12. QED
  BY <1>8, <1>9, <1>10, <1>11 DEF HubInv

\* Each step of the monitor, its callers and hooks keeps the invariant.
LEMMA HubStep == ASSUME HubInv, SubsExact, [HubNext]_hubVars PROVE HubInv'
<1>1. CASE UNCHANGED hubVars
  <2>1. HubTypes'
    BY <1>1 DEF HubInv, HubTypes, hubVars, hubGhosts
  <2>2. UNCHANGED <<eventHistory, counted, nextId, frames, sinceReset, called, due, calm>> /\ Grown
    BY <1>1 DEF hubVars, hubGhosts, Grown
  <2>3. QED
    BY <2>1, <2>2, HooksKept
<1>2. ASSUME HubNext PROVE HubInv'
  <2>1. CASE \E k \in ErrorClass : Capture(k)
    BY <2>1, CaptureKeeps
  <2>2. CASE CallHook \/ HookEnds \/ ClassHooksNext \/ Captured
    BY <2>2, CallHookKeeps, HookEndsKeeps, ClassHooksKeep, CapturedKeeps
  <2>3. CASE \E h \in Callback : OnError(h) \/ \E k \in ErrorClass : OnErrorClass(k, h)
    BY <2>3, SubscribesKeep
  <2>4. CASE \/ \E h \in Callback : UnsubscribeGlobal(h)
             \/ \E h \in Callback : \E l \in DOMAIN classHooks : UnsubscribeClass(l, h)
             \/ ClearHooks
    BY <2>4, UnsubscribesKeep
  <2>5. CASE ResetHub
    BY <2>5, ResetKeeps
  <2>6. QED
    BY <1>2, <2>1, <2>2, <2>3, <2>4, <2>5 DEF HubNext
<1>3. QED
  BY <1>1, <1>2

\* Nothing captured, nobody subscribed.
LEMMA HubStart == ASSUME HubInit PROVE HubInv
<1>1. HubTypes
  BY NoHooks DEF HubInit, HubTypes, NothingCounted
<1>2. HistoryExact
  <2>1. \A k \in ErrorClass : PlacesOf(k, sinceReset) = {} /\ counted.byClass[k] = 0
    BY DEF HubInit, PlacesOf, NothingCounted
  <2>2. Cardinality({}) = 0
    BY FS_EmptySet
  <2>3. counted.total = 0 /\ Len(sinceReset) = 0 /\ Len(eventHistory) = 0 /\ DOMAIN eventHistory = {}
    BY DEF HubInit, NothingCounted
  <2>4. \A k \in ErrorClass : counted.byClass[k] = Cardinality(PlacesOf(k, sinceReset))
    BY <2>1, <2>2
  <2>5. 0 = IF 0 < MaxHistory THEN 0 ELSE MaxHistory
    BY HubAssumption
  <2>6. QED
    BY <2>3, <2>4, <2>5 DEF HistoryExact
<1>3. FramesSound /\ CallsSound
  BY DEF HubInit, FramesSound, CallsSound
<1>4. QED
  BY <1>1, <1>2, <1>3 DEF HubInv

\* A list belongs to one class, in the map and for the captures that walk it.
ListsApart ==
    /\ \A j, k \in ErrorClass : classList[k] # 0 /\ classList[j] = classList[k] => j = k
    /\ \A i \in DOMAIN frames : \A k \in ErrorClass :
          frames[i].list # 0 /\ classList[k] = frames[i].list => k = frames[i].class

Ahead(hooks, pos, h) == \E p \in DOMAIN hooks : p > pos /\ hooks[p] = h

\* What a capture may still call.
ToCome(f, s) ==
    IF s[1] = "global" THEN f.stage = "global" /\ Ahead(globalHooks, f.pos, s[2])
    ELSE IF f.stage = "class" THEN Ahead(ListOf(f.list), f.pos, s[2])
    ELSE Ahead(OfClass(f.class), 0, s[2])

\* No hook was called more often than it was offered, and one to come was called less.
OffersSound ==
    /\ offers \in Seq([HookCall -> Nat]) /\ Len(offers) = nextId - 1
    /\ \A e \in DOMAIN called : \A s \in HookCall : TimesCalled(e, s) <= offers[e][s]
    /\ \A i \in DOMAIN frames : \A s \in HookCall :
          ToCome(frames[i], s) => TimesCalled(frames[i].id, s) < offers[frames[i].id][s]

HubAll == HubInv /\ SubsExact /\ ListsApart /\ OffersSound

\* Who is on a list after one more, and whom a walk may still meet.
LEMMA AddedTo ==
    ASSUME NEW hooks \in HookList, NEW h \in Callback, NEW new, new = Append(hooks, h)
    PROVE  /\ ToSet(new) = ToSet(hooks) \cup {h}
           /\ \A pos \in Nat : \A g : Ahead(new, pos, g) => Ahead(hooks, pos, g) \/ g = h
<1>1. hooks \in Seq(Callback)
  BY DEF HookList
<1>2. PICK n \in Nat : n = Len(hooks) /\ DOMAIN hooks = 1 .. n
  BY <1>1
<1>3. DOMAIN new = 1 .. (n + 1) /\ new[n + 1] = h /\ \A i \in 1 .. n : new[i] = hooks[i]
  BY <1>1, <1>2
<1>4. \A i \in 1 .. (n + 1) : i \in 1 .. n \/ i = n + 1
  BY <1>2
<1>5. ToSet(new) = ToSet(hooks) \cup {h}
  BY <1>2, <1>3, <1>4 DEF ToSet
<1>6. QED
  BY <1>2, <1>3, <1>4, <1>5 DEF Ahead

\* Who is on a list after one less, and whom a walk may still meet.
LEMMA RemovedFrom ==
    ASSUME NEW hooks \in HookList, NEW i \in DOMAIN hooks, NEW new, new = RemoveAt(hooks, i)
    PROVE  /\ ToSet(new) = ToSet(hooks) \ {hooks[i]}
           /\ \A pos \in Nat : \A g : Ahead(new, pos, g) => Ahead(hooks, pos, g) /\ g # hooks[i]
<1>1. hooks \in Seq(Callback) /\ \A j, k \in DOMAIN hooks : hooks[j] = hooks[k] => j = k
  BY DEF HookList
<1>2. /\ \A j \in DOMAIN new : \E q \in DOMAIN hooks : q >= j /\ q # i /\ new[j] = hooks[q]
      /\ \A q \in DOMAIN hooks : q # i => \E j \in DOMAIN new : new[j] = hooks[q]
      /\ DOMAIN hooks \subseteq Nat /\ DOMAIN new \subseteq Nat
  BY HookRemoved
<1>3. \A j \in DOMAIN new : new[j] \in ToSet(hooks) /\ new[j] # hooks[i]
  BY <1>1, <1>2 DEF ToSet
<1>4. \A q \in DOMAIN hooks : hooks[q] # hooks[i] => hooks[q] \in ToSet(new)
  <2>1. TAKE q \in DOMAIN hooks
  <2>2. HAVE hooks[q] # hooks[i]
  <2>3. PICK j \in DOMAIN new : new[j] = hooks[q]
    BY <1>2, <2>2
  <2>4. QED
    BY <2>3 DEF ToSet
<1>5. ToSet(new) = ToSet(hooks) \ {hooks[i]}
  BY <1>3, <1>4 DEF ToSet
<1>6. ASSUME NEW pos \in Nat, NEW g, Ahead(new, pos, g)
      PROVE  Ahead(hooks, pos, g) /\ g # hooks[i]
  <2>1. PICK j \in DOMAIN new : j > pos /\ new[j] = g
    BY <1>6 DEF Ahead
  <2>2. PICK q \in DOMAIN hooks : q >= j /\ q # i /\ new[j] = hooks[q]
    BY <1>2
  <2>3. q > pos
    BY <1>2, <2>1, <2>2
  <2>4. QED
    BY <1>1, <2>1, <2>2, <2>3 DEF Ahead
<1>7. QED
  BY <1>5, <1>6

\* How often a hook was called is a number.
LEMMA CountIsNat ==
    ASSUME HubInv, NEW e \in DOMAIN called, NEW s
    PROVE  TimesCalled(e, s) \in Nat
<1>1. called[e] \in Seq(HookCall)
  BY DEF HubInv, HubTypes
<1>2. IsFiniteSet(DOMAIN called[e])
  BY <1>1, FS_Interval
<1>3. QED
  BY <1>2, FS_Subset, FS_CardinalityType DEF TimesCalled

\* A subscription offers its hook to captures once more.
LEMMA OfferIs ==
    ASSUME OffersSound, NEW stage \in {"global", "class"}, NEW h \in Callback, NEW during,
           Offer(stage, h, during)
    PROVE  /\ offers' \in Seq([HookCall -> Nat]) /\ Len(offers') = Len(offers)
           /\ \A e \in DOMAIN offers : \A s \in HookCall : offers'[e][s] >= offers[e][s]
           /\ \A e \in DOMAIN offers \cap during :
                 offers'[e][<<stage, h>>] = offers[e][<<stage, h>>] + 1
<1>1. PICK n \in Nat : n = Len(offers) /\ DOMAIN offers = 1 .. n
  BY DEF OffersSound
<1>2. <<stage, h>> \in HookCall
  BY DEF HookCall
<1>3. PICK x : x = <<stage, h>>
  OBVIOUS
<1>4. offers' = [e \in 1 .. n |-> IF e \in during THEN [offers[e] EXCEPT ![x] = @ + 1] ELSE offers[e]]
  BY <1>1, <1>3 DEF Offer
<1>5. \A e \in 1 .. n : offers[e] \in [HookCall -> Nat]
  BY <1>1 DEF OffersSound
<1>6. \A e \in 1 .. n : /\ offers'[e] \in [HookCall -> Nat]
                        /\ \A s \in HookCall : offers'[e][s] >= offers[e][s]
                        /\ e \in during => offers'[e][x] = offers[e][x] + 1
  <2>1. TAKE e \in 1 .. n
  <2>2. PICK old \in [HookCall -> Nat] : old = offers[e]
    BY <1>5
  <2>3. PICK more \in [HookCall -> Nat] : more = [old EXCEPT ![x] = old[x] + 1]
    <3>1. PICK count \in Nat : count = old[x] + 1
      BY <1>2, <1>3
    <3>2. [old EXCEPT ![x] = count] \in [HookCall -> Nat]
      OBVIOUS
    <3>3. QED
      BY <3>1, <3>2
  <2>4. offers'[e] = IF e \in during THEN more ELSE old
    BY <1>4, <2>2, <2>3
  <2>5. \A s \in HookCall : more[s] = IF s = x THEN old[s] + 1 ELSE old[s]
    BY <2>3
  <2>6. \A s \in HookCall : more[s] >= old[s] /\ old[s] >= old[s] /\ more[x] = old[x] + 1
    BY <1>2, <1>3, <2>2, <2>5
  <2>7. QED
    BY <2>2, <2>3, <2>4, <2>6
<1>7. offers' \in Seq([HookCall -> Nat]) /\ Len(offers') = n
  <2>1. offers' \in [1 .. n -> [HookCall -> Nat]]
    BY <1>4, <1>6
  <2>2. n \in Nat
    BY <1>1
  <2>3. QED
    BY <2>1, <2>2
<1>8. QED
  BY <1>1, <1>3, <1>6, <1>7

\* A subscription that ends leaves no more calls than were made.
LEMMA TakeBackIs ==
    ASSUME HubInv, OffersSound, NEW gone, TakeBack(gone)
    PROVE  /\ offers' \in Seq([HookCall -> Nat]) /\ Len(offers') = Len(offers)
           /\ \A e \in DOMAIN called : \A s \in HookCall :
                 /\ TimesCalled(e, s) <= offers'[e][s]
                 /\ <<e, s>> \notin gone => offers'[e][s] = offers[e][s]
<1>1. PICK n \in Nat : n = Len(offers) /\ DOMAIN offers = 1 .. n
  BY DEF OffersSound
<1>2. DOMAIN called = 1 .. n
  BY <1>1 DEF HubInv, HubTypes, OffersSound
<1>3. PICK times \in [1 .. n -> [HookCall -> Nat]] :
         \A e \in 1 .. n : \A s \in HookCall : times[e][s] = TimesCalled(e, s)
  <2>1. [e \in 1 .. n |-> [s \in HookCall |-> TimesCalled(e, s)]] \in [1 .. n -> [HookCall -> Nat]]
    BY <1>2, CountIsNat
  <2>2. QED
    BY <2>1
<1>4. \A e \in 1 .. n : offers[e] \in [HookCall -> Nat]
  BY <1>1 DEF OffersSound
<1>5. offers' = [e \in 1 .. n |->
                    [s \in HookCall |-> IF <<e, s>> \in gone THEN TimesCalled(e, s) ELSE offers[e][s]]]
  BY <1>1 DEF TakeBack
<1>6. \A e \in 1 .. n : \A s \in HookCall :
         offers'[e][s] = IF <<e, s>> \in gone THEN times[e][s] ELSE offers[e][s]
  BY <1>3, <1>5
<1>7. \A e \in 1 .. n : offers'[e] \in [HookCall -> Nat]
  <2>1. TAKE e \in 1 .. n
  <2>2. offers'[e] = [s \in HookCall |-> IF <<e, s>> \in gone THEN TimesCalled(e, s) ELSE offers[e][s]]
    BY <1>5
  <2>3. \A s \in HookCall : (IF <<e, s>> \in gone THEN TimesCalled(e, s) ELSE offers[e][s]) \in Nat
    BY <1>2, <1>4, CountIsNat
  <2>4. QED
    BY <2>2, <2>3
<1>8. offers' \in Seq([HookCall -> Nat]) /\ Len(offers') = n
  <2>1. offers' \in [1 .. n -> [HookCall -> Nat]]
    BY <1>5, <1>7
  <2>2. n \in Nat
    BY <1>1
  <2>3. QED
    BY <2>1, <2>2
<1>9. \A e \in 1 .. n : \A s \in HookCall : TimesCalled(e, s) <= offers[e][s]
  BY <1>2 DEF OffersSound
<1>10. QED
  BY <1>1, <1>2, <1>3, <1>6, <1>8, <1>9

\* What changes offers only leaves them sound if no call to come is without one.
LEMMA StillSound ==
    ASSUME HubInv, OffersSound, UNCHANGED <<nextId, frames, called>>,
           offers' \in Seq([HookCall -> Nat]), Len(offers') = Len(offers),
           \A e \in DOMAIN called : \A s \in HookCall : TimesCalled(e, s) <= offers'[e][s],
           \A i \in DOMAIN frames : \A s \in HookCall :
              ToCome(frames[i], s)' => TimesCalled(frames[i].id, s) < offers'[frames[i].id][s]
    PROVE  OffersSound'
<1>1. \A e, s : TimesCalled(e, s)' = TimesCalled(e, s)
  BY DEF TimesCalled
<1>2. QED
  BY <1>1 DEF OffersSound

\* What is known of a capture under way.
LEMMA FramesAre ==
    ASSUME HubInv, OffersSound, NEW i \in DOMAIN frames
    PROVE  /\ frames[i] \in HubFrame /\ frames[i].id \in DOMAIN called
           /\ frames[i].id \in DOMAIN offers /\ frames[i].id \in UnderWay
           /\ frames[i].list # 0 => frames[i].list \in DOMAIN classHooks
           /\ frames[i].pos \in Nat /\ frames[i].class \in ErrorClass
           /\ frames[i].stage \in {"global", "class"}
           /\ \A s \in HookCall : /\ TimesCalled(frames[i].id, s) \in Nat
                                  /\ TimesCalled(frames[i].id, s) <= offers[frames[i].id][s]
                                  /\ offers[frames[i].id][s] \in Nat
<1>1. frames[i] \in HubFrame /\ frames[i].id \in 1 .. (nextId - 1)
      /\ (frames[i].list # 0 => frames[i].list \in DOMAIN classHooks)
  BY DEF HubInv, HubTypes, FramesSound
<1>2. frames[i].id \in DOMAIN called /\ frames[i].id \in DOMAIN offers
  BY <1>1 DEF HubInv, HubTypes, OffersSound
<1>3. QED
  BY <1>1, <1>2, CountIsNat DEF HubFrame, OffersSound, UnderWay

\* A call is of a list and a hook.
LEMMA CallIs ==
    ASSUME NEW s \in HookCall
    PROVE  /\ s = <<s[1], s[2]>> /\ s[2] \in Callback
           /\ s[1] = "global" \/ s[1] = "class"
  BY DEF HookCall

\* A hook is subscribed to all errors, and offered to the captures under way.
LEMMA OnErrorOffers ==
    ASSUME HubAll, NEW h \in Callback, OnError(h)
    PROVE  SubsExact' /\ ListsApart' /\ OffersSound'
<1>1. globalHooks \in HookList /\ globalHooks' = Append(globalHooks, h)
      /\ UNCHANGED <<nextId, classHooks, classList, frames, called>>
      /\ subs' = [subs EXCEPT !.all = @ \union {h}] /\ Offer("global", h, UnderWay)
  BY DEF HubAll, HubInv, HubTypes, OnError
<1>2. /\ ToSet(globalHooks') = ToSet(globalHooks) \cup {h}
      /\ \A pos \in Nat : \A g : Ahead(globalHooks', pos, g) => Ahead(globalHooks, pos, g) \/ g = h
  BY <1>1, AddedTo
<1>3. SubsExact'
  BY <1>1, <1>2 DEF HubAll, SubsExact, OfClass
<1>4. ListsApart'
  BY <1>1 DEF HubAll, ListsApart
<1>5. /\ offers' \in Seq([HookCall -> Nat]) /\ Len(offers') = Len(offers)
      /\ \A e \in DOMAIN offers : \A s \in HookCall : offers'[e][s] >= offers[e][s]
      /\ \A e \in DOMAIN offers \cap UnderWay :
            offers'[e][<<"global", h>>] = offers[e][<<"global", h>>] + 1
  BY <1>1, OfferIs DEF HubAll
<1>6. \A e \in DOMAIN called : \A s \in HookCall : TimesCalled(e, s) <= offers'[e][s]
  <2>1. \A e \in DOMAIN called : e \in DOMAIN offers
    BY DEF HubAll, HubInv, HubTypes, OffersSound
  <2>2. \A e \in DOMAIN called : \A s \in HookCall :
           TimesCalled(e, s) \in Nat /\ offers[e][s] \in Nat /\ offers'[e][s] \in Nat
           /\ TimesCalled(e, s) <= offers[e][s]
    BY <1>5, <2>1, CountIsNat DEF HubAll, OffersSound
  <2>3. QED
    BY <1>5, <2>1, <2>2
<1>7. ASSUME NEW i \in DOMAIN frames, NEW s \in HookCall, ToCome(frames[i], s)'
      PROVE  TimesCalled(frames[i].id, s) < offers'[frames[i].id][s]
  <2>1. PICK f : f = frames[i]
    OBVIOUS
  <2>2. /\ f.id \in DOMAIN offers \cap UnderWay /\ f.pos \in Nat
        /\ TimesCalled(f.id, s) \in Nat /\ offers[f.id][s] \in Nat
        /\ TimesCalled(f.id, s) <= offers[f.id][s]
    BY <2>1, FramesAre DEF HubAll
  <2>3. offers'[f.id][s] \in Nat /\ offers'[f.id][s] >= offers[f.id][s]
    BY <1>5, <2>2
  <2>4. ToCome(f, s) \/ s = <<"global", h>>
    <3>1. ToCome(f, s)'
      BY <1>1, <1>7, <2>1
    <3>2. QED
      BY <1>1, <1>2, <2>2, <3>1, CallIs DEF ToCome, OfClass, ListOf
  <2>5. CASE ToCome(f, s)
    BY <2>1, <2>2, <2>3, <2>5 DEF HubAll, OffersSound
  <2>6. CASE s = <<"global", h>>
    BY <1>5, <2>1, <2>2, <2>6
  <2>7. QED
    BY <2>4, <2>5, <2>6
<1>8. OffersSound'
  BY <1>1, <1>5, <1>6, <1>7, StillSound DEF HubAll
<1>9. QED
  BY <1>3, <1>4, <1>8

\* Offers stay sound while a call that is to come was to come before or is offered anew.
LEMMA OffersMeet ==
    ASSUME HubAll, UNCHANGED <<nextId, frames, called>>,
           offers' \in Seq([HookCall -> Nat]), Len(offers') = Len(offers),
           \A e \in DOMAIN called : \A s \in HookCall : TimesCalled(e, s) <= offers'[e][s],
           \A i \in DOMAIN frames : \A s \in HookCall : ToCome(frames[i], s)' =>
              \/ ToCome(frames[i], s) /\ offers'[frames[i].id][s] >= offers[frames[i].id][s]
              \/ offers'[frames[i].id][s] = offers[frames[i].id][s] + 1
    PROVE  OffersSound'
<1>1. ASSUME NEW i \in DOMAIN frames, NEW s \in HookCall, ToCome(frames[i], s)'
      PROVE  TimesCalled(frames[i].id, s) < offers'[frames[i].id][s]
  <2>1. PICK f : f = frames[i]
    OBVIOUS
  <2>2. /\ f.id \in DOMAIN called /\ TimesCalled(f.id, s) \in Nat /\ offers[f.id][s] \in Nat
        /\ TimesCalled(f.id, s) <= offers[f.id][s]
    BY <2>1, FramesAre DEF HubAll
  <2>3. offers'[f.id][s] \in Nat
    <3>1. f.id \in DOMAIN offers'
      BY <2>2 DEF HubAll, HubInv, HubTypes, OffersSound
    <3>2. offers'[f.id] \in [HookCall -> Nat]
      BY <3>1
    <3>3. QED
      BY <3>2
  <2>4. CASE ToCome(f, s) /\ offers'[f.id][s] >= offers[f.id][s]
    <3>1. TimesCalled(f.id, s) < offers[f.id][s]
      BY <2>1, <2>4 DEF HubAll, OffersSound
    <3>2. QED
      BY <2>1, <2>2, <2>3, <2>4, <3>1
  <2>5. CASE offers'[f.id][s] = offers[f.id][s] + 1
    BY <2>1, <2>2, <2>5
  <2>6. QED
    BY <1>1, <2>1, <2>4, <2>5
<1>2. QED
  BY <1>1, StillSound DEF HubAll

\* With one more offer no hook was called too often.
LEMMA OfferKeeps ==
    ASSUME HubAll, UNCHANGED called, NEW stage \in {"global", "class"}, NEW h \in Callback,
           NEW during, Offer(stage, h, during)
    PROVE  \A e \in DOMAIN called : \A s \in HookCall : TimesCalled(e, s) <= offers'[e][s]
<1>1. /\ offers' \in Seq([HookCall -> Nat]) /\ Len(offers') = Len(offers)
      /\ \A e \in DOMAIN offers : \A s \in HookCall : offers'[e][s] >= offers[e][s]
  BY OfferIs DEF HubAll
<1>2. \A e \in DOMAIN called : e \in DOMAIN offers
  BY DEF HubAll, HubInv, HubTypes, OffersSound
<1>3. \A e \in DOMAIN called : \A s \in HookCall :
         TimesCalled(e, s) \in Nat /\ offers[e][s] \in Nat /\ offers'[e][s] \in Nat
         /\ TimesCalled(e, s) <= offers[e][s]
  BY <1>1, <1>2, CountIsNat DEF HubAll, OffersSound
<1>4. QED
  BY <1>1, <1>2, <1>3

\* A hook is subscribed to a class, and offered to the captures of it.
LEMMA OnErrorClassOffers ==
    ASSUME HubAll, NEW k \in ErrorClass, NEW h \in Callback, OnErrorClass(k, h)
    PROVE  SubsExact' /\ ListsApart' /\ OffersSound'
<1>1. /\ UNCHANGED <<nextId, globalHooks, frames, called>>
      /\ subs' = [subs EXCEPT !.of[k] = @ \union {h}] /\ Offer("class", h, UnderWayOf(k))
  BY DEF OnErrorClass
<1>2. /\ classHooks \in Seq(HookList) /\ classList \in [ErrorClass -> Nat]
      /\ \A j \in ErrorClass : classList[j] # 0 => classList[j] \in DOMAIN classHooks
  BY DEF HubAll, HubInv, HubTypes
<1>3. PICK m \in Nat : m = Len(classHooks) /\ DOMAIN classHooks = 1 .. m
  BY <1>2
<1>4. /\ OfClass(k) \in HookList /\ OfClass(k)' = Append(OfClass(k), h)
      /\ \A l \in 1 .. m : l # classList[k] => classHooks'[l] = classHooks[l]
      /\ \A l \in 1 .. m : l = classList[k] => OfClass(k) = classHooks[l] /\ OfClass(k)' = classHooks'[l]
      /\ classList' \in [ErrorClass -> Nat]
      /\ \A j \in ErrorClass : j # k => classList'[j] = classList[j]
      /\ classList[k] # 0 => classList'[k] = classList[k]
      /\ classList[k] = 0 => classList'[k] = m + 1
  <2>1. CASE classList[k] = 0
    <3>1. /\ classHooks' = Append(classHooks, <<h>>)
          /\ classList' = [classList EXCEPT ![k] = m + 1]
      BY <1>3, <2>1 DEF OnErrorClass
    <3>2. OfClass(k) = <<>>
      BY <2>1 DEF OfClass
    <3>3. OfClass(k)' = <<h>>
      BY <1>2, <1>3, <3>1 DEF OfClass
    <3>4. \A l \in 1 .. m : classHooks'[l] = classHooks[l]
      BY <1>2, <1>3, <3>1
    <3>5. <<h>> = Append(<<>>, h)
      OBVIOUS
    <3>6. QED
      BY <1>2, <1>3, <2>1, <3>1, <3>2, <3>3, <3>4, <3>5, NoHooks
  <2>2. CASE classList[k] # 0
    <3>1. /\ classHooks' = [classHooks EXCEPT ![classList[k]] = Append(@, h)]
          /\ UNCHANGED classList
      BY <2>2 DEF OnErrorClass
    <3>2. OfClass(k) = classHooks[classList[k]] /\ OfClass(k)' = classHooks'[classList[k]]
      BY <2>2, <3>1 DEF OfClass
    <3>3. QED
      BY <1>2, <1>3, <2>2, <3>1, <3>2
  <2>3. QED
    BY <2>1, <2>2
<1>5. /\ ToSet(OfClass(k)') = ToSet(OfClass(k)) \cup {h}
      /\ \A pos \in Nat : \A g : Ahead(OfClass(k)', pos, g) => Ahead(OfClass(k), pos, g) \/ g = h
  BY <1>4, AddedTo
<1>6. \A j \in ErrorClass : j # k => OfClass(j)' = OfClass(j)
  <2>1. TAKE j \in ErrorClass
  <2>2. HAVE j # k
  <2>3. classList[j] # 0 => classList[j] \in 1 .. m /\ classList[j] # classList[k]
    BY <1>2, <1>3, <2>2 DEF HubAll, ListsApart
  <2>4. QED
    BY <1>4, <2>2, <2>3 DEF OfClass
<1>7. SubsExact'
  <2>1. /\ subs \in [all : SUBSET Callback, of : [ErrorClass -> SUBSET Callback]]
        /\ subs.all = ToSet(globalHooks)
        /\ \A j \in ErrorClass : subs.of[j] = ToSet(OfClass(j))
    BY DEF HubAll, SubsExact
  <2>2. /\ subs' \in [all : SUBSET Callback, of : [ErrorClass -> SUBSET Callback]]
        /\ subs'.all = subs.all /\ subs'.of[k] = subs.of[k] \cup {h}
        /\ \A j \in ErrorClass : j # k => subs'.of[j] = subs.of[j]
    BY <1>1, <2>1
  <2>3. \A j \in ErrorClass : ToSet(OfClass(j)') = subs'.of[j]
    BY <1>5, <1>6, <2>1, <2>2
  <2>4. QED
    BY <1>1, <2>1, <2>2, <2>3 DEF SubsExact
<1>8. \A i \in DOMAIN frames : frames[i].list # 0 => frames[i].list \in 1 .. m
  BY <1>3, FramesAre DEF HubAll
<1>9. ListsApart'
  <2>1. \A i, j \in ErrorClass : classList'[j] # 0 /\ classList'[i] = classList'[j] => i = j
    BY <1>2, <1>3, <1>4 DEF HubAll, ListsApart
  <2>2. \A i \in DOMAIN frames : \A j \in ErrorClass :
           frames[i].list # 0 /\ classList'[j] = frames[i].list => j = frames[i].class
    BY <1>3, <1>4, <1>8 DEF HubAll, ListsApart
  <2>3. QED
    BY <1>1, <2>1, <2>2 DEF ListsApart
<1>10. ASSUME NEW i \in DOMAIN frames, NEW s \in HookCall, ToCome(frames[i], s)'
       PROVE  ToCome(frames[i], s) \/ (s = <<"class", h>> /\ frames[i].class = k)
  <2>1. PICK f : f = frames[i]
    OBVIOUS
  <2>2. ToCome(f, s)'
    BY <1>1, <1>10, <2>1
  <2>3. f.pos \in Nat /\ f.class \in ErrorClass
    BY <2>1, FramesAre DEF HubAll
  <2>4. CASE s[1] = "global"
    BY <1>1, <2>1, <2>2, <2>4 DEF ToCome
  <2>5. CASE s[1] # "global" /\ f.stage = "class"
    <3>1. Ahead(ListOf(f.list)', f.pos, s[2])
      BY <2>2, <2>5 DEF ToCome
    <3>2. CASE f.list # 0 /\ f.list = classList[k]
      <4>1. f.class = k /\ ListOf(f.list) = OfClass(k) /\ ListOf(f.list)' = OfClass(k)'
        BY <1>1, <1>4, <1>8, <2>1, <3>2 DEF HubAll, ListsApart, ListOf
      <4>2. Ahead(OfClass(k), f.pos, s[2]) \/ s[2] = h
        BY <1>5, <2>3, <3>1, <4>1
      <4>3. QED
        BY <2>1, <2>5, <4>1, <4>2, CallIs DEF ToCome
    <3>3. CASE ~(f.list # 0 /\ f.list = classList[k])
      <4>1. ListOf(f.list)' = ListOf(f.list)
        BY <1>1, <1>4, <1>8, <2>1, <3>3 DEF ListOf
      <4>2. QED
        BY <2>1, <2>5, <3>1, <4>1 DEF ToCome
    <3>4. QED
      BY <3>2, <3>3
  <2>6. CASE s[1] # "global" /\ f.stage # "class"
    <3>1. Ahead(OfClass(f.class)', 0, s[2])
      BY <2>2, <2>6 DEF ToCome
    <3>2. CASE f.class = k
      <4>1. Ahead(OfClass(k), 0, s[2]) \/ s[2] = h
        BY <1>5, <3>1, <3>2
      <4>2. QED
        BY <2>1, <2>6, <3>2, <4>1, CallIs DEF ToCome
    <3>3. CASE f.class # k
      BY <1>6, <2>1, <2>3, <2>6, <3>1, <3>3 DEF ToCome
    <3>4. QED
      BY <3>2, <3>3
  <2>7. QED
    BY <2>4, <2>5, <2>6
<1>11. /\ offers' \in Seq([HookCall -> Nat]) /\ Len(offers') = Len(offers)
       /\ \A e \in DOMAIN offers : \A s \in HookCall : offers'[e][s] >= offers[e][s]
       /\ \A e \in DOMAIN offers \cap UnderWayOf(k) :
             offers'[e][<<"class", h>>] = offers[e][<<"class", h>>] + 1
  BY <1>1, OfferIs DEF HubAll
<1>12. \A e \in DOMAIN called : \A s \in HookCall : TimesCalled(e, s) <= offers'[e][s]
  BY <1>1, OfferKeeps
<1>13. ASSUME NEW i \in DOMAIN frames, NEW s \in HookCall, ToCome(frames[i], s)'
       PROVE  \/ ToCome(frames[i], s) /\ offers'[frames[i].id][s] >= offers[frames[i].id][s]
              \/ offers'[frames[i].id][s] = offers[frames[i].id][s] + 1
  <2>1. frames[i].id \in DOMAIN offers
    BY FramesAre DEF HubAll
  <2>2. frames[i].class = k => frames[i].id \in UnderWayOf(k)
    BY DEF UnderWayOf
  <2>3. QED
    BY <1>10, <1>11, <1>13, <2>1, <2>2
<1>14. OffersSound'
  BY <1>1, <1>11, <1>12, <1>13, OffersMeet
<1>15. QED
  BY <1>7, <1>9, <1>14

\* A hook ends its subscription to all errors.
LEMMA UnsubscribeGlobalOffers ==
    ASSUME HubAll, NEW h \in Callback, UnsubscribeGlobal(h)
    PROVE  SubsExact' /\ ListsApart' /\ OffersSound'
<1>1. /\ UNCHANGED <<nextId, classHooks, classList, frames, called>>
      /\ subs' = [subs EXCEPT !.all = @ \ {h}] /\ TakeBack(UnderWay \X {<<"global", h>>})
  BY DEF UnsubscribeGlobal
<1>2. PICK p \in DOMAIN globalHooks : globalHooks[p] = h /\ globalHooks' = RemoveAt(globalHooks, p)
  BY DEF UnsubscribeGlobal
<1>3. globalHooks \in HookList
  BY DEF HubAll, HubInv, HubTypes
<1>4. /\ ToSet(globalHooks') = ToSet(globalHooks) \ {h}
      /\ \A pos \in Nat : \A g : Ahead(globalHooks', pos, g) => Ahead(globalHooks, pos, g) /\ g # h
  BY <1>2, <1>3, RemovedFrom
<1>5. SubsExact'
  BY <1>1, <1>4 DEF HubAll, SubsExact, OfClass
<1>6. ListsApart'
  BY <1>1 DEF HubAll, ListsApart
<1>7. /\ offers' \in Seq([HookCall -> Nat]) /\ Len(offers') = Len(offers)
      /\ \A e \in DOMAIN called : \A s \in HookCall :
            /\ TimesCalled(e, s) <= offers'[e][s]
            /\ <<e, s>> \notin UnderWay \X {<<"global", h>>} => offers'[e][s] = offers[e][s]
  BY <1>1, TakeBackIs DEF HubAll
<1>8. ASSUME NEW i \in DOMAIN frames, NEW s \in HookCall, ToCome(frames[i], s)'
      PROVE  ToCome(frames[i], s) /\ offers'[frames[i].id][s] >= offers[frames[i].id][s]
  <2>1. PICK f : f = frames[i]
    OBVIOUS
  <2>2. ToCome(f, s)'
    BY <1>1, <1>8, <2>1
  <2>3. f.pos \in Nat /\ f.id \in DOMAIN called /\ offers[f.id][s] \in Nat
    BY <2>1, FramesAre DEF HubAll
  <2>4. ToCome(f, s) /\ s # <<"global", h>>
    BY <1>1, <1>4, <2>2, <2>3 DEF ToCome, OfClass, ListOf
  <2>5. offers'[f.id][s] = offers[f.id][s]
    BY <1>7, <2>3, <2>4
  <2>6. QED
    BY <2>1, <2>3, <2>4, <2>5
<1>9. OffersSound'
  BY <1>1, <1>7, <1>8, OffersMeet
<1>10. QED
  BY <1>5, <1>6, <1>9

\* A hook ends its subscription to a class, on the list it was put on.
LEMMA UnsubscribeClassOffers ==
    ASSUME HubAll, NEW h \in Callback, NEW l \in DOMAIN classHooks, UnsubscribeClass(l, h)
    PROVE  SubsExact' /\ ListsApart' /\ OffersSound'
<1>1. PICK gone : gone = {frames[i].id : i \in {j \in DOMAIN frames : Walks(frames[j], l)}}
                            \X {<<"class", h>>}
  OBVIOUS
<1>2. /\ UNCHANGED <<nextId, globalHooks, classList, frames, called>>
      /\ subs' = [subs EXCEPT !.of =
                     [k \in ErrorClass |-> IF classList[k] = l THEN @[k] \ {h} ELSE @[k]]]
      /\ TakeBack(gone)
  BY <1>1 DEF UnsubscribeClass
<1>3. PICK p \in DOMAIN classHooks[l] :
         classHooks[l][p] = h /\ classHooks' = [classHooks EXCEPT ![l] = RemoveAt(classHooks[l], p)]
  BY DEF UnsubscribeClass
<1>4. /\ classHooks \in Seq(HookList) /\ classHooks[l] \in HookList /\ l # 0
      /\ classList \in [ErrorClass -> Nat]
      /\ \A j \in ErrorClass : classList[j] # 0 => classList[j] \in DOMAIN classHooks
  BY DEF HubAll, HubInv, HubTypes
<1>5. classHooks'[l] = RemoveAt(classHooks[l], p) /\ \A j \in DOMAIN classHooks : j # l => classHooks'[j] = classHooks[j]
  BY <1>3, <1>4
<1>6. /\ ToSet(classHooks'[l]) = ToSet(classHooks[l]) \ {h}
      /\ \A pos \in Nat : \A g : Ahead(classHooks'[l], pos, g) => Ahead(classHooks[l], pos, g) /\ g # h
  BY <1>3, <1>4, <1>5, RemovedFrom
<1>7. SubsExact'
  <2>1. /\ subs \in [all : SUBSET Callback, of : [ErrorClass -> SUBSET Callback]]
        /\ subs.all = ToSet(globalHooks)
        /\ \A k \in ErrorClass : subs.of[k] = ToSet(OfClass(k))
    BY DEF HubAll, SubsExact
  <2>2. /\ subs' \in [all : SUBSET Callback, of : [ErrorClass -> SUBSET Callback]]
        /\ subs'.all = subs.all
        /\ \A k \in ErrorClass : subs'.of[k] = IF classList[k] = l THEN subs.of[k] \ {h} ELSE subs.of[k]
    BY <1>2, <2>1
  <2>3. \A k \in ErrorClass : ToSet(OfClass(k)') = subs'.of[k]
    <3>1. TAKE k \in ErrorClass
    <3>2. CASE classList[k] = l
      <4>1. OfClass(k) = classHooks[l] /\ OfClass(k)' = classHooks'[l]
        BY <1>2, <1>4, <3>2 DEF OfClass
      <4>2. QED
        BY <1>6, <2>1, <2>2, <3>2, <4>1
    <3>3. CASE classList[k] # l
      <4>1. OfClass(k)' = OfClass(k)
        BY <1>2, <1>4, <1>5, <3>3 DEF OfClass
      <4>2. QED
        BY <2>1, <2>2, <3>3, <4>1
    <3>4. QED
      BY <3>2, <3>3
  <2>4. QED
    BY <1>2, <2>1, <2>2, <2>3 DEF SubsExact
<1>8. ListsApart'
  BY <1>2 DEF HubAll, ListsApart
<1>9. /\ offers' \in Seq([HookCall -> Nat]) /\ Len(offers') = Len(offers)
      /\ \A e \in DOMAIN called : \A s \in HookCall :
            /\ TimesCalled(e, s) <= offers'[e][s]
            /\ <<e, s>> \notin gone => offers'[e][s] = offers[e][s]
  BY <1>2, TakeBackIs DEF HubAll
<1>10. \A i, j \in DOMAIN frames : frames[i].id = frames[j].id => i = j
  BY DEF HubAll, HubInv, FramesSound
<1>11. ASSUME NEW i \in DOMAIN frames, NEW s \in HookCall, ToCome(frames[i], s)'
       PROVE  ToCome(frames[i], s) /\ offers'[frames[i].id][s] >= offers[frames[i].id][s]
  <2>1. PICK f : f = frames[i]
    OBVIOUS
  <2>2. ToCome(f, s)'
    BY <1>2, <1>11, <2>1
  <2>3. /\ f.pos \in Nat /\ f.id \in DOMAIN called /\ offers[f.id][s] \in Nat
        /\ f.class \in ErrorClass /\ f.stage \in {"global", "class"}
        /\ f.list # 0 => f.list \in DOMAIN classHooks
    BY <2>1, FramesAre DEF HubAll
  <2>4. ToCome(f, s) /\ ~(s = <<"class", h>> /\ Walks(f, l))
    <3>1. CASE s[1] = "global"
      BY <1>2, <2>2, <3>1 DEF ToCome
    <3>2. CASE s[1] # "global" /\ f.stage = "class"
      <4>1. Ahead(ListOf(f.list)', f.pos, s[2])
        BY <2>2, <3>2 DEF ToCome
      <4>2. CASE f.list = l
        <5>1. ListOf(f.list) = classHooks[l] /\ ListOf(f.list)' = classHooks'[l]
          BY <1>4, <4>2 DEF ListOf
        <5>2. QED
          BY <1>6, <2>3, <3>2, <4>1, <5>1 DEF ToCome
      <4>3. CASE f.list # l
        <5>1. ListOf(f.list)' = ListOf(f.list)
          BY <1>2, <1>5, <2>3, <4>3 DEF ListOf
        <5>2. ~Walks(f, l)
          BY <3>2, <4>3 DEF Walks
        <5>3. QED
          BY <3>2, <4>1, <5>1, <5>2 DEF ToCome
      <4>4. QED
        BY <4>2, <4>3
    <3>3. CASE s[1] # "global" /\ f.stage # "class"
      <4>1. Ahead(OfClass(f.class)', 0, s[2])
        BY <2>2, <3>3 DEF ToCome
      <4>2. CASE classList[f.class] = l
        <5>1. OfClass(f.class) = classHooks[l] /\ OfClass(f.class)' = classHooks'[l]
          BY <1>2, <1>4, <4>2 DEF OfClass
        <5>2. QED
          BY <1>6, <3>3, <4>1, <5>1 DEF ToCome
      <4>3. CASE classList[f.class] # l
        <5>1. OfClass(f.class)' = OfClass(f.class)
          BY <1>2, <1>4, <1>5, <2>3, <4>3 DEF OfClass
        <5>2. ~Walks(f, l)
          BY <3>3, <4>3 DEF Walks
        <5>3. QED
          BY <3>3, <4>1, <5>1, <5>2 DEF ToCome
      <4>4. QED
        BY <4>2, <4>3
    <3>4. QED
      BY <3>1, <3>2, <3>3
  <2>5. <<f.id, s>> \notin gone
    <3>1. SUFFICES ASSUME <<f.id, s>> \in gone PROVE FALSE
      OBVIOUS
    <3>2. PICK j \in DOMAIN frames : Walks(frames[j], l) /\ frames[j].id = f.id /\ s = <<"class", h>>
      BY <1>1, <3>1
    <3>3. QED
      BY <1>10, <2>1, <2>4, <3>2
  <2>6. offers'[f.id][s] = offers[f.id][s]
    BY <1>9, <2>3, <2>5
  <2>7. QED
    BY <2>1, <2>3, <2>4, <2>6
<1>12. OffersSound'
  BY <1>2, <1>9, <1>11, OffersMeet
<1>13. QED
  BY <1>7, <1>8, <1>12

\* All hooks are cleared, but loops over the hooks of a class go on.
LEMMA ClearHooksOffers ==
    ASSUME HubAll, ClearHooks
    PROVE  SubsExact' /\ ListsApart' /\ OffersSound'
<1>1. PICK gone : gone = (UnderWay \X HookCall)
                    \ ({frames[i].id : i \in {j \in DOMAIN frames : frames[j].stage = "class"}}
                         \X ({"class"} \X Callback))
  OBVIOUS
<1>2. /\ UNCHANGED <<nextId, classHooks, frames, called>>
      /\ globalHooks' = <<>> /\ classList' = [k \in ErrorClass |-> 0]
      /\ subs' = [all |-> {}, of |-> [k \in ErrorClass |-> {}]] /\ TakeBack(gone)
  BY <1>1 DEF ClearHooks
<1>3. ToSet(<<>>) = {}
  BY DEF ToSet
<1>4. \A k \in ErrorClass : OfClass(k)' = <<>>
  BY <1>2 DEF OfClass
<1>5. SubsExact'
  BY <1>2, <1>3, <1>4 DEF SubsExact
<1>6. ListsApart'
  BY <1>2 DEF ListsApart
<1>7. /\ offers' \in Seq([HookCall -> Nat]) /\ Len(offers') = Len(offers)
      /\ \A e \in DOMAIN called : \A s \in HookCall :
            /\ TimesCalled(e, s) <= offers'[e][s]
            /\ <<e, s>> \notin gone => offers'[e][s] = offers[e][s]
  BY <1>2, TakeBackIs DEF HubAll
<1>8. ASSUME NEW i \in DOMAIN frames, NEW s \in HookCall, ToCome(frames[i], s)'
      PROVE  ToCome(frames[i], s) /\ offers'[frames[i].id][s] >= offers[frames[i].id][s]
  <2>1. PICK f : f = frames[i]
    OBVIOUS
  <2>2. ToCome(f, s)'
    BY <1>2, <1>8, <2>1
  <2>3. /\ f.pos \in Nat /\ f.id \in DOMAIN called /\ offers[f.id][s] \in Nat
        /\ f.class \in ErrorClass
    BY <2>1, FramesAre DEF HubAll
  <2>4. \A pos, g : ~Ahead(<<>>, pos, g)
    BY DEF Ahead
  <2>5. s[1] # "global" /\ f.stage = "class"
    BY <1>2, <1>4, <2>2, <2>3, <2>4 DEF ToCome
  <2>6. ToCome(f, s)
    BY <1>2, <2>2, <2>5 DEF ToCome, ListOf
  <2>7. s = <<"class", s[2]>> /\ s[2] \in Callback
    BY <2>5, CallIs
  <2>8. <<f.id, s>> \notin gone
    BY <1>1, <2>1, <2>5, <2>7
  <2>9. offers'[f.id][s] = offers[f.id][s]
    BY <1>7, <2>3, <2>8
  <2>10. QED
    BY <2>1, <2>3, <2>6, <2>9
<1>9. OffersSound'
  BY <1>2, <1>7, <1>8, OffersMeet
<1>10. QED
  BY <1>5, <1>6, <1>9

\* What touches no list and no capture.
LEMMA SameOffers ==
    ASSUME HubAll, UNCHANGED <<nextId, globalHooks, classHooks, classList, frames, called, subs, offers>>
    PROVE  SubsExact' /\ ListsApart' /\ OffersSound'
<1>1. \A f, s : ToCome(f, s)' <=> ToCome(f, s)
  BY DEF ToCome, OfClass, ListOf
<1>2. \A e, s : TimesCalled(e, s)' = TimesCalled(e, s)
  BY DEF TimesCalled
<1>3. OffersSound'
  BY <1>1, <1>2 DEF HubAll, OffersSound
<1>4. QED
  BY <1>3 DEF HubAll, SubsExact, ListsApart, OfClass

CountOf(s, y) == Cardinality({i \in DOMAIN s : s[i] = y})

\* A sequence with one more at its end.
LEMMA CountMore ==
    ASSUME NEW s, NEW new, NEW x, NEW n \in Nat, DOMAIN s = 1 .. n, DOMAIN new = 1 .. (n + 1),
           new[n + 1] = x, \A p \in 1 .. n : new[p] = s[p]
    PROVE  /\ CountOf(new, x) = CountOf(s, x) + 1
           /\ \A y : y # x => CountOf(new, y) = CountOf(s, y)
<1>1. CountOf(new, x) = CountOf(s, x) + 1
  <2>1. PICK old : old = {i \in 1 .. n : s[i] = x}
    OBVIOUS
  <2>2. IsFiniteSet(1 .. n) /\ old \subseteq 1 .. n /\ n + 1 \notin old
    BY <2>1, FS_Interval
  <2>3. IsFiniteSet(old)
    BY <2>2, FS_Subset
  <2>4. {i \in DOMAIN new : new[i] = x} = old \cup {n + 1}
    BY <2>1
  <2>5. Cardinality(old \cup {n + 1}) = Cardinality(old) + 1
    BY <2>2, <2>3, FS_AddElement
  <2>6. QED
    BY <2>1, <2>4, <2>5 DEF CountOf
<1>2. ASSUME NEW y, y # x PROVE CountOf(new, y) = CountOf(s, y)
  <2>1. {i \in DOMAIN new : new[i] = y} = {i \in DOMAIN s : s[i] = y}
    BY <1>2
  <2>2. QED
    BY <2>1 DEF CountOf
<1>3. QED
  BY <1>1, <1>2

\* The n-th capture moves to g of the same event, which is offered what it may still call.
LEMMA MoveOffers ==
    ASSUME HubAll, NEW n \in DOMAIN frames, NEW id, id = frames[n].id,
           NEW g, g.id = id, g.class = frames[n].class,
           frames' = [frames EXCEPT ![n] = g], DOMAIN called' = DOMAIN called,
           UNCHANGED <<nextId, globalHooks, classHooks, classList, subs, offers>>,
           \A e \in DOMAIN called : e # id => called'[e] = called[e],
           \A s \in HookCall : /\ TimesCalled(id, s)' <= offers[id][s]
                               /\ ToCome(g, s) => TimesCalled(id, s)' < offers[id][s],
           \A k \in ErrorClass : g.list # 0 /\ classList[k] = g.list => k = g.class
    PROVE  SubsExact' /\ ListsApart' /\ OffersSound'
<1>1. \A f, s : ToCome(f, s)' <=> ToCome(f, s)
  BY DEF ToCome, OfClass, ListOf
<1>2. \A e \in DOMAIN called : e # id => \A s : TimesCalled(e, s)' = TimesCalled(e, s)
  BY DEF TimesCalled
<1>3. SubsExact'
  BY DEF HubAll, SubsExact, OfClass
<1>4. frames \in Seq(HubFrame)
  BY DEF HubAll, HubInv, HubTypes
<1>5. DOMAIN frames' = DOMAIN frames /\ frames'[n] = g
      /\ \A i \in DOMAIN frames : i # n => frames'[i] = frames[i]
  BY <1>4
<1>6. ListsApart'
  BY <1>5 DEF HubAll, ListsApart
<1>7. \A i \in DOMAIN frames : i # n => frames[i].id # id /\ frames[i].id \in DOMAIN called
  BY FramesAre DEF HubAll, HubInv, FramesSound
<1>8. \A e \in DOMAIN called : \A s \in HookCall : TimesCalled(e, s)' <= offers[e][s]
  BY <1>2 DEF HubAll, OffersSound
<1>9. ASSUME NEW i \in DOMAIN frames', NEW s \in HookCall, ToCome(frames[i], s)'
      PROVE  TimesCalled(frames[i].id, s)' < offers[frames'[i].id][s]
  <2>0. PICK f : f = frames'[i]
    OBVIOUS
  <2>1. ToCome(f, s)
    BY <1>1, <1>9, <2>0
  <2>2. CASE i = n
    BY <1>5, <2>0, <2>1, <2>2
  <2>3. CASE i # n
    <3>1. i \in DOMAIN frames /\ f = frames[i] /\ f.id # id /\ f.id \in DOMAIN called
      BY <1>5, <1>7, <2>0, <2>3
    <3>2. TimesCalled(f.id, s) < offers[f.id][s]
      BY <2>1, <3>1 DEF HubAll, OffersSound
    <3>3. TimesCalled(f.id, s)' = TimesCalled(f.id, s)
      BY <1>2, <3>1
    <3>4. QED
      BY <2>0, <3>2, <3>3
  <2>4. QED
    BY <2>2, <2>3
<1>10. OffersSound'
  BY <1>8, <1>9 DEF HubAll, OffersSound
<1>11. QED
  BY <1>3, <1>6, <1>10

\* A hook returns, or a capture turns to the hooks of the class.
LEMMA MovesQuietly ==
    ASSUME HubAll, HookEnds \/ ClassHooksNext
    PROVE  SubsExact' /\ ListsApart' /\ OffersSound'
<1>1. PICK f : f = Top
  OBVIOUS
<1>2. PICK n : n = Len(frames)
  OBVIOUS
<1>3. frames # <<>>
  BY DEF HookEnds, ClassHooksNext, CallersTurn
<1>4. n \in DOMAIN frames /\ f = frames[n] /\ f \in HubFrame
  BY <1>1, <1>2, <1>3, FrameOnTop DEF HubAll
<1>5. UNCHANGED <<nextId, globalHooks, classHooks, classList, called, subs, offers>>
  BY DEF HookEnds, ClassHooksNext, hubGhosts
<1>6. \A s \in HookCall : /\ TimesCalled(f.id, s)' <= offers[f.id][s]
                          /\ ToCome(f, s) => TimesCalled(f.id, s)' < offers[f.id][s]
  <2>1. \A s : TimesCalled(f.id, s)' = TimesCalled(f.id, s)
    BY <1>5 DEF TimesCalled
  <2>2. QED
    BY <1>4, <2>1, FramesAre DEF HubAll, OffersSound
<1>7. CASE HookEnds
  <2>1. PICK g : g = [f EXCEPT !.in = FALSE]
    OBVIOUS
  <2>2. frames' = [frames EXCEPT ![n] = g]
    BY <1>2, <1>4, <1>7, <2>1 DEF HookEnds
  <2>3. g.id = f.id /\ g.class = f.class /\ g.list = f.list /\ g.pos = f.pos /\ g.stage = f.stage
    BY <1>4, <2>1 DEF HubFrame
  <2>4. \A s \in HookCall : ToCome(g, s) => ToCome(f, s)
    BY <2>3 DEF ToCome
  <2>5. \A k \in ErrorClass : g.list # 0 /\ classList[k] = g.list => k = g.class
    BY <1>4, <2>3 DEF HubAll, ListsApart
  <2>6. QED
    BY <1>4, <1>5, <1>6, <2>2, <2>3, <2>4, <2>5, MoveOffers
<1>8. CASE ClassHooksNext
  <2>1. PICK l \in Nat : l = classList[f.class]
    BY <1>4 DEF HubAll, HubInv, HubTypes, HubFrame
  <2>2. PICK g : g = [f EXCEPT !.stage = "class", !.list = l, !.pos = 0, !.upTo = Len(OfClass(f.class))]
    OBVIOUS
  <2>3. frames' = [frames EXCEPT ![n] = g]
    BY <1>1, <1>2, <1>4, <1>8, <2>1, <2>2 DEF ClassHooksNext
  <2>4. g.id = f.id /\ g.class = f.class /\ g.list = l /\ g.pos = 0 /\ g.stage = "class"
    BY <1>4, <2>2 DEF HubFrame
  <2>5. f.stage = "global"
    BY <1>1, <1>8 DEF ClassHooksNext
  <2>6. ListOf(l) = OfClass(f.class)
    BY <2>1 DEF ListOf, OfClass
  <2>7. \A s \in HookCall : ToCome(g, s) => ToCome(f, s)
    BY <2>4, <2>5, <2>6 DEF ToCome
  <2>8. \A k \in ErrorClass : g.list # 0 /\ classList[k] = g.list => k = g.class
    BY <1>4, <2>1, <2>4 DEF HubAll, ListsApart, HubFrame
  <2>9. QED
    BY <1>4, <1>5, <1>6, <2>3, <2>4, <2>7, <2>8, MoveOffers
<1>9. QED
  BY <1>7, <1>8

\* A hook is called, as it was offered.
LEMMA CallHookOffers ==
    ASSUME HubAll, CallHook
    PROVE  SubsExact' /\ ListsApart' /\ OffersSound'
<1>1. PICK f : f = Top
  OBVIOUS
<1>2. PICK n : n = Len(frames)
  OBVIOUS
<1>3. frames # <<>>
  BY DEF CallHook, CallersTurn
<1>4. n \in DOMAIN frames /\ f = frames[n] /\ f \in HubFrame /\ f.id \in DOMAIN called
      /\ (f.list # 0 => f.list \in DOMAIN classHooks)
  BY <1>1, <1>2, <1>3, FrameOnTop DEF HubAll
<1>5. f.pos \in Nat /\ f.stage \in {"global", "class"} /\ f.class \in ErrorClass
  BY <1>4 DEF HubFrame
<1>6. UNCHANGED <<nextId, globalHooks, classHooks, classList, subs, offers>>
  BY DEF CallHook
<1>7. PICK walk : walk = Walked
  OBVIOUS
<1>8. f.stage = "global" \/ f.list # 0
  BY <1>1 DEF CallHook
<1>9. /\ f.stage = "global" => walk = globalHooks
      /\ f.stage = "class" => walk = ListOf(f.list)
  BY <1>1, <1>7, <1>8 DEF Walked, ListOf
<1>10. walk \in HookList
  BY <1>4, <1>5, <1>8, <1>9 DEF HubAll, HubInv, HubTypes, ListOf
<1>11. PICK m \in Nat : m = Len(walk) /\ DOMAIN walk = 1 .. m
  BY <1>10 DEF HookList
<1>12. \A i, j \in DOMAIN walk : walk[i] = walk[j] => i = j
  BY <1>10 DEF HookList
<1>13. \A s \in HookCall : ToCome(f, s) => TimesCalled(f.id, s) < offers[f.id][s]
  BY <1>4 DEF HubAll, OffersSound
<1>14. \A s \in HookCall : TimesCalled(f.id, s) \in Nat /\ offers[f.id][s] \in Nat
                           /\ TimesCalled(f.id, s) <= offers[f.id][s]
  BY <1>4, FramesAre DEF HubAll
<1>15. \A k \in ErrorClass : f.list # 0 /\ classList[k] = f.list => k = f.class
  BY <1>4 DEF HubAll, ListsApart
<1>16. CASE f.pos < m
  <2>1. PICK x : x = <<f.stage, walk[f.pos + 1]>>
    OBVIOUS
  <2>2. PICK g : g = [f EXCEPT !.pos = @ + 1, !.in = TRUE]
    OBVIOUS
  <2>3. /\ frames' = [frames EXCEPT ![n] = g]
        /\ called' = [called EXCEPT ![f.id] = Append(@, x)]
    <3>1. ~(f.pos >= Len(walk))
      BY <1>5, <1>11, <1>16
    <3>2. QED
      BY <1>1, <1>2, <1>4, <1>7, <2>1, <2>2, <3>1 DEF CallHook
  <2>4. g.id = f.id /\ g.class = f.class /\ g.list = f.list /\ g.stage = f.stage /\ g.pos = f.pos + 1
    BY <1>4, <2>2 DEF HubFrame
  <2>5. f.pos + 1 \in DOMAIN walk /\ walk[f.pos + 1] \in Callback
    BY <1>5, <1>10, <1>11, <1>16 DEF HookList
  <2>6. x \in HookCall
    BY <1>5, <2>1, <2>5 DEF HookCall
  <2>7. PICK h : h = walk[f.pos + 1]
    OBVIOUS
  <2>8. Ahead(walk, f.pos, h) /\ ~Ahead(walk, f.pos + 1, h)
        /\ \A a : Ahead(walk, f.pos + 1, a) => Ahead(walk, f.pos, a)
    BY <1>5, <1>11, <1>12, <2>5, <2>7 DEF Ahead
  <2>9. x[1] = f.stage /\ x[2] = h
    BY <2>1, <2>7
  <2>10. ToCome(f, x) /\ ~ToCome(g, x)
    <3>1. CASE f.stage = "global"
      BY <1>9, <2>4, <2>8, <2>9, <3>1 DEF ToCome
    <3>2. CASE f.stage = "class"
      BY <1>9, <2>4, <2>8, <2>9, <3>2 DEF ToCome
    <3>3. QED
      BY <1>5, <3>1, <3>2
  <2>11. \A s \in HookCall : ToCome(g, s) => ToCome(f, s)
    <3>1. TAKE s \in HookCall
    <3>2. HAVE ToCome(g, s)
    <3>3. CASE f.stage = "global"
      BY <1>9, <2>4, <2>8, <3>2, <3>3 DEF ToCome
    <3>4. CASE f.stage = "class"
      BY <1>9, <2>4, <2>8, <3>2, <3>4 DEF ToCome
    <3>5. QED
      BY <1>5, <3>3, <3>4
  <2>12. called \in Seq(Seq(HookCall))
    BY DEF HubAll, HubInv, HubTypes
  <2>13. /\ called[f.id] \in Seq(HookCall) /\ called'[f.id] = Append(called[f.id], x)
         /\ DOMAIN called' = DOMAIN called
         /\ \A e \in DOMAIN called : e # f.id => called'[e] = called[e]
    BY <1>4, <2>3, <2>12
  <2>14. \A s \in HookCall : TimesCalled(f.id, s)' =
            IF s = x THEN TimesCalled(f.id, s) + 1 ELSE TimesCalled(f.id, s)
    <3>1. PICK old, new : old = called[f.id] /\ new = called'[f.id]
      OBVIOUS
    <3>2. old \in Seq(HookCall) /\ new = Append(old, x)
      BY <2>13, <3>1
    <3>3. PICK last \in Nat : last = Len(old) /\ DOMAIN old = 1 .. last
      BY <3>2
    <3>4. DOMAIN new = 1 .. (last + 1) /\ new[last + 1] = x /\ \A p \in 1 .. last : new[p] = old[p]
      BY <2>6, <3>2, <3>3
    <3>5. CountOf(new, x) = CountOf(old, x) + 1 /\ \A s : s # x => CountOf(new, s) = CountOf(old, s)
      BY <3>3, <3>4, CountMore
    <3>6. QED
      BY <3>1, <3>5 DEF TimesCalled, CountOf
  <2>15. \A s \in HookCall : /\ TimesCalled(f.id, s)' <= offers[f.id][s]
                             /\ ToCome(g, s) => TimesCalled(f.id, s)' < offers[f.id][s]
    <3>1. TAKE s \in HookCall
    <3>2. CASE s = x
      BY <1>13, <1>14, <2>10, <2>14, <3>2
    <3>3. CASE s # x
      BY <1>13, <1>14, <2>11, <2>14, <3>3
    <3>4. QED
      BY <3>2, <3>3
  <2>16. \A k \in ErrorClass : g.list # 0 /\ classList[k] = g.list => k = g.class
    BY <1>15, <2>4
  <2>17. \A e \in DOMAIN called : e # f.id => called'[e] = called[e]
    BY <2>13
  <2>18. DOMAIN called' = DOMAIN called /\ f.id = frames[n].id /\ g.id = f.id
         /\ g.class = frames[n].class /\ frames' = [frames EXCEPT ![n] = g]
    BY <1>4, <2>3, <2>4, <2>13
  <2>19. QED
    BY <1>4, <1>6, <2>15, <2>16, <2>17, <2>18, MoveOffers
<1>17. CASE ~(f.pos < m)
  <2>1. PICK g : g = [f EXCEPT !.pos = @ + 1]
    OBVIOUS
  <2>2. frames' = [frames EXCEPT ![n] = g] /\ UNCHANGED called
    BY <1>1, <1>2, <1>4, <1>7, <1>11, <1>17, <2>1 DEF CallHook
  <2>3. g.id = f.id /\ g.class = f.class /\ g.list = f.list /\ g.stage = f.stage /\ g.pos = f.pos + 1
    BY <1>4, <2>1 DEF HubFrame
  <2>4. \A a : Ahead(walk, f.pos + 1, a) => Ahead(walk, f.pos, a)
    BY <1>5, <1>11 DEF Ahead
  <2>5. \A s \in HookCall : ToCome(g, s) => ToCome(f, s)
    <3>1. TAKE s \in HookCall
    <3>2. HAVE ToCome(g, s)
    <3>3. CASE f.stage = "global"
      BY <1>9, <2>3, <2>4, <3>2, <3>3 DEF ToCome
    <3>4. CASE f.stage = "class"
      BY <1>9, <2>3, <2>4, <3>2, <3>4 DEF ToCome
    <3>5. QED
      BY <1>5, <3>3, <3>4
  <2>6. \A s \in HookCall : TimesCalled(f.id, s)' = TimesCalled(f.id, s)
    BY <2>2 DEF TimesCalled
  <2>7. \A s \in HookCall : /\ TimesCalled(f.id, s)' <= offers[f.id][s]
                            /\ ToCome(g, s) => TimesCalled(f.id, s)' < offers[f.id][s]
    BY <1>13, <1>14, <2>5, <2>6
  <2>8. QED
    BY <1>4, <1>6, <1>15, <2>2, <2>3, <2>7, MoveOffers
<1>18. QED
  BY <1>16, <1>17

\* A capture ends.
LEMMA CapturedOffers ==
    ASSUME HubAll, Captured
    PROVE  SubsExact' /\ ListsApart' /\ OffersSound'
<1>1. /\ UNCHANGED <<nextId, globalHooks, classHooks, classList, called, subs, offers>>
      /\ frames' = Front(frames) /\ frames # <<>>
  BY DEF Captured, CallersTurn, hubGhosts
<1>2. frames \in Seq(HubFrame)
  BY DEF HubAll, HubInv, HubTypes
<1>3. \A i \in DOMAIN frames' : i \in DOMAIN frames /\ frames'[i] = frames[i]
  BY <1>1, <1>2 DEF Front
<1>4. \A f, s : ToCome(f, s)' <=> ToCome(f, s)
  BY <1>1 DEF ToCome, OfClass, ListOf
<1>5. \A e, s : TimesCalled(e, s)' = TimesCalled(e, s)
  BY <1>1 DEF TimesCalled
<1>6. OffersSound'
  BY <1>1, <1>3, <1>4, <1>5 DEF HubAll, OffersSound
<1>7. ListsApart'
  BY <1>1, <1>3 DEF HubAll, ListsApart
<1>8. QED
  BY <1>1, <1>6, <1>7 DEF HubAll, SubsExact, OfClass

\* An event is captured, and offered to those subscribed.
LEMMA CaptureOffers ==
    ASSUME HubAll, NEW k \in ErrorClass, Capture(k)
    PROVE  SubsExact' /\ ListsApart' /\ OffersSound'
<1>1. PICK e : e = nextId
  OBVIOUS
<1>2. PICK offer : offer = [s \in HookCall |-> IF s \in Subscribed(k) THEN 1 ELSE 0]
  OBVIOUS
<1>3. PICK g : g = Frame(e, k)
  OBVIOUS
<1>4. /\ nextId' = e + 1 /\ frames' = Append(frames, g) /\ offers' = Append(offers, offer)
      /\ called' = Append(called, <<>>)
      /\ UNCHANGED <<globalHooks, classHooks, classList, subs>>
  BY <1>1, <1>2, <1>3 DEF Capture
<1>5. /\ e \in Nat \ {0} /\ frames \in Seq(HubFrame)
      /\ called \in Seq(Seq(HookCall)) /\ Len(called) = e - 1
      /\ offers \in Seq([HookCall -> Nat]) /\ Len(offers) = e - 1
  BY <1>1 DEF HubAll, HubInv, HubTypes, OffersSound
<1>6. offer \in [HookCall -> Nat]
  BY <1>2
<1>7. /\ offers' \in Seq([HookCall -> Nat]) /\ Len(offers') = nextId' - 1
      /\ offers'[e] = offer /\ \A a \in 1 .. (e - 1) : offers'[a] = offers[a]
  BY <1>4, <1>5, <1>6
<1>8. /\ DOMAIN called' = 1 .. e /\ DOMAIN called = 1 .. (e - 1) /\ called'[e] = <<>>
      /\ \A a \in 1 .. (e - 1) : called'[a] = called[a]
  BY <1>4, <1>5
<1>9. \A s : TimesCalled(e, s)' = 0
  <2>1. TAKE s
  <2>2. {i \in DOMAIN called'[e] : called'[e][i] = s} = {}
    BY <1>8
  <2>3. QED
    BY <2>2, FS_EmptySet DEF TimesCalled
<1>10. \A a \in 1 .. (e - 1) : \A s : TimesCalled(a, s)' = TimesCalled(a, s)
  BY <1>8 DEF TimesCalled
<1>11. \A a \in DOMAIN called' : \A s \in HookCall : TimesCalled(a, s)' <= offers'[a][s]
  <2>1. \A s \in HookCall : TimesCalled(e, s)' <= offers'[e][s]
    BY <1>6, <1>7, <1>9
  <2>2. \A a \in 1 .. (e - 1) : \A s \in HookCall : TimesCalled(a, s)' <= offers'[a][s]
    BY <1>7, <1>8, <1>10 DEF HubAll, OffersSound
  <2>3. \A a \in 1 .. e : a = e \/ a \in 1 .. (e - 1)
    BY <1>5
  <2>4. QED
    BY <1>8, <2>1, <2>2, <2>3
<1>12. \A f, s : ToCome(f, s)' <=> ToCome(f, s)
  BY <1>4 DEF ToCome, OfClass, ListOf
<1>13. g.id = e /\ g.class = k /\ g.list = 0 /\ g.pos = 0 /\ g.stage = "global"
  BY <1>3 DEF Frame
<1>14. \A s \in HookCall : ToCome(g, s) => offer[s] = 1
  <2>1. TAKE s \in HookCall
  <2>2. HAVE ToCome(g, s)
  <2>3. CASE s[1] = "global"
    <3>1. s[2] \in subs.all
      BY <1>13, <2>2, <2>3 DEF HubAll, SubsExact, ToCome, Ahead, ToSet
    <3>2. s \in Subscribed(k)
      BY <2>3, <3>1, CallIs DEF Subscribed
    <3>3. QED
      BY <1>2, <3>2
  <2>4. CASE s[1] # "global"
    <3>1. s[2] \in subs.of[k]
      BY <1>13, <2>2, <2>4 DEF HubAll, SubsExact, ToCome, Ahead, ToSet
    <3>2. s \in Subscribed(k)
      BY <2>4, <3>1, CallIs DEF Subscribed
    <3>3. QED
      BY <1>2, <3>2
  <2>5. QED
    BY <2>3, <2>4
<1>15. /\ DOMAIN frames' = DOMAIN frames \cup {Len(frames) + 1}
       /\ frames'[Len(frames) + 1] = g /\ \A i \in DOMAIN frames : frames'[i] = frames[i]
  BY <1>4, <1>5
<1>16. ASSUME NEW i \in DOMAIN frames', NEW s \in HookCall, ToCome(frames[i], s)'
       PROVE  TimesCalled(frames[i].id, s)' < offers'[frames'[i].id][s]
  <2>0. PICK f : f = frames'[i]
    OBVIOUS
  <2>1. ToCome(f, s)
    BY <1>12, <1>16, <2>0
  <2>2. CASE i \in DOMAIN frames
    <3>1. f = frames[i] /\ f.id \in 1 .. (e - 1)
      BY <1>8, <1>15, <2>0, <2>2, FramesAre DEF HubAll
    <3>2. TimesCalled(f.id, s) < offers[f.id][s]
      BY <2>1, <2>2, <3>1 DEF HubAll, OffersSound
    <3>3. TimesCalled(f.id, s)' < offers'[f.id][s]
      BY <1>7, <1>10, <3>1, <3>2
    <3>4. QED
      BY <2>0, <3>3
  <2>3. CASE i = Len(frames) + 1
    <3>1. f = g /\ f.id = e
      BY <1>13, <1>15, <2>0, <2>3
    <3>2. offer[s] = 1 /\ offers'[f.id] = offer
      BY <1>7, <1>14, <2>1, <3>1
    <3>3. TimesCalled(f.id, s)' = 0
      BY <1>9, <3>1
    <3>4. QED
      BY <2>0, <3>2, <3>3
  <2>4. QED
    BY <1>15, <2>2, <2>3
<1>17. OffersSound'
  BY <1>7, <1>11, <1>16 DEF OffersSound
<1>18. ListsApart'
  BY <1>4, <1>13, <1>15 DEF HubAll, ListsApart
<1>19. QED
  BY <1>4, <1>17, <1>18 DEF HubAll, SubsExact, OfClass

\* The invariant of the error monitor, its subscriptions and offers.
LEMMA HubInvariance == HubInit /\ [][HubNext]_hubVars => []HubAll
<1>1. ASSUME HubInit PROVE HubAll
  <2>1. SubsExact
    <3>1. ToSet(<<>>) = {}
      BY DEF ToSet
    <3>2. \A k \in ErrorClass : OfClass(k) = <<>>
      BY <1>1 DEF HubInit, OfClass
    <3>3. subs = [all |-> {}, of |-> [k \in ErrorClass |-> {}]] /\ globalHooks = <<>>
      BY <1>1 DEF HubInit
    <3>4. QED
      BY <3>1, <3>2, <3>3 DEF SubsExact
  <2>2. ListsApart /\ OffersSound
    <3>1. /\ \A k \in ErrorClass : classList[k] = 0
          /\ nextId = 1 /\ offers = <<>> /\ called = <<>> /\ frames = <<>>
      BY <1>1 DEF HubInit
    <3>2. QED
      BY <3>1 DEF ListsApart, OffersSound
  <2>3. QED
    BY <1>1, <2>1, <2>2, HubStart DEF HubAll
<1>2. ASSUME HubAll, [HubNext]_hubVars PROVE HubAll'
  <2>1. HubInv'
    BY <1>2, HubStep DEF HubAll
  <2>2. SubsExact' /\ ListsApart' /\ OffersSound'
    <3>1. CASE UNCHANGED hubVars \/ ResetHub
      <4>1. UNCHANGED <<nextId, globalHooks, classHooks, classList, frames, called, subs, offers>>
        BY <3>1 DEF ResetHub, hubVars, hubGhosts
      <4>2. QED
        BY <1>2, <4>1, SameOffers
    <3>2. CASE \E k \in ErrorClass : Capture(k)
      BY <1>2, <3>2, CaptureOffers
    <3>3. CASE CallHook \/ HookEnds \/ ClassHooksNext \/ Captured
      BY <1>2, <3>3, CallHookOffers, MovesQuietly, CapturedOffers
    <3>4. CASE \E h \in Callback : OnError(h) \/ \E k \in ErrorClass : OnErrorClass(k, h)
      BY <1>2, <3>4, OnErrorOffers, OnErrorClassOffers
    <3>5. CASE \/ \E h \in Callback : UnsubscribeGlobal(h)
               \/ \E h \in Callback : \E l \in DOMAIN classHooks : UnsubscribeClass(l, h)
               \/ ClearHooks
      BY <1>2, <3>5, UnsubscribeGlobalOffers, UnsubscribeClassOffers, ClearHooksOffers
    <3>6. QED
      BY <1>2, <3>1, <3>2, <3>3, <3>4, <3>5 DEF HubNext
  <2>3. QED
    BY <2>1, <2>2 DEF HubAll
<1>3. QED
  BY <1>1, <1>2, PTL

\* For any hooks, classes and captures, nested in one another and subscribing,
\* unsubscribing and clearing however hooks like: history and counts are of the events
\* since the reset; an event during whose capture nobody unsubscribed reached every hook
\* subscribed before, each once; and no event reached a hook more often than it was
\* subscribed, to all or to the class of the event, so that none reached a hook of
\* another class or one that had unsubscribed, but for hooks of a class that was cleared
\* while they were being called: errorMonitor.ts walks lists that the hooks it calls may
\* change.
THEOREM ErrorsAlwaysAccounted == HubInit /\ [][HubNext]_hubVars => []ErrorsAccounted
<1>1. ASSUME HubAll PROVE ErrorsAccounted
  <2>1. ASSUME NEW e \in calm, NEW s
        PROVE  /\ TimesCalled(e, s) <= 1
               /\ s \in ToSet(called[e]) => TimesCalled(e, s) = 1
    <3>1. PICK places : places = {i \in DOMAIN called[e] : called[e][i] = s}
      OBVIOUS
    <3>2. \A i, j \in places : i = j
      BY <1>1, <2>1, <3>1 DEF HubAll, HubInv, CallsSound
    <3>3. CASE places = {}
      <4>1. TimesCalled(e, s) = 0
        BY <3>1, <3>3, FS_EmptySet DEF TimesCalled
      <4>2. s \notin ToSet(called[e])
        BY <3>1, <3>3 DEF ToSet
      <4>3. QED
        BY <4>1, <4>2
    <3>4. CASE places # {}
      <4>1. PICK i : places = {i}
        BY <3>2, <3>4
      <4>2. Cardinality(places) = 1
        BY <4>1, FS_Singleton
      <4>3. TimesCalled(e, s) = 1
        BY <3>1, <4>2 DEF TimesCalled
      <4>4. QED
        BY <4>3
    <3>5. QED
      BY <3>3, <3>4
  <2>2. \A e \in calm : Finished(e) => due[e] \subseteq ToSet(called[e])
    BY <1>1 DEF HubAll, HubInv, CallsSound
  <2>3. \A e \in DOMAIN called : \A s \in ToSet(called[e]) : TimesCalled(e, s) <= offers[e][s]
    <3>1. \A e \in DOMAIN called : called[e] \in Seq(HookCall)
      BY <1>1 DEF HubAll, HubInv, HubTypes
    <3>2. \A e \in DOMAIN called : \A s \in ToSet(called[e]) : s \in HookCall
      BY <3>1 DEF ToSet
    <3>3. QED
      BY <1>1, <3>2 DEF HubAll, OffersSound
  <2>4. QED
    BY <1>1, <2>1, <2>2, <2>3 DEF HubAll, HubInv, HistoryExact, ErrorsAccounted
<1>2. QED
  BY <1>1, HubInvariance, PTL

-----------------------------------------------------------------------------
(***************************************************************************)
(* PaymentApp: one payment per click, from the account shown.              *)
(***************************************************************************)
Accounts == Account \cup {NoAccount}

HandlerRecord ==
    [kind : {"none", "reconnect", "connect", "refresh", "fund", "send", "link", "seal"},
     at : {"done", "address", "network", "installed", "access", "balance", "friendbot",
           "account", "sign", "submit", "key", "signature"},
     click : Nat, shown : Accounts, pub : Accounts, had : Accounts, version : Nat,
     signer : Accounts]

PaymentRecord ==
    [click : Nat, shown : Accounts, from : Accounts, version : Nat, signer : Accounts]

PageRecord ==
    [address : Accounts, balance : [of : Accounts, version : Nat], loading : BOOLEAN,
     feedback : [kind : {"idle", "pending", "error", "funded", "paid"}, of : Nat]]

PayTypes ==
    /\ wallet \in [account : Account, switches : Nat]
    /\ page \in PageRecord
    /\ connector \in [connected : BOOLEAN, key : Accounts, asked : Nat]
    /\ handlers \in [Handler -> HandlerRecord]
    /\ clicks \in Nat
    /\ sequence \in [Account -> Nat]
    /\ floating \in SUBSET PaymentRecord
    /\ payments \in SUBSET PaymentRecord
    /\ overlapped \in BOOLEAN

\* Which accounts a handler works with, by what it is and what it awaits.
HandlerSound(r) ==
    /\ r.kind # "none" => r.had \in Account
    /\ r.kind = "none" => r.at = "done"
    /\ r.kind = "reconnect" => r.at \in {"address", "network"}
    /\ r.kind = "connect" => /\ r.at \in {"installed", "access", "network", "balance"}
                             /\ r.at \in {"network", "balance"} => r.pub \in Account
    /\ r.kind = "refresh" => r.at = "balance" /\ r.pub \in Account
    /\ r.kind = "fund" => r.at \in {"friendbot", "balance"} /\ r.pub \in Account
    /\ r.kind = "send" => /\ r.at \in {"account", "sign", "submit", "balance"}
                          /\ r.pub \in Account /\ r.shown = r.pub
    /\ r.kind = "link" => r.at = "key"
    /\ r.kind = "seal" => r.at = "signature"

HandlersSound == \A h \in Handler : HandlerSound(handlers[h]) /\ handlers[h].click <= clicks

\* What the connector holds, asks for and hands out is the wallet's account, as long as the
\* wallet was not switched since the key was asked for.
Asking(r) ==
    /\ r.kind \in {"link", "seal"} =>
          r.version <= wallet.switches
          /\ (r.version = wallet.switches => r.had = wallet.account)
    /\ r.kind = "seal" /\ r.version = wallet.switches => r.pub = wallet.account

ConnectorSound ==
    /\ connector.connected <=> connector.key # NoAccount
    /\ connector.connected =>
          connector.asked <= wallet.switches
          /\ (connector.asked = wallet.switches => connector.key = wallet.account)
    /\ \A h \in Handler : Asking(handlers[h])
    /\ \A s \in signatures : s.signer = s.key \/ s.switched

Sending(r) == r.kind = "send" /\ r.at \in {"account", "sign", "submit"}

\* A click has one payment: with its handler, floating, or landed.
PaymentsSound ==
    /\ \A p \in payments \cup floating :
          p.click <= clicks /\ p.from = p.shown /\ p.from \in Account
    /\ \A p, q \in payments \cup floating : p.click = q.click => p = q
    /\ \A p \in floating : p \notin payments
    /\ \A h \in Handler : Sending(handlers[h]) =>
          \A p \in payments \cup floating : p.click # handlers[h].click
    /\ \A g, h \in Handler :
          Sending(handlers[g]) /\ Sending(handlers[h]) /\ handlers[g].click = handlers[h].click
             => g = h
    /\ \A p \in payments : p.version < sequence[p.from]

PaidLanded == page.feedback.kind = "paid" => \E p \in payments : p.click = page.feedback.of

PaymentPending(r) ==
    \/ r.kind = "fund"
    \/ r.kind = "connect" /\ r.at # "balance"
    \/ Sending(r)

\* What the page says is under way is.
PageSound ==
    /\ page.loading => \E h \in Handler : handlers[h].at = "balance"
    /\ page.feedback.kind = "pending" => \E h \in Handler : PaymentPending(handlers[h])

\* As long as the clicks have waited for each other.
OnPage(r) == r.kind \notin {"none", "link", "seal"}

PaidFrom(who) ==
    page.feedback.kind = "paid" =>
       \A p \in payments : p.click = page.feedback.of => p.from = who

PaidBefore(version) ==
    page.feedback.kind = "paid" =>
       \A p \in payments : p.click = page.feedback.of => version > p.version

AloneHandler(r) ==
    /\ r.kind \in {"reconnect", "connect"} =>
          page.balance.of = NoAccount /\ page.feedback.kind # "paid"
    /\ r.kind \in {"refresh", "fund", "send"} => r.pub = page.address
    /\ r.kind = "connect" /\ r.at \in {"network", "balance"} => r.pub = page.address
    /\ page.feedback.kind = "paid" => r.at = "balance" /\ PaidBefore(r.version)

AloneSound ==
    ~overlapped =>
      /\ \A g, h \in Handler : OnPage(handlers[g]) /\ OnPage(handlers[h]) => g = h
      /\ page.balance.of \in {page.address, NoAccount}
      /\ PaidFrom(page.address)
      /\ (\A h \in Handler : ~OnPage(handlers[h])) =>
            PaidFrom(page.balance.of) /\ PaidBefore(page.balance.version)
      /\ \A h \in Handler : OnPage(handlers[h]) => AloneHandler(handlers[h])

PayInv ==
    /\ PayTypes /\ HandlersSound /\ ConnectorSound /\ PaymentsSound /\ PaidLanded
    /\ PageSound /\ AloneSound

-----------------------------------------------------------------------------
\* One handler moves: the handlers keep their records.
LEMMA TypesMove ==
    ASSUME PayInv, NEW h \in Handler, NEW r \in HandlerRecord, HandlerSound(r), r.click <= clicks',
           handlers' = [handlers EXCEPT ![h] = r], clicks' \in Nat, clicks <= clicks'
    PROVE  /\ handlers' \in [Handler -> HandlerRecord]
           /\ HandlersSound'
<1>1. handlers' \in [Handler -> HandlerRecord] /\ handlers'[h] = r
      /\ \A g \in Handler \ {h} : handlers'[g] = handlers[g]
  BY DEF PayInv, PayTypes
<1>2. ASSUME NEW g \in Handler
      PROVE  HandlerSound(handlers'[g]) /\ handlers'[g].click <= clicks'
  <2>1. CASE g = h
    BY <1>1, <2>1
  <2>2. CASE g # h
    <3>1. handlers'[g] = handlers[g] /\ HandlerSound(handlers[g])
          /\ handlers[g].click <= clicks
      BY <1>1, <2>2 DEF PayInv, HandlersSound
    <3>2. handlers[g].click \in Nat /\ clicks \in Nat
      BY DEF PayInv, PayTypes, HandlerRecord
    <3>3. QED
      BY <3>1, <3>2
  <2>3. QED
    BY <2>1, <2>2
<1>3. QED
  BY <1>1, <1>2 DEF HandlersSound, HandlerSound

\* One handler moves: what the connector holds stays the wallet's.
LEMMA ConnectorMoves ==
    ASSUME PayInv, NEW h \in Handler, NEW r, Asking(r),
           handlers' = [handlers EXCEPT ![h] = r], UNCHANGED <<wallet, connector, signatures>>
    PROVE  ConnectorSound'
  BY DEF PayInv, PayTypes, ConnectorSound, Asking

\* One handler moves: a click still has one payment.
LEMMA PaymentsMove ==
    ASSUME PayInv, NEW h \in Handler, NEW r,
           Sending(r) =>
              \/ r.click = clicks + 1
              \/ Sending(handlers[h]) /\ r.click = handlers[h].click,
           handlers' = [handlers EXCEPT ![h] = r], clicks' \in {clicks, clicks + 1},
           UNCHANGED <<sequence, floating, payments>>
    PROVE  PaymentsSound'
<1>1. handlers'[h] = r /\ \A g \in Handler \ {h} : handlers'[g] = handlers[g]
  BY DEF PayInv, PayTypes
<1>2. clicks \in Nat /\ \A g \in Handler : handlers[g].click \in Nat /\ handlers[g].click <= clicks
  BY DEF PayInv, PayTypes, HandlersSound, HandlerRecord
<1>3. \A p \in payments \cup floating : p.click \in Nat /\ p.click <= clicks
  BY DEF PayInv, PayTypes, PaymentsSound, PaymentRecord
<1>4. \A p \in payments' \cup floating' : p.click <= clicks' /\ p.from = p.shown /\ p.from \in Account
  BY <1>2, <1>3 DEF PayInv, PaymentsSound
<1>5. ASSUME NEW g \in Handler, Sending(handlers'[g]), NEW p \in payments \cup floating
      PROVE  p.click # handlers'[g].click
  BY <1>1, <1>2, <1>3, <1>5 DEF PayInv, PaymentsSound
<1>6. ASSUME NEW f \in Handler, NEW g \in Handler, Sending(handlers'[f]), Sending(handlers'[g]),
             handlers'[f].click = handlers'[g].click
      PROVE  f = g
  <2>1. CASE f # h /\ g # h
    BY <1>1, <1>6, <2>1 DEF PayInv, PaymentsSound
  <2>2. CASE f = h /\ g # h
    BY <1>1, <1>2, <1>6, <2>2 DEF PayInv, PaymentsSound
  <2>3. CASE f # h /\ g = h
    BY <1>1, <1>2, <1>6, <2>3 DEF PayInv, PaymentsSound
  <2>4. QED
    BY <2>1, <2>2, <2>3
<1>7. QED
  BY <1>4, <1>5, <1>6 DEF PayInv, PaymentsSound, Sending

\* One handler moves: what the page says is under way is.
LEMMA PageMoves ==
    ASSUME PayInv, NEW h \in Handler, NEW r,
           handlers' = [handlers EXCEPT ![h] = r],
           page'.loading => r.at = "balance" \/ (page.loading /\ handlers[h].at # "balance"),
           page'.feedback.kind = "pending" =>
              PaymentPending(r) \/ (page.feedback.kind = "pending" /\ ~PaymentPending(handlers[h]))
    PROVE  PageSound'
<1>1. handlers'[h] = r /\ \A g \in Handler \ {h} : handlers'[g] = handlers[g]
  BY DEF PayInv, PayTypes
<1>2. ASSUME page'.loading PROVE \E g \in Handler : handlers'[g].at = "balance"
  <2>1. CASE r.at = "balance"
    BY <1>1, <2>1
  <2>2. CASE page.loading /\ handlers[h].at # "balance"
    BY <1>1, <2>2 DEF PayInv, PageSound
  <2>3. QED
    BY <1>2, <2>1, <2>2
<1>3. ASSUME page'.feedback.kind = "pending" PROVE \E g \in Handler : PaymentPending(handlers'[g])
  <2>1. CASE PaymentPending(r)
    BY <1>1, <2>1
  <2>2. CASE page.feedback.kind = "pending" /\ ~PaymentPending(handlers[h])
    <3>1. PICK g \in Handler : PaymentPending(handlers[g])
      BY <2>2 DEF PayInv, PageSound
    <3>2. g # h
      BY <2>2, <3>1
    <3>3. QED
      BY <1>1, <3>1, <3>2
  <2>3. QED
    BY <1>3, <2>1, <2>2
<1>4. QED
  BY <1>2, <1>3 DEF PageSound, PaymentPending, Sending

\* One handler moves while the clicks wait for each other.
LEMMA AloneMoves ==
    ASSUME PayInv, NEW h \in Handler, NEW r, handlers' = [handlers EXCEPT ![h] = r],
           ~overlapped' => ~overlapped /\ \A g \in Handler \ {h} : ~OnPage(handlers[g]),
           ~overlapped' => page'.balance.of \in {page'.address, NoAccount},
           ~overlapped' => PaidFrom(page.address)',
           ~overlapped' /\ ~OnPage(r) => PaidFrom(page.balance.of)'
                                         /\ PaidBefore(page.balance.version)',
           ~overlapped' /\ OnPage(r) => AloneHandler(handlers[h])'
    PROVE  AloneSound'
<1>1. handlers'[h] = r /\ \A g \in Handler \ {h} : handlers'[g] = handlers[g]
  BY DEF PayInv, PayTypes
<1> SUFFICES ASSUME ~overlapped' PROVE AloneSound'
  BY DEF AloneSound
<1>2. \A g \in Handler \ {h} : ~OnPage(handlers'[g])
  BY <1>1
<1>3. \A f, g \in Handler : OnPage(handlers'[f]) /\ OnPage(handlers'[g]) => f = g
  BY <1>2
<1>4. (\A g \in Handler : ~OnPage(handlers'[g])) => ~OnPage(r)
  BY <1>1
<1>5. (\A h_1 \in Handler : OnPage(handlers[h_1]) => AloneHandler(handlers[h_1]))'
  <2>1. ASSUME NEW g \in Handler, OnPage(handlers'[g]) PROVE g = h /\ OnPage(r)
    BY <1>1, <1>2, <2>1
  <2>2. QED
    BY <2>1 DEF OnPage, AloneHandler, PaidBefore
<1>6. QED
  BY <1>3, <1>4, <1>5 DEF AloneSound, OnPage, PaidFrom, PaidBefore

\* While the clicks wait for each other one handler is on the page at most.
LEMMA AloneStays ==
    ASSUME PayInv, NEW h \in Handler, OnPage(handlers[h]), ~overlapped
    PROVE  \A g \in Handler \ {h} : ~OnPage(handlers[g])
  BY DEF PayInv, AloneSound

\* What a click does to handlers and counts, whatever the button.
LEMMA ClickedIs ==
    ASSUME PayInv, NEW h \in Handler, NEW kind, NEW at, NEW r,
           Clicked(h, kind, at),
           kind \in {"connect", "refresh", "fund", "send"},
           r = [kind |-> kind, at |-> at, click |-> clicks + 1, shown |-> page.address,
                pub |-> page.address, had |-> wallet.account,
                version |-> IF page.address = NoAccount THEN 0 ELSE sequence[page.address],
                signer |-> NoAccount]
    PROVE  /\ handlers' = [handlers EXCEPT ![h] = r]
           /\ handlers[h].kind = "none" /\ handlers[h].at = "done" /\ r.click <= clicks'
           /\ clicks' = clicks + 1
           /\ UNCHANGED <<wallet, connector, sequence, floating, payments, signatures>>
           /\ ~overlapped' => ~overlapped /\ \A g \in Handler : ~OnPage(handlers[g])
           /\ overlapped' \in BOOLEAN
           /\ ConnectorSound' /\ PaymentsSound'
<1>1. /\ clicks' = clicks + 1 /\ clicks \in Nat
      /\ handlers[h].kind = "none"
      /\ UNCHANGED <<wallet, connector, sequence, floating, payments, signatures>>
      /\ overlapped' = (overlapped \/ OfPage # {})
  BY DEF Clicked, Click, Counts, Starts, PayInv, PayTypes
<1>2. handlers' = [handlers EXCEPT ![h] = r]
  BY <1>1 DEF Clicked, Starts
<1>3. handlers[h].at = "done"
  BY <1>1 DEF PayInv, HandlersSound, HandlerSound
<1>4. ~overlapped' => ~overlapped /\ \A g \in Handler : ~OnPage(handlers[g])
  BY <1>1 DEF OfPage, OnPage
<1>5. overlapped' \in BOOLEAN
  BY <1>1 DEF PayInv, PayTypes
<1>6. r.kind = kind /\ r.click = clicks + 1
  OBVIOUS
<1>7. Asking(r)
  BY <1>6 DEF Asking
<1>8. ConnectorSound'
  BY <1>1, <1>2, <1>7, ConnectorMoves
<1>9. PaymentsSound'
  BY <1>1, <1>2, <1>6, PaymentsMove
<1>10. r.click <= clicks'
  BY <1>1, <1>6
<1>11. QED
  BY <1>1, <1>2, <1>3, <1>4, <1>5, <1>8, <1>9, <1>10

\* A click on connect, refresh, fund or send.
LEMMA ClickKeeps ==
    ASSUME PayInv, NEW h \in Handler, NEW kind, NEW at,
           Clicked(h, kind, at),
           \/ kind = "connect" /\ at = "installed" /\ page.address = NoAccount
           \/ kind = "refresh" /\ at = "balance" /\ page.address # NoAccount
           \/ kind = "fund" /\ at = "friendbot" /\ page.address # NoAccount
           \/ kind = "send" /\ at = "account" /\ page.address # NoAccount,
           page' = IF kind = "refresh" THEN [page EXCEPT !.loading = TRUE]
                   ELSE [page EXCEPT !.feedback = Feedback("pending", clicks')]
    PROVE  PayInv'
<1>1. PICK r : r = [kind |-> kind, at |-> at, click |-> clicks + 1,
                    shown |-> page.address, pub |-> page.address, had |-> wallet.account,
                    version |-> IF page.address = NoAccount THEN 0 ELSE sequence[page.address],
                    signer |-> NoAccount]
  OBVIOUS
<1>2. /\ handlers' = [handlers EXCEPT ![h] = r]
      /\ handlers[h].kind = "none" /\ handlers[h].at = "done" /\ r.click <= clicks'
      /\ clicks' = clicks + 1
      /\ UNCHANGED <<wallet, connector, sequence, floating, payments, signatures>>
      /\ ~overlapped' => ~overlapped /\ \A g \in Handler : ~OnPage(handlers[g])
      /\ overlapped' \in BOOLEAN
      /\ ConnectorSound' /\ PaymentsSound'
  BY <1>1, ClickedIs
<1>3. clicks \in Nat /\ clicks' \in Nat /\ clicks <= clicks'
  BY <1>2 DEF PayInv, PayTypes
<1>4. page.address \in Accounts /\ (page.address # NoAccount => sequence[page.address] \in Nat)
  BY DEF PayInv, PayTypes, PageRecord, Accounts
<1>5. r \in HandlerRecord /\ HandlerSound(r) /\ OnPage(r)
  BY <1>1, <1>3, <1>4 DEF PayInv, PayTypes, HandlerRecord, HandlerSound, OnPage, Accounts
<1>6. PICK q : q = page'
  OBVIOUS
<1>7. q \in PageRecord /\ q.address = page.address /\ q.balance = page.balance
      /\ q.loading \in {page.loading, kind = "refresh"}
      /\ (kind = "refresh" => q.feedback = page.feedback)
      /\ (kind # "refresh" => q.loading = page.loading /\ q.feedback.kind = "pending")
  BY <1>3, <1>6 DEF PayInv, PayTypes, PageRecord, Feedback
<1>8. PayTypes' /\ HandlersSound'
  <2>1. handlers' \in [Handler -> HandlerRecord] /\ HandlersSound'
    BY <1>2, <1>3, <1>5, TypesMove
  <2>2. QED
    BY <1>2, <1>3, <1>6, <1>7, <2>1 DEF PayInv, PayTypes
<1>9. PageSound'
  <2>1. page'.loading => r.at = "balance" \/ (page.loading /\ handlers[h].at # "balance")
    BY <1>1, <1>2, <1>6, <1>7
  <2>2. ~PaymentPending(handlers[h])
    BY <1>2 DEF PaymentPending, Sending
  <2>3. kind # "refresh" => PaymentPending(r)
    BY <1>1 DEF PaymentPending, Sending
  <2>4. QED
    BY <1>2, <1>6, <1>7, <2>1, <2>2, <2>3, PageMoves
<1>10. AloneSound'
  <2>1. ~overlapped' =>
           /\ page.balance.of \in {page.address, NoAccount}
           /\ PaidFrom(page.address)
           /\ PaidFrom(page.balance.of) /\ PaidBefore(page.balance.version)
    BY <1>2 DEF PayInv, AloneSound
  <2>2. ~overlapped' => page'.balance.of \in {page'.address, NoAccount}
    BY <1>6, <1>7, <2>1
  <2>3. ~overlapped' => PaidFrom(page.address)'
    BY <1>2, <1>6, <1>7, <2>1 DEF PaidFrom
  <2>4. handlers'[h] = r
    BY <1>2 DEF PayInv, PayTypes
  <2>5. \A p \in payments : p.version < sequence[p.from] /\ p.version \in Nat
    BY DEF PayInv, PayTypes, PaymentsSound, PaymentRecord
  <2>6. ASSUME ~overlapped' PROVE AloneHandler(handlers[h])'
    <3>1. CASE kind = "refresh"
      <4>1. PaidBefore(handlers[h].version)'
        BY <1>1, <1>2, <1>6, <1>7, <2>1, <2>4, <2>5, <2>6, <3>1 DEF PaidBefore, PaidFrom
      <4>2. QED
        BY <1>1, <1>6, <1>7, <2>4, <3>1, <4>1 DEF AloneHandler
    <3>2. CASE kind # "refresh"
      BY <1>1, <1>6, <1>7, <2>1, <2>4, <2>6, <3>2 DEF AloneHandler
    <3>3. QED
      BY <3>1, <3>2
  <2>7. QED
    BY <1>2, <1>5, <2>2, <2>3, <2>6, AloneMoves
<1>11. PaidLanded'
  BY <1>2, <1>6, <1>7 DEF PayInv, PaidLanded
<1>12. QED
  BY <1>2, <1>8, <1>9, <1>10, <1>11 DEF PayInv

\* A click that only changes the page.
LEMMA NewPageKeeps ==
    ASSUME PayInv, Click, page' \in PageRecord,
           UNCHANGED <<wallet, connector, handlers, sequence, floating, payments, signatures>>,
           page'.loading = page.loading, page'.feedback.kind \in {"idle", "error"},
           page'.balance.of \in {NoAccount} \cup
              (IF page'.address = page.address THEN {page.balance.of} ELSE {})
    PROVE  PayInv'
<1>1. clicks' = clicks + 1 /\ clicks \in Nat
      /\ overlapped' = (overlapped \/ OfPage # {})
  BY DEF Click, Counts, PayInv, PayTypes
<1>2. PayTypes'
  BY <1>1 DEF PayInv, PayTypes
<1>3. HandlersSound'
  <2>1. \A h \in Handler : handlers[h].click \in Nat
    BY DEF PayInv, PayTypes, HandlerRecord
  <2>2. QED
    BY <1>1, <2>1 DEF PayInv, HandlersSound, HandlerSound
<1>4. ConnectorSound'
  BY DEF PayInv, ConnectorSound, Asking
<1>5. PaymentsSound'
  <2>1. \A p \in payments \cup floating : p.click \in Nat
    BY DEF PayInv, PayTypes, PaymentRecord
  <2>2. QED
    BY <1>1, <2>1 DEF PayInv, PaymentsSound, Sending
<1>6. PaidLanded' /\ PageSound'
  BY DEF PayInv, PaidLanded, PageSound
<1>7. AloneSound'
  <2> SUFFICES ASSUME ~overlapped' PROVE AloneSound'
    BY DEF AloneSound
  <2>1. ~overlapped /\ \A h \in Handler : ~OnPage(handlers[h])
    BY <1>1 DEF OfPage, OnPage
  <2>2. page.balance.of \in {page.address, NoAccount}
    BY <2>1 DEF PayInv, AloneSound
  <2>3. page'.balance.of \in {page'.address, NoAccount}
    BY <2>2
  <2>4. QED
    BY <2>1, <2>3 DEF AloneSound, OnPage, PaidFrom, PaidBefore
<1>8. QED
  BY <1>2, <1>3, <1>4, <1>5, <1>6, <1>7 DEF PayInv

\* All the buttons.
LEMMA ClicksKeep ==
    ASSUME PayInv,
           \/ \E h \in Handler : OnConnect(h) \/ RefreshBalance(h) \/ OnFund(h) \/ OnSend(h)
           \/ OnDisconnect
    PROVE  PayInv'
<1>1. ASSUME NEW h \in Handler, OnConnect(h) PROVE PayInv'
  BY <1>1, ClickKeeps DEF OnConnect, Says
<1>2. ASSUME NEW h \in Handler, RefreshBalance(h) PROVE PayInv'
  BY <1>2, ClickKeeps DEF RefreshBalance
<1>3. ASSUME NEW h \in Handler, OnFund(h) PROVE PayInv'
  BY <1>3, ClickKeeps DEF OnFund, Says
<1>4. ASSUME NEW h \in Handler, OnSend(h) PROVE PayInv'
  <2>1. CASE Clicked(h, "send", "account") /\ page' = Says("pending", clicks')
    BY <1>4, <2>1, ClickKeeps DEF OnSend, Says
  <2>2. CASE /\ Click
             /\ page' = Says("error", clicks')
             /\ UNCHANGED <<wallet, connector, handlers, sequence, floating, payments, signatures>>
    <3>1. clicks' \in Nat
      BY <2>2 DEF Click, Counts, PayInv, PayTypes
    <3>2. /\ page' \in PageRecord /\ page'.loading = page.loading
          /\ page'.feedback.kind = "error" /\ page'.balance = page.balance
          /\ page'.address = page.address
      BY <2>2, <3>1 DEF Says, Feedback, PayInv, PayTypes, PageRecord
    <3>3. QED
      BY <2>2, <3>2, NewPageKeeps
  <2>3. QED
    BY <1>4, <2>1, <2>2 DEF OnSend
<1>5. ASSUME OnDisconnect PROVE PayInv'
  <2>1. /\ page' \in PageRecord /\ page'.loading = page.loading
        /\ page'.feedback.kind = "idle" /\ page'.balance.of = NoAccount
    BY <1>5 DEF OnDisconnect, NewPage, NoBalance, Feedback, PayInv, PayTypes, PageRecord, Accounts
  <2>2. QED
    BY <1>5, <2>1, NewPageKeeps DEF OnDisconnect
<1>6. QED
  BY <1>1, <1>2, <1>3, <1>4, <1>5

\* A handler goes on with an answer that changes no balance.
LEMMA PageAnswerKeeps ==
    ASSUME PayInv, NEW h \in Handler, NEW r \in HandlerRecord, NEW q \in PageRecord,
           OnPage(handlers[h]), handlers[h].at # "balance",
           handlers' = [handlers EXCEPT ![h] = r], page' = q,
           HandlerSound(r), r.click <= clicks, r.kind \in {handlers[h].kind, "none"},
           r.kind \in {"refresh", "fund", "send"} => r.pub = handlers[h].pub,
           r.kind = "connect" /\ r.at \in {"network", "balance"} =>
              r.pub = q.address \/ (handlers[h].at = "network" /\ r.pub = handlers[h].pub
                                    /\ q.address = page.address),
           q.balance = page.balance,
           q.address # page.address => handlers[h].kind \in {"reconnect", "connect"},
           q.feedback = page.feedback \/ q.feedback.kind # "paid",
           q.loading => page.loading \/ r.at = "balance",
           q.feedback.kind = "pending" =>
              PaymentPending(r) \/ (page.feedback.kind = "pending" /\ ~PaymentPending(handlers[h])),
           UNCHANGED <<wallet, connector, clicks, payments, signatures, overlapped>>,
           sequence' \in [Account -> Nat], floating' \in SUBSET PaymentRecord, PaymentsSound'
    PROVE  PayInv'
<1>1. clicks \in Nat /\ clicks' \in Nat /\ clicks <= clicks' /\ r.click <= clicks'
  BY DEF PayInv, PayTypes
<1>2. PayTypes' /\ HandlersSound'
  <2>1. handlers' \in [Handler -> HandlerRecord] /\ HandlersSound'
    BY <1>1, TypesMove
  <2>2. QED
    BY <2>1 DEF PayInv, PayTypes
<1>3. ConnectorSound'
  <2>1. Asking(r)
    BY DEF Asking, OnPage
  <2>2. QED
    BY <2>1, ConnectorMoves
<1>4. PaidLanded'
  BY DEF PayInv, PaidLanded
<1>5. PageSound'
  BY PageMoves
<1>6. AloneSound'
  <2>1. ASSUME ~overlapped
        PROVE  /\ page.balance.of \in {page.address, NoAccount}
               /\ AloneHandler(handlers[h]) /\ page.feedback.kind # "paid"
    BY <2>1 DEF PayInv, AloneSound, AloneHandler
  <2>2. ~overlapped => q.balance.of \in {q.address, NoAccount}
    BY <2>1 DEF AloneHandler
  <2>3. ~overlapped => q.feedback.kind # "paid"
    BY <2>1
  <2>4. handlers'[h] = r
    BY DEF PayInv, PayTypes
  <2>5. ~overlapped => AloneHandler(handlers[h])'
    <3> SUFFICES ASSUME ~overlapped PROVE AloneHandler(handlers[h])'
      OBVIOUS
    <3>1. r.kind \in {"reconnect", "connect"} => q.balance.of = NoAccount
      BY <2>1 DEF AloneHandler
    <3>2. r.kind \in {"refresh", "fund", "send"} => r.pub = q.address
      BY <2>1 DEF AloneHandler
    <3>3. r.kind = "connect" /\ r.at \in {"network", "balance"} => r.pub = q.address
      BY <2>1 DEF AloneHandler
    <3>4. QED
      BY <2>3, <2>4, <3>1, <3>2, <3>3 DEF AloneHandler
  <2>6. ~overlapped => PaidFrom(page.address)'
    BY <2>3 DEF PaidFrom
  <2>7. ~overlapped => PaidFrom(page.balance.of)' /\ PaidBefore(page.balance.version)'
    BY <2>3 DEF PaidFrom, PaidBefore
  <2>8. ~overlapped => \A g \in Handler \ {h} : ~OnPage(handlers[g])
    BY AloneStays
  <2>9. QED
    BY <2>2, <2>5, <2>6, <2>7, <2>8, AloneMoves
<1>7. QED
  BY <1>2, <1>3, <1>4, <1>5, <1>6 DEF PayInv

\* A handler that is not there.
LEMMA NoHandlerIs ==
    /\ NoHandler \in HandlerRecord /\ HandlerSound(NoHandler) /\ ~OnPage(NoHandler)
    /\ NoHandler.kind = "none" /\ NoHandler.click = 0 /\ NoHandler.at = "done"
    /\ ~Sending(NoHandler) /\ ~PaymentPending(NoHandler) /\ Asking(NoHandler)
<1>1. NoHandler \in HandlerRecord /\ HandlerSound(NoHandler)
  BY DEF NoHandler, HandlerRecord, HandlerSound, Accounts
<1>2. QED
  BY <1>1 DEF NoHandler, OnPage, Sending, PaymentPending, Asking

\* What holds of a handler at any time.
LEMMA HeldIs ==
    ASSUME PayInv, NEW h \in Handler
    PROVE  /\ handlers[h] \in HandlerRecord /\ HandlerSound(handlers[h])
           /\ handlers[h].click <= clicks /\ handlers[h].click \in Nat /\ 0 <= clicks
           /\ clicks \in Nat
           /\ page \in PageRecord /\ wallet.account \in Account
  BY DEF PayInv, PayTypes, HandlersSound, HandlerRecord

\* A handler ends with an error that the page shows.
LEMMA FailureKeeps ==
    ASSUME PayInv, NEW h \in Handler, Ends(h), page' = Says("error", handlers[h].click),
           OnPage(handlers[h]), handlers[h].at # "balance",
           UNCHANGED <<wallet, connector, clicks, payments, signatures, overlapped>>,
           sequence' \in [Account -> Nat], floating' \in SUBSET PaymentRecord, PaymentsSound'
    PROVE  PayInv'
<1>1. PICK r : r = NoHandler
  OBVIOUS
<1>2. PICK q : q = Says("error", handlers[h].click)
  OBVIOUS
<1>3. q \in PageRecord /\ q.balance = page.balance /\ q.address = page.address
      /\ q.loading = page.loading /\ q.feedback.kind = "error"
  BY <1>2, HeldIs DEF Says, Feedback, PageRecord
<1>4. handlers' = [handlers EXCEPT ![h] = r] /\ r \in HandlerRecord /\ HandlerSound(r)
      /\ r.click <= clicks /\ r.kind = "none"
  BY <1>1, HeldIs, NoHandlerIs DEF Ends
<1>5. QED
  BY <1>2, <1>3, <1>4, PageAnswerKeeps

\* What stays when an answer changes nothing on the ledger.
LEMMA StaysIs ==
    ASSUME PayInv, Stays, NEW h \in Handler, NEW r, handlers' = [handlers EXCEPT ![h] = r],
           Sending(r) => Sending(handlers[h]) /\ r.click = handlers[h].click
    PROVE  /\ UNCHANGED <<wallet, connector, clicks, payments, signatures, overlapped>>
           /\ sequence' \in [Account -> Nat] /\ floating' \in SUBSET PaymentRecord
           /\ PaymentsSound'
<1>1. PaymentsSound'
  BY PaymentsMove DEF Stays
<1>2. QED
  BY <1>1 DEF Stays, PayInv, PayTypes

\* A failure that changes nothing on the ledger.
LEMMA StaysFailureKeeps ==
    ASSUME PayInv, NEW h \in Handler, Ends(h), page' = Says("error", handlers[h].click), Stays,
           OnPage(handlers[h]), handlers[h].at # "balance"
    PROVE  PayInv'
<1>1. PICK r : r = NoHandler
  OBVIOUS
<1>2. handlers' = [handlers EXCEPT ![h] = r] /\ ~Sending(r)
  BY <1>1, NoHandlerIs DEF Ends
<1>3. /\ UNCHANGED <<wallet, connector, clicks, payments, signatures, overlapped>>
      /\ sequence' \in [Account -> Nat] /\ floating' \in SUBSET PaymentRecord
      /\ PaymentsSound'
  BY <1>2, StaysIs
<1>4. QED
  BY <1>3, FailureKeeps

\* An answer that changes nothing on the ledger.
LEMMA StaysAnswerKeeps ==
    ASSUME PayInv, NEW h \in Handler, NEW r \in HandlerRecord, NEW q \in PageRecord,
           OnPage(handlers[h]), handlers[h].at # "balance", Stays,
           handlers' = [handlers EXCEPT ![h] = r], page' = q,
           HandlerSound(r), r.click = handlers[h].click, r.kind = handlers[h].kind,
           r.kind \in {"refresh", "fund", "send"} => r.pub = handlers[h].pub,
           r.kind = "connect" /\ r.at \in {"network", "balance"} =>
              r.pub = q.address \/ (handlers[h].at = "network" /\ r.pub = handlers[h].pub
                                    /\ q.address = page.address),
           q.balance = page.balance,
           q.address # page.address => handlers[h].kind \in {"reconnect", "connect"},
           q.feedback = page.feedback \/ q.feedback.kind # "paid",
           q.loading => page.loading \/ r.at = "balance",
           q.feedback.kind = "pending" =>
              PaymentPending(r) \/ (page.feedback.kind = "pending" /\ ~PaymentPending(handlers[h])),
           Sending(r) => Sending(handlers[h])
    PROVE  PayInv'
<1>1. /\ UNCHANGED <<wallet, connector, clicks, payments, signatures, overlapped>>
      /\ sequence' \in [Account -> Nat] /\ floating' \in SUBSET PaymentRecord
      /\ PaymentsSound'
  BY StaysIs
<1>2. r.click <= clicks
  BY HeldIs
<1>3. QED
  BY <1>1, <1>2, PageAnswerKeeps

\* The page, loaded anew, asks the wallet for the account it had.
LEMMA ReconnectKeeps ==
    ASSUME PayInv, NEW h \in Handler, ReconnectAnswered(h) \/ ReconnectNetworkAnswered(h)
    PROVE  PayInv'
<1>1. Stays /\ handlers[h].kind = "reconnect" /\ handlers[h].at \in {"address", "network"}
  BY DEF ReconnectAnswered, ReconnectNetworkAnswered, At
<1>2. OnPage(handlers[h]) /\ ~PaymentPending(handlers[h]) /\ ~Sending(handlers[h])
  BY <1>1 DEF OnPage, PaymentPending, Sending
<1>3. CASE Ends(h) /\ page' = page
  <2>1. PICK r : r = NoHandler
    OBVIOUS
  <2>2. handlers' = [handlers EXCEPT ![h] = r] /\ r \in HandlerRecord /\ HandlerSound(r)
        /\ r.click <= clicks /\ r.kind = "none" /\ ~Sending(r)
    BY <1>3, <2>1, HeldIs, NoHandlerIs DEF Ends
  <2>3. /\ UNCHANGED <<wallet, connector, clicks, payments, signatures, overlapped>>
        /\ sequence' \in [Account -> Nat] /\ floating' \in SUBSET PaymentRecord
        /\ PaymentsSound'
    BY <1>1, <2>2, StaysIs
  <2>4. PICK q : q = page
    OBVIOUS
  <2>5. q \in PageRecord
    BY <2>4, HeldIs
  <2>6. QED
    BY <1>1, <1>2, <1>3, <2>2, <2>3, <2>4, <2>5, PageAnswerKeeps
<1>4. ASSUME NEW a \in {handlers[h].had, wallet.account}, page' = [page EXCEPT !.address = a],
             handlers' = [handlers EXCEPT ![h].at = "network"]
      PROVE  PayInv'
  <2>1. a \in Account
    BY <1>1, <1>4, HeldIs DEF HandlerSound
  <2>2. PICK r : r = [handlers[h] EXCEPT !.at = "network"]
    OBVIOUS
  <2>3. r \in HandlerRecord /\ r.kind = "reconnect" /\ r.at = "network"
        /\ r.click = handlers[h].click /\ r.had = handlers[h].had
    BY <1>1, <2>2, HeldIs DEF HandlerRecord
  <2>4. HandlerSound(r) /\ ~Sending(r)
    BY <1>1, <2>3, HeldIs DEF HandlerSound, Sending
  <2>5. handlers' = [handlers EXCEPT ![h] = r]
    BY <1>4, <2>2 DEF PayInv, PayTypes
  <2>6. PICK q : q = [page EXCEPT !.address = a]
    OBVIOUS
  <2>7. q \in PageRecord /\ q.balance = page.balance /\ q.feedback = page.feedback
        /\ q.loading = page.loading
    BY <2>1, <2>6, HeldIs DEF PageRecord, Accounts
  <2>8. QED
    BY <1>1, <1>2, <1>4, <2>3, <2>4, <2>5, <2>6, <2>7, StaysAnswerKeeps
<1>5. QED
  BY <1>3, <1>4 DEF ReconnectAnswered, ReconnectNetworkAnswered

\* Connecting: installed, access granted, network read.
LEMMA ConnectKeeps ==
    ASSUME PayInv, NEW h \in Handler,
           InstalledAnswered(h) \/ AccessAnswered(h) \/ NetworkAnswered(h)
    PROVE  PayInv'
<1>1. Stays /\ handlers[h].kind = "connect" /\ handlers[h].at \in {"installed", "access", "network"}
  BY DEF InstalledAnswered, AccessAnswered, NetworkAnswered, At
<1>2. OnPage(handlers[h]) /\ PaymentPending(handlers[h]) /\ ~Sending(handlers[h])
  BY <1>1 DEF OnPage, PaymentPending, Sending
<1>3. CASE Ends(h) /\ page' = Says("error", handlers[h].click)
  BY <1>1, <1>2, <1>3, StaysFailureKeeps
<1>4. CASE /\ handlers' = [handlers EXCEPT ![h].at = "access", ![h].had = wallet.account]
           /\ page' = page
  <2>1. PICK r : r = [handlers[h] EXCEPT !.at = "access", !.had = wallet.account]
    OBVIOUS
  <2>2. r \in HandlerRecord /\ r.kind = "connect" /\ r.at = "access"
        /\ r.click = handlers[h].click /\ r.had = wallet.account
    BY <1>1, <2>1, HeldIs DEF HandlerRecord, Accounts
  <2>3. HandlerSound(r) /\ ~Sending(r) /\ PaymentPending(r)
    BY <2>2, HeldIs DEF HandlerSound, Sending, PaymentPending
  <2>4. handlers' = [handlers EXCEPT ![h] = r]
    BY <1>4, <2>1 DEF PayInv, PayTypes
  <2>5. PICK q : q = page
    OBVIOUS
  <2>6. q \in PageRecord
    BY <2>5, HeldIs
  <2>7. QED
    BY <1>1, <1>2, <1>4, <2>2, <2>3, <2>4, <2>5, <2>6, StaysAnswerKeeps
<1>5. ASSUME NEW a \in {handlers[h].had, wallet.account}, page' = [page EXCEPT !.address = a],
             handlers' = [handlers EXCEPT ![h].at = "network", ![h].pub = a]
      PROVE  PayInv'
  <2>1. a \in Account
    BY <1>1, <1>5, HeldIs DEF HandlerSound
  <2>2. PICK r : r = [handlers[h] EXCEPT !.at = "network", !.pub = a]
    OBVIOUS
  <2>3. r \in HandlerRecord /\ r.kind = "connect" /\ r.at = "network" /\ r.pub = a
        /\ r.click = handlers[h].click /\ r.had = handlers[h].had
    BY <1>1, <2>1, <2>2, HeldIs DEF HandlerRecord, Accounts
  <2>4. HandlerSound(r) /\ ~Sending(r) /\ PaymentPending(r)
    BY <1>1, <2>1, <2>3, HeldIs DEF HandlerSound, Sending, PaymentPending
  <2>5. handlers' = [handlers EXCEPT ![h] = r]
    BY <1>5, <2>2 DEF PayInv, PayTypes
  <2>6. PICK q : q = [page EXCEPT !.address = a]
    OBVIOUS
  <2>7. q \in PageRecord /\ q.balance = page.balance /\ q.feedback = page.feedback
        /\ q.loading = page.loading /\ q.address = a
    BY <2>1, <2>6, HeldIs DEF PageRecord, Accounts
  <2>8. QED
    BY <1>1, <1>2, <1>5, <2>3, <2>4, <2>5, <2>6, <2>7, StaysAnswerKeeps
<1>6. CASE NetworkAnswered(h)
  <2>1. handlers[h].at = "network" /\ handlers[h].pub \in Account
    BY <1>1, <1>6, HeldIs DEF NetworkAnswered, At, HandlerSound
  <2>2. PICK v : v = sequence[handlers[h].pub]
    OBVIOUS
  <2>3. v \in Nat
    BY <2>1, <2>2 DEF PayInv, PayTypes
  <2>4. PICK r : r = [handlers[h] EXCEPT !.at = "balance", !.pub = handlers[h].pub, !.version = v]
    OBVIOUS
  <2>5. r \in HandlerRecord /\ r.kind = "connect" /\ r.at = "balance" /\ r.pub = handlers[h].pub
        /\ r.click = handlers[h].click /\ r.had = handlers[h].had
    BY <1>1, <2>1, <2>3, <2>4, HeldIs DEF HandlerRecord, Accounts
  <2>6. HandlerSound(r) /\ ~Sending(r)
    BY <1>1, <2>1, <2>5, HeldIs DEF HandlerSound, Sending
  <2>7. handlers' = [handlers EXCEPT ![h] = r]
    BY <1>6, <2>2, <2>4 DEF NetworkAnswered, ReadsBalance, PayInv, PayTypes
  <2>8. PICK q : q = [Says("idle", 0) EXCEPT !.loading = TRUE]
    OBVIOUS
  <2>9. q \in PageRecord /\ q.balance = page.balance /\ q.feedback.kind = "idle"
        /\ q.address = page.address
    BY <2>8, HeldIs DEF PageRecord, Says, Feedback
  <2>10. page' = q
    BY <1>6, <2>8 DEF NetworkAnswered
  <2>11. QED
    BY <1>1, <1>2, <2>1, <2>5, <2>6, <2>7, <2>9, <2>10, StaysAnswerKeeps
<1>7. QED
  BY <1>3, <1>4, <1>5, <1>6 DEF InstalledAnswered, AccessAnswered

\* The test network funds an account, or fails to.
LEMMA FriendbotKeeps ==
    ASSUME PayInv, NEW h \in Handler, FriendbotAnswered(h) \/ FriendbotFails(h)
    PROVE  PayInv'
<1>1. Stays /\ handlers[h].kind = "fund" /\ handlers[h].at = "friendbot"
  BY DEF FriendbotAnswered, FriendbotFails, At
<1>2. OnPage(handlers[h]) /\ PaymentPending(handlers[h]) /\ ~Sending(handlers[h])
  BY <1>1 DEF OnPage, PaymentPending, Sending
<1>3. CASE FriendbotFails(h)
  BY <1>1, <1>2, <1>3, StaysFailureKeeps DEF FriendbotFails
<1>4. CASE FriendbotAnswered(h)
  <2>1. handlers[h].pub \in Account
    BY <1>1, HeldIs DEF HandlerSound
  <2>2. PICK v : v = sequence[handlers[h].pub]
    OBVIOUS
  <2>3. v \in Nat
    BY <2>1, <2>2 DEF PayInv, PayTypes
  <2>4. PICK r : r = [handlers[h] EXCEPT !.at = "balance", !.pub = handlers[h].pub, !.version = v]
    OBVIOUS
  <2>5. r \in HandlerRecord /\ r.kind = "fund" /\ r.at = "balance" /\ r.pub = handlers[h].pub
        /\ r.click = handlers[h].click /\ r.had = handlers[h].had
    BY <1>1, <2>1, <2>3, <2>4, HeldIs DEF HandlerRecord, Accounts
  <2>6. HandlerSound(r) /\ ~Sending(r) /\ PaymentPending(r)
    BY <1>1, <2>1, <2>5, HeldIs DEF HandlerSound, Sending, PaymentPending
  <2>7. handlers' = [handlers EXCEPT ![h] = r]
    BY <1>4, <2>2, <2>4 DEF FriendbotAnswered, ReadsBalance, PayInv, PayTypes
  <2>8. PICK q : q = [page EXCEPT !.loading = TRUE]
    OBVIOUS
  <2>9. q \in PageRecord /\ q.balance = page.balance /\ q.feedback = page.feedback
        /\ q.address = page.address
    BY <2>8, HeldIs DEF PageRecord
  <2>10. page' = q
    BY <1>4, <2>8 DEF FriendbotAnswered
  <2>11. QED
    BY <1>1, <1>2, <2>5, <2>6, <2>7, <2>9, <2>10, StaysAnswerKeeps
<1>5. QED
  BY <1>3, <1>4

\* Sending: account loaded, transaction signed, or a failure.
LEMMA SendingKeeps ==
    ASSUME PayInv, NEW h \in Handler, AccountLoaded(h) \/ Signed(h) \/ SendFails(h)
    PROVE  PayInv'
<1>1. Stays /\ handlers[h].kind = "send" /\ handlers[h].at \in {"account", "sign", "submit"}
  BY DEF AccountLoaded, Signed, SendFails, At
<1>2. OnPage(handlers[h]) /\ Sending(handlers[h])
  BY <1>1 DEF OnPage, Sending
<1>3. CASE SendFails(h)
  BY <1>1, <1>2, <1>3, StaysFailureKeeps DEF SendFails
<1>4. CASE AccountLoaded(h)
  <2>1. handlers[h].pub \in Account /\ sequence[handlers[h].pub] \in Nat
        /\ handlers[h].version \in Nat
    BY <1>1, HeldIs DEF HandlerSound, HandlerRecord, PayInv, PayTypes
  <2>2. PICK v \in handlers[h].version .. sequence[handlers[h].pub] :
           handlers' = [handlers EXCEPT ![h].at = "sign", ![h].version = v,
                                        ![h].had = wallet.account, ![h].pub = handlers[h].pub]
    BY <1>4 DEF AccountLoaded, Source
  <2>3. v \in Nat
    BY <2>1, <2>2
  <2>4. PICK r : r = [handlers[h] EXCEPT !.at = "sign", !.version = v, !.had = wallet.account,
                                         !.pub = handlers[h].pub]
    OBVIOUS
  <2>5. r \in HandlerRecord /\ r.kind = "send" /\ r.at = "sign" /\ r.pub = handlers[h].pub
        /\ r.click = handlers[h].click /\ r.had = wallet.account /\ r.shown = handlers[h].shown
    BY <1>1, <2>1, <2>3, <2>4, HeldIs DEF HandlerRecord, Accounts
  <2>6. HandlerSound(r) /\ PaymentPending(r)
    BY <1>1, <2>1, <2>5, HeldIs DEF HandlerSound, Sending, PaymentPending
  <2>7. handlers' = [handlers EXCEPT ![h] = r]
    BY <2>2, <2>4 DEF PayInv, PayTypes
  <2>8. PICK q : q = page
    OBVIOUS
  <2>9. q \in PageRecord /\ page' = q
    BY <1>4, <2>8, HeldIs DEF AccountLoaded
  <2>10. QED
    BY <1>1, <1>2, <2>5, <2>6, <2>7, <2>8, <2>9, StaysAnswerKeeps
<1>5. CASE Signed(h)
  <2>1. PICK a \in {handlers[h].had, wallet.account} :
           handlers' = [handlers EXCEPT ![h].at = "submit", ![h].signer = a]
    BY <1>5 DEF Signed
  <2>2. a \in Account /\ handlers[h].at = "sign"
    BY <1>1, <1>5, <2>1, HeldIs DEF HandlerSound, Signed, At
  <2>3. PICK r : r = [handlers[h] EXCEPT !.at = "submit", !.signer = a]
    OBVIOUS
  <2>4. r \in HandlerRecord /\ r.kind = "send" /\ r.at = "submit" /\ r.pub = handlers[h].pub
        /\ r.click = handlers[h].click /\ r.had = handlers[h].had /\ r.shown = handlers[h].shown
    BY <1>1, <2>2, <2>3, HeldIs DEF HandlerRecord, Accounts
  <2>5. HandlerSound(r) /\ Sending(r)
    BY <1>1, <2>2, <2>4, HeldIs DEF HandlerSound, Sending
  <2>6. PaymentPending(r)
    BY <2>5 DEF PaymentPending
  <2>7. handlers' = [handlers EXCEPT ![h] = r]
    BY <2>1, <2>3 DEF PayInv, PayTypes
  <2>8. PICK q : q = Says("pending", handlers[h].click)
    OBVIOUS
  <2>9. q \in PageRecord /\ q.balance = page.balance /\ q.feedback.kind = "pending"
        /\ q.address = page.address /\ q.loading = page.loading
    BY <2>8, HeldIs DEF PageRecord, Says, Feedback
  <2>10. page' = q
    BY <1>5, <2>8 DEF Signed
  <2>11. QED
    BY <1>1, <1>2, <2>4, <2>5, <2>6, <2>7, <2>9, <2>10, StaysAnswerKeeps
<1>6. QED
  BY <1>3, <1>4, <1>5

\* A balance is answered, and shown for the account it was asked for.
LEMMA BalanceAnsweredKeeps ==
    ASSUME PayInv, NEW h \in Handler, BalanceAnswered(h)
    PROVE  PayInv'
<1>1. Stays /\ handlers[h].at = "balance" /\ Ends(h)
  BY DEF BalanceAnswered
<1>2. handlers[h].kind \in {"connect", "refresh", "fund", "send"} /\ handlers[h].pub \in Account
      /\ ~Sending(handlers[h]) /\ OnPage(handlers[h])
      /\ (PaymentPending(handlers[h]) => handlers[h].kind = "fund")
  BY <1>1, HeldIs DEF HandlerSound, HandlerRecord, Sending, OnPage, PaymentPending
<1>3. PICK r : r = NoHandler
  OBVIOUS
<1>4. handlers' = [handlers EXCEPT ![h] = r] /\ r \in HandlerRecord /\ HandlerSound(r)
      /\ r.click <= clicks /\ ~Sending(r) /\ ~OnPage(r) /\ Asking(r)
  BY <1>1, <1>3, HeldIs, NoHandlerIs DEF Ends
<1>5. PICK q : q = page'
  OBVIOUS
<1>6. \/ /\ q.feedback = page.feedback /\ handlers[h].kind # "fund"
         /\ q.balance.of = handlers[h].pub /\ q.balance.version >= handlers[h].version
         /\ q \in PageRecord /\ q.address = page.address /\ ~q.loading
      \/ /\ q.feedback.kind \in {"error", "funded"}
         /\ q.balance.of \in {handlers[h].pub, NoAccount}
         /\ q \in PageRecord /\ q.address = page.address /\ ~q.loading
  <2>1. handlers[h].version \in Nat /\ sequence[handlers[h].pub] \in Nat
    BY <1>2, HeldIs DEF HandlerRecord, PayInv, PayTypes
  <2>2. ASSUME NEW v \in handlers[h].version .. sequence[handlers[h].pub],
               page' = AfterBalance(h, [page EXCEPT
                        !.loading = FALSE, !.balance = [of |-> handlers[h].pub, version |-> v]])
        PROVE  \/ /\ q.feedback = page.feedback /\ handlers[h].kind # "fund"
                  /\ q.balance.of = handlers[h].pub /\ q.balance.version >= handlers[h].version
                  /\ q \in PageRecord /\ q.address = page.address /\ ~q.loading
               \/ /\ q.feedback.kind = "funded"
                  /\ q.balance.of = handlers[h].pub
                  /\ q \in PageRecord /\ q.address = page.address /\ ~q.loading
    <3>1. PICK b : b = [page EXCEPT !.loading = FALSE,
                                    !.balance = [of |-> handlers[h].pub, version |-> v]]
      OBVIOUS
    <3>2. v \in Nat /\ v >= handlers[h].version
      BY <2>1, <2>2
    <3>3. b \in PageRecord /\ b.address = page.address /\ ~b.loading /\ b.feedback = page.feedback
          /\ b.balance.of = handlers[h].pub /\ b.balance.version = v
      BY <1>2, <3>1, <3>2, HeldIs DEF PageRecord, Accounts
    <3>4. q = AfterBalance(h, b)
      BY <1>5, <2>2, <3>1
    <3>5. CASE handlers[h].kind = "fund"
      <4>1. q = [b EXCEPT !.feedback = Feedback("funded", handlers[h].click)]
        BY <3>4, <3>5 DEF AfterBalance
      <4>2. QED
        BY <3>3, <4>1, HeldIs DEF Feedback, PageRecord
    <3>6. CASE handlers[h].kind # "fund"
      BY <3>2, <3>3, <3>4, <3>6 DEF AfterBalance
    <3>7. QED
      BY <3>5, <3>6
  <2>3. ASSUME page' = AfterBalance(h, [Says("error", handlers[h].click) EXCEPT
                                      !.loading = FALSE, !.balance = NoBalance])
        PROVE  /\ q.feedback.kind \in {"error", "funded"}
               /\ q.balance.of = NoAccount
               /\ q \in PageRecord /\ q.address = page.address /\ ~q.loading
    BY <1>2, <1>5, <2>3, HeldIs DEF AfterBalance, Feedback, PageRecord, Accounts, Says, NoBalance
  <2>4. QED
    BY <2>2, <2>3 DEF BalanceAnswered
<1>7. /\ UNCHANGED <<wallet, connector, clicks, payments, signatures, overlapped>>
      /\ sequence' \in [Account -> Nat] /\ floating' \in SUBSET PaymentRecord
      /\ PaymentsSound'
  BY <1>1, <1>4, StaysIs
<1>8. q \in PageRecord /\ q.address = page.address /\ ~q.loading
  BY <1>6
<1>9. PayTypes' /\ HandlersSound'
  <2>1. clicks' \in Nat /\ clicks <= clicks' /\ r.click <= clicks'
    BY <1>4, <1>7, HeldIs
  <2>2. handlers' \in [Handler -> HandlerRecord] /\ HandlersSound'
    BY <1>4, <2>1, TypesMove
  <2>3. QED
    BY <1>5, <1>7, <1>8, <2>2 DEF PayInv, PayTypes
<1>10. ConnectorSound'
  BY <1>4, <1>7, ConnectorMoves
<1>11. PaidLanded'
  BY <1>5, <1>6, <1>7 DEF PayInv, PaidLanded
<1>12. PageSound'
  <2>1. q.feedback.kind = "pending" => page.feedback.kind = "pending" /\ ~PaymentPending(handlers[h])
    BY <1>2, <1>6
  <2>2. QED
    BY <1>4, <1>5, <1>8, <2>1, PageMoves
<1>13. AloneSound'
  <2>1. ~overlapped => /\ PaidFrom(page.address) /\ AloneHandler(handlers[h])
                       /\ \A g \in Handler \ {h} : ~OnPage(handlers[g])
    BY <1>2, AloneStays DEF PayInv, AloneSound
  <2>2. ~overlapped => q.balance.of \in {q.address, NoAccount}
                       /\ handlers[h].pub = page.address
    BY <1>1, <1>2, <1>6, <2>1 DEF AloneHandler
  <2>3. ~overlapped => PaidFrom(page.address)'
    BY <1>5, <1>6, <1>7, <2>1 DEF PaidFrom
  <2>4. \A p \in payments : p.version \in Nat
    BY DEF PayInv, PayTypes, PaymentRecord
  <2>5. handlers[h].version \in Nat /\ q.balance.version \in Nat
    BY <1>8, HeldIs DEF HandlerRecord, PageRecord
  <2>6. ~overlapped => PaidFrom(page.balance.of)' /\ PaidBefore(page.balance.version)'
    <3> SUFFICES ASSUME ~overlapped, q.feedback.kind = "paid",
                        NEW p \in payments, p.click = q.feedback.of
                 PROVE  p.from = q.balance.of /\ q.balance.version > p.version
      BY <1>5, <1>7 DEF PaidFrom, PaidBefore
    <3>1. /\ q.feedback = page.feedback /\ q.balance.of = handlers[h].pub
          /\ q.balance.version >= handlers[h].version
      BY <1>6
    <3>2. p.from = page.address /\ handlers[h].version > p.version
      BY <2>1, <3>1 DEF PaidFrom, AloneHandler, PaidBefore
    <3>3. QED
      BY <2>2, <2>4, <2>5, <3>1, <3>2
  <2>7. ~OnPage(r) /\ overlapped' = overlapped
    BY <1>4, <1>7
  <2>8. ~overlapped' => page'.balance.of \in {page'.address, NoAccount}
    BY <1>5, <2>2, <2>7
  <2>9. QED
    BY <1>4, <2>1, <2>3, <2>6, <2>7, <2>8, AloneMoves
<1>14. QED
  BY <1>7, <1>9, <1>10, <1>11, <1>12, <1>13 DEF PayInv

\* The payment a handler sends: from the account its click was made for.
LEMMA PaymentIs ==
    ASSUME PayInv, NEW h \in Handler, Sending(handlers[h])
    PROVE  LET p == Payment(h)
           IN  /\ p \in PaymentRecord /\ p.from \in Account /\ p.from = p.shown
               /\ p.from = handlers[h].pub /\ p.click = handlers[h].click /\ p.click <= clicks
               /\ p.version = handlers[h].version /\ p.signer = handlers[h].signer
               /\ \A o \in payments \cup floating : o.click # p.click
  BY HeldIs DEF Payment, PaymentRecord, HandlerRecord, HandlerSound, Sending, PayInv, PaymentsSound

\* The network refuses a payment.
LEMMA RefusedKeeps ==
    ASSUME PayInv, NEW h \in Handler, PaymentRefused(h)
    PROVE  PayInv'
<1>1. /\ handlers[h].kind = "send" /\ handlers[h].at = "submit" /\ Ends(h)
      /\ page' = Says("error", handlers[h].click)
      /\ sequence' = [sequence EXCEPT ![handlers[h].pub] = @ + 1]
      /\ UNCHANGED <<wallet, connector, clicks, floating, payments, signatures, overlapped>>
  BY DEF PaymentRefused, At
<1>2. OnPage(handlers[h]) /\ handlers[h].at # "balance"
  BY <1>1 DEF OnPage
<1>3. sequence' \in [Account -> Nat] /\ \A a \in Account : sequence[a] <= sequence'[a]
  <2>1. sequence \in [Account -> Nat] /\ \A a \in Account : sequence[a] \in Nat
    BY DEF PayInv, PayTypes
  <2>2. handlers[h].pub \in Account
    BY <1>1, HeldIs DEF HandlerSound
  <2>3. QED
    BY <1>1, <2>1, <2>2
<1>4. floating' \in SUBSET PaymentRecord
  BY <1>1 DEF PayInv, PayTypes
<1>5. PaymentsSound'
  <2>1. \A p \in payments : p.version \in Nat /\ p.version < sequence[p.from] /\ p.from \in Account
    BY DEF PayInv, PayTypes, PaymentsSound, PaymentRecord
  <2>2. \A a \in Account : sequence[a] \in Nat /\ sequence'[a] \in Nat
    BY <1>3 DEF PayInv, PayTypes
  <2>3. \A p \in payments : p.version < sequence'[p.from]
    BY <1>3, <2>1, <2>2
  <2>4. \A g \in Handler : Sending(handlers'[g]) => g # h /\ handlers'[g] = handlers[g]
    BY <1>1, NoHandlerIs DEF Ends, PayInv, PayTypes
  <2>5. \A g \in Handler : Sending(handlers'[g]) => handlers'[g] = handlers[g] /\ Sending(handlers[g])
    BY <2>4
  <2>6. QED
    BY <1>1, <2>3, <2>5 DEF PayInv, PaymentsSound, Sending
<1>6. QED
  BY <1>1, <1>2, <1>3, <1>4, <1>5, FailureKeeps

\* The answer to a payment is lost, and the payment floats.
LEMMA LostKeeps ==
    ASSUME PayInv, NEW h \in Handler, AnswerLost(h)
    PROVE  PayInv'
<1>1. PICK p : p = Payment(h)
  OBVIOUS
<1>2. /\ handlers[h].kind = "send" /\ handlers[h].at = "submit" /\ Ends(h)
      /\ page' = Says("error", handlers[h].click)
      /\ floating' = floating \cup {p}
      /\ UNCHANGED <<wallet, connector, clicks, sequence, payments, signatures, overlapped>>
  BY <1>1 DEF AnswerLost, At
<1>3. OnPage(handlers[h]) /\ handlers[h].at # "balance" /\ Sending(handlers[h])
  BY <1>2 DEF OnPage, Sending
<1>4. /\ p \in PaymentRecord /\ p.from \in Account /\ p.from = p.shown
      /\ p.click = handlers[h].click /\ p.click <= clicks
      /\ \A o \in payments \cup floating : o.click # p.click
  BY <1>1, <1>3, PaymentIs
<1>5. sequence' \in [Account -> Nat] /\ floating' \in SUBSET PaymentRecord
  BY <1>2, <1>4 DEF PayInv, PayTypes
<1>6. PaymentsSound'
  <2>1. \A g \in Handler : Sending(handlers'[g]) =>
           g # h /\ handlers'[g] = handlers[g] /\ Sending(handlers[g])
    BY <1>2, NoHandlerIs DEF Ends, PayInv, PayTypes
  <2>2. \A g \in Handler : Sending(handlers'[g]) => handlers'[g].click # p.click
    BY <1>3, <1>4, <2>1 DEF PayInv, PaymentsSound
  <2>3. \A o \in payments' \cup floating' :
           o.click <= clicks' /\ o.from = o.shown /\ o.from \in Account
    BY <1>2, <1>4 DEF PayInv, PaymentsSound
  <2>4. \A o, q \in payments' \cup floating' : o.click = q.click => o = q
    BY <1>2, <1>4 DEF PayInv, PaymentsSound
  <2>5. \A o \in floating' : o \notin payments'
    BY <1>2, <1>4 DEF PayInv, PaymentsSound
  <2>6. \A g \in Handler : Sending(handlers'[g]) =>
           \A o \in payments' \cup floating' : o.click # handlers'[g].click
    BY <1>2, <2>1, <2>2 DEF PayInv, PaymentsSound
  <2>7. QED
    BY <1>2, <2>1, <2>3, <2>4, <2>5, <2>6 DEF PayInv, PaymentsSound, Sending
<1>7. QED
  BY <1>2, <1>3, <1>5, <1>6, FailureKeeps

\* A payment lands: its sequence number is used up.
LEMMA LandsIs ==
    ASSUME PayInv, NEW p \in PaymentRecord, p.from \in Account, Lands(p)
    PROVE  /\ sequence' \in [Account -> Nat]
           /\ payments' = payments \cup {p} /\ payments' \in SUBSET PaymentRecord
           /\ sequence'[p.from] = p.version + 1 /\ p.signer = p.from
           /\ \A a \in Account : sequence[a] <= sequence'[a]
           /\ \A o \in payments' : o.version < sequence'[o.from]
<1>1. /\ p.version = sequence[p.from] /\ p.signer = p.from /\ payments' = payments \cup {p}
      /\ sequence' = [sequence EXCEPT ![p.from] = @ + 1]
  BY DEF Lands, Accepted
<1>2. sequence \in [Account -> Nat] /\ \A a \in Account : sequence[a] \in Nat
  BY DEF PayInv, PayTypes
<1>3. sequence' \in [Account -> Nat] /\ (\A a \in Account : sequence[a] <= sequence'[a])
      /\ sequence'[p.from] = p.version + 1
  BY <1>1, <1>2
<1>4. payments' \in SUBSET PaymentRecord
  BY <1>1 DEF PayInv, PayTypes
<1>5. ASSUME NEW o \in payments PROVE o.version < sequence'[o.from]
  <2>1. o.version \in Nat /\ o.from \in Account /\ o.version < sequence[o.from]
    BY DEF PayInv, PayTypes, PaymentsSound, PaymentRecord
  <2>2. sequence'[o.from] \in Nat
    BY <1>3, <2>1
  <2>3. QED
    BY <1>2, <1>3, <2>1, <2>2
<1>6. p.version < sequence'[p.from]
  BY <1>3 DEF PaymentRecord
<1>7. QED
  BY <1>1, <1>3, <1>4, <1>5, <1>6

\* A payment lands and is answered.
LEMMA PaymentAnsweredKeeps ==
    ASSUME PayInv, NEW h \in Handler, PaymentAnswered(h)
    PROVE  PayInv'
<1>1. PICK p : p = Payment(h)
  OBVIOUS
<1>2. handlers[h].kind = "send" /\ handlers[h].at = "submit" /\ Lands(p)
      /\ UNCHANGED <<wallet, connector, clicks, floating, signatures, overlapped>>
  BY <1>1 DEF PaymentAnswered, At
<1>3. OnPage(handlers[h]) /\ Sending(handlers[h])
  BY <1>2 DEF OnPage, Sending
<1>4. /\ p \in PaymentRecord /\ p.from \in Account /\ p.from = p.shown
      /\ p.from = handlers[h].pub /\ p.click = handlers[h].click /\ p.click <= clicks
      /\ \A o \in payments \cup floating : o.click # p.click
  BY <1>1, <1>3, PaymentIs
<1>5. /\ sequence' \in [Account -> Nat]
      /\ payments' = payments \cup {p} /\ payments' \in SUBSET PaymentRecord
      /\ sequence'[p.from] = p.version + 1
      /\ \A o \in payments' : o.version < sequence'[o.from]
  BY <1>2, <1>4, LandsIs
<1>6. PICK v : v = sequence'[handlers[h].pub]
  OBVIOUS
<1>7. v = p.version + 1 /\ p.version \in Nat /\ v \in Nat
  BY <1>4, <1>5, <1>6 DEF PaymentRecord
<1>8. PICK r : r = [handlers[h] EXCEPT !.at = "balance", !.pub = handlers[h].pub, !.version = v]
  OBVIOUS
<1>9. r \in HandlerRecord /\ r.kind = "send" /\ r.at = "balance" /\ r.pub = handlers[h].pub
      /\ r.click = handlers[h].click /\ r.had = handlers[h].had /\ r.version = v
      /\ r.shown = handlers[h].shown
  BY <1>2, <1>4, <1>7, <1>8, HeldIs DEF HandlerRecord
<1>10. HandlerSound(r) /\ ~Sending(r) /\ OnPage(r) /\ Asking(r)
  BY <1>2, <1>4, <1>9, HeldIs DEF HandlerSound, Sending, OnPage, Asking
<1>11. handlers' = [handlers EXCEPT ![h] = r]
  BY <1>2, <1>6, <1>8 DEF PaymentAnswered, ReadsBalance, PayInv, PayTypes
<1>12. PICK q : q = [Says("paid", handlers[h].click) EXCEPT !.loading = TRUE]
  OBVIOUS
<1>13. q \in PageRecord /\ q.balance = page.balance /\ q.address = page.address
       /\ q.feedback = [kind |-> "paid", of |-> p.click]
  BY <1>4, <1>12, HeldIs DEF PageRecord, Says, Feedback
<1>14. page' = q
  BY <1>12 DEF PaymentAnswered
<1>15. PayTypes' /\ HandlersSound'
  <2>1. clicks' \in Nat /\ clicks <= clicks' /\ r.click <= clicks'
    BY <1>2, <1>9, HeldIs
  <2>2. handlers' \in [Handler -> HandlerRecord] /\ HandlersSound'
    BY <1>9, <1>10, <1>11, <2>1, TypesMove
  <2>3. QED
    BY <1>2, <1>5, <1>13, <1>14, <2>2 DEF PayInv, PayTypes
<1>16. ConnectorSound'
  BY <1>2, <1>10, <1>11, ConnectorMoves
<1>17. PaymentsSound'
  <2>1. \A g \in Handler : Sending(handlers'[g]) =>
           g # h /\ handlers'[g] = handlers[g] /\ Sending(handlers[g])
    BY <1>10, <1>11 DEF PayInv, PayTypes
  <2>2. \A g \in Handler : Sending(handlers'[g]) => handlers'[g].click # p.click
    BY <1>3, <1>4, <2>1 DEF PayInv, PaymentsSound
  <2>3. \A o \in payments' \cup floating' :
           o.click <= clicks' /\ o.from = o.shown /\ o.from \in Account
    BY <1>2, <1>4, <1>5 DEF PayInv, PaymentsSound
  <2>4. \A o, u \in payments' \cup floating' : o.click = u.click => o = u
    BY <1>2, <1>4, <1>5 DEF PayInv, PaymentsSound
  <2>5. \A o \in floating' : o \notin payments'
    BY <1>2, <1>4, <1>5 DEF PayInv, PaymentsSound
  <2>6. \A g \in Handler : Sending(handlers'[g]) =>
           \A o \in payments' \cup floating' : o.click # handlers'[g].click
    BY <1>2, <1>5, <2>1, <2>2 DEF PayInv, PaymentsSound
  <2>7. QED
    BY <1>5, <2>1, <2>3, <2>4, <2>5, <2>6 DEF PayInv, PaymentsSound, Sending
<1>18. PaidLanded'
  BY <1>5, <1>13, <1>14 DEF PaidLanded
<1>19. PageSound'
  <2>1. r.at = "balance" /\ page'.feedback.kind # "pending"
    BY <1>9, <1>13, <1>14
  <2>2. QED
    BY <1>11, <2>1, PageMoves
<1>20. AloneSound'
  <2>1. ~overlapped => /\ page.balance.of \in {page.address, NoAccount}
                       /\ AloneHandler(handlers[h])
                       /\ \A g \in Handler \ {h} : ~OnPage(handlers[g])
    BY <1>3, AloneStays DEF PayInv, AloneSound
  <2>2. ~overlapped => p.from = page.address
    BY <1>2, <1>4, <2>1 DEF AloneHandler
  <2>3. \A o \in payments' : o.click = q.feedback.of => o = p
    BY <1>4, <1>5, <1>13
  <2>4. ~overlapped => PaidFrom(page.address)'
    BY <1>13, <1>14, <2>2, <2>3 DEF PaidFrom
  <2>5. PaidBefore(v)'
    BY <1>7, <1>14, <2>3 DEF PaidBefore
  <2>6. handlers'[h] = r
    BY <1>11 DEF PayInv, PayTypes
  <2>7. ~overlapped => AloneHandler(handlers[h])'
    <3>1. PaidBefore(handlers[h].version)'
      BY <1>9, <2>5, <2>6 DEF PaidBefore
    <3>2. QED
      BY <1>4, <1>9, <1>13, <1>14, <2>2, <2>6, <3>1 DEF AloneHandler
  <2>8. overlapped' = overlapped
    BY <1>2
  <2>9. ~overlapped' => page'.balance.of \in {page'.address, NoAccount}
    BY <1>13, <1>14, <2>1, <2>8
  <2>10. QED
    BY <1>10, <1>11, <2>1, <2>4, <2>7, <2>8, <2>9, AloneMoves
<1>21. QED
  BY <1>15, <1>16, <1>17, <1>18, <1>19, <1>20 DEF PayInv

\* A payment whose answer was lost lands after all.
LEMMA LandsLateKeeps ==
    ASSUME PayInv, NEW p \in floating, LandsLate(p)
    PROVE  PayInv'
<1>1. /\ Lands(p) /\ floating' = floating \ {p}
      /\ UNCHANGED <<wallet, page, connector, handlers, clicks, signatures, overlapped>>
  BY DEF LandsLate
<1>2. p \in PaymentRecord /\ p.from \in Account
  BY DEF PayInv, PayTypes, PaymentsSound
<1>3. /\ sequence' \in [Account -> Nat]
      /\ payments' = payments \cup {p} /\ payments' \in SUBSET PaymentRecord
      /\ \A o \in payments' : o.version < sequence'[o.from]
  BY <1>1, <1>2, LandsIs
<1>4. PayTypes'
  BY <1>1, <1>3 DEF PayInv, PayTypes
<1>5. HandlersSound' /\ ConnectorSound' /\ PageSound'
  BY <1>1 DEF PayInv, HandlersSound, HandlerSound, ConnectorSound, Asking, PageSound, PaymentPending,
              Sending
<1>6. payments' \cup floating' = payments \cup floating
  BY <1>1, <1>3
<1>7. PaymentsSound'
  <2>1. \A o \in floating' : o \notin payments'
    BY <1>1, <1>3 DEF PayInv, PaymentsSound
  <2>2. QED
    BY <1>1, <1>3, <1>6, <2>1 DEF PayInv, PaymentsSound, Sending
<1>8. PaidLanded'
  BY <1>1, <1>3 DEF PayInv, PaidLanded
<1>9. page.feedback.kind = "paid" => p.click # page.feedback.of
  BY DEF PayInv, PaymentsSound, PaidLanded
<1>10. AloneSound'
  <2> SUFFICES ASSUME ~overlapped PROVE AloneSound'
    BY <1>1 DEF AloneSound
  <2>3. PaidFrom(page.address)'
    BY <1>1, <1>3, <1>9 DEF PayInv, AloneSound, PaidFrom
  <2>4. (\A h \in Handler : ~OnPage(handlers[h])) =>
           PaidFrom(page.balance.of)' /\ PaidBefore(page.balance.version)'
    BY <1>1, <1>3, <1>9 DEF PayInv, AloneSound, PaidFrom, PaidBefore
  <2>5. (\A h \in Handler : OnPage(handlers[h]) => AloneHandler(handlers[h]))'
    BY <1>1, <1>3, <1>9 DEF PayInv, AloneSound, OnPage, AloneHandler, PaidBefore
  <2>6. QED
    BY <1>1, <2>3, <2>4, <2>5 DEF PayInv, AloneSound, OnPage
<1>11. QED
  BY <1>4, <1>5, <1>7, <1>8, <1>10 DEF PayInv

\* The handlers of a page loaded anew.
LEMMA LoadedIs ==
    ASSUME NEW who \in Account
    PROVE  /\ Loaded(who) \in [Handler -> HandlerRecord]
           /\ \A h \in Handler :
                 LET r == Loaded(who)[h]
                 IN  /\ HandlerSound(r) /\ r.click = 0 /\ ~Sending(r) /\ Asking(r)
                     /\ OnPage(r) => h = FirstHandler /\ r.kind = "reconnect"
<1>1. PICK e : e = [Reconnecting EXCEPT !.had = who]
  OBVIOUS
<1>2. e \in HandlerRecord /\ e.kind = "reconnect" /\ e.at = "address" /\ e.click = 0
      /\ e.had = who
  BY <1>1 DEF Reconnecting, NoHandler, HandlerRecord, Accounts
<1>3. HandlerSound(e) /\ ~Sending(e) /\ Asking(e)
  BY <1>2 DEF HandlerSound, Sending, Asking
<1>4. \A h \in Handler : Loaded(who)[h] = IF h = FirstHandler THEN e ELSE NoHandler
  BY <1>1 DEF Loaded
<1>5. Loaded(who) \in [Handler -> HandlerRecord]
  BY <1>1, <1>2, NoHandlerIs DEF Loaded
<1>6. ASSUME NEW h \in Handler
      PROVE  LET r == Loaded(who)[h]
             IN  /\ HandlerSound(r) /\ r.click = 0 /\ ~Sending(r) /\ Asking(r)
                 /\ OnPage(r) => h = FirstHandler /\ r.kind = "reconnect"
  <2>1. CASE h = FirstHandler
    BY <1>2, <1>3, <1>4, <2>1
  <2>2. CASE h # FirstHandler
    BY <1>4, <2>2, NoHandlerIs
  <2>3. QED
    BY <2>1, <2>2
<1>7. QED
  BY <1>5, <1>6

\* The page loaded anew.
LEMMA NewPageIs ==
    /\ NewPage \in PageRecord /\ NewPage.address = NoAccount /\ NewPage.balance.of = NoAccount
    /\ ~NewPage.loading /\ NewPage.feedback.kind = "idle"
  BY DEF NewPage, NoBalance, Feedback, PageRecord, Accounts

ReloadSound ==
    /\ page \in PageRecord /\ handlers \in [Handler -> HandlerRecord]
    /\ HandlersSound /\ PaidLanded /\ PageSound /\ AloneSound
    /\ \A h \in Handler : Asking(handlers[h]) /\ ~Sending(handlers[h])

Reloaded(who) ==
    handlers = Loaded(who) /\ page = NewPage /\ clicks \in Nat => ReloadSound

\* A page loaded anew is sound for whatever account.
LEMMA ReloadedSound == \A who \in Account : Reloaded(who)
<1> SUFFICES ASSUME NEW who \in Account,
                    handlers = Loaded(who), page = NewPage, clicks \in Nat
             PROVE  ReloadSound
  BY DEF Reloaded
<1>1. page \in PageRecord /\ page.address = NoAccount /\ page.balance.of = NoAccount
      /\ ~page.loading /\ page.feedback.kind = "idle"
  BY NewPageIs
<1>2. /\ handlers \in [Handler -> HandlerRecord]
      /\ \A h \in Handler :
            LET r == handlers[h]
            IN  /\ HandlerSound(r) /\ r.click = 0 /\ ~Sending(r) /\ Asking(r)
                /\ OnPage(r) => h = FirstHandler /\ r.kind = "reconnect"
  BY LoadedIs
<1>3. HandlersSound
  BY <1>2 DEF HandlersSound
<1>4. PaidLanded /\ PageSound
  BY <1>1 DEF PaidLanded, PageSound
<1>5. AloneSound
  <2>1. ASSUME NEW h \in Handler, OnPage(handlers[h]) PROVE AloneHandler(handlers[h])
    BY <1>1, <1>2, <2>1 DEF AloneHandler
  <2>2. \A g, h \in Handler : OnPage(handlers[g]) /\ OnPage(handlers[h]) => g = h
    BY <1>2
  <2>3. QED
    BY <1>1, <2>1, <2>2 DEF AloneSound, PaidFrom, PaidBefore
<1>6. QED
  BY <1>1, <1>2, <1>3, <1>4, <1>5 DEF ReloadSound

\* So it is in the next state.
LEMMA ReloadedNextSound == (\A who \in Account : Reloaded(who))'
  BY ReloadedSound, PTL

\* The page is reloaded, and its handlers are gone.
LEMMA PageReloadsKeeps ==
    ASSUME PayInv, PageReloads
    PROVE  PayInv'
<1>1. PICK sent : sent = {Payment(h) : h \in {g \in Handler : At(g, "send", "submit")}}
  OBVIOUS
<1>2. /\ clicks' = clicks + 1 /\ clicks \in Nat /\ clicks' \in Nat
      /\ page' = NewPage /\ handlers' = Loaded(wallet.account)
      /\ floating' = floating \cup sent /\ overlapped' = FALSE
      /\ UNCHANGED <<wallet, connector, sequence, payments, signatures>>
  BY <1>1 DEF PageReloads, Counts, PayInv, PayTypes
<1>3. wallet.account \in Account
  BY DEF PayInv, PayTypes
<1>4. PICK who \in Account : who = wallet.account
  BY <1>3
<1>5. /\ page' \in PageRecord /\ handlers' \in [Handler -> HandlerRecord]
      /\ HandlersSound' /\ PaidLanded' /\ PageSound' /\ AloneSound'
      /\ \A h \in Handler : Asking(handlers[h])' /\ ~Sending(handlers'[h])
  <2>1. handlers' = Loaded(who)
    BY <1>2, <1>4
  <2>2. ReloadSound'
    BY <1>2, <2>1, ReloadedNextSound DEF Reloaded
  <2>3. QED
    BY <2>2 DEF ReloadSound, Sending
<1>6. \A p \in sent : \E h \in Handler : p = Payment(h) /\ Sending(handlers[h])
  BY <1>1 DEF At, Sending
<1>7. ASSUME NEW p \in sent
      PROVE  /\ p \in PaymentRecord /\ p.from \in Account /\ p.from = p.shown /\ p.click <= clicks
             /\ \A o \in payments \cup floating : o.click # p.click
             /\ \A o \in sent : o.click = p.click => o = p
  <2>1. PICK h \in Handler : p = Payment(h) /\ Sending(handlers[h])
    BY <1>6
  <2>2. /\ p \in PaymentRecord /\ p.from \in Account /\ p.from = p.shown /\ p.click <= clicks
        /\ p.click = handlers[h].click
        /\ \A o \in payments \cup floating : o.click # p.click
    BY <2>1, PaymentIs
  <2>3. ASSUME NEW o \in sent, o.click = p.click PROVE o = p
    <3>1. PICK g \in Handler : o = Payment(g) /\ Sending(handlers[g])
      BY <1>6
    <3>2. o.click = handlers[g].click
      BY <3>1, PaymentIs
    <3>3. g = h
      BY <2>1, <2>2, <2>3, <3>1, <3>2 DEF PayInv, PaymentsSound
    <3>4. QED
      BY <2>1, <3>1, <3>3
  <2>4. QED
    BY <2>2, <2>3
<1>8. PayTypes'
  BY <1>2, <1>5, <1>7 DEF PayInv, PayTypes
<1>9. ConnectorSound'
  BY <1>2, <1>5 DEF PayInv, ConnectorSound
<1>10. PaymentsSound'
  <2>1. \A p \in payments \cup floating : p.click \in Nat /\ p.click <= clicks
    BY DEF PayInv, PayTypes, PaymentsSound, PaymentRecord
  <2>2. \A p \in payments' \cup floating' :
           p.click <= clicks' /\ p.from = p.shown /\ p.from \in Account
    <3>1. \A p \in sent : p.click \in Nat
      BY <1>7 DEF PaymentRecord
    <3>2. QED
      BY <1>2, <1>7, <2>1, <3>1 DEF PayInv, PaymentsSound
  <2>3. \A p, q \in payments' \cup floating' : p.click = q.click => p = q
    BY <1>2, <1>7 DEF PayInv, PaymentsSound
  <2>4. \A p \in floating' : p \notin payments'
    BY <1>2, <1>7 DEF PayInv, PaymentsSound
  <2>5. QED
    BY <1>2, <1>5, <2>2, <2>3, <2>4 DEF PayInv, PaymentsSound, Sending
<1>11. QED
  BY <1>5, <1>8, <1>9, <1>10 DEF PayInv

\* A call of the connector moves beside the page.
LEMMA AsideKeeps ==
    ASSUME PayInv, NEW h \in Handler, NEW r \in HandlerRecord,
           handlers[h].kind \in {"none", "link", "seal"}, r.kind \in {"none", "link", "seal"},
           HandlerSound(r), handlers' = [handlers EXCEPT ![h] = r],
           clicks' \in {clicks, clicks + 1}, r.click <= clicks',
           UNCHANGED <<wallet, page, sequence, floating, payments, overlapped>>,
           connector' \in [connected : BOOLEAN, key : Accounts, asked : Nat],
           ConnectorSound'
    PROVE  PayInv'
<1>1. clicks \in Nat /\ clicks' \in Nat /\ clicks <= clicks'
  BY HeldIs
<1>2. ~OnPage(r) /\ ~Sending(r) /\ ~OnPage(handlers[h]) /\ ~PaymentPending(handlers[h])
      /\ handlers[h].at # "balance"
  BY HeldIs DEF OnPage, Sending, PaymentPending, HandlerSound
<1>3. PayTypes' /\ HandlersSound'
  <2>1. handlers' \in [Handler -> HandlerRecord] /\ HandlersSound'
    BY <1>1, TypesMove
  <2>2. QED
    BY <1>1, <2>1 DEF PayInv, PayTypes
<1>4. PaymentsSound' /\ PaidLanded'
  BY <1>2, PaymentsMove DEF PayInv, PaidLanded
<1>5. PageSound'
  BY <1>2, PageMoves
<1>6. AloneSound'
  <2>1. \A g \in Handler : IF g = h THEN ~OnPage(handlers[g]) /\ ~OnPage(handlers'[g])
                           ELSE handlers'[g] = handlers[g]
    BY <1>2 DEF PayInv, PayTypes
  <2> SUFFICES ASSUME ~overlapped PROVE AloneSound'
    BY DEF AloneSound
  <2>2. \A f, g \in Handler : OnPage(handlers'[f]) /\ OnPage(handlers'[g]) => f = g
    BY <2>1 DEF PayInv, AloneSound
  <2>3. (\A g \in Handler : ~OnPage(handlers'[g])) => \A g \in Handler : ~OnPage(handlers[g])
    BY <2>1
  <2>4. (\A g \in Handler : OnPage(handlers[g]) => AloneHandler(handlers[g]))'
    BY <2>1 DEF PayInv, AloneSound, OnPage, AloneHandler, PaidBefore
  <2>5. QED
    BY <2>2, <2>3, <2>4 DEF PayInv, AloneSound, OnPage, PaidFrom, PaidBefore
<1>7. QED
  BY <1>3, <1>4, <1>5, <1>6 DEF PayInv

\* A key or a signature is asked of the wallet.
LEMMA AskKeeps ==
    ASSUME PayInv, NEW h \in Handler, ConnectWallet(h) \/ SignTransaction(h)
    PROVE  PayInv'
<1>1. PICK kind \in {"link", "seal"}, at \in {"key", "signature"}, pub \in Accounts,
           version \in Nat :
         /\ Calls /\ Starts(h, kind, at, pub, version)
         /\ kind = "link" => at = "key" /\ version = wallet.switches
         /\ kind = "seal" => at = "signature" /\ version = connector.asked
                             /\ pub = connector.key /\ connector.connected
  <2>1. CASE ConnectWallet(h)
    BY <2>1 DEF ConnectWallet, PayInv, PayTypes, Accounts
  <2>2. CASE SignTransaction(h)
    BY <2>2 DEF SignTransaction, PayInv, PayTypes
  <2>3. QED
    BY <2>1, <2>2
<1>2. PICK r : r = [kind |-> kind, at |-> at, click |-> clicks + 1, shown |-> page.address,
                    pub |-> pub, had |-> wallet.account, version |-> version,
                    signer |-> NoAccount]
  OBVIOUS
<1>3. /\ clicks' = clicks + 1 /\ clicks \in Nat /\ clicks' \in Nat
      /\ handlers[h].kind = "none"
      /\ UNCHANGED <<wallet, page, connector, sequence, floating, payments, signatures, overlapped>>
  BY <1>1, HeldIs DEF Calls, Counts, Starts
<1>4. handlers' = [handlers EXCEPT ![h] = r]
  BY <1>1, <1>2, <1>3 DEF Starts
<1>5. r \in HandlerRecord /\ HandlerSound(r)
  BY <1>1, <1>2, <1>3, HeldIs DEF HandlerRecord, HandlerSound, PageRecord, Accounts
<1>6. Asking(r)
  <2>1. wallet.switches \in Nat
    BY DEF PayInv, PayTypes
  <2>2. QED
    BY <1>1, <1>2, <2>1 DEF Asking, PayInv, ConnectorSound
<1>7. ConnectorSound'
  BY <1>3, <1>4, <1>6, ConnectorMoves
<1>8. r.kind \in {"link", "seal"} /\ r.click <= clicks'
  BY <1>1, <1>2, <1>3
<1>9. connector' \in [connected : BOOLEAN, key : Accounts, asked : Nat]
  BY <1>3 DEF PayInv, PayTypes
<1>10. QED
  BY <1>3, <1>4, <1>5, <1>7, <1>8, <1>9, AsideKeeps

\* A call of the connector ends.
LEMMA AsideEndsKeeps ==
    ASSUME PayInv, NEW h \in Handler, Ends(h), handlers[h].kind \in {"link", "seal"},
           UNCHANGED <<wallet, page, clicks, sequence, floating, payments, overlapped>>,
           connector' \in [connected : BOOLEAN, key : Accounts, asked : Nat],
           connector'.connected <=> connector'.key # NoAccount,
           connector'.connected =>
              connector'.asked <= wallet.switches
              /\ (connector'.asked = wallet.switches => connector'.key = wallet.account),
           \A s \in signatures' : s.signer = s.key \/ s.switched
    PROVE  PayInv'
<1>1. PICK r : r = NoHandler
  OBVIOUS
<1>2. handlers' = [handlers EXCEPT ![h] = r] /\ r \in HandlerRecord /\ HandlerSound(r)
      /\ r.click <= clicks' /\ clicks' = clicks /\ Asking(r) /\ r.kind = "none"
  BY <1>1, HeldIs, NoHandlerIs DEF Ends
<1>3. \A g \in Handler : Asking(handlers[g])'
  <2>1. \A g \in Handler : handlers'[g] \in {handlers[g], r}
    BY <1>2 DEF PayInv, PayTypes
  <2>2. QED
    BY <1>2, <2>1 DEF PayInv, ConnectorSound, Asking
<1>4. ConnectorSound'
  BY <1>3 DEF ConnectorSound
<1>5. QED
  BY <1>2, <1>4, AsideKeeps

\* A key or a signature is answered.
LEMMA AskedKeeps ==
    ASSUME PayInv, NEW h \in Handler, KeyAnswered(h) \/ SignatureAnswered(h)
    PROVE  PayInv'
<1>1. /\ handlers[h].had \in Account /\ handlers[h].version \in Nat /\ wallet.switches \in Nat
      /\ Asking(handlers[h]) /\ wallet.account \in Account
  BY HeldIs DEF KeyAnswered, SignatureAnswered, At, HandlerSound, HandlerRecord, PayInv,
                PayTypes, ConnectorSound
<1>2. /\ connector.connected <=> connector.key # NoAccount
      /\ connector.connected =>
            connector.asked <= wallet.switches
            /\ (connector.asked = wallet.switches => connector.key = wallet.account)
      /\ \A s \in signatures : s.signer = s.key \/ s.switched
      /\ connector \in [connected : BOOLEAN, key : Accounts, asked : Nat]
  BY DEF PayInv, PayTypes, ConnectorSound
<1>3. CASE KeyAnswered(h)
  <2>1. /\ handlers[h].kind = "link" /\ Ends(h)
        /\ UNCHANGED <<wallet, page, clicks, sequence, floating, payments, signatures, overlapped>>
    BY <1>3 DEF KeyAnswered, At
  <2>2. CASE connector' = connector
    BY <1>2, <2>1, <2>2, AsideEndsKeeps
  <2>3. ASSUME NEW a \in {handlers[h].had, wallet.account},
               connector' = [connected |-> TRUE, key |-> a, asked |-> handlers[h].version]
        PROVE  PayInv'
    <3>1. a \in Account /\ a # NoAccount /\ a \in Accounts
      BY <1>1, <2>3, PaymentAssumption DEF Accounts
    <3>2. connector' \in [connected : BOOLEAN, key : Accounts, asked : Nat]
          /\ connector'.key # NoAccount /\ connector'.connected
          /\ connector'.asked = handlers[h].version /\ connector'.key = a
      BY <1>1, <2>3, <3>1
    <3>3. connector'.asked <= wallet.switches
          /\ (connector'.asked = wallet.switches => connector'.key = wallet.account)
      BY <1>1, <2>1, <2>3, <3>2 DEF Asking
    <3>4. QED
      BY <1>2, <2>1, <3>2, <3>3, AsideEndsKeeps
  <2>4. QED
    BY <1>3, <2>2, <2>3 DEF KeyAnswered
<1>4. CASE SignatureAnswered(h)
  <2>1. /\ handlers[h].kind = "seal" /\ Ends(h)
        /\ UNCHANGED <<wallet, page, connector, clicks, sequence, floating, payments, overlapped>>
    BY <1>4 DEF SignatureAnswered, At
  <2>2. \A s \in signatures' : s.signer = s.key \/ s.switched
    <3>1. ASSUME NEW a \in {handlers[h].had, wallet.account},
                 signatures' = signatures \cup {[signer |-> a, key |-> handlers[h].pub,
                                                 switched |-> wallet.switches > handlers[h].version]}
          PROVE  \A s \in signatures' : s.signer = s.key \/ s.switched
      <4>1. a = handlers[h].pub \/ wallet.switches > handlers[h].version
        BY <1>1, <2>1, <3>1 DEF Asking
      <4>2. PICK behind : behind = (wallet.switches > handlers[h].version)
        OBVIOUS
      <4>3. PICK new : new = [signer |-> a, key |-> handlers[h].pub, switched |-> behind]
        OBVIOUS
      <4>4. new.signer = new.key \/ behind
        BY <4>1, <4>2, <4>3
      <4>5. new.switched = behind
        BY <4>3
      <4>6. new.signer = new.key \/ new.switched
        BY <4>4, <4>5, Zenon
      <4>7. signatures' = signatures \cup {new}
        BY <3>1, <4>2, <4>3
      <4>8. QED
        BY <1>2, <4>6, <4>7, Zenon
    <3>2. QED
      BY <1>2, <1>4, <3>1 DEF SignatureAnswered
  <2>3. QED
    BY <1>2, <2>1, <2>2, AsideEndsKeeps
<1>5. QED
  BY <1>3, <1>4

\* The connector forgets its key.
LEMMA ConnectorDisconnectKeeps ==
    ASSUME PayInv, ConnectorDisconnect
    PROVE  PayInv'
<1>1. /\ clicks' = clicks + 1 /\ clicks \in Nat
      /\ connector' = [connector EXCEPT !.connected = FALSE, !.key = NoAccount]
      /\ UNCHANGED <<wallet, page, handlers, sequence, floating, payments, signatures, overlapped>>
  BY DEF ConnectorDisconnect, Calls, Counts, PayInv, PayTypes
<1>2. connector' \in [connected : BOOLEAN, key : Accounts, asked : Nat]
      /\ ~connector'.connected /\ connector'.key = NoAccount
  BY <1>1 DEF PayInv, PayTypes, Accounts
<1>3. PayTypes'
  BY <1>1, <1>2 DEF PayInv, PayTypes
<1>4. HandlersSound'
  <2>1. \A h \in Handler : handlers[h].click \in Nat
    BY HeldIs
  <2>2. QED
    BY <1>1, <2>1 DEF PayInv, HandlersSound, HandlerSound
<1>5. ConnectorSound'
  BY <1>1, <1>2 DEF PayInv, ConnectorSound, Asking
<1>6. PaymentsSound'
  <2>1. \A p \in payments \cup floating : p.click \in Nat
    BY DEF PayInv, PayTypes, PaymentRecord
  <2>2. QED
    BY <1>1, <2>1 DEF PayInv, PaymentsSound, Sending
<1>7. PaidLanded' /\ PageSound'
  BY <1>1 DEF PayInv, PaidLanded, PageSound, PaymentPending, Sending
<1>8. AloneSound'
  BY <1>1 DEF PayInv, AloneSound, OnPage, AloneHandler, PaidFrom, PaidBefore
<1>9. QED
  BY <1>3, <1>4, <1>5, <1>6, <1>7, <1>8 DEF PayInv

\* The user switches the account in the wallet.
LEMMA UserSwitchesKeeps ==
    ASSUME PayInv, UserSwitches
    PROVE  PayInv'
<1>1. PICK a \in Account : wallet' = [account |-> a, switches |-> wallet.switches + 1]
  BY DEF UserSwitches
<1>2. UNCHANGED <<page, connector, handlers, clicks, sequence, floating, payments, signatures,
                  overlapped>>
  BY DEF UserSwitches
<1>3. PICK n \in Nat : n = wallet.switches
  BY DEF PayInv, PayTypes
<1>4. wallet' \in [account : Account, switches : Nat] /\ wallet'.switches = n + 1
  BY <1>1, <1>3
<1>5. PayTypes'
  BY <1>2, <1>4 DEF PayInv, PayTypes
<1>6. ConnectorSound'
  <2>1. \A h \in Handler : handlers[h].version \in Nat
    BY HeldIs DEF HandlerRecord
  <2>2. \A h \in Handler : Asking(handlers[h])'
    BY <1>2, <1>3, <1>4, <2>1 DEF PayInv, ConnectorSound, Asking
  <2>3. connector.asked \in Nat
    BY DEF PayInv, PayTypes
  <2>4. QED
    BY <1>2, <1>3, <1>4, <2>2, <2>3 DEF PayInv, ConnectorSound
<1>7. HandlersSound' /\ PaymentsSound' /\ PaidLanded' /\ PageSound'
  BY <1>2 DEF PayInv, HandlersSound, HandlerSound, PaymentsSound, PaidLanded, PageSound,
              PaymentPending, Sending
<1>8. AloneSound'
  BY <1>2 DEF PayInv, AloneSound, OnPage, AloneHandler, PaidFrom, PaidBefore
<1>9. QED
  BY <1>5, <1>6, <1>7, <1>8 DEF PayInv

\* Each step of page, connector, wallet and network keeps the invariant.
LEMMA PayStep == PayInv /\ [PayNext]_payVars => PayInv'
<1> SUFFICES ASSUME PayInv, [PayNext]_payVars PROVE PayInv'
  OBVIOUS
<1>1. CASE UNCHANGED payVars
  <2>1. PayTypes' /\ HandlersSound' /\ ConnectorSound'
    BY <1>1 DEF payVars, PayInv, PayTypes, HandlersSound, HandlerSound, ConnectorSound, Asking
  <2>2. PaymentsSound' /\ PaidLanded' /\ PageSound'
    BY <1>1 DEF payVars, PayInv, PaymentsSound, PaidLanded, PageSound, PaymentPending, Sending
  <2>3. AloneSound'
    BY <1>1 DEF payVars, PayInv, AloneSound, OnPage, AloneHandler, PaidFrom, PaidBefore
  <2>4. QED
    BY <2>1, <2>2, <2>3 DEF PayInv
<1>2. CASE PayNext
  <2>1. CASE \/ \E h \in Handler : OnConnect(h) \/ RefreshBalance(h) \/ OnFund(h) \/ OnSend(h)
             \/ OnDisconnect
    BY <2>1, ClicksKeep
  <2>2. ASSUME NEW h \in Handler,
               \/ ReconnectAnswered(h) \/ ReconnectNetworkAnswered(h) \/ InstalledAnswered(h)
               \/ AccessAnswered(h) \/ NetworkAnswered(h) \/ FriendbotAnswered(h)
               \/ FriendbotFails(h) \/ BalanceAnswered(h) \/ AccountLoaded(h) \/ Signed(h)
               \/ SendFails(h)
        PROVE  PayInv'
    BY <2>2, ReconnectKeeps, ConnectKeeps, FriendbotKeeps, BalanceAnsweredKeeps, SendingKeeps
  <2>3. ASSUME NEW h \in Handler,
               \/ PaymentAnswered(h) \/ PaymentRefused(h) \/ AnswerLost(h)
               \/ ConnectWallet(h) \/ KeyAnswered(h) \/ SignTransaction(h)
               \/ SignatureAnswered(h)
        PROVE  PayInv'
    BY <2>3, PaymentAnsweredKeeps, RefusedKeeps, LostKeeps, AskKeeps, AskedKeeps
  <2>4. CASE \/ PageReloads \/ ConnectorDisconnect \/ UserSwitches
             \/ \E p \in floating : LandsLate(p)
    BY <2>4, PageReloadsKeeps, ConnectorDisconnectKeeps, UserSwitchesKeeps, LandsLateKeeps
  <2>5. QED
    BY <1>2, <2>1, <2>2, <2>3, <2>4 DEF PayNext
<1>3. QED
  BY <1>1, <1>2

\* The invariant of payments.
LEMMA PayInvariance == PaySpec => []PayInv
<1>1. ASSUME PayInit PROVE PayInv
  <2>1. PICK who \in Account : who = wallet.account /\ wallet = [account |-> who, switches |-> 0]
    BY <1>1, PaymentAssumption DEF PayInit
  <2>2. handlers = Loaded(who) /\ page = NewPage /\ clicks = 0
    BY <1>1, <2>1 DEF PayInit
  <2>3. ReloadSound
    BY <2>2, ReloadedSound DEF Reloaded
  <2>4. connector \in [connected : BOOLEAN, key : Accounts, asked : Nat]
        /\ ~connector.connected /\ connector.key = NoAccount
    BY <1>1 DEF PayInit, Accounts
  <2>5. PayTypes
    BY <1>1, <2>1, <2>3, <2>4 DEF PayInit, PayTypes, ReloadSound
  <2>6. ConnectorSound /\ PaymentsSound
    BY <1>1, <2>3, <2>4 DEF PayInit, ConnectorSound, PaymentsSound, ReloadSound
  <2>7. QED
    BY <2>3, <2>5, <2>6 DEF PayInv, ReloadSound
<1>2. QED
  BY <1>1, PayStep, PTL DEF PaySpec

\* For any accounts, handlers and clicks a payment comes from the account shown when it
\* was clicked, one per click; success is said of a payment that landed; nothing is said
\* to be under way when nothing is; clicks that waited for each other leave the balance
\* of the account shown, with the payment in it; and a signature is by the connector's
\* key unless the wallet was switched: the page and the connector keep account, balance
\* and key in states of their own while the wallet switches accounts and answers come
\* late or never.
THEOREM PaymentsAlwaysHonest == PaySpec => []PaymentsHonest
<1>1. ASSUME PayInv PROVE PaymentsHonest
  <2>1. \A p \in payments : p.from = p.shown /\ \A q \in payments : p.click = q.click => p = q
    BY <1>1 DEF PayInv, PaymentsSound
  <2>2. page.feedback.kind = "paid" => \E p \in payments : p.click = page.feedback.of
    BY <1>1 DEF PayInv, PaidLanded
  <2>3. ASSUME OfPage = {}
        PROVE  \A h \in Handler : ~OnPage(handlers[h])
    BY <2>3 DEF OfPage, OnPage
  <2>4. ASSUME OfPage = {} PROVE ~page.loading /\ page.feedback.kind # "pending"
    <3>1. \A h \in Handler : handlers[h].kind \in {"none", "link", "seal"}
      BY <2>4 DEF OfPage
    <3>2. \A h \in Handler : handlers[h].at # "balance" /\ ~PaymentPending(handlers[h])
      BY <1>1, <3>1, HeldIs DEF HandlerSound, PaymentPending, Sending
    <3>3. QED
      BY <1>1, <3>2 DEF PayInv, PageSound
  <2>5. ASSUME OfPage = {}, ~overlapped
        PROVE  /\ page.balance.of \in {page.address, NoAccount}
               /\ page.feedback.kind = "paid" => \A p \in payments :
                     p.click = page.feedback.of =>
                        page.balance.of = p.from /\ page.balance.version > p.version
    BY <1>1, <2>3, <2>5 DEF PayInv, AloneSound, PaidFrom, PaidBefore
  <2>6. /\ connector.connected <=> connector.key # NoAccount
        /\ \A s \in signatures : s.signer = s.key \/ s.switched
    BY <1>1 DEF PayInv, ConnectorSound
  <2>7. QED
    BY <2>1, <2>2, <2>4, <2>5, <2>6 DEF PaymentsHonest
<1>2. QED
  BY <1>1, PayInvariance, PTL

-----------------------------------------------------------------------------
(***************************************************************************)
(* SdkSetup: configurations that share their maps of addresses, and an SDK *)
(* that switches its network.                                              *)
(***************************************************************************)
ContractAddress == Network \cup {Unusable}
ContractMap == [Registry -> ContractAddress]
ConfigRecord == [network : Network, url : ContractAddress, map : DOMAIN addresses, from : Network]
ClientRecord == [network : Network, url : ContractAddress, contracts : ContractMap, from : Network,
                 made : Nat]

\* The maps of the presets have the networks for ids, the others numbers, one after the other.
MapsSound ==
    /\ addresses = [i \in DOMAIN addresses |-> addresses[i]]
    /\ Network \subseteq DOMAIN addresses
    /\ DOMAIN addresses \ Network \subseteq Nat /\ IsFiniteSet(DOMAIN addresses \ Network)
    /\ \A i \in DOMAIN addresses \ Network : i < NewMap
    /\ \A i \in DOMAIN addresses : addresses[i] \in ContractMap
    /\ \A n \in Network : \A r \in Registry : addresses[n][r] \in {n, Unusable}

\* A configuration refers to a preset's map for that network only.
ConfigSound(c) ==
    /\ c \in ConfigRecord
    /\ c.map \in Network => c.map = c.network
    /\ Apart(c, addresses[c.map])

SdkSound(s) ==
    /\ s = [config |-> s.config, clients |-> s.clients, gdpr |-> s.gdpr, checked |-> s.checked]
    /\ ConfigSound(s.config)
    /\ \A cl \in {s.clients, s.gdpr} : cl \in ClientRecord /\ Apart(cl, cl.contracts)
    /\ s.clients.made <= setups
    /\ s.checked \in BOOLEAN
    /\ s.checked => \A r \in Registry : ValidContractAddress(s.clients.contracts[r])
    /\ s.config.network # s.clients.network =>
          ~ValidConfig(s.config, addresses) /\ s.config.map \notin Network

WorkRecord ==
    [method : {"none", "initialize", "check", "profile", "health"},
     at : {"new", "first", "last", "returned", "threw", "health", "ledger"},
     through : Seq(ClientRecord), begun : Nat, url : ContractAddress, healthy : BOOLEAN]

PartsInOrder(w) ==
    \A i, j \in DOMAIN w.through :
       /\ i < j => w.through[i].made <= w.through[j].made
       /\ w.through[i] # w.through[j] => \E k \in {i, j} : w.through[k].made > w.begun

\* What a call has gone through before its next part are the clients of its beginning.
WorkSound(w) ==
    /\ w.begun <= setups
    /\ PartsInOrder(w)
    /\ w.at = "first" =>
          /\ \A i, j \in DOMAIN w.through : w.through[i] = w.through[j]
          /\ \A i \in DOMAIN w.through :
                /\ w.through[i].made <= w.begun
                /\ \A s \in sdk : s.clients = w.through[i] \/ s.clients.made > w.begun

SetupInv ==
    /\ setups \in Nat
    /\ MapsSound
    /\ \A c \in built : ConfigSound(c)
    /\ \A b \in builders : ConfigSound(b) /\ b.map = b.network
    /\ \A s \in sdk : SdkSound(s) /\ sdk = {s}
    /\ work \in [Task -> WorkRecord]
    /\ \A t \in Task : WorkSound(work[t])

\* The number of a new map is none that is given.
LEMMA NewMapIsNew ==
    ASSUME SetupInv
    PROVE  NewMap \in Nat /\ NewMap \notin DOMAIN addresses /\ NewMap \notin Network
<1>1. NewMap \in Nat
  BY FS_CardinalityType DEF SetupInv, MapsSound, NewMap
<1>2. NewMap \notin Network
  BY <1>1, SetupAssumption
<1>3. NewMap \notin DOMAIN addresses \ Network
  BY <1>1 DEF SetupInv, MapsSound
<1>4. QED
  BY <1>1, <1>2, <1>3

\* A map is made: the ones there are stay as they are.
LEMMA MapsGrow ==
    ASSUME SetupInv, NEW own \in ContractMap, NEW id, id = NewMap,
           addresses' = [i \in DOMAIN addresses \cup {id} |-> IF i = id THEN own ELSE addresses[i]]
    PROVE  /\ MapsSound'
           /\ DOMAIN addresses' = DOMAIN addresses \cup {id} /\ addresses'[id] = own
           /\ \A i \in DOMAIN addresses : addresses'[i] = addresses[i]
           /\ id \notin Network
<1>1. id \in Nat /\ id \notin DOMAIN addresses /\ id \notin Network
  BY NewMapIsNew
<1>2. DOMAIN addresses' = DOMAIN addresses \cup {id} /\ addresses'[id] = own
      /\ (\A i \in DOMAIN addresses : addresses'[i] = addresses[i])
  BY <1>1
<1>3. DOMAIN addresses' \ Network = (DOMAIN addresses \ Network) \cup {id}
  BY <1>1, <1>2
<1>4. IsFiniteSet(DOMAIN addresses' \ Network)
      /\ Cardinality(DOMAIN addresses' \ Network) = id + 1
  <2>1. PICK D : D = DOMAIN addresses \ Network
    OBVIOUS
  <2>2. IsFiniteSet(D) /\ id = Cardinality(D) /\ id \notin D
    BY <1>1, <2>1 DEF SetupInv, MapsSound, NewMap
  <2>3. IsFiniteSet(D \cup {id}) /\ Cardinality(D \cup {id}) = id + 1
    BY <2>2, FS_AddElement
  <2>4. QED
    BY <1>3, <2>1, <2>3
<1>5. \A i \in DOMAIN addresses' \ Network : i \in Nat /\ i < id + 1
  BY <1>1, <1>3 DEF SetupInv, MapsSound
<1>6. addresses' = [i \in DOMAIN addresses' |-> addresses'[i]]
  BY <1>2
<1>7. MapsSound'
  BY <1>1, <1>2, <1>4, <1>5, <1>6 DEF SetupInv, MapsSound, NewMap
<1>8. QED
  BY <1>1, <1>2, <1>7

\* What a merge of a network's own overrides with a preset gives: a configuration of
\* that network, with a map of its own.
LEMMA MergeIs ==
    ASSUME SetupInv, NEW m \in Network, NEW n \in Network, NEW url \in ContractAddress,
           NEW given, given \in Overrides(n),
           NEW merged, merged = MergeConfig(DEFAULT_CONFIGS(m), n, url, given),
           addresses' = merged.maps
    PROVE  /\ MapsSound'
           /\ DOMAIN addresses \subseteq DOMAIN addresses'
           /\ \A i \in DOMAIN addresses : addresses'[i] = addresses[i]
           /\ \E id : /\ id \notin Network
                      /\ merged.config = [network |-> n, url |-> url, map |-> id, from |-> m]
                      /\ ConfigSound(merged.config)'
<1>1. PICK id : id = NewMap
  OBVIOUS
<1>2. PICK own : own = Overridden(addresses[m], given)
  OBVIOUS
<1>3. /\ merged.maps = [i \in DOMAIN addresses \cup {id} |-> IF i = id THEN own ELSE addresses[i]]
      /\ merged.config = [network |-> n, url |-> url, map |-> id, from |-> m]
  BY <1>1, <1>2 DEF MergeConfig, DEFAULT_CONFIGS
<1>4. addresses[m] \in ContractMap /\ \A r \in Registry : addresses[m][r] \in {m, Unusable}
  BY DEF SetupInv, MapsSound
<1>5. \A r \in Registry : own[r] \in {n, m, Unusable}
  BY <1>2, <1>4 DEF Overridden, Overrides
<1>6. own \in ContractMap
  BY <1>2, <1>5 DEF Overridden, ContractMap, ContractAddress
<1>7. /\ MapsSound'
      /\ DOMAIN addresses' = DOMAIN addresses \cup {id} /\ addresses'[id] = own
      /\ \A i \in DOMAIN addresses : addresses'[i] = addresses[i]
      /\ id \notin Network
  BY <1>1, <1>3, <1>6, MapsGrow
<1>8. ASSUME NEW c, c = [network |-> n, url |-> url, map |-> id, from |-> m]
      PROVE  ConfigSound(c)'
  <2>1. c \in ConfigRecord'
    BY <1>7, <1>8 DEF ConfigRecord
  <2>2. Apart(c, own)
    BY <1>5, <1>8 DEF Apart
  <2>3. QED
    BY <1>7, <1>8, <2>1, <2>2 DEF ConfigSound
<1>9. QED
  BY <1>3, <1>7, <1>8

\* While maps of presets change for their own network only, configurations and an SDK
\* stay as sound as they were.
LEMMA ConfigsKeep ==
    ASSUME SetupInv, MapsSound', DOMAIN addresses \subseteq DOMAIN addresses',
           \A i \in DOMAIN addresses \ Network : addresses'[i] = addresses[i],
           setups' \in Nat, setups <= setups'
    PROVE  /\ \A c : ConfigSound(c) => ConfigSound(c)'
           /\ \A s : SdkSound(s) => SdkSound(s)'
<1>1. ASSUME NEW c, ConfigSound(c) PROVE ConfigSound(c)'
  <2>1. c \in ConfigRecord'
    BY <1>1 DEF ConfigSound, ConfigRecord
  <2>2. CASE c.map \in Network
    <3>1. c.map = c.network /\ \A r \in Registry : addresses'[c.map][r] \in {c.map, Unusable}
      BY <1>1, <2>2 DEF ConfigSound, MapsSound
    <3>2. QED
      BY <2>1, <3>1 DEF ConfigSound, Apart
  <2>3. CASE c.map \notin Network
    <3>1. addresses'[c.map] = addresses[c.map]
      BY <1>1, <2>3 DEF ConfigSound, ConfigRecord
    <3>2. QED
      BY <1>1, <2>1, <3>1 DEF ConfigSound, Apart
  <2>4. QED
    BY <2>2, <2>3
<1>2. ASSUME NEW s, SdkSound(s) PROVE SdkSound(s)'
  <2>1. ConfigSound(s.config)'
    BY <1>1, <1>2 DEF SdkSound
  <2>2. s.clients.made \in Nat /\ s.clients.made <= setups' /\ s.config.map \in DOMAIN addresses
    BY <1>2 DEF SdkSound, ClientRecord, ConfigSound, ConfigRecord, SetupInv
  <2>3. s.config.map \notin Network /\ ~ValidConfig(s.config, addresses)
           => ~ValidConfig(s.config, addresses')
    BY <2>2 DEF ValidConfig
  <2>4. s.config.network # s.clients.network =>
          ~ValidConfig(s.config, addresses') /\ s.config.map \notin Network
    BY <1>2, <2>3 DEF SdkSound
  <2>5. QED
    BY <1>2, <2>1, <2>2, <2>4 DEF SdkSound, ValidConfig, Apart, ValidContractAddress
<1>3. QED
  BY <1>1, <1>2

\* Clients made later than a call began do not disturb what it went through.
LEMMA WorkKeeps ==
    ASSUME SetupInv, work' = work, setups' = setups + 1,
           \A u \in sdk' : \/ \E s \in sdk : u.clients = s.clients
                           \/ u.clients.made = setups'
    PROVE  \A t \in Task : WorkSound(work[t])'
<1> SUFFICES ASSUME NEW t \in Task PROVE WorkSound(work[t])'
  OBVIOUS
<1>1. work[t] \in WorkRecord /\ WorkSound(work[t]) /\ setups \in Nat
  BY DEF SetupInv
<1>2. work[t].begun \in Nat /\ work[t].begun <= setups'
  BY <1>1 DEF WorkRecord, WorkSound
<1>3. \A u \in sdk' : (\E s \in sdk : u.clients = s.clients) \/ u.clients.made > work[t].begun
  <2>1. setups' > work[t].begun
    BY <1>1, <1>2 DEF WorkSound
  <2>2. QED
    BY <2>1
<1>4. ASSUME work[t].at = "first", NEW i \in DOMAIN work[t].through, NEW u \in sdk'
      PROVE  u.clients = work[t].through[i] \/ u.clients.made > work[t].begun
  BY <1>1, <1>3, <1>4 DEF WorkSound
<1>5. QED
  BY <1>1, <1>2, <1>4 DEF WorkSound, PartsInOrder

\* A preset names contracts of its own network.
LEMMA PresetSound ==
    ASSUME SetupInv, NEW n \in Network
    PROVE  LET c == DEFAULT_CONFIGS(n)
           IN  ConfigSound(c) /\ c.map = c.network /\ c.network = n
  BY DEF SetupInv, MapsSound, DEFAULT_CONFIGS, ConfigSound, ConfigRecord, ContractAddress, Apart

\* A configuration is made, built or changed in its builder.
LEMMA ConfigureKeeps ==
    ASSUME SetupInv, Setup, Configure, work' = work
    PROVE  SetupInv'
<1>1. setups \in Nat /\ setups' = setups + 1 /\ setups' \in Nat /\ setups <= setups'
  BY DEF Setup, SetupInv
<1>2. sdk' = sdk
  BY DEF Configure, CreateCustomConfig, NewBuilder, WithRpcUrl, WithContract, Build
<1>3. \A t \in Task : WorkSound(work[t])'
  BY <1>1, <1>2, WorkKeeps
<1>4. ASSUME MapsSound', DOMAIN addresses \subseteq DOMAIN addresses',
             \A i \in DOMAIN addresses \ Network : addresses'[i] = addresses[i],
             \A c \in built' : c \in built \/ ConfigSound(c)',
             \A b \in builders' : b \in builders \/ (ConfigSound(b)' /\ b.map = b.network)
      PROVE  SetupInv'
  <2>1. /\ \A c : ConfigSound(c) => ConfigSound(c)'
        /\ \A s : SdkSound(s) => SdkSound(s)'
    BY <1>1, <1>4, ConfigsKeep
  <2>2. \A c \in built' : ConfigSound(c)'
    BY <1>4, <2>1 DEF SetupInv
  <2>3. \A b \in builders' : ConfigSound(b)' /\ b.map = b.network
    BY <1>4, <2>1 DEF SetupInv
  <2>4. \A s \in sdk' : SdkSound(s)'
    BY <1>2, <2>1 DEF SetupInv
  <2>7. \A s \in sdk' : sdk' = {s}
    BY <1>2 DEF SetupInv
  <2>5. work' \in [Task -> WorkRecord]
    BY DEF SetupInv
  <2>6. QED
    BY <1>1, <1>3, <1>4, <2>2, <2>3, <2>4, <2>5, <2>7 DEF SetupInv, WorkRecord, ClientRecord
<1>5. ASSUME addresses' = addresses
      PROVE  /\ MapsSound' /\ DOMAIN addresses \subseteq DOMAIN addresses'
             /\ \A i \in DOMAIN addresses \ Network : addresses'[i] = addresses[i]
             /\ \A c : ConfigSound(c) => ConfigSound(c)'
  BY <1>5 DEF SetupInv, MapsSound, NewMap, ConfigSound, ConfigRecord, Apart
<1>6. ASSUME NEW n \in Network, CreateCustomConfig(n) PROVE SetupInv'
  <2>1. PICK given \in Overrides(n), url \in OverrideUrl(n) \cup {Preset} :
          LET m == MergeConfig(DEFAULT_CONFIGS(Preset), n, url, given) IN
          /\ addresses' = m.maps
          /\ built' = built \cup {m.config}
    BY <1>6 DEF CreateCustomConfig
  <2>2. PICK m : m = MergeConfig(DEFAULT_CONFIGS(Preset), n, url, given)
    OBVIOUS
  <2>3. addresses' = m.maps /\ built' = built \cup {m.config}
    BY <2>1, <2>2
  <2>4. url \in ContractAddress /\ Preset \in Network
    BY <2>1, SetupAssumption DEF OverrideUrl, ContractAddress
  <2>5. /\ MapsSound' /\ DOMAIN addresses \subseteq DOMAIN addresses'
        /\ \A i \in DOMAIN addresses : addresses'[i] = addresses[i]
    BY <2>2, <2>3, <2>4, MergeIs
  <2>8. ConfigSound(m.config)'
    BY <2>2, <2>3, <2>4, MergeIs
  <2>9. builders' = builders
    BY <1>6 DEF CreateCustomConfig
  <2>10. QED
    BY <1>4, <2>3, <2>5, <2>8, <2>9
<1>7. ASSUME NEW n \in Network, NewBuilder(n) PROVE SetupInv'
  <2>1. addresses' = addresses /\ built' = built
        /\ builders' = builders \cup {DEFAULT_CONFIGS(n)}
    BY <1>7 DEF NewBuilder
  <2>2. PICK c : c = DEFAULT_CONFIGS(n)
    OBVIOUS
  <2>3. ConfigSound(c)' /\ c.map = c.network
    BY <1>5, <2>1, <2>2, PresetSound
  <2>4. QED
    BY <1>4, <1>5, <2>1, <2>2, <2>3
<1>8. ASSUME NEW b \in builders, WithRpcUrl(b) PROVE SetupInv'
  <2>1. PICK url \in OverrideUrl(b.network) : builders' = (builders \ {b}) \cup {[b EXCEPT !.url = url]}
    BY <1>8 DEF WithRpcUrl
  <2>2. ConfigSound(b) /\ b.map = b.network
    BY DEF SetupInv
  <2>3. PICK c : c = [b EXCEPT !.url = url]
    OBVIOUS
  <2>4. url \in ContractAddress
    BY <2>1, <2>2 DEF OverrideUrl, ContractAddress, ConfigSound, ConfigRecord
  <2>5. c \in ConfigRecord /\ c.map = b.map /\ c.network = b.network /\ c.from = b.from
    BY <2>2, <2>3, <2>4 DEF ConfigSound, ConfigRecord
  <2>6. ConfigSound(c) /\ c.map = c.network
    BY <2>2, <2>5 DEF ConfigSound, Apart
  <2>7. addresses' = addresses /\ built' = built
    BY <1>8 DEF WithRpcUrl
  <2>8. ConfigSound(c)'
    BY <1>5, <2>6, <2>7
  <2>9. QED
    BY <1>4, <1>5, <2>1, <2>3, <2>6, <2>7, <2>8
<1>9. ASSUME NEW b \in builders, WithContract(b) PROVE SetupInv'
  <2>1. PICK q \in Registry, a \in {b.network, Unusable} :
           addresses' = [addresses EXCEPT ![b.map] = [@ EXCEPT ![q] = a]]
    BY <1>9 DEF WithContract
  <2>2. PICK n \in Network : n = b.map /\ n = b.network
    BY DEF SetupInv, ConfigSound, ConfigRecord
  <2>3. PICK own : own = [addresses[n] EXCEPT ![q] = a]
    OBVIOUS
  <2>4. addresses[n] \in ContractMap /\ (\A r \in Registry : addresses[n][r] \in {n, Unusable})
        /\ n \in DOMAIN addresses
    BY DEF SetupInv, MapsSound
  <2>5. own \in ContractMap /\ \A r \in Registry : own[r] \in {n, Unusable}
    BY <2>1, <2>2, <2>3, <2>4 DEF ContractMap, ContractAddress
  <2>6. /\ DOMAIN addresses' = DOMAIN addresses /\ addresses'[n] = own
        /\ \A i \in DOMAIN addresses \ {n} : addresses'[i] = addresses[i]
        /\ addresses' = [i \in DOMAIN addresses' |-> addresses'[i]]
    BY <2>1, <2>2, <2>3, <2>4
  <2>7. MapsSound'
    <3>1. \A i \in DOMAIN addresses' : addresses'[i] \in ContractMap
      BY <2>5, <2>6 DEF SetupInv, MapsSound
    <3>2. \A k \in Network : \A r \in Registry : addresses'[k][r] \in {k, Unusable}
      BY <2>5, <2>6 DEF SetupInv, MapsSound
    <3>3. QED
      BY <2>6, <3>1, <3>2 DEF SetupInv, MapsSound, NewMap
  <2>8. built' = built /\ builders' = builders
    BY <1>9 DEF WithContract
  <2>9. QED
    BY <1>4, <2>6, <2>7, <2>8
<1>10. ASSUME NEW b \in builders, NEW v \in BOOLEAN, Build(b, v) PROVE SetupInv'
  <2>1. addresses' = addresses /\ builders' = builders /\ built' = built \cup {b}
    BY <1>10 DEF Build
  <2>2. ConfigSound(b)'
    BY <1>5, <2>1 DEF SetupInv
  <2>3. QED
    BY <1>4, <1>5, <2>1, <2>2
<1>11. QED
  BY <1>6, <1>7, <1>8, <1>9, <1>10 DEF Configure

\* Clients made from a configuration name contracts of its network.
LEMMA ClientsAre ==
    ASSUME SetupInv, NEW c, ConfigSound(c)', NEW n, n = setups', n \in Nat, MapsSound',
           NEW cl, cl = Clients(c, addresses')
    PROVE  /\ cl \in ClientRecord /\ Apart(cl, cl.contracts) /\ cl.made = n
           /\ cl.network = c.network /\ cl.contracts = addresses'[c.map]
<1>1. c \in ConfigRecord' /\ addresses'[c.map] \in ContractMap /\ Apart(c, addresses'[c.map])
  BY DEF ConfigSound, ConfigRecord, MapsSound
<1>2. cl = [network |-> c.network, url |-> c.url, contracts |-> addresses'[c.map],
              from |-> c.from, made |-> n]
  BY DEF Clients
<1>3. QED
  BY <1>1, <1>2 DEF ConfigRecord, ClientRecord, Apart

\* An SDK is made, or switches its network.
LEMMA ComposeKeeps ==
    ASSUME SetupInv, Setup, Compose, work' = work
    PROVE  SetupInv'
<1>1. setups \in Nat /\ setups' = setups + 1 /\ setups' \in Nat /\ setups <= setups'
  BY DEF Setup, SetupInv
<1>2. built' = built /\ builders' = builders
  BY DEF Compose, NewSdk, SdkSwitchNetwork
<1>3. ASSUME MapsSound', DOMAIN addresses \subseteq DOMAIN addresses',
             \A i \in DOMAIN addresses \ Network : addresses'[i] = addresses[i],
             NEW u, sdk' = {u}, SdkSound(u)',
             (\E s \in sdk : u.clients = s.clients) \/ u.clients.made = setups'
      PROVE  SetupInv'
  <2>1. \A c : ConfigSound(c) => ConfigSound(c)'
    BY <1>1, <1>3, ConfigsKeep
  <2>2. \A t \in Task : WorkSound(work[t])'
    BY <1>1, <1>3, WorkKeeps
  <2>3. work' \in [Task -> WorkRecord]
    BY DEF SetupInv
  <2>4. QED
    BY <1>1, <1>2, <1>3, <2>1, <2>2, <2>3 DEF SetupInv, WorkRecord, ClientRecord
<1>4. ASSUME NEW c \in built \cup {DEFAULT_CONFIGS(n) : n \in Network}, NEW v \in BOOLEAN,
             NewSdk(c, v)
      PROVE  SetupInv'
  <2>1. addresses' = addresses
    BY <1>4 DEF NewSdk
  <2>2. /\ MapsSound' /\ DOMAIN addresses \subseteq DOMAIN addresses'
        /\ \A i \in DOMAIN addresses \ Network : addresses'[i] = addresses[i]
    BY <2>1 DEF SetupInv, MapsSound, NewMap
  <2>3. ConfigSound(c)
    BY PresetSound DEF SetupInv
  <2>4. ConfigSound(c)'
    BY <2>1, <2>3 DEF ConfigSound, ConfigRecord, Apart
  <2>5. PICK n : n = setups'
    OBVIOUS
  <2>6. PICK cl : cl = Clients(c, addresses')
    OBVIOUS
  <2>7. /\ cl \in ClientRecord /\ Apart(cl, cl.contracts) /\ cl.made = n
        /\ cl.network = c.network /\ cl.contracts = addresses'[c.map]
    BY <1>1, <2>2, <2>4, <2>5, <2>6, ClientsAre
  <2>8. PICK u : u = [config |-> c, clients |-> cl, gdpr |-> cl, checked |-> v]
    OBVIOUS
  <2>9. sdk' = {u}
    BY <1>4, <2>1, <2>6, <2>8 DEF NewSdk
  <2>10. v => \A r \in Registry : ValidContractAddress(cl.contracts[r])
    BY <1>4, <2>1, <2>7 DEF NewSdk, ValidConfig
  <2>11. SdkSound(u)'
    BY <1>1, <2>4, <2>5, <2>7, <2>8, <2>10 DEF SdkSound, ClientRecord, Apart,
       ValidContractAddress
  <2>12. QED
    BY <1>3, <2>2, <2>5, <2>7, <2>8, <2>9, <2>11
<1>5. ASSUME NEW s \in sdk, NEW n \in Network, SdkSwitchNetwork(s, n) PROVE SetupInv'
  <2>0. PICK other \in Network : \E given \in Overrides(other), url \in OverrideUrl(other) \cup {n} :
          LET m == MergeConfig(DEFAULT_CONFIGS(n), other, url, given) IN
          /\ addresses' = m.maps
          /\ sdk' = {Switched(s, m)}
    BY <1>5 DEF SdkSwitchNetwork
  <2>1. PICK given \in Overrides(other), url \in OverrideUrl(other) \cup {n} :
          LET m == MergeConfig(DEFAULT_CONFIGS(n), other, url, given) IN
          /\ addresses' = m.maps
          /\ sdk' = {Switched(s, m)}
    BY <2>0
  <2>2. PICK m : m = MergeConfig(DEFAULT_CONFIGS(n), other, url, given)
    OBVIOUS
  <2>3. PICK c : c = m.config
    OBVIOUS
  <2>4. addresses' = m.maps /\ url \in ContractAddress
    BY <2>1, <2>2 DEF OverrideUrl, ContractAddress
  <2>5. /\ MapsSound' /\ DOMAIN addresses \subseteq DOMAIN addresses'
        /\ \A i \in DOMAIN addresses : addresses'[i] = addresses[i]
    BY <2>2, <2>4, MergeIs
  <2>6. ConfigSound(c)' /\ c.map \notin Network
    <3>1. ConfigSound(m.config)'
      BY <2>2, <2>4, MergeIs
    <3>2. PICK id : /\ id \notin Network
                    /\ m.config = [network |-> other, url |-> url, map |-> id, from |-> n]
      BY <2>2, <2>4, MergeIs
    <3>3. QED
      BY <2>3, <3>1, <3>2
  <2>7. PICK k : k = setups'
    OBVIOUS
  <2>8. PICK cl : cl = Clients(c, addresses')
    OBVIOUS
  <2>9. /\ cl \in ClientRecord /\ Apart(cl, cl.contracts) /\ cl.made = k
        /\ cl.network = c.network /\ cl.contracts = addresses'[c.map]
    BY <1>1, <2>5, <2>6, <2>7, <2>8, ClientsAre
  <2>10. SdkSound(s)
    BY DEF SetupInv
  <2>11. CASE ValidConfig(c, addresses')
    <3>1. PICK u : u = [config |-> c, clients |-> cl, gdpr |-> s.gdpr, checked |-> TRUE]
      OBVIOUS
    <3>2. sdk' = {u}
      <4>1. sdk' = {Switched(s, m)}
        BY <2>1, <2>2
      <4>2. Switched(s, m) = [s EXCEPT !.config = c, !.clients = cl, !.checked = TRUE]
        BY <2>3, <2>4, <2>8, <2>11 DEF Switched
      <4>3. QED
        BY <2>10, <3>1, <4>1, <4>2 DEF SdkSound
    <3>3. SdkSound(u)'
      BY <1>1, <2>5, <2>6, <2>7, <2>9, <2>10, <2>11, <3>1 DEF SdkSound, ClientRecord, Apart,
         ValidContractAddress, ValidConfig
    <3>4. QED
      BY <1>3, <2>5, <2>7, <2>9, <3>1, <3>2, <3>3
  <2>12. CASE ~ValidConfig(c, addresses')
    <3>1. PICK u : u = [config |-> c, clients |-> s.clients, gdpr |-> s.gdpr,
                        checked |-> s.checked]
      OBVIOUS
    <3>2. sdk' = {u}
      <4>1. sdk' = {Switched(s, m)}
        BY <2>1, <2>2
      <4>2. Switched(s, m) = [s EXCEPT !.config = c]
        BY <2>3, <2>4, <2>12 DEF Switched
      <4>3. QED
        BY <2>10, <3>1, <4>1, <4>2 DEF SdkSound
    <3>3. s.clients.made <= setups'
      BY <1>1, <2>10 DEF SdkSound, ClientRecord
    <3>4. SdkSound(u)'
      BY <2>5, <2>6, <2>10, <2>12, <3>1, <3>3 DEF SdkSound, ClientRecord, Apart,
         ValidContractAddress, ValidConfig
    <3>5. QED
      BY <1>3, <2>5, <3>1, <3>2, <3>4
  <2>13. QED
    BY <2>11, <2>12
<1>6. QED
  BY <1>4, <1>5 DEF Compose

-----------------------------------------------------------------------------
\* A call moves, and nothing else.
LEMMA TaskKeeps ==
    ASSUME SetupInv, NEW t \in Task, NEW w \in WorkRecord, WorkSound(w),
           work' = [work EXCEPT ![t] = w], UNCHANGED Assembly
    PROVE  SetupInv'
<1>1. /\ addresses' = addresses /\ builders' = builders /\ built' = built /\ sdk' = sdk
      /\ setups' = setups
  BY DEF Assembly
<1>2. work' \in [Task -> WorkRecord]
  BY DEF SetupInv
<1>3. \A u \in Task : WorkSound(work'[u])
  BY DEF SetupInv
<1>4. \A u \in Task : WorkSound(work[u])'
  BY <1>1, <1>3 DEF WorkSound, PartsInOrder
<1>5. \A c : ConfigSound(c)' <=> ConfigSound(c)
  BY <1>1 DEF ConfigSound, ConfigRecord, Apart
<1>6. \A s : SdkSound(s) => SdkSound(s)'
  BY <1>1, <1>5 DEF SdkSound, ClientRecord, Apart, ValidConfig, ValidContractAddress
<1>7. MapsSound'
  BY <1>1 DEF SetupInv, MapsSound, NewMap
<1>8. QED
  BY <1>1, <1>2, <1>4, <1>5, <1>6, <1>7 DEF SetupInv, WorkRecord, ClientRecord

\* A call that moves without going through other clients.
LEMMA TaskPasses ==
    ASSUME SetupInv, NEW t \in Task, NEW at \in {"last", "returned", "threw", "ledger"},
           NEW healthy \in BOOLEAN, UNCHANGED Assembly,
           work' = [work EXCEPT ![t] = [work[t] EXCEPT !.at = at, !.healthy = healthy]]
    PROVE  SetupInv'
<1>1. PICK v : v = work[t]
  OBVIOUS
<1>2. v \in WorkRecord /\ WorkSound(v)
  BY <1>1 DEF SetupInv
<1>3. PICK w : w = [v EXCEPT !.at = at, !.healthy = healthy]
  OBVIOUS
<1>4. w \in WorkRecord
  BY <1>2, <1>3 DEF WorkRecord
<1>5. w.through = v.through /\ w.begun = v.begun /\ w.at # "first"
  BY <1>2, <1>3 DEF WorkRecord
<1>6. WorkSound(w)
  BY <1>2, <1>5 DEF WorkSound, PartsInOrder
<1>7. QED
  BY <1>1, <1>3, <1>4, <1>6, TaskKeeps

\* A call that has not begun.
LEMMA NoWorkSound ==
    /\ NoWork \in WorkRecord
    /\ setups \in Nat => WorkSound(NoWork)
<1>1. NoWork.through = <<>> /\ NoWork.begun = 0 /\ NoWork.at = "new"
  BY DEF NoWork
<1>2. NoWork \in WorkRecord
  BY DEF NoWork, WorkRecord, ContractAddress
<1>3. setups \in Nat => WorkSound(NoWork)
  BY <1>1 DEF WorkSound, PartsInOrder
<1>4. QED
  BY <1>2, <1>3

\* A call begins, through the clients there are.
LEMMA BeginsKeeps ==
    ASSUME SetupInv, NEW t \in Task, NEW asked \in {"initialize", "check", "profile"},
           NEW at \in {"first", "last"}, NEW parts \in Nat, Begins(t, asked, at, parts)
    PROVE  SetupInv'
<1>1. PICK s \in sdk :
        work' = [work EXCEPT ![t] = [NoWork EXCEPT !.method = asked, !.at = at, !.begun = setups,
                                                   !.through = [i \in 1 .. parts |-> s.clients]]]
  BY DEF Begins
<1>2. PICK cl : cl = s.clients
  OBVIOUS
<1>3. PICK through : through = [i \in 1 .. parts |-> cl]
  OBVIOUS
<1>4. PICK b : b = setups
  OBVIOUS
<1>5. PICK w : w = [NoWork EXCEPT !.method = asked, !.at = at, !.begun = b, !.through = through]
  OBVIOUS
<1>6. work' = [work EXCEPT ![t] = w]
  BY <1>1, <1>2, <1>3, <1>4, <1>5
<1>7. cl \in ClientRecord /\ cl.made \in Nat /\ cl.made <= b /\ b \in Nat
      /\ \A u \in sdk : u.clients = cl
  <2>1. SdkSound(s) /\ sdk = {s}
    BY DEF SetupInv
  <2>2. QED
    BY <1>2, <1>4, <2>1 DEF SetupInv, SdkSound, ClientRecord
<1>8. through \in Seq(ClientRecord) /\ \A i \in DOMAIN through : through[i] = cl
  BY <1>3, <1>7
<1>9. w \in WorkRecord
  BY <1>5, <1>7, <1>8, NoWorkSound DEF WorkRecord
<1>10. w.through = through /\ w.begun = b
  BY <1>5, NoWorkSound DEF WorkRecord
<1>11. WorkSound(w)
  BY <1>4, <1>7, <1>8, <1>10 DEF WorkSound, PartsInOrder
<1>12. QED
  BY <1>6, <1>9, <1>11, TaskKeeps DEF Begins

\* A call goes on through the clients there are by then.
LEMMA NextPartKeeps ==
    ASSUME SetupInv, NEW t \in Task, NextPart(t)
    PROVE  SetupInv'
<1>1. PICK s \in sdk :
        work' = [work EXCEPT ![t].at = "last", ![t].through = Append(@, ClientsNow(s))]
  BY DEF NextPart
<1>2. PICK v : v = work[t]
  OBVIOUS
<1>3. PICK cl : cl = s.clients
  OBVIOUS
<1>4. PICK n : n = Len(v.through)
  OBVIOUS
<1>5. PICK through : through = Append(v.through, cl)
  OBVIOUS
<1>6. PICK w : w = [v EXCEPT !.at = "last", !.through = through]
  OBVIOUS
<1>7. v \in WorkRecord /\ WorkSound(v) /\ v.at = "first" /\ SdkSound(s)
  BY <1>2 DEF SetupInv, NextPart
<1>8. work' = [work EXCEPT ![t] = w]
  BY <1>1, <1>2, <1>3, <1>5, <1>6 DEF SetupInv, ClientsNow
<1>9. cl \in ClientRecord /\ v.through \in Seq(ClientRecord) /\ v.begun \in Nat
      /\ cl.made \in Nat
  BY <1>3, <1>7 DEF SdkSound, WorkRecord, ClientRecord
<1>10. /\ n \in Nat /\ DOMAIN v.through = 1 .. n /\ DOMAIN through = 1 .. (n + 1)
       /\ through[n + 1] = cl /\ \A i \in 1 .. n : through[i] = v.through[i]
       /\ through \in Seq(ClientRecord)
  BY <1>4, <1>5, <1>9
<1>11. w \in WorkRecord
  BY <1>6, <1>7, <1>10 DEF WorkRecord
<1>12. w.through = through /\ w.begun = v.begun /\ w.at = "last"
  BY <1>6, <1>7 DEF WorkRecord
<1>13. \A i, j \in 1 .. n : through[i] = through[j] /\ through[i].made <= v.begun
                            /\ through[i].made \in Nat
  <2>1. \A i, j \in 1 .. n : v.through[i] = v.through[j] /\ v.through[i].made <= v.begun
    BY <1>7, <1>10 DEF WorkSound
  <2>2. \A i \in 1 .. n : v.through[i] \in ClientRecord
    BY <1>9, <1>10
  <2>3. QED
    BY <1>10, <2>1, <2>2 DEF ClientRecord
<1>14. \A i \in 1 .. n : through[i] = cl \/ cl.made > v.begun
  BY <1>3, <1>7, <1>10 DEF WorkSound
<1>15. PartsInOrder(w)
  <2> SUFFICES ASSUME NEW i \in 1 .. (n + 1), NEW j \in 1 .. (n + 1)
               PROVE  /\ i < j => through[i].made <= through[j].made
                      /\ through[i] # through[j] =>
                            \E k \in {i, j} : through[k].made > v.begun
    BY <1>10, <1>12 DEF PartsInOrder
  <2>1. CASE i \in 1 .. n /\ j \in 1 .. n
    BY <1>13, <2>1
  <2>2. CASE i \in 1 .. n /\ j = n + 1
    BY <1>9, <1>10, <1>13, <1>14, <2>2
  <2>3. CASE i = n + 1 /\ j \in 1 .. n
    BY <1>9, <1>10, <1>14, <2>3
  <2>4. CASE i = n + 1 /\ j = n + 1
    BY <1>9, <1>10, <2>4
  <2>5. QED
    BY <1>10, <2>1, <2>2, <2>3, <2>4
<1>16. WorkSound(w)
  BY <1>7, <1>12, <1>15 DEF WorkSound
<1>17. QED
  BY <1>8, <1>11, <1>16, TaskKeeps DEF NextPart

\* A health check begins.
LEMMA CheckHealthKeeps ==
    ASSUME SetupInv, NEW t \in Task, CheckHealth(t)
    PROVE  SetupInv'
<1>1. PICK s \in sdk :
        work' = [work EXCEPT ![t] = [NoWork EXCEPT !.method = "health", !.at = "health",
                                                   !.url = s.config.url]]
  BY DEF CheckHealth
<1>2. PICK url : url = s.config.url
  OBVIOUS
<1>3. PICK w : w = [NoWork EXCEPT !.method = "health", !.at = "health", !.url = url]
  OBVIOUS
<1>4. work' = [work EXCEPT ![t] = w]
  BY <1>1, <1>2, <1>3
<1>5. url \in ContractAddress /\ setups \in Nat
  BY <1>2 DEF SetupInv, SdkSound, ConfigSound, ConfigRecord
<1>6. w \in WorkRecord
  BY <1>3, <1>5, NoWorkSound DEF WorkRecord
<1>7. w.through = NoWork.through /\ w.begun = NoWork.begun /\ w.at = "health"
  BY <1>3, NoWorkSound DEF WorkRecord
<1>8. WorkSound(w)
  BY <1>5, <1>7, NoWorkSound DEF WorkSound, PartsInOrder
<1>9. QED
  BY <1>4, <1>6, <1>8, TaskKeeps DEF CheckHealth

\* A part ends, fails, or a health check is answered.
LEMMA AnswersKeep ==
    ASSUME SetupInv, NEW t \in Task,
           LastPart(t) \/ PartThrows(t) \/ HealthAnswered(t) \/ LedgerAnswered(t)
    PROVE  SetupInv'
<1>1. work[t] \in WorkRecord /\ UNCHANGED Assembly
  BY DEF SetupInv, LastPart, PartThrows, HealthAnswered, LedgerAnswered
<1>2. work[t].healthy \in BOOLEAN
  BY <1>1 DEF WorkRecord
<1>3. ASSUME NEW at \in {"last", "returned", "threw", "ledger"},
             work' = [work EXCEPT ![t].at = at]
      PROVE  SetupInv'
  <2>1. PICK healthy \in BOOLEAN : healthy = work[t].healthy
    BY <1>2
  <2>2. work' = [work EXCEPT ![t] = [work[t] EXCEPT !.at = at, !.healthy = healthy]]
    BY <1>1, <1>3, <2>1 DEF WorkRecord
  <2>3. QED
    BY <1>1, <2>2, TaskPasses
<1>4. ASSUME work' = [work EXCEPT ![t].at = "ledger", ![t].healthy = TRUE]
      PROVE  SetupInv'
  <2>1. work' = [work EXCEPT ![t] = [work[t] EXCEPT !.at = "ledger", !.healthy = TRUE]]
    BY <1>1, <1>4 DEF SetupInv
  <2>2. QED
    BY <1>1, <2>1, TaskPasses
<1>5. QED
  BY <1>3, <1>4 DEF LastPart, PartThrows, HealthAnswered, LedgerAnswered

\* Each step of configurations, SDK and calls keeps the invariant.
LEMMA SetupStep ==
    ASSUME SetupInv, [SetupNext]_setupVars
    PROVE  SetupInv'
<1>1. CASE Setup /\ (Configure \/ Compose) /\ UNCHANGED work
  BY <1>1, ConfigureKeeps, ComposeKeeps
<1>2. ASSUME NEW t \in Task,
             InitializeUserIdentity(t) \/ PerformComplianceCheck(t) \/ GetIdentityProfile(t)
      PROVE  SetupInv'
  BY <1>2, BeginsKeeps DEF InitializeUserIdentity, PerformComplianceCheck, GetIdentityProfile
<1>3. ASSUME NEW t \in Task,
             NextPart(t) \/ LastPart(t) \/ PartThrows(t)
                \/ CheckHealth(t) \/ HealthAnswered(t) \/ LedgerAnswered(t)
      PROVE  SetupInv'
  BY <1>3, NextPartKeeps, CheckHealthKeeps, AnswersKeep
<1>4. CASE UNCHANGED setupVars
  <2>1. \A c : ConfigSound(c)' <=> ConfigSound(c)
    BY <1>4 DEF setupVars, ConfigSound, ConfigRecord, Apart
  <2>2. \A s : SdkSound(s) => SdkSound(s)'
    BY <1>4, <2>1 DEF setupVars, SdkSound, ClientRecord, Apart, ValidConfig, ValidContractAddress
  <2>3. \A w : WorkSound(w) => WorkSound(w)'
    BY <1>4 DEF setupVars, WorkSound, PartsInOrder
  <2>4. MapsSound'
    BY <1>4 DEF setupVars, SetupInv, MapsSound, NewMap
  <2>5. QED
    BY <1>4, <2>1, <2>2, <2>3, <2>4 DEF setupVars, SetupInv, WorkRecord, ClientRecord
<1>5. QED
  BY <1>1, <1>2, <1>3, <1>4 DEF SetupNext

\* The presets and no SDK.
LEMMA SetupStart ==
    SetupInit => SetupInv
<1> SUFFICES ASSUME SetupInit PROVE SetupInv
  OBVIOUS
<1>1. DOMAIN addresses = Network /\ DOMAIN addresses \ Network = {}
  BY DEF SetupInit
<1>2. \A n \in Network : /\ addresses[n] \in ContractMap
                         /\ \A r \in Registry : addresses[n][r] \in {n, Unusable}
  BY DEF SetupInit, ContractMap, ContractAddress
<1>3. IsFiniteSet(DOMAIN addresses \ Network)
  BY <1>1, FS_EmptySet
<1>4. MapsSound
  BY <1>1, <1>2, <1>3 DEF SetupInit, MapsSound
<1>5. setups = 0 /\ NoWork \in WorkRecord /\ WorkSound(NoWork)
  BY NoWorkSound DEF SetupInit
<1>6. QED
  BY <1>4, <1>5 DEF SetupInit, SetupInv

\* The invariant of the setup.
LEMMA SetupInvariance == SetupSpec => []SetupInv
<1>1. QED
  BY SetupStart, SetupStep, PTL DEF SetupSpec

\* For any networks, contracts, maps and calls a configuration and the clients made from
\* it name contracts of their own network, besides testnet's when it was made from
\* testnet's preset; clients that were checked have every address; and the parts of a
\* call go through clients in the order in which they were made: config.ts copies
\* configurations but not their maps of addresses, and index.ts sets the configuration
\* of an SDK before it validates it.
THEOREM NetworksAlwaysApart == SetupSpec => []NetworksKeptApart
<1>1. SetupInv => NetworksKeptApart
  <2> SUFFICES ASSUME SetupInv PROVE NetworksKeptApart
    OBVIOUS
  <2>1. ASSUME NEW c \in built \cup builders \cup {DEFAULT_CONFIGS(n) : n \in Network}
                            \cup {s.config : s \in sdk}
        PROVE  Apart(c, addresses[c.map])
    <3>1. CASE c \in {DEFAULT_CONFIGS(n) : n \in Network}
      BY <3>1, PresetSound DEF ConfigSound
    <3>2. CASE c \in built \cup builders \cup {s.config : s \in sdk}
      BY <3>2 DEF SetupInv, SdkSound, ConfigSound
    <3>3. QED
      BY <2>1, <3>1, <3>2
  <2>2. \A s \in sdk :
          /\ \A cl \in {s.clients, s.gdpr} : Apart(cl, cl.contracts)
          /\ s.checked => \A r \in Registry : ValidContractAddress(s.clients.contracts[r])
          /\ s.config.network # s.clients.network => ~ValidConfig(s.config, addresses)
    BY DEF SetupInv, SdkSound
  <2>3. \A t \in Task : PartsInOrder(work[t])
    BY DEF SetupInv, WorkSound
  <2>4. QED
    BY <2>1, <2>2, <2>3 DEF NetworksKeptApart, PartsInOrder
<1>2. QED
  BY <1>1, SetupInvariance, PTL

-----------------------------------------------------------------------------
(***************************************************************************)
(* ServiceClients: what a call reports of its submissions.                 *)
(***************************************************************************)
Kinds == {"none", "blind", "checked", "valued", "breakdown", "bestEffort", "forgiving"}
Places == Awaiting \cup {"new", "returned", "refused", "threw", "false"}

TaskRecord == [kind : Kinds, at : Places, number : Nat, left : Nat, value : Nat,
               sends : Nat, before : Nat]
SentRecord == [call : ServiceCall, number : Nat]
LandedRecord == [call : ServiceCall, number : Nat, value : Nat]

ServiceTypes ==
    /\ accountSeq \in Nat /\ changesMade \in Nat
    /\ task \in [ServiceCall -> TaskRecord]
    /\ mempool \in SUBSET SentRecord /\ IsFiniteSet(mempool)
    /\ landed \in SUBSET LandedRecord /\ IsFiniteSet(landed)

Waiting(c) == {t \in mempool : t.call = c}
Made(c) == {t \in landed : t.call = c}

\* What landed of a call and what may still land was sent.
SentCounted == \A c \in ServiceCall : Cardinality(Made(c)) + Cardinality(Waiting(c)) <= task[c].sends

\* A call that throws on ERROR sends once; one that returns a value has learned it.
CourseSound(r) ==
    /\ r.at = "new" => r.kind = "none" /\ r.sends = 0
    /\ r.at = "list" => r.kind = "forgiving"
    /\ r.at \in {"proof", "account", "prepare", "send"} => r.left >= 1
    /\ r.at \in {"result", "simulate", "percentile"} => r.kind \in {"valued", "breakdown"}
    /\ r.kind \in ReportsErrors =>
          /\ r.left <= 1
          /\ r.at \in {"proof", "account", "prepare", "send", "refused"} => r.sends = 0
    /\ r.at = "refused" => r.kind \in ReportsErrors
    /\ r.kind \in {"valued", "breakdown"} /\ r.at \in {"percentile", "returned"} =>
          r.value > r.before

ValuesCount ==
    /\ \A c \in ServiceCall : task[c].before <= changesMade
    /\ \A t \in landed : t.value > 0 => t.value > task[t.call].before

ServiceInv ==
    /\ ServiceTypes /\ SentCounted /\ ValuesCount
    /\ \A c \in ServiceCall : CourseSound(task[c])

\* What a call sent and what of it is waiting is finite, and nothing before the first
\* submission.
LEMMA CountsAre ==
    ASSUME ServiceInv, NEW c \in ServiceCall
    PROVE  /\ IsFiniteSet(Made(c)) /\ IsFiniteSet(Waiting(c))
           /\ Cardinality(Made(c)) \in Nat /\ Cardinality(Waiting(c)) \in Nat
           /\ task[c].sends = 0 => Made(c) = {} /\ Waiting(c) = {}
<1>1. IsFiniteSet(Made(c)) /\ IsFiniteSet(Waiting(c))
  BY FS_Subset DEF ServiceInv, ServiceTypes, Made, Waiting
<1>2. Cardinality(Made(c)) \in Nat /\ Cardinality(Waiting(c)) \in Nat
  BY <1>1, FS_CardinalityType
<1>3. task[c].sends = 0 => Cardinality(Made(c)) = 0 /\ Cardinality(Waiting(c)) = 0
  BY <1>2 DEF ServiceInv, SentCounted
<1>4. QED
  BY <1>1, <1>2, <1>3, FS_EmptySet

\* A call goes on, and the network stays as it is.
LEMMA CallKeeps ==
    ASSUME ServiceInv, NEW c \in ServiceCall, NEW r \in TaskRecord, CourseSound(r),
           task' = [task EXCEPT ![c] = r], UNCHANGED Chain,
           r.sends >= task[c].sends,
           r.before = task[c].before \/ (task[c].sends = 0 /\ r.before = changesMade)
    PROVE  ServiceInv'
<1>1. task' \in [ServiceCall -> TaskRecord] /\ task'[c] = r
      /\ \A d \in ServiceCall \ {c} : task'[d] = task[d]
  BY DEF ServiceInv, ServiceTypes
<1>2. ServiceTypes'
  BY <1>1 DEF ServiceInv, ServiceTypes, Chain
<1>3. SentCounted'
  <2>1. \A d \in ServiceCall : Made(d)' = Made(d) /\ Waiting(d)' = Waiting(d)
    BY DEF Chain, Made, Waiting
  <2>2. ASSUME NEW d \in ServiceCall
        PROVE  Cardinality(Made(d)) + Cardinality(Waiting(d)) <= task'[d].sends
    <3>1. /\ Cardinality(Made(d)) \in Nat /\ Cardinality(Waiting(d)) \in Nat
          /\ task[d].sends \in Nat /\ r.sends \in Nat
          /\ Cardinality(Made(d)) + Cardinality(Waiting(d)) <= task[d].sends
      BY CountsAre DEF ServiceInv, ServiceTypes, SentCounted, TaskRecord
    <3>2. QED
      BY <1>1, <3>1
  <2>3. QED
    BY <2>1, <2>2 DEF SentCounted
<1>4. ValuesCount'
  <2>1. task[c].sends = 0 => \A t \in landed : t.call # c
    BY CountsAre DEF Made
  <2>2. \A t \in landed : t.call \in ServiceCall
    BY DEF ServiceInv, ServiceTypes, LandedRecord
  <2>3. changesMade \in Nat
    BY DEF ServiceInv, ServiceTypes
  <2>4. \A d \in ServiceCall : task'[d].before <= changesMade
    BY <1>1, <2>3 DEF ServiceInv, ValuesCount
  <2>5. \A t \in landed : t.value > 0 => t.value > task'[t.call].before
    BY <1>1, <2>1, <2>2 DEF ServiceInv, ValuesCount
  <2>6. QED
    BY <2>4, <2>5 DEF ValuesCount, Chain
<1>5. \A d \in ServiceCall : CourseSound(task[d])'
  <2>1. \A d \in ServiceCall : CourseSound(task'[d])
    BY <1>1 DEF ServiceInv
  <2>2. QED
    BY <2>1 DEF CourseSound
<1>6. QED
  BY <1>2, <1>3, <1>4, <1>5 DEF ServiceInv

\* What holds of a call at any time.
LEMMA HeldTask ==
    ASSUME ServiceInv, NEW c \in ServiceCall
    PROVE  /\ task[c] \in TaskRecord /\ CourseSound(task[c])
           /\ accountSeq \in Nat /\ changesMade \in Nat /\ task[c].before <= changesMade
  BY DEF ServiceInv, ServiceTypes, ValuesCount

\* Which course a method takes: its kind, what it does first, and how many it sends.
LEMMA MethodIs ==
    ASSUME NEW c, ZkMethod(c) \/ ReportMethod(c) \/ SubjectMethod(c)
    PROVE  \E kind \in Kinds, first \in {"proof", "account", "list"}, left \in Nat :
              /\ Begin(c, kind, first, left)
              /\ kind \in ReportsErrors => left <= 1
              /\ first = "list" => kind = "forgiving"
              /\ first # "list" => left = 1
<1>1. CASE ZkMethod(c)
  <2>1. Begin(c, "blind", "account", 1) \/ Begin(c, "blind", "proof", 1)
    BY <1>1 DEF ZkMethod, SubmitProof, SubmitAgeProof, SubmitIncomeProof,
       SubmitCredentialOwnershipProof, SubmitRangeProof, CreateAgeProof, CreateIncomeProof,
       CreateKYCProof, CreateLoanApplicationProof, CreateSelectiveDisclosureProof,
       CreateGreaterThanProof, CreateRangeProof, CreateEqualityDisclosure,
       CombineSelectiveDisclosures, RegisterCircuit, DeactivateCircuit, ReactivateCircuit
  <2>2. QED
    BY <2>1 DEF Kinds, ReportsErrors
<1>2. CASE ReportMethod(c)
  <2>1. \/ Begin(c, "checked", "account", 1) \/ Begin(c, "blind", "account", 1)
        \/ Begin(c, "bestEffort", "account", 1)
    BY <1>2 DEF ReportMethod, UpdateSanctionsList, FileRegulatoryReport, RegisterComplianceRule,
       RegisterTemplate, GenerateReport, FileTransactionReport, FileSAR, ScheduleReport,
       CancelSchedule, ExportReport
  <2>2. QED
    BY <2>1 DEF Kinds, ReportsErrors
<1>3. CASE SubjectMethod(c)
  <2>1. \/ Begin(c, "checked", "account", 1) \/ Begin(c, "checked", "proof", 1)
        \/ Begin(c, "valued", "account", 1) \/ Begin(c, "breakdown", "account", 1)
        \/ Begin(c, "forgiving", "account", 1)
        \/ \E n \in 0 .. MaxErased : Begin(c, "forgiving", "list", n)
    BY <1>3 DEF SubjectMethod, IssueByClient, IssueKYCByClient, IssueEducationByClient,
       InitializeReputation, UpdateReputation, UpdateTransactionReputation,
       UpdateCredentialReputation, AttestTrust, ResetReputation, ProcessErasureRequest,
       ProcessRectification
  <2>2. \A n \in 0 .. MaxErased : n \in Nat
    BY ServicesAssumption
  <2>3. QED
    BY <2>1, <2>2 DEF Kinds, ReportsErrors
<1>4. QED
  BY <1>1, <1>2, <1>3

\* A method is called.
LEMMA MethodKeeps ==
    ASSUME ServiceInv, NEW c \in ServiceCall, ZkMethod(c) \/ ReportMethod(c) \/ SubjectMethod(c)
    PROVE  ServiceInv'
<1>1. PICK kind \in Kinds, first \in {"proof", "account", "list"}, left \in Nat :
              /\ Begin(c, kind, first, left)
              /\ kind \in ReportsErrors => left <= 1
              /\ first = "list" => kind = "forgiving"
              /\ first # "list" => left = 1
  BY MethodIs
<1>2. PICK n : n = changesMade
  OBVIOUS
<1>3. PICK r : r = [NewTask EXCEPT !.kind = kind, !.at = first, !.left = left, !.before = n]
  OBVIOUS
<1>4. n \in Nat /\ task[c].at = "new" /\ UNCHANGED Chain
  BY <1>1, <1>2, HeldTask DEF Begin, Chain
<1>5. r.kind = kind /\ r.at = first /\ r.left = left /\ r.before = n /\ r.sends = 0
  BY <1>3 DEF NewTask
<1>6. r \in TaskRecord
  BY <1>3, <1>4 DEF NewTask, TaskRecord, Places, Awaiting
<1>7. CourseSound(r)
  BY <1>1, <1>5 DEF CourseSound
<1>8. task' = [task EXCEPT ![c] = r]
  BY <1>1, <1>2, <1>3 DEF Begin
<1>9. task[c].sends = 0 /\ r.sends >= task[c].sends /\ r.before = changesMade
  BY <1>2, <1>4, <1>5, HeldTask DEF CourseSound
<1>10. QED
  BY <1>2, <1>4, <1>5, <1>6, <1>7, <1>8, <1>9, CallKeeps

Sent(r) ==
    [r EXCEPT !.at = IF r.kind \in {"valued", "breakdown"} THEN "result"
                     ELSE IF r.left > 1 THEN "account" ELSE "returned",
              !.left = @ - 1, !.sends = @ + 1]

\* What a submission leaves of the call, whatever the answer.
LEMMA SubmittedIs ==
    ASSUME ServiceInv, NEW c \in ServiceCall, NEW r, r = Sent(task[c]), Submitted(c)
    PROVE  /\ r \in TaskRecord /\ CourseSound(r) /\ r.before = task[c].before
           /\ r.sends = task[c].sends + 1 /\ r.sends >= task[c].sends
           /\ task' = [task EXCEPT ![c] = r] /\ UNCHANGED <<accountSeq, changesMade, landed>>
<1>1. task[c].at = "send" /\ task[c] \in TaskRecord /\ CourseSound(task[c])
  BY HeldTask DEF Submitted
<1>2. r \in TaskRecord /\ r.kind = task[c].kind /\ r.sends = task[c].sends + 1
      /\ r.before = task[c].before /\ r.left = task[c].left - 1
  <2>1. task[c].left \in Nat /\ task[c].left >= 1 /\ task[c].sends \in Nat
    BY <1>1 DEF TaskRecord, CourseSound
  <2>2. PICK left, sends : left = task[c].left - 1 /\ sends = task[c].sends + 1
    OBVIOUS
  <2>3. left \in Nat /\ sends \in Nat
    BY <2>1, <2>2
  <2>4. PICK to : to = IF task[c].kind \in {"valued", "breakdown"} THEN "result"
                       ELSE IF task[c].left > 1 THEN "account" ELSE "returned"
    OBVIOUS
  <2>5. to \in Places
    BY <2>4 DEF Places, Awaiting
  <2>6. r = [task[c] EXCEPT !.at = to, !.left = left, !.sends = sends]
    BY <1>1, <2>2, <2>4 DEF Sent, TaskRecord
  <2>7. QED
    BY <1>1, <2>2, <2>3, <2>5, <2>6 DEF TaskRecord
<1>3. r.at = IF r.kind \in {"valued", "breakdown"} THEN "result"
             ELSE IF task[c].left > 1 THEN "account" ELSE "returned"
  BY <1>1 DEF Sent, TaskRecord
<1>4. CourseSound(r)
  BY <1>1, <1>2, <1>3 DEF CourseSound, TaskRecord, ReportsErrors
<1>5. task' = [task EXCEPT ![c] = r]
  BY DEF Submitted, Following, Sent
<1>6. task[c].sends \in Nat
  BY <1>1 DEF TaskRecord
<1>7. r.sends >= task[c].sends
  BY <1>2, <1>6
<1>8. UNCHANGED <<accountSeq, changesMade, landed>>
  BY DEF Submitted
<1>9. QED
  BY <1>2, <1>4, <1>5, <1>7, <1>8

\* A call goes on with an answer that is no submission.
LEMMA CourseKeeps ==
    ASSUME ServiceInv, NEW c \in ServiceCall,
           \/ ProofGenerated(c) \/ CredentialsListed(c) \/ SequenceRead(c) \/ Simulated(c)
           \/ SentIgnored(c) \/ SentRefused(c) \/ AnswerFails(c)
           \/ ResultFound(c) \/ ResultMissing(c) \/ ValueSimulated(c) \/ PercentileRead(c)
    PROVE  ServiceInv'
<1>1. ASSUME NEW from, NEW to \in Places, Step(c, from, to), UNCHANGED Chain,
             CourseSound([task[c] EXCEPT !.at = to])
      PROVE  ServiceInv'
  <2>1. PICK r : r = [task[c] EXCEPT !.at = to]
    OBVIOUS
  <2>2. r \in TaskRecord /\ r.sends = task[c].sends /\ r.before = task[c].before
        /\ r.sends >= task[c].sends
    BY <1>1, <2>1, HeldTask DEF TaskRecord
  <2>3. task' = [task EXCEPT ![c] = r]
    BY <1>1, <2>1 DEF Step
  <2>4. QED
    BY <1>1, <2>1, <2>2, <2>3, CallKeeps
<1>2. CASE ProofGenerated(c)
  <2>1. CourseSound([task[c] EXCEPT !.at = "account"])
    BY <1>2, HeldTask DEF ProofGenerated, Step, CourseSound, TaskRecord
  <2>2. QED
    BY <1>1, <1>2, <2>1 DEF ProofGenerated, Places, Awaiting
<1>3. CASE CredentialsListed(c)
  <2>1. PICK to \in {"returned", "account"} :
           /\ Step(c, "list", to) /\ UNCHANGED Chain
           /\ to = "account" => task[c].left # 0
    BY <1>3 DEF CredentialsListed
  <2>2. CourseSound([task[c] EXCEPT !.at = to])
    BY <2>1, HeldTask DEF Step, CourseSound, TaskRecord, ReportsErrors
  <2>3. QED
    BY <1>1, <2>1, <2>2 DEF Places, Awaiting
<1>4. CASE SequenceRead(c)
  <2>1. PICK n : n = accountSeq + 1
    OBVIOUS
  <2>2. PICK r : r = [task[c] EXCEPT !.at = "prepare", !.number = n]
    OBVIOUS
  <2>3. n \in Nat
    BY <2>1, HeldTask
  <2>4. r \in TaskRecord /\ r.sends = task[c].sends /\ r.before = task[c].before
        /\ r.sends >= task[c].sends
    <3>1. task[c].sends \in Nat /\ "prepare" \in Places
      BY HeldTask DEF TaskRecord, Places, Awaiting
    <3>2. QED
      <4>1. r \in TaskRecord
        BY <2>2, <2>3, <3>1, HeldTask DEF TaskRecord
      <4>2. r.sends = task[c].sends /\ r.before = task[c].before
        BY <2>2, HeldTask DEF TaskRecord
      <4>3. QED
        BY <3>1, <4>1, <4>2
  <2>5. CourseSound(r)
    BY <1>4, <2>2, HeldTask DEF SequenceRead, CourseSound, TaskRecord
  <2>6. task' = [task EXCEPT ![c] = r] /\ UNCHANGED Chain
    BY <1>4, <2>1, <2>2 DEF SequenceRead
  <2>7. QED
    BY <2>4, <2>5, <2>6, CallKeeps
<1>5. CASE Simulated(c)
  <2>1. CourseSound([task[c] EXCEPT !.at = "send"])
    BY <1>5, HeldTask DEF Simulated, Step, CourseSound, TaskRecord
  <2>2. QED
    BY <1>1, <1>5, <2>1 DEF Simulated, Places, Awaiting
<1>6. CASE SentIgnored(c)
  <2>1. PICK r : r = Sent(task[c])
    OBVIOUS
  <2>2. r \in TaskRecord /\ CourseSound(r) /\ r.before = task[c].before
        /\ r.sends >= task[c].sends /\ task' = [task EXCEPT ![c] = r]
    BY <1>6, <2>1, SubmittedIs DEF SentIgnored
  <2>3. UNCHANGED Chain
    BY <1>6 DEF SentIgnored, Submitted, Chain
  <2>4. QED
    BY <2>2, <2>3, CallKeeps
<1>7. CASE SentRefused(c)
  <2>1. CourseSound([task[c] EXCEPT !.at = "refused"])
    BY <1>7, HeldTask DEF SentRefused, Step, CourseSound, TaskRecord
  <2>2. QED
    BY <1>1, <1>7, <2>1 DEF SentRefused, Places, Awaiting
<1>8. CASE AnswerFails(c)
  <2>1. PICK to : to = Thrown(c)
    OBVIOUS
  <2>2. to \in Places /\ Step(c, task[c].at, to) /\ UNCHANGED Chain
    BY <1>8, <2>1 DEF AnswerFails, Thrown, Places, Awaiting, Step
  <2>3. CourseSound([task[c] EXCEPT !.at = to])
    BY <2>1, HeldTask DEF Thrown, CourseSound, TaskRecord
  <2>4. QED
    BY <1>1, <2>2, <2>3
<1>9. ASSUME NEW v \in Nat, v > task[c].before, ValueKnown(c, v), UNCHANGED Chain,
             task[c].at \in {"result", "simulate"}
      PROVE  ServiceInv'
  <2>1. PICK r : r = [task[c] EXCEPT !.value = v,
                         !.at = IF task[c].kind = "breakdown" THEN "percentile" ELSE "returned"]
    OBVIOUS
  <2>2. r \in TaskRecord /\ r.sends = task[c].sends /\ r.before = task[c].before
        /\ r.sends >= task[c].sends
    <3>1. task[c].sends \in Nat /\ "percentile" \in Places /\ "returned" \in Places
      BY HeldTask DEF TaskRecord, Places, Awaiting
    <3>2. QED
      <4>1. r \in TaskRecord
        BY <2>1, <3>1, HeldTask DEF TaskRecord
      <4>2. r.sends = task[c].sends /\ r.before = task[c].before
        BY <2>1, HeldTask DEF TaskRecord
      <4>3. QED
        BY <3>1, <4>1, <4>2
  <2>3. CourseSound(r)
    BY <1>9, <2>1, HeldTask DEF CourseSound, TaskRecord, ReportsErrors
  <2>4. task' = [task EXCEPT ![c] = r]
    BY <1>9, <2>1 DEF ValueKnown
  <2>5. QED
    BY <1>9, <2>2, <2>3, <2>4, CallKeeps
<1>10. CASE ResultFound(c)
  <2>1. PICK t \in landed : t.call = c /\ t.value > 0 /\ ValueKnown(c, t.value)
    BY <1>10 DEF ResultFound
  <2>2. t.value \in Nat /\ t.value > task[c].before
    BY <2>1 DEF ServiceInv, ServiceTypes, LandedRecord, ValuesCount
  <2>3. QED
    BY <1>9, <1>10, <2>1, <2>2 DEF ResultFound
<1>11. CASE ResultMissing(c)
  <2>1. CourseSound([task[c] EXCEPT !.at = "simulate"])
    BY <1>11, HeldTask DEF ResultMissing, Step, CourseSound, TaskRecord
  <2>2. QED
    BY <1>1, <1>11, <2>1 DEF ResultMissing, Places, Awaiting
<1>12. CASE ValueSimulated(c)
  <2>1. PICK v : v = SimulatedValue
    OBVIOUS
  <2>2. v \in Nat /\ v > task[c].before
    BY <2>1, HeldTask DEF SimulatedValue, TaskRecord
  <2>3. QED
    BY <1>9, <1>12, <2>1, <2>2 DEF ValueSimulated
<1>13. CASE PercentileRead(c)
  <2>1. CourseSound([task[c] EXCEPT !.at = "returned"])
    BY <1>13, HeldTask DEF PercentileRead, Step, CourseSound, TaskRecord
  <2>2. QED
    BY <1>1, <1>13, <2>1 DEF PercentileRead, Places, Awaiting
<1>14. QED
  BY <1>2, <1>3, <1>4, <1>5, <1>6, <1>7, <1>8, <1>10, <1>11, <1>12, <1>13

\* A submission reaches the network.
LEMMA ChainKeeps ==
    ASSUME ServiceInv, NEW c \in ServiceCall, NEW r \in TaskRecord, CourseSound(r),
           NEW t \in SentRecord, t.call = c, r.sends = task[c].sends + 1,
           r.before = task[c].before, mempool' = mempool \cup {t},
           task' = [task EXCEPT ![c] = r], UNCHANGED <<accountSeq, changesMade, landed>>
    PROVE  ServiceInv'
<1>1. task' \in [ServiceCall -> TaskRecord] /\ task'[c] = r
      /\ \A d \in ServiceCall \ {c} : task'[d] = task[d]
  BY DEF ServiceInv, ServiceTypes
<1>2. IsFiniteSet(mempool')
  BY FS_AddElement DEF ServiceInv, ServiceTypes
<1>3. ServiceTypes'
  BY <1>1, <1>2 DEF ServiceInv, ServiceTypes
<1>4. SentCounted'
  <2>1. ASSUME NEW d \in ServiceCall
        PROVE  Cardinality(Made(d)') + Cardinality(Waiting(d)') <= task'[d].sends
    <3>1. /\ Cardinality(Made(d)) \in Nat /\ Cardinality(Waiting(d)) \in Nat
          /\ task[d].sends \in Nat /\ IsFiniteSet(Waiting(d))
          /\ Cardinality(Made(d)) + Cardinality(Waiting(d)) <= task[d].sends
      BY CountsAre DEF ServiceInv, ServiceTypes, SentCounted, TaskRecord
    <3>2. Made(d)' = Made(d)
      BY DEF Made
    <3>3. CASE d = c
      <4>1. Waiting(d)' = Waiting(d) \cup {t}
        BY <3>3 DEF Waiting
      <4>2. Cardinality(Waiting(d)') \in {Cardinality(Waiting(d)), Cardinality(Waiting(d)) + 1}
        BY <3>1, <4>1, FS_AddElement
      <4>3. QED
        BY <1>1, <3>1, <3>2, <3>3, <4>2
    <3>4. CASE d # c
      <4>1. Waiting(d)' = Waiting(d)
        BY <3>4 DEF Waiting
      <4>2. QED
        BY <1>1, <3>1, <3>2, <3>4, <4>1
    <3>5. QED
      BY <3>3, <3>4
  <2>2. QED
    BY <2>1 DEF SentCounted, Made, Waiting
<1>5. ValuesCount'
  BY <1>1 DEF ServiceInv, ServiceTypes, LandedRecord, ValuesCount
<1>6. \A d \in ServiceCall : CourseSound(task[d])'
  <2>1. \A d \in ServiceCall : CourseSound(task'[d])
    BY <1>1 DEF ServiceInv
  <2>2. QED
    BY <2>1 DEF CourseSound
<1>7. QED
  BY <1>3, <1>4, <1>5, <1>6 DEF ServiceInv

\* A submission is accepted, or its answer is lost.
LEMMA SendsKeep ==
    ASSUME ServiceInv, NEW c \in ServiceCall, SentAccepted(c) \/ SentLost(c)
    PROVE  ServiceInv'
<1>1. PICK t : t = [call |-> c, number |-> task[c].number]
  OBVIOUS
<1>2. t \in SentRecord /\ t.call = c
  BY <1>1, HeldTask DEF SentRecord, TaskRecord
<1>3. CASE SentAccepted(c)
  <2>1. PICK r : r = Sent(task[c])
    OBVIOUS
  <2>2. /\ r \in TaskRecord /\ CourseSound(r) /\ r.before = task[c].before
        /\ r.sends = task[c].sends + 1
        /\ task' = [task EXCEPT ![c] = r] /\ UNCHANGED <<accountSeq, changesMade, landed>>
    BY <1>3, <2>1, SubmittedIs DEF SentAccepted
  <2>3. mempool' = mempool \cup {t}
    BY <1>1, <1>3 DEF SentAccepted
  <2>4. QED
    BY <1>2, <2>2, <2>3, ChainKeeps
<1>4. CASE SentLost(c)
  <2>1. PICK to : to = Thrown(c)
    OBVIOUS
  <2>2. PICK n : n = task[c].sends + 1
    OBVIOUS
  <2>3. PICK r : r = [task[c] EXCEPT !.at = to, !.sends = n]
    OBVIOUS
  <2>4. to \in Places /\ to \in {"returned", "false", "threw"}
        /\ (to = "returned" => task[c].kind = "bestEffort")
    BY <2>1 DEF Thrown, Places
  <2>5. task[c].sends \in Nat /\ n \in Nat
    BY <2>2, HeldTask DEF TaskRecord
  <2>6. r \in TaskRecord /\ r.before = task[c].before /\ r.sends = n /\ r.kind = task[c].kind
        /\ r.at = to /\ r.left = task[c].left
    BY <2>3, <2>4, <2>5, HeldTask DEF TaskRecord
  <2>7. CourseSound(r)
    BY <2>4, <2>6, HeldTask DEF CourseSound, ReportsErrors
  <2>8. task' = [task EXCEPT ![c] = r]
    BY <1>4, <2>1, <2>2, <2>3 DEF SentLost
  <2>9. CASE mempool' = mempool
    <3>1. r.sends >= task[c].sends
      BY <2>2, <2>5, <2>6
    <3>2. UNCHANGED Chain
      BY <1>4, <2>9 DEF SentLost, Chain
    <3>3. QED
      BY <2>6, <2>7, <2>8, <3>1, <3>2, CallKeeps
  <2>10. CASE mempool' = mempool \cup {t}
    <3>1. UNCHANGED <<accountSeq, changesMade, landed>>
      BY <1>4 DEF SentLost
    <3>2. QED
      BY <1>2, <2>2, <2>6, <2>7, <2>8, <2>10, <3>1, ChainKeeps
  <2>11. QED
    BY <1>1, <1>4, <2>9, <2>10 DEF SentLost
<1>5. QED
  BY <1>3, <1>4

\* A submission leaves the network: it lands, or is dropped.
LEMMA LeavesKeep ==
    ASSUME ServiceInv, NEW t \in mempool, mempool' = mempool \ {t}, task' = task,
           accountSeq' \in Nat, changesMade' \in Nat, changesMade <= changesMade',
           NEW value \in Nat, value = 0 \/ value > changesMade,
           NEW new, new = [call |-> t.call, number |-> t.number, value |-> value],
           landed' = landed \/ landed' = landed \cup {new}
    PROVE  ServiceInv'
<1>1. t \in SentRecord /\ new \in LandedRecord /\ new.call = t.call /\ new.value = value
  BY DEF ServiceInv, ServiceTypes, SentRecord, LandedRecord
<1>2. ServiceTypes'
  <2>1. IsFiniteSet(mempool')
    BY FS_RemoveElement DEF ServiceInv, ServiceTypes
  <2>2. IsFiniteSet(landed \cup {new}) /\ IsFiniteSet(landed)
    BY FS_AddElement DEF ServiceInv, ServiceTypes
  <2>3. QED
    BY <1>1, <2>1, <2>2 DEF ServiceInv, ServiceTypes
<1>3. SentCounted'
  <2>1. ASSUME NEW d \in ServiceCall
        PROVE  Cardinality(Made(d)') + Cardinality(Waiting(d)') <= task[d].sends
    <3>1. /\ Cardinality(Made(d)) \in Nat /\ Cardinality(Waiting(d)) \in Nat
          /\ task[d].sends \in Nat /\ IsFiniteSet(Waiting(d)) /\ IsFiniteSet(Made(d))
          /\ Cardinality(Made(d)) + Cardinality(Waiting(d)) <= task[d].sends
      BY CountsAre DEF ServiceInv, ServiceTypes, SentCounted, TaskRecord
    <3>2. CASE d = t.call
      <4>1. Waiting(d)' = Waiting(d) \ {t} /\ t \in Waiting(d)
        BY <3>2 DEF Waiting
      <4>2. Cardinality(Waiting(d)') = Cardinality(Waiting(d)) - 1
        BY <3>1, <4>1, FS_RemoveElement
      <4>3. Made(d)' = Made(d) \/ Made(d)' = Made(d) \cup {new}
        BY <1>1, <3>2 DEF Made
      <4>4. Cardinality(Made(d)') \in {Cardinality(Made(d)), Cardinality(Made(d)) + 1}
        <5>1. Cardinality(Made(d) \cup {new}) \in {Cardinality(Made(d)), Cardinality(Made(d)) + 1}
          BY <3>1, FS_AddElement
        <5>2. QED
          BY <4>3, <5>1
      <4>5. QED
        BY <3>1, <4>2, <4>4
    <3>3. CASE d # t.call
      <4>1. Waiting(d)' = Waiting(d) /\ Made(d)' = Made(d)
        BY <1>1, <3>3 DEF Waiting, Made
      <4>2. QED
        BY <3>1, <4>1
    <3>4. QED
      BY <3>2, <3>3
  <2>2. QED
    BY <2>1 DEF SentCounted, Made, Waiting
<1>4. ValuesCount'
  <2>1. \A d \in ServiceCall : task[d].before \in Nat /\ task[d].before <= changesMade
    BY HeldTask DEF TaskRecord
  <2>2. t.call \in ServiceCall /\ changesMade \in Nat
    BY <1>1 DEF SentRecord, ServiceInv, ServiceTypes
  <2>3. \A d \in ServiceCall : task[d].before <= changesMade'
    BY <2>1, <2>2
  <2>4. new.value > 0 => new.value > task[new.call].before
    BY <1>1, <2>1, <2>2
  <2>5. QED
    BY <2>3, <2>4 DEF ServiceInv, ValuesCount
<1>5. QED
  BY <1>2, <1>3, <1>4 DEF ServiceInv, CourseSound

\* Each step of the clients and the network keeps the invariant.
LEMMA ServiceStep == ServiceInv /\ [ServicesNext]_serviceVars => ServiceInv'
<1> SUFFICES ASSUME ServiceInv, [ServicesNext]_serviceVars PROVE ServiceInv'
  OBVIOUS
<1>1. CASE UNCHANGED serviceVars
  BY <1>1 DEF serviceVars, ServiceInv, ServiceTypes, SentCounted, Made, Waiting, ValuesCount,
              CourseSound
<1>2. ASSUME NEW c \in ServiceCall,
             \/ ZkMethod(c) \/ ReportMethod(c) \/ SubjectMethod(c)
             \/ ProofGenerated(c) \/ CredentialsListed(c) \/ SequenceRead(c) \/ Simulated(c)
             \/ SentAccepted(c) \/ SentIgnored(c) \/ SentRefused(c) \/ SentLost(c)
             \/ AnswerFails(c)
             \/ ResultFound(c) \/ ResultMissing(c) \/ ValueSimulated(c) \/ PercentileRead(c)
      PROVE  ServiceInv'
  BY <1>2, MethodKeeps, CourseKeeps, SendsKeep
<1>3. ASSUME NEW t \in mempool, TransactionLands(t) PROVE ServiceInv'
  <2>1. accountSeq' \in Nat /\ changesMade \in Nat /\ changesMade + 1 \in Nat
    BY <1>3 DEF TransactionLands, ServiceInv, ServiceTypes
  <2>2. CASE /\ changesMade' = changesMade + 1
             /\ landed' = landed \cup {[call |-> t.call, number |-> t.number,
                                        value |-> changesMade + 1]}
    <3>1. PICK value : value = changesMade + 1
      OBVIOUS
    <3>2. PICK new : new = [call |-> t.call, number |-> t.number, value |-> value]
      OBVIOUS
    <3>3. /\ value \in Nat /\ value > changesMade /\ changesMade' \in Nat
          /\ changesMade <= changesMade' /\ landed' = landed \cup {new}
      BY <2>1, <2>2, <3>1, <3>2
    <3>4. mempool' = mempool \ {t} /\ task' = task
      BY <1>3 DEF TransactionLands
    <3>5. QED
      BY <2>1, <3>2, <3>3, <3>4, LeavesKeep
  <2>3. CASE /\ changesMade' = changesMade
             /\ landed' = landed \cup {[call |-> t.call, number |-> t.number, value |-> 0]}
    <3>1. PICK new : new = [call |-> t.call, number |-> t.number, value |-> 0]
      OBVIOUS
    <3>2. changesMade' \in Nat /\ changesMade <= changesMade' /\ landed' = landed \cup {new}
      BY <2>1, <2>3, <3>1
    <3>3. mempool' = mempool \ {t} /\ task' = task
      BY <1>3 DEF TransactionLands
    <3>4. QED
      BY <2>1, <3>1, <3>2, <3>3, LeavesKeep
  <2>4. QED
    BY <1>3, <2>2, <2>3 DEF TransactionLands
<1>4. ASSUME NEW t \in mempool, TransactionDropped(t) PROVE ServiceInv'
  <2>1. accountSeq' \in Nat /\ changesMade' \in Nat /\ changesMade <= changesMade'
        /\ mempool' = mempool \ {t} /\ task' = task /\ landed' = landed
    BY <1>4 DEF TransactionDropped, ServiceInv, ServiceTypes
  <2>2. PICK new : new = [call |-> t.call, number |-> t.number, value |-> 0]
    OBVIOUS
  <2>3. QED
    BY <2>1, <2>2, LeavesKeep
<1>5. QED
  BY <1>1, <1>2, <1>3, <1>4 DEF ServicesNext

\* For any number of calls no call makes more changes than it sent, none when its
\* submission was refused, and a value returned counts the call's own change and all
\* before its beginning: the compliance, reporting and proof clients send, ask for the
\* result and read the value afterwards, each in its own way.
THEOREM CallsAlwaysReported == ServicesSpec => []CallsReported
<1>1. ASSUME ServicesInit PROVE ServiceInv
  <2>1. ServiceTypes
    BY <1>1, FS_EmptySet DEF ServicesInit, ServiceTypes, NewTask, TaskRecord, Kinds, Places
  <2>2. \A c \in ServiceCall : task[c] = NewTask
    BY <1>1 DEF ServicesInit
  <2>3. \A c \in ServiceCall : CourseSound(task[c])
    BY <2>2 DEF CourseSound, NewTask, ReportsErrors
  <2>4. ValuesCount
    BY <1>1, <2>2 DEF ServicesInit, ValuesCount, NewTask
  <2>5. SentCounted
    <3>1. \A c \in ServiceCall : Made(c) = {} /\ Waiting(c) = {}
      BY <1>1 DEF ServicesInit, Made, Waiting
    <3>2. QED
      BY <2>2, <3>1, FS_EmptySet DEF SentCounted, NewTask
  <2>6. QED
    BY <2>1, <2>3, <2>4, <2>5 DEF ServiceInv
<1>2. ASSUME ServiceInv PROVE CallsReported
  <2>1. ASSUME NEW c \in ServiceCall
        PROVE  /\ Cardinality({t \in landed : t.call = c}) <= task[c].sends
               /\ task[c].at = "refused" => \A t \in landed : t.call # c
               /\ task[c].kind \in {"valued", "breakdown"} /\ task[c].at = "returned" =>
                     task[c].value > task[c].before
    <3>1. Cardinality(Made(c)) <= task[c].sends
      <4>1. Cardinality(Made(c)) \in Nat /\ Cardinality(Waiting(c)) \in Nat
            /\ task[c].sends \in Nat
        BY <1>2, CountsAre, HeldTask DEF TaskRecord
      <4>2. Cardinality(Made(c)) + Cardinality(Waiting(c)) <= task[c].sends
        BY <1>2 DEF ServiceInv, SentCounted
      <4>3. QED
        BY <4>1, <4>2
    <3>2. task[c].at = "refused" => Made(c) = {}
      BY <1>2, HeldTask, CountsAre DEF CourseSound
    <3>3. task[c].kind \in {"valued", "breakdown"} /\ task[c].at = "returned" =>
             task[c].value > task[c].before
      BY <1>2, HeldTask DEF CourseSound
    <3>4. QED
      BY <3>1, <3>2, <3>3 DEF Made
  <2>2. QED
    BY <2>1 DEF CallsReported
<1>3. QED
  BY <1>1, <1>2, ServiceStep, PTL DEF ServicesSpec

-----------------------------------------------------------------------------
(***************************************************************************)
(* CliSession: what the menus of a session say of credentials, scores and  *)
(* proofs.                                                                 *)
(***************************************************************************)
Reputation == {r \in [score : 0 .. 1000, tier : {"Prime", "Strong", "Established", "Emerging", "Seedling"}] :
                  r.tier = ScoreTier(r.score)}

\* The ids are the numbers up to that of the credentials, and what was withdrawn is revoked.
CredentialsSound(all, gone) ==
    /\ IsFiniteSet(all)
    /\ \A c \in all : c.id \in 1 .. Cardinality(all)
    /\ \A c, d \in all : c.id = d.id => c = d
    /\ gone \subseteq 1 .. Cardinality(all)
    /\ \A c \in all : c.id \in gone => c.revoked

SessionInv ==
    /\ CredentialsSound(credentials, withdrawn)
    /\ reputations \in [Person -> SUBSET Reputation]
    /\ \A p \in proofs : p.stated = "numbers" => p.holds

-----------------------------------------------------------------------------
\* A credential is added under the next id, revoked or not.
LEMMA AddedSound ==
  ASSUME NEW all, NEW gone, CredentialsSound(all, gone), NEW c, c.id = Cardinality(all) + 1,
         NEW more, more = gone \/ (more = gone \cup {c.id} /\ c.revoked)
  PROVE  CredentialsSound(all \cup {c}, more)
<1>1. PICK n : n = Cardinality(all)
  OBVIOUS
<1>2. n \in Nat /\ IsFiniteSet(all \cup {c}) /\ c \notin all
  <2>1. n \in Nat
    BY <1>1, FS_CardinalityType DEF CredentialsSound
  <2>2. IsFiniteSet(all \cup {c})
    BY FS_AddElement DEF CredentialsSound
  <2>3. c \notin all
    BY <1>1, <2>1 DEF CredentialsSound
  <2> QED
    BY <2>1, <2>2, <2>3
<1>3. Cardinality(all \cup {c}) = n + 1
  BY <1>1, <1>2, FS_AddElement DEF CredentialsSound
<1>4. /\ \A d \in all : d.id \in 1 .. n
      /\ gone \subseteq 1 .. n
  BY <1>1 DEF CredentialsSound
<1>5. \A d \in all \cup {c} : d.id \in 1 .. n + 1
  BY <1>1, <1>2, <1>4
<1>6. more \subseteq 1 .. n + 1
  <2>1. 1 .. n \subseteq 1 .. n + 1 /\ n + 1 \in 1 .. n + 1
    BY <1>2, SMT
  <2>2. c.id = n + 1
    BY <1>1
  <2> QED
    BY <1>4, <2>1, <2>2, Zenon
<1>7. ASSUME NEW d \in all \cup {c}, d.id \in more PROVE d.revoked
  <2>1. CASE d = c
    <3>1. c.id \notin gone
      BY <1>1, <1>2, <1>4
    <3> QED
      BY <2>1, <3>1, <1>7
  <2>2. CASE d # c
    <3>1. d \in all /\ d.id # c.id
      BY <2>2, <1>7, <1>1, <1>2, <1>4
    <3> QED
      BY <3>1, <1>7 DEF CredentialsSound
  <2> QED
    BY <2>1, <2>2
<1>8. ASSUME NEW d \in all \cup {c}, NEW e \in all \cup {c}, d.id = e.id PROVE d = e
  <2>1. \A f \in all : f.id # c.id
    BY <1>1, <1>2, <1>4
  <2> QED
    BY <1>8, <2>1 DEF CredentialsSound
<1> QED
  BY <1>1, <1>2, <1>3, <1>5, <1>6, <1>7, <1>8 DEF CredentialsSound

\* A credential is revoked, and counted as gone.
LEMMA RevokedSound ==
  ASSUME NEW all, NEW gone, CredentialsSound(all, gone), NEW c \in all,
         NEW d, d.id = c.id, d.revoked
  PROVE  CredentialsSound((all \ {c}) \cup {d}, gone \cup {c.id})
<1> DEFINE S == all \ {c}
<1>1. PICK n : n = Cardinality(all)
  OBVIOUS
<1>2. n \in Nat /\ IsFiniteSet(S) /\ d \notin S /\ Cardinality(S) = n - 1
  <2>1. n \in Nat
    BY <1>1, FS_CardinalityType DEF CredentialsSound
  <2>2. IsFiniteSet(S) /\ Cardinality(S) = n - 1
    BY <1>1, FS_RemoveElement DEF CredentialsSound
  <2>3. d \notin S
    BY DEF CredentialsSound
  <2> QED
    BY <2>1, <2>2, <2>3
<1>3. IsFiniteSet(S \cup {d}) /\ Cardinality(S \cup {d}) = n
  <2>1. IsFiniteSet(S \cup {d}) /\ Cardinality(S \cup {d}) = Cardinality(S) + 1
    BY <1>2, FS_AddElement
  <2> QED
    BY <2>1, <1>2
<1>4. /\ \A e \in all : e.id \in 1 .. n
      /\ gone \cup {c.id} \subseteq 1 .. n
  BY <1>1 DEF CredentialsSound
<1>5. \A e \in S \cup {d} : e.id \in 1 .. n
  BY <1>4
<1>6. \A e \in S \cup {d} : e.id \in gone \cup {c.id} => e.revoked
  BY DEF CredentialsSound
<1>7. \A e, f \in S \cup {d} : e.id = f.id => e = f
  BY DEF CredentialsSound
<1> HIDE DEF S
<1>8. CredentialsSound(S \cup {d}, gone \cup {c.id})
  BY <1>3, <1>4, <1>5, <1>6, <1>7 DEF CredentialsSound
<1> QED
  BY <1>8 DEF S

\* The ids of a made-up credential and of the two after it.
LEMMA MockIs ==
  ASSUME NEW expires
  PROVE  /\ MockCredential(expires).id = Cardinality(credentials) + 1
         /\ [MockCredential(expires) EXCEPT !.id = @ + 0].id = Cardinality(credentials) + 1 + 0
         /\ [MockCredential(expires) EXCEPT !.id = @ + 1].id = Cardinality(credentials) + 1 + 1
BY DEF MockCredential

\* The menu of credentials issues, revokes and lists.
LEMMA CredentialMenuKeeps ==
  ASSUME SessionInv, CredentialMenu
  PROVE  SessionInv'
<1>1. ASSUME NEW expires, Issue(expires) PROVE SessionInv'
  <2>1. CredentialsSound(credentials \cup {MockCredential(expires)}, withdrawn)
    BY AddedSound, MockIs DEF SessionInv
  <2> QED
    BY <1>1, <2>1 DEF Issue, SessionInv
<1>2. ASSUME NEW c \in credentials, RevokeCredential(c) PROVE SessionInv'
  <2>1. PICK d : d = [c EXCEPT !.revoked = TRUE]
    OBVIOUS
  <2>2. d.id = c.id /\ d.revoked
    BY <2>1
  <2>3. CredentialsSound((credentials \ {c}) \cup {d}, withdrawn \cup {c.id})
    BY <2>2, RevokedSound DEF SessionInv
  <2> QED
    BY <1>2, <2>1, <2>3 DEF RevokeCredential, SessionInv
<1>3. ASSUME NEW c \in credentials, NEW expires, RenewCredential(c, expires) PROVE SessionInv'
  <2>1. PICK d : d = Renewed(c, expires)
    OBVIOUS
  <2>2. d.id = Cardinality(credentials) + 1 /\ d.revoked = c.revoked
    BY <2>1 DEF Renewed
  <2>3. withdrawn' = withdrawn \/ (withdrawn' = withdrawn \cup {d.id} /\ d.revoked)
    BY <1>3, <2>1, <2>2 DEF RenewCredential, SessionInv, CredentialsSound
  <2>4. credentials' = credentials \cup {d}
    BY <1>3, <2>1 DEF RenewCredential
  <2>5. CredentialsSound(credentials \cup {d}, withdrawn')
    BY <2>2, <2>3, AddedSound DEF SessionInv
  <2> QED
    BY <1>3, <2>4, <2>5 DEF RenewCredential, SessionInv
<1> QED
  BY <1>1, <1>2, <1>3
     DEF CredentialMenu, IssueCredential, IssueKYCCredential, IssueEducationCredential,
         IssueEmploymentCredential

-----------------------------------------------------------------------------
\* A score with the tier computed for it is a reputation.
LEMMA TieredIs ==
  ASSUME NEW s \in 0 .. 1000, NEW r, r = [score |-> s, tier |-> ScoreTier(s)]
  PROVE  r \in Reputation
BY SMT DEF Reputation, ScoreTier

\* A reputation is stored for a person.
LEMMA SetReputationKeeps ==
  ASSUME SessionInv, NEW a \in Person, NEW r \in Reputation, SetReputation(a, r)
  PROVE  SessionInv'
BY DEF SetReputation, SessionInv

\* A reputation that is looked up, or made up when there is none.
LEMMA GetOrCreateIs ==
  ASSUME SessionInv, NEW a \in Person, NEW r \in GetOrCreateRep(a)
  PROVE  r \in Reputation
<1>1. CASE reputations[a] # {}
  BY <1>1 DEF GetOrCreateRep, SessionInv
<1>2. CASE reputations[a] = {}
  <2>1. PICK s \in MockScore : r = MockReputation(s)
    BY <1>2 DEF GetOrCreateRep
  <2>2. s \in 0 .. 1000
    BY SessionAssumption
  <2> QED
    BY <2>1, <2>2, TieredIs DEF MockReputation
<1> QED
  BY <1>1, <1>2

\* The menu of reputations looks up, raises and lowers.
LEMMA ReputationMenuKeeps ==
  ASSUME SessionInv, ReputationMenu
  PROVE  SessionInv'
<1>1. ASSUME NEW a \in Person, GetReputationScore(a) PROVE SessionInv'
  BY <1>1, GetOrCreateIs, SetReputationKeeps DEF GetReputationScore
<1>2. ASSUME NEW a \in Person, NEW b \in Person, CompareReputations(a, b) PROVE SessionInv'
  <2>1. PICK r \in GetOrCreateRep(a), t \in GetOrCreateRep(b) :
            /\ reputations' = [reputations EXCEPT ![a] = {r}, ![b] = {t}]
            /\ UNCHANGED <<dids, credentials, proofs, withdrawn>>
    BY <1>2 DEF CompareReputations
  <2>2. r \in Reputation /\ t \in Reputation
    BY <2>1, GetOrCreateIs
  <2> QED
    BY <2>1, <2>2 DEF SessionInv
<1>3. ASSUME NEW a \in Person, NEW points \in {10, -5, 20, -15}, Scored(a, points) PROVE SessionInv'
  <2>1. PICK r \in GetOrCreateRep(a) :
            LET s == Within(0, 1000, r.score + points)
            IN  SetReputation(a, [score |-> s, tier |-> ScoreTier(s)])
    BY <1>3 DEF Scored
  <2>2. r.score \in 0 .. 1000
    BY <2>1, GetOrCreateIs DEF Reputation
  <2>3. PICK s : s = Within(0, 1000, r.score + points)
    OBVIOUS
  <2>4. s \in 0 .. 1000
    <3>1. points \in Int
      BY SMT
    <3>2. PICK x : x = r.score + points
      OBVIOUS
    <3>3. x \in Int
      BY <2>2, <3>1, <3>2, SMT
    <3> QED
      BY <2>3, <3>2, <3>3, SMT DEF Within
  <2>5. [score |-> s, tier |-> ScoreTier(s)] \in Reputation
    BY <2>4, TieredIs
  <2> QED
    BY <2>1, <2>3, <2>5, SetReputationKeeps
<1>4. ASSUME NEW a \in Person, InitReputation(a) PROVE SessionInv'
  <2>1. Initial \in Reputation
    BY SMT DEF Initial, Reputation, ScoreTier
  <2> QED
    BY <1>4, <2>1, SetReputationKeeps DEF InitReputation
<1>5. Saved \subseteq Person
  BY SessionAssumption
<1> QED
  BY <1>1, <1>2, <1>3, <1>4, <1>5
     DEF ReputationMenu, GetReputationBreakdown, CheckReputationThreshold, GetReputationPercentile,
         UpdateTransactionRep, UpdateCredentialRep

-----------------------------------------------------------------------------
\* A proof is added whose claim follows from its statement.
LEMMA AddProofKeeps ==
  ASSUME SessionInv, NEW stated, NEW holds, NEW expires, AddProof(stated, holds, expires),
         stated = "numbers" => holds
  PROVE  SessionInv'
BY DEF AddProof, SessionInv

\* The menu of proofs creates and verifies.
LEMMA ZkMenuKeeps ==
  ASSUME SessionInv, ZkMenu
  PROVE  SessionInv'
<1>1. ASSUME NEW x \in Number, NEW y \in Number, NEW expires, GenerateAgeProof(x, y, expires) PROVE SessionInv'
  <2>1. PICK age : age = Age(x)
    OBVIOUS
  <2>2. age \in Int \cup {NaN} /\ y \in Int \cup {NaN}
    BY <2>1, SessionAssumption DEF Age, Number
  <2>3. Numbers({age, y}) = "numbers" => AtMost(y, age)
    BY <1>1, <2>1, <2>2, SessionAssumption DEF GenerateAgeProof, Numbers, AtMost, Below
  <2> QED
    BY <1>1, <2>1, <2>3, AddProofKeeps DEF GenerateAgeProof
<1>2. ASSUME NEW x \in Number, NEW y \in Number, GenerateIncomeProof(x, y) PROVE SessionInv'
  <2>1. Numbers({x, y}) = "numbers" => AtMost(y, x)
    BY <1>2, SessionAssumption DEF GenerateIncomeProof, Numbers, AtMost, Below, Number
  <2> QED
    BY <1>2, <2>1, AddProofKeeps DEF GenerateIncomeProof
<1>3. ASSUME NEW x \in Number, NEW y \in Number, GenerateGreaterThanProof(x, y) PROVE SessionInv'
  <2>1. Numbers({x, y}) = "numbers" => Below(y, x)
    BY <1>3, SessionAssumption DEF GenerateGreaterThanProof, Numbers, AtMost, Below, Number
  <2> QED
    BY <1>3, <2>1, AddProofKeeps DEF GenerateGreaterThanProof
<1>4. ASSUME NEW x \in Number, NEW y \in Number, NEW z \in Number, GenerateRangeProof(x, y, z) PROVE SessionInv'
  <2>1. Numbers({x, y, z}) = "numbers" => AtMost(y, x) /\ AtMost(x, z)
    BY <1>4, SessionAssumption DEF GenerateRangeProof, Numbers, AtMost, Below, Number
  <2> QED
    BY <1>4, <2>1, AddProofKeeps DEF GenerateRangeProof
<1>5. ASSUME Uncompared PROVE SessionInv'
  BY <1>5, AddProofKeeps DEF Uncompared
<1> QED
  BY <1>1, <1>2, <1>3, <1>4, <1>5
     DEF ZkMenu, GenerateCredentialOwnershipProof, GenerateEqualityDisclosure,
         GenerateKYCCompositeProof, CreateSelectiveDisclosure

-----------------------------------------------------------------------------
\* The demo issues, scores and proves in one go.
LEMMA RunFullDemoKeeps ==
  ASSUME SessionInv, NEW a \in Person, RunFullDemo(a)
  PROVE  SessionInv'
<1>1. PICK c : c = [MockCredential(day + 1) EXCEPT !.id = @ + 0]
  OBVIOUS
<1>2. PICK d : d = [MockCredential(day + 1) EXCEPT !.id = @ + 1]
  OBVIOUS
<1>3. PICK n : n = Cardinality(credentials)
  OBVIOUS
<1>4. n \in Nat /\ IsFiniteSet(credentials)
  BY <1>3, FS_CardinalityType DEF SessionInv, CredentialsSound
<1>5. c.id = n + 1 /\ d.id = n + 2
  BY <1>1, <1>2, <1>3, <1>4, MockIs
<1>6. CredentialsSound(credentials \cup {c}, withdrawn)
  BY <1>3, <1>5, AddedSound DEF SessionInv
<1>7. Cardinality(credentials \cup {c}) = n + 1
  <2>1. c \notin credentials
    BY <1>3, <1>4, <1>5 DEF SessionInv, CredentialsSound
  <2> QED
    BY <2>1, <1>3, <1>4, FS_AddElement
<1>8. CredentialsSound((credentials \cup {c}) \cup {d}, withdrawn)
  <2>1. d.id = Cardinality(credentials \cup {c}) + 1
    BY <1>4, <1>5, <1>7
  <2> QED
    BY <1>6, <2>1, AddedSound
<1>9. credentials' = (credentials \cup {c}) \cup {d}
  BY <1>1, <1>2 DEF RunFullDemo
<1>10. reputations' \in [Person -> SUBSET Reputation]
  <2>1. PICK s \in MockScore : reputations' = [reputations EXCEPT ![a] = {MockReputation(s)}]
    BY DEF RunFullDemo
  <2>2. MockReputation(s) \in Reputation
    <3>1. s \in 0 .. 1000
      BY SessionAssumption
    <3> QED
      BY <3>1, TieredIs DEF MockReputation
  <2> QED
    BY <2>1, <2>2 DEF SessionInv
<1>11. \A p \in proofs' : p.stated = "numbers" => p.holds
  BY DEF RunFullDemo, SessionInv
<1> QED
  BY <1>8, <1>9, <1>10, <1>11 DEF RunFullDemo, SessionInv

\* The quick start does so for a new person.
LEMMA QuickStartKeeps ==
  ASSUME SessionInv, NEW a \in Person, QuickStart(a)
  PROVE  SessionInv'
<1>1. Initial \in Reputation
  BY SMT DEF Initial, Reputation, ScoreTier
<1> QED
  BY <1>1 DEF QuickStart, SessionInv

\* Each command of a session keeps the invariant.
LEMMA SessionStep ==
  ASSUME SessionInv, [SessionNext]_sessionVars
  PROVE  SessionInv'
<1>1. CASE UNCHANGED sessionVars
  BY <1>1 DEF sessionVars, SessionInv
<1>2. CASE DayPasses
  BY <1>2 DEF DayPasses, SessionInv
<1>3. CASE DidMenu
  BY <1>3 DEF DidMenu, CreateDID, UpdateDID, AddAuthentication, DeactivateDID, SessionInv
<1> QED
  BY <1>1, <1>2, <1>3, CredentialMenuKeeps, ReputationMenuKeeps, ZkMenuKeeps, RunFullDemoKeeps,
     QuickStartKeeps DEF SessionNext

\* The two tables of tiers agree on every score from 0 to 1000.
LEMMA TiersAgree ==
  ASSUME NEW s \in 0 .. 1000
  PROVE  GetReputationTier(s) = ScoreTier(s)
<1> DEFINE Tiers == {"Prime", "Strong", "Established", "Emerging", "Seedling"}
<1>1. /\ DOMAIN TierFloor = Tiers
      /\ TierFloor["Prime"] = 900 /\ TierFloor["Strong"] = 750 /\ TierFloor["Established"] = 550
      /\ TierFloor["Emerging"] = 300 /\ TierFloor["Seedling"] = 0
  BY DEF TierFloor
<1>2. ScoreTier(s) \in Tiers /\ s >= TierFloor[ScoreTier(s)]
  BY <1>1 DEF ScoreTier
<1>3. \A t \in Tiers : s >= TierFloor[t] => TierFloor[t] <= TierFloor[ScoreTier(s)]
  BY <1>1 DEF ScoreTier
<1>4. \A t, u \in Tiers : TierFloor[t] = TierFloor[u] => t = u
  BY <1>1
<1>5. ASSUME NEW t \in Tiers, s >= TierFloor[t],
             \A u \in Tiers : s >= TierFloor[u] => TierFloor[u] <= TierFloor[t]
      PROVE  t = ScoreTier(s)
  <2>1. TierFloor[t] \in Nat /\ TierFloor[ScoreTier(s)] \in Nat
    BY <1>1, <1>2
  <2>2. TierFloor[t] = TierFloor[ScoreTier(s)]
    BY <2>1, <1>2, <1>3, <1>5
  <2> QED
    BY <2>2, <1>2, <1>4
<1> HIDE DEF Tiers
<1> QED
  BY <1>1, <1>2, <1>3, <1>5 DEF GetReputationTier

\* For any persons and commands what was revoked is valid nowhere, the tier shown is
\* that of the score, and a proof about numbers states what was true: index.ts of the
\* CLI numbers credentials by how many there are, changes them from several menus, and
\* looks tiers up in two tables.
THEOREM SessionAlwaysTruthful == SessionSpec => []SessionTruthful
<1>1. ASSUME SessionInit PROVE SessionInv
  <2>1. CredentialsSound({}, {})
    BY FS_EmptySet DEF CredentialsSound
  <2> QED
    BY <1>1, <2>1 DEF SessionInit, SessionInv
<1>2. ASSUME SessionInv PROVE SessionTruthful
  <2>1. ASSUME NEW c \in credentials, c.id \in withdrawn
        PROVE  /\ ~VerifyCredential(c) /\ c \notin BatchVerify
               /\ GetSubjectCredentials[c] = "revoked"
    BY <1>2, <2>1
       DEF SessionInv, CredentialsSound, VerifyCredential, BatchVerify, GetSubjectCredentials,
           GetCredentialStatus
  <2>2. ASSUME NEW a \in Person, NEW r \in reputations[a]
        PROVE  r.tier = GetReputationTier(r.score)
    BY <1>2, TiersAgree DEF SessionInv, Reputation
  <2> QED
    BY <1>2, <2>1, <2>2 DEF SessionInv, SessionTruthful
<1> QED
  BY <1>1, <1>2, SessionStep, PTL DEF SessionSpec

-----------------------------------------------------------------------------
(***************************************************************************)
(* CliConfig: keypairs in a file that every process reads and writes       *)
(* whole.                                                                  *)
(***************************************************************************)
Origin == {"builtin", "own"}
Label == Nat \cup {MyIdentity}
Keypair == [label : Label, id : Nat]

Config == [rpcUrl : Origin, contracts : Origin, aliased : BOOLEAN,
           keys : SUBSET Keypair, default : Label \cup {NoLabel}]

DefaultSound(c) == c.default \in Labels(c) \cup {NoLabel} /\ IsFiniteSet(c.keys)

\* A process holds at most one configuration, and so does the file; each is one that the
\* code builds, and its default names a saved keypair.
ConfigsHeld ==
    /\ keysMade \in Nat
    /\ cfg \in [Process -> SUBSET Config]
    /\ file \in SUBSET Config
    /\ builtin \in [Process -> Origin]
    /\ \A c, d \in file : c = d
    /\ \A p \in Process : \A c, d \in cfg[p] : c = d
    /\ \A c \in file : DefaultSound(c)
    /\ \A p \in Process : \A c \in cfg[p] : DefaultSound(c)
    /\ \A p \in deploying : cfg[p] # {}

\* The keypairs that a file which nobody wrote behind another's back has.
Kept == {k \in made \ deleted : ~Overwritten(k)}

MadeNumbered ==
    /\ made \in SUBSET Keypair /\ deleted \subseteq made
    /\ \A k \in made : k.id <= keysMade

KeysMade ==
    /\ \A c \in file : c.keys \subseteq made
    /\ \A p \in Process : \A c \in cfg[p] : c.keys \subseteq made

\* As long as nothing collided: the file has what is kept; before there is a file nobody
\* has a keypair; and a process that is in step has the keypairs of the file.
FileKept ==
    ~collided =>
       /\ file = {} => Kept = {} /\ \A p \in Process : \A c \in cfg[p] : c.keys = {}
       /\ \A f \in file : Kept = f.keys
       /\ inStep # {} => file # {}
       /\ \A p \in inStep : \A c \in cfg[p] : c.keys = Kept

\* Collided or not: what is not in the file is accounted for, and a process in step
\* dropped nothing from what the file has but what it deleted or overwrote.
LossesKnown ==
    /\ \A k \in made : k \in InFile \/ k \in deleted \/ Overwritten(k) \/ k \in lost
    /\ \A p \in inStep : \A c \in cfg[p] : \A k \in InFile :
          k \in c.keys \/ k \in deleted \/ Overwritten(k)

LabelsOf(K) == {k.label : k \in K}

\* Before anything was deleted: a number nobody typed is no larger than the number of
\* labels in use, so that the next one proposed is free.
ProposalsFree ==
    deleted = {} =>
       /\ \A k \in made : Overwritten(k) => k.label \in typed \cup {MyIdentity}
       /\ \A k \in Kept : k.label \in Nat \ typed => k.label <= Cardinality(LabelsOf(Kept))

ConfigInv ==
    ConfigsHeld /\ MadeNumbered /\ KeysMade /\ FileKept /\ LossesKnown /\ (~collided => ProposalsFree)

\* What a process starts with when there is no file.
LEMMA DefaultsSound ==
    ASSUME ConfigInv, NEW p \in Process
    PROVE  Defaults(p) \in Config /\ DefaultSound(Defaults(p)) /\ Defaults(p).keys = {}
<1>1. builtin[p] \in Origin
  BY DEF ConfigInv, ConfigsHeld
<1>2. QED
  BY <1>1, FS_EmptySet DEF Defaults, Config, Origin, DefaultSound

\* The configuration a process holds; in step with the file, it has the keypairs kept.
LEMMA CurrentIs ==
    ASSUME ConfigInv, NEW p \in Process, cfg[p] # {}
    PROVE  /\ cfg[p] = {Current(p)}
           /\ Current(p) \in Config
           /\ DefaultSound(Current(p))
           /\ Current(p).keys \subseteq made
           /\ ~collided /\ (file = {} \/ p \in inStep) => Kept = Current(p).keys
<1>1. PICK c : c \in cfg[p]
  OBVIOUS
<1>2. cfg[p] = {c}
  BY <1>1 DEF ConfigInv, ConfigsHeld
<1>3. Current(p) = c
  BY <1>2 DEF Current
<1>4. c \in Config /\ DefaultSound(c) /\ c.keys \subseteq made
  BY <1>1 DEF ConfigInv, ConfigsHeld, KeysMade
<1>5. ~collided /\ (file = {} \/ p \in inStep) => Kept = c.keys
  BY <1>1 DEF ConfigInv, FileKept
<1>6. QED
  BY <1>2, <1>3, <1>4, <1>5

\* A configuration is written to the file, and held.
LEMMA SaveKeeps ==
    ASSUME ConfigInv, NEW p \in Process, NEW c \in Config, DefaultSound(c), cfg[p] # {},
           SaveConfig(p, c), keysMade' \in Nat, MadeNumbered',
           builtin' \in [Process -> Origin], deploying' \in SUBSET deploying,
           made \subseteq made', deleted \subseteq deleted', made' \ made \subseteq c.keys, c.keys \subseteq made',
           \A k \in Current(p).keys : k \in c.keys \/ k \in deleted' \/ Overwritten(k)',
           ~collided /\ (file = {} \/ p \in inStep) => Kept' = c.keys /\ ProposalsFree'
    PROVE  ConfigInv'
<1> DEFINE clean == [c EXCEPT !.aliased = FALSE]
<1>1. clean \in Config /\ clean.keys = c.keys /\ clean.default = c.default
  BY DEF Config, Origin
<1>2. DefaultSound(clean)
  BY <1>1 DEF DefaultSound, Labels
<1>3. PICK d : d = clean
  OBVIOUS
<1>4. cfg' = [cfg EXCEPT ![p] = {c}]
  BY DEF SaveConfig
<1>5. cfg' \in [Process -> SUBSET Config] /\ cfg'[p] = {c}
      /\ \A q \in Process \ {p} : cfg'[q] = cfg[q]
  BY <1>4 DEF ConfigInv, ConfigsHeld
<1>6. \/ /\ file' = {d} /\ inStep' = {p}
         /\ lost' = (lost \cup IF p \in inStep THEN {} ELSE InFile) \ c.keys
         /\ collided' = (collided \/ (file # {} /\ p \notin inStep))
      \/ file' = file /\ inStep' = inStep /\ lost' = lost \cup (c.keys \ InFile) /\ collided'
  BY <1>3 DEF SaveConfig
<1>7. d \in Config /\ DefaultSound(d) /\ d.keys = c.keys
  BY <1>1, <1>2, <1>3
<1>8. ConfigsHeld'
  <2>1. keysMade' \in Nat /\ cfg' \in [Process -> SUBSET Config]
        /\ builtin' \in [Process -> Origin]
    BY <1>5
  <2>2. file' \in SUBSET Config /\ (\A x, y \in file' : x = y)
        /\ \A x \in file' : DefaultSound(x)
    BY <1>6, <1>7 DEF ConfigInv, ConfigsHeld
  <2>3. \A q \in Process : \A x, y \in cfg'[q] : x = y
    BY <1>5 DEF ConfigInv, ConfigsHeld
  <2>4. \A q \in Process : \A x \in cfg'[q] : DefaultSound(x)
    BY <1>5 DEF ConfigInv, ConfigsHeld
  <2>5. \A q \in deploying' : cfg'[q] # {}
    BY <1>4, <1>5 DEF ConfigInv, ConfigsHeld
  <2>6. QED
    BY <2>1, <2>2, <2>3, <2>4, <2>5 DEF ConfigsHeld, DefaultSound, Labels
<1>9. FileKept' /\ (~collided' => ProposalsFree')
  <2> SUFFICES ASSUME ~collided'
               PROVE  /\ file' # {}
                      /\ \A f \in file' : Kept' = f.keys
                      /\ \A q \in inStep' : \A x \in cfg'[q] : x.keys = Kept'
                      /\ ProposalsFree'
    BY DEF FileKept
  <2>1. file' = {d} /\ inStep' = {p} /\ ~collided /\ (file = {} \/ p \in inStep)
    BY <1>6
  <2>2. Kept' = c.keys /\ ProposalsFree'
    BY <2>1
  <2>3. QED
    BY <2>1, <2>2, <1>5, <1>7
<1>10. \A k : Overwritten(k) => Overwritten(k)'
  BY DEF Overwritten
<1>11. p \in inStep => \A k \in InFile : k \in c.keys \/ k \in deleted' \/ Overwritten(k)'
  BY <1>10, CurrentIs DEF ConfigInv, LossesKnown
<1>12. LossesKnown'
  <2>1. CASE file' = {d} /\ inStep' = {p}
             /\ lost' = (lost \cup IF p \in inStep THEN {} ELSE InFile) \ c.keys
    <3>1. InFile' = c.keys
      BY <2>1, <1>7 DEF InFile
    <3>2. \A k \in made' : k \in InFile' \/ k \in deleted' \/ Overwritten(k)' \/ k \in lost'
      <4> SUFFICES ASSUME NEW k \in made', k \notin c.keys, k \notin deleted', ~Overwritten(k)'
                   PROVE  k \in lost'
        BY <3>1
      <4>1. k \in made /\ (k \in InFile \/ k \in lost)
        BY <1>10 DEF ConfigInv, LossesKnown
      <4>2. k \in lost \/ p \notin inStep
        BY <4>1, <1>11
      <4>3. QED
        BY <2>1, <4>1, <4>2
    <3>3. QED
      BY <2>1, <3>1, <3>2, <1>5 DEF LossesKnown
  <2>2. CASE file' = file /\ inStep' = inStep /\ lost' = lost \cup (c.keys \ InFile)
    <3>1. InFile' = InFile
      BY <2>2 DEF InFile
    <3>2. \A k \in made' : k \in InFile' \/ k \in deleted' \/ Overwritten(k)' \/ k \in lost'
      BY <2>2, <3>1, <1>10 DEF ConfigInv, LossesKnown
    <3>3. \A q \in inStep : \A x \in cfg'[q] : \A k \in InFile :
             k \in x.keys \/ k \in deleted' \/ Overwritten(k)'
      <4> SUFFICES ASSUME NEW q \in inStep, NEW x \in cfg'[q], NEW k \in InFile
                   PROVE  k \in x.keys \/ k \in deleted' \/ Overwritten(k)'
        OBVIOUS
      <4>1. CASE q = p
        BY <4>1, <1>5, <1>11
      <4>2. CASE q # p
        <5>1. cfg'[q] = cfg[q]
          BY <4>2, <1>4 
        <5>2. QED
          BY <5>1, <1>10 DEF ConfigInv, LossesKnown
      <4>3. QED
        BY <4>1, <4>2
    <3>4. QED
      BY <2>2, <3>1, <3>2, <3>3 DEF LossesKnown
  <2>3. QED
    BY <1>6, <2>1, <2>2
<1>13. KeysMade'
  <2>1. \A x \in file' : x.keys \subseteq made'
    BY <1>6, <1>7 DEF ConfigInv, KeysMade
  <2>2. \A q \in Process : \A x \in cfg'[q] : x.keys \subseteq made'
    BY <1>5 DEF ConfigInv, KeysMade
  <2>3. QED
    BY <2>1, <2>2 DEF KeysMade
<1>14. QED
  BY <1>8, <1>9, <1>12, <1>13 DEF ConfigInv

\* Finitely many keypairs have finitely many labels.
LEMMA LabelsFinite ==
    ASSUME NEW K, IsFiniteSet(K)
    PROVE  IsFiniteSet(LabelsOf(K))
<1> DEFINE label == [k \in K |-> k.label]
<1>1. label \in Surjection(K, LabelsOf(K))
  BY DEF Surjection, LabelsOf
<1>2. QED
  BY <1>1, FS_Surjection

\* A keypair stored under its label replaces the one of that label.
LEMMA StoredSound ==
    ASSUME NEW c \in Config, DefaultSound(c), NEW k \in Keypair,
           NEW new, new = [rpcUrl |-> c.rpcUrl, contracts |-> c.contracts,
                           aliased |-> c.aliased, keys |-> Stored(c, k), default |-> new.default],
           new.default = k.label \/ new.default = c.default
    PROVE  /\ new \in Config
           /\ DefaultSound(new)
           /\ new.keys = (c.keys \ {o \in c.keys : o.label = k.label}) \cup {k}
           /\ LabelsOf(new.keys) = LabelsOf(c.keys) \cup {k.label}
<1>1. Stored(c, k) \in SUBSET Keypair
  BY DEF Stored, Config
<1>2. new.default \in Label \cup {NoLabel}
  BY DEF Config, Keypair
<1>3. new \in Config /\ new.keys = Stored(c, k)
  BY <1>1, <1>2 DEF Config
<1>4. LabelsOf(new.keys) = LabelsOf(c.keys) \cup {k.label}
  BY <1>3 DEF Stored, LabelsOf
<1>5. Labels(new) = LabelsOf(new.keys) /\ Labels(c) = LabelsOf(c.keys)
  BY DEF Labels, LabelsOf
<1>6. Stored(c, k) = (c.keys \ {o \in c.keys : o.label = k.label}) \cup {k}
  BY DEF Stored
<1>7. IsFiniteSet(new.keys)
  <2>1. IsFiniteSet(c.keys \ {o \in c.keys : o.label = k.label})
    BY FS_Subset DEF DefaultSound
  <2>2. QED
    BY <2>1, <1>3, <1>6, FS_AddElement
<1>8. DefaultSound(new)
  BY <1>3, <1>4, <1>5, <1>7 DEF DefaultSound
<1>9. QED
  BY <1>3, <1>4, <1>6, <1>8

\* A keypair is stored under a label, proposed or typed, and the one there was is
\* overwritten.
LEMMA StoreKeypairKeeps ==
    ASSUME ConfigInv, NEW p \in Process, NEW label \in Label, NEW default, NEW proposed,
           default = label \/ default = Current(p).default,
           label \in proposed => label = MyIdentity \/ label = Cardinality(Labels(Current(p))) + 1,
           StoreKeypair(p, label, default, proposed)
    PROVE  ConfigInv'
<1>1. PICK c : c = Current(p)
  OBVIOUS
<1>2. PICK k : k = [label |-> label, id |-> keysMade + 1]
  OBVIOUS
<1>3. cfg[p] # {} /\ keysMade \in Nat /\ keysMade' = keysMade + 1
  BY DEF StoreKeypair, Ready, ConfigInv, ConfigsHeld
<1>4. c \in Config /\ DefaultSound(c) /\ c.keys \subseteq made
      /\ (~collided /\ (file = {} \/ p \in inStep) => Kept = c.keys)
  BY <1>1, <1>3, CurrentIs
<1>5. k \in Keypair /\ k.label = label /\ k.id = keysMade + 1
  BY <1>2, <1>3 DEF Keypair
<1>6. PICK new : new = [c EXCEPT !.keys = Stored(c, k), !.default = default]
  OBVIOUS
<1>7. new \in Config /\ DefaultSound(new)
      /\ new.keys = (c.keys \ {o \in c.keys : o.label = label}) \cup {k}
      /\ LabelsOf(new.keys) = LabelsOf(c.keys) \cup {label}
  <2>1. default = k.label \/ default = c.default
    BY <1>1, <1>5
  <2>2. /\ new \in Config /\ DefaultSound(new)
        /\ new.keys = (c.keys \ {o \in c.keys : o.label = k.label}) \cup {k}
        /\ LabelsOf(new.keys) = LabelsOf(c.keys) \cup {k.label}
    <3>1. new = [rpcUrl |-> c.rpcUrl, contracts |-> c.contracts, aliased |-> c.aliased,
                 keys |-> Stored(c, k), default |-> default] /\ new.default = default
      BY <1>4, <1>6 DEF Config
    <3>2. QED
      BY <1>4, <1>5, <2>1, <3>1, StoredSound
  <2>3. QED
    BY <1>5, <2>2
<1>8. SaveConfig(p, new) /\ made' = made \cup {k} /\ deleted' = deleted
      /\ typed' = typed \cup ({label} \ proposed)
  BY <1>1, <1>2, <1>6 DEF StoreKeypair
<1>9. MadeNumbered'
  BY <1>3, <1>5, <1>8 DEF ConfigInv, MadeNumbered, Keypair
<1>10. \A o \in made : Overwritten(o)' <=> Overwritten(o) \/ o.label = label
  BY <1>3, <1>5, <1>8 DEF ConfigInv, MadeNumbered, Keypair, Overwritten
<1>11. ~Overwritten(k)'
  BY <1>3, <1>5, <1>8 DEF ConfigInv, MadeNumbered, Keypair, Overwritten
<1>12. \A o \in c.keys : o \in new.keys \/ Overwritten(o)'
  BY <1>4, <1>7, <1>10
<1>13. ~collided /\ (file = {} \/ p \in inStep) => Kept' = new.keys /\ ProposalsFree'
  <2> SUFFICES ASSUME ~collided, file = {} \/ p \in inStep
               PROVE  Kept' = new.keys /\ ProposalsFree'
    OBVIOUS
  <2>1. Kept = c.keys
    BY <1>4
  <2>2. k \notin deleted /\ k \notin made
    BY <1>3, <1>5 DEF ConfigInv, MadeNumbered, Keypair
  <2>3. Kept' = new.keys
    BY <1>5, <1>7, <1>8, <1>10, <1>11, <2>1, <2>2 DEF Kept
  <2> DEFINE labels == LabelsOf(c.keys)
  <2>4. Labels(c) = labels
    BY DEF Labels, LabelsOf
  <2>5. IsFiniteSet(labels) /\ Cardinality(labels) \in Nat
    <3>1. IsFiniteSet(labels)
      BY <1>4, LabelsFinite DEF DefaultSound
    <3>2. QED
      BY <3>1, FS_CardinalityType
  <2>6. ASSUME deleted = {}, label \in Nat \ typed'
        PROVE  label = Cardinality(labels) + 1 /\ label \notin labels
    <3>1. label = Cardinality(labels) + 1
      BY <1>1, <1>8, <2>4, <2>6, CliConfigAssumption
    <3>2. \A o \in c.keys : o.label \in Nat \ typed => o.label <= Cardinality(labels)
      BY <2>1, <2>6 DEF ConfigInv, ProposalsFree
    <3>3. ASSUME NEW o \in c.keys, o.label = label PROVE FALSE
      BY <1>8, <2>5, <2>6, <3>1, <3>2, <3>3
    <3>4. QED
      BY <3>1, <3>3 DEF LabelsOf
  <2>7. ASSUME deleted = {}, NEW o \in made', Overwritten(o)'
        PROVE  o.label \in typed' \cup {MyIdentity}
    <3>1. o \in made /\ (Overwritten(o) \/ o.label = label)
      BY <1>8, <1>10, <1>11, <2>7
    <3>2. CASE Overwritten(o)
      BY <1>8, <2>7, <3>1, <3>2 DEF ConfigInv, ProposalsFree
    <3>3. CASE ~Overwritten(o) /\ o.label = label
      <4>1. o \in c.keys
        BY <2>1, <2>7, <3>1, <3>3 DEF Kept
      <4>2. label \in labels
        BY <4>1, <3>3 DEF LabelsOf
      <4>3. label \notin Nat \ typed'
        BY <4>2, <2>6, <2>7
      <4>4. QED
        BY <4>3, <3>3 DEF Label
    <3>4. QED
      BY <3>1, <3>2, <3>3
  <2>8. ASSUME deleted = {}, NEW o \in new.keys, o.label \in Nat \ typed'
        PROVE  o.label <= Cardinality(LabelsOf(new.keys))
    <3>1. LabelsOf(new.keys) = labels \cup {label}
      BY <1>7
    <3>2. CASE o.label = label
      <4>1. label = Cardinality(labels) + 1 /\ label \notin labels
        BY <2>6, <2>8, <3>2
      <4>2. Cardinality(labels \cup {label}) = Cardinality(labels) + 1
        BY <2>5, <4>1, FS_AddElement
      <4>3. QED
        BY <3>1, <3>2, <4>1, <4>2, <2>5
    <3>3. CASE o.label # label
      <4>1. o \in c.keys
        BY <1>5, <1>7, <2>8, <3>3
      <4>2. o.label <= Cardinality(labels)
        BY <1>8, <2>1, <2>8, <4>1 DEF ConfigInv, ProposalsFree
      <4>3. IsFiniteSet(labels \cup {label})
        BY <2>5, FS_AddElement
      <4>4. Cardinality(labels) <= Cardinality(labels \cup {label})
            /\ Cardinality(labels \cup {label}) \in Nat
        BY <4>3, FS_Subset, FS_CardinalityType
      <4>5. QED
        BY <3>1, <4>2, <4>4, <2>5, <2>8
    <3>4. QED
      BY <3>2, <3>3
  <2>9. ProposalsFree'
    BY <1>8, <2>3, <2>7, <2>8 DEF ProposalsFree
  <2>10. QED
    BY <2>3, <2>9
<1>14. QED
  <2>1. builtin' \in [Process -> Origin] /\ deploying' \in SUBSET deploying
    BY DEF StoreKeypair, ConfigInv, ConfigsHeld
  <2>2. k \in new.keys /\ new.keys \subseteq made'
    BY <1>4, <1>7, <1>8
  <2>3. keysMade' \in Nat
    BY <1>3
  <2>4. \A o \in Current(p).keys : o \in new.keys \/ o \in deleted' \/ Overwritten(o)'
    BY <1>1, <1>12
  <2>5. QED
    BY <1>3, <1>7, <1>8, <1>9, <1>13, <2>1, <2>2, <2>3, <2>4, SaveKeeps

\* A keypair is generated, made by Quick Start or imported.
LEMMA StoringActionsKeep ==
    ASSUME ConfigInv, NEW p \in Process, NEW label \in Label,
           GenerateKeypair(p, label) \/ QuickStartKeypair(p, label) \/ ImportKeypair(p, label)
    PROVE  ConfigInv'
<1>1. CASE GenerateKeypair(p, label)
  <2>1. PICK default : default = IF Current(p).keys = {} THEN label
                                 ELSE IF Current(p).default = NoLabel THEN label
                                 ELSE Current(p).default
    OBVIOUS
  <2>2. StoreKeypair(p, label, default, {Cardinality(Labels(Current(p))) + 1})
    BY <1>1, <2>1 DEF GenerateKeypair
  <2>3. default = label \/ default = Current(p).default
    BY <2>1
  <2>4. QED
    BY <2>2, <2>3, StoreKeypairKeeps
<1>2. CASE QuickStartKeypair(p, label)
  BY <1>2, StoreKeypairKeeps DEF QuickStartKeypair
<1>3. CASE ImportKeypair(p, label)
  BY <1>3, StoreKeypairKeeps DEF ImportKeypair
<1>4. QED
  BY <1>1, <1>2, <1>3

\* A keypair is deleted, and the default with it.
LEMMA DeleteKeypairKeeps ==
    ASSUME ConfigInv, NEW p \in Process, NEW label \in Label, DeleteKeypair(p, label)
    PROVE  ConfigInv'
<1>1. PICK c : c = Current(p)
  OBVIOUS
<1>2. PICK gone : gone = {k \in c.keys : k.label = label}
  OBVIOUS
<1>3. cfg[p] # {} /\ keysMade' \in Nat /\ gone # {}
  BY <1>1, <1>2 DEF DeleteKeypair, Ready, ConfigInv, ConfigsHeld
<1>4. c \in Config /\ DefaultSound(c) /\ c.keys \subseteq made
      /\ (~collided /\ (file = {} \/ p \in inStep) => Kept = c.keys)
  BY <1>1, <1>3, CurrentIs
<1>5. PICK new : new = [c EXCEPT !.keys = @ \ gone,
                                 !.default = IF @ = label THEN NoLabel ELSE @]
  OBVIOUS
<1>6. new \in Config /\ new.keys = c.keys \ gone
      /\ new.default = IF c.default = label THEN NoLabel ELSE c.default
  BY <1>4, <1>5 DEF Config, Origin
<1>7. DefaultSound(new)
  <2>1. IsFiniteSet(new.keys)
    BY <1>4, <1>6, FS_Subset DEF DefaultSound
  <2>2. CASE new.default = NoLabel
    BY <2>1, <2>2 DEF DefaultSound
  <2>3. CASE new.default # NoLabel
    <3>1. new.default = c.default /\ c.default # label
      BY <2>3, <1>6
    <3>2. PICK o \in c.keys : o.label = c.default
      BY <3>1, <2>3, <1>4 DEF DefaultSound, Labels
    <3>3. o \in new.keys
      BY <3>1, <3>2, <1>2, <1>6
    <3>4. QED
      BY <2>1, <3>1, <3>2, <3>3 DEF DefaultSound, Labels
  <2>4. QED
    BY <2>2, <2>3
<1>8. SaveConfig(p, new)
  BY <1>1, <1>2, <1>5 DEF DeleteKeypair
<1>9. deleted' = deleted \cup gone /\ made' = made /\ keysMade' = keysMade
  BY <1>1, <1>2 DEF DeleteKeypair
<1>10. MadeNumbered'
  BY <1>2, <1>4, <1>9 DEF ConfigInv, MadeNumbered
<1>11. \A k : Overwritten(k)' <=> Overwritten(k)
  BY <1>9 DEF Overwritten
<1>12. ~collided /\ (file = {} \/ p \in inStep) => Kept' = new.keys /\ ProposalsFree'
  <2> SUFFICES ASSUME ~collided, file = {} \/ p \in inStep
               PROVE  Kept' = new.keys /\ ProposalsFree'
    OBVIOUS
  <2>1. Kept' = new.keys
    BY <1>4, <1>6, <1>9, <1>11 DEF Kept
  <2>2. ProposalsFree'
    BY <1>3, <1>9 DEF ProposalsFree
  <2>3. QED
    BY <2>1, <2>2
<1>13. \A k \in Current(p).keys : k \in new.keys \/ k \in deleted' \/ Overwritten(k)'
  BY <1>1, <1>6, <1>9
<1>14. builtin' \in [Process -> Origin] /\ deploying' \in SUBSET deploying
  BY DEF DeleteKeypair, ConfigInv, ConfigsHeld
<1>15. new.keys \subseteq made'
  BY <1>4, <1>6, <1>9
<1>16. QED
  BY <1>3, <1>6, <1>7, <1>8, <1>9, <1>10, <1>12, <1>13, <1>14, <1>15, SaveKeeps

\* What changes settings only keeps the keypairs.
LEMMA SettingsKeep ==
    ASSUME ConfigInv, NEW p \in Process, cfg[p] # {}, NEW c \in Config,
           c.keys = Current(p).keys,
           c.default = Current(p).default \/ c.default \in Labels(Current(p)),
           SaveConfig(p, c), UNCHANGED <<keysMade, made, deleted, typed>>,
           builtin' \in [Process -> Origin], deploying' \in SUBSET deploying
    PROVE  ConfigInv'
<1>1. DefaultSound(Current(p)) /\ Current(p).keys \subseteq made
      /\ (~collided /\ (file = {} \/ p \in inStep) => Kept = Current(p).keys)
  BY CurrentIs
<1>2. DefaultSound(c)
  BY <1>1 DEF DefaultSound, Labels
<1>3. keysMade' \in Nat /\ MadeNumbered'
  BY DEF ConfigInv, ConfigsHeld, MadeNumbered
<1>4. \A k : Overwritten(k)' <=> Overwritten(k)
  BY DEF Overwritten
<1>5. Kept' = Kept
  BY <1>4 DEF Kept
<1>6. ~collided => ProposalsFree'
  BY <1>4, <1>5 DEF ConfigInv, ProposalsFree
<1>7. QED
  BY <1>1, <1>2, <1>3, <1>5, <1>6, SaveKeeps

\* Another keypair becomes the default.
LEMMA SetDefaultKeypairKeeps ==
    ASSUME ConfigInv, NEW p \in Process, NEW label \in Label, SetDefaultKeypair(p, label)
    PROVE  ConfigInv'
<1>1. PICK c : c = Current(p)
  OBVIOUS
<1>2. cfg[p] # {} /\ label \in Labels(c) /\ UNCHANGED <<keysMade, made, deleted, typed>>
  BY <1>1 DEF SetDefaultKeypair, Ready
<1>3. c \in Config
  BY <1>1, <1>2, CurrentIs
<1>4. PICK new : new = [c EXCEPT !.default = label]
  OBVIOUS
<1>5. new \in Config /\ new.keys = c.keys /\ new.default = label
  BY <1>3, <1>4 DEF Config, Origin
<1>6. SaveConfig(p, new)
  BY <1>1, <1>4 DEF SetDefaultKeypair
<1>7. builtin' \in [Process -> Origin] /\ deploying' \in SUBSET deploying
  BY DEF SetDefaultKeypair, ConfigInv, ConfigsHeld
<1>8. QED
  BY <1>1, <1>2, <1>5, <1>6, <1>7, SettingsKeep

\* What changes contract addresses only keeps the keypairs.
LEMMA WithContractsKeeps ==
    ASSUME ConfigInv, NEW p \in Process, cfg[p] # {}, NEW c \in Config,
           c.keys = Current(p).keys, c.default = Current(p).default,
           WithContracts(p, c, "own"), UNCHANGED <<keysMade, made, deleted, typed>>,
           deploying' \in SUBSET deploying
    PROVE  ConfigInv'
<1>1. PICK new : new = [c EXCEPT !.contracts = "own"]
  OBVIOUS
<1>2. new \in Config /\ new.keys = c.keys /\ new.default = c.default
  BY <1>1 DEF Config, Origin
<1>3. SaveConfig(p, new) /\ builtin' \in [Process -> Origin]
  BY <1>1 DEF WithContracts, ConfigInv, ConfigsHeld, Origin
<1>4. QED
  BY <1>2, <1>3, SettingsKeep

\* The commands that change settings, networks and addresses, resets and imports.
LEMMA SettingActionsKeep ==
    ASSUME ConfigInv, NEW p \in Process,
           \/ DeploymentEnds(p) \/ SetContract(p) \/ SwitchNetwork(p)
           \/ SetRpcUrl(p) \/ ResetConfig(p)
           \/ \E url, contracts \in BOOLEAN : ImportConfig(p, url, contracts)
    PROVE  ConfigInv'
<1>1. cfg[p] # {}
  BY DEF DeploymentEnds, SetContract, SwitchNetwork, SetRpcUrl, ResetConfig, ImportConfig,
         Ready, ConfigInv, ConfigsHeld
<1>2. PICK c : c = Current(p)
  OBVIOUS
<1>3. c \in Config
  BY <1>1, <1>2, CurrentIs
<1>4. \A url \in Origin : /\ [c EXCEPT !.rpcUrl = url] \in Config
                          /\ [c EXCEPT !.rpcUrl = url].keys = c.keys
                          /\ [c EXCEPT !.rpcUrl = url].default = c.default
  BY <1>3 DEF Config
<1>5. builtin \in [Process -> Origin]
  BY DEF ConfigInv, ConfigsHeld
<1>6. CASE DeploymentEnds(p)
  <2>1. PICK new : new = [c EXCEPT !.rpcUrl = "own"]
    OBVIOUS
  <2>2. new \in Config /\ new.keys = c.keys /\ new.default = c.default
    BY <1>4, <2>1 DEF Origin
  <2>3. WithContracts(p, new, "own") /\ UNCHANGED <<keysMade, made, deleted, typed>>
        /\ deploying' \in SUBSET deploying
    BY <1>2, <1>6, <2>1 DEF DeploymentEnds
  <2>4. QED
    BY <1>1, <1>2, <2>2, <2>3, WithContractsKeeps
<1>7. CASE SetContract(p)
  <2>1. WithContracts(p, c, "own") /\ UNCHANGED <<keysMade, made, deleted, typed>>
        /\ deploying' \in SUBSET deploying
    BY <1>2, <1>7 DEF SetContract
  <2>2. QED
    BY <1>1, <1>2, <1>3, <2>1, WithContractsKeeps
<1>8. CASE SwitchNetwork(p)
  <2>1. PICK new : new = [c EXCEPT !.rpcUrl = "builtin"]
    OBVIOUS
  <2>2. new \in Config /\ new.keys = c.keys /\ new.default = c.default
    BY <1>4, <2>1 DEF Origin
  <2>3. SaveConfig(p, new) /\ UNCHANGED <<keysMade, made, deleted, typed>>
        /\ deploying' \in SUBSET deploying /\ builtin' \in [Process -> Origin]
    BY <1>2, <1>5, <1>8, <2>1 DEF SwitchNetwork
  <2>4. QED
    BY <1>1, <1>2, <2>2, <2>3, SettingsKeep
<1>9. CASE SetRpcUrl(p)
  <2>1. PICK new : new = [c EXCEPT !.rpcUrl = "own"]
    OBVIOUS
  <2>2. new \in Config /\ new.keys = c.keys /\ new.default = c.default
    BY <1>4, <2>1 DEF Origin
  <2>3. SaveConfig(p, new) /\ UNCHANGED <<keysMade, made, deleted, typed>>
        /\ deploying' \in SUBSET deploying /\ builtin' \in [Process -> Origin]
    BY <1>2, <1>5, <1>9, <2>1 DEF SetRpcUrl
  <2>4. QED
    BY <1>1, <1>2, <2>2, <2>3, SettingsKeep
<1>10. CASE ResetConfig(p)
  <2>1. PICK fresh : fresh = Defaults(p)
    OBVIOUS
  <2>2. fresh \in Config
    BY <2>1, DefaultsSound
  <2>3. PICK new : new = [Preserved(c, fresh) EXCEPT !.rpcUrl = c.rpcUrl]
    OBVIOUS
  <2>4. new \in Config /\ new.keys = c.keys /\ new.default = c.default
    BY <1>3, <2>2, <2>3 DEF Preserved, Config
  <2>5. SaveConfig(p, new) /\ UNCHANGED <<keysMade, made, deleted, typed>>
        /\ deploying' \in SUBSET deploying /\ builtin' \in [Process -> Origin]
    BY <1>2, <1>5, <1>10, <2>1, <2>3 DEF ResetConfig
  <2>6. QED
    BY <1>1, <1>2, <2>4, <2>5, SettingsKeep
<1>11. ASSUME NEW url \in BOOLEAN, NEW contracts \in BOOLEAN,
              ImportConfig(p, url, contracts)
       PROVE  ConfigInv'
  <2>1. PICK new : new = [c EXCEPT !.rpcUrl = IF url THEN "own" ELSE @]
    OBVIOUS
  <2>2. new \in Config /\ new.keys = c.keys /\ new.default = c.default
    BY <1>3, <2>1 DEF Config, Origin
  <2>3. UNCHANGED <<keysMade, made, deleted, typed>> /\ deploying' \in SUBSET deploying
        /\ (WithContracts(p, new, "own") \/ (SaveConfig(p, new) /\ builtin' = builtin))
    BY <1>2, <1>11, <2>1 DEF ImportConfig
  <2>4. CASE WithContracts(p, new, "own")
    BY <1>1, <1>2, <2>2, <2>3, <2>4, WithContractsKeeps
  <2>5. CASE SaveConfig(p, new) /\ builtin' = builtin
    BY <1>1, <1>2, <1>5, <2>2, <2>3, <2>5, SettingsKeep
  <2>6. QED
    BY <2>3, <2>4, <2>5
<1>12. QED
  BY <1>6, <1>7, <1>8, <1>9, <1>10, <1>11

\* What makes, deletes and types nothing leaves the keypairs kept, and free what is
\* proposed.
LEMMA KeptUnchanged ==
    ASSUME UNCHANGED <<made, deleted, typed>>
    PROVE  /\ \A k : Overwritten(k)' <=> Overwritten(k)
           /\ Kept' = Kept
           /\ ProposalsFree => ProposalsFree'
<1>1. \A k : Overwritten(k)' <=> Overwritten(k)
  BY DEF Overwritten
<1>2. Kept' = Kept
  BY <1>1 DEF Kept
<1>3. QED
  BY <1>1, <1>2 DEF ProposalsFree

\* A process reads the file, or makes one.
LEMMA LoadConfigKeeps ==
    ASSUME ConfigInv, NEW p \in Process, LoadConfig(p)
    PROVE  ConfigInv'
<1>1. PICK loaded : loaded = IF file = {} THEN {Defaults(p)} ELSE file
  OBVIOUS
<1>2. loaded \in SUBSET Config /\ (\A c, d \in loaded : c = d)
      /\ (\A c \in loaded : DefaultSound(c) /\ c.keys \subseteq made)
      /\ (file = {} => \A c \in loaded : c.keys = {})
      /\ (file # {} => loaded = file)
  BY <1>1, DefaultsSound DEF ConfigInv, ConfigsHeld, KeysMade
<1>3. cfg' = [cfg EXCEPT ![p] = loaded]
  BY <1>1 DEF LoadConfig
<1>4. cfg' \in [Process -> SUBSET Config] /\ cfg'[p] = loaded
      /\ \A q \in Process \ {p} : cfg'[q] = cfg[q]
  BY <1>2, <1>3 DEF ConfigInv, ConfigsHeld
<1>5. UNCHANGED <<builtin, file, deploying, keysMade, made, deleted, lost, typed, collided>>
      /\ cfg[p] = {} /\ inStep' = IF file = {} THEN inStep ELSE inStep \cup {p}
  BY DEF LoadConfig, keyHistory
<1>6. ConfigsHeld'
  <2>1. \A q \in Process : \A x, y \in cfg'[q] : x = y
    BY <1>2, <1>4 DEF ConfigInv, ConfigsHeld
  <2>2. \A q \in Process : \A x \in cfg'[q] : DefaultSound(x)
    BY <1>2, <1>4 DEF ConfigInv, ConfigsHeld
  <2>3. \A q \in deploying : cfg'[q] # {}
    BY <1>3, <1>5 DEF ConfigInv, ConfigsHeld
  <2>4. QED
    BY <1>4, <1>5, <2>1, <2>2, <2>3 DEF ConfigInv, ConfigsHeld, DefaultSound, Labels
<1>7. /\ \A k : Overwritten(k)' <=> Overwritten(k)
      /\ Kept' = Kept
      /\ ProposalsFree => ProposalsFree'
  BY <1>5, KeptUnchanged
<1>8. FileKept'
  <2> SUFFICES ASSUME ~collided PROVE FileKept'
    BY <1>5 DEF FileKept
  <2>1. CASE file = {}
    BY <2>1, <1>2, <1>4, <1>5, <1>7 DEF ConfigInv, FileKept
  <2>2. CASE file # {}
    <3>1. \A c \in loaded : c.keys = Kept
      BY <2>2, <1>2 DEF ConfigInv, FileKept
    <3>2. \A q \in inStep' : \A x \in cfg'[q] : x.keys = Kept
      BY <2>2, <3>1, <1>3, <1>4, <1>5 DEF ConfigInv, FileKept, ConfigsHeld
    <3>3. QED
      BY <2>2, <3>2, <1>5, <1>7 DEF ConfigInv, FileKept
  <2>3. QED
    BY <2>1, <2>2
<1>9. LossesKnown'
  <2>1. InFile' = InFile
    BY <1>5 DEF InFile
  <2>2. file # {} => \A x \in loaded : \A k \in InFile : k \in x.keys
    BY <1>2 DEF ConfigInv, ConfigsHeld, InFile
  <2>3. \A q \in inStep' : \A x \in cfg'[q] : \A k \in InFile :
           k \in x.keys \/ k \in deleted \/ Overwritten(k)
    <3> SUFFICES ASSUME NEW q \in inStep', NEW x \in cfg'[q], NEW k \in InFile
                 PROVE  k \in x.keys \/ k \in deleted \/ Overwritten(k)
      OBVIOUS
    <3>1. file # {}
      BY DEF InFile
    <3>2. CASE q = p
      BY <3>1, <3>2, <2>2, <1>4
    <3>3. CASE q # p
      BY <3>3, <1>3, <1>5 DEF ConfigInv, ConfigsHeld, LossesKnown
    <3>4. QED
      BY <3>2, <3>3
  <2>4. QED
    BY <2>1, <2>3, <1>5, <1>7 DEF ConfigInv, LossesKnown
<1>10. MadeNumbered' /\ KeysMade' /\ (~collided' => ProposalsFree')
  <2>1. MadeNumbered'
    BY <1>5 DEF ConfigInv, MadeNumbered
  <2>2. KeysMade'
    BY <1>2, <1>4, <1>5 DEF ConfigInv, KeysMade
  <2>3. QED
    BY <2>1, <2>2, <1>5, <1>7 DEF ConfigInv
<1>11. QED
  BY <1>6, <1>8, <1>9, <1>10 DEF ConfigInv

\* A process ends, or is killed while it writes.
LEMMA ProcessEndsKeeps ==
    ASSUME ConfigInv, NEW p \in Process, ProcessEnds(p) \/ KilledWriting(p)
    PROVE  ConfigInv'
<1>1. cfg' = [cfg EXCEPT ![p] = {}] /\ builtin' = [builtin EXCEPT ![p] = "builtin"]
      /\ deploying' = deploying \ {p} /\ UNCHANGED <<keysMade, made, deleted, typed>>
  BY DEF ProcessEnds, KilledWriting, keyHistory
<1>2. cfg' \in [Process -> SUBSET Config] /\ builtin' \in [Process -> Origin]
      /\ cfg'[p] = {} /\ \A q \in Process \ {p} : cfg'[q] = cfg[q]
  BY <1>1 DEF ConfigInv, ConfigsHeld, Origin
<1>3. file' = file \/ file' = {}
  BY DEF ProcessEnds, KilledWriting
<1>4. ConfigsHeld'
  <2>1. \A q \in Process : \A x, y \in cfg'[q] : x = y
    BY <1>2 DEF ConfigInv, ConfigsHeld
  <2>2. \A q \in Process : \A x \in cfg'[q] : DefaultSound(x)
    BY <1>2 DEF ConfigInv, ConfigsHeld
  <2>3. \A q \in deploying' : cfg'[q] # {}
    BY <1>1 DEF ConfigInv, ConfigsHeld
  <2>4. QED
    BY <1>1, <1>2, <1>3, <2>1, <2>2, <2>3 DEF ConfigInv, ConfigsHeld, DefaultSound, Labels
<1>5. /\ \A k : Overwritten(k)' <=> Overwritten(k)
      /\ Kept' = Kept
      /\ ProposalsFree => ProposalsFree'
  BY <1>1, KeptUnchanged
<1>6. MadeNumbered' /\ KeysMade'
  <2>1. MadeNumbered'
    BY <1>1 DEF ConfigInv, MadeNumbered
  <2>2. KeysMade'
    BY <1>1, <1>2, <1>3 DEF ConfigInv, KeysMade
  <2>3. QED
    BY <2>1, <2>2
<1>7. \A q : q # p => cfg'[q] = cfg[q]
  BY <1>1
<1>8. \A q \in Process : \A x \in cfg'[q] : x \in cfg[q]
  BY <1>2
<1>9. CASE ProcessEnds(p)
  <2>1. file' = file /\ collided' = collided /\ inStep' = inStep \ {p} /\ lost' = lost
    BY <1>9 DEF ProcessEnds, keyHistory
  <2>2. FileKept'
    BY <2>1, <1>5, <1>7, <1>8 DEF ConfigInv, FileKept
  <2>3. InFile' = InFile
    BY <2>1 DEF InFile
  <2>4. LossesKnown'
    BY <2>1, <2>3, <1>1, <1>5, <1>7 DEF ConfigInv, LossesKnown
  <2>5. QED
    BY <2>1, <2>2, <2>4, <1>4, <1>5, <1>6 DEF ConfigInv
<1>10. CASE KilledWriting(p)
  <2>1. inStep' = {} /\ collided' /\ lost' = lost \cup InFile
    BY <1>10 DEF KilledWriting
  <2>2. LossesKnown'
    BY <2>1, <1>1, <1>5 DEF ConfigInv, LossesKnown
  <2>3. QED
    BY <2>1, <2>2, <1>4, <1>6 DEF ConfigInv, FileKept
<1>11. QED
  BY <1>9, <1>10

\* A deployment begins, or nothing happens.
LEMMA IdleKeeps ==
    ASSUME ConfigInv,
           UNCHANGED <<cfg, builtin, file, keysMade, cliHistory>>,
           \A q \in deploying' : q \in deploying \/ cfg[q] # {}
    PROVE  ConfigInv'
<1>1. UNCHANGED <<cfg, builtin, file, keysMade, made, deleted, lost, typed, inStep, collided>>
  BY DEF cliHistory, keyHistory
<1>2. /\ \A k : Overwritten(k)' <=> Overwritten(k)
      /\ Kept' = Kept
      /\ ProposalsFree => ProposalsFree'
  BY <1>1, KeptUnchanged
<1>3. ConfigsHeld'
  BY <1>1 DEF ConfigInv, ConfigsHeld, DefaultSound, Labels
<1>4. FileKept'
  BY <1>1, <1>2 DEF ConfigInv, FileKept
<1>5. LossesKnown'
  BY <1>1, <1>2 DEF ConfigInv, LossesKnown, InFile
<1>6. MadeNumbered' /\ KeysMade'
  BY <1>1 DEF ConfigInv, MadeNumbered, KeysMade
<1>7. QED
  BY <1>1, <1>2, <1>3, <1>4, <1>5, <1>6 DEF ConfigInv

\* Each step of the processes keeps the invariant.
LEMMA ConfigStep == ConfigInv /\ [ConfigNext]_configVars => ConfigInv'
<1> SUFFICES ASSUME ConfigInv, [ConfigNext]_configVars PROVE ConfigInv'
  OBVIOUS
<1>1. CASE UNCHANGED configVars
  BY <1>1, IdleKeeps DEF configVars
<1>2. CASE ConfigNext
  <2>1. PICK p \in Process :
            \/ LoadConfig(p)
            \/ \E label \in (1..MaxKeys) \cup {MyIdentity} :
                  \/ GenerateKeypair(p, label) \/ QuickStartKeypair(p, label)
                  \/ ImportKeypair(p, label) \/ DeleteKeypair(p, label)
                  \/ SetDefaultKeypair(p, label)
            \/ DeployAll(p) \/ DeploymentEnds(p) \/ SetContract(p)
            \/ SwitchNetwork(p) \/ SetRpcUrl(p) \/ ResetConfig(p)
            \/ \E url, contracts \in BOOLEAN : ImportConfig(p, url, contracts)
            \/ ProcessEnds(p) \/ KilledWriting(p)
    BY <1>2 DEF ConfigNext
  <2>2. (1..MaxKeys) \cup {MyIdentity} \subseteq Label
    BY CliConfigAssumption DEF Label
  <2>3. CASE DeployAll(p)
    BY <2>3, IdleKeeps DEF DeployAll, Ready
  <2>4. QED
    BY <2>1, <2>2, <2>3, LoadConfigKeeps, StoringActionsKeep, DeleteKeypairKeeps,
       SetDefaultKeypairKeeps, SettingActionsKeep, ProcessEndsKeeps
<1>3. QED
  BY <1>1, <1>2

\* No file, or keypairs made one after the other.
LEMMA ConfigStart == ConfigInit => ConfigInv
<1> SUFFICES ASSUME ConfigInit PROVE ConfigInv
  OBVIOUS
<1>1. PICK n \in 0..MaxSaved :
        /\ keysMade = n
        /\ made = {[label |-> i, id |-> i] : i \in 1..n}
        /\ file = IF n = 0 THEN {}
                  ELSE {[rpcUrl |-> "builtin", contracts |-> "builtin", aliased |-> FALSE,
                         keys |-> made, default |-> 1]}
        /\ cfg = [p \in Process |-> {}]
        /\ builtin = [p \in Process |-> "builtin"]
        /\ deploying = {}
        /\ deleted = {} /\ lost = {} /\ typed = {}
        /\ inStep = {} /\ collided = FALSE
  BY DEF ConfigInit
<1>2. n \in Nat
  BY CliConfigAssumption
<1>3. made \in SUBSET Keypair /\ \A k \in made : k.id <= n /\ k.label = k.id
  BY <1>1, <1>2 DEF Keypair, Label
<1>4. \A k \in made : ~Overwritten(k)
  BY <1>3 DEF Overwritten, Keypair
<1>5. Kept = made
  BY <1>1, <1>4 DEF Kept
<1>6. LabelsOf(made) = 1..n
  <2>1. \A i \in 1..n : [label |-> i, id |-> i].label = i
    OBVIOUS
  <2>2. \A k \in made : k.label \in 1..n
    BY <1>1
  <2>3. \A i \in 1..n : \E k \in made : k.label = i
    BY <1>1, <2>1
  <2>4. QED
    BY <2>2, <2>3 DEF LabelsOf
<1>7. IsFiniteSet(1..n) /\ Cardinality(1..n) = n
  BY <1>2, FS_Interval
<1>8. IsFiniteSet(made)
  <2> DEFINE key == [i \in 1..n |-> [label |-> i, id |-> i]]
  <2>1. key \in Surjection(1..n, made)
    BY <1>1 DEF Surjection
  <2>2. QED
    BY <2>1, <1>7, FS_Surjection
<1>9. n = 0 => made = {}
  BY <1>1
<1>10. \A f \in file : f \in Config /\ DefaultSound(f) /\ f.keys = made
  <2> SUFFICES ASSUME NEW f \in file PROVE f \in Config /\ DefaultSound(f) /\ f.keys = made
    OBVIOUS
  <2>1. f = [rpcUrl |-> "builtin", contracts |-> "builtin", aliased |-> FALSE,
             keys |-> made, default |-> 1] /\ n # 0
    BY <1>1
  <2>2. f \in Config /\ f.keys = made /\ f.default = 1
    BY <2>1, <1>3 DEF Config, Origin, Label
  <2>3. 1 \in LabelsOf(made)
    BY <2>1, <1>2, <1>6
  <2>4. QED
    BY <2>2, <2>3, <1>8 DEF DefaultSound, Labels, LabelsOf
<1>11. \A c, d \in file : c = d
  BY <1>1
<1>12. ConfigsHeld
  BY <1>1, <1>2, <1>10, <1>11 DEF ConfigsHeld, Origin
<1>13. MadeNumbered /\ KeysMade
  BY <1>1, <1>3, <1>10 DEF MadeNumbered, KeysMade
<1>14. FileKept
  BY <1>1, <1>5, <1>9, <1>10 DEF FileKept
<1>15. LossesKnown
  <2>1. CASE n = 0
    BY <2>1, <1>1, <1>9 DEF LossesKnown
  <2>2. CASE n # 0
    <3>1. InFile = made
      BY <2>2, <1>1, <1>10 DEF InFile
    <3>2. QED
      BY <3>1, <1>1 DEF LossesKnown
  <2>3. QED
    BY <2>1, <2>2
<1>16. ProposalsFree
  BY <1>3, <1>4, <1>5, <1>6, <1>7 DEF ProposalsFree
<1>17. QED
  BY <1>12, <1>13, <1>14, <1>15, <1>16 DEF ConfigInv

\* The invariant of configurations and file.
LEMMA ConfigInvariance == ConfigSpec => []ConfigInv
  BY ConfigStart, ConfigStep, PTL DEF ConfigSpec

\* For any processes and commands a keypair made or imported is in the file unless it
\* was deleted, overwritten by a later one under its label, or may have been lost to a
\* write that failed or was torn or to a process that saved what it had read before
\* another saved; without such a write or save the file has exactly the others, and what
\* is overwritten while nothing was deleted had a label somebody typed or was made by
\* Quick Start; and a default names a saved keypair: cli/index.ts reads the whole file
\* when a process starts, writes all of it back after a change, and asks nobody before
\* it gives a label in use to a new keypair.
THEOREM KeypairsAlwaysKept == ConfigSpec => []KeypairsKept
<1>1. ConfigInv => KeypairsKept
  <2> SUFFICES ASSUME ConfigInv PROVE KeypairsKept
    OBVIOUS
  <2>1. ~collided => InFile = Kept
    <3>1. CASE file = {}
      BY <3>1 DEF ConfigInv, FileKept, InFile
    <3>2. CASE file # {}
      <4>1. PICK f : f \in file
        BY <3>2
      <4>2. file = {f}
        BY <4>1 DEF ConfigInv, ConfigsHeld
      <4>3. InFile = f.keys
        BY <4>2 DEF InFile
      <4>4. QED
        BY <4>1, <4>3 DEF ConfigInv, FileKept
    <3>3. QED
      BY <3>1, <3>2
  <2>2. \A c \in file \cup UNION {cfg[p] : p \in Process} : DefaultSound(c)
    BY DEF ConfigInv, ConfigsHeld
  <2>3. \A k \in made : k \in InFile \/ k \in deleted \/ Overwritten(k) \/ k \in lost
    BY DEF ConfigInv, LossesKnown
  <2>4. ~collided /\ deleted = {} =>
          \A k \in made : Overwritten(k) => k.label \in typed \cup {MyIdentity}
    BY DEF ConfigInv, ProposalsFree
  <2>5. QED
    BY <2>1, <2>2, <2>3, <2>4 DEF KeypairsKept, DefaultSound, Kept
<1>2. QED
  BY <1>1, ConfigInvariance, PTL

-----------------------------------------------------------------------------
(***************************************************************************)
(* IdentityPanels: panels that set their state whenever an answer arrives. *)
(***************************************************************************)
Pending == [kind : {"none", "load", "change", "final", "other"}, for : Address \cup {NoAddress}]

PanelTypes ==
    /\ panel \in Hook \cup Component
    /\ account \in Address \cup {NoAddress} /\ storedSecret \in Address \cup {NoAddress}
    /\ loading \in BOOLEAN /\ error \in BOOLEAN /\ late \in BOOLEAN
    /\ pending \in [Request -> Pending]

\* Data of another address on a panel that follows the address, though none came late.
Stale ==
    panel \in FollowsAddress /\ account # NoAddress /\ ~late /\ shown \notin {account, NoAddress}

\* Such data are about to be replaced, or an error is shown; the DID manager clears its errors
\* without a load, but when a load fails it shows nothing.
PanelInv ==
    /\ PanelTypes
    /\ loading => \E q \in Request : pending[q] # Nothing
    /\ Stale /\ panel = "DIDManager" => \E q \in Request : pending[q].kind = "load"
    /\ Stale /\ ~error => \E q \in Request : pending[q].kind \in {"load", "change"}

\* A request is sent.
LEMMA NewRequest ==
  ASSUME pending \in [Request -> Pending], NEW q \in Request,
         NEW kind \in {"load", "change", "final", "other"}, NEW a \in Address \cup {NoAddress},
         pending' = [pending EXCEPT ![q] = [kind |-> kind, for |-> a]]
  PROVE  /\ pending' \in [Request -> Pending] /\ pending'[q].kind = kind /\ pending'[q] # Nothing
         /\ \A r \in Request : r # q => pending'[r] = pending[r]
BY DEF Pending, Nothing

\* A panel starts loading for an account.
LEMMA BeginLoadKeeps ==
  ASSUME PanelInv, NEW q \in Request, NEW a \in Address, BeginLoad(q, a),
         UNCHANGED panel, account' \in Address \cup {NoAddress},
         storedSecret' \in Address \cup {NoAddress}
  PROVE  PanelInv'
<1>1. /\ pending' = [pending EXCEPT ![q] = [kind |-> "load", for |-> a]]
      /\ loading' = TRUE /\ error' \in BOOLEAN /\ UNCHANGED <<shown, late>>
  BY DEF BeginLoad, PanelInv, PanelTypes
<1>2. pending' \in [Request -> Pending] /\ pending'[q].kind = "load" /\ pending'[q] # Nothing
  BY <1>1, NewRequest DEF PanelInv, PanelTypes
<1> QED
  BY <1>1, <1>2 DEF PanelInv, PanelTypes

\* The panel is another one, or blank, and shows nothing.
LEMMA FreshKeeps ==
  ASSUME PanelInv, UNCHANGED panel, account' \in Address \cup {NoAddress},
         storedSecret' \in Address \cup {NoAddress},
         Blank \/ \E a \in Address : Mounted(a)
  PROVE  PanelInv'
<1>1. CASE Blank
  <2>1. Nothing \in Pending
    BY DEF Nothing, Pending
  <2>2. pending' \in [Request -> Pending] /\ shown' = NoAddress
    BY <1>1, <2>1 DEF Blank
  <2> QED
    BY <1>1, <2>2 DEF Blank, PanelInv, PanelTypes, Stale
<1>2. ASSUME NEW a \in Address, Mounted(a) PROVE PanelInv'
  <2>1. PICK q \in Request :
           /\ pending' = [r \in Request |-> IF r = q THEN [kind |-> "load", for |-> a] ELSE Nothing]
           /\ shown' = NoAddress /\ loading' = TRUE /\ error' = FALSE /\ late' = FALSE
    BY <1>2 DEF Mounted
  <2>2. Nothing \in Pending /\ [kind |-> "load", for |-> a] \in Pending
        /\ [kind |-> "load", for |-> a] # Nothing
    BY DEF Nothing, Pending
  <2>3. pending' \in [Request -> Pending] /\ pending'[q] # Nothing
    BY <2>1, <2>2
  <2> QED
    BY <2>1, <2>3 DEF PanelInv, PanelTypes, Stale
<1> QED
  BY <1>1, <1>2

\* The session moves on, and with it the address of the panel.
LEMMA AddressKeeps ==
  ASSUME PanelInv, UNCHANGED panel, NEW a \in Address \cup {NoAddress}, account' = a,
         storedSecret' \in Address \cup {NoAddress}, AddressBecomes(a)
  PROVE  PanelInv'
<1>1. CASE Blank \/ \E b \in Address : Mounted(b)
  BY <1>1, FreshKeeps
<1>2. CASE \E q \in Request : a \in Address /\ BeginLoad(q, a)
  BY <1>2, BeginLoadKeeps
<1>3. CASE Unmoved /\ (a = NoAddress \/ panel \notin FollowsAddress \/ a = account)
  <2>1. UNCHANGED <<shown, loading, error, pending, late>>
    BY <1>3 DEF Unmoved
  <2>2. Stale' => Stale
    BY <1>3, <2>1 DEF Stale
  <2> QED
    BY <2>1, <2>2 DEF PanelInv, PanelTypes
<1> QED
  BY <1>1, <1>2, <1>3 DEF AddressBecomes

\* The session or the configuration changes.
LEMMA SessionKeeps ==
  ASSUME PanelInv,
         (\E a \in Address, secret \in BOOLEAN : Connect(a, secret))
            \/ Disconnect \/ PageReload \/ ConfigChanges
  PROVE  PanelInv'
<1>1. AutoConnected \in Address \cup {NoAddress} /\ NoAddress \in Address \cup {NoAddress}
  BY DEF AutoConnected, PanelInv, PanelTypes
<1>2. ASSUME NEW a \in Address, NEW secret \in BOOLEAN, Connect(a, secret) PROVE PanelInv'
  <2>1. /\ account' = a /\ storedSecret' \in Address \cup {NoAddress} /\ AddressBecomes(a)
        /\ UNCHANGED panel
    BY <1>2 DEF Connect, Move, PanelInv, PanelTypes
  <2> QED
    BY <2>1, AddressKeeps
<1>3. CASE Disconnect
  BY <1>1, <1>3, AddressKeeps DEF Disconnect, Move
<1>4. CASE PageReload
  <2>1. /\ UNCHANGED <<panel, storedSecret>> /\ account' \in Address \cup {NoAddress}
        /\ Blank \/ \E a \in Address : Mounted(a)
    BY <1>1, <1>4 DEF PageReload, Move
  <2>2. storedSecret' \in Address \cup {NoAddress}
    BY <2>1 DEF PanelInv, PanelTypes
  <2> QED
    BY <2>1, <2>2, FreshKeeps
<1>5. CASE ConfigChanges
  <2>1. PICK a \in Address \cup {NoAddress} : a = AutoConnected
    BY <1>1
  <2>2. /\ UNCHANGED <<panel, storedSecret>> /\ account' = a
        /\ IF a = NoAddress THEN AddressBecomes(NoAddress)
           ELSE IF panel \in Component THEN Mounted(a)
           ELSE \E q \in Request : BeginLoad(q, a)
    BY <1>5, <2>1 DEF ConfigChanges, Move
  <2>3. storedSecret' \in Address \cup {NoAddress}
    BY <2>2 DEF PanelInv, PanelTypes
  <2>4. CASE a = NoAddress
    BY <2>2, <2>3, <2>4, AddressKeeps
  <2>5. CASE a # NoAddress
    BY <2>2, <2>3, <2>5, FreshKeeps, BeginLoadKeeps
  <2> QED
    BY <2>4, <2>5
<1> QED
  BY <1>2, <1>3, <1>4, <1>5

\* A request ends; the one that was needed brought what it was to bring, or an error.
LEMMA EndedKeeps ==
  ASSUME PanelInv, NEW q \in Request, Ended(q), Session, error' \in BOOLEAN, late' \in BOOLEAN,
         \/ shown' = NoAddress
         \/ pending[q].kind = "load" /\ Stale' = FALSE
         \/ error' = TRUE /\ shown' = shown /\ late' = late
               /\ (pending[q].kind = "load" => panel # "DIDManager")
         \/ error' = error /\ shown' = shown /\ late' = late /\ pending[q].kind \in {"final", "other"}
  PROVE  PanelInv'
<1>1. /\ pending' = [pending EXCEPT ![q] = Nothing] /\ loading' = FALSE /\ pending \in [Request -> Pending]
      /\ UNCHANGED <<panel, account, storedSecret>>
  BY DEF Ended, Session, PanelInv, PanelTypes
<1>2. Nothing \in Pending
  BY DEF Nothing, Pending
<1>3. pending' \in [Request -> Pending] /\ \A r \in Request : r # q => pending'[r] = pending[r]
  BY <1>1, <1>2
<1>4. PanelTypes'
  BY <1>1, <1>3 DEF PanelInv, PanelTypes
<1>5. CASE ~Stale'
  BY <1>1, <1>4, <1>5 DEF PanelInv
<1>6. CASE Stale'
  <2>1. shown' # NoAddress
    BY <1>6 DEF Stale
  <2>2. shown' = shown /\ late' = late /\ Stale
    BY <1>1, <1>6, <2>1 DEF Stale
  <2>3. panel = "DIDManager" => \E r \in Request : pending'[r].kind = "load"
    BY <1>3, <1>6, <2>1, <2>2 DEF PanelInv
  <2>4. ~error' => \E r \in Request : pending'[r].kind \in {"load", "change"}
    BY <1>3, <1>6, <2>1, <2>2 DEF PanelInv
  <2> QED
    BY <1>1, <1>4, <2>3, <2>4 DEF PanelInv
<1> QED
  BY <1>5, <1>6

\* A panel sends a change.
LEMMA BeginChangeKeeps ==
  ASSUME PanelInv, NEW q \in Request, NEW k \in {"change", "final", "other"}, BeginChange(q, k)
  PROVE  PanelInv'
<1>1. /\ pending[q] = Nothing /\ pending' = [pending EXCEPT ![q] = [kind |-> k, for |-> account]]
      /\ loading' = TRUE /\ k \in ChangeKind
      /\ error' = IF k = "other" /\ panel = "ProofRequest" THEN error ELSE FALSE
      /\ UNCHANGED <<panel, account, storedSecret, shown, late>>
  BY DEF BeginChange, Session
<1>2. /\ pending' \in [Request -> Pending] /\ pending'[q].kind = k /\ pending'[q] # Nothing
      /\ \A r \in Request : r # q => pending'[r] = pending[r]
  BY <1>1, NewRequest DEF PanelInv, PanelTypes
<1>3. pending[q].kind = "none"
  BY <1>1 DEF Nothing
<1>4. \A r \in Request : pending[r].kind = "load" => pending'[r].kind = "load"
  BY <1>2, <1>3
<1>5. Stale' => Stale
  BY <1>1 DEF Stale
<1>6. Stale => \/ k = "change" \/ panel = "DIDManager"
               \/ k = "other" /\ panel = "ProofRequest"
  BY <1>1 DEF Stale, FollowsAddress, ChangeKind
<1>7. Stale' /\ ~error' => \E r \in Request : pending'[r].kind \in {"load", "change"}
  BY <1>1, <1>2, <1>3, <1>4, <1>5, <1>6 DEF PanelInv
<1>8. PanelTypes'
  BY <1>1, <1>2 DEF PanelInv, PanelTypes
<1> QED
  BY <1>1, <1>2, <1>4, <1>5, <1>7, <1>8 DEF PanelInv

\* A change succeeds, and the panel takes what it returns.
LEMMA ChangeSucceedsKeeps ==
  ASSUME PanelInv, NEW q \in Request, ChangeSucceeds(q)
  PROVE  PanelInv'
<1>1. /\ pending[q].kind = "change" /\ pending' = [pending EXCEPT ![q].kind = "load"]
      /\ loading' = TRUE /\ error' \in BOOLEAN
      /\ UNCHANGED <<panel, account, storedSecret, shown, late>> /\ pending \in [Request -> Pending]
  BY DEF ChangeSucceeds, Session, PanelInv, PanelTypes
<1>2. /\ pending' \in [Request -> Pending] /\ pending'[q].kind = "load"
  BY <1>1 DEF Pending
<1>3. pending'[q] # Nothing
  BY <1>2 DEF Nothing
<1> QED
  BY <1>1, <1>2, <1>3 DEF PanelInv, PanelTypes

\* Each step of the panels keeps the invariant.
LEMMA PanelsStep == ASSUME PanelInv, [PanelsNext]_panelVars PROVE PanelInv'
<1>1. CASE UNCHANGED panelVars
  BY <1>1 DEF panelVars, PanelInv, PanelTypes, Stale
<1>2. CASE FormRefused
  <2>1. /\ error' = TRUE /\ loading' = FALSE /\ panel # "DIDManager"
        /\ UNCHANGED <<panel, account, storedSecret, shown, pending, late>>
    BY <1>2 DEF FormRefused, Session
  <2> QED
    BY <2>1 DEF PanelInv, PanelTypes
<1>3. ASSUME NEW q \in Request, Refresh(q) PROVE PanelInv'
  <2>1. BeginLoad(q, account) /\ account \in Address /\ UNCHANGED <<panel, account, storedSecret>>
    BY <1>3 DEF Refresh, Session, PanelInv, PanelTypes
  <2>2. account' \in Address \cup {NoAddress} /\ storedSecret' \in Address \cup {NoAddress}
    BY <2>1 DEF PanelInv, PanelTypes
  <2>3. PICK a \in Address : a = account
    BY <2>1
  <2> QED
    BY <2>1, <2>2, <2>3, BeginLoadKeeps
<1>4. ASSUME NEW q \in Request, NEW a \in Address, CheckOther(q, a) PROVE PanelInv'
  <2>1. BeginLoad(q, a) /\ UNCHANGED <<panel, account, storedSecret>>
    BY <1>4 DEF CheckOther, Session
  <2>2. account' \in Address \cup {NoAddress} /\ storedSecret' \in Address \cup {NoAddress}
    BY <2>1 DEF PanelInv, PanelTypes
  <2> QED
    BY <2>1, <2>2, BeginLoadKeeps
<1>5. ASSUME NEW q \in Request, EndSucceeds(q) PROVE PanelInv'
  <2>1. /\ Ended(q) /\ Session /\ UNCHANGED <<error, late>> /\ pending[q].kind \in {"final", "other"}
        /\ shown' = NoAddress \/ shown' = shown
    BY <1>5 DEF EndSucceeds
  <2>2. error' \in BOOLEAN /\ late' \in BOOLEAN
    BY <2>1 DEF PanelInv, PanelTypes
  <2> QED
    BY <2>1, <2>2, EndedKeeps
<1>6. ASSUME NEW q \in Request, ChangeFails(q) PROVE PanelInv'
  <2>1. /\ Ended(q) /\ Session /\ error' = TRUE /\ UNCHANGED <<shown, late>>
        /\ pending[q].kind # "load"
    BY <1>6 DEF ChangeFails
  <2>2. error' \in BOOLEAN /\ late' \in BOOLEAN
    BY <2>1 DEF PanelInv, PanelTypes
  <2> QED
    BY <2>1, <2>2, EndedKeeps
<1>7. ASSUME NEW q \in Request, LoadSucceeds(q) PROVE PanelInv'
  <2>1. /\ Ended(q) /\ Session /\ UNCHANGED error /\ pending[q].kind = "load"
        /\ shown' = pending[q].for /\ late' = (pending[q].for # account)
    BY <1>7 DEF LoadSucceeds
  <2>2. error' \in BOOLEAN /\ late' \in BOOLEAN
    BY <2>1 DEF PanelInv, PanelTypes
  <2>3. Stale' = FALSE
    BY <2>1 DEF Stale, Session
  <2> QED
    BY <2>1, <2>2, <2>3, EndedKeeps
<1>8. ASSUME NEW q \in Request, LoadFails(q) PROVE PanelInv'
  <2>1. /\ Ended(q) /\ Session /\ UNCHANGED late
        /\ IF panel = "DIDManager" THEN shown' = NoAddress /\ UNCHANGED error
           ELSE error' = TRUE /\ UNCHANGED shown
    BY <1>8 DEF LoadFails
  <2>2. error' \in BOOLEAN /\ late' \in BOOLEAN
    BY <2>1 DEF PanelInv, PanelTypes
  <2> QED
    BY <2>1, <2>2, EndedKeeps
<1> QED
  BY <1>1, <1>2, <1>3, <1>4, <1>5, <1>6, <1>7, <1>8, SessionKeeps, BeginChangeKeeps,
     ChangeSucceedsKeeps DEF PanelsNext

\* When no request is in flight no panel is left loading, and one that follows the
\* address shows data of the account connected, nothing or an error, unless an answer
\* came after the account had changed: the panels set their state whenever an answer
\* arrives, whoever is connected then.
THEOREM PanelsAlwaysSettle == PanelsSpec => []PanelsSettle
<1>1. PanelsInit => PanelInv
  <2> SUFFICES ASSUME PanelsInit PROVE PanelInv
    OBVIOUS
  <2>1. Nothing \in Pending
    BY DEF Nothing, Pending
  <2>2. /\ pending \in [Request -> Pending] /\ shown = NoAddress /\ account = NoAddress
        /\ loading = FALSE /\ error = FALSE /\ late = FALSE /\ storedSecret = NoAddress
        /\ panel \in Hook \cup Component
    BY <2>1 DEF PanelsInit
  <2> QED
    BY <2>2 DEF PanelInv, PanelTypes, Stale
<1>2. PanelInv => PanelsSettle
  <2> SUFFICES ASSUME PanelInv, InFlight = {} PROVE
         /\ ~loading
         /\ \/ panel \in {"RegulatoryDashboard", "ComplianceCheck"} \/ account = NoAddress
            \/ late \/ error
            \/ shown \in {account, NoAddress}
    BY DEF PanelsSettle
  <2>1. \A q \in Request : pending[q] = Nothing /\ pending[q].kind = "none"
    BY DEF InFlight, Nothing
  <2>2. ~loading
    BY <2>1 DEF PanelInv
  <2>3. panel \in FollowsAddress \/ panel \in {"RegulatoryDashboard", "ComplianceCheck"}
    BY DEF PanelInv, PanelTypes, FollowsAddress
  <2>4. Stale => error
    BY <2>1 DEF PanelInv
  <2> QED
    BY <2>2, <2>3, <2>4 DEF Stale
<1> QED
  BY <1>1, <1>2, PanelsStep, PTL DEF PanelsSpec

-----------------------------------------------------------------------------
(***************************************************************************)
(* ErrorMapping: what a refusal is understood as.                          *)
(***************************************************************************)
\* What an attempt may bring.
MappedAnswer ==
    [form : {"condition", "number", "named", "contract"}, contract : Contract, number : Nat,
     says : SUBSET {Condition[i] : i \in DOMAIN Condition}]

\* A refusal has the number of a variant.
AnswerSound(a) == a.number \in DOMAIN Variant[a.contract]

MappingInv ==
    /\ answers \in Seq(MappedAnswer)
    /\ ended \in {"running", "returned", "thrown", "exhausted"}
    /\ \A i \in 1 .. Tried :
          /\ AnswerSound(answers[i])
          /\ TriedAgain(i) => Retryable(MapContractError(answers[i]))
          /\ ~TriedAgain(i) => ~Retryable(MapContractError(answers[i]))

\* The five contracts, and the eight variants of the first.
LEMMA ContractsAre ==
    /\ Contract = {"did", "credential", "reputation", "zk", "compliance"}
    /\ DOMAIN Variant.did = 1 .. 8
  BY DEF Contract, Variant

\* No variant of a contract's errors is a meaning that is worth another attempt.
LEMMA VariantsFinal ==
    ASSUME NEW c \in Contract, NEW n \in DOMAIN Variant[c]
    PROVE  Variant[c][n] \notin Transient /\ n \in Nat /\ n # 0
<1>1. CASE c = "did"
  BY <1>1 DEF Variant, Transient
<1>2. CASE c = "credential"
  BY <1>2 DEF Variant, Transient
<1>3. CASE c = "reputation"
  BY <1>3 DEF Variant, Transient
<1>4. CASE c = "zk"
  BY <1>4 DEF Variant, Transient
<1>5. CASE c = "compliance"
  BY <1>5 DEF Variant, Transient
<1>6. QED
  BY <1>1, <1>2, <1>3, <1>4, <1>5, ContractsAre

\* What a refusal of a number without a meaning is taken for is worth another attempt
\* only if its text tells a failure that passes.
LEMMA ConditionsPassing ==
    ASSUME NEW says \in SUBSET {Condition[i] : i \in DOMAIN Condition},
           Retryable(MapConditions(says))
    PROVE  says \cap Passing # {}
<1>1. says # {}
  BY DEF MapConditions, Retryable, SdkError, Transient
<1>2. DOMAIN Condition = 1 .. 7
  BY DEF Condition
<1>3. \E i \in 1 .. 7 : Condition[i] \in says /\ \A j \in 1 .. (i - 1) : Condition[j] \notin says
  <2>1. PICK said \in [1 .. 7 -> BOOLEAN] : \A i \in 1 .. 7 : said[i] <=> Condition[i] \in says
    <3>1. [i \in 1 .. 7 |-> Condition[i] \in says] \in [1 .. 7 -> BOOLEAN]
      OBVIOUS
    <3>2. QED
      BY <3>1
  <2>2. \E i \in 1 .. 7 : said[i]
    BY <1>1, <1>2, <2>1
  <2>3. \E i \in 1 .. 7 : said[i] /\ \A j \in 1 .. (i - 1) : ~said[j]
    BY <2>2
  <2>4. PICK i \in 1 .. 7 : said[i] /\ \A j \in 1 .. (i - 1) : ~said[j]
    BY <2>3
  <2>5. \A j \in 1 .. (i - 1) : j \in 1 .. 7
    OBVIOUS
  <2>6. QED
    BY <2>1, <2>4, <2>5
<1>4. PICK i : i = CHOOSE k \in 1 .. 7 :
                      Condition[k] \in says /\ \A j \in 1 .. (k - 1) : Condition[j] \notin says
  OBVIOUS
<1>5. Condition[i] \in says
  BY <1>3, <1>4
<1>6. MapConditions(says).meaning = Condition[i]
  BY <1>1, <1>2, <1>4 DEF MapConditions, SdkError
<1>7. QED
  BY <1>5, <1>6 DEF Retryable, Passing

\* What the one table of numbers makes of a number it has: the DID registry's meaning,
\* whichever contract refused; only the eighth is worth another attempt.
LEMMA NumberIs ==
    ASSUME NEW n \in 1 .. 8
    PROVE  /\ MapErrorCode(n) = {SdkError("did", NumberMeaning[n])}
           /\ NumberMeaning[n] = IF n = 7 THEN "Deactivated" ELSE Variant.did[n]
           /\ Retryable(SdkError("did", NumberMeaning[n])) => n = 8
  BY DEF MapErrorCode, NumberMeaning, Variant, Retryable, SdkError, Transient

\* The table has no other numbers.
LEMMA NumberIsNot ==
    ASSUME NEW n \in Nat, n \notin 1 .. 8
    PROVE  MapErrorCode(n) = {}
  BY DEF MapErrorCode, NumberMeaning

\* A refusal known by its number alone.
LEMMA NumberMapped ==
    ASSUME NEW a \in MappedAnswer, AnswerSound(a), a.form = "number"
    PROVE  /\ Retryable(MapContractError(a)) =>
                 a.number = 8 \/ (a.number > 8 /\ a.says \cap Passing # {})
           /\ a.contract = "did" =>
                 MapContractError(a).meaning = IF a.number = 7 THEN "Deactivated"
                                               ELSE Variant.did[a.number]
<1>1. /\ a.number \in Nat /\ a.number # 0
      /\ a.says \in SUBSET {Condition[i] : i \in DOMAIN Condition}
  BY VariantsFinal DEF MappedAnswer, AnswerSound
<1>2. CASE a.number \in 1 .. 8
  <2>1. MapErrorCode(a.number) = {SdkError("did", NumberMeaning[a.number])}
    BY <1>2, NumberIs
  <2>2. MapContractError(a) = SdkError("did", NumberMeaning[a.number])
    BY <2>1 DEF MapContractError
  <2>3. QED
    BY <1>2, <2>2, NumberIs DEF SdkError
<1>3. CASE a.number \notin 1 .. 8
  <2>1. MapContractError(a) = MapConditions(a.says)
    BY <1>1, <1>3, NumberIsNot DEF MapContractError
  <2>2. a.contract # "did"
    BY <1>3, ContractsAre DEF AnswerSound
  <2>3. QED
    BY <1>1, <1>3, <2>1, <2>2, ConditionsPassing
<1>4. QED
  BY <1>2, <1>3

\* A refusal that comes with its contract's name.
LEMMA NamedMapped ==
    ASSUME NEW a \in MappedAnswer, AnswerSound(a), a.form \in {"named", "contract"}
    PROVE  /\ MapContractError(a).class = a.contract
           /\ Retryable(MapContractError(a)) => RateLimited(a)
           /\ a.form = "named" /\ RateLimited(a) => Retryable(MapContractError(a))
           /\ a.form = "named" /\ a.contract = "did" =>
                 MapContractError(a).meaning = IF a.number = 7 THEN "Deactivated"
                                               ELSE Variant.did[a.number]
<1>1. PICK c : c = a.contract
  OBVIOUS
<1>2. PICK v : v = Variant[a.contract][a.number]
  OBVIOUS
<1>3. c \in Contract /\ v \notin Transient /\ a.number \in Nat
  BY <1>1, <1>2, VariantsFinal DEF MappedAnswer, AnswerSound
<1>4. v = "RateLimitExceeded" => RateLimited(a)
  BY <1>2 DEF RateLimited
<1>5. CASE a.form = "named" /\ ContractCodeMap(c, v) # {}
  <2>1. PICK m : m = IF v = "AlreadyDeactivated" THEN "Deactivated" ELSE v
    OBVIOUS
  <2>2. ContractCodeMap(c, v) = {SdkError(c, m)}
    BY <1>5, <2>1 DEF ContractCodeMap
  <2>3. MapContractError(a) = SdkError(c, m)
    BY <1>1, <1>2, <1>5, <2>2 DEF MapContractError
  <2>4. Retryable(SdkError(c, m)) => v = "RateLimitExceeded"
    BY <1>3, <2>1 DEF Retryable, SdkError, Transient
  <2>5. a.contract = "did" => m = IF a.number = 7 THEN "Deactivated" ELSE Variant.did[a.number]
    <3>1. SUFFICES ASSUME a.contract = "did"
                   PROVE  m = IF a.number = 7 THEN "Deactivated" ELSE Variant.did[a.number]
      OBVIOUS
    <3>2. a.number \in 1 .. 8 /\ v = Variant.did[a.number]
      BY <1>2, <3>1, ContractsAre DEF AnswerSound
    <3>3. \A n \in 1 .. 8 : Variant.did[n] = "AlreadyDeactivated" <=> n = 7
      BY DEF Variant
    <3>4. QED
      BY <2>1, <3>2, <3>3
  <2>6. v = "RateLimitExceeded" => Retryable(SdkError(c, m))
    BY <2>1 DEF Retryable, SdkError
  <2>7. QED
    BY <1>1, <1>2, <1>4, <2>3, <2>4, <2>5, <2>6 DEF SdkError, RateLimited
<1>6. CASE ~(a.form = "named" /\ ContractCodeMap(c, v) # {})
  <2>1. MapContractError(a) = SdkError(c, "TransactionFailed")
    BY <1>1, <1>2, <1>6 DEF MapContractError
  <2>2. ~(a.form = "named" /\ a.contract = "did")
    <3>1. Unlisted.did = {}
      BY DEF Unlisted
    <3>2. ContractCodeMap("did", v) # {}
      BY <3>1 DEF ContractCodeMap
    <3>3. QED
      BY <1>1, <1>6, <3>2
  <2>3. ~(a.form = "named" /\ v = "RateLimitExceeded")
    <3>1. "RateLimitExceeded" \notin Unlisted[c]
      BY <1>3, ContractsAre DEF Unlisted
    <3>2. v = "RateLimitExceeded" => ContractCodeMap(c, v) # {}
      BY <3>1 DEF ContractCodeMap
    <3>3. QED
      BY <1>6, <3>2
  <2>4. QED
    BY <1>1, <1>2, <2>1, <2>2, <2>3 DEF Retryable, SdkError, Transient, RateLimited
<1>7. QED
  BY <1>5, <1>6

\* An attempt fails: another follows, or the error is thrown.
LEMMA TryFailsKeeps ==
    ASSUME MappingInv, NEW a \in MappedAnswer, AnswerSound(a), TryFails(a)
    PROVE  MappingInv'
<1>1. PICK n : n = Len(answers)
  OBVIOUS
<1>2. /\ answers \in Seq(MappedAnswer) /\ answers' = Append(answers, a) /\ n \in Nat
      /\ ended = "running"
  BY <1>1 DEF MappingInv, TryFails
<1>3. /\ answers' \in Seq(MappedAnswer) /\ Len(answers') = n + 1 /\ answers'[n + 1] = a
      /\ \A i \in 1 .. n : answers'[i] = answers[i]
  BY <1>1, <1>2
<1>4. /\ ended' \in {"running", "thrown", "exhausted"}
      /\ ended' # "thrown" <=> Retryable(MapContractError(a))
  BY DEF TryFails
<1>5. \A i \in 1 .. n : AnswerSound(answers[i]) /\ Retryable(MapContractError(answers[i]))
  BY <1>1, <1>2 DEF MappingInv, Tried, TriedAgain
<1>6. ASSUME NEW i \in 1 .. (n + 1)
      PROVE  /\ AnswerSound(answers'[i])
             /\ (i < n + 1 \/ ended' # "thrown") <=> Retryable(MapContractError(answers'[i]))
  <2>1. CASE i = n + 1
    BY <1>2, <1>3, <1>4, <2>1
  <2>2. CASE i \in 1 .. n
    BY <1>2, <1>3, <1>5, <2>2
  <2>3. QED
    <3>1. n \in Nat
      BY <1>2
    <3>2. i \in 1 .. n \/ i = n + 1
      BY <3>1
    <3>3. QED
      BY <2>1, <2>2, <3>2
<1>7. QED
  BY <1>3, <1>4, <1>6 DEF MappingInv, Tried, TriedAgain

\* Each step of a call with retries keeps the invariant.
LEMMA MappingStep == ASSUME MappingInv, [MappingNext]_mappingVars PROVE MappingInv'
<1>1. CASE TrySucceeds
  BY <1>1 DEF MappingInv, TrySucceeds, Tried, TriedAgain
<1>2. ASSUME NEW c \in Contract, NEW n \in DOMAIN Variant[c], NEW says \in Text \cup {{}},
             NEW form \in {"number", "named", "contract"}, TryFails(Refused(c, n, form, says))
      PROVE  MappingInv'
  <2>1. PICK a : a = [form |-> form, contract |-> c, number |-> n, says |-> says]
    OBVIOUS
  <2>2. n \in Nat
    BY VariantsFinal
  <2>3. says \in SUBSET {Condition[i] : i \in DOMAIN Condition}
    BY MappingAssumption
  <2>4. a \in MappedAnswer
    BY <2>1, <2>2, <2>3 DEF MappedAnswer
  <2>5. AnswerSound(a) /\ TryFails(a)
    BY <1>2, <2>1 DEF AnswerSound, Refused
  <2>6. QED
    BY <2>4, <2>5, TryFailsKeeps
<1>3. ASSUME NEW says \in Text, TryFails(Broken(says))
      PROVE  MappingInv'
  <2>1. PICK a : a = [form |-> "condition", contract |-> "did", number |-> 1, says |-> says]
    OBVIOUS
  <2>2. a \in MappedAnswer
    BY <2>1, ContractsAre, MappingAssumption DEF MappedAnswer
  <2>3. AnswerSound(a) /\ TryFails(a)
    BY <1>3, <2>1, ContractsAre DEF AnswerSound, Broken, Refused
  <2>4. QED
    BY <2>2, <2>3, TryFailsKeeps
<1>4. CASE UNCHANGED mappingVars
  BY <1>4 DEF MappingInv, mappingVars, Tried, TriedAgain
<1>5. CASE \E c \in Contract : \E n \in DOMAIN Variant[c] : \E says \in Text :
              TryFails(Refused(c, n, "number", says))
  BY <1>2, <1>5
<1>6. CASE \E c \in Contract : \E n \in DOMAIN Variant[c] : \E form \in {"named", "contract"} :
              TryFails(Refused(c, n, form, {}))
  BY <1>2, <1>6
<1>7. CASE \E says \in Text : TryFails(Broken(says))
  BY <1>3, <1>7
<1>8. QED
  BY <1>1, <1>4, <1>5, <1>6, <1>7 DEF MappingNext

\* The invariant of a call with retries.
LEMMA MappingInvariance == MappingSpec => []MappingInv
<1>1. MappingInit => MappingInv
  BY DEF MappingInit, MappingInv, Tried
<1>2. QED
  BY <1>1, MappingStep, PTL DEF MappingSpec

\* For any number of attempts and any texts a contract is called again with what it
\* refused only if that was a rate limit, came with the number 8, or came with a larger
\* number in a text that matches the pattern of a failure that passes; a refusal with
\* its name keeps its contract, and those of the DID registry keep their meaning:
\* errors.ts reads numbers by one table, names by another, and takes what is left for a
\* condition of the network by its text.
THEOREM RefusalsAlwaysUnderstood == MappingSpec => []RefusalsUnderstood
<1>1. MappingInv => RefusalsUnderstood
  <2> SUFFICES ASSUME MappingInv PROVE RefusalsUnderstood
    OBVIOUS
  <2>1. DOMAIN answers = 1 .. Tried
    BY DEF MappingInv, Tried
  <2>2. ASSUME NEW i \in 1 .. Tried
        PROVE  answers[i] \in MappedAnswer /\ AnswerSound(answers[i])
    BY DEF MappingInv, Tried
  <2>3. ASSUME NEW i \in 1 .. Tried, answers[i].form # "condition", TriedAgain(i)
        PROVE  LET a == answers[i]
               IN  \/ RateLimited(a)
                   \/ a.form = "number" /\ a.number = 8
                   \/ a.form = "number" /\ a.number > 8 /\ a.says \cap Passing # {}
    <3>1. Retryable(MapContractError(answers[i]))
      BY <2>3 DEF MappingInv
    <3>2. answers[i].form \in {"number", "named", "contract"}
      BY <2>2, <2>3 DEF MappedAnswer
    <3>3. QED
      BY <2>2, <3>1, <3>2, NumberMapped, NamedMapped
  <2>4. ASSUME NEW i \in 1 .. Tried, answers[i].form = "named", RateLimited(answers[i])
        PROVE  TriedAgain(i)
    BY <2>2, <2>4, NamedMapped DEF MappingInv
  <2>5. ASSUME NEW i \in 1 .. Tried
        PROVE  LET a == answers[i]
                   e == MapContractError(a)
               IN  /\ a.form = "named" => e.class = a.contract
                   /\ a.contract = "did" /\ a.form \in {"named", "number"} =>
                         e.meaning = (IF a.number = 7 THEN "Deactivated"
                                      ELSE Variant.did[a.number])
    BY <2>2, NumberMapped, NamedMapped
  <2>6. QED
    BY <2>1, <2>3, <2>4, <2>5 DEF RefusalsUnderstood
<1>2. QED
  BY <1>1, MappingInvariance, PTL

-----------------------------------------------------------------------------
(***************************************************************************)
(* RecoveryWizard: what is executed is what was approved.                  *)
(***************************************************************************)
\* While neither was changed under a request, what is on the screen is what the request
\* carries, what was loaded and, from the approval on, what was approved.
WizardInv ==
    /\ spinner \in BOOLEAN /\ strayed \in BOOLEAN
    /\ spinner <=> request # NoRequest
    /\ request # NoRequest => request.kind \in {"identify", "approve", "execute"}
    /\ ~strayed =>
          /\ request # NoRequest => request.did = did /\ request.method = method
          /\ step # "identify" \/ request.kind \in {"approve", "execute"} => recoveryConfig.did = did
          /\ step = "execute" \/ request.kind = "execute" => approvedFor = <<did, method>>

\* A step of the wizard sends its request.
LEMMA SendKeeps ==
  ASSUME WizardInv, NEW kind \in {"identify", "approve", "execute"}, Send(kind),
         kind # "identify" => step # "identify", kind = "execute" => step = "execute"
  PROVE  WizardInv'
<1>1. PICK r : r = [kind |-> kind, did |-> did, method |-> method]
  OBVIOUS
<1>2. r.kind = kind /\ r.did = did /\ r.method = method /\ r # NoRequest
  BY <1>1 DEF NoRequest
<1>3. /\ request' = r /\ spinner' = TRUE
      /\ UNCHANGED <<step, did, method, recoveryConfig, recovered, approvedFor, strayed>>
  BY <1>1 DEF Send
<1> QED
  BY <1>2, <1>3 DEF WizardInv

\* A request is answered, and the wizard goes on or stays.
LEMMA AnswerKeeps ==
  ASSUME WizardInv, request # NoRequest, Answer, UNCHANGED <<did, method, strayed>>,
         ~strayed =>
            /\ step' # "identify" => recoveryConfig'.did = did
            /\ step' = "execute" => approvedFor' = <<did, method>>
  PROVE  WizardInv'
BY DEF WizardInv, Answer, NoRequest

\* Each step of the wizard keeps the invariant.
LEMMA WizardStep == ASSUME WizardInv, [WizardNext]_wizardVars PROVE WizardInv'
<1>1. CASE UNCHANGED wizardVars
  BY <1>1 DEF wizardVars, WizardInv
<1>2. ASSUME NEW d, EnterDid(d) PROVE WizardInv'
  BY <1>2 DEF EnterDid, WizardInv, NoRequest
<1>3. ASSUME NEW m, SelectMethod(m) PROVE WizardInv'
  BY <1>3 DEF SelectMethod, MethodSteps, WizardInv, NoRequest
<1>4. CASE ConfirmMethod
  BY <1>4 DEF ConfirmMethod, ShowStep, WizardInv
<1>5. CASE Back
  BY <1>5 DEF Back, ShowStep, WizardInv
<1>6. CASE Identify
  BY <1>6, SendKeeps DEF Identify
<1>7. CASE Approve
  BY <1>7, SendKeeps DEF Approve
<1>8. CASE Execute
  BY <1>8, SendKeeps DEF Execute
<1>9. ASSUME NEW n, Identified(n) PROVE WizardInv'
  <2>1. request # NoRequest /\ Answer /\ UNCHANGED <<did, method, strayed>>
    BY <1>9 DEF Identified, NoRequest
  <2>2. recoveryConfig'.did = request.did /\ step' = "select-method"
    BY <1>9 DEF Identified
  <2> QED
    BY <2>1, <2>2, AnswerKeeps DEF WizardInv
<1>10. ASSUME NEW n, Approved(n) PROVE WizardInv'
  <2>1. /\ request # NoRequest /\ request.kind = "approve" /\ Answer
        /\ UNCHANGED <<did, method, strayed>>
    BY <1>10 DEF Approved, NoRequest
  <2>2. /\ recoveryConfig'.did \in {recoveryConfig.did, request.did}
        /\ approvedFor' = <<request.did, request.method>>
    BY <1>10 DEF Approved
  <2> QED
    BY <2>1, <2>2, AnswerKeeps DEF WizardInv
<1>11. CASE Executed
  <2>1. request # NoRequest /\ Answer /\ UNCHANGED <<did, method, strayed, step, recoveryConfig, approvedFor>>
    BY <1>11 DEF Executed, NoRequest
  <2> QED
    BY <2>1, AnswerKeeps DEF WizardInv
<1>12. CASE RequestRejected
  <2>1. request # NoRequest /\ Answer /\ UNCHANGED <<did, method, strayed, step, recoveryConfig, approvedFor>>
    BY <1>12 DEF RequestRejected
  <2> QED
    BY <2>1, AnswerKeeps DEF WizardInv
<1> QED
  BY <1>1, <1>2, <1>3, <1>4, <1>5, <1>6, <1>7, <1>8, <1>9, <1>10, <1>11, <1>12 DEF WizardNext

\* The wizard executes a recovery for the DID on the screen and by the method last
\* approved for, unless one of them was edited while an answer was awaited, and its
\* buttons come back with the answer: DIDRecoveryWizard.tsx keeps DID, method and
\* configuration in separate states, each set when an answer arrives.
THEOREM AlwaysExecutesWhatWasApproved == WizardSpec => []ExecutesWhatWasApproved
<1>1. WizardInit => WizardInv
  <2> SUFFICES ASSUME WizardInit PROVE WizardInv
    OBVIOUS
  <2>1. /\ step = "identify" /\ request = NoRequest /\ request.kind = "none"
        /\ spinner = FALSE /\ strayed = FALSE
    BY DEF WizardInit, NoRequest
  <2> QED
    BY <2>1 DEF WizardInv
<1>2. WizardInv => ExecutesWhatWasApproved
  BY DEF WizardInv, ExecutesWhatWasApproved, NoRequest
<1> QED
  BY <1>1, <1>2, WizardStep, PTL DEF WizardSpec
=============================================================================
