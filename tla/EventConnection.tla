---------------------------- MODULE EventConnection ----------------------------
(***************************************************************************)
(* The connection of the EventSubscriber (src/sdk/src/eventSubscriber.ts): *)
(* one WebSocket at a time, a reconnect timer and a heartbeat.  JavaScript *)
(* runs one callback at a time, so a callback is one action; in between,   *)
(* timers fire, and sockets open, fall silent and close, in any order.     *)
(*                                                                         *)
(* A socket is closed by close() at once for its client, but its close     *)
(* event comes later, when it may have been replaced.  No open event and   *)
(* no message comes after close().  A close by the peer is one step with   *)
(* its event.  Delays are left out: a pending timer may fire at any time,  *)
(* except that the heartbeat waits twice as long for its next tick as for  *)
(* an answer.  Listeners are taken not to call back into the subscriber.   *)
(***************************************************************************)
EXTENDS Naturals

CONSTANTS
    Socket,     \* WebSocket objects; one whose close event has come is reused
    None,       \* null
    MaxCalls,   \* bound: calls of connect, disconnect, pauseAll and resumeAll
    MaxDrops    \* bound: failures of the network or of its peer

ASSUME NoneAssumption == None \notin Socket
ASSUME BoundsAssumption == MaxCalls \in Nat /\ MaxDrops \in Nat

VARIABLES
    socket,             \* every WebSocket and how far it is
    ws,                 \* the current one
    shouldReconnect,
    connectionState,
    reconnectTimer,     \* whether it is pending
    heartbeat,          \* "idle" between ticks, "waiting" for the answer to a ping
    calls, drops        \* counted for the bounds

link == <<socket, ws>>
bounds == <<calls, drops>>
vars == <<socket, ws, shouldReconnect, connectionState, reconnectTimer, heartbeat,
          calls, drops>>

\* readyState; both "open" and "silent" are OPEN, the latter has lost its peer.
SocketState == {"connecting", "open", "silent", "closing", "closed"}
ConnectionState == {"disconnected", "connecting", "connected", "reconnecting", "paused"}

ConnTypeOK ==
    /\ socket \in [Socket -> SocketState]
    /\ ws \in Socket \cup {None}
    /\ shouldReconnect \in BOOLEAN
    /\ connectionState \in ConnectionState
    /\ reconnectTimer \in BOOLEAN
    /\ heartbeat \in {"off", "idle", "waiting"}
    /\ calls \in 0 .. MaxCalls
    /\ drops \in 0 .. MaxDrops

Init ==
    /\ socket = [s \in Socket |-> "closed"]
    /\ ws = None
    /\ shouldReconnect = FALSE
    /\ connectionState = "disconnected"
    /\ reconnectTimer = FALSE
    /\ heartbeat = "off"
    /\ calls = 0
    /\ drops = 0

-----------------------------------------------------------------------------
Live(s) == socket[s] \in {"connecting", "open", "silent"}
ReadyOpen == ws # None /\ socket[ws] \in {"open", "silent"}

Called == calls < MaxCalls /\ calls' = calls + 1
Dropped == drops < MaxDrops /\ drops' = drops + 1

\* The sockets after closeSocket, which also sets ws to null.
Closed ==
    IF ws # None /\ Live(ws) THEN [socket EXCEPT ![ws] = "closing"] ELSE socket

\* Fault: the socket to replace is not closed first (ConnectionSound).
Replaced_Kept == socket
\* The sockets between closeSocket and new WebSocket.
Replaced == Closed

\* The constructor may throw, which schedules the next attempt; timer says whether
\* one was pending.
ConnectInternal(timer) ==
    \/ \E s \in Socket :
          /\ Replaced[s] = "closed"
          /\ socket' = [Replaced EXCEPT ![s] = "connecting"]
          /\ ws' = s
          /\ reconnectTimer' = timer
          /\ UNCHANGED drops
    \/ /\ Dropped
       /\ socket' = Replaced
       /\ ws' = None
       /\ reconnectTimer' = TRUE

\* Neither the reconnect timer nor the heartbeat is stopped.
Connect ==
    /\ Called
    /\ shouldReconnect' = TRUE
    /\ connectionState' = "connecting"
    /\ ConnectInternal(reconnectTimer)
    /\ UNCHANGED heartbeat

\* Fault: the reconnect timer is left running (ConnectionSound).
Disconnect_TimerKept ==
    /\ Called
    /\ shouldReconnect' = FALSE
    /\ heartbeat' = "off"
    /\ socket' = Closed /\ ws' = None
    /\ connectionState' = "disconnected"
    /\ UNCHANGED <<reconnectTimer, drops>>
Disconnect ==
    /\ Called
    /\ shouldReconnect' = FALSE
    /\ reconnectTimer' = FALSE
    /\ heartbeat' = "off"
    /\ socket' = Closed /\ ws' = None
    /\ connectionState' = "disconnected"
    /\ UNCHANGED drops

PauseAll ==
    /\ Called
    /\ connectionState' = "paused"
    /\ UNCHANGED <<link, shouldReconnect, reconnectTimer, heartbeat, drops>>

ResumeAll ==
    /\ Called
    /\ connectionState' = IF ReadyOpen THEN "connected" ELSE connectionState
    /\ UNCHANGED <<link, shouldReconnect, reconnectTimer, heartbeat, drops>>

-----------------------------------------------------------------------------
\* Fault: the heartbeat is not started (ConnectionSound).
HeartbeatOnOpen_Off == heartbeat
\* startHeartbeat
HeartbeatOnOpen == "idle"

SocketOpens(s) ==
    /\ socket[s] = "connecting"
    /\ socket' = [socket EXCEPT ![s] = "open"]
    /\ connectionState' = "connected"
    /\ heartbeat' = HeartbeatOnOpen
    /\ UNCHANGED <<ws, shouldReconnect, reconnectTimer, bounds>>

\* Fault: the close of a socket that is not the current one is not noted
\* (ConnectionSound).
StateOnClose_Current(s) ==
    IF connectionState # "disconnected" /\ s = ws THEN "reconnecting" ELSE connectionState
StateOnClose(s) ==
    IF connectionState # "disconnected" THEN "reconnecting" ELSE connectionState

\* Fault: only a connection that was up is brought back (SettlesOrTangles).
TimerOnClose_Connected ==
    reconnectTimer \/ (shouldReconnect /\ connectionState = "connected")
TimerOnClose == reconnectTimer \/ shouldReconnect

\* onclose does not ask whether its socket is still the current one, and leaves ws.
OnClose(s) ==
    /\ socket' = [socket EXCEPT ![s] = "closed"]
    /\ heartbeat' = "off"
    /\ connectionState' = StateOnClose(s)
    /\ reconnectTimer' = TimerOnClose
    /\ UNCHANGED <<ws, shouldReconnect, calls>>

\* The close event of a socket that was closed here.
CloseCompletes(s) == socket[s] = "closing" /\ OnClose(s) /\ UNCHANGED drops
\* The connection is refused, lost or closed by the peer.
SocketDrops(s) == Live(s) /\ Dropped /\ OnClose(s)

\* The peer is gone and nothing tells.
GoesSilent(s) ==
    /\ socket[s] = "open"
    /\ Dropped
    /\ socket' = [socket EXCEPT ![s] = "silent"]
    /\ UNCHANGED <<ws, shouldReconnect, connectionState, reconnectTimer, heartbeat, calls>>

-----------------------------------------------------------------------------
\* The timer does not ask whether a socket has been opened since it was set.
ReconnectFires ==
    /\ reconnectTimer
    /\ ConnectInternal(FALSE)
    /\ UNCHANGED <<shouldReconnect, connectionState, heartbeat, calls>>

Tick ==
    /\ heartbeat = "idle"
    /\ ReadyOpen
    /\ heartbeat' = "waiting"
    /\ UNCHANGED <<link, shouldReconnect, connectionState, reconnectTimer, bounds>>

Pong ==
    /\ heartbeat = "waiting"
    /\ ws # None /\ socket[ws] = "open"
    /\ heartbeat' = "idle"
    /\ UNCHANGED <<link, shouldReconnect, connectionState, reconnectTimer, bounds>>

\* The connection state stays as it is until the close event.
NoPong ==
    /\ heartbeat = "waiting"
    /\ heartbeat' = "idle"
    /\ socket' = Closed /\ ws' = None
    /\ reconnectTimer' = (reconnectTimer \/ shouldReconnect)
    /\ UNCHANGED <<shouldReconnect, connectionState, calls>>

\* The peer is there, but its answer comes too late.
PongLate == ws # None /\ socket[ws] = "open" /\ NoPong /\ Dropped
PongMissing == ~(ws # None /\ socket[ws] = "open") /\ NoPong /\ UNCHANGED drops

Next ==
    \/ Connect \/ Disconnect \/ PauseAll \/ ResumeAll
    \/ \E s \in Socket :
          SocketOpens(s) \/ CloseCompletes(s) \/ SocketDrops(s) \/ GoesSilent(s)
    \/ ReconnectFires
    \/ Tick \/ Pong \/ PongLate \/ PongMissing

\* Sockets open or fail, close events come, peers answer, and timers fire.
Fairness ==
    /\ \A s \in Socket : WF_vars(SocketOpens(s)) /\ WF_vars(CloseCompletes(s))
    /\ WF_vars(Tick) /\ WF_vars(Pong) /\ WF_vars(PongMissing)

Spec == Init /\ [][Next]_vars
FairSpec == Spec /\ Fairness /\ WF_vars(ReconnectFires)

\* Sockets open and close well within the delay of the reconnect timer.
Quick == \A s \in Socket : socket[s] \notin {"connecting", "closing"}
NextPrompt == Next /\ (ReconnectFires => Quick)
PromptSpec ==
    Init /\ [][NextPrompt]_vars /\ Fairness /\ WF_vars(Quick /\ ReconnectFires)

-----------------------------------------------------------------------------
\* After disconnect nothing is left that could open a socket: no current socket, no
\* pending timer, no heartbeat, whatever was in flight when it was called.
DisconnectedQuiet ==
    ~shouldReconnect => ws = None /\ ~reconnectTimer /\ heartbeat = "off"

\* Only the current socket is connecting or open, and only while a connection is wanted:
\* no socket that was replaced goes on delivering events beside its successor.
OneLiveSocket == \A s \in Socket : Live(s) => s = ws /\ shouldReconnect

\* One live socket while a connection is wanted, and nothing to bring one back otherwise.
OneSocketOrQuiet == OneLiveSocket /\ DisconnectedQuiet

\* connectionState, which isConnected reads, is "connected" only while the current
\* socket is open or the close event that will say otherwise is still to come.
ConnectedBacked ==
    connectionState = "connected" =>
        ReadyOpen \/ \E s \in Socket : socket[s] = "closing"

\* An open socket is watched by the heartbeat or about to be replaced, so that a peer
\* that falls silent is noticed, also after the close event of an earlier socket.
MonitoredOrReplaced == ReadyOpen => heartbeat # "off" \/ reconnectTimer

\* What the subscriber says or serves is backed by a socket that something watches.
ConnectionWatched == ConnectedBacked /\ MonitoredOrReplaced

\* Both, in whatever order calls, timers and the events of old and new sockets come.
ConnectionSound == OneSocketOrQuiet /\ ConnectionWatched

Settled ==
    /\ ws # None /\ socket[ws] = "open"
    /\ heartbeat # "off" /\ ~reconnectTimer
    /\ connectionState \in {"connected", "paused"}

\* A reconnect is pending although the current socket is alive.
Tangled == reconnectTimer /\ ws # None /\ Live(ws)

\* Once failures and calls have stopped, a client that wants a connection gets one and
\* keeps it, or the close events of replaced sockets tangle it over and over again.
SettlesOrTangles == []<>Tangled \/ <>[](shouldReconnect => Settled)

\* "Maintains a WebSocket connection with automatic reconnection" (eventSubscriber.ts:134):
\* the connection that is wanted is there for good once nothing fails any more.
Maintained == <>[](shouldReconnect => Settled)
=============================================================================
