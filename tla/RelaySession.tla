---------------------------- MODULE RelaySession ----------------------------
(***************************************************************************)
(* The client's session with its relay (src/src/client.js): the WebSocket  *)
(* it speaks on, how it is reopened after a drop, a suspend or a change of *)
(* relay, and how "relay on demand" releases it while the mesh is healthy  *)
(* and wakes it again.                                                     *)
(*                                                                         *)
(* A socket that was replaced goes on closing: its close event runs later, *)
(* with the handler it was given, unless that was detached.  Events of the *)
(* browser, timers and calls of the host come in any order between them.   *)
(* (A client has either clock jumps, under Node, or visibility events.)    *)
(* The delay of a reconnection, and why a peer is an anchor or busy, are   *)
(* left open; the default mode "always" is the one that never evaluates.   *)
(***************************************************************************)
CONSTANTS
    Sockets,        \* the client's WebSockets; a closed one stands for a new one
    None            \* "no socket"

ASSUME RelaySessionAssumption == None \notin Sockets

VARIABLES
    ws,             \* the client's current socket
    state,          \* of each socket
    attached,       \* sockets that still have their onclose handler
    owed,           \* sockets on which the relay's ACK is under way
    registered,
    heartbeat,      \* advertiseHeartbeatTimer runs
    keepalive,      \* keepaliveTimer runs
    timer,          \* reconnectTimer is pending ...
    stray,          \* ... and an earlier one, that it has overwritten
    stopped,        \* stoppedByUser, or connect() not called yet
    relayIdle,      \* the relay was released on purpose
    awake,          \* relayWakeUntil lies ahead
    releasable,     \* relayReleasableSince: unset, set, or set settleMs ago
    evaluation,     \* what a pending evaluateRelay knows of the mesh
    meshed,         \* the peer has minMeshPeers live links
    asked           \* pendingBootstrapPeerIds: a discovery to send once registered

socketVars == << ws, state, attached, owed >>
sessionVars == << registered, heartbeat, keepalive >>
timerVars == << timer, stray >>
demandVars == << awake, releasable, evaluation >>
vars == << socketVars, sessionVars, timerVars, stopped, relayIdle, demandVars, meshed, asked >>

\* "dead": open, but nothing comes through; "left": closed by disconnect().
SocketStates == {"closed", "connecting", "open", "dead", "closing", "left"}

TypeOK ==
    /\ ws \in Sockets \cup {None}
    /\ state \in [Sockets -> SocketStates]
    /\ attached \subseteq {s \in Sockets : state[s] # "closed"}
    /\ owed \subseteq {s \in Sockets : state[s] = "open"}
    /\ {registered, heartbeat, keepalive, timer, stray, stopped, relayIdle, awake,
        meshed, asked} \subseteq BOOLEAN
    /\ releasable \in {"no", "since", "settled"}
    /\ evaluation \in {"none", "isolated", "meshed"}

Init ==
    /\ ws = None
    /\ state = [s \in Sockets |-> "closed"]
    /\ attached = {}
    /\ owed = {}
    /\ registered = FALSE /\ heartbeat = FALSE /\ keepalive = FALSE
    /\ timer = FALSE /\ stray = FALSE
    /\ stopped = TRUE
    /\ relayIdle = FALSE
    /\ awake = FALSE /\ releasable = "no" /\ evaluation = "none"
    /\ meshed = FALSE
    /\ asked = FALSE

-----------------------------------------------------------------------------
(* Sockets *)

\* readyState OPEN or CONNECTING, as the client sees it.
Usable(st, w) == w # None /\ st[w] \in {"connecting", "open", "dead"}

Replaces(st, w, att) ==
    \E s \in Sockets :
        /\ st[s] = "closed"
        /\ ws' = s
        /\ state' = [st EXCEPT ![s] = "connecting"]
        /\ attached' = att \cup {s}
        /\ relayIdle' = FALSE

\* mutant: only an open socket is left alone, not one that is connecting
OpenSocketEagerly(st, w, att) ==
    IF w # None /\ st[w] \in {"open", "dead"}
      THEN ws' = w /\ state' = st /\ attached' = att /\ UNCHANGED relayIdle
      ELSE Replaces(st, w, att)

\* openSocket, when ws is w and the sockets are as in st: a new socket, unless
\* there is a usable one.
OpenSocket(st, w, att) ==
    IF Usable(st, w)
      THEN ws' = w /\ state' = st /\ attached' = att /\ UNCHANGED relayIdle
      ELSE Replaces(st, w, att)

\* The states of the sockets once the client has closed w.
Closing(w) ==
    IF Usable(state, w) THEN [state EXCEPT ![w] = "closing"] ELSE state

\* registered is cleared, and both of its timers with it.
Unregister ==
    /\ registered' = FALSE
    /\ heartbeat' = FALSE
    /\ keepalive' = FALSE

-----------------------------------------------------------------------------
(* Events of a socket *)

\* onopen announces the peer.
Opened(s) ==
    /\ state[s] = "connecting"
    /\ state' = [state EXCEPT ![s] = "open"]
    /\ owed' = owed \cup {s}
    /\ keepalive' = TRUE
    /\ UNCHANGED << ws, attached, registered, heartbeat, timerVars, stopped, relayIdle,
                    demandVars, meshed, asked >>

\* mutant: a discovery asked for while released stays pending
CompleteRegistrationOnly ==
    /\ registered' = TRUE
    /\ heartbeat' = (registered => heartbeat)
    /\ UNCHANGED asked

\* completeRegistration: once; a pending discovery is sent.
CompleteRegistration ==
    IF registered
      THEN UNCHANGED << registered, heartbeat, asked >>
      ELSE registered' = TRUE /\ heartbeat' = TRUE /\ asked' = FALSE

\* The ACK of an announcement, or a peer_list the relay sends by itself.
Answered(s, byAck) ==
    /\ state[s] = "open"
    /\ byAck => s \in owed
    /\ owed' = IF byAck THEN owed \ {s} ELSE owed
    /\ CompleteRegistration
    /\ UNCHANGED << ws, state, attached, keepalive, timerVars, stopped, relayIdle,
                    demandVars, meshed >>

\* The relay, or the way to it, is gone, and nobody tells the client.
GoesDead(s) ==
    /\ state[s] = "open"
    /\ state' = [state EXCEPT ![s] = "dead"]
    /\ owed' = owed \ {s}
    /\ UNCHANGED << ws, attached, sessionVars, timerVars, stopped, relayIdle, demandVars,
                    meshed, asked >>

\* scheduleReconnect: not after a close with code 1000, or once stopped.  The
\* timer that is pending, if any, is not cleared.
ScheduleReconnect(normal) ==
    IF normal \/ stopped
      THEN UNCHANGED timerVars
      ELSE timer' = TRUE /\ stray' = (stray \/ timer)

\* The close event of a socket, whether it is the current one or not.  Only
\* the closes of disconnect() can end with code 1000 and a handler attached.
CloseEvent(s, normal) ==
    /\ state[s] # "closed"
    /\ normal => state[s] = "left"
    /\ state' = [state EXCEPT ![s] = "closed"]
    /\ attached' = attached \ {s}
    /\ owed' = owed \ {s}
    /\ IF s \in attached
         THEN Unregister /\ ScheduleReconnect(normal)
         ELSE UNCHANGED << sessionVars, timerVars >>
    /\ UNCHANGED << ws, stopped, relayIdle, demandVars, meshed, asked >>

-----------------------------------------------------------------------------
(* Timers of the session *)

TimerFires ==
    /\ timer
    /\ timer' = FALSE
    /\ OpenSocket(state, ws, attached)
    /\ UNCHANGED << owed, sessionVars, stray, stopped, demandVars, meshed, asked >>

StrayFires ==
    /\ stray
    /\ ~ stopped
    /\ stray' = FALSE
    /\ OpenSocket(state, ws, attached)
    /\ UNCHANGED << owed, sessionVars, timer, stopped, demandVars, meshed, asked >>

\* A stray timer outlives disconnect() and opens nothing.
StrayFiresStopped ==
    /\ stray
    /\ stopped
    /\ stray' = FALSE
    /\ UNCHANGED << socketVars, sessionVars, timer, stopped, relayIdle, demandVars, meshed, asked >>

\* A beat of startAdvertiseHeartbeat; on a dead socket it is not answered.
HeartbeatFires ==
    /\ heartbeat /\ registered
    /\ ws # None /\ state[ws] = "open"
    /\ owed' = owed \cup {ws}
    /\ UNCHANGED << ws, state, attached, sessionVars, timerVars, stopped, relayIdle,
                    demandVars, meshed, asked >>

\* startKeepalive: a ping has not been answered for SIGNAL_PONG_TIMEOUT_MS.
KeepaliveTimeout ==
    /\ keepalive /\ registered
    /\ ws # None /\ state[ws] \in {"connecting", "dead"}
    /\ state' = Closing(ws)
    /\ UNCHANGED << ws, attached, owed, sessionVars, timerVars, stopped, relayIdle,
                    demandVars, meshed, asked >>

-----------------------------------------------------------------------------
(* Suspend, visibility, and calls of the host *)

Connect ==
    /\ stopped
    /\ stopped' = FALSE
    /\ OpenSocket(state, ws, attached)
    /\ UNCHANGED << owed, sessionVars, timerVars, demandVars, meshed, asked >>

\* disconnect(): the socket keeps its onclose handler.
Disconnect ==
    /\ ~ stopped
    /\ stopped' = TRUE
    /\ timer' = FALSE
    /\ Unregister
    /\ relayIdle' = FALSE
    /\ asked' = FALSE
    /\ meshed' = FALSE
    /\ state' = IF Usable(state, ws) THEN [state EXCEPT ![ws] = "left"] ELSE state
    /\ ws' = None
    /\ owed' = owed \ {ws}
    /\ UNCHANGED << attached, stray, demandVars >>

\* handleSuspendRestore and reconnectSignalingPreservingPeers: the socket is
\* retired, with no handler left, and replaced.  A real sleep closes the links.
Reconnect(sleep) ==
    /\ ~ stopped
    /\ timer' = FALSE
    /\ OpenSocket(Closing(ws), None, attached \ {ws})
    /\ owed' = owed \ {ws}
    /\ Unregister
    /\ meshed' = (meshed /\ ~ sleep)
    /\ UNCHANGED << stray, stopped, demandVars, asked >>

\* A short jump of the clock (handleSuspendRestore, Node): the relay is pinged,
\* or reopened.
ClockJumps ==
    /\ ~ stopped
    /\ ~ Usable(state, ws)
    /\ timer' = FALSE
    /\ OpenSocket(state, ws, attached)
    /\ UNCHANGED << owed, sessionVars, stray, stopped, demandVars, meshed, asked >>

\* handleVisibilityChange, the tab being visible again without a usable socket.
TabVisible ==
    /\ ~ stopped
    /\ ~ Usable(state, ws)
    /\ meshed' = FALSE                  \* closeAllPeerConnections
    /\ timer' = FALSE
    /\ OpenSocket(state, ws, attached)
    /\ UNCHANGED << owed, sessionVars, stray, stopped, demandVars, asked >>

\* resetRecoveryBackoffs(): the timer of the next attempt is cleared too.
ResetRecoveryBackoffs ==
    /\ timer
    /\ timer' = FALSE
    /\ UNCHANGED << socketVars, sessionVars, stray, stopped, relayIdle, demandVars, meshed, asked >>

-----------------------------------------------------------------------------
(* Relay on demand *)

\* wakeRelay: a released relay is opened again, and held for lingerMs.
Wake ==
    /\ ~ stopped
    /\ awake' = TRUE
    /\ releasable' = "no"
    /\ IF relayIdle
         THEN timer' = FALSE /\ OpenSocket(state, ws, attached)
         ELSE UNCHANGED << timer, ws, state, attached, relayIdle >>
    /\ UNCHANGED << owed, sessionVars, stray, stopped, meshed >>

HostWakes == Wake /\ UNCHANGED << evaluation, asked >>

\* requestBootstrap() on a released relay.
RequestBootstrap ==
    /\ relayIdle
    /\ ~ registered
    /\ asked' = TRUE
    /\ Wake
    /\ UNCHANGED evaluation

\* releaseRelay
Release ==
    /\ relayIdle' = TRUE
    /\ releasable' = "no"
    /\ Unregister
    /\ state' = Closing(ws)
    /\ attached' = attached \ {ws}
    /\ ws' = None
    /\ owed' = owed \ {ws}
    /\ UNCHANGED << timerVars, stopped, awake, meshed, asked >>

\* evaluateRelay looks at its links, and then awaits the digests of the ids.
EvaluateBegins ==
    /\ ~ stopped
    /\ evaluation = "none"
    /\ evaluation' = IF meshed THEN "meshed" ELSE "isolated"
    /\ UNCHANGED << socketVars, sessionVars, timerVars, stopped, relayIdle, awake,
                    releasable, meshed, asked >>

\* mutant: only anchors and wakes count, not a mesh that fell apart
WantRelayAnchored(needed) == awake \/ needed

\* relayDecision().wantRelay; "needed" stands for an anchor, a host that holds
\* the relay, a local relay and relayed links.
WantRelay(needed) == evaluation = "isolated" \/ awake \/ needed

\* The rest of evaluateRelay; "busy": negotiationInFlight().
EvaluateEnds(needed, busy) ==
    /\ evaluation # "none"
    /\ evaluation' = "none"
    /\ \/ /\ WantRelay(needed)
          /\ relayIdle
          /\ Wake
          /\ UNCHANGED asked
       \/ /\ ~ WantRelay(needed)
          /\ ~ relayIdle /\ registered /\ ~ busy
          /\ releasable = "settled"
          /\ Release
       \/ /\ WantRelay(needed) => ~ relayIdle
          /\ LET resting == ~ WantRelay(needed) /\ ~ relayIdle /\ registered /\ ~ busy
             IN  /\ resting => releasable # "settled"
                 /\ releasable' = IF resting THEN "since" ELSE "no"
          /\ UNCHANGED << socketVars, sessionVars, timerVars, stopped, relayIdle, awake,
                          meshed, asked >>

\* settleMs pass.  That is no less than a pending reconnection can take
\* (BACKOFF_MAX_MS) or a replaced socket's close.
Settles ==
    /\ releasable = "since"
    /\ ~ timer /\ ~ stray
    /\ \A s \in attached : Usable(state, s)
    /\ releasable' = "settled"
    /\ UNCHANGED << socketVars, sessionVars, timerVars, stopped, relayIdle, awake,
                    evaluation, meshed, asked >>

\* lingerMs pass after a wake.
LingerOver ==
    /\ awake
    /\ awake' = FALSE
    /\ UNCHANGED << socketVars, sessionVars, timerVars, stopped, relayIdle, releasable,
                    evaluation, meshed, asked >>

\* Links come up, by the relay or the mesh, and fail.
LinksChange ==
    /\ ~ stopped
    /\ meshed' = ~ meshed
    /\ UNCHANGED << socketVars, sessionVars, timerVars, stopped, relayIdle, demandVars, asked >>

-----------------------------------------------------------------------------
Next ==
    \/ \E s \in Sockets : Opened(s) \/ GoesDead(s)
    \/ \E s \in Sockets, byAck \in BOOLEAN : Answered(s, byAck)
    \/ \E s \in Sockets, normal \in BOOLEAN : CloseEvent(s, normal)
    \/ TimerFires \/ StrayFires \/ StrayFiresStopped
    \/ HeartbeatFires \/ KeepaliveTimeout
    \/ Connect \/ Disconnect
    \/ \E sleep \in BOOLEAN : Reconnect(sleep)
    \/ ClockJumps \/ TabVisible
    \/ ResetRecoveryBackoffs
    \/ HostWakes \/ RequestBootstrap
    \/ EvaluateBegins
    \/ \E needed, busy \in BOOLEAN : EvaluateEnds(needed, busy)
    \/ Settles \/ LingerOver
    \/ LinksChange

Spec == Init /\ [][Next]_vars

\* The relay watch evaluates every evalMs, an evaluation comes to its end, and
\* a socket that is closing is closed at last.
Fairness ==
    /\ WF_vars(EvaluateBegins)
    /\ WF_vars(\E needed, busy \in BOOLEAN : EvaluateEnds(needed, busy))
    /\ \A s \in Sockets : WF_vars(state[s] \in {"closing", "left"} /\ CloseEvent(s, FALSE))

FairSpec == Spec /\ Fairness

-----------------------------------------------------------------------------
(* Properties *)

\* The client speaks on one socket at a time: every way of (re)opening it,
\* timers that were overwritten included, leaves no second socket connected
\* or connecting beside the current one.
OneSocket == \A s \in Sockets : Usable(state, s) => s = ws

\* "It stays up for lingerMs (60 s) after a wake" (README): no evaluation, also
\* one that began before the wake, releases a relay that was woken.
WokenStaysUp == [][~ relayIdle /\ relayIdle' => ~ awake]_vars

\* A discovery asked for while the relay is released is neither left behind
\* on a relay that is released again, nor forgotten by the registration.
DiscoveryIsPursued == asked => ~ relayIdle /\ ~ stopped /\ ~ registered

\* "A released peer wakes the relay when its mesh drops below minMeshPeers"
\* (README): although an evaluation may have looked at the links too early.
WokenWhenCutOff == relayIdle /\ ~ meshed ~> ~ relayIdle \/ meshed

\* "By default the client keeps its relay socket open for as long as it runs"
\* (README): as long as it is started and its relay is not released, there is
\* a usable socket, or a close event or a timer that will open one.
KeepsItsRelay ==
    ~ stopped /\ ~ relayIdle =>
        Usable(state, ws) \/ timer \/ stray \/ (ws \in attached /\ state[ws] = "closing")

\* The state of a socket in the terms of PlainSocket.
PhaseOf(st) == IF st = "dead" THEN "open" ELSE IF st = "left" THEN "closing" ELSE st

Contract == INSTANCE PlainSocket WITH phase <- [s \in Sockets |-> PhaseOf(state[s])]

\* The session asks no more of its sockets than the contract of a WebSocket, which
\* its sockets keep whatever transport is behind them (RelaySocket): it never shuts
\* one again that has closed, nor counts on one that it has shut.
UsesPlainSockets == Contract!Spec
=============================================================================
