--------------------------- MODULE SessionProofs ---------------------------
(***************************************************************************)
(* Proofs about the two parts of MCSession: the session at a relay, for    *)
(* any number of sockets that go on closing, and the negotiation of a      *)
(* connection, for any names of connections, retries, queues and troubles. *)
(***************************************************************************)
EXTENDS MCSession, SequenceTheorems, TLAPS

-----------------------------------------------------------------------------
(* The session at a relay *)

\* A released relay has no socket, so that to wake it is to open one.
ReleasedHasNoSocket == relayIdle => ws = None

IInv == TypeOK /\ OneSocket /\ ReleasedHasNoSocket /\ DiscoveryIsPursued

\* The sockets in the states st, w being the current one, are as IInv has them.
OnlyUsable(st, w) ==
    /\ w \in Sockets \cup {None}
    /\ st \in [Sockets -> SocketStates]
    /\ \A s \in Sockets : Usable(st, s) => s = w

USE RelaySessionAssumption

\* A socket the client has closed is no longer usable, and no other one was.
LEMMA ClosingLeavesNone ==
    ASSUME IInv
    PROVE  /\ OnlyUsable(Closing(ws), None)
           /\ ~ Usable(Closing(ws), None)
           /\ \A s \in Sockets : Closing(ws)[s] = "closed" <=> state[s] = "closed"
           /\ \A s \in Sockets : s # ws => Closing(ws)[s] = state[s]
  <1> USE DEF IInv, TypeOK, OneSocket, Usable, OnlyUsable, SocketStates
  <1>1. CASE Usable(state, ws)
    <2>1. ws \in Sockets /\ Closing(ws) = [state EXCEPT ![ws] = "closing"]
      BY <1>1 DEF Closing
    <2>2. QED
      BY <1>1, <2>1
  <1>2. CASE ~ Usable(state, ws)
    <2>1. Closing(ws) = state
      BY <1>2 DEF Closing
    <2>2. QED
      BY <1>2, <2>1
  <1>3. QED
    BY <1>1, <1>2

\* openSocket leaves one usable socket, the current one, and ends a release.
LEMMA OpenSocketLeavesOne ==
    ASSUME NEW st, NEW w, NEW att, OnlyUsable(st, w), OpenSocket(st, w, att),
           relayIdle \in BOOLEAN,
           relayIdle => w = None \/ ~ Usable(st, w),
           att \subseteq {s \in Sockets : st[s] # "closed"}
    PROVE  /\ OnlyUsable(state', ws')
           /\ attached' \subseteq {s \in Sockets : state'[s] # "closed"}
           /\ \A s \in Sockets : st[s] = "open" => state'[s] = "open"
           /\ ~ relayIdle'
  <1> USE DEF Usable, OnlyUsable, SocketStates
  <1>1. CASE Usable(st, w)
    BY <1>1 DEF OpenSocket
  <1>2. CASE ~ Usable(st, w)
    <2>1. PICK s \in Sockets : /\ st[s] = "closed"
                               /\ ws' = s
                               /\ state' = [st EXCEPT ![s] = "connecting"]
                               /\ attached' = att \cup {s}
                               /\ relayIdle' = FALSE
      BY <1>2, Zenon DEF OpenSocket, Replaces
    <2>2. \A t \in Sockets : ~ Usable(st, t)
      BY <1>2
    <2>3. QED
      BY <2>1, <2>2
  <1>3. QED
    BY <1>1, <1>2

\* A client that was not started yet satisfies the invariant.
LEMMA InitIInv == Init => IInv
  <1> SUFFICES ASSUME Init PROVE IInv
    OBVIOUS
  <1>1. TypeOK
    BY DEF Init, TypeOK, SocketStates
  <1>2. OneSocket
    BY DEF Init, OneSocket, Usable
  <1>3. ReleasedHasNoSocket /\ DiscoveryIsPursued
    BY DEF Init, ReleasedHasNoSocket, DiscoveryIsPursued
  <1>4. QED
    BY <1>1, <1>2, <1>3 DEF IInv

\* The parts of the invariant that are about sockets, and those about flags.
Sessions ==
    {registered, heartbeat, keepalive, timer, stray, stopped, relayIdle, awake,
     meshed, asked} \subseteq BOOLEAN
Demands ==
    /\ releasable \in {"no", "since", "settled"}
    /\ evaluation \in {"none", "isolated", "meshed"}
Held ==
    /\ attached \subseteq {s \in Sockets : state[s] # "closed"}
    /\ owed \subseteq {s \in Sockets : state[s] = "open"}

\* The invariant by its parts, before and after a step.
LEMMA Parts ==
    /\ IInv <=> /\ OnlyUsable(state, ws) /\ Held
                /\ Sessions /\ Demands
                /\ ReleasedHasNoSocket /\ DiscoveryIsPursued
    /\ IInv' <=> /\ OnlyUsable(state', ws') /\ Held'
                 /\ Sessions' /\ Demands'
                 /\ ReleasedHasNoSocket' /\ DiscoveryIsPursued'
  BY DEF IInv, TypeOK, OneSocket, OnlyUsable, Held, Sessions, Demands, Usable

\* Events of a socket: only CloseEvent and Answered touch the registration.
LEMMA EventsKeepIInv ==
    ASSUME IInv, NEW s \in Sockets, NEW b \in BOOLEAN,
           Opened(s) \/ GoesDead(s) \/ Answered(s, b) \/ CloseEvent(s, b)
    PROVE  IInv'
  <1> USE DEF IInv, TypeOK, OneSocket, Usable, SocketStates, ReleasedHasNoSocket,
              DiscoveryIsPursued
  <1>1. CASE Opened(s)
    BY <1>1 DEF Opened, timerVars, demandVars
  <1>2. CASE GoesDead(s)
    BY <1>2 DEF GoesDead, sessionVars, timerVars, demandVars
  <1>3. CASE Answered(s, b)
    BY <1>3 DEF Answered, CompleteRegistration, timerVars, demandVars
  <1>4. CASE CloseEvent(s, b)
    <2>1. /\ {timer, stray}' \subseteq BOOLEAN
          /\ {registered, heartbeat, keepalive}' \subseteq BOOLEAN
          /\ registered' => registered
      BY <1>4, Zenon DEF CloseEvent, Unregister, ScheduleReconnect, timerVars, sessionVars
    <2>2. QED
      BY <1>4, <2>1 DEF CloseEvent, demandVars
  <1>5. QED
    BY <1>1, <1>2, <1>3, <1>4

\* Timers, a restart and the recoveries: each may run openSocket once.
LEMMA ReopeningsKeepIInv ==
    ASSUME IInv, NEW sleep \in BOOLEAN,
           \/ TimerFires \/ StrayFires \/ Connect \/ ClockJumps \/ TabVisible
           \/ Reconnect(sleep)
    PROVE  IInv'
  <1> USE DEF Sessions, Demands, demandVars
  <1>1. /\ OnlyUsable(state, ws) /\ Held /\ Sessions /\ Demands
        /\ ReleasedHasNoSocket /\ DiscoveryIsPursued
    BY Parts
  <1>2. ASSUME OpenSocket(state, ws, attached), owed' = owed
        PROVE  OnlyUsable(state', ws') /\ Held' /\ ~ relayIdle' /\ relayIdle' \in BOOLEAN
    <2>1. OnlyUsable(state', ws') /\ ~ relayIdle'
          /\ attached' \subseteq {s \in Sockets : state'[s] # "closed"}
          /\ \A s \in Sockets : state[s] = "open" => state'[s] = "open"
      BY <1>1, <1>2, OpenSocketLeavesOne DEF Held, ReleasedHasNoSocket
    <2>2. QED
      BY <1>1, <1>2, <2>1 DEF Held, OpenSocket, Replaces
  <1>3. CASE TimerFires
    BY <1>1, <1>2, <1>3, Parts
       DEF TimerFires, sessionVars, ReleasedHasNoSocket, DiscoveryIsPursued
  <1>4. CASE StrayFires
    BY <1>1, <1>2, <1>4, Parts
       DEF StrayFires, sessionVars, ReleasedHasNoSocket, DiscoveryIsPursued
  <1>5. CASE Connect
    BY <1>1, <1>2, <1>5, Parts
       DEF Connect, sessionVars, timerVars, ReleasedHasNoSocket, DiscoveryIsPursued
  <1>6. CASE ClockJumps
    BY <1>1, <1>2, <1>6, Parts
       DEF ClockJumps, sessionVars, ReleasedHasNoSocket, DiscoveryIsPursued
  <1>7. CASE TabVisible
    BY <1>1, <1>2, <1>7, Parts
       DEF TabVisible, sessionVars, ReleasedHasNoSocket, DiscoveryIsPursued
  <1>8. CASE Reconnect(sleep)
    <2>1. OpenSocket(Closing(ws), None, attached \ {ws}) /\ owed' = owed \ {ws}
      BY <1>8 DEF Reconnect
    <2>2. attached \ {ws} \subseteq {s \in Sockets : Closing(ws)[s] # "closed"}
      BY <1>1, ClosingLeavesNone DEF Held
    <2>3. /\ OnlyUsable(state', ws')
          /\ attached' \subseteq {s \in Sockets : state'[s] # "closed"}
          /\ \A s \in Sockets : Closing(ws)[s] = "open" => state'[s] = "open"
          /\ ~ relayIdle'
      BY <1>1, <2>1, <2>2, ClosingLeavesNone, OpenSocketLeavesOne
    <2>4. Held'
      BY <1>1, <2>1, <2>3, ClosingLeavesNone DEF Held
    <2>5. relayIdle' \in BOOLEAN
      BY <1>1, <2>1 DEF OpenSocket, Replaces
    <2>6. registered' = FALSE /\ heartbeat' = FALSE /\ keepalive' = FALSE
      BY <1>8 DEF Reconnect, Unregister
    <2>7. meshed' \in BOOLEAN
      BY <1>8, Zenon DEF Reconnect
    <2>8. QED
      BY <1>1, <1>8, <2>3, <2>4, <2>5, <2>6, <2>7, Parts
         DEF Reconnect, ReleasedHasNoSocket, DiscoveryIsPursued
  <1>9. QED
    BY <1>3, <1>4, <1>5, <1>6, <1>7, <1>8

\* wakeRelay preserves the invariant, and leaves a relay that is not released.
LEMMA WakeOpens ==
    ASSUME IInv, Wake, evaluation' = evaluation \/ evaluation' = "none",
           \/ asked' = asked
           \/ asked' = TRUE /\ relayIdle /\ ~ registered
    PROVE  IInv'
  <1> USE DEF Sessions, Demands
  <1>1. /\ OnlyUsable(state, ws) /\ Held /\ Sessions /\ Demands
        /\ ReleasedHasNoSocket /\ DiscoveryIsPursued
    BY Parts
  <1>2. CASE relayIdle
    <2>1. OpenSocket(state, ws, attached) /\ owed' = owed
      BY <1>2 DEF Wake
    <2>2. OnlyUsable(state', ws') /\ ~ relayIdle'
          /\ attached' \subseteq {s \in Sockets : state'[s] # "closed"}
          /\ \A s \in Sockets : state[s] = "open" => state'[s] = "open"
      BY <1>1, <2>1, OpenSocketLeavesOne DEF Held, ReleasedHasNoSocket
    <2>3. Held' /\ relayIdle' \in BOOLEAN
      BY <1>1, <2>1, <2>2 DEF Held, OpenSocket, Replaces
    <2>4. QED
      BY <1>1, <1>2, <2>2, <2>3, Parts
         DEF Wake, sessionVars, ReleasedHasNoSocket, DiscoveryIsPursued
  <1>3. CASE ~ relayIdle
    <2>1. UNCHANGED << ws, state, attached, owed, relayIdle, timer >>
      BY <1>3 DEF Wake
    <2>2. OnlyUsable(state', ws') /\ Held'
      BY <1>1, <2>1 DEF Held
    <2>3. QED
      BY <1>1, <1>3, <2>1, <2>2, Parts
         DEF Wake, sessionVars, ReleasedHasNoSocket, DiscoveryIsPursued
  <1>4. QED
    BY <1>1, <1>2, <1>3

\* The two ways to give the relay up on purpose: a discovery is not pending
\* when a registered relay is released, and disconnect() drops it.
LEMMA PartingsKeepIInv ==
    ASSUME IInv,
           \/ Disconnect
           \/ registered /\ Release /\ evaluation' = "none"
    PROVE  IInv'
  <1> USE DEF IInv, TypeOK, OneSocket, SocketStates, ReleasedHasNoSocket,
              DiscoveryIsPursued
  <1>1. CASE Disconnect
    <2>1. registered' = FALSE /\ heartbeat' = FALSE /\ keepalive' = FALSE
      BY <1>1 DEF Disconnect, Unregister
    <2>2. /\ state' \in [Sockets -> SocketStates]
          /\ \A s \in Sockets : ~ Usable(state', s)
          /\ \A s \in Sockets : state'[s] = "closed" <=> state[s] = "closed"
          /\ \A s \in Sockets : s # ws => state'[s] = state[s]
      BY <1>1 DEF Disconnect, Usable
    <2>3. QED
      BY <1>1, <2>1, <2>2 DEF Disconnect, demandVars
  <1>2. CASE registered /\ Release /\ evaluation' = "none"
    <2>1. registered' = FALSE /\ heartbeat' = FALSE /\ keepalive' = FALSE
      BY <1>2 DEF Release, Unregister
    <2>2. /\ OnlyUsable(state', None)
          /\ \A s \in Sockets : state'[s] = "closed" <=> state[s] = "closed"
          /\ \A s \in Sockets : s # ws => state'[s] = state[s]
      BY <1>2, ClosingLeavesNone DEF Release, OnlyUsable, Usable
    <2>3. QED
      BY <1>2, <2>1, <2>2 DEF Release, OnlyUsable, timerVars
  <1>3. QED
    BY <1>1, <1>2

\* The timers and the calls that open no socket.
LEMMA QuietStepsKeepIInv ==
    ASSUME IInv,
           \/ HeartbeatFires \/ KeepaliveTimeout \/ StrayFiresStopped
           \/ ResetRecoveryBackoffs \/ EvaluateBegins \/ Settles \/ LingerOver
           \/ LinksChange \/ UNCHANGED vars
    PROVE  IInv'
  <1> USE DEF IInv, TypeOK, OneSocket, Usable, SocketStates, ReleasedHasNoSocket,
              DiscoveryIsPursued, socketVars, sessionVars, timerVars, demandVars
  <1>1. CASE HeartbeatFires
    BY <1>1 DEF HeartbeatFires
  <1>2. CASE KeepaliveTimeout
    BY <1>2 DEF KeepaliveTimeout, Closing
  <1>3. CASE StrayFiresStopped
    BY <1>3 DEF StrayFiresStopped
  <1>4. CASE ResetRecoveryBackoffs
    BY <1>4 DEF ResetRecoveryBackoffs
  <1>5. CASE EvaluateBegins
    BY <1>5 DEF EvaluateBegins
  <1>6. CASE Settles
    BY <1>6 DEF Settles
  <1>7. CASE LingerOver
    BY <1>7 DEF LingerOver
  <1>8. CASE LinksChange
    <2>1. meshed' \in BOOLEAN
      BY <1>8, Zenon DEF LinksChange
    <2>2. QED
      BY <1>8, <2>1 DEF LinksChange
  <1>9. CASE UNCHANGED vars
    BY <1>9 DEF vars
  <1>10. QED
    BY <1>1, <1>2, <1>3, <1>4, <1>5, <1>6, <1>7, <1>8, <1>9

\* Every step preserves the invariant.
LEMMA NextIInv == IInv /\ [Next]_vars => IInv'
  <1> SUFFICES ASSUME IInv, [Next]_vars PROVE IInv'
    OBVIOUS
  <1>1. CASE HostWakes \/ RequestBootstrap
    BY <1>1, WakeOpens DEF HostWakes, RequestBootstrap
  <1>2. ASSUME NEW needed \in BOOLEAN, NEW busy \in BOOLEAN, EvaluateEnds(needed, busy)
        PROVE  IInv'
    <2>1. CASE Wake /\ UNCHANGED asked
      BY <1>2, <2>1, WakeOpens DEF EvaluateEnds
    <2>2. CASE registered /\ Release
      BY <1>2, <2>2, PartingsKeepIInv DEF EvaluateEnds
    <2>3. CASE /\ releasable' \in {"since", "no"}
               /\ UNCHANGED << socketVars, sessionVars, timerVars, stopped, relayIdle,
                               awake, meshed, asked >>
      BY <1>2, <2>3
         DEF EvaluateEnds, IInv, TypeOK, OneSocket, Usable, ReleasedHasNoSocket,
             DiscoveryIsPursued, socketVars, sessionVars, timerVars
    <2>4. QED
      BY <1>2, <2>1, <2>2, <2>3, Zenon DEF EvaluateEnds
  <1>3. QED
    BY <1>1, <1>2, EventsKeepIInv, ReopeningsKeepIInv, PartingsKeepIInv,
       QuietStepsKeepIInv DEF Next

-----------------------------------------------------------------------------
LEMMA SpecIInv == Spec => []IInv
  BY InitIInv, NextIInv, PTL DEF Spec

\* The state of a session stays within its type, whatever the number of
\* sockets that are still closing.
THEOREM SessionTypeCorrect == Spec => []TypeOK
  <1>1. IInv => TypeOK
    BY DEF IInv
  <1>2. QED
    BY <1>1, SpecIInv, PTL

\* openSocket, from whichever timer, event or call, never leaves a usable
\* socket beside the current one.
THEOREM OneSocketOnly == Spec => []OneSocket
  <1>1. IInv => OneSocket
    BY DEF IInv
  <1>2. QED
    BY <1>1, SpecIInv, PTL

\* A discovery that requestBootstrap keeps for a released relay is dropped by
\* neither a later release nor completeRegistration.
THEOREM DiscoveryKept == Spec => []DiscoveryIsPursued
  <1>1. IInv => DiscoveryIsPursued
    BY DEF IInv
  <1>2. QED
    BY <1>1, SpecIInv, PTL

\* No evaluation, however old what it knows of the mesh, releases the relay
\* while it is held awake.
THEOREM WokenIsNotReleased == Spec => WokenStaysUp
  <1>1. [Next]_vars => [~ relayIdle /\ relayIdle' => ~ awake]_vars
    <2> SUFFICES ASSUME Next, ~ relayIdle, relayIdle' PROVE ~ awake
      OBVIOUS
    <2>1. ASSUME NEW st, NEW w, NEW att, OpenSocket(st, w, att)
          PROVE  FALSE
      BY <2>1 DEF OpenSocket, Replaces
    <2>2. ~ Wake
      BY <2>1 DEF Wake
    <2>3. ASSUME NEW s \in Sockets, NEW b \in BOOLEAN,
                 Opened(s) \/ GoesDead(s) \/ Answered(s, b) \/ CloseEvent(s, b)
          PROVE  FALSE
      BY <2>3 DEF Opened, GoesDead, Answered, CloseEvent
    <2>4. CASE \/ TimerFires \/ StrayFires \/ Connect \/ ClockJumps \/ TabVisible
               \/ \E sleep \in BOOLEAN : Reconnect(sleep)
      BY <2>1, <2>4 DEF TimerFires, StrayFires, Connect, ClockJumps, TabVisible, Reconnect
    <2>5. CASE \/ HeartbeatFires \/ KeepaliveTimeout \/ StrayFiresStopped \/ Disconnect
               \/ ResetRecoveryBackoffs \/ EvaluateBegins \/ Settles \/ LingerOver
               \/ LinksChange
      BY <2>5 DEF HeartbeatFires, KeepaliveTimeout, StrayFiresStopped, Disconnect,
                  ResetRecoveryBackoffs, EvaluateBegins, Settles, LingerOver, LinksChange
    <2>6. CASE HostWakes \/ RequestBootstrap
      BY <2>2, <2>6 DEF HostWakes, RequestBootstrap
    <2>7. CASE \E needed, busy \in BOOLEAN : EvaluateEnds(needed, busy)
      BY <2>2, <2>7 DEF EvaluateEnds, WantRelay
    <2>8. QED
      BY <2>3, <2>4, <2>5, <2>6, <2>7 DEF Next
  <1>2. QED
    BY <1>1, PTL DEF Spec, WokenStaysUp

-----------------------------------------------------------------------------
(* The contract of the sockets *)

\* What one step may do to a socket.
Plain(a, b) ==
    \/ a = b
    \/ a = "closed" /\ b = "connecting"
    \/ a = "connecting" /\ b = "open"
    \/ a = "open" /\ b = "dead"
    \/ a \in {"connecting", "open", "dead"} /\ b \in {"closing", "left"}
    \/ a # "closed" /\ b = "closed"

MovesPlainly == \A s \in Sockets : Plain(state[s], state'[s])

\* openSocket dials at most one closed socket.
LEMMA OpenSocketDials ==
    ASSUME NEW st \in [Sockets -> SocketStates], NEW w, NEW att, OpenSocket(st, w, att)
    PROVE  \A s \in Sockets : \/ state'[s] = st[s]
                              \/ st[s] = "closed" /\ state'[s] = "connecting"
  BY DEF OpenSocket, Replaces

\* What the session does to its sockets is within what a WebSocket allows.
LEMMA StepsArePlain ==
    ASSUME IInv, [Next]_vars
    PROVE  MovesPlainly
  <1>1. state \in [Sockets -> SocketStates]
    BY DEF IInv, TypeOK
  <1>2. ASSUME UNCHANGED state PROVE MovesPlainly
    BY <1>2 DEF MovesPlainly, Plain
  <1>3. ASSUME OpenSocket(state, ws, attached) PROVE MovesPlainly
    BY <1>1, <1>3, OpenSocketDials DEF MovesPlainly, Plain
  <1>4. \A s \in Sockets :
           \/ Closing(ws)[s] = state[s]
           \/ state[s] \in {"connecting", "open", "dead"} /\ Closing(ws)[s] = "closing"
    BY <1>1 DEF Closing, Usable
  <1>5. Closing(ws) \in [Sockets -> SocketStates]
    BY ClosingLeavesNone DEF OnlyUsable
  <1>6. ASSUME state' = Closing(ws) PROVE MovesPlainly
    BY <1>4, <1>6 DEF MovesPlainly, Plain
  <1>7. ASSUME OpenSocket(Closing(ws), None, attached \ {ws}) PROVE MovesPlainly
    <2>1. \A s \in Sockets : \/ state'[s] = Closing(ws)[s]
                             \/ Closing(ws)[s] = "closed" /\ state'[s] = "connecting"
      BY <1>5, <1>7, OpenSocketDials
    <2>2. QED
      BY <1>4, <2>1 DEF MovesPlainly, Plain
  <1>8. ASSUME NEW s \in Sockets, NEW b \in BOOLEAN,
               Opened(s) \/ GoesDead(s) \/ Answered(s, b) \/ CloseEvent(s, b)
        PROVE  MovesPlainly
    BY <1>1, <1>8 DEF Opened, GoesDead, Answered, CloseEvent, MovesPlainly, Plain
  <1>9. CASE TimerFires \/ StrayFires \/ Connect \/ ClockJumps \/ TabVisible
    BY <1>3, <1>9 DEF TimerFires, StrayFires, Connect, ClockJumps, TabVisible
  <1>10. CASE \E sleep \in BOOLEAN : Reconnect(sleep)
    BY <1>7, <1>10 DEF Reconnect
  <1>11. CASE Disconnect
    BY <1>1, <1>11 DEF Disconnect, Usable, MovesPlainly, Plain
  <1>12. ASSUME Wake PROVE MovesPlainly
    BY <1>2, <1>3, <1>12 DEF Wake
  <1>13. ASSUME NEW needed \in BOOLEAN, NEW busy \in BOOLEAN, EvaluateEnds(needed, busy)
         PROVE  MovesPlainly
    BY <1>2, <1>6, <1>12, <1>13, Zenon DEF EvaluateEnds, Release, socketVars
  <1>14. CASE HostWakes \/ RequestBootstrap
    BY <1>12, <1>14 DEF HostWakes, RequestBootstrap
  <1>15. CASE KeepaliveTimeout
    BY <1>6, <1>15 DEF KeepaliveTimeout
  <1>16. CASE \/ HeartbeatFires \/ StrayFiresStopped \/ ResetRecoveryBackoffs
              \/ EvaluateBegins \/ Settles \/ LingerOver \/ LinksChange \/ UNCHANGED vars
    BY <1>2, <1>16 DEF HeartbeatFires, StrayFiresStopped, ResetRecoveryBackoffs,
       EvaluateBegins, Settles, LingerOver, LinksChange, vars, socketVars
  <1>17. QED
    BY <1>8, <1>9, <1>10, <1>11, <1>13, <1>14, <1>15, <1>16 DEF Next

\* The session keeps to the contract of a WebSocket: it shuts a socket once, and
\* takes a socket that it has shut for gone.
THEOREM PlainSocketsSuffice == Spec => UsesPlainSockets
  <1>1. Init => Contract!Init
    BY DEF Init, Contract!Init, PhaseOf
  <1>2. IInv /\ [Next]_vars => [Contract!Next]_[s \in Sockets |-> PhaseOf(state[s])]
    <2> SUFFICES ASSUME IInv, [Next]_vars
                 PROVE  [Contract!Next]_[s \in Sockets |-> PhaseOf(state[s])]
      OBVIOUS
    <2>1. \A s \in Sockets : Plain(state[s], state'[s])
      BY StepsArePlain DEF MovesPlainly
    <2>2. \A s \in Sockets : state[s] \in SocketStates /\ state'[s] \in SocketStates
      BY NextIInv DEF IInv, TypeOK
    <2>3. \A s \in Sockets : PhaseOf(state'[s]) \in Contract!Phases
      BY <2>2 DEF PhaseOf, SocketStates, Contract!Phases
    <2>4. \A s \in Sockets :
             \/ PhaseOf(state'[s]) = PhaseOf(state[s])
             \/ << PhaseOf(state[s]), PhaseOf(state'[s]) >>
                   \in Contract!Dials \cup Contract!Opens \cup Contract!Shuts \cup Contract!Closes
      BY <2>1, <2>2 DEF Plain, PhaseOf, SocketStates, Contract!Dials, Contract!Opens,
         Contract!Shuts, Contract!Closes
    <2>5. QED
      BY <2>3, <2>4 DEF Contract!Next
  <1>3. QED
    BY <1>1, <1>2, SpecIInv, PTL DEF Spec, UsesPlainSockets, Contract!Spec

-----------------------------------------------------------------------------
(* The negotiation of a connection, for any names and bounds *)

\* An operation knows the description it was called with, and once it is under
\* way the connection it works on.
LegalOp == {o \in Op : /\ o.kind # "dial" => o.arg \in Conn
                       /\ o.at # "start" => o.on \in Conn}

ConnRecord == [sig : {"closed", "stable", "have-local-offer", "have-remote-offer"},
               remote : MaybeConn, state : {"new", "connected", "failed"},
               left : 0 .. MaxRetries + 1]
EntryRecord == [conn : MaybeConn, chan : MaybeConn, offered : MaybeConn,
                applied : MaybeConn, answered : BOOLEAN,
                state : {"connecting", "connected", "dead"}]
EndState == {"none", "connecting", "open", "closed"}
Spending == [dials : 0 .. MaxDials, byes : 0 .. MaxTroubles, losses : 0 .. MaxTroubles,
             breaks : 0 .. MaxTroubles, resent : 0 .. MaxTroubles]

ConnsTyped == pcs \in [Conn -> ConnRecord]
EndsTyped == ends \in [Peer -> [Conn -> EndState]]
EntriesTyped == entry \in [Peer -> EntryRecord]
MemoryTyped ==
    /\ pending \in [Peer -> [answer : MaybeConn, for : MaybeConn]]
    /\ recent \in [Peer -> [offer : MaybeConn, answer : MaybeConn]]
BurstsTyped ==
    /\ burst \in [Peer -> [conn : MaybeConn, left : 0 .. MaxBurst]]
    /\ \A p \in Peer : burst[p].left > 0 => burst[p].conn \in Conn
OpsTyped == ops \in [Peer -> [Queues -> Seq(LegalOp)]]
WiresTyped == closing \subseteq Conn /\ net \subseteq Frame /\ spent \in Spending

Typed == /\ ConnsTyped /\ EndsTyped /\ EntriesTyped /\ MemoryTyped
         /\ BurstsTyped /\ OpsTyped /\ WiresTyped

\* The connection of an entry is of its own peer, and is not about to be closed.
EntriesOwn ==
    \A p \in Peer : LET x == entry[p].conn
                    IN  x # Nothing => Owner(x) = p /\ x \notin closing

\* A channel opens on a connection of its entry that has a remote description.
OpenHasRemote ==
    \A p \in Peer : IsOpen(p) => /\ entry[p].conn # Nothing
                                 /\ pcs[entry[p].conn].remote # Nothing

NInv == Typed /\ EntriesOwn /\ OpenHasRemote /\ NoLeakedConn

USE NegotiationAssumption

LEMMA ConnParts ==
    /\ \A x \in Conn : Owner(x) \in Peer
    /\ \A p \in Peer : Other(p) \in Peer
    /\ Conn \subseteq MaybeConn /\ Nothing \in MaybeConn
    /\ Nothing \notin Conn
  BY DEF Conn, Owner, Other, Peer, MaybeConn

LEMMA AConn ==
    ASSUME NEW x \in Conn
    PROVE  x \in MaybeConn /\ x # Nothing
  BY ConnParts

LEMMA FrameParts ==
    ASSUME NEW f \in Frame
    PROVE  /\ f.to \in Peer
           /\ f.type \in {"offer", "answer", "bye", "channel-bye"}
           /\ f.type \in {"offer", "answer", "channel-bye"} => f.conn \in Conn
  BY DEF Frame

LEMMA FramesMade ==
    ASSUME NEW x \in Conn
    PROVE  Offer(x) \in Frame /\ Answer(x) \in Frame
  <1>1. Other(Owner(x)) \in Peer
    BY ConnParts
  <1> QED
    BY <1>1 DEF Offer, Answer, Frame

LEMMA NewRecords ==
    /\ NoConn \in ConnRecord /\ NewConn \in ConnRecord
    /\ NoEntry \in EntryRecord
    /\ \A x \in Conn : EntryOf(x) \in EntryRecord
    /\ \A x \in Conn : [EntryOf(x) EXCEPT !.chan = x] \in EntryRecord
  <1>1. NoConn \in ConnRecord /\ NewConn \in ConnRecord
    BY ConnParts DEF NoConn, NewConn, ConnRecord
  <1>2. \A x \in MaybeConn : EntryOf(x) \in EntryRecord
    BY ConnParts DEF EntryOf, EntryRecord
  <1>3. NoEntry \in EntryRecord
    BY <1>2, ConnParts DEF NoEntry
  <1>4. \A e \in EntryRecord, x \in Conn : [e EXCEPT !.chan = x] \in EntryRecord
    BY ConnParts DEF EntryRecord
  <1> QED
    BY <1>1, <1>2, <1>3, <1>4, ConnParts

LEMMA NegotiationInitInv == NegotiationInit => NInv
  <1> SUFFICES ASSUME NegotiationInit PROVE NInv
    OBVIOUS
  <1> USE DEF NegotiationInit
  <1>1. ConnsTyped /\ EntriesTyped
    BY NewRecords DEF ConnsTyped, EntriesTyped
  <1>2. EndsTyped /\ MemoryTyped
    BY ConnParts DEF EndsTyped, MemoryTyped, EndState, NoAnswer
  <1>3. BurstsTyped
    BY ConnParts DEF BurstsTyped, NoBurst
  <1>4. OpsTyped
    <2>1. << >> \in Seq(LegalOp)
      OBVIOUS
    <2> QED
      BY <2>1 DEF OpsTyped
  <1>5. WiresTyped
    BY DEF WiresTyped, Spending
  <1>6. EntriesOwn /\ OpenHasRemote
    BY DEF EntriesOwn, OpenHasRemote, NoEntry, EntryOf, IsOpen
  <1>7. NoLeakedConn
    BY DEF NoLeakedConn, NoConn
  <1> QED
    BY <1>1, <1>2, <1>3, <1>4, <1>5, <1>6, <1>7 DEF NInv, Typed

LEMMA SequencesOfOps ==
    ASSUME NEW s \in Seq(LegalOp), NEW t \in Seq(LegalOp), NEW o \in LegalOp
    PROVE  /\ Append(s, o) \in Seq(LegalOp)
           /\ s \o t \in Seq(LegalOp)
           /\ s # << >> => /\ Head(s) \in LegalOp
                           /\ Tail(s) \in Seq(LegalOp)
                           /\ << o >> \o Tail(s) \in Seq(LegalOp)
  <1>1. Append(s, o) \in Seq(LegalOp)
    OBVIOUS
  <1>2. s \o t \in Seq(LegalOp)
    BY ConcatProperties
  <1>3. ASSUME s # << >>
        PROVE  Head(s) \in LegalOp /\ Tail(s) \in Seq(LegalOp)
    BY <1>3, HeadTailProperties
  <1>4. ASSUME s # << >>
        PROVE  << o >> \o Tail(s) \in Seq(LegalOp)
    <2>1. << o >> \in Seq(LegalOp)
      OBVIOUS
    <2> QED
      BY <1>3, <1>4, <2>1, ConcatProperties
  <1> QED
    BY <1>1, <1>2, <1>3, <1>4

\* The operation under way, and the queues once it is over or goes on.
LEMMA OpsStep ==
    ASSUME OpsTyped, NEW p \in Peer, NEW q \in Queues, ops[p][q] # << >>
    PROVE  /\ Next1(p, q) \in LegalOp
           /\ Done(p, q) => OpsTyped'
           /\ \A x \in Conn, at \in {"start", "made", "remote", "yielding"} :
                Goes(p, q, at, x) => OpsTyped'
  <1>1. ops[p][q] \in Seq(LegalOp)
    BY DEF OpsTyped
  <1>2. Head(ops[p][q]) \in LegalOp /\ Tail(ops[p][q]) \in Seq(LegalOp)
    BY <1>1, HeadTailProperties
  <1>3. Done(p, q) => OpsTyped'
    BY <1>2 DEF Done, OpsTyped
  <1>4. ASSUME NEW x \in Conn, NEW at \in {"start", "made", "remote", "yielding"},
               Goes(p, q, at, x)
        PROVE  OpsTyped'
    <2> DEFINE o == [Head(ops[p][q]) EXCEPT !.at = at, !.on = x]
    <2>1. o \in LegalOp
      BY <1>2, ConnParts DEF LegalOp, Op
    <2>2. << o >> \o Tail(ops[p][q]) \in Seq(LegalOp)
      BY <1>1, <2>1, SequencesOfOps
    <2>3. ops' = [ops EXCEPT ![p][q] = << o >> \o Tail(ops[p][q])]
      BY <1>4 DEF Goes
    <2> HIDE DEF o
    <2> QED
      BY <2>2, <2>3 DEF OpsTyped
  <1> QED
    BY <1>2, <1>3, <1>4 DEF Next1

LEMMA Enqueues ==
    ASSUME OpsTyped, NEW p \in Peer, NEW x \in MaybeConn, NEW kind \in {"dial", "offer", "answer"},
           kind = "dial" \/ x \in Conn,
           ops' = Enqueued(p, kind, x)
    PROVE  OpsTyped'
  <1> DEFINE o == [kind |-> kind, arg |-> x, on |-> Nothing, at |-> "start"]
  <1>1. o \in LegalOp
    BY ConnParts DEF LegalOp, Op
  <1>2. "queue" \in Queues
    BY DEF Queues
  <1>3. Append(ops[p]["queue"], o) \in Seq(LegalOp)
    BY <1>1, <1>2 DEF OpsTyped
  <1>4. ops' = [ops EXCEPT ![p]["queue"] = Append(ops[p]["queue"], o)]
    BY DEF Enqueued
  <1> HIDE DEF o
  <1> QED
    BY <1>2, <1>3, <1>4 DEF OpsTyped

LEMMA ShutTyped ==
    ASSUME NEW P \in [Conn -> ConnRecord], NEW S
    PROVE  /\ Shut(P, S) \in [Conn -> ConnRecord]
           /\ \A x \in Conn : Shut(P, S)[x] = IF x \in S THEN NoConn ELSE P[x]
  BY NewRecords DEF Shut

LEMMA ShutEndsTyped ==
    ASSUME NEW E \in [Peer -> [Conn -> EndState]], NEW S
    PROVE  /\ ShutEnds(E, S) \in [Peer -> [Conn -> EndState]]
           /\ \A p \in Peer, c \in Conn :
                 ShutEnds(E, S)[p][c] = "open" => E[p][c] = "open"
  <1>1. \A p \in Peer, c \in Conn :
           ShutEnds(E, S)[p][c] \in {"closed", E[p][c]}
    BY DEF ShutEnds
  <1>2. \A p \in Peer, c \in Conn : E[p][c] \in EndState
    OBVIOUS
  <1>3. "closed" \in EndState
    BY DEF EndState
  <1>4. \A p \in Peer, c \in Conn : ShutEnds(E, S)[p][c] \in EndState
    BY <1>1, <1>2, <1>3
  <1>5. ShutEnds(E, S) = [p \in Peer |-> [c \in Conn |-> ShutEnds(E, S)[p][c]]]
    BY DEF ShutEnds
  <1> QED
    BY <1>1, <1>4, <1>5

\* A step after which no connection is in use that was not, no entry has another
\* connection, and no channel is open that was not on one with a remote description.
LEMMA QuietStep ==
    ASSUME NInv, Typed', UNCHANGED closing,
           \A x \in Conn : pcs'[x].sig # "closed" => pcs[x].sig # "closed",
           \A p \in Peer : entry'[p].conn = entry[p].conn,
           \A p \in Peer : IsOpen(p)' =>
               /\ entry[p].conn # Nothing
               /\ pcs'[entry[p].conn].remote # Nothing
    PROVE  NInv'
  <1>1. EntriesOwn'
    BY DEF NInv, EntriesOwn
  <1>2. OpenHasRemote'
    BY DEF OpenHasRemote
  <1>3. NoLeakedConn'
    BY ConnParts DEF NInv, NoLeakedConn
  <1> QED
    BY <1>1, <1>2, <1>3 DEF NInv

\* The same, where no remote description goes and no channel opens.
LEMMA QuieterStep ==
    ASSUME NInv, Typed', UNCHANGED closing,
           \A x \in Conn : pcs'[x].sig # "closed" => pcs[x].sig # "closed",
           \A x \in Conn : pcs[x].remote # Nothing => pcs'[x].remote # Nothing,
           \A p \in Peer : entry'[p].conn = entry[p].conn,
           \A p \in Peer : IsOpen(p)' => IsOpen(p)
    PROVE  NInv'
  <1>1. ASSUME NEW p \in Peer, IsOpen(p)'
        PROVE  entry[p].conn # Nothing /\ pcs'[entry[p].conn].remote # Nothing
    <2>1. entry[p].conn # Nothing /\ pcs[entry[p].conn].remote # Nothing
      BY <1>1 DEF NInv, OpenHasRemote
    <2>2. entry[p].conn \in Conn
      BY <2>1 DEF NInv, Typed, EntriesTyped, EntryRecord, MaybeConn
    <2> QED
      BY <2>1, <2>2
  <1> QED
    BY <1>1, QuietStep, Zenon

-----------------------------------------------------------------------------
(* Each action keeps the invariant *)

\* What a mishap within the bound uses up.
LEMMA Spends ==
    ASSUME WiresTyped, Room
    PROVE  /\ [spent EXCEPT !.byes = @ + 1] \in Spending
           /\ [spent EXCEPT !.losses = @ + 1] \in Spending
           /\ [spent EXCEPT !.breaks = @ + 1] \in Spending
           /\ [spent EXCEPT !.resent = @ + 1] \in Spending
  BY DEF WiresTyped, Spending, Room

LEMMA DialKeeps ==
    ASSUME NInv, NEW p \in Peer, Dial(p)
    PROVE  NInv'
  <1> USE DEF Dial
  <1>1. Typed
    BY DEF NInv
  <1>2. OpsTyped'
    BY <1>1, Enqueues, ConnParts DEF Typed
  <1>3. spent' \in Spending
    <2>0. spent.dials \in 0 .. MaxDials
      BY <1>1 DEF Typed, WiresTyped, Spending
    <2>1. PICK n \in 0 .. MaxDials : n = spent.dials + 1
      BY <2>0
    <2>2. spent' = [spent EXCEPT !.dials = n]
      BY <2>1
    <2> QED
      BY <1>1, <2>2 DEF Typed, WiresTyped, Spending
  <1>4. Typed'
    BY <1>1, <1>2, <1>3 DEF Typed, ConnsTyped, EndsTyped, EntriesTyped, MemoryTyped, BurstsTyped,
                            WiresTyped
  <1>5. \A r \in Peer : IsOpen(r)' => IsOpen(r)
    BY DEF IsOpen
  <1> QED
    BY <1>4, <1>5, QuietStep DEF NInv, OpenHasRemote

\* A fresh connection of p replaces the one of its entry.
LEMMA FreshConnKeeps ==
    ASSUME NInv, Typed', NEW p \in Peer, NEW x \in Fresh(p),
           pcs' = [Shut(pcs, {entry[p].conn}) EXCEPT ![x] = NewConn],
           entry'[p].conn = x, entry'[p].chan \in {x, Nothing},
           \A r \in Peer \ {p} : entry'[r] = entry[r],
           ends'[p][x] # "open",
           \A r \in Peer \ {p}, c \in Conn : ends'[r][c] = "open" => ends[r][c] = "open",
           UNCHANGED closing
    PROVE  NInv'
  <1>1. /\ x \in Conn /\ Owner(x) = p
        /\ pcs[x].sig = "closed" /\ x \notin closing
        /\ \A r \in Peer : entry[r].conn # x
    BY DEF Fresh, Unused
  <1>2. pcs \in [Conn -> ConnRecord] /\ entry \in [Peer -> EntryRecord]
    BY DEF NInv, Typed, ConnsTyped, EntriesTyped
  <1>3. \A y \in Conn : pcs'[y] = IF y = x THEN NewConn
                                 ELSE IF y = entry[p].conn THEN NoConn ELSE pcs[y]
    BY <1>1, <1>2, ShutTyped
  <1>4. EntriesOwn'
    BY <1>1 DEF NInv, EntriesOwn
  <1>5. OpenHasRemote'
    <2> SUFFICES ASSUME NEW r \in Peer, IsOpen(r)'
                 PROVE  /\ entry'[r].conn # Nothing
                        /\ pcs'[entry'[r].conn].remote # Nothing
      BY DEF OpenHasRemote
    <2>1. r # p
      BY DEF IsOpen
    <2>2. entry[r].chan \in Conn
      BY <1>2, <2>1 DEF IsOpen, EntryRecord, MaybeConn
    <2>3. IsOpen(r)
      BY <2>1, <2>2 DEF IsOpen
    <2>4. entry[r].conn # Nothing /\ pcs[entry[r].conn].remote # Nothing
      BY <2>3 DEF NInv, OpenHasRemote
    <2>5. entry[r].conn \in Conn /\ Owner(entry[r].conn) = r
      BY <1>2, <2>4 DEF NInv, EntriesOwn, EntryRecord, MaybeConn
    <2>6. entry[r].conn # entry[p].conn \/ entry[p].conn = Nothing
      BY <2>1, <2>5 DEF NInv, EntriesOwn
    <2>7. entry[r].conn # x /\ entry[r].conn # entry[p].conn
      BY <1>1, <2>4, <2>6
    <2>8. pcs'[entry[r].conn] = pcs[entry[r].conn]
      BY <1>3, <2>5, <2>7
    <2>9. entry'[r] = entry[r]
      BY <2>1
    <2> QED
      BY <2>4, <2>8, <2>9
  <1>6. NoLeakedConn'
    <2> SUFFICES ASSUME NEW y \in Conn, pcs'[y].sig # "closed"
                 PROVE  y \in closing \/ entry'[Owner(y)].conn = y
      BY DEF NoLeakedConn
    <2>1. CASE y = x
      BY <1>1, <2>1
    <2>2. CASE y # x
      <3>1. pcs[y].sig # "closed" /\ y # entry[p].conn
        <4>1. NoConn.sig = "closed"
          BY DEF NoConn
        <4> QED
          BY <1>3, <2>2, <4>1
      <3>2. y \in closing \/ entry[Owner(y)].conn = y
        BY <3>1 DEF NInv, NoLeakedConn
      <3> QED
        BY <3>1, <3>2, ConnParts
    <2> QED
      BY <2>1, <2>2
  <1> QED
    BY <1>4, <1>5, <1>6 DEF NInv

\* What is remembered, and the ends, once x stands for a new connection.
LEMMA FreshTyped ==
    ASSUME Typed, NEW p \in Peer, NEW x \in Fresh(p), NEW S
    PROVE  /\ [Shut(pcs, S) EXCEPT ![x] = NewConn] \in [Conn -> ConnRecord]
           /\ Forgotten(x) \in [Peer -> [offer : MaybeConn, answer : MaybeConn]]
           /\ Renamed(ShutEnds(ends, S), x) \in [Peer -> [Conn -> EndState]]
           /\ \A r \in Peer, c \in Conn :
                 Renamed(ShutEnds(ends, S), x)[r][c] = "open" => c # x /\ ends[r][c] = "open"
  <1>1. x \in Conn
    BY DEF Fresh
  <1>2. [Shut(pcs, S) EXCEPT ![x] = NewConn] \in [Conn -> ConnRecord]
    BY <1>1, NewRecords, ShutTyped DEF Typed, ConnsTyped
  <1>3. Forgotten(x) \in [Peer -> [offer : MaybeConn, answer : MaybeConn]]
    BY ConnParts DEF Typed, MemoryTyped, Forgotten
  <1> DEFINE E == ShutEnds(ends, S)
  <1>4. /\ E \in [Peer -> [Conn -> EndState]]
        /\ \A r \in Peer, c \in Conn : E[r][c] = "open" => ends[r][c] = "open"
    BY ShutEndsTyped DEF Typed, EndsTyped
  <1> HIDE DEF E
  <1>5. "none" \in EndState /\ "none" # "open"
    BY DEF EndState
  <1>6. /\ Renamed(E, x) \in [Peer -> [Conn -> EndState]]
        /\ \A r \in Peer, c \in Conn : Renamed(E, x)[r][c] = IF c = x THEN "none" ELSE E[r][c]
    BY <1>1, <1>4, <1>5 DEF Renamed
  <1>7. \A r \in Peer, c \in Conn :
           Renamed(E, x)[r][c] = "open" => c # x /\ ends[r][c] = "open"
    BY <1>4, <1>5, <1>6
  <1> QED
    BY <1>2, <1>3, <1>6, <1>7 DEF E

LEMMA StartDialKeeps ==
    ASSUME NInv, NEW p \in Peer, NEW q \in Queues, StartDial(p, q)
    PROVE  NInv'
  <1>1. Typed
    BY DEF NInv
  <1>2. ops[p][q] # << >> /\ OpsTyped
    BY <1>1 DEF StartDial, IsAt, Typed
  <1>3. CASE Done(p, q) /\ UNCHANGED << pcs, ends, entry, recent >>
    <2>1. OpsTyped'
      BY <1>2, <1>3, OpsStep
    <2>2. Typed'
      BY <1>1, <1>3, <2>1 DEF StartDial, Typed, ConnsTyped, EndsTyped, EntriesTyped, MemoryTyped,
                              BurstsTyped, WiresTyped
    <2>3. \A r \in Peer : IsOpen(r)' => IsOpen(r)
      BY <1>3 DEF IsOpen
    <2> QED
      BY <1>3, <2>2, <2>3, QuietStep DEF StartDial, NInv, OpenHasRemote
  <1>4. ASSUME NEW x \in Fresh(p),
               pcs' = [Shut(pcs, {entry[p].conn}) EXCEPT ![x] = NewConn],
               ends' = [Renamed(ShutEnds(ends, {entry[p].conn} \ {Nothing}), x)
                          EXCEPT ![p][x] = "connecting"],
               entry' = [entry EXCEPT ![p] = [EntryOf(x) EXCEPT !.chan = x]],
               recent' = Forgotten(x),
               Goes(p, q, "made", x)
        PROVE  NInv'
    <2>1. x \in Conn
      BY DEF Fresh
    <2> DEFINE e == [EntryOf(x) EXCEPT !.chan = x]
    <2>2. e \in EntryRecord /\ e.conn = x /\ e.chan = x
      BY <2>1, NewRecords DEF EntryOf
    <2>3. entry' = [entry EXCEPT ![p] = e]
      BY <1>4
    <2> HIDE DEF e
    <2> DEFINE E == Renamed(ShutEnds(ends, {entry[p].conn} \ {Nothing}), x)
    <2>4. /\ pcs' \in [Conn -> ConnRecord]
          /\ recent' \in [Peer -> [offer : MaybeConn, answer : MaybeConn]]
          /\ E \in [Peer -> [Conn -> EndState]]
          /\ \A r \in Peer, c \in Conn : E[r][c] = "open" => ends[r][c] = "open"
      BY <1>1, <1>4, FreshTyped
    <2>5. ends' = [E EXCEPT ![p][x] = "connecting"]
      BY <1>4
    <2> HIDE DEF E
    <2>6. ends' \in [Peer -> [Conn -> EndState]]
      BY <2>1, <2>4, <2>5 DEF EndState
    <2>7. OpsTyped'
      BY <1>2, <1>4, <2>1, OpsStep
    <2>8. Typed'
      BY <1>1, <2>2, <2>3, <2>4, <2>6, <2>7
         DEF StartDial, Typed, ConnsTyped, EndsTyped, EntriesTyped, MemoryTyped, BurstsTyped,
             WiresTyped
    <2>9. /\ entry'[p] = e
          /\ \A r \in Peer \ {p} : entry'[r] = entry[r]
      BY <1>1, <2>3 DEF Typed, EntriesTyped
    <2>10. /\ ends'[p][x] = "connecting"
           /\ \A r \in Peer \ {p}, c \in Conn : ends'[r][c] = "open" => ends[r][c] = "open"
      BY <2>1, <2>4, <2>5
    <2> QED
      BY <1>4, <2>2, <2>8, <2>9, <2>10, FreshConnKeeps DEF StartDial
  <1> QED
    BY <1>3, <1>4 DEF StartDial

\* One field of a connection after another.
LEMMA ConnFields ==
    ASSUME NEW r \in ConnRecord
    PROVE  /\ \A left \in 0 .. MaxRetries + 1 : [r EXCEPT !.left = left] \in ConnRecord
           /\ \A sig \in {"closed", "stable", "have-local-offer", "have-remote-offer"} :
                 [r EXCEPT !.sig = sig] \in ConnRecord
           /\ \A remote \in MaybeConn : [r EXCEPT !.remote = remote] \in ConnRecord
           /\ \A st \in {"new", "connected", "failed"} : [r EXCEPT !.state = st] \in ConnRecord
  BY DEF ConnRecord

LEMMA AnswerRemembered ==
    ASSUME MemoryTyped, NEW p \in Peer, NEW a \in MaybeConn,
           recent' = [recent EXCEPT ![p].answer = a]
    PROVE  recent' \in [Peer -> [offer : MaybeConn, answer : MaybeConn]]
  BY DEF MemoryTyped

LEMMA AnswerApplied ==
    ASSUME EntriesTyped, NEW p \in Peer, NEW a \in MaybeConn,
           entry' = [entry EXCEPT ![p].applied = a]
    PROVE  /\ entry' \in [Peer -> EntryRecord]
           /\ \A r \in Peer : entry'[r].conn = entry[r].conn /\ entry'[r].chan = entry[r].chan
  BY DEF EntriesTyped, EntryRecord

\* A connection with other descriptions, and perhaps other retries left.
Described(r, sig, remote) == [r EXCEPT !.sig = sig, !.remote = remote]
Offered(r, left, sig, remote) == [r EXCEPT !.left = left, !.sig = sig, !.remote = remote]

LEMMA ConnSet ==
    ASSUME NEW r \in ConnRecord, NEW left \in 0 .. MaxRetries + 1, NEW remote \in MaybeConn,
           NEW sig \in {"closed", "stable", "have-local-offer", "have-remote-offer"}
    PROVE  /\ Offered(r, left, sig, remote) \in ConnRecord
           /\ Described(r, sig, remote) \in ConnRecord
  <1>1. PICK r1 \in ConnRecord : r1 = [r EXCEPT !.left = left]
    BY ConnFields
  <1>2. PICK r2 \in ConnRecord : r2 = [r1 EXCEPT !.sig = sig]
    BY ConnFields
  <1>3. [r2 EXCEPT !.remote = remote] \in ConnRecord
    BY ConnFields
  <1>4. Offered(r, left, sig, remote) \in ConnRecord
    BY <1>1, <1>2, <1>3 DEF Offered
  <1>5. PICK r3 \in ConnRecord : r3 = [r EXCEPT !.sig = sig]
    BY ConnFields
  <1>6. Described(r, sig, remote) \in ConnRecord
    BY <1>5, ConnFields DEF Described
  <1> QED
    BY <1>4, <1>6

\* The local description is set on a connection that had none.
LEMMA FinishDialKeeps ==
    ASSUME NInv, NEW p \in Peer, NEW q \in Queues, FinishDial(p, q)
    PROVE  NInv'
  <1>1. Typed
    BY DEF NInv
  <1> DEFINE x == Next1(p, q).on
             a == pending[p].answer
  <1>2. ops[p][q] # << >> /\ OpsTyped /\ Done(p, q) /\ Next1(p, q).at = "made"
    BY <1>1 DEF FinishDial, IsAt, Typed
  <1>3. OpsTyped' /\ x \in Conn
    BY <1>2, OpsStep DEF LegalOp
  <1>4. /\ pcs \in [Conn -> ConnRecord] /\ pcs[x] \in ConnRecord
        /\ a \in MaybeConn
        /\ entry \in [Peer -> EntryRecord]
    BY <1>1, <1>3 DEF Typed, ConnsTyped, MemoryTyped, EntriesTyped
  <1>5. CASE UNCHANGED << pcs, entry, pending, recent, net >>
    <2>1. Typed'
      BY <1>1, <1>3, <1>5 DEF FinishDial, Typed, ConnsTyped, EndsTyped, EntriesTyped, MemoryTyped,
                              BurstsTyped, WiresTyped
    <2>2. \A r \in Peer : IsOpen(r)' => IsOpen(r)
      BY <1>5 DEF FinishDial, IsOpen
    <2> QED
      BY <1>5, <2>1, <2>2, QuietStep DEF FinishDial, NInv, OpenHasRemote
  <1>6. ASSUME NEW sig \in {"stable", "have-local-offer"}, NEW remote \in MaybeConn,
               pcs[x].remote # Nothing => remote # Nothing,
               pcs[x].sig = "stable",
               pcs' = [pcs EXCEPT ![x] = Offered(pcs[x], FullBackoff, sig, remote)],
               net' = net \cup {Offer(x)},
               \/ /\ entry' = [entry EXCEPT ![p].applied = a]
                  /\ recent' = [recent EXCEPT ![p].answer = a]
                  /\ pending' = [pending EXCEPT ![p] = NoAnswer]
               \/ UNCHANGED << entry, recent, pending >>
        PROVE  NInv'
    <2> DEFINE c == Offered(pcs[x], FullBackoff, sig, remote)
    <2>1. /\ FullBackoff \in 0 .. MaxRetries + 1
          /\ sig \in {"closed", "stable", "have-local-offer", "have-remote-offer"}
      BY DEF FullBackoff
    <2>2. c \in ConnRecord /\ c.sig = sig /\ c.remote = remote
      <3>1. pcs[x] \in ConnRecord
        BY <1>4
      <3> HIDE DEF x
      <3>2. c \in ConnRecord
        BY <2>1, <3>1, ConnSet
      <3>3. c.sig = sig /\ c.remote = remote
        BY <2>1, <3>1 DEF Offered, ConnRecord
      <3> QED
        BY <3>2, <3>3
    <2>3. pcs' = [pcs EXCEPT ![x] = c]
      BY <1>6
    <2> HIDE DEF c
    <2>4. c.sig # "closed" /\ (pcs[x].remote # Nothing => c.remote # Nothing)
      BY <1>6, <2>1, <2>2
    <2>5. /\ pcs' \in [Conn -> ConnRecord]
          /\ \A y \in Conn : pcs'[y] = IF y = x THEN c ELSE pcs[y]
      BY <1>3, <1>4, <2>2, <2>3
    <2>6. /\ entry' \in [Peer -> EntryRecord]
          /\ \A r \in Peer : entry'[r].conn = entry[r].conn /\ entry'[r].chan = entry[r].chan
      BY <1>1, <1>4, <1>6, AnswerApplied DEF Typed
    <2>7. MemoryTyped'
      <3>1. recent' \in [Peer -> [offer : MaybeConn, answer : MaybeConn]]
        <4>1. MemoryTyped /\ a \in MaybeConn
          BY <1>1, <1>4 DEF Typed
        <4>2. CASE UNCHANGED recent
          BY <4>1, <4>2 DEF MemoryTyped
        <4>3. CASE recent' = [recent EXCEPT ![p].answer = a]
          <5> HIDE DEF a
          <5> QED
            BY <4>1, <4>3, AnswerRemembered
        <4> QED
          BY <1>6, <4>2, <4>3
      <3>2. NoAnswer \in [answer : MaybeConn, for : MaybeConn]
        BY ConnParts DEF NoAnswer
      <3>3. pending' \in [Peer -> [answer : MaybeConn, for : MaybeConn]]
        BY <1>1, <1>6, <3>2 DEF Typed, MemoryTyped
      <3> QED
        BY <3>1, <3>3 DEF MemoryTyped
    <2>8. WiresTyped'
      BY <1>1, <1>3, <1>6, FramesMade DEF FinishDial, Typed, WiresTyped
    <2>9. Typed'
      BY <1>1, <1>3, <2>5, <2>6, <2>7, <2>8
         DEF FinishDial, Typed, ConnsTyped, EndsTyped, EntriesTyped, BurstsTyped
    <2>10. \A r \in Peer : IsOpen(r)' => IsOpen(r)
      BY <2>6 DEF FinishDial, IsOpen
    <2>11. /\ \A y \in Conn : pcs'[y].sig # "closed" => pcs[y].sig # "closed"
           /\ \A y \in Conn : pcs[y].remote # Nothing => pcs'[y].remote # Nothing
      BY <1>6, <2>4, <2>5
    <2> QED
      <3>1. UNCHANGED closing
        BY DEF FinishDial
      <3> QED
        BY <2>6, <2>9, <2>10, <2>11, <3>1, QuieterStep
  <1> QED
    <2>1. PICK known \in Known(p) :
            LET early == /\ a \notin {Nothing, known} /\ pending[p].for \in {Nothing, x}
                         /\ entry[p].conn = x /\ ~ Busy(p, q, x)
            IN  IF pcs[x].sig # "stable"
                  THEN UNCHANGED << pcs, entry, pending, recent, net >>
                  ELSE /\ pcs' = [pcs EXCEPT ![x].left = FullBackoff,
                                             ![x].sig = IF early THEN "stable" ELSE "have-local-offer",
                                             ![x].remote = IF early THEN a ELSE @]
                       /\ net' = net \cup {Offer(x)}
                       /\ IF early
                            THEN /\ entry' = [entry EXCEPT ![p].applied = a]
                                 /\ recent' = [recent EXCEPT ![p].answer = a]
                                 /\ pending' = [pending EXCEPT ![p] = NoAnswer]
                            ELSE UNCHANGED << entry, recent, pending >>
      BY DEF FinishDial
    <2> DEFINE early == /\ a \notin {Nothing, known} /\ pending[p].for \in {Nothing, x}
                        /\ entry[p].conn = x /\ ~ Busy(p, q, x)
    <2>2. CASE pcs[x].sig # "stable"
      BY <1>5, <2>1, <2>2
    <2>3. CASE pcs[x].sig = "stable" /\ early
      <3>1. pcs' = [pcs EXCEPT ![x] = Offered(pcs[x], FullBackoff, "stable", a)]
        BY <1>3, <1>4, <2>1, <2>3 DEF Offered
      <3> QED
        BY <1>4, <1>6, <2>1, <2>3, <3>1
    <2>4. CASE pcs[x].sig = "stable" /\ ~ early
      <3> DEFINE own == pcs[x].remote
      <3>1. pcs' = [pcs EXCEPT ![x] = Offered(pcs[x], FullBackoff, "have-local-offer", own)]
        BY <1>3, <1>4, <2>1, <2>4 DEF Offered
      <3>2. own \in MaybeConn
        BY <1>4 DEF ConnRecord
      <3> QED
        BY <1>6, <2>1, <2>4, <3>1, <3>2
    <2> QED
      BY <2>2, <2>3, <2>4

LEMMA Resends ==
    ASSUME Typed, NEW f \in Frame, Resend(f)
    PROVE  spent' \in Spending /\ net' \subseteq Frame
  BY Spends DEF Typed, WiresTyped, Resend

\* The retries that connection x has left are others.
LEMMA LeftChanges ==
    ASSUME NInv, NEW x \in Conn, NEW left \in 0 .. MaxRetries + 1,
           pcs' = [pcs EXCEPT ![x].left = left]
    PROVE  /\ ConnsTyped'
           /\ \A y \in Conn : pcs'[y].sig = pcs[y].sig /\ pcs'[y].remote = pcs[y].remote
  BY DEF NInv, Typed, ConnsTyped, ConnRecord

LEMMA RetryFiresKeeps ==
    ASSUME NInv, NEW x \in Conn, RetryFires(x)
    PROVE  NInv'
  <1>1. Typed
    BY DEF NInv
  <1> USE DEF RetryFires
  <1>2. CASE /\ pcs' = [pcs EXCEPT ![x].left = 0]
             /\ UNCHANGED << ends, entry, net, spent >>
    <2>1. /\ ConnsTyped'
          /\ \A y \in Conn : pcs'[y].sig = pcs[y].sig /\ pcs'[y].remote = pcs[y].remote
      <3>1. 0 \in 0 .. MaxRetries + 1
        OBVIOUS
      <3> QED
        BY <1>2, <3>1, LeftChanges
    <2>2. Typed'
      BY <1>1, <1>2, <2>1 DEF Typed, EndsTyped, EntriesTyped, MemoryTyped, BurstsTyped, OpsTyped,
                              WiresTyped
    <2>3. \A r \in Peer : IsOpen(r)' => IsOpen(r)
      BY <1>2 DEF IsOpen
    <2> QED
      BY <1>2, <2>1, <2>2, <2>3, QuieterStep
  <1>3. CASE /\ Unanswered(x)
             /\ pcs' = Shut(pcs, {x})
             /\ ends' = ShutEnds(ends, {x})
             /\ entry' = [entry EXCEPT ![Owner(x)].state = "dead"]
             /\ UNCHANGED << net, spent >>
    <2>1. /\ pcs' \in [Conn -> ConnRecord]
          /\ \A y \in Conn : pcs'[y] = IF y = x THEN NoConn ELSE pcs[y]
      BY <1>1, <1>3, ShutTyped DEF Typed, ConnsTyped
    <2>2. /\ ends' \in [Peer -> [Conn -> EndState]]
          /\ \A r \in Peer, c \in Conn : ends'[r][c] = "open" => ends[r][c] = "open"
      BY <1>1, <1>3, ShutEndsTyped DEF Typed, EndsTyped
    <2>3. /\ entry' \in [Peer -> EntryRecord]
          /\ \A r \in Peer : entry'[r].conn = entry[r].conn /\ entry'[r].chan = entry[r].chan
      BY <1>1, <1>3, ConnParts DEF Typed, EntriesTyped, EntryRecord
    <2>4. Typed'
      BY <1>1, <1>3, <2>1, <2>2, <2>3
         DEF Typed, ConnsTyped, EndsTyped, EntriesTyped, MemoryTyped, BurstsTyped, OpsTyped, WiresTyped
    <2>5. \A r \in Peer : IsOpen(r)' => IsOpen(r)
      BY <1>1, <2>2, <2>3 DEF IsOpen, Typed, EntriesTyped, EntryRecord, MaybeConn
    <2>6. NoConn.sig = "closed"
      BY DEF NoConn
    <2>7. pcs[x].remote = Nothing
      BY <1>3 DEF Unanswered
    <2> QED
      BY <2>1, <2>3, <2>4, <2>5, <2>6, <2>7, QuieterStep
  <1>4. CASE /\ pcs[x].left # 1 /\ pcs[x].left > 0
             /\ pcs' = [pcs EXCEPT ![x].left = @ - 1]
             /\ Resend(Offer(x))
             /\ UNCHANGED << ends, entry >>
    <2>1. pcs[x].left - 1 \in 0 .. MaxRetries + 1
      BY <1>1, <1>4 DEF Typed, ConnsTyped, ConnRecord
    <2>2. /\ ConnsTyped'
          /\ \A y \in Conn : pcs'[y].sig = pcs[y].sig /\ pcs'[y].remote = pcs[y].remote
      BY <1>4, <2>1, LeftChanges
    <2>3. spent' \in Spending /\ net' \subseteq Frame
      BY <1>1, <1>4, FramesMade, Resends
    <2>4. Typed'
      BY <1>1, <1>4, <2>2, <2>3 DEF Typed, EndsTyped, EntriesTyped, MemoryTyped, BurstsTyped,
                                    OpsTyped, WiresTyped
    <2>5. \A r \in Peer : IsOpen(r)' => IsOpen(r)
      BY <1>4 DEF IsOpen
    <2> QED
      BY <1>4, <2>2, <2>4, <2>5, QuieterStep
  <1> QED
    BY <1>2, <1>3, <1>4

LEMMA ResetBackoffKeeps ==
    ASSUME NInv, NEW x \in Conn, ResetBackoff(x)
    PROVE  NInv'
  <1>1. Typed
    BY DEF NInv
  <1> USE DEF ResetBackoff
  <1>2. FullBackoff \in 0 .. MaxRetries + 1
    BY DEF FullBackoff
  <1>3. /\ ConnsTyped'
        /\ \A y \in Conn : pcs'[y].sig = pcs[y].sig /\ pcs'[y].remote = pcs[y].remote
    BY <1>2, LeftChanges
  <1>4. spent' \in Spending /\ net' \subseteq Frame
    BY <1>1, FramesMade, Resends
  <1>5. Typed'
    BY <1>1, <1>3, <1>4 DEF Typed, EndsTyped, EntriesTyped, MemoryTyped, BurstsTyped, OpsTyped,
                            WiresTyped
  <1>6. \A r \in Peer : IsOpen(r)' => IsOpen(r)
    BY DEF IsOpen
  <1> QED
    BY <1>3, <1>5, <1>6, QuieterStep

\* The connection of an entry that has one.
LEMMA EntryConn ==
    ASSUME NInv, NEW p \in Peer
    PROVE  /\ entry[p].conn \in MaybeConn /\ entry[p].chan \in MaybeConn
           /\ entry[p].conn # Nothing => entry[p].conn \in Conn
           /\ IsOpen(p) => entry[p].conn \in Conn /\ pcs[entry[p].conn].remote \in Conn
  <1>1. entry[p].conn \in MaybeConn /\ entry[p].chan \in MaybeConn
    BY DEF NInv, Typed, EntriesTyped, EntryRecord
  <1>2. entry[p].conn # Nothing => entry[p].conn \in Conn
    BY <1>1 DEF MaybeConn
  <1>3. ASSUME IsOpen(p)
        PROVE  entry[p].conn \in Conn /\ pcs[entry[p].conn].remote \in Conn
    <2>1. entry[p].conn \in Conn /\ pcs[entry[p].conn].remote # Nothing
      BY <1>2, <1>3 DEF NInv, OpenHasRemote
    <2> QED
      BY <2>1 DEF NInv, Typed, ConnsTyped, ConnRecord, MaybeConn
  <1> QED
    BY <1>1, <1>2, <1>3

LEMMA BurstOver ==
    ASSUME BurstsTyped, NEW p \in Peer,
           burst' = [burst EXCEPT ![p] = NoBurst]
    PROVE  BurstsTyped'
  BY ConnParts DEF BurstsTyped, NoBurst

LEMMA NewBurst ==
    ASSUME BurstsTyped, NEW p \in Peer, NEW x \in Conn,
           burst' = [burst EXCEPT ![p] = [conn |-> x, left |-> MaxBurst]]
    PROVE  BurstsTyped'
  BY ConnParts DEF BurstsTyped

LEMMA NoPending ==
    ASSUME MemoryTyped, NEW p \in Peer, pending' = [pending EXCEPT ![p] = NoAnswer]
    PROVE  pending' \in [Peer -> [answer : MaybeConn, for : MaybeConn]]
  <1>1. NoAnswer \in [answer : MaybeConn, for : MaybeConn]
    BY ConnParts DEF NoAnswer
  <1> QED
    BY <1>1 DEF MemoryTyped

LEMMA AnsweredAgainKeeps ==
    ASSUME NInv, NEW p \in Peer, NEW q \in Queues, NEW o \in Conn, ops[p][q] # << >>,
           OfferOnOpenChannel(p, q, o) \/ RetriedOffer(p, q, o)
    PROVE  NInv'
  <1>1. Typed
    BY DEF NInv
  <1>2. /\ UNCHANGED << pcs, ends, entry, pending, recent, closing, spent >>
        /\ Done(p, q)
    BY DEF OfferOnOpenChannel, RetriedOffer
  <1>3. entry[p].conn \in Conn
    BY EntryConn DEF OfferOnOpenChannel, RetriedOffer, IsUsable
  <1>4. net' \subseteq Frame
    <2>1. net' = net \/ net' = net \cup {Answer(entry[p].conn)}
      BY DEF OfferOnOpenChannel, RetriedOffer
    <2> QED
      BY <1>1, <1>3, <2>1, FramesMade DEF Typed, WiresTyped
  <1>5. BurstsTyped'
    <2>1. \/ UNCHANGED burst
          \/ burst' = [burst EXCEPT ![p] = [conn |-> entry[p].conn, left |-> MaxBurst]]
      BY DEF OfferOnOpenChannel, RetriedOffer
    <2>2. CASE UNCHANGED burst
      BY <1>1, <2>2 DEF Typed, BurstsTyped
    <2>3. CASE burst' = [burst EXCEPT ![p] = [conn |-> entry[p].conn, left |-> MaxBurst]]
      BY <1>1, <1>3, <2>3, NewBurst DEF Typed
    <2> QED
      BY <2>1, <2>2, <2>3
  <1>6. OpsTyped'
    BY <1>1, <1>2, OpsStep DEF Typed
  <1>7. Typed'
    BY <1>1, <1>2, <1>4, <1>5, <1>6
       DEF Typed, ConnsTyped, EndsTyped, EntriesTyped, MemoryTyped, WiresTyped
  <1>8. \A r \in Peer : IsOpen(r)' => IsOpen(r)
    BY <1>2 DEF IsOpen
  <1> QED
    BY <1>2, <1>7, <1>8, QuieterStep

LEMMA OfferOnFreshConnKeeps ==
    ASSUME NInv, NEW p \in Peer, NEW q \in Queues, NEW o \in Conn, ops[p][q] # << >>,
           OfferOnFreshConn(p, q, o)
    PROVE  NInv'
  <1>1. Typed
    BY DEF NInv
  <1>2. PICK y \in Fresh(p) :
           /\ pcs' = [Shut(pcs, {entry[p].conn}) EXCEPT ![y] = NewConn]
           /\ ends' = Renamed(ShutEnds(ends, {entry[p].conn} \ {Nothing}), y)
           /\ entry' = [entry EXCEPT ![p] = EntryOf(y)]
           /\ recent' = Forgotten(y)
           /\ Done(p, q) \/ Goes(p, q, "remote", y)
    BY DEF OfferOnFreshConn
  <1>3. y \in Conn
    BY DEF Fresh
  <1>4. /\ pcs' \in [Conn -> ConnRecord]
        /\ recent' \in [Peer -> [offer : MaybeConn, answer : MaybeConn]]
        /\ ends' \in [Peer -> [Conn -> EndState]]
        /\ \A r \in Peer, c \in Conn : ends'[r][c] = "open" => c # y /\ ends[r][c] = "open"
    BY <1>1, <1>2, FreshTyped
  <1>5. BurstsTyped'
    BY <1>1, BurstOver DEF OfferOnFreshConn, Typed
  <1>6. pending' \in [Peer -> [answer : MaybeConn, for : MaybeConn]]
    <2>1. UNCHANGED pending \/ pending' = [pending EXCEPT ![p] = NoAnswer]
      BY DEF OfferOnFreshConn
    <2> QED
      BY <1>1, <2>1, NoPending DEF Typed, MemoryTyped
  <1>7. OpsTyped'
    BY <1>1, <1>2, <1>3, OpsStep DEF Typed
  <1>8. EntryOf(y) \in EntryRecord /\ EntryOf(y).conn = y /\ EntryOf(y).chan = Nothing
    BY <1>3, NewRecords DEF EntryOf
  <1>9. /\ entry' \in [Peer -> EntryRecord]
        /\ entry'[p].conn = y /\ entry'[p].chan = Nothing
        /\ \A r \in Peer \ {p} : entry'[r] = entry[r]
    BY <1>1, <1>2, <1>8 DEF Typed, EntriesTyped
  <1>10. UNCHANGED << closing, net, spent >>
    BY DEF OfferOnFreshConn
  <1>11. Typed'
    BY <1>1, <1>4, <1>5, <1>6, <1>7, <1>9, <1>10
       DEF Typed, ConnsTyped, EndsTyped, EntriesTyped, MemoryTyped, WiresTyped
  <1> QED
    <2>1. pcs' = [Shut(pcs, {entry[p].conn}) EXCEPT ![y] = NewConn] /\ UNCHANGED closing
      BY <1>2, <1>10
    <2>2. entry'[p].chan \in {y, Nothing} /\ ends'[p][y] # "open"
      BY <1>3, <1>4, <1>9
    <2>3. \A r \in Peer \ {p}, c \in Conn : ends'[r][c] = "open" => ends[r][c] = "open"
      BY <1>4
    <2> QED
      BY <1>9, <1>11, <2>1, <2>2, <2>3, FreshConnKeeps

LEMMA OfferOnConnKeeps ==
    ASSUME NInv, NEW p \in Peer, NEW q \in Queues, NEW o \in Conn, ops[p][q] # << >>,
           OfferOnConn(p, q, o)
    PROVE  NInv'
  <1>1. Typed
    BY DEF NInv
  <1> DEFINE x == entry[p].conn
  <1>2. x \in Conn
    BY EntryConn DEF OfferOnConn, IsUsable
  <1>3. /\ UNCHANGED << ends, entry, recent, burst, closing, net, spent >>
        /\ UNCHANGED pcs \/ pcs' = [pcs EXCEPT ![x].left = 0]
        /\ UNCHANGED pending \/ pending' = [pending EXCEPT ![p] = NoAnswer]
        /\ Done(p, q) \/ Goes(p, q, "remote", x) \/ Goes(p, q, "yielding", x)
    BY DEF OfferOnConn
  <1> HIDE DEF x
  <1>4. OpsTyped'
    BY <1>1, <1>2, <1>3, OpsStep DEF Typed
  <1>5. pending' \in [Peer -> [answer : MaybeConn, for : MaybeConn]]
    BY <1>1, <1>3, NoPending DEF Typed, MemoryTyped
  <1>6. /\ ConnsTyped'
        /\ \A y \in Conn : pcs'[y].sig = pcs[y].sig /\ pcs'[y].remote = pcs[y].remote
    <2>1. CASE UNCHANGED pcs
      BY <1>1, <2>1 DEF Typed, ConnsTyped
    <2>2. CASE pcs' = [pcs EXCEPT ![x].left = 0]
      <3>1. 0 \in 0 .. MaxRetries + 1
        OBVIOUS
      <3> QED
        BY <1>2, <2>2, <3>1, LeftChanges
    <2> QED
      BY <1>3, <2>1, <2>2
  <1>7. Typed'
    BY <1>1, <1>3, <1>4, <1>5, <1>6
       DEF Typed, EndsTyped, EntriesTyped, MemoryTyped, BurstsTyped, WiresTyped
  <1>8. \A r \in Peer : IsOpen(r)' => IsOpen(r)
    BY <1>3 DEF IsOpen
  <1> QED
    BY <1>3, <1>6, <1>7, <1>8, QuieterStep

LEMMA StartOfferKeeps ==
    ASSUME NInv, NEW p \in Peer, NEW q \in Queues, StartOffer(p, q)
    PROVE  NInv'
  <1>1. ops[p][q] # << >> /\ Next1(p, q).kind = "offer"
    BY DEF StartOffer, IsAt
  <1>2. Next1(p, q).arg \in Conn
    BY <1>1, OpsStep DEF NInv, Typed, LegalOp
  <1> QED
    BY <1>1, <1>2, AnsweredAgainKeeps, OfferOnFreshConnKeeps, OfferOnConnKeeps DEF StartOffer

\* An entry with another channel and another offer.
EntryWith(e, chan, offered) == [e EXCEPT !.chan = chan, !.offered = offered]

LEMMA EntrySet ==
    ASSUME NEW e \in EntryRecord, NEW chan \in MaybeConn, NEW offered \in MaybeConn
    PROVE  EntryWith(e, chan, offered) \in EntryRecord
  <1>1. PICK e1 \in EntryRecord : e1 = [e EXCEPT !.chan = chan]
    BY DEF EntryRecord
  <1>2. [e1 EXCEPT !.offered = offered] \in EntryRecord
    BY DEF EntryRecord
  <1> QED
    BY <1>1, <1>2 DEF EntryWith

\* The descriptions of connection x are others.
LEMMA DescriptionChanges ==
    ASSUME NInv, NEW x \in Conn, NEW remote \in MaybeConn,
           NEW sig \in {"stable", "have-local-offer", "have-remote-offer"},
           pcs[x].sig # "closed", pcs[x].remote # Nothing => remote # Nothing,
           \/ pcs' = [pcs EXCEPT ![x].sig = sig, ![x].remote = remote]
           \/ pcs' = [pcs EXCEPT ![x].sig = sig, ![x].remote = remote, ![x].left = 0]
    PROVE  /\ ConnsTyped'
           /\ \A y \in Conn : pcs'[y].sig # "closed" => pcs[y].sig # "closed"
           /\ \A y \in Conn : pcs[y].remote # Nothing => pcs'[y].remote # Nothing
  <1>1. pcs \in [Conn -> ConnRecord] /\ pcs[x] \in ConnRecord
    BY DEF NInv, Typed, ConnsTyped
  <1>2. PICK c : /\ c \in ConnRecord /\ c.sig # "closed" /\ c.remote = remote
                 /\ pcs' = [pcs EXCEPT ![x] = c]
    <2>1. CASE pcs' = [pcs EXCEPT ![x].sig = sig, ![x].remote = remote]
      <3> DEFINE c == Described(pcs[x], sig, remote)
      <3>1. c \in ConnRecord
        BY <1>1, ConnSet
      <3>2. c.sig = sig /\ c.remote = remote
        BY <1>1 DEF Described, ConnRecord
      <3>3. pcs' = [pcs EXCEPT ![x] = c]
        BY <1>1, <2>1 DEF Described
      <3> HIDE DEF c
      <3> QED
        BY <3>1, <3>2, <3>3
    <2>2. CASE pcs' = [pcs EXCEPT ![x].sig = sig, ![x].remote = remote, ![x].left = 0]
      <3> DEFINE b == Described(pcs[x], sig, remote)
                 c == [b EXCEPT !.left = 0]
      <3>1. b \in ConnRecord
        BY <1>1, ConnSet
      <3>2. b.sig = sig /\ b.remote = remote
        BY <1>1 DEF Described, ConnRecord
      <3>3. pcs' = [pcs EXCEPT ![x] = c]
        BY <1>1, <2>2 DEF Described
      <3> HIDE DEF b
      <3>4. c \in ConnRecord /\ c.sig = sig /\ c.remote = remote
        BY <3>1, <3>2 DEF ConnRecord
      <3> HIDE DEF c
      <3> QED
        BY <3>3, <3>4
    <2> QED
      BY <2>1, <2>2
  <1>3. /\ pcs' \in [Conn -> ConnRecord]
        /\ \A y \in Conn : pcs'[y] = IF y = x THEN c ELSE pcs[y]
    BY <1>1, <1>2
  <1> QED
    BY <1>2, <1>3 DEF ConnsTyped

LEMMA SetRemoteOfferKeeps ==
    ASSUME NInv, NEW p \in Peer, NEW q \in Queues, SetRemoteOffer(p, q)
    PROVE  NInv'
  <1>1. Typed
    BY DEF NInv
  <1> DEFINE x == Next1(p, q).on
             o == Next1(p, q).arg
  <1>2. ops[p][q] # << >> /\ Next1(p, q).kind = "offer" /\ Next1(p, q).at # "start"
    BY DEF SetRemoteOffer, IsAt
  <1>3. x \in Conn /\ o \in Conn
    BY <1>1, <1>2, OpsStep DEF Typed, LegalOp
  <1>4. UNCHANGED << pending, recent, burst, closing, net, spent >>
    BY DEF SetRemoteOffer
  <1>5. CASE Done(p, q) /\ UNCHANGED << pcs, ends, entry >>
    <2>1. OpsTyped'
      BY <1>1, <1>2, <1>5, OpsStep DEF Typed
    <2>2. Typed'
      BY <1>1, <1>4, <1>5, <2>1 DEF Typed, ConnsTyped, EndsTyped, EntriesTyped, MemoryTyped,
                                    BurstsTyped, WiresTyped
    <2>3. \A r \in Peer : IsOpen(r)' => IsOpen(r)
      BY <1>5 DEF IsOpen
    <2> QED
      BY <1>4, <1>5, <2>2, <2>3, QuieterStep
  <1>6. ASSUME NEW chan \in {entry[p].chan, Nothing}, NEW offered \in MaybeConn,
               pcs[x].sig # "closed",
               pcs' = [pcs EXCEPT ![x].sig = "have-remote-offer", ![x].remote = o],
               entry' = [entry EXCEPT ![p] = EntryWith(entry[p], chan, offered)],
               \/ ends' = ends
               \/ entry[p].chan # Nothing /\ ends' = [ends EXCEPT ![p][entry[p].chan] = "none"],
               Goes(p, q, "made", x)
        PROVE  NInv'
    <2> HIDE DEF x, o
    <2>1. OpsTyped'
      BY <1>1, <1>2, <1>3, <1>6, OpsStep DEF Typed
    <2>2. o \in MaybeConn /\ o # Nothing
      BY <1>3, AConn, Zenon
    <2>3. /\ ConnsTyped'
          /\ \A y \in Conn : pcs'[y].sig # "closed" => pcs[y].sig # "closed"
          /\ \A y \in Conn : pcs[y].remote # Nothing => pcs'[y].remote # Nothing
      BY <1>3, <1>6, <2>2, DescriptionChanges
    <2>4. entry[p] \in EntryRecord /\ chan \in MaybeConn
      BY <1>1, EntryConn, ConnParts DEF Typed, EntriesTyped
    <2> DEFINE e == EntryWith(entry[p], chan, offered)
    <2>5. e \in EntryRecord
      BY <2>4, EntrySet
    <2>6. e.conn = entry[p].conn /\ e.chan = chan
      BY <2>4 DEF EntryWith, EntryRecord
    <2>7. entry' = [entry EXCEPT ![p] = e]
      BY <1>6
    <2> HIDE DEF e
    <2>8. /\ EntriesTyped' /\ entry'[p].chan = chan
          /\ \A r \in Peer : entry'[r].conn = entry[r].conn
          /\ \A r \in Peer \ {p} : entry'[r].chan = entry[r].chan
      BY <1>1, <2>5, <2>6, <2>7 DEF Typed, EntriesTyped
    <2>9. /\ EndsTyped'
          /\ \A r \in Peer, c \in Conn : ends'[r][c] = "open" => ends[r][c] = "open"
      <3>1. CASE ends' = ends
        BY <1>1, <3>1 DEF Typed, EndsTyped
      <3>2. CASE entry[p].chan # Nothing /\ ends' = [ends EXCEPT ![p][entry[p].chan] = "none"]
        <4>1. entry[p].chan \in Conn
          BY <3>2, EntryConn DEF MaybeConn
        <4> QED
          BY <1>1, <3>2, <4>1 DEF Typed, EndsTyped, EndState
      <3> QED
        BY <1>6, <3>1, <3>2
    <2>10. Typed'
      BY <1>1, <1>4, <2>1, <2>3, <2>8, <2>9 DEF Typed, MemoryTyped, BurstsTyped, WiresTyped
    <2>11. ASSUME NEW r \in Peer, IsOpen(r)'
           PROVE  IsOpen(r)
      <3>1. entry'[r].chan = entry[r].chan /\ entry[r].chan \in Conn
        BY <1>6, <2>8, <2>11, EntryConn DEF IsOpen, MaybeConn
      <3> QED
        BY <2>9, <2>11, <3>1 DEF IsOpen
    <2> QED
      BY <1>4, <2>3, <2>8, <2>10, <2>11, QuieterStep
  <1>7. CASE ~ (Done(p, q) /\ UNCHANGED << pcs, ends, entry >>)
    <2>1. PICK withdrawn \in BOOLEAN :
            /\ pcs[x].sig # "closed"
            /\ pcs' = [pcs EXCEPT ![x].sig = "have-remote-offer", ![x].remote = o]
            /\ withdrawn => entry[p].chan # Nothing
            /\ ends' = IF withdrawn THEN [ends EXCEPT ![p][entry[p].chan] = "none"] ELSE ends
            /\ entry' = [entry EXCEPT ![p].chan = IF withdrawn THEN Nothing ELSE @,
                                      ![p].offered = IF entry[p].conn = x THEN o ELSE @]
            /\ Goes(p, q, "made", x)
      BY <1>7 DEF SetRemoteOffer, Withdraws
    <2> DEFINE offered == IF entry[p].conn = x THEN o ELSE entry[p].offered
    <2>2. entry \in [Peer -> EntryRecord] /\ offered \in MaybeConn
      BY <1>1, <1>3, ConnParts DEF Typed, EntriesTyped, EntryRecord
    <2>3. CASE withdrawn
      <3>1. entry' = [entry EXCEPT ![p] = EntryWith(entry[p], Nothing, offered)]
        BY <2>1, <2>2, <2>3 DEF EntryWith
      <3> QED
        BY <1>6, <2>1, <2>2, <2>3, <3>1
    <2>4. CASE ~ withdrawn
      <3>1. entry' = [entry EXCEPT ![p] = EntryWith(entry[p], entry[p].chan, offered)]
        BY <2>1, <2>2, <2>4 DEF EntryWith
      <3> QED
        BY <1>6, <2>1, <2>2, <2>4, <3>1
    <2> QED
      BY <2>3, <2>4
  <1> QED
    BY <1>5, <1>7

LEMMA MakeAnswerKeeps ==
    ASSUME NInv, NEW p \in Peer, NEW q \in Queues, MakeAnswer(p, q)
    PROVE  NInv'
  <1>1. Typed
    BY DEF NInv
  <1> DEFINE x == Next1(p, q).on
             o == Next1(p, q).arg
  <1>2. /\ ops[p][q] # << >> /\ Next1(p, q).kind = "offer" /\ Next1(p, q).at # "start"
        /\ Done(p, q)
    BY DEF MakeAnswer, IsAt
  <1>3. x \in Conn /\ o \in Conn
    BY <1>1, <1>2, OpsStep DEF Typed, LegalOp
  <1>4. UNCHANGED << ends, pending, closing, spent >> /\ OpsTyped'
    BY <1>1, <1>2, OpsStep DEF MakeAnswer, Typed
  <1>5. CASE UNCHANGED << pcs, entry, recent, burst, net >>
    <2>1. Typed'
      BY <1>1, <1>4, <1>5 DEF Typed, ConnsTyped, EndsTyped, EntriesTyped, MemoryTyped,
                              BurstsTyped, WiresTyped
    <2>2. \A r \in Peer : IsOpen(r)' => IsOpen(r)
      BY <1>4, <1>5 DEF IsOpen
    <2> QED
      BY <1>4, <1>5, <2>1, <2>2, QuieterStep
  <1>6. CASE /\ pcs[x].sig = "have-remote-offer"
             /\ pcs' = [pcs EXCEPT ![x].sig = "stable"]
             /\ entry' = [entry EXCEPT ![p].answered = @ \/ entry[p].conn = x]
             /\ recent' = [recent EXCEPT ![p].offer = o]
             /\ \/ net' = net \cup {Answer(x)}
                   /\ burst' = [burst EXCEPT ![p] = [conn |-> x, left |-> MaxBurst]]
                \/ UNCHANGED << net, burst >>
    <2> HIDE DEF x, o
    <2>1. /\ pcs' \in [Conn -> ConnRecord]
          /\ \A y \in Conn : pcs'[y].sig # "closed" => pcs[y].sig # "closed"
          /\ \A y \in Conn : pcs'[y].remote = pcs[y].remote
      BY <1>1, <1>3, <1>6 DEF Typed, ConnsTyped, ConnRecord
    <2>2. PICK answered \in BOOLEAN : entry' = [entry EXCEPT ![p].answered = answered]
      <3>1. entry' = [entry EXCEPT ![p].answered = entry[p].answered \/ entry[p].conn = x]
        BY <1>1, <1>6 DEF Typed, EntriesTyped
      <3>2. (entry[p].answered \/ entry[p].conn = x) \in BOOLEAN
        OBVIOUS
      <3> QED
        BY <3>1, <3>2, Zenon
    <2>3. /\ entry' \in [Peer -> EntryRecord]
          /\ \A r \in Peer : entry'[r].conn = entry[r].conn /\ entry'[r].chan = entry[r].chan
      BY <1>1, <2>2 DEF Typed, EntriesTyped, EntryRecord
    <2>4. recent' \in [Peer -> [offer : MaybeConn, answer : MaybeConn]]
      BY <1>1, <1>3, <1>6, ConnParts DEF Typed, MemoryTyped
    <2>5. net' \subseteq Frame /\ BurstsTyped'
      <3>1. CASE /\ net' = net \cup {Answer(x)}
                 /\ burst' = [burst EXCEPT ![p] = [conn |-> x, left |-> MaxBurst]]
        BY <1>1, <1>3, <3>1, FramesMade, NewBurst DEF Typed, WiresTyped
      <3>2. CASE UNCHANGED << net, burst >>
        BY <1>1, <3>2 DEF Typed, WiresTyped, BurstsTyped
      <3> QED
        BY <1>6, <3>1, <3>2
    <2>6. Typed'
      BY <1>1, <1>4, <2>1, <2>3, <2>4, <2>5
         DEF Typed, ConnsTyped, EndsTyped, EntriesTyped, MemoryTyped, WiresTyped
    <2>7. \A r \in Peer : IsOpen(r)' => IsOpen(r)
      BY <1>4, <2>3 DEF IsOpen
    <2> QED
      BY <1>4, <2>1, <2>3, <2>6, <2>7, QuieterStep
  <1> QED
    <2>1. CASE pcs[x].sig # "have-remote-offer"
      BY <1>5, <2>1 DEF MakeAnswer
    <2>2. CASE pcs[x].sig = "have-remote-offer"
      BY <1>6, <2>2, Zenon DEF MakeAnswer
    <2> QED
      BY <2>1, <2>2

LEMMA BurstFiresKeeps ==
    ASSUME NInv, NEW p \in Peer, BurstFires(p)
    PROVE  NInv'
  <1>1. Typed
    BY DEF NInv
  <1> DEFINE x == burst[p].conn
  <1>2. x \in Conn
    BY <1>1 DEF BurstFires, Typed, BurstsTyped
  <1>3. UNCHANGED << pcs, ends, entry, pending, recent, ops, closing >>
    BY DEF BurstFires
  <1>4. BurstsTyped'
    <2> DEFINE fewer == [conn |-> x, left |-> burst[p].left - 1]
    <2>0. burst' = [burst EXCEPT ![p] = IF burst[p].left = 1 THEN NoBurst ELSE fewer]
      BY DEF BurstFires
    <2>1. CASE burst[p].left = 1
      <3>1. burst' = [burst EXCEPT ![p] = NoBurst]
        BY <2>0, <2>1
      <3> QED
        BY <1>1, <3>1, BurstOver DEF Typed
    <2>2. CASE burst[p].left # 1
      <3>1. burst' = [burst EXCEPT ![p] = fewer]
        BY <2>0, <2>2
      <3>2. burst[p].left \in 0 .. MaxBurst /\ burst[p].left > 0
        BY <1>1 DEF BurstFires, Typed, BurstsTyped
      <3> QED
        BY <1>1, <1>2, <3>1, <3>2 DEF Typed, BurstsTyped
    <2> QED
      BY <2>1, <2>2
  <1>5. spent' \in Spending /\ net' \subseteq Frame
    <2>1. Resend(Answer(x)) \/ UNCHANGED << net, spent >>
      BY DEF BurstFires
    <2> QED
      BY <1>1, <1>2, <2>1, FramesMade, Resends DEF Typed, WiresTyped
  <1>6. Typed'
    BY <1>1, <1>3, <1>4, <1>5
       DEF Typed, ConnsTyped, EndsTyped, EntriesTyped, MemoryTyped, OpsTyped, WiresTyped
  <1>7. \A r \in Peer : IsOpen(r)' => IsOpen(r)
    BY <1>3 DEF IsOpen
  <1> QED
    BY <1>3, <1>6, <1>7, QuieterStep

LEMMA ApplyAnswerKeeps ==
    ASSUME NInv, NEW p \in Peer, NEW q \in Queues, ApplyAnswer(p, q)
    PROVE  NInv'
  <1>1. Typed
    BY DEF NInv
  <1> DEFINE x == entry[p].conn
             a == Next1(p, q).arg
  <1>2. ops[p][q] # << >> /\ Next1(p, q).kind = "answer" /\ Done(p, q)
    BY DEF ApplyAnswer, IsAt
  <1>3. a \in Conn /\ OpsTyped'
    BY <1>1, <1>2, OpsStep DEF Typed, LegalOp
  <1>4. UNCHANGED << ends, burst, closing, net, spent >>
    BY DEF ApplyAnswer
  <1>5. CASE /\ UNCHANGED << pcs, entry, recent >>
             /\ \/ UNCHANGED pending
                \/ pending' = [pending EXCEPT ![p] = [answer |-> a, for |-> x]]
                \/ pending' = [pending EXCEPT ![p] = [answer |-> a, for |-> Nothing]]
    <2> HIDE DEF a
    <2>1. pending' \in [Peer -> [answer : MaybeConn, for : MaybeConn]]
      <3>1. \A y \in MaybeConn : [answer |-> a, for |-> y] \in [answer : MaybeConn, for : MaybeConn]
        BY <1>3, ConnParts
      <3>2. x \in MaybeConn /\ Nothing \in MaybeConn
        BY EntryConn, ConnParts
      <3> HIDE DEF x
      <3> QED
        BY <1>1, <1>5, <3>1, <3>2 DEF Typed, MemoryTyped
    <2>2. Typed'
      BY <1>1, <1>3, <1>4, <1>5, <2>1
         DEF Typed, ConnsTyped, EndsTyped, EntriesTyped, MemoryTyped, BurstsTyped, WiresTyped
    <2>3. \A r \in Peer : IsOpen(r)' => IsOpen(r)
      BY <1>4, <1>5 DEF IsOpen
    <2> QED
      BY <1>4, <1>5, <2>2, <2>3, QuieterStep
  <1>6. CASE /\ x # Nothing /\ pcs[x].sig = "have-local-offer"
             /\ pcs' = [pcs EXCEPT ![x].sig = "stable", ![x].remote = a, ![x].left = 0]
             /\ entry' = [entry EXCEPT ![p].applied = a]
             /\ recent' = [recent EXCEPT ![p].answer = a]
             /\ pending' = [pending EXCEPT ![p] = NoAnswer]
    <2>1. x \in Conn /\ a \in MaybeConn /\ a # Nothing
      BY <1>3, <1>6, EntryConn, ConnParts
    <2>2. /\ entry' \in [Peer -> EntryRecord]
          /\ \A r \in Peer : entry'[r].conn = entry[r].conn /\ entry'[r].chan = entry[r].chan
      <3> HIDE DEF x, a
      <3> QED
        BY <1>1, <1>6, <2>1, AnswerApplied DEF Typed
    <2> HIDE DEF x, a
    <2>3. /\ ConnsTyped'
          /\ \A y \in Conn : pcs'[y].sig # "closed" => pcs[y].sig # "closed"
          /\ \A y \in Conn : pcs[y].remote # Nothing => pcs'[y].remote # Nothing
      BY <1>6, <2>1, DescriptionChanges
    <2>4. MemoryTyped'
      <3>1. recent' \in [Peer -> [offer : MaybeConn, answer : MaybeConn]]
        BY <1>1, <1>6, <2>1, AnswerRemembered DEF Typed
      <3> QED
        BY <1>1, <1>6, <3>1, NoPending DEF Typed, MemoryTyped
    <2>5. Typed'
      BY <1>1, <1>3, <1>4, <2>2, <2>3, <2>4
         DEF Typed, EndsTyped, EntriesTyped, BurstsTyped, WiresTyped
    <2>6. \A r \in Peer : IsOpen(r)' => IsOpen(r)
      BY <1>4, <2>2 DEF IsOpen
    <2> QED
      BY <1>4, <2>2, <2>3, <2>5, <2>6, QuieterStep
  <1> QED
    BY <1>5, <1>6 DEF ApplyAnswer

LEMMA ForgetEdgeKeeps ==
    ASSUME NInv, NEW p \in Peer, NEW flush \in BOOLEAN, ForgetEdge(p, flush),
           entry[p].conn # Nothing,
           net' \subseteq Frame, spent' \in Spending, UNCHANGED recent
    PROVE  NInv'
  <1>1. Typed
    BY DEF NInv
  <1> DEFINE x == entry[p].conn
  <1>2. x \in Conn /\ Owner(x) = p
    BY EntryConn DEF NInv, EntriesOwn
  <1>3. /\ entry' = [entry EXCEPT ![p] = NoEntry]
        /\ pending' = [pending EXCEPT ![p] = NoAnswer]
        /\ burst' = [burst EXCEPT ![p] = NoBurst]
        /\ ops' = [ops EXCEPT ![p] = Detached(ops[p])]
    BY DEF ForgetEdge
  <1>4. OpsTyped'
    <2>1. ops[p] \in [Queues -> Seq(LegalOp)]
      BY <1>1 DEF Typed, OpsTyped
    <2>2. "queue" \in Queues /\ "detached" \in Queues
      BY DEF Queues
    <2>3. /\ << >> \in Seq(LegalOp)
          /\ ops[p]["detached"] \in Seq(LegalOp) /\ ops[p]["queue"] \in Seq(LegalOp)
      BY <2>1, <2>2
    <2>4. ops[p]["detached"] \o ops[p]["queue"] \in Seq(LegalOp)
      BY <2>3, ConcatProperties
    <2>5. Detached(ops[p]) \in [Queues -> Seq(LegalOp)]
      BY <2>3, <2>4 DEF Detached
    <2> QED
      BY <1>1, <1>3, <2>5 DEF Typed, OpsTyped
  <1>5. /\ entry' \in [Peer -> EntryRecord]
        /\ entry'[p] = NoEntry
        /\ \A r \in Peer \ {p} : entry'[r] = entry[r]
    BY <1>1, <1>3, NewRecords DEF Typed, EntriesTyped
  <1>6. MemoryTyped' /\ BurstsTyped'
    BY <1>1, <1>3, NoPending, BurstOver DEF Typed, MemoryTyped
  <1>7. /\ ConnsTyped' /\ EndsTyped' /\ closing' \subseteq Conn
        /\ \A r \in Peer, c \in Conn : ends'[r][c] = "open" => ends[r][c] = "open"
        /\ \A y \in Conn \ {x} : pcs'[y] = pcs[y]
        /\ closing \subseteq closing' /\ closing' \subseteq closing \cup {x}
        /\ x \in closing' \/ pcs'[x].sig = "closed"
    <2>1. CASE /\ closing' = closing \cup {x}
               /\ pcs' = [pcs EXCEPT ![x].left = 0]
               /\ UNCHANGED ends
      <3>1. 0 \in 0 .. MaxRetries + 1
        OBVIOUS
      <3>2. ConnsTyped'
        BY <1>2, <2>1, <3>1, LeftChanges
      <3> QED
        BY <1>1, <1>2, <2>1, <3>2 DEF Typed, WiresTyped, EndsTyped, ConnsTyped
    <2>2. CASE /\ pcs' = Shut(pcs, {x})
               /\ ends' = ShutEnds(ends, {x})
               /\ UNCHANGED closing
      <3>1. /\ pcs' \in [Conn -> ConnRecord]
            /\ \A y \in Conn : pcs'[y] = IF y = x THEN NoConn ELSE pcs[y]
        BY <1>1, <2>2, ShutTyped DEF Typed, ConnsTyped
      <3>2. /\ ends' \in [Peer -> [Conn -> EndState]]
            /\ \A r \in Peer, c \in Conn : ends'[r][c] = "open" => ends[r][c] = "open"
        BY <1>1, <2>2, ShutEndsTyped DEF Typed, EndsTyped
      <3>3. NoConn.sig = "closed"
        BY DEF NoConn
      <3>4. pcs'[x].sig = "closed"
        BY <1>2, <3>1, <3>3
      <3> QED
        BY <1>1, <2>2, <3>1, <3>2, <3>4 DEF Typed, WiresTyped, EndsTyped, ConnsTyped
    <2> QED
      BY <2>1, <2>2 DEF ForgetEdge
  <1>8. NoEntry.conn = Nothing /\ NoEntry.chan = Nothing
    BY DEF NoEntry, EntryOf
  <1>9. Typed'
    BY <1>4, <1>5, <1>6, <1>7 DEF Typed, EntriesTyped, WiresTyped
  <1>10. EntriesOwn'
    BY <1>2, <1>5, <1>7, <1>8 DEF NInv, EntriesOwn
  <1>11. OpenHasRemote'
    <2> SUFFICES ASSUME NEW r \in Peer, IsOpen(r)'
                 PROVE  /\ entry'[r].conn # Nothing
                        /\ pcs'[entry'[r].conn].remote # Nothing
      BY DEF OpenHasRemote
    <2>1. r # p
      BY <1>5, <1>8 DEF IsOpen
    <2>2. entry'[r] = entry[r]
      BY <1>5, <2>1
    <2>3. entry[r].chan \in Conn
      BY <2>2, EntryConn DEF IsOpen, MaybeConn
    <2>4. IsOpen(r)
      BY <1>7, <2>2, <2>3 DEF IsOpen
    <2>5. entry[r].conn # Nothing /\ pcs[entry[r].conn].remote # Nothing
      BY <2>4 DEF NInv, OpenHasRemote
    <2>6. entry[r].conn \in Conn \ {x}
      BY <1>2, <2>1, <2>5, EntryConn DEF NInv, EntriesOwn
    <2> QED
      BY <1>7, <2>2, <2>5, <2>6
  <1>12. NoLeakedConn'
    <2> SUFFICES ASSUME NEW y \in Conn, pcs'[y].sig # "closed"
                 PROVE  y \in closing' \/ entry'[Owner(y)].conn = y
      BY DEF NoLeakedConn
    <2>1. CASE y = x
      BY <1>7, <2>1
    <2>2. CASE y # x
      <3>1. y \in closing \/ entry[Owner(y)].conn = y
        BY <1>7, <2>2 DEF NInv, NoLeakedConn
      <3>2. entry[Owner(y)].conn = y => Owner(y) \in Peer \ {p}
        BY <2>2, ConnParts
      <3> QED
        BY <1>5, <1>7, <3>1, <3>2
    <2> QED
      BY <2>1, <2>2
  <1> QED
    BY <1>9, <1>10, <1>11, <1>12 DEF NInv

LEMMA HangUpKeeps ==
    ASSUME NInv, NEW p \in Peer, HangUp(p)
    PROVE  NInv'
  <1>1. Typed
    BY DEF NInv
  <1>2. spent' \in Spending
    BY <1>1, Spends DEF HangUp, Typed
  <1>3. net' \subseteq Frame
    <2>1. Other(p) \in Peer
      BY ConnParts
    <2>2. [type |-> "bye", to |-> Other(p)] \in Frame
      BY <2>1 DEF Frame
    <2>3. CASE IsOpen(p)
      <3>1. pcs[entry[p].conn].remote \in Conn
        BY <2>3, EntryConn
      <3>2. [type |-> "channel-bye", to |-> Other(p), conn |-> pcs[entry[p].conn].remote] \in Frame
        BY <2>1, <3>1 DEF Frame
      <3> QED
        BY <1>1, <2>2, <2>3, <3>2 DEF HangUp, Typed, WiresTyped
    <2>4. CASE ~ IsOpen(p)
      BY <1>1, <2>2, <2>4 DEF HangUp, Typed, WiresTyped
    <2> QED
      BY <2>3, <2>4
  <1>4. PICK flush \in BOOLEAN : ForgetEdge(p, flush)
    <2>1. ForgetEdge(p, IsOpen(p))
      BY DEF HangUp
    <2>2. IsOpen(p) \in BOOLEAN
      BY DEF IsOpen
    <2> QED
      BY <2>1, <2>2, Zenon
  <1> QED
    BY <1>2, <1>3, <1>4, ForgetEdgeKeeps DEF HangUp

LEMMA FlushOverKeeps ==
    ASSUME NInv, NEW x \in Conn, FlushOver(x)
    PROVE  NInv'
  <1>1. Typed
    BY DEF NInv
  <1> USE DEF FlushOver
  <1>2. /\ pcs' \in [Conn -> ConnRecord]
        /\ \A y \in Conn : pcs'[y] = IF y = x THEN NoConn ELSE pcs[y]
    BY <1>1, ShutTyped DEF Typed, ConnsTyped
  <1>3. /\ ends' \in [Peer -> [Conn -> EndState]]
        /\ \A r \in Peer, c \in Conn : ends'[r][c] = "open" => ends[r][c] = "open"
    BY <1>1, ShutEndsTyped DEF Typed, EndsTyped
  <1>4. Typed'
    BY <1>1, <1>2, <1>3 DEF Typed, ConnsTyped, EndsTyped, EntriesTyped, MemoryTyped, BurstsTyped,
                            OpsTyped, WiresTyped
  <1>5. EntriesOwn'
    BY DEF NInv, EntriesOwn
  <1>6. OpenHasRemote'
    <2> SUFFICES ASSUME NEW r \in Peer, IsOpen(r)'
                 PROVE  /\ entry[r].conn # Nothing
                        /\ pcs'[entry[r].conn].remote # Nothing
      BY DEF OpenHasRemote
    <2>1. entry[r].chan \in Conn
      BY EntryConn DEF IsOpen, MaybeConn
    <2>2. IsOpen(r)
      BY <1>3, <2>1 DEF IsOpen
    <2>3. entry[r].conn # Nothing /\ pcs[entry[r].conn].remote # Nothing
      BY <2>2 DEF NInv, OpenHasRemote
    <2>4. entry[r].conn \in Conn /\ entry[r].conn # x
      BY <2>3, EntryConn DEF NInv, EntriesOwn
    <2> QED
      BY <1>2, <2>3, <2>4
  <1>7. NoLeakedConn'
    <2>1. NoConn.sig = "closed"
      BY DEF NoConn
    <2>2. ASSUME NEW y \in Conn, pcs'[y].sig # "closed"
          PROVE  y \in closing' \/ entry'[Owner(y)].conn = y
      BY <1>2, <2>1, <2>2 DEF NInv, NoLeakedConn
    <2> QED
      BY <2>2 DEF NoLeakedConn
  <1> QED
    BY <1>4, <1>5, <1>6, <1>7 DEF NInv

LEMMA TouchedTyped ==
    ASSUME NInv, NEW p \in Peer
    PROVE  /\ Touched(p) \in [Peer -> EntryRecord]
           /\ \A r \in Peer : /\ Touched(p)[r].conn = entry[r].conn
                              /\ Touched(p)[r].chan = entry[r].chan
  <1>1. entry \in [Peer -> EntryRecord]
    BY DEF NInv, Typed, EntriesTyped
  <1>2. PICK st \in {"connecting", "connected", "dead"} :
           Touched(p) = [entry EXCEPT ![p].state = st]
    <2>1. entry[p].state \in {"connecting", "connected", "dead"}
      BY <1>1 DEF EntryRecord
    <2>2. \/ Touched(p) = [entry EXCEPT ![p].state = "connecting"]
          \/ Touched(p) = [entry EXCEPT ![p].state = entry[p].state]
      BY <1>1 DEF Touched
    <2> QED
      BY <2>1, <2>2
  <1> QED
    BY <1>1, <1>2 DEF EntryRecord

LEMMA ReceiveKeeps ==
    ASSUME NInv, NEW f \in net, Receive(f)
    PROVE  NInv'
  <1>1. Typed /\ f \in Frame
    BY DEF NInv, Typed, WiresTyped
  <1> DEFINE p == f.to
  <1>2. /\ p \in Peer /\ f.type \in {"offer", "answer", "bye", "channel-bye"}
        /\ f.type # "bye" => f.conn \in Conn
    BY <1>1, FrameParts
  <1>3. /\ net' \subseteq Frame /\ spent' \in Spending
        /\ UNCHANGED << recent, spent >>
    BY <1>1 DEF Receive, Typed, WiresTyped
  <1>4. CASE /\ f.type \in {"offer", "answer"}
             /\ ops' = Enqueued(p, f.type, f.conn)
             /\ entry' = Touched(p)
             /\ UNCHANGED << pcs, ends, pending, burst, closing >>
    <2>1. OpsTyped'
      <3>1. f.conn \in Conn /\ f.conn \in MaybeConn /\ f.type \in {"dial", "offer", "answer"}
        BY <1>2, <1>4, ConnParts
      <3> QED
        BY <1>1, <1>2, <1>4, <3>1, Enqueues DEF Typed
    <2>2. /\ EntriesTyped'
          /\ \A r \in Peer : entry'[r].conn = entry[r].conn /\ entry'[r].chan = entry[r].chan
      BY <1>2, <1>4, TouchedTyped DEF EntriesTyped
    <2>3. Typed'
      BY <1>1, <1>3, <1>4, <2>1, <2>2
         DEF Typed, ConnsTyped, EndsTyped, MemoryTyped, BurstsTyped, WiresTyped
    <2>4. \A r \in Peer : IsOpen(r)' => IsOpen(r)
      BY <1>4, <2>2 DEF IsOpen
    <2> QED
      BY <1>4, <2>2, <2>3, <2>4, QuieterStep
  <1>5. CASE entry[p].conn # Nothing /\ ForgetEdge(p, FALSE)
    BY <1>2, <1>3, <1>5, ForgetEdgeKeeps
  <1>6. CASE UNCHANGED << pcs, ends, entry, pending, burst, ops, closing >>
    <2>1. Typed'
      BY <1>1, <1>3, <1>6 DEF Typed, ConnsTyped, EndsTyped, EntriesTyped, MemoryTyped,
                              BurstsTyped, OpsTyped, WiresTyped
    <2>2. \A r \in Peer : IsOpen(r)' => IsOpen(r)
      BY <1>6 DEF IsOpen
    <2> QED
      BY <1>6, <2>1, <2>2, QuieterStep
  <1> QED
    <2>1. CASE f.type \in {"offer", "answer"}
      BY <1>4, <2>1 DEF Receive
    <2>2. CASE f.type = "bye"
      BY <1>5, <1>6, <2>2 DEF Receive
    <2>3. CASE f.type = "channel-bye"
      <3>1. f.conn # Nothing
        BY <1>2, <2>3, ConnParts
      <3> QED
        BY <1>5, <1>6, <2>3, <3>1 DEF Receive
    <2> QED
      BY <1>2, <2>1, <2>2, <2>3

LEMMA LoseKeeps ==
    ASSUME NInv, NEW f \in net, Lose(f)
    PROVE  NInv'
  <1> USE DEF Lose
  <1>1. Typed
    BY DEF NInv
  <1>2. net' \subseteq Frame /\ spent' \in Spending
    BY <1>1, Spends DEF Typed, WiresTyped
  <1>3. Typed'
    BY <1>1, <1>2 DEF Typed, ConnsTyped, EndsTyped, EntriesTyped, MemoryTyped, BurstsTyped,
                      OpsTyped, WiresTyped
  <1>4. \A r \in Peer : IsOpen(r)' => IsOpen(r)
    BY DEF IsOpen
  <1> QED
    BY <1>3, <1>4, QuieterStep

\* A connection of which only the state of the transport is another.
LEMMA StatesChange ==
    ASSUME NEW P \in [Conn -> ConnRecord], NEW x \in Conn,
           NEW st \in {"new", "connected", "failed"}
    PROVE  LET Q == [P EXCEPT ![x].state = st]
           IN  /\ Q \in [Conn -> ConnRecord]
               /\ \A y \in Conn : Q[y].sig = P[y].sig /\ Q[y].remote = P[y].remote
  BY DEF ConnRecord

LEMMA ConnectsKeeps ==
    ASSUME NInv, NEW x \in Conn, NEW y \in Conn, Connects(x, y)
    PROVE  NInv'
  <1>1. Typed
    BY DEF NInv
  <1>2. /\ Owner(x) = Impolite /\ Owner(y) = Polite /\ x # y
        /\ pcs[x].remote = y /\ pcs[y].remote = x
        /\ UNCHANGED << pending, recent, ops, closing, net, spent >>
    BY DEF Connects, Matched
  <1>3. /\ pcs' \in [Conn -> ConnRecord]
        /\ \A z \in Conn : pcs'[z].sig = pcs[z].sig /\ pcs'[z].remote = pcs[z].remote
    <2> DEFINE P == [pcs EXCEPT ![x].state = "connected"]
    <2>1. pcs' = [P EXCEPT ![y].state = "connected"]
      BY DEF Connects
    <2>2. /\ P \in [Conn -> ConnRecord]
          /\ \A z \in Conn : P[z].sig = pcs[z].sig /\ P[z].remote = pcs[z].remote
      BY <1>1, StatesChange DEF Typed, ConnsTyped
    <2> HIDE DEF P
    <2>3. /\ [P EXCEPT ![y].state = "connected"] \in [Conn -> ConnRecord]
          /\ \A z \in Conn : /\ [P EXCEPT ![y].state = "connected"][z].sig = P[z].sig
                             /\ [P EXCEPT ![y].state = "connected"][z].remote = P[z].remote
      BY <2>2, StatesChange
    <2> QED
      BY <2>1, <2>2, <2>3
  <1> DEFINE mine(p) == IF p = Impolite THEN x ELSE y
             after(p) == IF entry[p].conn = mine(p) /\ entry[p].chan = mine(p)
                           THEN "open" ELSE "closed"
  <1>4. /\ ends' \in [Peer -> [Conn -> EndState]]
        /\ \A p \in Peer, c \in Conn : ends'[p][c] = "open" =>
              ends[p][c] = "open" \/ entry[p].conn = mine(p)
    <2>1. \A p \in Peer : mine(p) \in Conn
      OBVIOUS
    <2>2. ends' = [p \in Peer |-> [ends[p] EXCEPT ![mine(p)] =
                      IF ends[p][mine(p)] = "connecting" THEN after(p) ELSE ends[p][mine(p)]]]
      BY <1>1, <2>1 DEF Connects, Typed, EndsTyped
    <2>3. \A p \in Peer : /\ after(p) \in EndState
                          /\ after(p) = "open" => entry[p].conn = mine(p)
      BY DEF EndState
    <2> HIDE DEF mine, after
    <2> QED
      BY <1>1, <2>1, <2>2, <2>3 DEF Typed, EndsTyped
  <1>5. /\ entry' \in [Peer -> EntryRecord]
        /\ \A p \in Peer : entry'[p].conn = entry[p].conn /\ entry'[p].chan = entry[p].chan
    <2>1. entry' = [p \in Peer |-> IF entry[p].conn = mine(p)
                       THEN [entry[p] EXCEPT !.state = "connected"] ELSE entry[p]]
      BY DEF Connects
    <2>2. \A p \in Peer : /\ [entry[p] EXCEPT !.state = "connected"] \in EntryRecord
                          /\ [entry[p] EXCEPT !.state = "connected"].conn = entry[p].conn
                          /\ [entry[p] EXCEPT !.state = "connected"].chan = entry[p].chan
      BY <1>1 DEF Typed, EntriesTyped, EntryRecord
    <2>3. \A p \in Peer : entry[p] \in EntryRecord
      BY <1>1 DEF Typed, EntriesTyped
    <2> HIDE DEF mine
    <2> QED
      BY <2>1, <2>2, <2>3
  <1>6. BurstsTyped'
    <2>1. burst' = [p \in Peer |-> IF entry[p].conn \in {x, y} THEN NoBurst ELSE burst[p]]
      BY DEF Connects
    <2> QED
      BY <1>1, <2>1, ConnParts DEF Typed, BurstsTyped, NoBurst
  <1>7. Typed'
    BY <1>1, <1>2, <1>3, <1>4, <1>5, <1>6
       DEF Typed, ConnsTyped, EndsTyped, EntriesTyped, MemoryTyped, OpsTyped, WiresTyped
  <1>8. ASSUME NEW p \in Peer, IsOpen(p)'
        PROVE  entry[p].conn # Nothing /\ pcs'[entry[p].conn].remote # Nothing
    <2>1. entry[p].chan \in Conn /\ ends'[p][entry[p].chan] = "open"
      BY <1>5, <1>8, EntryConn DEF IsOpen, MaybeConn
    <2>2. CASE ends[p][entry[p].chan] = "open"
      <3>1. IsOpen(p)
        BY <2>1, <2>2, ConnParts DEF IsOpen
      <3>2. entry[p].conn \in Conn /\ pcs[entry[p].conn].remote \in Conn
        BY <3>1, EntryConn
      <3> QED
        BY <1>3, <3>2, ConnParts
    <2>3. CASE entry[p].conn = mine(p)
      BY <1>2, <1>3, <2>3, ConnParts
    <2> QED
      BY <1>4, <2>1, <2>2, <2>3
  <1>9. \A z \in Conn : pcs'[z].sig # "closed" => pcs[z].sig # "closed"
    BY <1>3
  <1>10. \A p \in Peer : entry'[p].conn = entry[p].conn
    BY <1>5
  <1>11. \A p \in Peer : IsOpen(p)' => entry[p].conn # Nothing /\ pcs'[entry[p].conn].remote # Nothing
    BY <1>8
  <1> QED
    BY <1>2, <1>7, <1>9, <1>10, <1>11, QuietStep

LEMMA ChannelArrivesKeeps ==
    ASSUME NInv, NEW p \in Peer, NEW c \in Conn, ChannelArrives(p, c)
    PROVE  NInv'
  <1>1. Typed
    BY DEF NInv
  <1> DEFINE e == entry[p]
  <1>2. UNCHANGED << pcs, pending, recent, burst, ops, closing, net, spent >>
    BY DEF ChannelArrives
  <1>3. "open" \in EndState /\ "closed" \in EndState
    BY DEF EndState
  <1>4. CASE ends' = [ends EXCEPT ![p][c] = "closed"] /\ UNCHANGED entry
    <2>1. /\ ends' \in [Peer -> [Conn -> EndState]]
          /\ \A r \in Peer, d \in Conn : ends'[r][d] = "open" => ends[r][d] = "open"
      BY <1>1, <1>3, <1>4 DEF Typed, EndsTyped
    <2>2. Typed'
      BY <1>1, <1>2, <1>4, <2>1 DEF Typed, ConnsTyped, EndsTyped, EntriesTyped, MemoryTyped,
                                    BurstsTyped, OpsTyped, WiresTyped
    <2>3. \A r \in Peer : IsOpen(r)' => IsOpen(r)
      BY <1>4, <2>1, EntryConn DEF IsOpen, MaybeConn
    <2> QED
      BY <1>2, <1>4, <2>2, <2>3, QuieterStep
  <1>5. CASE /\ e.conn \in Conn /\ pcs[e.conn].remote = c
             /\ ends' = IF e.chan = Nothing THEN [ends EXCEPT ![p][c] = "open"]
                        ELSE [ends EXCEPT ![p][c] = "open", ![p][e.chan] = "closed"]
             /\ entry' = [entry EXCEPT ![p].chan = c]
    <2>1. /\ ends' \in [Peer -> [Conn -> EndState]]
          /\ \A r \in Peer \ {p} : ends'[r] = ends[r]
      <3>1. CASE e.chan = Nothing
        BY <1>1, <1>3, <1>5, <3>1 DEF Typed, EndsTyped
      <3>2. CASE e.chan # Nothing
        <4>1. e.chan \in Conn
          BY <3>2, EntryConn DEF MaybeConn
        <4> HIDE DEF e
        <4> QED
          BY <1>1, <1>3, <1>5, <3>2, <4>1 DEF Typed, EndsTyped
      <3> QED
        BY <3>1, <3>2
    <2>2. /\ entry' \in [Peer -> EntryRecord]
          /\ \A r \in Peer \ {p} : entry'[r] = entry[r]
          /\ entry'[p].conn = entry[p].conn
      BY <1>1, <1>5, ConnParts DEF Typed, EntriesTyped, EntryRecord
    <2>3. Typed'
      BY <1>1, <1>2, <2>1, <2>2 DEF Typed, ConnsTyped, EndsTyped, EntriesTyped, MemoryTyped,
                                    BurstsTyped, OpsTyped, WiresTyped
    <2>4. ASSUME NEW r \in Peer, IsOpen(r)'
          PROVE  entry[r].conn # Nothing /\ pcs'[entry[r].conn].remote # Nothing
      <3>1. CASE r = p
        BY <1>2, <1>5, <3>1, ConnParts
      <3>2. CASE r # p
        <4>1. IsOpen(r)
          BY <2>1, <2>2, <2>4, <3>2 DEF IsOpen
        <4> QED
          BY <1>2, <4>1 DEF NInv, OpenHasRemote
      <3> QED
        BY <3>1, <3>2
    <2>5. \A r \in Peer : entry'[r].conn = entry[r].conn
      BY <2>2
    <2>6. \A r \in Peer : IsOpen(r)' => entry[r].conn # Nothing /\ pcs'[entry[r].conn].remote # Nothing
      BY <2>4
    <2> QED
      BY <1>2, <2>3, <2>5, <2>6, QuietStep
  <1> QED
    <2>1. PICK y \in Conn :
             /\ Owner(y) = p /\ pcs[y].state = "connected" /\ pcs[y].remote = c
             /\ IF e.conn # y \/ KeepsLocal(p, c)
                  THEN ends' = [ends EXCEPT ![p][c] = "closed"] /\ UNCHANGED entry
                  ELSE /\ ends' = IF e.chan = Nothing THEN [ends EXCEPT ![p][c] = "open"]
                                  ELSE [ends EXCEPT ![p][c] = "open", ![p][e.chan] = "closed"]
                       /\ entry' = [entry EXCEPT ![p].chan = c]
      BY DEF ChannelArrives
    <2> QED
      BY <1>4, <1>5, <2>1

LEMMA ChannelGoneKeeps ==
    ASSUME NInv, NEW p \in Peer, NEW c \in Conn, ChannelGone(p, c)
    PROVE  NInv'
  <1>1. Typed
    BY DEF NInv
  <1>2. UNCHANGED << pcs, pending, recent, burst, ops, closing, net, spent >>
    BY DEF ChannelGone
  <1>3. /\ ends' \in [Peer -> [Conn -> EndState]]
        /\ \A r \in Peer, d \in Conn : ends'[r][d] = "open" => ends[r][d] = "open"
    BY <1>1 DEF ChannelGone, Typed, EndsTyped, EndState
  <1>4. /\ entry' \in [Peer -> EntryRecord]
        /\ \A r \in Peer : entry'[r].conn = entry[r].conn /\ entry'[r].chan \in {Nothing, entry[r].chan}
    <2>1. PICK chan \in {Nothing, entry[p].chan} : entry' = [entry EXCEPT ![p].chan = chan]
      <3>1. entry' = [entry EXCEPT ![p].chan = IF entry[p].chan = c THEN Nothing ELSE entry[p].chan]
        BY <1>1 DEF ChannelGone, Typed, EntriesTyped
      <3> QED
        BY <3>1
    <2>2. chan \in MaybeConn
      BY <2>1, EntryConn, ConnParts
    <2> QED
      BY <1>1, <2>1, <2>2 DEF Typed, EntriesTyped, EntryRecord
  <1>5. Typed'
    BY <1>1, <1>2, <1>3, <1>4 DEF Typed, ConnsTyped, EndsTyped, EntriesTyped, MemoryTyped,
                                  BurstsTyped, OpsTyped, WiresTyped
  <1>6. ASSUME NEW r \in Peer, IsOpen(r)'
        PROVE  IsOpen(r)
    <2>1. entry'[r].chan = entry[r].chan /\ entry[r].chan \in Conn
      BY <1>4, <1>6, EntryConn DEF IsOpen, MaybeConn
    <2> QED
      BY <1>3, <1>6, <2>1 DEF IsOpen
  <1>7. \A r \in Peer : entry'[r].conn = entry[r].conn
    BY <1>4
  <1> QED
    BY <1>2, <1>5, <1>6, <1>7, QuieterStep

LEMMA TransportFailsKeeps ==
    ASSUME NInv, NEW x \in Conn, TransportFails(x)
    PROVE  NInv'
  <1>1. Typed /\ Owner(x) \in Peer
    BY ConnParts DEF NInv
  <1>2. UNCHANGED << ends, pending, recent, burst, ops, closing, net >>
    BY DEF TransportFails
  <1>3. /\ pcs' \in [Conn -> ConnRecord]
        /\ \A y \in Conn : pcs'[y].sig = pcs[y].sig /\ pcs'[y].remote = pcs[y].remote
    <2>1. pcs' = [pcs EXCEPT ![x].state = "failed"]
      BY DEF TransportFails
    <2> QED
      BY <1>1, <2>1, StatesChange DEF Typed, ConnsTyped
  <1>4. /\ entry' \in [Peer -> EntryRecord]
        /\ \A r \in Peer : entry'[r].conn = entry[r].conn /\ entry'[r].chan = entry[r].chan
    <2>1. PICK st \in {"dead", entry[Owner(x)].state} : entry' = [entry EXCEPT ![Owner(x)].state = st]
      <3>1. entry' = [entry EXCEPT ![Owner(x)].state =
                        IF entry[Owner(x)].conn = x THEN "dead" ELSE entry[Owner(x)].state]
        BY <1>1 DEF TransportFails, Typed, EntriesTyped
      <3> QED
        BY <3>1
    <2>2. st \in {"connecting", "connected", "dead"}
      BY <1>1, <2>1 DEF Typed, EntriesTyped, EntryRecord
    <2> QED
      BY <1>1, <2>1, <2>2 DEF Typed, EntriesTyped, EntryRecord
  <1>5. spent' \in Spending
    BY <1>1, Spends DEF TransportFails, Typed, WiresTyped
  <1>6. Typed'
    BY <1>1, <1>2, <1>3, <1>4, <1>5 DEF Typed, ConnsTyped, EndsTyped, EntriesTyped, MemoryTyped,
                                        BurstsTyped, OpsTyped, WiresTyped
  <1>7. \A r \in Peer : IsOpen(r)' => IsOpen(r)
    BY <1>2, <1>4 DEF IsOpen
  <1> QED
    BY <1>2, <1>3, <1>4, <1>6, <1>7, QuieterStep

LEMMA KeepaliveClosesKeeps ==
    ASSUME NInv, NEW p \in Peer, KeepaliveCloses(p)
    PROVE  NInv'
  <1>1. Typed
    BY DEF NInv
  <1> DEFINE x == entry[p].conn
             c == entry[p].chan
  <1>2. /\ x \in Conn /\ c \in Conn /\ Owner(x) = p
        /\ UNCHANGED << pending, recent, burst, ops, closing, net, spent >>
    <2>1. IsOpen(p) /\ UNCHANGED << pending, recent, burst, ops, closing, net, spent >>
      BY DEF KeepaliveCloses
    <2>2. x \in Conn
      BY <2>1, EntryConn
    <2>3. c \in Conn
      BY <2>1, EntryConn DEF IsOpen, MaybeConn
    <2>4. Owner(x) = p
      BY <2>2, ConnParts DEF NInv, EntriesOwn
    <2> QED
      BY <2>1, <2>2, <2>3, <2>4
  <1>3. /\ pcs' \in [Conn -> ConnRecord]
        /\ \A y \in Conn : pcs'[y] = IF y = x THEN NoConn ELSE pcs[y]
    BY <1>1, ShutTyped DEF KeepaliveCloses, Typed, ConnsTyped
  <1>4. /\ ends' \in [Peer -> [Conn -> EndState]]
        /\ \A r \in Peer, d \in Conn : ends'[r][d] = "open" => ends[r][d] = "open"
        /\ ends'[p][c] = "closed"
    <2> DEFINE E == ShutEnds(ends, {x})
    <2>1. ends' = [E EXCEPT ![p][c] = "closed"]
      BY DEF KeepaliveCloses
    <2>2. /\ E \in [Peer -> [Conn -> EndState]]
          /\ \A r \in Peer, d \in Conn : E[r][d] = "open" => ends[r][d] = "open"
      BY <1>1, ShutEndsTyped DEF Typed, EndsTyped
    <2> HIDE DEF E, c
    <2> QED
      BY <1>2, <2>1, <2>2 DEF EndState
  <1>5. /\ entry' \in [Peer -> EntryRecord]
        /\ \A r \in Peer : entry'[r].conn = entry[r].conn /\ entry'[r].chan = entry[r].chan
    BY <1>1 DEF KeepaliveCloses, Typed, EntriesTyped, EntryRecord
  <1>6. Typed'
    BY <1>1, <1>2, <1>3, <1>4, <1>5 DEF Typed, ConnsTyped, EndsTyped, EntriesTyped, MemoryTyped,
                                        BurstsTyped, OpsTyped, WiresTyped
  <1>7. ASSUME NEW r \in Peer, IsOpen(r)'
        PROVE  entry[r].conn # Nothing /\ pcs'[entry[r].conn].remote # Nothing
    <2>1. r # p /\ entry[r].chan \in Conn
      BY <1>4, <1>5, <1>7, EntryConn DEF IsOpen, MaybeConn
    <2>2. IsOpen(r)
      BY <1>4, <1>5, <1>7, <2>1 DEF IsOpen
    <2>3. entry[r].conn \in Conn /\ pcs[entry[r].conn].remote \in Conn
      BY <2>2, EntryConn
    <2>4. entry[r].conn # x
      BY <1>2, <2>1, <2>3, ConnParts DEF NInv, EntriesOwn
    <2> QED
      BY <1>3, <2>3, <2>4, ConnParts
  <1>8. \A y \in Conn : pcs'[y].sig # "closed" => pcs[y].sig # "closed"
    <2>1. NoConn.sig = "closed"
      BY DEF NoConn
    <2> QED
      BY <1>3, <2>1
  <1>9. \A r \in Peer : entry'[r].conn = entry[r].conn
    BY <1>5
  <1>10. \A r \in Peer : IsOpen(r)' => entry[r].conn # Nothing /\ pcs'[entry[r].conn].remote # Nothing
    BY <1>7
  <1> QED
    BY <1>2, <1>6, <1>8, <1>9, <1>10, QuietStep

LEMMA NegotiationStillKeeps ==
    ASSUME NInv, UNCHANGED negotiationVars
    PROVE  NInv'
  <1> USE DEF negotiationVars
  <1>1. Typed'
    BY DEF NInv, Typed, ConnsTyped, EndsTyped, EntriesTyped, MemoryTyped, BurstsTyped, OpsTyped,
           WiresTyped
  <1>2. \A r \in Peer : IsOpen(r)' => IsOpen(r)
    BY DEF IsOpen
  <1> QED
    BY <1>1, <1>2, QuieterStep

LEMMA NegotiationStep ==
    ASSUME NInv, NegotiationNext
    PROVE  NInv'
  <1>1. ASSUME NEW p \in Peer, NEW q \in Queues, Operate(p, q)
        PROVE  NInv'
    BY <1>1, StartDialKeeps, FinishDialKeeps, StartOfferKeeps, SetRemoteOfferKeeps,
       MakeAnswerKeeps, ApplyAnswerKeeps DEF Operate
  <1>2. ASSUME NEW p \in Peer,
               \/ Dial(p) \/ BurstFires(p) \/ HangUp(p) \/ KeepaliveCloses(p)
               \/ \E c \in Conn : ChannelArrives(p, c) \/ ChannelGone(p, c)
        PROVE  NInv'
    BY <1>2, DialKeeps, BurstFiresKeeps, HangUpKeeps, KeepaliveClosesKeeps, ChannelArrivesKeeps,
       ChannelGoneKeeps
  <1>3. ASSUME NEW x \in Conn,
               RetryFires(x) \/ ResetBackoff(x) \/ FlushOver(x) \/ TransportFails(x)
        PROVE  NInv'
    BY <1>3, RetryFiresKeeps, ResetBackoffKeeps, FlushOverKeeps, TransportFailsKeeps
  <1>4. ASSUME NEW x \in Conn, NEW y \in Conn, Connects(x, y)
        PROVE  NInv'
    BY <1>4, ConnectsKeeps
  <1>5. ASSUME NEW f \in net, Receive(f) \/ Lose(f)
        PROVE  NInv'
    BY <1>5, ReceiveKeeps, LoseKeeps
  <1> QED
    BY <1>1, <1>2, <1>3, <1>4, <1>5 DEF NegotiationNext

\* The parts of the invariant hold in every state of a negotiation.
LEMMA NegotiationKept == SessionSpec => []NInv
  <1>1. SessionInit => NInv
    BY NegotiationInitInv DEF SessionInit
  <1>2. NInv /\ [SessionNext]_bothVars => NInv'
    <2> SUFFICES ASSUME NInv, [SessionNext]_bothVars
                 PROVE  NInv'
      OBVIOUS
    <2>1. CASE NegotiationNext
      BY <2>1, NegotiationStep
    <2>2. CASE UNCHANGED negotiationVars
      BY <2>2, NegotiationStillKeeps
    <2> QED
      BY <2>1, <2>2 DEF SessionNext, bothVars
  <1> QED
    BY <1>1, <1>2, PTL DEF SessionSpec

\* What the client keeps of a negotiation (RTCPeerConnection, mesh.connections and the
\* maps and queues beside it in src/src/client.js) is of the kind the model says, for
\* any names and bounds.
THEOREM NegotiationTypeCorrect == SessionSpec => []NegotiationTypeOK
  <1>1. NInv => NegotiationTypeOK
    <2> SUFFICES ASSUME NInv PROVE NegotiationTypeOK
      OBVIOUS
    <2>1. \A p \in Peer, q \in Queues : ops[p][q] \in Seq(Op)
      <3>1. \A s \in Seq(LegalOp) : s \in Seq(Op)
        <4>1. LegalOp \subseteq Op
          BY DEF LegalOp
        <4> QED
          BY <4>1
      <3> QED
        BY <3>1 DEF NInv, Typed, OpsTyped
    <2> QED
      BY <2>1 DEF NInv, Typed, ConnsTyped, EndsTyped, EntriesTyped, MemoryTyped, BurstsTyped,
                  WiresTyped, ConnRecord, EntryRecord, EndState, Spending, NegotiationTypeOK
  <1> QED
    BY <1>1, NegotiationKept, PTL

\* No transport outlives its entry (closePeerConnection, and the replacements in
\* handleIncomingOffer and initiateWebRTCConnection): every connection that is not
\* closed is the one of its entry, or is about to be closed when the bye is out.
THEOREM NoConnLeaks == SessionSpec => []NoLeakedConn
  <1>1. NInv => NoLeakedConn
    BY DEF NInv
  <1> QED
    BY <1>1, NegotiationKept, PTL

-----------------------------------------------------------------------------
(* What a negotiation keeps while two channels of a glare open and arrive *)

\* The entry of p has a connection that is not closed.
Live(p) == entry[p].conn # Nothing /\ pcs[entry[p].conn].sig # "closed"

\* Its own channel waits for the transport.
HasChan(p) == entry[p].chan = entry[p].conn /\ ends[p][entry[p].conn] = "connecting"

\* What is under way on the connection of the entry, first in queue q.
Under(p, q, kind, at) == IsAt(p, q, kind, at) /\ Next1(p, q).on = entry[p].conn
Dialling(p, q) == Under(p, q, "dial", "made")
Setting(p, q) == Under(p, q, "offer", "remote")
Yielding(p, q) == Under(p, q, "offer", "yielding")

AllOps(p) == {o \in LegalOp : \E q \in Queues : \E i \in DOMAIN ops[p][q] : o = ops[p][q][i]}

\* Descriptions travel to, wait at and are set by the peer they are not of.
OwnFrames == \A f \in net : f.type \in {"offer", "answer"} => f.to = Other(Owner(f.conn))
OwnOps ==
    \A p \in Peer : \A o \in AllOps(p) : /\ o.kind # "dial" => Owner(o.arg) = Other(p)
                                         /\ o.at # "start" => Owner(o.on) = p
OwnAnswers == \A p \in Peer : pending[p].answer # Nothing => Owner(pending[p].answer) = Other(p)
OwnRemotes ==
    \A x \in Conn : /\ pcs[x].remote # Nothing => Owner(pcs[x].remote) = Other(Owner(x))
                    /\ pcs[x].sig = "closed" => pcs[x].remote = Nothing /\ pcs[x].state = "new"
Owned == OwnFrames /\ OwnOps /\ OwnAnswers /\ OwnRemotes

\* Of a queue only the first operation is under way on the connection of the entry.
LaterIdle ==
    \A p \in Peer, q \in Queues : \A i \in DOMAIN ops[p][q] :
       i # 1 /\ ops[p][q][i].at # "start" => ops[p][q][i].on # entry[p].conn

\* The connection has a remote description, and nothing under way sets another.
Steady(p) ==
    LET x == entry[p].conn
    IN  /\ pcs[x].remote # Nothing /\ pcs[x].sig \in {"stable", "have-remote-offer"}
        /\ \A q \in Queues : /\ ~ Dialling(p, q) /\ ~ Yielding(p, q)
                             /\ Setting(p, q) => Next1(p, q).arg = pcs[x].remote

\* A dial that has made the connection, and not the offer.
DialsAlone(p) ==
    LET x == entry[p].conn
    IN  \A q \in Queues : Dialling(p, q) =>
          /\ HasChan(p)
          /\ pcs[x].sig = "stable" => pcs[x].remote = Nothing
          /\ pcs[x].sig # "have-local-offer"
          /\ \A r \in Queues : ~ Yielding(p, r) /\ (r # q => ~ Dialling(p, r))
YieldsPolitely(p) ==
    \A q \in Queues : Yielding(p, q) => p = Polite /\ pcs[entry[p].conn].sig # "stable"
SetsOneOffer(p) ==
    LET x == entry[p].conn
    IN  \A q \in Queues : Setting(p, q) /\ pcs[x].sig = "stable" =>
          pcs[x].remote \in {Nothing, Next1(p, q).arg}
ChanWaits(p) ==
    LET x == entry[p].conn
    IN  /\ HasChan(p) \/ (entry[p].chan = Nothing /\ ends[p][x] = "none"
                           /\ pcs[x].sig # "have-local-offer")
        /\ ends[Other(p)][x] = "none"

EdgeInv(p) ==
    LET x == entry[p].conn
    IN  Live(p) =>
          /\ entry[p].offered # Nothing =>
               pcs[x].remote = entry[p].offered /\ pcs[x].sig # "have-local-offer"
          /\ pcs[x].state = "new" =>
               DialsAlone(p) /\ YieldsPolitely(p) /\ SetsOneOffer(p) /\ ChanWaits(p)
          /\ pcs[x].state # "new" => Steady(p)
          /\ pcs[x].state = "connected" => entry[p].chan \in {Nothing, x, pcs[x].remote}

\* An offer of the impolite peer that is under way has a channel.
OfferMeansChan ==
    LET x == entry[Impolite].conn
    IN  Live(Impolite) /\ pcs[x].state = "new"
          /\ (Offer(x) \in net \/ \E o \in AllOps(Polite) : o.kind = "offer" /\ o.arg = x)
        => HasChan(Impolite)

\* Of two peers that negotiate one has made a channel.
OneHasChan ==
    LET x == entry[Impolite].conn
        y == entry[Polite].conn
    IN  /\ Live(Impolite) /\ Live(Polite)
        /\ pcs[x].state = "new" /\ pcs[y].state = "new" /\ pcs[y].remote = x
        => HasChan(Impolite) \/ HasChan(Polite)

\* The channels of connections that are paired: the impolite peer's is open, and
\* kept, or it made none and the polite peer's is.
ImpoliteKept(x, y) ==
    /\ ends[Impolite][x] = "open" /\ entry[Impolite].chan = x
    /\ ends[Impolite][y] \in {"none", "closed"}
    /\ \/ ends[Polite][x] = "none" /\ entry[Polite].chan = Nothing /\ ends[Polite][y] # "open"
       \/ ends[Polite][x] = "none" /\ entry[Polite].chan = y /\ ends[Polite][y] = "open"
       \/ ends[Polite][x] = "open" /\ entry[Polite].chan = x /\ ends[Polite][y] # "open"
PoliteKept(x, y) ==
    /\ ends[Impolite][x] = "none" /\ ends[Polite][x] = "none"
    /\ ends[Polite][y] = "open" /\ entry[Polite].chan = y
    /\ \/ ends[Impolite][y] = "none" /\ entry[Impolite].chan = Nothing
       \/ ends[Impolite][y] = "open" /\ entry[Impolite].chan = y
Channels ==
    LET x == entry[Impolite].conn
        y == entry[Polite].conn
    IN  Live(Impolite) /\ Live(Polite) /\ Paired(x, y) => ImpoliteKept(x, y) \/ PoliteKept(x, y)

\* The peer has, of a connection that was joined, what it has of this one.
TiedTo(z) ==
    LET o == Other(Owner(z))
    IN  Live(o) /\ pcs[z].remote = entry[o].conn => pcs[entry[o].conn].remote = z /\ Steady(o)
Joined(p) == Live(p) /\ (pcs[entry[p].conn].state = "connected" \/ IsOpen(p))
EntriesTied == \A p \in Peer : Joined(p) => TiedTo(entry[p].conn)

\* So it stays while the bye is flushed: what is still queued sets no other.
SetsNoOther(z) ==
    \A o \in AllOps(Owner(z)) : o.on = z =>
       /\ ~ (o.kind = "dial" /\ o.at = "made")
       /\ ~ (o.kind = "offer" /\ o.at = "yielding")
       /\ o.kind = "offer" /\ o.at = "remote" => o.arg = pcs[z].remote
ClosingTied == \A z \in closing : pcs[z].sig # "closed" => TiedTo(z) /\ SetsNoOther(z)

LinkInv == /\ Owned /\ LaterIdle
           /\ \A p \in Peer : EdgeInv(p)
           /\ OfferMeansChan /\ OneHasChan /\ Channels
           /\ EntriesTied /\ ClosingTied

-----------------------------------------------------------------------------
(* Queues *)

\* What a queue holds once an operation is over, goes on, or comes.
LEMMA QueueShapes ==
    ASSUME NEW s \in Seq(LegalOp), NEW t \in Seq(LegalOp), NEW o \in LegalOp
    PROVE  /\ \A i \in DOMAIN s : s[i] \in LegalOp /\ i \in Nat \ {0}
           /\ s # << >> => 1 \in DOMAIN s /\ Head(s) = s[1]
           /\ \A i \in DOMAIN Append(s, o) :
                 \/ i \in DOMAIN s /\ Append(s, o)[i] = s[i]
                 \/ i \notin DOMAIN s /\ Append(s, o)[i] = o
           /\ Append(s, o) # << >>
           /\ Head(Append(s, o)) = IF s = << >> THEN o ELSE Head(s)
           /\ \A i \in DOMAIN (s \o t) :
                 \/ i \in DOMAIN s /\ (s \o t)[i] = s[i]
                 \/ \E j \in DOMAIN t : (s \o t)[i] = t[j]
  <1>1. \A i \in DOMAIN s : s[i] \in LegalOp /\ i \in Nat \ {0}
    OBVIOUS
  <1>2. s # << >> => 1 \in DOMAIN s /\ Head(s) = s[1]
    BY HeadTailProperties
  <1>3. \A i \in DOMAIN Append(s, o) :
           \/ i \in DOMAIN s /\ Append(s, o)[i] = s[i]
           \/ i \notin DOMAIN s /\ Append(s, o)[i] = o
    BY AppendProperties
  <1>4. Append(s, o) # << >> /\ Head(Append(s, o)) = IF s = << >> THEN o ELSE Head(s)
    <2>1. /\ Append(s, o) # << >> /\ Append(s, o) \in Seq(LegalOp)
          /\ Head(Append(s, o)) = Append(s, o)[1]
      BY AppendProperties, HeadTailProperties
    <2>2. CASE s = << >>
      BY <2>1, <2>2, AppendProperties
    <2>3. CASE s # << >>
      <3>1. 1 \in 1 .. Len(s) /\ Head(s) = s[1]
        BY <2>3, HeadTailProperties
      <3> QED
        BY <2>1, <2>3, <3>1, AppendProperties
    <2> QED
      BY <2>2, <2>3
  <1>5. \A i \in DOMAIN (s \o t) :
           \/ i \in DOMAIN s /\ (s \o t)[i] = s[i]
           \/ \E j \in DOMAIN t : (s \o t)[i] = t[j]
    <2> SUFFICES ASSUME NEW i \in DOMAIN (s \o t)
                 PROVE  \/ i \in DOMAIN s /\ (s \o t)[i] = s[i]
                        \/ \E j \in DOMAIN t : (s \o t)[i] = t[j]
      OBVIOUS
    <2>1. /\ i \in 1 .. Len(s) + Len(t)
          /\ (s \o t)[i] = IF i <= Len(s) THEN s[i] ELSE t[i - Len(s)]
      BY ConcatProperties
    <2>2. CASE i <= Len(s)
      BY <2>1, <2>2
    <2>3. CASE i > Len(s)
      <3>1. i - Len(s) \in DOMAIN t
        BY <2>1, <2>3
      <3> QED
        BY <2>1, <2>3, <3>1
    <2> QED
      BY <2>1, <2>2, <2>3
  <1> QED
    BY <1>1, <1>2, <1>3, <1>4, <1>5

LEMMA QueueSteps ==
    ASSUME NEW s \in Seq(LegalOp), NEW o \in LegalOp, s # << >>
    PROVE  /\ \A i \in DOMAIN Tail(s) : i + 1 \in DOMAIN s /\ Tail(s)[i] = s[i + 1] /\ i \in Nat \ {0}
           /\ << o >> \o Tail(s) # << >> /\ Head(<< o >> \o Tail(s)) = o
           /\ \A i \in DOMAIN (<< o >> \o Tail(s)) :
                 \/ i = 1 /\ (<< o >> \o Tail(s))[i] = o
                 \/ i # 1 /\ i \in DOMAIN s /\ (<< o >> \o Tail(s))[i] = s[i]
  <1>1. /\ Tail(s) \in Seq(LegalOp) /\ Len(Tail(s)) = Len(s) - 1
        /\ \A i \in 1 .. Len(Tail(s)) : Tail(s)[i] = s[i + 1]
        /\ Len(s) \in Nat
    BY HeadTailProperties
  <1>2. \A i \in DOMAIN Tail(s) : i + 1 \in DOMAIN s /\ Tail(s)[i] = s[i + 1] /\ i \in Nat \ {0}
    BY <1>1
  <1> DEFINE t == << o >> \o Tail(s)
  <1>3. << o >> \in Seq(LegalOp) /\ Len(<< o >>) = 1 /\ << o >>[1] = o
    OBVIOUS
  <1>4. /\ t \in Seq(LegalOp) /\ Len(t) = Len(s)
        /\ \A i \in 1 .. Len(t) : t[i] = IF i <= 1 THEN << o >>[i] ELSE Tail(s)[i - 1]
    BY <1>1, <1>3, ConcatProperties
  <1> HIDE DEF t
  <1>5. \A i \in DOMAIN t : \/ i = 1 /\ t[i] = o
                            \/ i # 1 /\ i \in DOMAIN s /\ t[i] = s[i]
    <2> SUFFICES ASSUME NEW i \in DOMAIN t, i # 1
                 PROVE  i \in DOMAIN s /\ t[i] = s[i]
      BY <1>3, <1>4
    <2>1. i \in 2 .. Len(s)
      BY <1>4
    <2>2. t[i] = Tail(s)[i - 1] /\ i - 1 \in 1 .. Len(Tail(s))
      BY <1>1, <1>4, <2>1
    <2>3. Tail(s)[i - 1] = s[i]
      BY <1>1, <2>1, <2>2
    <2> QED
      BY <2>1, <2>2, <2>3
  <1>6. t # << >> /\ Head(t) = o
    <2>1. Len(t) > 0
      BY <1>1, <1>4
    <2>2. t # << >>
      BY <2>1
    <2> QED
      BY <1>3, <1>4, <2>1, <2>2, HeadTailProperties
  <1> QED
    BY <1>2, <1>5, <1>6 DEF t

\* An operation under way on the connection of the entry was so before.
CalmQueue(p, q) ==
    ops'[p][q] # << >> /\ Head(ops'[p][q]).at # "start" /\ Head(ops'[p][q]).on = entry[p].conn
      => ops[p][q] # << >> /\ Head(ops'[p][q]) = Head(ops[p][q])

LEMMA AQueue ==
    ASSUME OpsTyped, NEW p \in Peer, NEW q \in Queues
    PROVE  /\ ops[p][q] \in Seq(LegalOp)
           /\ \A i \in DOMAIN ops[p][q] : ops[p][q][i] \in AllOps(p)
           /\ ops[p][q] # << >> => Head(ops[p][q]) \in AllOps(p)
  <1>1. ops[p][q] \in Seq(LegalOp)
    BY DEF OpsTyped
  <1>2. \A i \in DOMAIN ops[p][q] : ops[p][q][i] \in AllOps(p)
    BY <1>1 DEF AllOps
  <1>3. ops[p][q] # << >> => Head(ops[p][q]) \in AllOps(p)
    BY <1>1, <1>2, HeadTailProperties
  <1> QED
    BY <1>1, <1>2, <1>3

\* An operation is over.
LEMMA DoneCalmly ==
    ASSUME OpsTyped, LaterIdle, NEW p \in Peer, NEW q \in Queues, ops[p][q] # << >>, Done(p, q)
    PROVE  /\ \A r \in Peer, s \in Queues : r # p \/ s # q => ops'[r][s] = ops[r][s]
           /\ \A r \in Peer : AllOps(r)' \subseteq AllOps(r)
           /\ \A r \in Peer, s \in Queues : CalmQueue(r, s)
           /\ ~ (ops'[p][q] # << >> /\ Head(ops'[p][q]).at # "start"
                   /\ Head(ops'[p][q]).on = entry[p].conn)
           /\ (\A r \in Peer : entry'[r].conn = entry[r].conn) => LaterIdle'
  <1>1. /\ ops' = [ops EXCEPT ![p][q] = Tail(ops[p][q])]
        /\ ops[p][q] \in Seq(LegalOp)
    BY DEF Done, OpsTyped
  <1>2. /\ \A r \in Peer, s \in Queues : r # p \/ s # q => ops'[r][s] = ops[r][s]
        /\ ops'[p][q] = Tail(ops[p][q])
    BY <1>1 DEF OpsTyped
  <1>3. /\ Tail(ops[p][q]) \in Seq(LegalOp)
        /\ \A i \in DOMAIN Tail(ops[p][q]) :
              i + 1 \in DOMAIN ops[p][q] /\ Tail(ops[p][q])[i] = ops[p][q][i + 1] /\ i \in Nat \ {0}
    <2>1. Tail(ops[p][q]) \in Seq(LegalOp)
      BY <1>1, HeadTailProperties
    <2>2. PICK o \in LegalOp : TRUE
      BY <1>1, HeadTailProperties
    <2> QED
      BY <1>1, <2>1, <2>2, QueueSteps
  <1>4. \A i \in DOMAIN ops'[p][q] : ops'[p][q][i].at # "start" => ops'[p][q][i].on # entry[p].conn
    <2> SUFFICES ASSUME NEW i \in DOMAIN ops'[p][q], ops'[p][q][i].at # "start"
                 PROVE  ops'[p][q][i].on # entry[p].conn
      OBVIOUS
    <2>1. i + 1 \in DOMAIN ops[p][q] /\ ops'[p][q][i] = ops[p][q][i + 1] /\ i + 1 # 1
      BY <1>2, <1>3
    <2> QED
      BY <2>1 DEF LaterIdle
  <1>5. ~ (ops'[p][q] # << >> /\ Head(ops'[p][q]).at # "start"
             /\ Head(ops'[p][q]).on = entry[p].conn)
    <2>1. ops'[p][q] # << >> => 1 \in DOMAIN ops'[p][q] /\ Head(ops'[p][q]) = ops'[p][q][1]
      BY <1>2, <1>3, HeadTailProperties
    <2> QED
      BY <1>4, <2>1
  <1>6. \A r \in Peer, s \in Queues : CalmQueue(r, s)
    BY <1>2, <1>5 DEF CalmQueue
  <1>7. \A r \in Peer : AllOps(r)' \subseteq AllOps(r)
    <2> SUFFICES ASSUME NEW r \in Peer, NEW o \in AllOps(r)'
                 PROVE  o \in AllOps(r)
      OBVIOUS
    <2>1. PICK s \in Queues : \E i \in DOMAIN ops'[r][s] : o = ops'[r][s][i]
      BY DEF AllOps
    <2>2. CASE r # p \/ s # q
      BY <1>2, <2>1, <2>2 DEF AllOps
    <2>3. CASE r = p /\ s = q
      <3>1. \A i \in DOMAIN ops'[p][q] : ops'[p][q][i] \in AllOps(p)
        BY <1>2, <1>3, AQueue
      <3> QED
        BY <2>1, <2>3, <3>1
    <2> QED
      BY <2>2, <2>3
  <1>8. ASSUME \A r \in Peer : entry'[r].conn = entry[r].conn
        PROVE  LaterIdle'
    <2> SUFFICES ASSUME NEW r \in Peer, NEW s \in Queues, NEW i, i \in DOMAIN ops'[r][s],
                        i # 1, ops'[r][s][i].at # "start"
                 PROVE  ops'[r][s][i].on # entry'[r].conn
      BY DEF LaterIdle
    <2>1. entry'[r].conn = entry[r].conn
      BY <1>8
    <2>2. CASE r # p \/ s # q
      BY <1>2, <2>1, <2>2 DEF LaterIdle
    <2>3. CASE r = p /\ s = q
      BY <1>4, <2>1, <2>3
    <2> QED
      BY <2>2, <2>3
  <1> QED
    BY <1>2, <1>5, <1>6, <1>7, <1>8

\* An operation goes on, with connection x.
LEMMA GoesOn ==
    ASSUME OpsTyped, NEW p \in Peer, NEW q \in Queues, ops[p][q] # << >>, NEW x \in Conn,
           NEW at \in {"start", "made", "remote", "yielding"}, Goes(p, q, at, x)
    PROVE  /\ \A r \in Peer, s \in Queues : r # p \/ s # q => ops'[r][s] = ops[r][s]
           /\ \E o \in LegalOp :
                /\ o.kind = Next1(p, q).kind /\ o.arg = Next1(p, q).arg /\ o.at = at /\ o.on = x
                /\ ops'[p][q] # << >> /\ Head(ops'[p][q]) = o
                /\ \A r \in Peer : \A w \in AllOps(r)' : w \in AllOps(r) \/ (r = p /\ w = o)
           /\ (\A r \in Peer \ {p} : entry'[r].conn = entry[r].conn) /\ LaterIdle
                 /\ (entry'[p].conn = entry[p].conn
                       \/ \A w \in AllOps(p) : w.on # entry'[p].conn)
                => LaterIdle'
  <1> DEFINE o == [Head(ops[p][q]) EXCEPT !.at = at, !.on = x]
             t == << o >> \o Tail(ops[p][q])
  <1>1. ops[p][q] \in Seq(LegalOp)
    BY DEF OpsTyped
  <1>2. o \in LegalOp /\ o.kind = Next1(p, q).kind /\ o.arg = Next1(p, q).arg /\ o.at = at /\ o.on = x
    <2>1. Head(ops[p][q]) \in LegalOp
      BY <1>1, HeadTailProperties
    <2> QED
      BY <2>1, ConnParts DEF LegalOp, Op, Next1
  <1>3. ops' = [ops EXCEPT ![p][q] = t]
    BY DEF Goes
  <1> HIDE DEF o
  <1>4. /\ t # << >> /\ Head(t) = o
        /\ \A i \in DOMAIN t : \/ i = 1 /\ t[i] = o
                               \/ i # 1 /\ i \in DOMAIN ops[p][q] /\ t[i] = ops[p][q][i]
    BY <1>1, <1>2, QueueSteps
  <1> HIDE DEF t
  <1>5. /\ \A r \in Peer, s \in Queues : r # p \/ s # q => ops'[r][s] = ops[r][s]
        /\ ops'[p][q] = t
    BY <1>3 DEF OpsTyped
  <1>6. \A r \in Peer : \A w \in AllOps(r)' : w \in AllOps(r) \/ (r = p /\ w = o)
    <2> SUFFICES ASSUME NEW r \in Peer, NEW w \in AllOps(r)'
                 PROVE  w \in AllOps(r) \/ (r = p /\ w = o)
      OBVIOUS
    <2>1. PICK s \in Queues : \E i \in DOMAIN ops'[r][s] : w = ops'[r][s][i] /\ w \in LegalOp
      BY DEF AllOps
    <2>2. CASE r # p \/ s # q
      BY <1>5, <2>1, <2>2 DEF AllOps
    <2>3. CASE r = p /\ s = q
      BY <1>4, <1>5, <2>1, <2>3 DEF AllOps
    <2> QED
      BY <2>2, <2>3
  <1>7. ASSUME \A r \in Peer \ {p} : entry'[r].conn = entry[r].conn, LaterIdle,
               \/ entry'[p].conn = entry[p].conn
               \/ \A w \in AllOps(p) : w.on # entry'[p].conn
        PROVE  LaterIdle'
    <2> SUFFICES ASSUME NEW r \in Peer, NEW s \in Queues, NEW i, i \in DOMAIN ops'[r][s],
                        i # 1, ops'[r][s][i].at # "start"
                 PROVE  ops'[r][s][i].on # entry'[r].conn
      BY DEF LaterIdle
    <2>1. i \in DOMAIN ops[r][s] /\ ops'[r][s][i] = ops[r][s][i]
      BY <1>4, <1>5
    <2>2. ops[r][s][i] \in AllOps(r)
      BY <2>1, AQueue
    <2>3. ops[r][s][i].on # entry[r].conn
      BY <1>7, <2>1 DEF LaterIdle
    <2> QED
      BY <1>7, <2>1, <2>2, <2>3
  <1> QED
    BY <1>2, <1>4, <1>5, <1>6, <1>7

\* An operation comes.
LEMMA ComesCalmly ==
    ASSUME OpsTyped, LaterIdle, NEW p \in Peer, NEW x \in MaybeConn,
           NEW kind \in {"dial", "offer", "answer"}, kind = "dial" \/ x \in Conn,
           ops' = Enqueued(p, kind, x),
           \A r \in Peer : entry'[r].conn = entry[r].conn
    PROVE  /\ \A r \in Peer, s \in Queues : CalmQueue(r, s)
           /\ LaterIdle'
           /\ \A r \in Peer : \A w \in AllOps(r)' :
                 \/ w \in AllOps(r)
                 \/ r = p /\ w.kind = kind /\ w.arg = x /\ w.at = "start" /\ w.on = Nothing
  <1> DEFINE o == [kind |-> kind, arg |-> x, on |-> Nothing, at |-> "start"]
             t == Append(ops[p]["queue"], o)
  <1>1. o \in LegalOp /\ o.kind = kind /\ o.arg = x /\ o.at = "start" /\ o.on = Nothing
    BY ConnParts DEF LegalOp, Op
  <1>2. "queue" \in Queues /\ ops[p]["queue"] \in Seq(LegalOp)
    BY DEF OpsTyped, Queues
  <1>3. ops' = [ops EXCEPT ![p]["queue"] = t]
    BY DEF Enqueued
  <1> HIDE DEF o
  <1>4. /\ t # << >> /\ Head(t) = IF ops[p]["queue"] = << >> THEN o ELSE Head(ops[p]["queue"])
        /\ \A i \in DOMAIN t : \/ i \in DOMAIN ops[p]["queue"] /\ t[i] = ops[p]["queue"][i]
                               \/ t[i] = o
    BY <1>1, <1>2, QueueShapes
  <1> HIDE DEF t
  <1>5. /\ \A r \in Peer, s \in Queues : r # p \/ s # "queue" => ops'[r][s] = ops[r][s]
        /\ ops'[p]["queue"] = t
    BY <1>2, <1>3 DEF OpsTyped
  <1>6. \A r \in Peer, s \in Queues : CalmQueue(r, s)
    BY <1>1, <1>4, <1>5 DEF CalmQueue
  <1>7. LaterIdle'
    <2> SUFFICES ASSUME NEW r \in Peer, NEW s \in Queues, NEW i, i \in DOMAIN ops'[r][s],
                        i # 1, ops'[r][s][i].at # "start"
                 PROVE  ops'[r][s][i].on # entry'[r].conn
      BY DEF LaterIdle
    <2>1. i \in DOMAIN ops[r][s] /\ ops'[r][s][i] = ops[r][s][i]
      BY <1>1, <1>4, <1>5
    <2> QED
      BY <2>1 DEF LaterIdle
  <1>8. ASSUME NEW r \in Peer, NEW w \in AllOps(r)'
        PROVE  w \in AllOps(r) \/ (r = p /\ w = o)
    <2>1. PICK s \in Queues : \E i \in DOMAIN ops'[r][s] : w = ops'[r][s][i] /\ w \in LegalOp
      BY DEF AllOps
    <2>2. CASE r # p \/ s # "queue"
      BY <1>5, <2>1, <2>2 DEF AllOps
    <2>3. CASE r = p /\ s = "queue"
      BY <1>4, <1>5, <2>1, <2>3 DEF AllOps
    <2> QED
      BY <2>2, <2>3
  <1> QED
    BY <1>1, <1>6, <1>7, <1>8

-----------------------------------------------------------------------------
(* What a step of one peer leaves to the other *)

LEMMA CalmUnder ==
    ASSUME NEW p \in Peer, NEW q \in Queues, CalmQueue(p, q), entry'[p].conn = entry[p].conn
    PROVE  /\ Dialling(p, q)' => Dialling(p, q)
           /\ Yielding(p, q)' => Yielding(p, q)
           /\ Setting(p, q)' => Setting(p, q) /\ Next1(p, q)' = Next1(p, q)
  BY DEF CalmQueue, Dialling, Yielding, Setting, Under, IsAt, Next1

\* The edge of p is what it was, and no more is under way on it.
SameEdge(p) ==
    LET x == entry[p].conn
    IN  Live(p)' =>
          /\ Live(p) /\ entry'[p].conn = x
          /\ entry'[p].chan = entry[p].chan /\ entry'[p].offered = entry[p].offered
          /\ pcs'[x].sig = pcs[x].sig /\ pcs'[x].remote = pcs[x].remote
          /\ pcs'[x].state = pcs[x].state
          /\ pcs[x].state = "new" =>
               /\ ends'[p][x] = ends[p][x]
               /\ ends[Other(p)][x] = "none" => ends'[Other(p)][x] = "none"
          /\ \A q \in Queues : CalmQueue(p, q)

LEMMA EdgeStays ==
    ASSUME NEW p \in Peer, EdgeInv(p), SameEdge(p)
    PROVE  EdgeInv(p)'
  <1> SUFFICES ASSUME Live(p)' PROVE EdgeInv(p)'
    BY DEF EdgeInv
  <1> DEFINE x == entry[p].conn
  <1>1. /\ Live(p) /\ entry'[p].conn = x
        /\ entry'[p].chan = entry[p].chan /\ entry'[p].offered = entry[p].offered
        /\ pcs'[x].sig = pcs[x].sig /\ pcs'[x].remote = pcs[x].remote
        /\ pcs'[x].state = pcs[x].state
    BY DEF SameEdge
  <1>2. \A q \in Queues : /\ Dialling(p, q)' => Dialling(p, q)
                          /\ Yielding(p, q)' => Yielding(p, q)
                          /\ Setting(p, q)' => Setting(p, q) /\ Next1(p, q)' = Next1(p, q)
    BY <1>1, CalmUnder DEF SameEdge
  <1>3. pcs[x].state = "new" => HasChan(p)' = HasChan(p)
    BY <1>1 DEF SameEdge, HasChan
  <1>4. ASSUME pcs[x].state = "new"
        PROVE  (DialsAlone(p) /\ YieldsPolitely(p) /\ SetsOneOffer(p) /\ ChanWaits(p))'
    <2>1. DialsAlone(p) /\ YieldsPolitely(p) /\ SetsOneOffer(p) /\ ChanWaits(p)
      BY <1>1, <1>4 DEF EdgeInv
    <2>2. DialsAlone(p)'
      BY <1>1, <1>2, <1>3, <1>4, <2>1 DEF DialsAlone
    <2>3. YieldsPolitely(p)'
      BY <1>1, <1>2, <2>1 DEF YieldsPolitely
    <2>4. SetsOneOffer(p)'
      BY <1>1, <1>2, <2>1 DEF SetsOneOffer
    <2>5. ChanWaits(p)'
      BY <1>1, <1>3, <1>4, <2>1 DEF ChanWaits, SameEdge
    <2> QED
      BY <2>2, <2>3, <2>4, <2>5
  <1>5. Steady(p) => Steady(p)'
    BY <1>1, <1>2 DEF Steady
  <1> QED
    BY <1>1, <1>4, <1>5 DEF EdgeInv

\* What a step of p does to the other peer: a name that stands for nothing may come
\* to stand for a connection of p.
OnlyOf(p) ==
    LET r == Other(p)
    IN  /\ entry'[r] = entry[r]
        /\ \A z \in Conn : Owner(z) = r =>
              /\ pcs'[z].sig = pcs[z].sig /\ pcs'[z].remote = pcs[z].remote
              /\ pcs'[z].state = pcs[z].state
        /\ \A c \in Conn : ends'[r][c] = ends[r][c] \/ c \in Fresh(p)
        /\ \A c \in Conn : Owner(c) = r /\ ends[r][c] \in {"none", "connecting"} =>
              (ends[p][c] = "none" => ends'[p][c] = "none")
        /\ \A q \in Queues : CalmQueue(r, q)

\* The entry has its connection, which comes no nearer to new and stays steady, or
\* a fresh one.
Moves(p) ==
    LET x == entry[p].conn
        y == entry'[p].conn
    IN  Live(p)' =>
          \/ y \in Fresh(p) /\ pcs'[y].state = "new" /\ pcs'[y].remote = Nothing
          \/ /\ Live(p) /\ y = x
             /\ pcs'[x].state = "new" => pcs[x].state = "new"
             /\ Steady(p) => Steady(p)' /\ pcs'[x].remote = pcs[x].remote

JoinsNot(p) == Joined(p)' => Joined(p) /\ entry'[p].conn = entry[p].conn

LEMMA OtherPeer ==
    ASSUME NEW p \in Peer
    PROVE  /\ Other(p) \in Peer /\ Other(p) # p /\ Other(Other(p)) = p
           /\ \A r \in Peer : r = p \/ r = Other(p)
  BY DEF Other, Peer

LEMMA LiveConn ==
    ASSUME NInv, NEW p \in Peer, Live(p)
    PROVE  entry[p].conn \in Conn /\ Owner(entry[p].conn) = p /\ entry[p].conn \notin closing
  BY EntryConn DEF Live, NInv, EntriesOwn

LEMMA FreshConn ==
    ASSUME NEW p \in Peer, NEW x \in Fresh(p)
    PROVE  /\ x \in Conn /\ Owner(x) = p /\ pcs[x].sig = "closed" /\ x \notin closing
           /\ \A r \in Peer : /\ entry[r].conn # x /\ entry[r].chan # x /\ ends[r][x] # "open"
                              /\ \A o \in AllOps(r) : o.arg # x /\ o.on # x
           /\ \A f \in net : f.type # "bye" => f.conn # x
           /\ \A y \in Conn : pcs[y].sig # "closed" => pcs[y].remote # x
  <1>1. /\ x \in Conn /\ Owner(x) = p /\ Unused(x)
    BY DEF Fresh
  <1>2. \A r \in Peer : \A o \in AllOps(r) : o.arg # x /\ o.on # x
    BY <1>1 DEF Unused, AllOps
  <1>3. \A r \in Peer : entry[r].conn # x /\ entry[r].chan # x /\ ends[r][x] # "open"
    BY <1>1 DEF Unused
  <1>4. /\ pcs[x].sig = "closed" /\ x \notin closing
        /\ \A f \in net : f.type # "bye" => f.conn # x
        /\ \A y \in Conn : pcs[y].sig # "closed" => pcs[y].remote # x
    BY <1>1 DEF Unused
  <1> QED
    BY <1>1, <1>2, <1>3, <1>4

LEMMA OtherStays ==
    ASSUME NInv, LinkInv, NEW p \in Peer, OnlyOf(p)
    PROVE  LET r == Other(p)
               x == entry[Other(p)].conn
           IN  /\ SameEdge(r) /\ EdgeInv(r)' /\ Moves(r) /\ JoinsNot(r)
               /\ Live(r)' => /\ Live(r) /\ HasChan(r)' = HasChan(r)
                              /\ entry'[r] = entry[r]
                              /\ pcs'[x].remote = pcs[x].remote /\ pcs'[x].state = pcs[x].state
               /\ \A c \in Conn : pcs[c].sig # "closed" => ends'[r][c] = ends[r][c]
  <1> DEFINE r == Other(p)
             x == entry[r].conn
  <1>1. r \in Peer /\ r # p /\ Other(r) = p
    BY OtherPeer
  <1>2. entry'[r] = entry[r]
    BY DEF OnlyOf
  <1>3. \A c \in Conn : pcs[c].sig # "closed" => ends'[r][c] = ends[r][c]
    BY FreshConn DEF OnlyOf
  <1>4. SameEdge(r)
    <2> SUFFICES ASSUME Live(r)' PROVE SameEdge(r)
      BY DEF SameEdge
    <2>1. x # Nothing /\ pcs'[x].sig # "closed"
      BY <1>2 DEF Live
    <2>2. x \in Conn /\ Owner(x) = r
      BY <1>1, <2>1, EntryConn DEF NInv, EntriesOwn
    <2>3. /\ pcs'[x].sig = pcs[x].sig /\ pcs'[x].remote = pcs[x].remote
          /\ pcs'[x].state = pcs[x].state
      BY <2>2 DEF OnlyOf
    <2>4. Live(r)
      BY <2>1, <2>3 DEF Live
    <2>5. ends'[r][x] = ends[r][x]
      BY <1>3, <2>1, <2>2, <2>3
    <2>6. ASSUME pcs[x].state = "new", ends[p][x] = "none"
          PROVE  ends'[p][x] = "none"
      <3>1. ChanWaits(r)
        BY <1>1, <2>4, <2>6 DEF LinkInv, EdgeInv
      <3>2. ends[r][x] \in {"none", "connecting"}
        BY <3>1 DEF ChanWaits, HasChan
      <3> QED
        BY <2>2, <2>6, <3>2 DEF OnlyOf
    <2> QED
      BY <1>1, <1>2, <2>3, <2>4, <2>5, <2>6 DEF SameEdge, OnlyOf
  <1>5. EdgeInv(r)'
    BY <1>1, <1>4, EdgeStays DEF LinkInv
  <1>6. Live(r)' => /\ Live(r) /\ HasChan(r)' = HasChan(r)
                    /\ pcs'[x].remote = pcs[x].remote /\ pcs'[x].state = pcs[x].state
    <2> SUFFICES ASSUME Live(r)'
                 PROVE  /\ Live(r) /\ HasChan(r)' = HasChan(r)
                        /\ pcs'[x].remote = pcs[x].remote /\ pcs'[x].state = pcs[x].state
      OBVIOUS
    <2>1. Live(r) /\ pcs'[x].remote = pcs[x].remote /\ pcs'[x].state = pcs[x].state
      BY <1>4 DEF SameEdge
    <2>2. ends'[r][x] = ends[r][x]
      BY <1>1, <1>3, <2>1, LiveConn DEF Live
    <2> QED
      BY <1>2, <2>1, <2>2 DEF HasChan
  <1>7. Steady(r) /\ Live(r)' => Steady(r)'
    <2> SUFFICES ASSUME Steady(r), Live(r)' PROVE Steady(r)'
      OBVIOUS
    <2>1. /\ entry'[r].conn = x /\ pcs'[x].sig = pcs[x].sig /\ pcs'[x].remote = pcs[x].remote
          /\ \A q \in Queues : CalmQueue(r, q)
      BY <1>4 DEF SameEdge
    <2>2. \A q \in Queues : /\ Dialling(r, q)' => Dialling(r, q)
                            /\ Yielding(r, q)' => Yielding(r, q)
                            /\ Setting(r, q)' => Setting(r, q) /\ Next1(r, q)' = Next1(r, q)
      BY <1>1, <2>1, CalmUnder
    <2> QED
      BY <2>1, <2>2 DEF Steady
  <1>8. Moves(r)
    BY <1>2, <1>6, <1>7 DEF Moves
  <1>9. JoinsNot(r)
    <2> SUFFICES ASSUME Joined(r)' PROVE Joined(r)
      BY <1>2 DEF JoinsNot
    <2>1. Live(r) /\ pcs'[x].state = pcs[x].state
      BY <1>6 DEF Joined
    <2>2. IsOpen(r)' => IsOpen(r)
      <3> SUFFICES ASSUME IsOpen(r)' PROVE IsOpen(r)
        OBVIOUS
      <3>1. entry[r].chan \in Conn /\ ends'[r][entry[r].chan] = "open"
        BY <1>1, <1>2, EntryConn DEF IsOpen, MaybeConn
      <3>2. entry[r].chan \notin Fresh(p)
        BY <1>1, FreshConn
      <3> QED
        BY <3>1, <3>2, ConnParts DEF OnlyOf, IsOpen
    <2> QED
      BY <1>2, <2>1, <2>2 DEF Joined
  <1> QED
    BY <1>2, <1>3, <1>4, <1>5, <1>6, <1>8, <1>9

-----------------------------------------------------------------------------
(* What the peers have together, after a step of one *)

LEMMA JoinedIsSteady ==
    ASSUME NInv, LinkInv, NEW p \in Peer, Joined(p)
    PROVE  Steady(p) /\ pcs[entry[p].conn].state # "new"
  <1>1. Live(p) /\ EdgeInv(p)
    BY DEF Joined, LinkInv
  <1>2. pcs[entry[p].conn].state # "new"
    <2> SUFFICES ASSUME pcs[entry[p].conn].state = "new" PROVE FALSE
      OBVIOUS
    <2>1. ChanWaits(p)
      BY <1>1 DEF EdgeInv
    <2>2. ~ IsOpen(p)
      BY <2>1 DEF ChanWaits, HasChan, IsOpen
    <2> QED
      BY <2>2 DEF Joined
  <1> QED
    BY <1>1, <1>2 DEF EdgeInv

\* A connection that is not closed is tied as it was, if what it has of its peer stays.
LEMMA TiedStays ==
    ASSUME NInv, NEW z \in Conn, pcs[z].sig # "closed", TiedTo(z),
           Moves(Other(Owner(z))), pcs'[z].remote = pcs[z].remote
    PROVE  TiedTo(z)'
  <1> DEFINE o == Other(Owner(z))
  <1> SUFFICES ASSUME Live(o)', pcs[z].remote = entry'[o].conn
               PROVE  pcs'[entry'[o].conn].remote = z /\ Steady(o)'
    BY DEF TiedTo
  <1>1. o \in Peer
    BY ConnParts
  <1>2. entry'[o].conn \notin Fresh(o)
    BY <1>1, FreshConn
  <1>3. /\ Live(o) /\ entry'[o].conn = entry[o].conn
        /\ Steady(o) => Steady(o)' /\ pcs'[entry[o].conn].remote = pcs[entry[o].conn].remote
    BY <1>2 DEF Moves
  <1>4. pcs[entry[o].conn].remote = z /\ Steady(o)
    BY <1>3 DEF TiedTo
  <1> QED
    BY <1>3, <1>4

LEMMA EntriesTiedKept ==
    ASSUME NInv, LinkInv, \A p \in Peer : Moves(p) /\ JoinsNot(p)
    PROVE  EntriesTied'
  <1> SUFFICES ASSUME NEW p \in Peer, NEW x, x = entry'[p].conn, Joined(p)'
               PROVE  TiedTo(x)'
    BY DEF EntriesTied, TiedTo
  <1>1. Joined(p) /\ entry[p].conn = x /\ Live(p)'
    BY DEF JoinsNot, Joined
  <1>2. x \in Conn /\ Owner(x) = p /\ pcs[x].sig # "closed"
    BY <1>1, LiveConn DEF Joined, Live
  <1>3. Steady(p)
    BY <1>1, JoinedIsSteady
  <1>4. pcs'[x].remote = pcs[x].remote
    <2>1. x \notin Fresh(p)
      BY <1>1, FreshConn
    <2> QED
      BY <1>1, <1>3, <2>1 DEF Moves
  <1>5. TiedTo(x)
    BY <1>1 DEF LinkInv, EntriesTied
  <1>6. Moves(Other(Owner(x)))
    BY <1>2, ConnParts
  <1> QED
    BY <1>1, <1>2, <1>4, <1>5, <1>6, TiedStays

\* What is under way on the connection of the entry is first in its queue.
LEMMA FirstOfQueue ==
    ASSUME NInv, LinkInv, NEW p \in Peer, NEW o \in AllOps(p), o.at # "start",
           o.on = entry[p].conn
    PROVE  \E q \in Queues : ops[p][q] # << >> /\ Next1(p, q) = o
  <1>1. PICK q \in Queues : \E i \in DOMAIN ops[p][q] : o = ops[p][q][i]
    BY DEF AllOps
  <1>2. PICK i \in DOMAIN ops[p][q] : o = ops[p][q][i]
    BY <1>1
  <1>3. i = 1
    BY <1>2 DEF LinkInv, LaterIdle
  <1>4. ops[p][q] \in Seq(LegalOp)
    BY DEF NInv, Typed, OpsTyped
  <1>5. ops[p][q] # << >> /\ Head(ops[p][q]) = ops[p][q][1]
    BY <1>2, <1>3, <1>4, HeadTailProperties
  <1> QED
    BY <1>2, <1>3, <1>5 DEF Next1

LEMMA SteadySetsNoOther ==
    ASSUME NInv, LinkInv, NEW p \in Peer, Live(p), Steady(p)
    PROVE  SetsNoOther(entry[p].conn)
  <1> DEFINE z == entry[p].conn
  <1>1. Owner(z) = p
    BY LiveConn
  <1> SUFFICES ASSUME NEW o \in AllOps(p), o.on = z
               PROVE  /\ ~ (o.kind = "dial" /\ o.at = "made")
                      /\ ~ (o.kind = "offer" /\ o.at = "yielding")
                      /\ o.kind = "offer" /\ o.at = "remote" => o.arg = pcs[z].remote
    BY <1>1 DEF SetsNoOther
  <1>2. CASE o.at = "start"
    BY <1>2
  <1>3. CASE o.at # "start"
    <2>1. PICK q \in Queues : ops[p][q] # << >> /\ Next1(p, q) = o
      BY <1>3, FirstOfQueue
    <2> QED
      BY <2>1 DEF Steady, Dialling, Yielding, Setting, Under, IsAt
  <1> QED
    BY <1>2, <1>3

LEMMA ClosingTiedKept ==
    ASSUME NInv, LinkInv, NInv', \A p \in Peer : Moves(p),
           \A z \in closing' : pcs'[z].sig # "closed" =>
              /\ pcs[z].sig # "closed" /\ pcs'[z].remote = pcs[z].remote
              /\ z \in closing \/ \E p \in Peer : z = entry[p].conn /\ Joined(p),
           \A p \in Peer : \A o \in AllOps(p)' :
              \/ o \in AllOps(p) \/ o.at = "start" \/ o.on \notin closing'
              \/ o.kind = "offer" /\ o.at = "made"
    PROVE  ClosingTied'
  <1> SUFFICES ASSUME NEW z \in closing', pcs'[z].sig # "closed"
               PROVE  TiedTo(z)' /\ SetsNoOther(z)'
    BY DEF ClosingTied
  <1>1. z \in Conn /\ Owner(z) \in Peer
    BY ConnParts DEF NInv, Typed, WiresTyped
  <1>2. /\ pcs[z].sig # "closed" /\ pcs'[z].remote = pcs[z].remote
        /\ z \in closing \/ \E p \in Peer : z = entry[p].conn /\ Joined(p)
    OBVIOUS
  <1>3. TiedTo(z) /\ SetsNoOther(z)
    <2>1. CASE z \in closing
      BY <1>2, <2>1 DEF LinkInv, ClosingTied
    <2>2. ASSUME NEW p \in Peer, z = entry[p].conn, Joined(p)
          PROVE  TiedTo(z) /\ SetsNoOther(z)
      <3>1. Live(p) /\ Steady(p)
        BY <2>2, JoinedIsSteady DEF Joined
      <3>2. SetsNoOther(z)
        BY <2>2, <3>1, SteadySetsNoOther
      <3>3. TiedTo(z)
        BY <2>2 DEF LinkInv, EntriesTied
      <3> QED
        BY <3>2, <3>3
    <2> QED
      BY <1>2, <2>1, <2>2
  <1>4. TiedTo(z)'
    BY <1>1, <1>2, <1>3, TiedStays, ConnParts
  <1>5. SetsNoOther(z)'
    <2>1. \A o \in AllOps(Owner(z))' :
             \/ o \in AllOps(Owner(z)) \/ o.at = "start" \/ o.on # z
             \/ o.kind = "offer" /\ o.at = "made"
      BY <1>1
    <2> QED
      BY <1>2, <1>3, <2>1 DEF SetsNoOther
  <1> QED
    BY <1>4, <1>5

\* The edge keeps its channel, and what it has of its peer, unless the polite peer
\* sets an offer that is under way.
KeepsChan(p) ==
    LET x == entry[p].conn
    IN  Live(p)' /\ entry'[p].conn = x /\ pcs'[x].state = "new" =>
          \/ HasChan(p)'
          \/ ~ HasChan(p) /\ (p = Impolite \/ pcs'[x].remote = pcs[x].remote)
          \/ p = Polite /\ \E o \in AllOps(p) : o.kind = "offer" /\ o.arg = pcs'[x].remote

\* Offers that come to be under way are those of a peer that has a channel.
LEMMA OfferMeansChanKept ==
    ASSUME NInv, LinkInv, Moves(Impolite), KeepsChan(Impolite),
           Live(Impolite)' /\ Offer(entry'[Impolite].conn) \in net' =>
             Offer(entry'[Impolite].conn) \in net \/ HasChan(Impolite)',
           \A o \in AllOps(Polite)' : o.kind = "offer" =>
             \/ Offer(o.arg) \in net
             \/ \E w \in AllOps(Polite) : w.kind = "offer" /\ w.arg = o.arg
    PROVE  OfferMeansChan'
  <1> DEFINE x == entry'[Impolite].conn
  <1> SUFFICES ASSUME Live(Impolite)', pcs'[x].state = "new",
                      \/ Offer(x) \in net'
                      \/ \E o \in AllOps(Polite)' : o.kind = "offer" /\ o.arg = x,
                      ~ HasChan(Impolite)'
               PROVE  FALSE
    BY DEF OfferMeansChan
  <1>1. Impolite \in Peer /\ Polite \in Peer
    BY DEF Peer
  <1>2. Offer(x) \in net \/ \E o \in AllOps(Polite) : o.kind = "offer" /\ o.arg = x
    OBVIOUS
  <1>3. x \notin Fresh(Impolite)
    <2> SUFFICES ASSUME x \in Fresh(Impolite) PROVE FALSE
      OBVIOUS
    <2>1. /\ \A f \in net : f.type # "bye" => f.conn # x
          /\ \A o \in AllOps(Polite) : o.arg # x
      BY <1>1, FreshConn
    <2>2. Offer(x).type = "offer" /\ Offer(x).conn = x
      BY DEF Offer
    <2> QED
      BY <1>2, <2>1, <2>2
  <1>4. Live(Impolite) /\ x = entry[Impolite].conn /\ pcs[x].state = "new"
    BY <1>3 DEF Moves
  <1>5. HasChan(Impolite)
    BY <1>2, <1>4 DEF LinkInv, OfferMeansChan
  <1>6. Impolite # Polite
    OBVIOUS
  <1> QED
    BY <1>4, <1>5, <1>6 DEF KeepsChan

LEMMA OneHasChanKept ==
    ASSUME NInv, LinkInv, \A p \in Peer : Moves(p) /\ KeepsChan(p)
    PROVE  OneHasChan'
  <1> DEFINE x == entry'[Impolite].conn
             y == entry'[Polite].conn
  <1> SUFFICES ASSUME Live(Impolite)', Live(Polite)',
                      pcs'[x].state = "new", pcs'[y].state = "new", pcs'[y].remote = x,
                      ~ HasChan(Impolite)', ~ HasChan(Polite)'
               PROVE  FALSE
    BY DEF OneHasChan
  <1>1. /\ Impolite \in Peer /\ Polite \in Peer /\ Impolite # Polite
        /\ Moves(Impolite) /\ Moves(Polite) /\ KeepsChan(Impolite) /\ KeepsChan(Polite)
    BY DEF Peer
  <1>2. x # Nothing
    BY DEF Live
  <1>3. Live(Polite) /\ y = entry[Polite].conn /\ pcs[y].state = "new"
    BY <1>1, <1>2 DEF Moves
  <1>4. \/ pcs[y].remote = x /\ ~ HasChan(Polite)
        \/ \E o \in AllOps(Polite) : o.kind = "offer" /\ o.arg = x
    BY <1>1, <1>3 DEF KeepsChan
  <1>5. x \notin Fresh(Impolite)
    <2>1. y \in Conn /\ pcs[y].sig # "closed"
      BY <1>1, <1>3, LiveConn DEF Live
    <2> QED
      BY <1>1, <1>4, <2>1, FreshConn
  <1>6. Live(Impolite) /\ x = entry[Impolite].conn /\ pcs[x].state = "new"
    BY <1>1, <1>5 DEF Moves
  <1>7. ~ HasChan(Impolite)
    BY <1>1, <1>6 DEF KeepsChan
  <1>8. CASE pcs[y].remote = x /\ ~ HasChan(Polite)
    BY <1>3, <1>6, <1>7, <1>8 DEF LinkInv, OneHasChan
  <1>9. CASE \E o \in AllOps(Polite) : o.kind = "offer" /\ o.arg = x
    BY <1>6, <1>7, <1>9 DEF LinkInv, OfferMeansChan
  <1> QED
    BY <1>4, <1>8, <1>9

\* Connections that are paired were, and their channels are as they were.
KeepsPair(p) ==
    Live(p) /\ Live(p)' /\ entry'[p].conn = entry[p].conn =>
       /\ pcs'[entry[p].conn].state = "connected" => pcs[entry[p].conn].state = "connected"
       /\ (\A r \in Peer : Live(r)) /\ Paired(entry[Impolite].conn, entry[Polite].conn) =>
            /\ entry'[p].chan = entry[p].chan
            /\ \A c \in {entry[Impolite].conn, entry[Polite].conn} : ends'[p][c] = ends[p][c]

LEMMA PairsWere ==
    ASSUME NInv, LinkInv, NEW p \in Peer, Moves(p), KeepsPair(p), Live(p)',
           pcs'[entry'[p].conn].state = "connected"
    PROVE  /\ Live(p) /\ entry'[p].conn = entry[p].conn
           /\ pcs[entry[p].conn].state = "connected"
           /\ pcs'[entry[p].conn].remote = pcs[entry[p].conn].remote
  <1>1. Live(p) /\ entry'[p].conn = entry[p].conn
    BY DEF Moves
  <1>2. pcs[entry[p].conn].state = "connected"
    BY <1>1 DEF KeepsPair
  <1>3. Steady(p)
    BY <1>1, <1>2 DEF LinkInv, EdgeInv
  <1>4. entry'[p].conn \notin Fresh(p)
    BY <1>1, FreshConn
  <1> QED
    BY <1>1, <1>2, <1>3, <1>4 DEF Moves

LEMMA ChannelsKept ==
    ASSUME NInv, LinkInv, \A p \in Peer : Moves(p) /\ KeepsPair(p)
    PROVE  Channels'
  <1> SUFFICES ASSUME NEW x, NEW y, x = entry'[Impolite].conn, y = entry'[Polite].conn,
                      Live(Impolite)', Live(Polite)', Paired(x, y)'
               PROVE  ImpoliteKept(x, y)' \/ PoliteKept(x, y)'
    BY DEF Channels, Paired, ImpoliteKept, PoliteKept
  <1>1. /\ Impolite \in Peer /\ Polite \in Peer
        /\ Moves(Impolite) /\ Moves(Polite) /\ KeepsPair(Impolite) /\ KeepsPair(Polite)
    BY DEF Peer
  <1>2. /\ Live(Impolite) /\ x = entry[Impolite].conn
        /\ pcs[x].state = "connected" /\ pcs[x].remote = y
        /\ Live(Polite) /\ y = entry[Polite].conn
        /\ pcs[y].state = "connected" /\ pcs[y].remote = x
    BY <1>1, PairsWere DEF Paired
  <1>3. Paired(x, y)
    BY <1>2 DEF Paired
  <1>4. \A p \in Peer : /\ entry'[p].chan = entry[p].chan
                        /\ ends'[p][x] = ends[p][x] /\ ends'[p][y] = ends[p][y]
    <2>1. \A p \in Peer : Live(p) /\ Live(p)' /\ entry'[p].conn = entry[p].conn
      BY <1>2 DEF Peer
    <2> QED
      BY <1>2, <1>3, <2>1 DEF KeepsPair
  <1>5. ImpoliteKept(x, y) \/ PoliteKept(x, y)
    BY <1>2, <1>3 DEF LinkInv, Channels
  <1> QED
    BY <1>1, <1>4, <1>5 DEF ImpoliteKept, PoliteKept

-----------------------------------------------------------------------------
(* A step of one peer *)

\* An operation was there, goes on with its argument on a connection of its peer,
\* or comes with a frame.
OpsFollow ==
    \A r \in Peer : \A o \in AllOps(r)' :
       \/ o \in AllOps(r)
       \/ /\ \E w \in AllOps(r) : w.kind = o.kind /\ w.arg = o.arg
          /\ Owner(o.on) = r
          /\ o.on \notin closing' \/ (o.kind = "offer" /\ o.at = "made")
       \/ /\ o.at = "start"
          /\ o.kind # "dial" => Owner(o.arg) = Other(r)
          /\ o.kind = "offer" => Offer(o.arg) \in net

\* What p sends: of the connection of its entry an offer only if that has a channel.
FramesFollow(p) ==
    \A f \in net' \ net :
       /\ f.type \in {"offer", "answer"} => f.to = Other(Owner(f.conn))
       /\ f.type = "offer" => Owner(f.conn) = p /\ (f.conn = entry'[p].conn => HasChan(p)')

\* What is closing was, or is the edge of p that was joined.
ClosingFollows(p) ==
    \A z \in closing' : pcs'[z].sig # "closed" =>
       /\ pcs[z].sig # "closed" /\ pcs'[z].remote = pcs[z].remote
       /\ z \in closing \/ (z = entry[p].conn /\ Joined(p))

LEMMA OfferParts ==
    ASSUME NEW x
    PROVE  /\ Offer(x).type = "offer" /\ Offer(x).conn = x /\ Offer(x).to = Other(Owner(x))
           /\ Answer(x).type = "answer" /\ Answer(x).conn = x /\ Answer(x).to = Other(Owner(x))
  BY DEF Offer, Answer

LEMMA OwnFramesKept ==
    ASSUME LinkInv, NEW p \in Peer, FramesFollow(p)
    PROVE  OwnFrames'
  <1> SUFFICES ASSUME NEW f \in net', f.type \in {"offer", "answer"}
               PROVE  f.to = Other(Owner(f.conn))
    BY DEF OwnFrames
  <1>1. CASE f \in net
    BY <1>1 DEF LinkInv, Owned, OwnFrames
  <1>2. CASE f \notin net
    BY <1>2 DEF FramesFollow
  <1> QED
    BY <1>1, <1>2

LEMMA OwnOpsKept ==
    ASSUME LinkInv, OpsFollow
    PROVE  OwnOps'
  <1> SUFFICES ASSUME NEW r \in Peer, NEW o \in AllOps(r)'
               PROVE  /\ o.kind # "dial" => Owner(o.arg) = Other(r)
                      /\ o.at # "start" => Owner(o.on) = r
    BY DEF OwnOps
  <1>1. \A w \in AllOps(r) : /\ w.kind # "dial" => Owner(w.arg) = Other(r)
                             /\ w.at # "start" => Owner(w.on) = r
    BY DEF LinkInv, Owned, OwnOps
  <1> QED
    BY <1>1 DEF OpsFollow

LEMMA LinkStep ==
    ASSUME NInv, NInv', LinkInv, NEW p \in Peer, OnlyOf(p),
           EdgeInv(p)', Moves(p), JoinsNot(p), KeepsChan(p), Channels' \/ KeepsPair(p),
           OpsFollow, LaterIdle', FramesFollow(p), ClosingFollows(p), OwnAnswers', OwnRemotes'
    PROVE  LinkInv'
  <1> DEFINE r == Other(p)
  <1>1. r \in Peer /\ r # p /\ \A s \in Peer : s = p \/ s = r
    BY OtherPeer
  <1>2. /\ SameEdge(r) /\ EdgeInv(r)' /\ Moves(r) /\ JoinsNot(r)
        /\ Live(r)' => /\ Live(r) /\ HasChan(r)' = HasChan(r)
                       /\ entry'[r] = entry[r]
                       /\ pcs'[entry[r].conn].remote = pcs[entry[r].conn].remote
                       /\ pcs'[entry[r].conn].state = pcs[entry[r].conn].state
        /\ \A c \in Conn : pcs[c].sig # "closed" => ends'[r][c] = ends[r][c]
    BY OtherStays
  <1>3. Owned'
    BY OwnFramesKept, OwnOpsKept DEF Owned
  <1>4. \A s \in Peer : EdgeInv(s)' /\ Moves(s) /\ JoinsNot(s)
    BY <1>1, <1>2
  <1>5. KeepsChan(r)
    BY <1>2 DEF KeepsChan
  <1>6. \A s \in Peer : KeepsChan(s)
    BY <1>1, <1>5
  <1>7. Impolite \in Peer /\ Polite \in Peer
    BY DEF Peer
  <1>8. OfferMeansChan'
    <2>1. ASSUME Live(Impolite)', Offer(entry'[Impolite].conn) \in net'
          PROVE  Offer(entry'[Impolite].conn) \in net \/ HasChan(Impolite)'
      <3> SUFFICES ASSUME Offer(entry'[Impolite].conn) \notin net
                   PROVE  HasChan(Impolite)'
        OBVIOUS
      <3>1. Owner(entry'[Impolite].conn) = p
        BY <2>1, OfferParts DEF FramesFollow
      <3>2. Owner(entry'[Impolite].conn) = Impolite
        BY <1>7, <2>1 DEF Live, NInv, EntriesOwn
      <3> QED
        BY <2>1, <3>1, <3>2, OfferParts DEF FramesFollow
    <2>2. ASSUME NEW o \in AllOps(Polite)', o.kind = "offer"
          PROVE  \/ Offer(o.arg) \in net
                 \/ \E w \in AllOps(Polite) : w.kind = "offer" /\ w.arg = o.arg
      BY <1>7, <2>2 DEF OpsFollow
    <2> QED
      BY <1>4, <1>6, <1>7, <2>1, <2>2, OfferMeansChanKept
  <1>9. OneHasChan'
    BY <1>4, <1>6, OneHasChanKept
  <1>10. Channels'
    <2> SUFFICES ASSUME KeepsPair(p) PROVE Channels'
      OBVIOUS
    <2>1. KeepsPair(r)
      <3> SUFFICES ASSUME Live(r), Live(r)' PROVE KeepsPair(r)
        BY DEF KeepsPair
      <3>1. /\ entry'[r] = entry[r]
            /\ pcs'[entry[r].conn].state = pcs[entry[r].conn].state
        BY <1>2
      <3>2. ASSUME \A s \in Peer : Live(s)
            PROVE  \A c \in {entry[Impolite].conn, entry[Polite].conn} : ends'[r][c] = ends[r][c]
        <4>1. \A c \in {entry[Impolite].conn, entry[Polite].conn} : c \in Conn /\ pcs[c].sig # "closed"
          BY <1>7, <3>2, LiveConn DEF Live
        <4> QED
          BY <1>2, <4>1
      <3> QED
        BY <3>1, <3>2 DEF KeepsPair
    <2> QED
      BY <1>1, <1>4, <2>1, ChannelsKept
  <1>11. EntriesTied'
    BY <1>4, EntriesTiedKept
  <1>12. ClosingTied'
    <2>1. \A z \in closing' : pcs'[z].sig # "closed" =>
              /\ pcs[z].sig # "closed" /\ pcs'[z].remote = pcs[z].remote
              /\ z \in closing \/ \E s \in Peer : z = entry[s].conn /\ Joined(s)
      BY DEF ClosingFollows
    <2>2. \A s \in Peer : \A o \in AllOps(s)' :
              \/ o \in AllOps(s) \/ o.at = "start" \/ o.on \notin closing'
              \/ o.kind = "offer" /\ o.at = "made"
      BY DEF OpsFollow
    <2> QED
      BY <1>4, <2>1, <2>2, ClosingTiedKept
  <1> QED
    BY <1>3, <1>4, <1>8, <1>9, <1>10, <1>11, <1>12 DEF LinkInv

\* The edge of p as it was keeps all of it.
LEMMA SameEdgeKeeps ==
    ASSUME NInv, LinkInv, NEW p \in Peer, SameEdge(p), IsOpen(p)' => IsOpen(p)
    PROVE  EdgeInv(p)' /\ Moves(p) /\ JoinsNot(p) /\ KeepsChan(p)
  <1> DEFINE x == entry[p].conn
  <1>1. EdgeInv(p)'
    BY EdgeStays DEF LinkInv
  <1>2. ASSUME Live(p)'
        PROVE  /\ Live(p) /\ entry'[p].conn = x /\ entry'[p].chan = entry[p].chan
               /\ pcs'[x].sig = pcs[x].sig /\ pcs'[x].remote = pcs[x].remote
               /\ pcs'[x].state = pcs[x].state
               /\ Steady(p) => Steady(p)'
               /\ pcs[x].state = "new" => HasChan(p)' = HasChan(p)
    <2>1. /\ Live(p) /\ entry'[p].conn = x /\ entry'[p].chan = entry[p].chan
          /\ pcs'[x].sig = pcs[x].sig /\ pcs'[x].remote = pcs[x].remote
          /\ pcs'[x].state = pcs[x].state
          /\ \A q \in Queues : CalmQueue(p, q)
      BY <1>2 DEF SameEdge
    <2>2. \A q \in Queues : /\ Dialling(p, q)' => Dialling(p, q)
                            /\ Yielding(p, q)' => Yielding(p, q)
                            /\ Setting(p, q)' => Setting(p, q) /\ Next1(p, q)' = Next1(p, q)
      BY <2>1, CalmUnder
    <2>3. Steady(p) => Steady(p)'
      BY <2>1, <2>2 DEF Steady
    <2>4. pcs[x].state = "new" => HasChan(p)' = HasChan(p)
      BY <1>2, <2>1 DEF SameEdge, HasChan
    <2> QED
      BY <2>1, <2>3, <2>4
  <1>3. Moves(p)
    BY <1>2 DEF Moves
  <1>4. JoinsNot(p)
    BY <1>2 DEF JoinsNot, Joined
  <1>5. KeepsChan(p)
    BY <1>2 DEF KeepsChan
  <1> QED
    BY <1>1, <1>3, <1>4, <1>5

\* A step that changes nothing of the connections, the channels and the entries but
\* what is not about the link.
LEMMA QuietLink ==
    ASSUME NInv, NInv', LinkInv, NEW p \in Peer, UNCHANGED << ends, closing >>,
           \A z \in Conn : /\ pcs'[z].sig = pcs[z].sig /\ pcs'[z].remote = pcs[z].remote
                           /\ pcs'[z].state = pcs[z].state,
           entry'[Other(p)] = entry[Other(p)],
           entry'[p].conn = entry[p].conn, entry'[p].chan = entry[p].chan,
           entry'[p].offered = entry[p].offered,
           \A r \in Peer, q \in Queues : CalmQueue(r, q),
           OpsFollow, LaterIdle', FramesFollow(p), OwnAnswers'
    PROVE  LinkInv'
  <1>1. Other(p) \in Peer
    BY OtherPeer
  <1>2. OnlyOf(p)
    <2>1. ends' = ends
      OBVIOUS
    <2> QED
      BY <1>1, <2>1 DEF OnlyOf
  <1>3. SameEdge(p)
    <2> SUFFICES ASSUME Live(p)' PROVE SameEdge(p)
      BY DEF SameEdge
    <2>1. entry[p].conn \in Conn
      BY EntryConn DEF Live
    <2>2. Live(p)
      BY <2>1 DEF Live
    <2> QED
      BY <2>1, <2>2 DEF SameEdge
  <1>4. IsOpen(p)' => IsOpen(p)
    BY DEF IsOpen
  <1>5. EdgeInv(p)' /\ Moves(p) /\ JoinsNot(p) /\ KeepsChan(p)
    BY <1>3, <1>4, SameEdgeKeeps
  <1>6. KeepsPair(p)
    BY EntryConn DEF KeepsPair, Live
  <1>7. closing \subseteq Conn /\ ClosingFollows(p)
    BY DEF ClosingFollows, NInv, Typed, WiresTyped
  <1>8. OwnRemotes'
    BY DEF LinkInv, Owned, OwnRemotes
  <1> QED
    BY <1>2, <1>5, <1>6, <1>7, <1>8, LinkStep

-----------------------------------------------------------------------------
(* Steps that leave the link alone *)

SameConns ==
    \A z \in Conn : /\ pcs'[z].sig = pcs[z].sig /\ pcs'[z].remote = pcs[z].remote
                    /\ pcs'[z].state = pcs[z].state
SameEntries(p) ==
    /\ \A r \in Peer \ {p} : entry'[r] = entry[r]
    /\ entry'[p].conn = entry[p].conn /\ entry'[p].chan = entry[p].chan
    /\ entry'[p].offered = entry[p].offered
SameLink(p) == /\ ends' = ends /\ closing' = closing
               /\ SameConns /\ SameEntries(p)

LEMMA NoOffers ==
    ASSUME NEW p \in Peer, NEW x, net' \subseteq net \cup {Answer(x)}
    PROVE  FramesFollow(p)
  BY OfferParts DEF FramesFollow

LEMMA FewerFrames ==
    ASSUME NEW p \in Peer, net' \subseteq net
    PROVE  FramesFollow(p)
  BY DEF FramesFollow

LEMMA SameAnswers ==
    ASSUME LinkInv, \A r \in Peer : pending'[r].answer \in {Nothing, pending[r].answer}
    PROVE  OwnAnswers'
  BY DEF LinkInv, Owned, OwnAnswers

LEMMA SameOps ==
    ASSUME LinkInv, UNCHANGED ops, \A r \in Peer : entry'[r].conn = entry[r].conn
    PROVE  /\ OpsFollow /\ LaterIdle'
           /\ \A r \in Peer, q \in Queues : CalmQueue(r, q)
  <1>1. ops' = ops
    OBVIOUS
  <1>2. \A r \in Peer : AllOps(r)' = AllOps(r)
    BY <1>1 DEF AllOps
  <1>3. LaterIdle'
    BY <1>1 DEF LinkInv, LaterIdle
  <1>4. \A r \in Peer, q \in Queues : CalmQueue(r, q)
    BY <1>1 DEF CalmQueue
  <1> QED
    BY <1>2, <1>3, <1>4 DEF OpsFollow

LEMMA QuietStill ==
    ASSUME NInv, NInv', LinkInv, NEW p \in Peer, SameLink(p), UNCHANGED ops,
           FramesFollow(p), OwnAnswers'
    PROVE  LinkInv'
  <1>1. /\ \A r \in Peer : entry'[r].conn = entry[r].conn
        /\ Other(p) \in Peer \ {p}
    BY OtherPeer DEF SameLink, SameEntries
  <1>2. /\ OpsFollow /\ LaterIdle'
        /\ \A r \in Peer, q \in Queues : CalmQueue(r, q)
    BY <1>1, SameOps
  <1> QED
    BY <1>1, <1>2, QuietLink DEF SameLink, SameConns, SameEntries

LEMMA QuietDone ==
    ASSUME NInv, NInv', LinkInv, NEW p \in Peer, NEW q \in Queues, ops[p][q] # << >>,
           SameLink(p), Done(p, q), FramesFollow(p), OwnAnswers'
    PROVE  LinkInv'
  <1>1. /\ \A r \in Peer : entry'[r].conn = entry[r].conn
        /\ Other(p) \in Peer \ {p}
    BY OtherPeer DEF SameLink, SameEntries
  <1>2. /\ \A r \in Peer : AllOps(r)' \subseteq AllOps(r)
        /\ \A r \in Peer, s \in Queues : CalmQueue(r, s)
        /\ LaterIdle'
    BY <1>1, DoneCalmly DEF NInv, Typed, LinkInv
  <1>3. OpsFollow
    BY <1>2 DEF OpsFollow
  <1> QED
    BY <1>1, <1>2, <1>3, QuietLink DEF SameLink, SameConns, SameEntries

LEMMA QuietComes ==
    ASSUME NInv, NInv', LinkInv, NEW p \in Peer, NEW x \in MaybeConn,
           NEW kind \in {"dial", "offer", "answer"},
           kind # "dial" => x \in Conn /\ Owner(x) = Other(p),
           kind = "offer" => Offer(x) \in net,
           SameLink(p), ops' = Enqueued(p, kind, x), FramesFollow(p), OwnAnswers'
    PROVE  LinkInv'
  <1>1. /\ \A r \in Peer : entry'[r].conn = entry[r].conn
        /\ Other(p) \in Peer \ {p}
    BY OtherPeer DEF SameLink, SameEntries
  <1>2. kind = "dial" \/ x \in Conn
    OBVIOUS
  <1>3. /\ \A r \in Peer, q \in Queues : CalmQueue(r, q)
        /\ LaterIdle'
        /\ \A r \in Peer : \A w \in AllOps(r)' :
              \/ w \in AllOps(r)
              \/ r = p /\ w.kind = kind /\ w.arg = x /\ w.at = "start" /\ w.on = Nothing
    BY <1>1, <1>2, ComesCalmly DEF NInv, Typed, LinkInv
  <1>4. OpsFollow
    <2> SUFFICES ASSUME NEW r \in Peer, NEW o \in AllOps(r)', o \notin AllOps(r)
                 PROVE  /\ o.at = "start"
                        /\ o.kind # "dial" => Owner(o.arg) = Other(r)
                        /\ o.kind = "offer" => Offer(o.arg) \in net
      BY DEF OpsFollow
    <2> QED
      BY <1>3
  <1> QED
    BY <1>1, <1>3, <1>4, QuietLink DEF SameLink, SameConns, SameEntries

\* Fields of a record that a step leaves.
LEMMA NothingOfLink ==
    ASSUME NEW p \in Peer, UNCHANGED << pcs, ends, entry, closing >>
    PROVE  SameLink(p)
  BY DEF SameLink, SameConns, SameEntries

LEMMA DialLink ==
    ASSUME NInv, NInv', LinkInv, NEW p \in Peer, Dial(p)
    PROVE  LinkInv'
  <1>1. /\ UNCHANGED << pcs, ends, entry, pending, closing, net >>
        /\ ops' = Enqueued(p, "dial", Nothing)
    BY DEF Dial
  <1>2. SameLink(p)
    BY <1>1, NothingOfLink
  <1>3. FramesFollow(p)
    BY <1>1, FewerFrames
  <1>4. OwnAnswers'
    BY <1>1, SameAnswers
  <1>5. Nothing \in MaybeConn
    BY ConnParts
  <1> QED
    BY <1>1, <1>2, <1>3, <1>4, <1>5, QuietComes

LEMMA LoseLink ==
    ASSUME NInv, NInv', LinkInv, NEW f \in net, Lose(f)
    PROVE  LinkInv'
  <1>1. Impolite \in Peer
    BY DEF Peer
  <1>2. UNCHANGED << pcs, ends, entry, pending, ops, closing >> /\ net' \subseteq net
    BY DEF Lose
  <1>3. SameLink(Impolite) /\ FramesFollow(Impolite) /\ OwnAnswers'
    BY <1>1, <1>2, NothingOfLink, FewerFrames, SameAnswers
  <1> QED
    BY <1>1, <1>2, <1>3, QuietStill

LEMMA NegotiationStillLink ==
    ASSUME NInv, NInv', LinkInv, UNCHANGED negotiationVars
    PROVE  LinkInv'
  <1>1. Impolite \in Peer
    BY DEF Peer
  <1>2. UNCHANGED << pcs, ends, entry, pending, ops, closing >> /\ net' \subseteq net
    BY DEF negotiationVars
  <1>3. SameLink(Impolite) /\ FramesFollow(Impolite) /\ OwnAnswers'
    BY <1>1, <1>2, NothingOfLink, FewerFrames, SameAnswers
  <1> QED
    BY <1>1, <1>2, <1>3, QuietStill

LEMMA BurstFiresLink ==
    ASSUME NInv, NInv', LinkInv, NEW p \in Peer, BurstFires(p)
    PROVE  LinkInv'
  <1>1. UNCHANGED << pcs, ends, entry, pending, ops, closing >>
    BY DEF BurstFires
  <1>2. net' \subseteq net \cup {Answer(burst[p].conn)}
    BY DEF BurstFires, Resend
  <1>3. SameLink(p) /\ FramesFollow(p) /\ OwnAnswers'
    BY <1>1, <1>2, NothingOfLink, NoOffers, SameAnswers
  <1> QED
    BY <1>1, <1>3, QuietStill

\* Its own channel waits when a connection has made an offer, and has no answer.
LEMMA UnansweredHasChan ==
    ASSUME NInv, LinkInv, NEW p \in Peer, Live(p), pcs[entry[p].conn].sig = "have-local-offer"
    PROVE  HasChan(p) /\ pcs[entry[p].conn].state = "new"
  <1>1. pcs[entry[p].conn].state = "new"
    BY DEF LinkInv, EdgeInv, Steady
  <1>2. ChanWaits(p)
    BY <1>1 DEF LinkInv, EdgeInv
  <1> QED
    BY <1>1, <1>2 DEF ChanWaits

\* The retries that are left say nothing of the link.
LEMMA LeftIsQuiet ==
    ASSUME NInv, NEW x \in Conn, NEW left \in 0 .. MaxRetries + 1,
           pcs' = [pcs EXCEPT ![x].left = left]
    PROVE  SameConns
  BY DEF NInv, Typed, ConnsTyped, ConnRecord, SameConns

LEMMA OfferAgain ==
    ASSUME NInv, LinkInv, NEW x \in Conn, Unanswered(x), UNCHANGED << ends, entry >>,
           net' \subseteq net \cup {Offer(x)}
    PROVE  FramesFollow(Owner(x))
  <1> DEFINE p == Owner(x)
  <1>1. p \in Peer /\ entry[p].conn = x /\ Live(p)
    BY ConnParts DEF Unanswered, Live
  <1>2. HasChan(p)
    BY <1>1, UnansweredHasChan DEF Unanswered
  <1>3. HasChan(p)'
    BY <1>2 DEF HasChan
  <1> QED
    BY <1>3, OfferParts DEF FramesFollow

LEMMA ResetBackoffLink ==
    ASSUME NInv, NInv', LinkInv, NEW x \in Conn, ResetBackoff(x)
    PROVE  LinkInv'
  <1> DEFINE p == Owner(x)
  <1>1. p \in Peer
    BY ConnParts
  <1>2. /\ Unanswered(x)
        /\ pcs' = [pcs EXCEPT ![x].left = FullBackoff]
        /\ UNCHANGED << ends, entry, pending, ops, closing >>
        /\ net' \subseteq net \cup {Offer(x)}
    BY DEF ResetBackoff, Resend
  <1>3. FullBackoff \in 0 .. MaxRetries + 1
    BY DEF FullBackoff
  <1>4. SameConns
    BY <1>2, <1>3, LeftIsQuiet
  <1>5. SameLink(p)
    BY <1>2, <1>4 DEF SameLink, SameEntries
  <1>6. FramesFollow(p) /\ OwnAnswers'
    BY <1>2, OfferAgain, SameAnswers
  <1> QED
    BY <1>1, <1>2, <1>5, <1>6, QuietStill

LEMMA AnsweredAgainLink ==
    ASSUME NInv, NInv', LinkInv, NEW p \in Peer, NEW q \in Queues, NEW o, ops[p][q] # << >>,
           OfferOnOpenChannel(p, q, o) \/ RetriedOffer(p, q, o)
    PROVE  LinkInv'
  <1>1. UNCHANGED << pcs, ends, entry, pending, closing >> /\ Done(p, q)
    BY DEF OfferOnOpenChannel, RetriedOffer
  <1>2. net' \subseteq net \cup {Answer(entry[p].conn)}
    BY DEF OfferOnOpenChannel, RetriedOffer
  <1>3. SameLink(p) /\ FramesFollow(p) /\ OwnAnswers'
    BY <1>1, <1>2, NothingOfLink, NoOffers, SameAnswers
  <1> QED
    BY <1>1, <1>3, QuietDone

-----------------------------------------------------------------------------
(* Steps after which the edge is gone, or a fresh connection *)

LEMMA EdgeGoes ==
    ASSUME NInv, NInv', LinkInv, NEW p \in Peer, ~ Live(p)', OnlyOf(p),
           OpsFollow, LaterIdle', FramesFollow(p), ClosingFollows(p), OwnAnswers', OwnRemotes'
    PROVE  LinkInv'
  <1>1. EdgeInv(p)' /\ Moves(p) /\ JoinsNot(p) /\ KeepsChan(p) /\ KeepsPair(p)
    BY DEF EdgeInv, Moves, JoinsNot, Joined, KeepsChan, KeepsPair
  <1> QED
    BY <1>1, LinkStep

LEMMA ShutEndsOf ==
    ASSUME NEW E \in [Peer -> [Conn -> EndState]], NEW p \in Peer, NEW S,
           \A x \in S : Owner(x) = p
    PROVE  /\ \A r \in Peer \ {p}, c \in Conn : ShutEnds(E, S)[r][c] = E[r][c]
           /\ \A c \in Conn : E[p][c] = "none" => ShutEnds(E, S)[p][c] = "none"
           /\ \A c \in Conn : ShutEnds(E, S)[p][c] # E[p][c] =>
                 \E x \in S : c \in {x, pcs[x].remote}
  BY DEF ShutEnds

\* What closing connections of p leaves of the others.
LEMMA ShutLeaves ==
    ASSUME NInv, LinkInv, NEW p \in Peer, NEW S, \A x \in S : Owner(x) = p
    PROVE  /\ \A z \in Conn : Shut(pcs, S)[z] = IF z \in S THEN NoConn ELSE pcs[z]
           /\ \A r \in Peer \ {p}, c \in Conn : ShutEnds(ends, S)[r][c] = ends[r][c]
           /\ \A c \in Conn : ends[p][c] = "none" => ShutEnds(ends, S)[p][c] = "none"
           /\ \A c \in Conn : ShutEnds(ends, S)[p][c] # ends[p][c] =>
                 \E x \in S : c \in {x, pcs[x].remote}
  <1>1. pcs \in [Conn -> ConnRecord] /\ ends \in [Peer -> [Conn -> EndState]]
    BY DEF NInv, Typed, ConnsTyped, EndsTyped
  <1> QED
    BY <1>1, ShutTyped, ShutEndsOf

LEMMA ClosedConn ==
    NoConn.sig = "closed" /\ NoConn.remote = Nothing /\ NoConn.state = "new"
  BY DEF NoConn

\* One connection of p is closed, its edge's.
LEMMA ConnShuts ==
    ASSUME NInv, LinkInv, NEW p \in Peer, NEW x \in Conn, Owner(x) = p,
           pcs' = Shut(pcs, {x}),
           \A r \in Peer, c \in Conn :
              \/ ends'[r][c] = ShutEnds(ends, {x})[r][c]
              \/ r = p /\ ends[p][c] # "none",
           \A r \in Peer \ {p} : entry'[r] = entry[r] /\ ops'[r] = ops[r]
    PROVE  /\ OnlyOf(p) /\ OwnRemotes' /\ pcs'[x].sig = "closed"
           /\ \A z \in Conn : pcs'[z].sig # "closed" => pcs'[z] = pcs[z]
  <1> DEFINE r == Other(p)
  <1>1. r \in Peer \ {p}
    BY OtherPeer
  <1>2. /\ \A z \in Conn : pcs'[z] = IF z = x THEN NoConn ELSE pcs[z]
        /\ \A c \in Conn : ShutEnds(ends, {x})[r][c] = ends[r][c]
        /\ \A c \in Conn : ends[p][c] = "none" => ShutEnds(ends, {x})[p][c] = "none"
    BY <1>1, ShutLeaves
  <1>3. \A c \in Conn : ends'[r][c] = ends[r][c]
    BY <1>1, <1>2
  <1>4. \A c \in Conn : ends[p][c] = "none" => ends'[p][c] = "none"
    BY <1>2
  <1>5. \A q \in Queues : CalmQueue(r, q)
    BY <1>1 DEF CalmQueue
  <1>6. \A z \in Conn : Owner(z) = r => pcs'[z] = pcs[z]
    BY <1>1, <1>2
  <1>7. entry'[r] = entry[r]
    BY <1>1
  <1>8. OnlyOf(p)
    BY <1>3, <1>4, <1>5, <1>6, <1>7 DEF OnlyOf
  <1>9. OwnRemotes'
    <2> SUFFICES ASSUME NEW z \in Conn
                 PROVE  /\ pcs'[z].remote # Nothing => Owner(pcs'[z].remote) = Other(Owner(z))
                        /\ pcs'[z].sig = "closed" => pcs'[z].remote = Nothing /\ pcs'[z].state = "new"
      BY DEF OwnRemotes
    <2>1. /\ pcs[z].remote # Nothing => Owner(pcs[z].remote) = Other(Owner(z))
          /\ pcs[z].sig = "closed" => pcs[z].remote = Nothing /\ pcs[z].state = "new"
      BY DEF LinkInv, Owned, OwnRemotes
    <2>2. pcs'[z] = NoConn \/ pcs'[z] = pcs[z]
      BY <1>2
    <2> QED
      BY <2>1, <2>2, ClosedConn
  <1>10. pcs'[x].sig = "closed"
    BY <1>2, ClosedConn
  <1>11. \A z \in Conn : pcs'[z].sig # "closed" => pcs'[z] = pcs[z]
    BY <1>2, <1>10
  <1> QED
    BY <1>8, <1>9, <1>10, <1>11

LEMMA RetryFiresLink ==
    ASSUME NInv, NInv', LinkInv, NEW x \in Conn, RetryFires(x)
    PROVE  LinkInv'
  <1> DEFINE p == Owner(x)
  <1>1. p \in Peer /\ UNCHANGED << pending, ops, closing >>
    BY ConnParts DEF RetryFires
  <1>2. OwnAnswers'
    BY <1>1, SameAnswers
  <1>3. CASE /\ pcs' = [pcs EXCEPT ![x].left = 0]
             /\ UNCHANGED << ends, entry, net, spent >>
    <2>1. 0 \in 0 .. MaxRetries + 1
      OBVIOUS
    <2>2. SameConns
      BY <1>3, <2>1, LeftIsQuiet
    <2>3. SameLink(p)
      BY <1>1, <1>3, <2>2 DEF SameLink, SameEntries
    <2>4. FramesFollow(p)
      BY <1>1, <1>3, FewerFrames
    <2> QED
      BY <1>1, <1>2, <2>3, <2>4, QuietStill
  <1>4. CASE /\ Unanswered(x)
             /\ pcs' = Shut(pcs, {x})
             /\ ends' = ShutEnds(ends, {x})
             /\ entry' = [entry EXCEPT ![p].state = "dead"]
             /\ UNCHANGED << net, spent >>
    <2>1. /\ \A r \in Peer \ {p} : entry'[r] = entry[r]
          /\ \A r \in Peer : entry'[r].conn = entry[r].conn
      BY <1>1, <1>4 DEF NInv, Typed, EntriesTyped, EntryRecord
    <2>2. /\ OnlyOf(p) /\ OwnRemotes' /\ pcs'[x].sig = "closed"
          /\ \A z \in Conn : pcs'[z].sig # "closed" => pcs'[z] = pcs[z]
      BY <1>1, <1>4, <2>1, ConnShuts
    <2>3. ~ Live(p)'
      BY <1>4, <2>1, <2>2 DEF Live, Unanswered
    <2>4. OpsFollow /\ LaterIdle'
      BY <1>1, <2>1, SameOps
    <2>5. FramesFollow(p)
      BY <1>1, <1>4, FewerFrames
    <2>6. closing \subseteq Conn /\ ClosingFollows(p)
      BY <1>1, <2>2 DEF ClosingFollows, NInv, Typed, WiresTyped
    <2> QED
      BY <1>1, <1>2, <2>2, <2>3, <2>4, <2>5, <2>6, EdgeGoes
  <1>5. CASE /\ Unanswered(x) /\ pcs[x].left > 0 /\ pcs[x].left # 1
             /\ pcs' = [pcs EXCEPT ![x].left = @ - 1]
             /\ Resend(Offer(x))
             /\ UNCHANGED << ends, entry >>
    <2>1. pcs[x].left - 1 \in 0 .. MaxRetries + 1
      BY <1>5 DEF NInv, Typed, ConnsTyped, ConnRecord
    <2>2. SameConns
      BY <1>5, <2>1, LeftIsQuiet
    <2>3. SameLink(p)
      BY <1>1, <1>5, <2>2 DEF SameLink, SameEntries
    <2>4. FramesFollow(p)
      BY <1>5, OfferAgain DEF Resend
    <2> QED
      BY <1>1, <1>2, <2>3, <2>4, QuietStill
  <1> QED
    BY <1>3, <1>4, <1>5 DEF RetryFires

LEMMA KeepaliveClosesLink ==
    ASSUME NInv, NInv', LinkInv, NEW p \in Peer, KeepaliveCloses(p)
    PROVE  LinkInv'
  <1> DEFINE x == entry[p].conn
             c == entry[p].chan
  <1>1. /\ IsOpen(p) /\ UNCHANGED << pending, ops, closing, net >>
        /\ pcs' = Shut(pcs, {x})
        /\ ends' = [ShutEnds(ends, {x}) EXCEPT ![p][c] = "closed"]
        /\ entry' = [entry EXCEPT ![p].state = "dead"]
    BY DEF KeepaliveCloses
  <1>2. x \in Conn /\ Owner(x) = p /\ c \in Conn /\ ends[p][c] = "open"
    <2>1. x \in Conn
      BY <1>1, EntryConn
    <2>2. c \in Conn /\ ends[p][c] = "open"
      BY <1>1, EntryConn DEF IsOpen, MaybeConn
    <2>3. Owner(x) = p
      BY <2>1, ConnParts DEF NInv, EntriesOwn
    <2> QED
      BY <2>1, <2>2, <2>3
  <1>3. /\ \A r \in Peer \ {p} : entry'[r] = entry[r]
        /\ \A r \in Peer : entry'[r].conn = entry[r].conn
    BY <1>1 DEF NInv, Typed, EntriesTyped, EntryRecord
  <1>4. \A r \in Peer, d \in Conn :
           ends'[r][d] = ShutEnds(ends, {x})[r][d] \/ (r = p /\ ends[p][d] # "none")
    <2> DEFINE E == ShutEnds(ends, {x})
    <2>1. E \in [Peer -> [Conn -> EndState]]
      BY ShutEndsTyped DEF NInv, Typed, EndsTyped
    <2>2. ends' = [E EXCEPT ![p][c] = "closed"]
      BY <1>1
    <2> HIDE DEF E, c
    <2>3. \A r \in Peer, d \in Conn : ends'[r][d] = E[r][d] \/ (r = p /\ d = c)
      BY <1>2, <2>1, <2>2
    <2> QED
      BY <1>2, <2>3 DEF E
  <1>5. /\ OnlyOf(p) /\ OwnRemotes' /\ pcs'[x].sig = "closed"
        /\ \A z \in Conn : pcs'[z].sig # "closed" => pcs'[z] = pcs[z]
    BY <1>1, <1>2, <1>3, <1>4, ConnShuts
  <1>6. ~ Live(p)'
    BY <1>3, <1>5 DEF Live
  <1>7. OpsFollow /\ LaterIdle'
    BY <1>1, <1>3, SameOps
  <1>8. FramesFollow(p) /\ OwnAnswers'
    BY <1>1, FewerFrames, SameAnswers
  <1>9. closing \subseteq Conn /\ ClosingFollows(p)
    BY <1>1, <1>5 DEF ClosingFollows, NInv, Typed, WiresTyped
  <1> QED
    BY <1>5, <1>6, <1>7, <1>8, <1>9, EdgeGoes

\* The operations of queues that are deleted while they run.
LEMMA DetachedOps ==
    ASSUME NInv, NEW p \in Peer, ops' = [ops EXCEPT ![p] = Detached(ops[p])]
    PROVE  /\ \A r \in Peer \ {p} : ops'[r] = ops[r]
           /\ \A r \in Peer : AllOps(r)' \subseteq AllOps(r)
           /\ OpsTyped'
  <1>1. /\ \A r \in Peer \ {p} : ops'[r] = ops[r]
        /\ ops'[p] = Detached(ops[p])
    BY DEF NInv, Typed, OpsTyped
  <1>2. "queue" \in Queues /\ "detached" \in Queues /\ \A q \in Queues : q \in {"queue", "detached"}
    BY DEF Queues
  <1> DEFINE s == ops[p]["detached"]
             t == ops[p]["queue"]
  <1>3. s \in Seq(LegalOp) /\ t \in Seq(LegalOp)
    BY <1>2 DEF NInv, Typed, OpsTyped
  <1>4. ops'[p]["queue"] = << >> /\ ops'[p]["detached"] = s \o t
    BY <1>1, <1>2 DEF Detached
  <1>5. \A i \in DOMAIN (s \o t) : (s \o t)[i] \in AllOps(p) /\ (s \o t)[i] \in LegalOp
    <2>1. /\ \A i \in DOMAIN s : s[i] \in AllOps(p) /\ s[i] \in LegalOp
          /\ \A i \in DOMAIN t : t[i] \in AllOps(p) /\ t[i] \in LegalOp
      BY <1>2, <1>3 DEF AllOps
    <2> HIDE DEF s, t
    <2> SUFFICES ASSUME NEW i \in DOMAIN (s \o t)
                 PROVE  (s \o t)[i] \in AllOps(p) /\ (s \o t)[i] \in LegalOp
      OBVIOUS
    <2>2. /\ i \in 1 .. Len(s) + Len(t)
          /\ (s \o t)[i] = IF i <= Len(s) THEN s[i] ELSE t[i - Len(s)]
      BY <1>3, ConcatProperties
    <2>3. CASE i <= Len(s)
      BY <1>3, <2>1, <2>2, <2>3
    <2>4. CASE i > Len(s)
      <3>1. i - Len(s) \in DOMAIN t
        BY <1>3, <2>2, <2>4
      <3> QED
        BY <1>3, <2>1, <2>2, <2>4, <3>1
    <2> QED
      BY <1>3, <2>2, <2>3, <2>4
  <1>6. ASSUME NEW o \in AllOps(p)'
        PROVE  o \in AllOps(p)
    <2>1. PICK q \in Queues : \E i \in DOMAIN ops'[p][q] : o = ops'[p][q][i]
      BY DEF AllOps
    <2>2. CASE q = "queue"
      BY <1>4, <2>1, <2>2
    <2>3. CASE q = "detached"
      <3> HIDE DEF s, t
      <3> QED
        BY <1>4, <1>5, <2>1, <2>3
    <2> QED
      BY <1>2, <2>2, <2>3
  <1>7. ASSUME NEW r \in Peer \ {p}
        PROVE  AllOps(r)' \subseteq AllOps(r)
    BY <1>1 DEF AllOps
  <1>8. OpsTyped'
    <2>1. << >> \in Seq(LegalOp) /\ s \o t \in Seq(LegalOp)
      BY <1>3, ConcatProperties
    <2>2. Detached(ops[p]) \in [Queues -> Seq(LegalOp)]
      BY <2>1 DEF Detached
    <2> QED
      BY <2>2 DEF NInv, Typed, OpsTyped
  <1> QED
    BY <1>1, <1>6, <1>7, <1>8

LEMMA ForgetEdgeLink ==
    ASSUME NInv, NInv', LinkInv, NEW p \in Peer, NEW flush \in BOOLEAN, ForgetEdge(p, flush),
           entry[p].conn # Nothing, flush => IsOpen(p), FramesFollow(p)
    PROVE  LinkInv'
  <1> DEFINE x == entry[p].conn
  <1>1. x \in Conn /\ Owner(x) = p
    BY EntryConn DEF NInv, EntriesOwn
  <1>2. /\ \A r \in Peer \ {p} : entry'[r] = entry[r]
        /\ entry'[p].conn = Nothing
    BY DEF ForgetEdge, NoEntry, EntryOf, NInv, Typed, EntriesTyped
  <1>3. ~ Live(p)'
    BY <1>2 DEF Live
  <1>4. /\ \A r \in Peer \ {p} : ops'[r] = ops[r]
        /\ \A r \in Peer : AllOps(r)' \subseteq AllOps(r)
        /\ OpsTyped'
    BY DetachedOps DEF ForgetEdge
  <1>5. OpsFollow
    BY <1>4 DEF OpsFollow
  <1>6. LaterIdle'
    <2> SUFFICES ASSUME NEW r \in Peer, NEW q \in Queues, NEW i, i \in DOMAIN ops'[r][q],
                        i # 1, ops'[r][q][i].at # "start"
                 PROVE  ops'[r][q][i].on # entry'[r].conn
      BY DEF LaterIdle
    <2>1. CASE r = p
      <3>1. ops'[p][q] \in Seq(LegalOp)
        BY <1>4 DEF OpsTyped
      <3>2. ops'[p][q][i] \in LegalOp
        BY <2>1, <3>1
      <3>3. ops'[p][q][i].on \in Conn
        BY <2>1, <3>2 DEF LegalOp
      <3> QED
        BY <1>2, <2>1, <3>3, ConnParts
    <2>2. CASE r # p
      BY <1>2, <1>4, <2>2 DEF LinkInv, LaterIdle
    <2> QED
      BY <2>1, <2>2
  <1>7. OwnAnswers'
    <2>1. pending' = [pending EXCEPT ![p] = NoAnswer]
      BY DEF ForgetEdge
    <2>2. \A r \in Peer : pending'[r].answer \in {Nothing, pending[r].answer}
      BY <2>1 DEF NoAnswer, NInv, Typed, MemoryTyped
    <2> QED
      BY <2>2, SameAnswers
  <1>8. CASE flush
    <2>1. /\ closing' = closing \cup {x}
          /\ pcs' = [pcs EXCEPT ![x].left = 0]
          /\ ends' = ends
      BY <1>8 DEF ForgetEdge
    <2>2. 0 \in 0 .. MaxRetries + 1
      OBVIOUS
    <2>3. SameConns
      BY <1>1, <2>1, <2>2, LeftIsQuiet
    <2>4. Other(p) \in Peer \ {p}
      BY OtherPeer
    <2>5. \A q \in Queues : CalmQueue(Other(p), q)
      BY <1>4, <2>4 DEF CalmQueue
    <2>6. OnlyOf(p)
      BY <1>2, <2>1, <2>3, <2>4, <2>5 DEF OnlyOf, SameConns
    <2>7. OwnRemotes'
      BY <2>3 DEF SameConns, LinkInv, Owned, OwnRemotes
    <2>8. closing \subseteq Conn /\ IsOpen(p)
      BY <1>8 DEF NInv, Typed, WiresTyped
    <2>9. ClosingFollows(p)
      BY <1>1, <2>1, <2>3, <2>8 DEF ClosingFollows, SameConns, Joined, Live
    <2> QED
      BY <1>3, <1>5, <1>6, <1>7, <2>6, <2>7, <2>9, EdgeGoes
  <1>9. CASE ~ flush
    <2>1. closing' = closing /\ pcs' = Shut(pcs, {x}) /\ ends' = ShutEnds(ends, {x})
      BY <1>9 DEF ForgetEdge
    <2>2. /\ OnlyOf(p) /\ OwnRemotes'
          /\ \A z \in Conn : pcs'[z].sig # "closed" => pcs'[z] = pcs[z]
      BY <1>1, <1>2, <1>4, <2>1, ConnShuts
    <2>3. closing \subseteq Conn /\ ClosingFollows(p)
      BY <2>1, <2>2 DEF ClosingFollows, NInv, Typed, WiresTyped
    <2> QED
      BY <1>3, <1>5, <1>6, <1>7, <2>2, <2>3, EdgeGoes
  <1> QED
    BY <1>8, <1>9

LEMMA HangUpLink ==
    ASSUME NInv, NInv', LinkInv, NEW p \in Peer, HangUp(p)
    PROVE  LinkInv'
  <1>1. PICK flush \in BOOLEAN : ForgetEdge(p, flush) /\ flush = IsOpen(p)
    <2>1. ForgetEdge(p, IsOpen(p)) /\ IsOpen(p) \in BOOLEAN
      BY DEF HangUp, IsOpen
    <2> QED
      BY <2>1, Zenon
  <1>2. entry[p].conn # Nothing
    BY DEF HangUp
  <1>3. \A f \in net' \ net : f.type \in {"bye", "channel-bye"}
    <2>1. [type |-> "bye", to |-> Other(p)].type = "bye"
      OBVIOUS
    <2>2. [type |-> "channel-bye", to |-> Other(p), conn |-> pcs[entry[p].conn].remote].type = "channel-bye"
      OBVIOUS
    <2> QED
      BY <2>1, <2>2 DEF HangUp
  <1>4. FramesFollow(p)
    BY <1>3 DEF FramesFollow
  <1> QED
    BY <1>1, <1>2, <1>4, ForgetEdgeLink

\* An offer or answer under way is what its connection says.
LEMMA FrameIs ==
    ASSUME NInv, LinkInv, NEW f \in net, f.type \in {"offer", "answer"}
    PROVE  /\ f.to \in Peer /\ f.conn \in Conn /\ Owner(f.conn) = Other(f.to)
           /\ f.type = "offer" => f = Offer(f.conn)
  <1>1. f \in Frame /\ f.to = Other(Owner(f.conn))
    BY DEF NInv, Typed, WiresTyped, LinkInv, Owned, OwnFrames
  <1>2. f.to \in Peer /\ f.conn \in Conn
    BY <1>1, FrameParts
  <1>3. Owner(f.conn) = Other(f.to)
    BY <1>1, <1>2, ConnParts, OtherPeer
  <1>4. f \in [type : {"offer", "answer"}, to : Peer, conn : Conn]
    BY <1>1 DEF Frame
  <1>5. f.type = "offer" => f = Offer(f.conn)
    BY <1>1, <1>4 DEF Offer
  <1> QED
    BY <1>2, <1>3, <1>5

LEMMA ReceiveLink ==
    ASSUME NInv, NInv', LinkInv, NEW f \in net, Receive(f)
    PROVE  LinkInv'
  <1> DEFINE p == f.to
  <1>1. p \in Peer /\ net' \subseteq net
    BY FrameParts DEF NInv, Typed, WiresTyped, Receive
  <1>2. FramesFollow(p)
    BY <1>1, FewerFrames
  <1>3. CASE f.type \in {"offer", "answer"}
    <2>1. /\ ops' = Enqueued(p, f.type, f.conn)
          /\ entry' = Touched(p)
          /\ UNCHANGED << pcs, ends, pending, closing >>
      BY <1>3 DEF Receive
    <2>2. /\ f.conn \in Conn /\ Owner(f.conn) = Other(p)
          /\ f.type = "offer" => Offer(f.conn) \in net
      BY <1>3, FrameIs
    <2>3. SameEntries(p)
      BY <1>1, <2>1 DEF Touched, SameEntries, NInv, Typed, EntriesTyped, EntryRecord
    <2>4. SameLink(p)
      BY <2>1, <2>3 DEF SameLink, SameConns
    <2>5. OwnAnswers'
      BY <2>1, SameAnswers
    <2>6. f.conn \in MaybeConn /\ f.type \in {"dial", "offer", "answer"}
      BY <1>3, <2>2, ConnParts
    <2> QED
      BY <1>1, <1>2, <2>1, <2>2, <2>4, <2>5, <2>6, QuietComes
  <1>4. CASE entry[p].conn # Nothing /\ ForgetEdge(p, FALSE)
    BY <1>1, <1>2, <1>4, ForgetEdgeLink
  <1>5. CASE UNCHANGED << pcs, ends, entry, pending, burst, ops, closing >>
    <2>1. SameLink(p) /\ OwnAnswers'
      BY <1>1, <1>5, NothingOfLink, SameAnswers
    <2> QED
      BY <1>1, <1>2, <1>5, <2>1, QuietStill
  <1>6. f.type \in {"offer", "answer", "bye", "channel-bye"}
        /\ (f.type = "channel-bye" => f.conn # Nothing)
    BY FrameParts, ConnParts DEF NInv, Typed, WiresTyped
  <1> QED
    BY <1>3, <1>4, <1>5, <1>6 DEF Receive

\* A connection that is not the entry's is closing, or closed.
LEMMA OtherConn ==
    ASSUME NInv, NEW x \in Conn, pcs[x].sig # "closed", entry[Owner(x)].conn # x
    PROVE  x \in closing
  BY DEF NInv, NoLeakedConn

LEMMA FlushOverLink ==
    ASSUME NInv, NInv', LinkInv, NEW x \in Conn, FlushOver(x)
    PROVE  LinkInv'
  <1> DEFINE p == Owner(x)
             e == entry[p].conn
             o == Other(p)
  <1>1. /\ p \in Peer /\ x \in closing /\ closing' = closing \ {x}
        /\ pcs' = Shut(pcs, {x}) /\ ends' = ShutEnds(ends, {x})
        /\ UNCHANGED << entry, pending, ops, net >>
    BY ConnParts DEF FlushOver
  <1>2. /\ OnlyOf(p) /\ OwnRemotes' /\ pcs'[x].sig = "closed"
        /\ \A z \in Conn : pcs'[z].sig # "closed" => pcs'[z] = pcs[z]
    BY <1>1, ConnShuts
  <1>3. o \in Peer \ {p} /\ Other(o) = p
    BY <1>1, OtherPeer
  <1>4. /\ \A c \in Conn : ends'[o][c] = ends[o][c]
        /\ \A c \in Conn : ends'[p][c] # ends[p][c] => c = x \/ c = pcs[x].remote
    BY <1>1, <1>3, ShutLeaves
  <1>5. e # Nothing => e \in Conn /\ e # x /\ Owner(e) = p
    BY <1>1, EntryConn DEF NInv, EntriesOwn
  <1>6. pcs[x].remote # Nothing => Owner(pcs[x].remote) = o
    BY DEF LinkInv, Owned, OwnRemotes
  <1>7. e # Nothing => ends'[p][e] = ends[p][e] /\ ends'[o][e] = ends[o][e]
    BY <1>3, <1>4, <1>5, <1>6
  <1>8. SameEdge(p)
    <2>1. Live(p)' => Live(p) /\ pcs'[e] = pcs[e] /\ e # Nothing
      BY <1>1, <1>2, <1>5 DEF Live
    <2>2. \A q \in Queues : CalmQueue(p, q)
      BY <1>1 DEF CalmQueue
    <2> QED
      BY <1>1, <1>7, <2>1, <2>2 DEF SameEdge
  <1>9. IsOpen(p)' => IsOpen(p)
    <2>1. \A c \in Conn : ends'[p][c] = "open" => ends[p][c] = "open"
      BY <1>1, ShutEndsTyped DEF NInv, Typed, EndsTyped
    <2> QED
      BY <1>1, <2>1, EntryConn DEF IsOpen, MaybeConn
  <1>10. KeepsPair(p)
    <2> SUFFICES ASSUME Live(p), Live(p)', \A r \in Peer : Live(r),
                        Paired(entry[Impolite].conn, entry[Polite].conn)
                 PROVE  \A c \in {entry[Impolite].conn, entry[Polite].conn} : ends'[p][c] = ends[p][c]
      BY <1>1, <1>8 DEF KeepsPair, SameEdge
    <2> DEFINE y == entry[o].conn
    <2>1. \A c \in {entry[Impolite].conn, entry[Polite].conn} : c = e \/ c = y
      BY <1>1, <1>3 DEF Other
    <2>2. y \in Conn /\ Owner(y) = o /\ e # Nothing
      BY <1>3, LiveConn DEF Live
    <2>3. pcs[y].remote = e
      BY <1>1, <1>3 DEF Paired, Other, Peer
    <2>4. y # x
      BY <1>3, <2>2
    <2>5. pcs[x].remote # y
      <3> SUFFICES ASSUME pcs[x].remote = y PROVE FALSE
        OBVIOUS
      <3>1. pcs[x].sig # "closed"
        BY <2>2, ConnParts DEF LinkInv, Owned, OwnRemotes
      <3>2. TiedTo(x)
        BY <1>1, <3>1 DEF LinkInv, ClosingTied
      <3>3. pcs[y].remote = x
        BY <1>3, <3>2 DEF TiedTo
      <3> QED
        BY <1>5, <2>2, <2>3, <3>3
    <2>6. ends'[p][y] = ends[p][y]
      BY <1>4, <2>2, <2>4, <2>5
    <2> QED
      BY <1>7, <2>1, <2>2, <2>6
  <1>11. EdgeInv(p)' /\ Moves(p) /\ JoinsNot(p) /\ KeepsChan(p)
    BY <1>1, <1>8, <1>9, SameEdgeKeeps
  <1>12. OpsFollow /\ LaterIdle' /\ OwnAnswers' /\ FramesFollow(p)
    BY <1>1, SameOps, SameAnswers, FewerFrames
  <1>13. closing \subseteq Conn /\ ClosingFollows(p)
    BY <1>1, <1>2 DEF ClosingFollows, NInv, Typed, WiresTyped
  <1> QED
    BY <1>1, <1>2, <1>10, <1>11, <1>12, <1>13, LinkStep

\* Once a new connection has both descriptions, nothing under way sets another.
LEMMA StableIsSteady ==
    ASSUME NEW p \in Peer, Live(p), EdgeInv(p), pcs[entry[p].conn].sig = "stable",
           pcs[entry[p].conn].remote # Nothing
    PROVE  Steady(p)
  <1> DEFINE x == entry[p].conn
  <1>1. CASE pcs[x].state # "new"
    BY <1>1 DEF EdgeInv
  <1>2. CASE pcs[x].state = "new"
    <2>1. DialsAlone(p) /\ YieldsPolitely(p) /\ SetsOneOffer(p)
      BY <1>2 DEF EdgeInv
    <2>2. \A q \in Queues : ~ Dialling(p, q)
      BY <2>1 DEF DialsAlone
    <2>3. \A q \in Queues : ~ Yielding(p, q)
      BY <2>1 DEF YieldsPolitely
    <2>4. \A q \in Queues : Setting(p, q) => Next1(p, q).arg = pcs[x].remote
      BY <2>1 DEF SetsOneOffer
    <2> QED
      BY <2>2, <2>3, <2>4 DEF Steady
  <1> QED
    BY <1>1, <1>2

\* Steady as it was, if the descriptions and what is under way are.
LEMMA SteadyStays ==
    ASSUME NEW p \in Peer, Steady(p), entry'[p].conn = entry[p].conn,
           pcs'[entry[p].conn].sig \in {"stable", "have-remote-offer"},
           pcs'[entry[p].conn].remote = pcs[entry[p].conn].remote,
           \A q \in Queues : CalmQueue(p, q)
    PROVE  Steady(p)'
  <1>1. \A q \in Queues : /\ Dialling(p, q)' => Dialling(p, q)
                          /\ Yielding(p, q)' => Yielding(p, q)
                          /\ Setting(p, q)' => Setting(p, q) /\ Next1(p, q)' = Next1(p, q)
    BY CalmUnder
  <1> QED
    BY <1>1 DEF Steady

LEMMA TransportFailsLink ==
    ASSUME NInv, NInv', LinkInv, NEW x \in Conn, TransportFails(x)
    PROVE  LinkInv'
  <1> DEFINE p == Owner(x)
             o == Other(p)
  <1>1. /\ p \in Peer /\ o \in Peer \ {p}
        /\ pcs[x].sig # "closed"
        /\ Hopeless(x) \/ pcs[x].state = "connected"
        /\ pcs' = [pcs EXCEPT ![x].state = "failed"]
        /\ UNCHANGED << ends, pending, ops, closing, net >>
    BY ConnParts, OtherPeer DEF TransportFails
  <1>2. /\ \A z \in Conn : pcs'[z].sig = pcs[z].sig /\ pcs'[z].remote = pcs[z].remote
        /\ \A z \in Conn \ {x} : pcs'[z].state = pcs[z].state
        /\ pcs'[x].state = "failed"
    BY <1>1 DEF NInv, Typed, ConnsTyped, ConnRecord
  <1>3. /\ \A r \in Peer \ {p} : entry'[r] = entry[r]
        /\ entry'[p].conn = entry[p].conn /\ entry'[p].chan = entry[p].chan
        /\ entry'[p].offered = entry[p].offered
    <2>1. PICK st : entry' = [entry EXCEPT ![p].state = st]
      BY DEF TransportFails
    <2> QED
      BY <1>1, <2>1 DEF NInv, Typed, EntriesTyped, EntryRecord
  <1>4. \A r \in Peer : entry'[r].conn = entry[r].conn
    BY <1>3
  <1>5. /\ OpsFollow /\ LaterIdle' /\ OwnAnswers' /\ FramesFollow(p)
        /\ \A r \in Peer, q \in Queues : CalmQueue(r, q)
    BY <1>1, <1>4, SameOps, SameAnswers, FewerFrames
  <1>6. ends' = ends
    BY <1>1
  <1>7. OnlyOf(p)
    BY <1>1, <1>2, <1>3, <1>5, <1>6 DEF OnlyOf
  <1>8. OwnRemotes'
    BY <1>1, <1>2 DEF LinkInv, Owned, OwnRemotes
  <1>9. closing \subseteq Conn /\ ClosingFollows(p)
    BY <1>1, <1>2 DEF ClosingFollows, NInv, Typed, WiresTyped
  <1>10. IsOpen(p)' => IsOpen(p)
    BY <1>3, <1>6 DEF IsOpen
  <1>11. CASE entry[p].conn # x
    <2>1. SameEdge(p)
      <3> SUFFICES ASSUME Live(p)' PROVE SameEdge(p)
        BY DEF SameEdge
      <3>1. entry[p].conn \in Conn \ {x}
        BY <1>1, <1>3, <1>11, EntryConn DEF Live
      <3>2. /\ pcs'[entry[p].conn].sig = pcs[entry[p].conn].sig
            /\ pcs'[entry[p].conn].remote = pcs[entry[p].conn].remote
            /\ pcs'[entry[p].conn].state = pcs[entry[p].conn].state
        BY <1>2, <3>1
      <3>3. Live(p)
        BY <1>3, <3>2 DEF Live
      <3>4. \A q \in Queues : CalmQueue(p, q)
        BY <1>1, <1>5
      <3> QED
        BY <1>3, <1>6, <3>2, <3>3, <3>4 DEF SameEdge
    <2>2. EdgeInv(p)' /\ Moves(p) /\ JoinsNot(p) /\ KeepsChan(p)
      BY <1>1, <1>10, <2>1, SameEdgeKeeps
    <2>3. KeepsPair(p)
      BY <1>3, <1>6, <2>1 DEF KeepsPair, SameEdge
    <2> QED
      BY <1>1, <1>5, <1>7, <1>8, <1>9, <2>2, <2>3, LinkStep
  <1>12. CASE entry[p].conn = x
    <2>1. Live(p) /\ EdgeInv(p)
      BY <1>1, <1>12, ConnParts DEF Live, LinkInv
    <2>2. Steady(p)
      <3>1. CASE pcs[x].state = "connected"
        BY <1>12, <2>1, <3>1 DEF EdgeInv
      <3>2. CASE Hopeless(x)
        BY <1>1, <1>12, <2>1, <3>2, StableIsSteady DEF Hopeless
      <3> QED
        BY <1>1, <3>1, <3>2
    <2>3. pcs'[x].sig \in {"stable", "have-remote-offer"} /\ pcs'[x].remote = pcs[x].remote
      BY <1>2, <1>12, <2>2 DEF Steady
    <2>4. Steady(p)'
      BY <1>1, <1>4, <1>5, <1>12, <2>2, <2>3, SteadyStays
    <2>5. EdgeInv(p)'
      BY <1>2, <1>3, <1>12, <2>1, <2>4 DEF EdgeInv
    <2>6. Moves(p)
      BY <1>2, <1>3, <1>12, <2>1, <2>4 DEF Moves
    <2>7. JoinsNot(p)
      BY <1>2, <1>3, <1>10, <1>12, <2>1 DEF JoinsNot, Joined
    <2>8. KeepsChan(p) /\ KeepsPair(p)
      BY <1>2, <1>3, <1>6, <1>12 DEF KeepsChan, KeepsPair
    <2> QED
      BY <1>1, <1>5, <1>7, <1>8, <1>9, <2>5, <2>6, <2>7, <2>8, LinkStep
  <1> QED
    BY <1>11, <1>12

\* The queues of p, when a fresh connection x is made by what is first in one.
LEMMA FreshQueues ==
    ASSUME NInv, LinkInv, NEW p \in Peer, NEW q \in Queues, NEW x \in Fresh(p), ops[p][q] # << >>,
           NEW at \in {"made", "remote"}, Done(p, q) \/ Goes(p, q, at, x),
           entry'[p].conn = x, \A r \in Peer \ {p} : entry'[r] = entry[r], closing' = closing
    PROVE  /\ OpsFollow /\ LaterIdle'
           /\ \A r \in Peer \ {p}, s \in Queues : CalmQueue(r, s)
           /\ \A s \in Queues : ops'[p][s] # << >> /\ Next1(p, s)'.on = x =>
                 s = q /\ Next1(p, s)'.kind = Next1(p, q).kind /\ Next1(p, s)'.at = at
  <1>1. /\ x \in Conn /\ Owner(x) = p /\ x \notin closing
        /\ \A w \in AllOps(p) : w.on # x
    BY FreshConn
  <1>2. OpsTyped
    BY DEF NInv, Typed
  <1>3. Next1(p, q) \in AllOps(p)
    BY <1>2, AQueue DEF Next1
  <1>4. CASE Done(p, q)
    <2>1. /\ \A r \in Peer, s \in Queues : r # p \/ s # q => ops'[r][s] = ops[r][s]
          /\ \A r \in Peer : AllOps(r)' \subseteq AllOps(r)
      BY <1>2, <1>4, DoneCalmly DEF LinkInv
    <2>2. OpsFollow
      BY <2>1 DEF OpsFollow
    <2>3. OpsTyped'
      BY <1>2, <1>4, OpsStep
    <2>4. /\ \A s \in Queues : \A i : i \in DOMAIN ops'[p][s] => ops'[p][s][i].on # x
          /\ \A s \in Queues : ops'[p][s] # << >> => Next1(p, s)'.on # x
      <3> SUFFICES ASSUME NEW s \in Queues
                   PROVE  /\ \A i : i \in DOMAIN ops'[p][s] => ops'[p][s][i].on # x
                          /\ ops'[p][s] # << >> => Next1(p, s)'.on # x
        OBVIOUS
      <3>1. \A w \in AllOps(p)' : w.on # x
        BY <1>1, <2>1
      <3>2. ops'[p][s] \in Seq(LegalOp)
        BY <2>3 DEF OpsTyped
      <3>3. \A i \in DOMAIN ops'[p][s] : ops'[p][s][i] \in AllOps(p)'
        BY <3>2 DEF AllOps
      <3>4. ops'[p][s] # << >> => Next1(p, s)' \in AllOps(p)'
        BY <3>2, <3>3, HeadTailProperties DEF Next1
      <3> QED
        BY <3>1, <3>3, <3>4
    <2>5. LaterIdle'
      <3> SUFFICES ASSUME NEW r \in Peer, NEW s \in Queues, NEW i, i \in DOMAIN ops'[r][s],
                          i # 1, ops'[r][s][i].at # "start"
                   PROVE  ops'[r][s][i].on # entry'[r].conn
        BY DEF LaterIdle
      <3>1. CASE r = p
        BY <2>4, <3>1
      <3>2. CASE r # p
        <4>1. ops'[r][s] = ops[r][s] /\ entry'[r] = entry[r]
          BY <2>1, <3>2
        <4> QED
          BY <4>1 DEF LinkInv, LaterIdle
      <3> QED
        BY <3>1, <3>2
    <2>6. \A r \in Peer \ {p}, s \in Queues : CalmQueue(r, s)
      BY <2>1 DEF CalmQueue
    <2> QED
      BY <2>2, <2>4, <2>5, <2>6
  <1>5. CASE Goes(p, q, at, x)
    <2>1. at \in {"start", "made", "remote", "yielding"}
      OBVIOUS
    <2>2. PICK o \in LegalOp :
             /\ o.kind = Next1(p, q).kind /\ o.arg = Next1(p, q).arg /\ o.at = at /\ o.on = x
             /\ ops'[p][q] # << >> /\ Head(ops'[p][q]) = o
             /\ \A r \in Peer : \A w \in AllOps(r)' : w \in AllOps(r) \/ (r = p /\ w = o)
      BY <1>1, <1>2, <1>5, <2>1, GoesOn
    <2>3. /\ \A r \in Peer, s \in Queues : r # p \/ s # q => ops'[r][s] = ops[r][s]
          /\ LaterIdle'
      BY <1>1, <1>2, <1>5, <2>1, GoesOn DEF LinkInv
    <2>4. OpsFollow
      BY <1>1, <1>3, <2>2 DEF OpsFollow
    <2>5. \A s \in Queues \ {q} : ops'[p][s] # << >> => Next1(p, s)'.on # x
      <3> SUFFICES ASSUME NEW s \in Queues \ {q}, ops'[p][s] # << >>
                   PROVE  Next1(p, s)'.on # x
        OBVIOUS
      <3>1. ops'[p][s] = ops[p][s]
        BY <2>3
      <3>2. Head(ops[p][s]) \in AllOps(p)
        BY <1>2, <3>1, AQueue
      <3> QED
        BY <1>1, <3>1, <3>2 DEF Next1
    <2>6. \A r \in Peer \ {p}, s \in Queues : CalmQueue(r, s)
      BY <2>3 DEF CalmQueue
    <2>7. Next1(p, q)'.kind = Next1(p, q).kind /\ Next1(p, q)'.at = at
      BY <2>2 DEF Next1
    <2> QED
      BY <2>3, <2>4, <2>5, <2>6, <2>7
  <1> QED
    BY <1>4, <1>5

\* The channels, when fresh connection x takes the place of the edge's.
LEMMA FreshEnds ==
    ASSUME NInv, LinkInv, NEW p \in Peer, NEW x \in Fresh(p),
           \A r \in Peer, c \in Conn :
              \/ ends'[r][c] = Renamed(ShutEnds(ends, {entry[p].conn} \ {Nothing}), x)[r][c]
              \/ r = p /\ c = x
    PROVE  /\ ends'[Other(p)][x] = "none"
           /\ \A c \in Conn \ {x} : ends'[Other(p)][c] = ends[Other(p)][c]
           /\ \A c \in Conn \ {x} : ends[p][c] = "none" => ends'[p][c] = "none"
  <1> DEFINE o == Other(p)
             S == {entry[p].conn} \ {Nothing}
             E == ShutEnds(ends, S)
             F == Renamed(E, x)
  <1>1. x \in Conn /\ o \in Peer \ {p}
    BY FreshConn, OtherPeer
  <1>2. \A r \in Peer, c \in Conn : ends'[r][c] = F[r][c] \/ (r = p /\ c = x)
    OBVIOUS
  <1>3. \A y \in S : Owner(y) = p
    BY EntryConn DEF NInv, EntriesOwn
  <1> HIDE DEF S
  <1>4. /\ \A c \in Conn : E[o][c] = ends[o][c]
        /\ \A c \in Conn : ends[p][c] = "none" => E[p][c] = "none"
    BY <1>1, <1>3, ShutLeaves
  <1>5. E \in [Peer -> [Conn -> EndState]]
    BY ShutEndsTyped DEF NInv, Typed, EndsTyped
  <1> HIDE DEF E
  <1>6. \A r \in Peer, c \in Conn : F[r][c] = IF c = x THEN "none" ELSE E[r][c]
    BY <1>1, <1>5 DEF Renamed
  <1> HIDE DEF F, o
  <1>7. ends'[o][x] = "none"
    BY <1>1, <1>2, <1>6
  <1>8. \A c \in Conn \ {x} : ends'[o][c] = E[o][c] /\ ends'[p][c] = E[p][c]
    BY <1>1, <1>2, <1>6
  <1> QED
    BY <1>4, <1>7, <1>8 DEF o

\* A fresh connection of p takes the place of its edge's.
LEMMA FreshEdge ==
    ASSUME NInv, NInv', LinkInv, NEW p \in Peer, NEW q \in Queues, NEW x \in Fresh(p),
           ops[p][q] # << >>,
           pcs' = [Shut(pcs, {entry[p].conn}) EXCEPT ![x] = NewConn],
           \A r \in Peer, c \in Conn :
              \/ ends'[r][c] = Renamed(ShutEnds(ends, {entry[p].conn} \ {Nothing}), x)[r][c]
              \/ r = p /\ c = x,
           \A r \in Peer \ {p} : entry'[r] = entry[r],
           entry'[p].conn = x, entry'[p].offered = Nothing,
           \/ /\ entry'[p].chan = x /\ ends'[p][x] = "connecting"
              /\ Next1(p, q).kind = "dial" /\ Goes(p, q, "made", x)
           \/ /\ entry'[p].chan = Nothing /\ ends'[p][x] = "none"
              /\ Next1(p, q).kind = "offer" /\ (Done(p, q) \/ Goes(p, q, "remote", x)),
           \A r \in Peer : pending'[r].answer \in {Nothing, pending[r].answer},
           closing' = closing, net' = net
    PROVE  LinkInv'
  <1> DEFINE o == Other(p)
             z == entry[p].conn
  <1>1. /\ x \in Conn /\ Owner(x) = p /\ pcs[x].sig = "closed" /\ x \notin closing
        /\ \A r \in Peer : /\ entry[r].conn # x /\ entry[r].chan # x /\ ends[r][x] # "open"
                           /\ \A w \in AllOps(r) : w.arg # x /\ w.on # x
    BY FreshConn
  <1>2. o \in Peer \ {p} /\ \A r \in Peer : r = p \/ r = o
    BY OtherPeer
  <1>3. z # Nothing => z \in Conn /\ Owner(z) = p /\ z \notin closing
    BY EntryConn DEF NInv, EntriesOwn
  <1>4. \A y \in Conn : pcs'[y] = IF y = x THEN NewConn ELSE IF y = z THEN NoConn ELSE pcs[y]
    <2>1. pcs \in [Conn -> ConnRecord]
      BY DEF NInv, Typed, ConnsTyped
    <2>2. /\ Shut(pcs, {z}) \in [Conn -> ConnRecord]
          /\ \A y \in Conn : Shut(pcs, {z})[y] = IF y \in {z} THEN NoConn ELSE pcs[y]
      BY <2>1, ShutTyped
    <2> QED
      BY <1>1, <2>2
  <1>5. NewConn.sig = "stable" /\ NewConn.remote = Nothing /\ NewConn.state = "new"
    BY DEF NewConn
  <1>8. /\ ends'[o][x] = "none"
        /\ \A c \in Conn \ {x} : ends'[o][c] = ends[o][c]
        /\ \A c \in Conn \ {x} : ends[p][c] = "none" => ends'[p][c] = "none"
    BY FreshEnds
  <1>9. PICK at \in {"made", "remote"} :
           /\ Done(p, q) \/ Goes(p, q, at, x)
           /\ at = "made" => /\ Next1(p, q).kind = "dial" /\ entry'[p].chan = x
                             /\ ends'[p][x] = "connecting"
           /\ at = "remote" => /\ Next1(p, q).kind = "offer" /\ entry'[p].chan = Nothing
                               /\ ends'[p][x] = "none"
    OBVIOUS
  <1>10. /\ OpsFollow /\ LaterIdle'
         /\ \A r \in Peer \ {p}, s \in Queues : CalmQueue(r, s)
         /\ \A s \in Queues : ops'[p][s] # << >> /\ Next1(p, s)'.on = x =>
               s = q /\ Next1(p, s)'.kind = Next1(p, q).kind /\ Next1(p, s)'.at = at
    BY <1>9, FreshQueues
  <1>11. \A s \in Queues : /\ Dialling(p, s)' => s = q /\ at = "made"
                          /\ ~ Yielding(p, s)'
    BY <1>9, <1>10 DEF Dialling, Yielding, Under, IsAt
  <1>12. /\ pcs'[x].sig = "stable" /\ pcs'[x].remote = Nothing /\ pcs'[x].state = "new"
    BY <1>1, <1>4, <1>5
  <1>13. EdgeInv(p)'
    <2>1. at = "made" => HasChan(p)'
      BY <1>9 DEF HasChan
    <2>2. DialsAlone(p)'
      BY <1>11, <1>12, <2>1 DEF DialsAlone
    <2>3. YieldsPolitely(p)' /\ SetsOneOffer(p)'
      BY <1>11, <1>12 DEF YieldsPolitely, SetsOneOffer
    <2>4. ChanWaits(p)'
      BY <1>8, <1>9, <1>12, <2>1 DEF ChanWaits
    <2> QED
      BY <1>12, <2>2, <2>3, <2>4 DEF EdgeInv
  <1>14. OnlyOf(p)
    <2>1. \A c \in Conn : ends'[o][c] = ends[o][c] \/ c \in Fresh(p)
      BY <1>8
    <2>2. \A c \in Conn : Owner(c) = o => (ends[p][c] = "none" => ends'[p][c] = "none")
      BY <1>1, <1>2, <1>8
    <2>3. \A y \in Conn : Owner(y) = o => pcs'[y] = pcs[y]
      <3> SUFFICES ASSUME NEW y \in Conn, Owner(y) = o
                   PROVE  pcs'[y] = pcs[y]
        OBVIOUS
      <3>1. y # x
        BY <1>1, <1>2
      <3>2. y # z
        BY <1>2, <1>3, ConnParts
      <3> QED
        BY <1>4, <3>1, <3>2
    <2> QED
      BY <1>2, <1>10, <2>1, <2>2, <2>3 DEF OnlyOf
  <1>15. Moves(p)
    BY <1>12 DEF Moves
  <1>16. JoinsNot(p)
    <2>1. ~ IsOpen(p)'
      BY <1>9 DEF IsOpen
    <2> QED
      BY <1>12, <2>1 DEF JoinsNot, Joined
  <1>17. KeepsChan(p) /\ KeepsPair(p)
    BY <1>1 DEF KeepsChan, KeepsPair
  <1>18. closing \subseteq Conn /\ ClosingFollows(p)
    <2>1. closing \subseteq Conn
      BY DEF NInv, Typed, WiresTyped
    <2>2. \A y \in closing : pcs'[y] = pcs[y]
      BY <1>1, <1>3, <1>4, <2>1, ConnParts
    <2> QED
      BY <2>1, <2>2 DEF ClosingFollows
  <1>19. OwnRemotes'
    <2>1. \A y \in Conn : pcs'[y].remote \in {Nothing, pcs[y].remote}
      BY <1>4, <1>5, ClosedConn
    <2>2. \A y \in Conn : pcs'[y].sig = "closed" => pcs'[y] = NoConn \/ pcs'[y] = pcs[y]
      BY <1>4, <1>5
    <2> SUFFICES ASSUME NEW y \in Conn
                 PROVE  /\ pcs'[y].remote # Nothing => Owner(pcs'[y].remote) = Other(Owner(y))
                        /\ pcs'[y].sig = "closed" => pcs'[y].remote = Nothing /\ pcs'[y].state = "new"
      BY DEF OwnRemotes
    <2>3. /\ pcs[y].remote # Nothing => Owner(pcs[y].remote) = Other(Owner(y))
          /\ pcs[y].sig = "closed" => pcs[y].remote = Nothing /\ pcs[y].state = "new"
      BY DEF LinkInv, Owned, OwnRemotes
    <2>4. pcs'[y].remote # Nothing => Owner(pcs'[y].remote) = Other(Owner(y))
      BY <2>1, <2>3
    <2>5. pcs'[y].sig = "closed" => pcs'[y].remote = Nothing /\ pcs'[y].state = "new"
      BY <2>2, <2>3, ClosedConn
    <2> QED
      BY <2>4, <2>5
  <1>20. FramesFollow(p) /\ OwnAnswers'
    BY FewerFrames, SameAnswers
  <1> QED
    BY <1>10, <1>13, <1>14, <1>15, <1>16, <1>17, <1>18, <1>19, <1>20, LinkStep

LEMMA StartDialLink ==
    ASSUME NInv, NInv', LinkInv, NEW p \in Peer, NEW q \in Queues, StartDial(p, q)
    PROVE  LinkInv'
  <1>1. /\ ops[p][q] # << >> /\ Next1(p, q).kind = "dial"
        /\ UNCHANGED << pending, burst, closing, net, spent >>
    BY DEF StartDial, IsAt
  <1>2. FramesFollow(p) /\ OwnAnswers'
    BY <1>1, FewerFrames, SameAnswers
  <1>3. CASE Done(p, q) /\ UNCHANGED << pcs, ends, entry, recent >>
    <2>1. SameLink(p)
      BY <1>1, <1>3, NothingOfLink
    <2> QED
      BY <1>1, <1>2, <1>3, <2>1, QuietDone
  <1>4. ASSUME NEW x \in Fresh(p),
               pcs' = [Shut(pcs, {entry[p].conn}) EXCEPT ![x] = NewConn],
               ends' = [Renamed(ShutEnds(ends, {entry[p].conn} \ {Nothing}), x)
                          EXCEPT ![p][x] = "connecting"],
               entry' = [entry EXCEPT ![p] = [EntryOf(x) EXCEPT !.chan = x]],
               Goes(p, q, "made", x)
        PROVE  LinkInv'
    <2>1. x \in Conn
      BY FreshConn
    <2> DEFINE e == [EntryOf(x) EXCEPT !.chan = x]
    <2>2. e.conn = x /\ e.chan = x /\ e.offered = Nothing
      BY DEF EntryOf
    <2>3. entry' = [entry EXCEPT ![p] = e]
      BY <1>4
    <2> HIDE DEF e
    <2>4. entry'[p] = e /\ \A r \in Peer \ {p} : entry'[r] = entry[r]
      BY <2>3 DEF NInv, Typed, EntriesTyped
    <2> DEFINE E == Renamed(ShutEnds(ends, {entry[p].conn} \ {Nothing}), x)
    <2>5. E \in [Peer -> [Conn -> EndState]]
      BY FreshTyped DEF NInv
    <2>6. ends' = [E EXCEPT ![p][x] = "connecting"]
      BY <1>4
    <2>7. /\ \A r \in Peer, c \in Conn : ends'[r][c] = E[r][c] \/ (r = p /\ c = x)
          /\ ends'[p][x] = "connecting"
      <3> HIDE DEF E
      <3> QED
        BY <2>1, <2>5, <2>6
    <2>8. \A r \in Peer : pending'[r].answer \in {Nothing, pending[r].answer}
      BY <1>1
    <2>9. closing' = closing /\ net' = net
      BY <1>1
    <2> QED
      <3>1. /\ entry'[p].conn = x /\ entry'[p].chan = x /\ entry'[p].offered = Nothing
            /\ \A r \in Peer \ {p} : entry'[r] = entry[r]
        BY <2>2, <2>4
      <3>2. \A r \in Peer, c \in Conn :
               \/ ends'[r][c] = Renamed(ShutEnds(ends, {entry[p].conn} \ {Nothing}), x)[r][c]
               \/ r = p /\ c = x
        BY <2>7
      <3> HIDE DEF E
      <3> QED
        <4>1. pcs' = [Shut(pcs, {entry[p].conn}) EXCEPT ![x] = NewConn] /\ ops[p][q] # << >>
          BY <1>1, <1>4
        <4>2. /\ entry'[p].chan = x /\ ends'[p][x] = "connecting"
              /\ Next1(p, q).kind = "dial" /\ Goes(p, q, "made", x)
          BY <1>1, <1>4, <2>7, <3>1
        <4> QED
          BY <2>8, <2>9, <3>1, <3>2, <4>1, <4>2, FreshEdge
  <1> QED
    BY <1>3, <1>4 DEF StartDial

LEMMA OfferOnFreshConnLink ==
    ASSUME NInv, NInv', LinkInv, NEW p \in Peer, NEW q \in Queues, NEW o, ops[p][q] # << >>,
           Next1(p, q).kind = "offer", OfferOnFreshConn(p, q, o)
    PROVE  LinkInv'
  <1>1. PICK y \in Fresh(p) :
           /\ pcs' = [Shut(pcs, {entry[p].conn}) EXCEPT ![y] = NewConn]
           /\ ends' = Renamed(ShutEnds(ends, {entry[p].conn} \ {Nothing}), y)
           /\ entry' = [entry EXCEPT ![p] = EntryOf(y)]
           /\ Done(p, q) \/ Goes(p, q, "remote", y)
    BY DEF OfferOnFreshConn
  <1>2. closing' = closing /\ net' = net
    BY DEF OfferOnFreshConn
  <1>3. \A r \in Peer : pending'[r].answer \in {Nothing, pending[r].answer}
    <2>1. UNCHANGED pending \/ pending' = [pending EXCEPT ![p] = NoAnswer]
      BY DEF OfferOnFreshConn
    <2> QED
      BY <2>1 DEF NoAnswer, NInv, Typed, MemoryTyped
  <1>4. /\ entry'[p].conn = y /\ entry'[p].chan = Nothing /\ entry'[p].offered = Nothing
        /\ \A r \in Peer \ {p} : entry'[r] = entry[r]
    BY <1>1 DEF EntryOf, NInv, Typed, EntriesTyped
  <1>5. ends'[p][y] = "none"
    <2> DEFINE E == ShutEnds(ends, {entry[p].conn} \ {Nothing})
    <2>1. E \in [Peer -> [Conn -> EndState]] /\ y \in Conn
      BY ShutEndsTyped, FreshConn DEF NInv, Typed, EndsTyped
    <2>2. ends' = Renamed(E, y)
      BY <1>1
    <2> HIDE DEF E
    <2> QED
      BY <2>1, <2>2 DEF Renamed
  <1> QED
    BY <1>1, <1>2, <1>3, <1>4, <1>5, FreshEdge

-----------------------------------------------------------------------------
(* Steps that describe a connection of their peer *)

\* One connection of p has other descriptions, and p perhaps another channel.
LEMMA OneConnChanges ==
    ASSUME NInv, LinkInv, NEW p \in Peer, NEW x \in Conn, Owner(x) = p,
           pcs[x].sig # "closed", pcs'[x].sig # "closed",
           \A z \in Conn \ {x} : pcs'[z] = pcs[z],
           pcs'[x].remote # Nothing => Owner(pcs'[x].remote) = Other(p),
           x \in closing => pcs'[x].remote = pcs[x].remote,
           closing' = closing,
           \A r \in Peer \ {p} : entry'[r] = entry[r] /\ \A s \in Queues : ops'[r][s] = ops[r][s],
           \A r \in Peer, c \in Conn : ends'[r][c] = ends[r][c] \/ (r = p /\ ends'[r][c] = "none")
    PROVE  OnlyOf(p) /\ OwnRemotes' /\ ClosingFollows(p)
  <1> DEFINE o == Other(p)
  <1>1. o \in Peer /\ o # p
    BY OtherPeer
  <1>2. OnlyOf(p)
    <2>1. \A z \in Conn : Owner(z) = o => pcs'[z] = pcs[z]
      BY <1>1
    <2>2. \A c \in Conn : ends'[o][c] = ends[o][c]
      BY <1>1
    <2>3. \A c \in Conn : ends[p][c] = "none" => ends'[p][c] = "none"
      OBVIOUS
    <2>4. entry'[o] = entry[o] /\ \A s \in Queues : CalmQueue(o, s)
      BY <1>1 DEF CalmQueue
    <2> QED
      BY <2>1, <2>2, <2>3, <2>4 DEF OnlyOf
  <1>3. OwnRemotes'
    BY DEF LinkInv, Owned, OwnRemotes
  <1>4. closing \subseteq Conn
    BY DEF NInv, Typed, WiresTyped
  <1>5. ClosingFollows(p)
    BY <1>4 DEF ClosingFollows
  <1> QED
    BY <1>2, <1>3, <1>5

\* What is under way once an operation of p is over.
LEMMA DoneUnder ==
    ASSUME NInv, LinkInv, NEW p \in Peer, NEW q \in Queues, ops[p][q] # << >>, Done(p, q),
           \A r \in Peer : entry'[r].conn = entry[r].conn
    PROVE  /\ OpsFollow /\ LaterIdle'
           /\ \A r \in Peer, s \in Queues : r # p => ops'[r][s] = ops[r][s]
           /\ \A r \in Peer, s \in Queues : CalmQueue(r, s)
           /\ \A s \in Queues :
                /\ Dialling(p, s)' => Dialling(p, s) /\ s # q
                /\ Yielding(p, s)' => Yielding(p, s) /\ s # q
                /\ Setting(p, s)' => Setting(p, s) /\ s # q /\ Next1(p, s)' = Next1(p, s)
  <1>1. /\ \A r \in Peer, s \in Queues : r # p \/ s # q => ops'[r][s] = ops[r][s]
        /\ \A r \in Peer : AllOps(r)' \subseteq AllOps(r)
        /\ \A r \in Peer, s \in Queues : CalmQueue(r, s)
        /\ ~ (ops'[p][q] # << >> /\ Head(ops'[p][q]).at # "start"
                /\ Head(ops'[p][q]).on = entry[p].conn)
        /\ LaterIdle'
    BY DoneCalmly DEF NInv, Typed, LinkInv
  <1>2. OpsFollow
    BY <1>1 DEF OpsFollow
  <1>3. \A s \in Queues : /\ Dialling(p, s)' => Dialling(p, s)
                          /\ Yielding(p, s)' => Yielding(p, s)
                          /\ Setting(p, s)' => Setting(p, s) /\ Next1(p, s)' = Next1(p, s)
    BY <1>1, CalmUnder
  <1>4. ~ Dialling(p, q)' /\ ~ Yielding(p, q)' /\ ~ Setting(p, q)'
    BY <1>1 DEF Dialling, Yielding, Setting, Under, IsAt, Next1
  <1> QED
    BY <1>1, <1>2, <1>3, <1>4

\* A connection that its operation works on is the one of the entry, if the
\* operation makes or sets a description that a closing connection does not get.
LEMMA OpConn ==
    ASSUME NInv, LinkInv, NEW p \in Peer, NEW q \in Queues, ops[p][q] # << >>,
           Next1(p, q).at # "start"
    PROVE  LET x == Next1(p, q).on
               o == Next1(p, q).arg
           IN  /\ Next1(p, q) \in AllOps(p)
               /\ x \in Conn /\ Owner(x) = p
               /\ Next1(p, q).kind = "offer" => o \in Conn /\ Owner(o) = Other(p)
               /\ pcs[x].sig # "closed" =>
                    \/ Live(p) /\ entry[p].conn = x
                    \/ x \in closing /\ entry[p].conn # x /\ SetsNoOther(x)
  <1> DEFINE x == Next1(p, q).on
             o == Next1(p, q).arg
  <1>1. OpsTyped
    BY DEF NInv, Typed
  <1>2. Next1(p, q) \in AllOps(p) /\ Next1(p, q) \in LegalOp
    BY <1>1, AQueue, OpsStep DEF Next1
  <1>3. x \in Conn /\ (Next1(p, q).kind = "offer" => o \in Conn)
    BY <1>2 DEF LegalOp
  <1>4. Owner(x) = p /\ (Next1(p, q).kind = "offer" => Owner(o) = Other(p))
    BY <1>2 DEF LinkInv, Owned, OwnOps
  <1>5. ASSUME pcs[x].sig # "closed", entry[p].conn # x
        PROVE  x \in closing /\ SetsNoOther(x)
    <2>1. x \in closing
      BY <1>3, <1>4, <1>5, OtherConn
    <2> QED
      BY <1>5, <2>1 DEF LinkInv, ClosingTied
  <1>6. ASSUME pcs[x].sig # "closed", entry[p].conn = x
        PROVE  Live(p)
    BY <1>3, <1>6, ConnParts DEF Live
  <1> QED
    BY <1>2, <1>3, <1>4, <1>5, <1>6

\* What initiateWebRTCConnection does once the local description is set.
LEMMA DialMade ==
    ASSUME NInv, NEW p \in Peer, NEW q \in Queues, FinishDial(p, q),
           Next1(p, q).on \in Conn
    PROVE  LET x == Next1(p, q).on
               a == pending[p].answer
           IN  \/ UNCHANGED << pcs, entry, pending, net >>
               \/ /\ pcs[x].sig = "stable" /\ pcs'[x].state = pcs[x].state
                  /\ \A z \in Conn \ {x} : pcs'[z] = pcs[z]
                  /\ net' = net \cup {Offer(x)}
                  /\ \/ /\ pcs'[x].sig = "stable" /\ pcs'[x].remote = a
                        /\ a # Nothing /\ ~ Busy(p, q, x)
                     \/ pcs'[x].sig = "have-local-offer" /\ pcs'[x].remote = pcs[x].remote
                  /\ UNCHANGED pending \/ pending' = [pending EXCEPT ![p] = NoAnswer]
                  /\ UNCHANGED entry \/ entry' = [entry EXCEPT ![p].applied = a]
  <1> DEFINE x == Next1(p, q).on
             a == pending[p].answer
  <1>1. pcs \in [Conn -> ConnRecord] /\ pcs[x] \in ConnRecord /\ x \in Conn
    BY DEF NInv, Typed, ConnsTyped
  <1>2. PICK known \in Known(p) :
          LET early == /\ a \notin {Nothing, known} /\ pending[p].for \in {Nothing, x}
                       /\ entry[p].conn = x /\ ~ Busy(p, q, x)
          IN  IF pcs[x].sig # "stable"
                THEN UNCHANGED << pcs, entry, pending, recent, net >>
                ELSE /\ pcs' = [pcs EXCEPT ![x].left = FullBackoff,
                                           ![x].sig = IF early THEN "stable" ELSE "have-local-offer",
                                           ![x].remote = IF early THEN a ELSE @]
                     /\ net' = net \cup {Offer(x)}
                     /\ IF early
                          THEN /\ entry' = [entry EXCEPT ![p].applied = a]
                               /\ recent' = [recent EXCEPT ![p].answer = a]
                               /\ pending' = [pending EXCEPT ![p] = NoAnswer]
                          ELSE UNCHANGED << entry, recent, pending >>
    BY DEF FinishDial
  <1> DEFINE early == /\ a \notin {Nothing, known} /\ pending[p].for \in {Nothing, x}
                      /\ entry[p].conn = x /\ ~ Busy(p, q, x)
  <1>3. ASSUME NEW sig \in {"stable", "have-local-offer"}, NEW remote,
               pcs' = [pcs EXCEPT ![x] = Offered(pcs[x], FullBackoff, sig, remote)]
        PROVE  /\ pcs'[x].sig = sig /\ pcs'[x].remote = remote /\ pcs'[x].state = pcs[x].state
               /\ \A z \in Conn \ {x} : pcs'[z] = pcs[z]
    <2> HIDE DEF x
    <2> DEFINE c == Offered(pcs[x], FullBackoff, sig, remote)
    <2>1. c.sig = sig /\ c.remote = remote /\ c.state = pcs[x].state
      BY <1>1 DEF Offered, ConnRecord
    <2>2. pcs' = [pcs EXCEPT ![x] = c]
      BY <1>3
    <2> HIDE DEF c
    <2> QED
      BY <1>1, <2>1, <2>2
  <1>4. CASE pcs[x].sig # "stable"
    BY <1>2, <1>4
  <1>5. CASE pcs[x].sig = "stable" /\ early
    <2>1. pcs' = [pcs EXCEPT ![x] = Offered(pcs[x], FullBackoff, "stable", a)]
      BY <1>1, <1>2, <1>5 DEF Offered
    <2>2. /\ pcs'[x].sig = "stable" /\ pcs'[x].remote = a /\ pcs'[x].state = pcs[x].state
          /\ \A z \in Conn \ {x} : pcs'[z] = pcs[z]
      BY <1>3, <2>1
    <2>3. /\ net' = net \cup {Offer(x)} /\ pending' = [pending EXCEPT ![p] = NoAnswer]
          /\ entry' = [entry EXCEPT ![p].applied = a]
          /\ a # Nothing /\ ~ Busy(p, q, x)
      BY <1>2, <1>5
    <2> HIDE DEF x, a, early
    <2> QED
      BY <1>5, <2>2, <2>3 DEF x, a
  <1>6. CASE pcs[x].sig = "stable" /\ ~ early
    <2> DEFINE own == pcs[x].remote
    <2>1. pcs' = [pcs EXCEPT ![x] = Offered(pcs[x], FullBackoff, "have-local-offer", own)]
      BY <1>1, <1>2, <1>6 DEF Offered
    <2>2. /\ pcs'[x].sig = "have-local-offer" /\ pcs'[x].remote = own /\ pcs'[x].state = pcs[x].state
          /\ \A z \in Conn \ {x} : pcs'[z] = pcs[z]
      BY <1>3, <2>1
    <2>3. net' = net \cup {Offer(x)} /\ UNCHANGED << pending, entry >>
      BY <1>2, <1>6
    <2> HIDE DEF x, a, early
    <2> QED
      BY <1>6, <2>2, <2>3 DEF x, a
  <1> QED
    BY <1>4, <1>5, <1>6

\* The descriptions under way are those of the operations of the other queue.
LEMMA NotBusy ==
    ASSUME NEW p \in Peer, NEW q \in Queues, ~ Busy(p, q, entry[p].conn)
    PROVE  \A s \in Queues \ {q} : ~ Dialling(p, s) /\ ~ Yielding(p, s) /\ ~ Setting(p, s)
  BY DEF Busy, Dialling, Yielding, Setting, Under, IsAt

LEMMA PendingGoes ==
    ASSUME NInv, LinkInv, NEW p \in Peer,
           UNCHANGED pending \/ pending' = [pending EXCEPT ![p] = NoAnswer]
    PROVE  OwnAnswers'
  <1>1. CASE UNCHANGED pending
    BY <1>1, SameAnswers
  <1>2. CASE pending' = [pending EXCEPT ![p] = NoAnswer]
    <2>1. \A r \in Peer : pending'[r].answer \in {Nothing, pending[r].answer}
      BY <1>2 DEF NoAnswer, NInv, Typed, MemoryTyped
    <2> QED
      BY <2>1, SameAnswers
  <1> QED
    BY <1>1, <1>2

LEMMA FinishDialLink ==
    ASSUME NInv, NInv', LinkInv, NEW p \in Peer, NEW q \in Queues, FinishDial(p, q)
    PROVE  LinkInv'
  <1> DEFINE x == Next1(p, q).on
             a == pending[p].answer
             o == Other(p)
  <1>1. /\ ops[p][q] # << >> /\ Next1(p, q).kind = "dial" /\ Next1(p, q).at = "made"
        /\ Done(p, q) /\ ends' = ends /\ closing' = closing
    BY DEF FinishDial, IsAt
  <1>2. x \in Conn /\ Owner(x) = p /\ Next1(p, q) \in AllOps(p)
    BY <1>1, OpConn
  <1>3. CASE UNCHANGED << pcs, entry, pending, net >>
    <2>1. SameLink(p)
      BY <1>1, <1>3, NothingOfLink
    <2>2. FramesFollow(p) /\ OwnAnswers'
      BY <1>3, FewerFrames, SameAnswers
    <2> QED
      BY <1>1, <2>1, <2>2, QuietDone
  <1>4. CASE /\ pcs[x].sig = "stable" /\ pcs'[x].state = pcs[x].state
             /\ \A z \in Conn \ {x} : pcs'[z] = pcs[z]
             /\ net' = net \cup {Offer(x)}
             /\ \/ /\ pcs'[x].sig = "stable" /\ pcs'[x].remote = a
                   /\ a # Nothing /\ ~ Busy(p, q, x)
                \/ pcs'[x].sig = "have-local-offer" /\ pcs'[x].remote = pcs[x].remote
             /\ UNCHANGED pending \/ pending' = [pending EXCEPT ![p] = NoAnswer]
             /\ UNCHANGED entry \/ entry' = [entry EXCEPT ![p].applied = a]
    <2>1. Live(p) /\ entry[p].conn = x /\ x \notin closing
      <3>1. ~ SetsNoOther(x)
        BY <1>1, <1>2 DEF SetsNoOther
      <3> QED
        BY <1>1, <1>4, <3>1, OpConn, LiveConn
    <2>2. EdgeInv(p) /\ Dialling(p, q)
      BY <1>1, <2>1 DEF LinkInv, Dialling, Under, IsAt
    <2>3. pcs[x].state = "new" /\ ~ Steady(p)
      BY <2>1, <2>2 DEF EdgeInv, Steady
    <2>4. DialsAlone(p) /\ YieldsPolitely(p) /\ ChanWaits(p)
      BY <2>1, <2>2, <2>3 DEF EdgeInv
    <2>5. /\ HasChan(p) /\ pcs[x].remote = Nothing /\ ends[o][x] = "none"
          /\ \A s \in Queues : ~ Yielding(p, s) /\ (s # q => ~ Dialling(p, s))
      BY <1>4, <2>1, <2>2, <2>4 DEF DialsAlone, ChanWaits
    <2>6. entry[p].offered = Nothing
      BY <2>1, <2>2, <2>5 DEF EdgeInv
    <2>7. /\ \A r \in Peer : entry'[r].conn = entry[r].conn
          /\ \A r \in Peer \ {p} : entry'[r] = entry[r]
          /\ entry'[p].chan = entry[p].chan /\ entry'[p].offered = Nothing
      BY <1>4, <2>6 DEF NInv, Typed, EntriesTyped, EntryRecord
    <2>8. /\ OpsFollow /\ LaterIdle'
          /\ \A r \in Peer, s \in Queues : r # p => ops'[r][s] = ops[r][s]
          /\ \A s \in Queues :
                /\ Dialling(p, s)' => Dialling(p, s) /\ s # q
                /\ Yielding(p, s)' => Yielding(p, s) /\ s # q
                /\ Setting(p, s)' => Setting(p, s) /\ s # q /\ Next1(p, s)' = Next1(p, s)
      BY <1>1, <2>7, DoneUnder
    <2>9. HasChan(p)'
      BY <1>1, <2>1, <2>5, <2>7 DEF HasChan
    <2>10. Owner(a) = o \/ pcs'[x].sig = "have-local-offer"
      BY <1>4 DEF LinkInv, Owned, OwnAnswers
    <2>11. pcs'[x].sig # "closed" /\ (pcs'[x].remote # Nothing => Owner(pcs'[x].remote) = o)
      BY <1>4, <2>5, <2>10
    <2>12. OnlyOf(p) /\ OwnRemotes' /\ ClosingFollows(p)
      <3> HIDE DEF x, a
      <3>1. \A r \in Peer, c \in Conn : ends'[r][c] = ends[r][c]
        BY <1>1
      <3> QED
        BY <1>1, <1>2, <1>4, <2>1, <2>7, <2>8, <2>11, <3>1, OneConnChanges
    <2>13. EdgeInv(p)'
      <3>1. pcs'[x].state = "new" /\ entry'[p].conn = x
        BY <1>4, <2>1, <2>3, <2>7
      <3>2. DialsAlone(p)' /\ YieldsPolitely(p)'
        BY <2>5, <2>8 DEF DialsAlone, YieldsPolitely
      <3>3. SetsOneOffer(p)'
        <4>1. pcs'[x].sig = "stable" => ~ Busy(p, q, entry[p].conn)
          BY <1>4, <2>1
        <4>2. pcs'[x].sig = "stable" => \A s \in Queues : ~ Setting(p, s)'
          BY <2>8, <4>1, NotBusy
        <4> QED
          BY <3>1, <4>2 DEF SetsOneOffer
      <3>4. ChanWaits(p)'
        BY <1>1, <2>5, <2>9, <3>1 DEF ChanWaits
      <3> QED
        BY <2>7, <3>1, <3>2, <3>3, <3>4 DEF EdgeInv
    <2>14. Moves(p)
      BY <2>1, <2>3, <2>7 DEF Moves
    <2>15. JoinsNot(p)
      BY <1>4, <2>1, <2>3, <2>7, <2>9 DEF JoinsNot, Joined, IsOpen, HasChan
    <2>16. KeepsChan(p) /\ KeepsPair(p)
      BY <1>1, <1>4, <2>1, <2>3, <2>7, <2>9 DEF KeepsChan, KeepsPair
    <2>17. FramesFollow(p)
      <3>1. \A f \in net' \ net : f = Offer(x)
        BY <1>4
      <3> QED
        BY <1>2, <2>9, <3>1, OfferParts DEF FramesFollow
    <2>18. OwnAnswers'
      BY <1>4, PendingGoes
    <2> QED
      BY <2>8, <2>12, <2>13, <2>14, <2>15, <2>16, <2>17, <2>18, LinkStep
  <1> QED
    BY <1>2, <1>3, <1>4, DialMade

\* What is under way once an offer goes on, with a connection of its peer.
LEMMA GoesUnder ==
    ASSUME NInv, LinkInv, NEW p \in Peer, NEW q \in Queues, ops[p][q] # << >>,
           Next1(p, q).kind = "offer", NEW x \in Conn, Owner(x) = p,
           NEW at \in {"made", "remote", "yielding"}, Goes(p, q, at, x),
           x \notin closing \/ at = "made", closing' = closing,
           \A r \in Peer : entry'[r].conn = entry[r].conn
    PROVE  /\ OpsFollow /\ LaterIdle'
           /\ \A r \in Peer, s \in Queues : r # p => ops'[r][s] = ops[r][s]
           /\ x # entry[p].conn => \A s \in Queues : CalmQueue(p, s)
           /\ \A s \in Queues :
                /\ Dialling(p, s)' => Dialling(p, s)
                /\ Yielding(p, s)' => Yielding(p, s) \/ at = "yielding"
                /\ Setting(p, s)' => \/ Setting(p, s) /\ Next1(p, s)' = Next1(p, s)
                                     \/ at = "remote" /\ Next1(p, s)'.arg = Next1(p, q).arg
  <1>1. OpsTyped
    BY DEF NInv, Typed
  <1>2. at \in {"start", "made", "remote", "yielding"}
    OBVIOUS
  <1>3. /\ \A r \in Peer, s \in Queues : r # p \/ s # q => ops'[r][s] = ops[r][s]
        /\ LaterIdle'
    BY <1>1, <1>2, GoesOn DEF LinkInv
  <1>4. PICK o \in LegalOp :
           /\ o.kind = Next1(p, q).kind /\ o.arg = Next1(p, q).arg /\ o.at = at /\ o.on = x
           /\ ops'[p][q] # << >> /\ Head(ops'[p][q]) = o
           /\ \A r \in Peer : \A w \in AllOps(r)' : w \in AllOps(r) \/ (r = p /\ w = o)
    BY <1>1, <1>2, GoesOn
  <1>5. OpsFollow
    <2> SUFFICES ASSUME NEW r \in Peer, NEW w \in AllOps(r)', w \notin AllOps(r)
                 PROVE  /\ \E v \in AllOps(r) : v.kind = w.kind /\ v.arg = w.arg
                        /\ Owner(w.on) = r
                        /\ w.on \notin closing' \/ (w.kind = "offer" /\ w.at = "made")
      BY DEF OpsFollow
    <2>1. r = p /\ w = o
      BY <1>4
    <2>2. Next1(p, q) \in AllOps(p)
      BY <1>1, AQueue DEF Next1
    <2> QED
      BY <1>4, <2>1, <2>2
  <1>6. \A s \in Queues \ {q} : /\ Dialling(p, s)' => Dialling(p, s)
                                /\ Yielding(p, s)' => Yielding(p, s)
                                /\ Setting(p, s)' => Setting(p, s) /\ Next1(p, s)' = Next1(p, s)
    <2>1. \A s \in Queues \ {q} : CalmQueue(p, s)
      BY <1>3 DEF CalmQueue
    <2> QED
      BY <2>1, CalmUnder
  <1>7. Next1(p, q)' = o
    BY <1>4 DEF Next1
  <1>8. /\ ~ Dialling(p, q)'
        /\ Yielding(p, q)' => at = "yielding"
        /\ Setting(p, q)' => at = "remote" /\ Next1(p, q)'.arg = Next1(p, q).arg
    BY <1>4, <1>7 DEF Dialling, Yielding, Setting, Under, IsAt
  <1>9. x # entry[p].conn => \A s \in Queues : CalmQueue(p, s)
    BY <1>3, <1>4 DEF CalmQueue
  <1> QED
    BY <1>3, <1>5, <1>6, <1>8, <1>9

\* The offer that its connection gets is the one it has, if it has any.
LEMMA NoOtherOffer ==
    ASSUME NInv, LinkInv, NEW p \in Peer, NEW o, Live(p), ~ RemoteStartedOver(p, o)
    PROVE  pcs[entry[p].conn].remote \in {Nothing, o}
  <1>1. EdgeInv(p) /\ entry[p].conn # Nothing
    BY DEF LinkInv, Live
  <1> QED
    BY <1>1 DEF EdgeInv, RemoteStartedOver, Credentials

LEMMA OfferGoesOnLink ==
    ASSUME NInv, NInv', LinkInv, NEW p \in Peer, NEW q \in Queues, ops[p][q] # << >>,
           Next1(p, q).kind = "offer", Live(p), SameLink(p),
           entry' = entry, net' = net, OwnAnswers',
           NEW at \in {"remote", "yielding"}, Goes(p, q, at, entry[p].conn),
           at = "remote" => pcs[entry[p].conn].remote \in {Nothing, Next1(p, q).arg},
           at = "yielding" => Yields(p, entry[p].conn)
    PROVE  LinkInv'
  <1> DEFINE x == entry[p].conn
  <1>1. x \in Conn /\ Owner(x) = p /\ x \notin closing /\ EdgeInv(p)
    BY LiveConn DEF LinkInv
  <1>2. /\ ends' = ends /\ closing' = closing /\ \A r \in Peer : entry'[r] = entry[r]
        /\ \A z \in Conn : /\ pcs'[z].sig = pcs[z].sig /\ pcs'[z].remote = pcs[z].remote
                           /\ pcs'[z].state = pcs[z].state
    BY DEF SameLink, SameConns
  <1>3. /\ OpsFollow /\ LaterIdle'
        /\ \A r \in Peer, s \in Queues : r # p => ops'[r][s] = ops[r][s]
        /\ \A s \in Queues :
             /\ Dialling(p, s)' => Dialling(p, s)
             /\ Yielding(p, s)' => Yielding(p, s) \/ at = "yielding"
             /\ Setting(p, s)' => \/ Setting(p, s) /\ Next1(p, s)' = Next1(p, s)
                                  \/ at = "remote" /\ Next1(p, s)'.arg = Next1(p, q).arg
    BY <1>1, <1>2, GoesUnder
  <1>4. at = "yielding" => /\ p = Polite /\ pcs[x].sig = "have-local-offer"
                           /\ pcs[x].state = "new"
    BY <1>1 DEF Yields, EdgeInv, Steady
  <1>5. Other(p) \in Peer /\ Other(p) # p
    BY OtherPeer
  <1>6. OnlyOf(p)
    <2>1. \A s \in Queues : CalmQueue(Other(p), s)
      BY <1>3, <1>5 DEF CalmQueue
    <2> QED
      BY <1>2, <1>5, <2>1 DEF OnlyOf
  <1>7. HasChan(p)' = HasChan(p) /\ entry'[p].conn = x
    BY <1>2 DEF HasChan
  <1>8. Steady(p) => Steady(p)'
    <2> SUFFICES ASSUME Steady(p) PROVE Steady(p)'
      OBVIOUS
    <2>1. at = "remote" /\ pcs[x].remote = Next1(p, q).arg
      BY <1>4 DEF Steady
    <2> QED
      BY <1>1, <1>2, <1>3, <2>1 DEF Steady
  <1>9. ASSUME pcs[x].state = "new"
        PROVE  (DialsAlone(p) /\ YieldsPolitely(p) /\ SetsOneOffer(p) /\ ChanWaits(p))'
    <2>1. DialsAlone(p) /\ YieldsPolitely(p) /\ SetsOneOffer(p) /\ ChanWaits(p)
      BY <1>1, <1>9 DEF EdgeInv
    <2>2. DialsAlone(p)'
      <3>1. at = "yielding" => \A s \in Queues : ~ Dialling(p, s)'
        BY <1>3, <1>4, <2>1 DEF DialsAlone
      <3>2. CASE at = "yielding"
        BY <3>1, <3>2 DEF DialsAlone
      <3>3. CASE at = "remote"
        BY <1>1, <1>2, <1>3, <1>7, <2>1, <3>3 DEF DialsAlone
      <3> QED
        BY <3>2, <3>3
    <2>3. YieldsPolitely(p)'
      BY <1>1, <1>2, <1>3, <1>4, <2>1 DEF YieldsPolitely
    <2>4. SetsOneOffer(p)'
      BY <1>1, <1>2, <1>3, <2>1 DEF SetsOneOffer
    <2>5. ChanWaits(p)'
      BY <1>1, <1>2, <1>7, <2>1 DEF ChanWaits
    <2> QED
      BY <2>2, <2>3, <2>4, <2>5
  <1>10. EdgeInv(p)'
    BY <1>1, <1>2, <1>8, <1>9 DEF EdgeInv
  <1>11. Moves(p)
    BY <1>1, <1>2, <1>8 DEF Moves
  <1>12. JoinsNot(p)
    BY <1>1, <1>2 DEF JoinsNot, Joined, IsOpen
  <1>13. KeepsChan(p)
    BY <1>1, <1>2, <1>7 DEF KeepsChan
  <1>14. KeepsPair(p)
    BY <1>1, <1>2 DEF KeepsPair
  <1>15. FramesFollow(p)
    BY FewerFrames
  <1>16. closing \subseteq Conn /\ ClosingFollows(p)
    BY <1>2 DEF ClosingFollows, NInv, Typed, WiresTyped
  <1>17. OwnRemotes'
    BY <1>2 DEF LinkInv, Owned, OwnRemotes
  <1> QED
    BY <1>3, <1>6, <1>10, <1>11, <1>12, <1>13, <1>14, <1>15, <1>16, <1>17, LinkStep

LEMMA OfferOnConnLink ==
    ASSUME NInv, NInv', LinkInv, NEW p \in Peer, NEW q \in Queues, ops[p][q] # << >>,
           Next1(p, q).kind = "offer", OfferOnConn(p, q, Next1(p, q).arg)
    PROVE  LinkInv'
  <1> DEFINE x == entry[p].conn
             o == Next1(p, q).arg
  <1>1. /\ Live(p) /\ ~ RemoteStartedOver(p, o)
        /\ UNCHANGED << ends, entry, closing, net >>
        /\ UNCHANGED pcs \/ pcs' = [pcs EXCEPT ![x].left = 0]
        /\ UNCHANGED pending \/ pending' = [pending EXCEPT ![p] = NoAnswer]
        /\ \/ Goes(p, q, "remote", x)
           \/ Yields(p, x) /\ Goes(p, q, "yielding", x)
           \/ Done(p, q)
    BY DEF OfferOnConn, IsUsable, Live
  <1>2. x \in Conn /\ pcs[x].remote \in {Nothing, o}
    BY <1>1, LiveConn, NoOtherOffer
  <1>3. SameConns
    <2>1. CASE UNCHANGED pcs
      BY <2>1 DEF SameConns
    <2>2. CASE pcs' = [pcs EXCEPT ![x].left = 0]
      <3>1. 0 \in 0 .. MaxRetries + 1
        OBVIOUS
      <3> HIDE DEF x
      <3> QED
        BY <1>2, <2>2, <3>1, LeftIsQuiet
    <2> QED
      BY <1>1, <2>1, <2>2
  <1>4. SameLink(p)
    BY <1>1, <1>3 DEF SameLink, SameEntries
  <1>5. OwnAnswers' /\ FramesFollow(p)
    BY <1>1, PendingGoes, FewerFrames
  <1>6. CASE Done(p, q)
    BY <1>4, <1>5, <1>6, QuietDone
  <1>7. CASE Goes(p, q, "remote", x)
    BY <1>1, <1>2, <1>4, <1>5, <1>7, OfferGoesOnLink
  <1>8. CASE Yields(p, x) /\ Goes(p, q, "yielding", x)
    BY <1>1, <1>2, <1>4, <1>5, <1>8, OfferGoesOnLink
  <1> QED
    BY <1>1, <1>6, <1>7, <1>8

LEMMA StartOfferLink ==
    ASSUME NInv, NInv', LinkInv, NEW p \in Peer, NEW q \in Queues, StartOffer(p, q)
    PROVE  LinkInv'
  <1>1. ops[p][q] # << >> /\ Next1(p, q).kind = "offer"
    BY DEF StartOffer, IsAt
  <1> QED
    BY <1>1, AnsweredAgainLink, OfferOnFreshConnLink, OfferOnConnLink DEF StartOffer

\* Other descriptions of a connection that is not its entry's leave the edge.
LEMMA ClosingConnLink ==
    ASSUME NInv, NInv', LinkInv, NEW p \in Peer, NEW x \in Conn, Owner(x) = p,
           entry[p].conn # x, pcs[x].sig # "closed", pcs'[x].sig # "closed",
           \A z \in Conn \ {x} : pcs'[z] = pcs[z],
           pcs'[x].remote = pcs[x].remote,
           closing' = closing, ends' = ends,
           \A r \in Peer \ {p} : entry'[r] = entry[r] /\ \A s \in Queues : ops'[r][s] = ops[r][s],
           entry'[p].conn = entry[p].conn, entry'[p].chan = entry[p].chan,
           entry'[p].offered = entry[p].offered,
           \A s \in Queues : CalmQueue(p, s),
           OpsFollow, LaterIdle', FramesFollow(p), OwnAnswers'
    PROVE  LinkInv'
  <1> DEFINE e == entry[p].conn
  <1>1. pcs[x].remote # Nothing => Owner(pcs[x].remote) = Other(p)
    BY DEF LinkInv, Owned, OwnRemotes
  <1>2. OnlyOf(p) /\ OwnRemotes' /\ ClosingFollows(p)
    BY <1>1, OneConnChanges
  <1>3. Live(p)' => Live(p) /\ pcs'[e] = pcs[e]
    BY EntryConn DEF Live
  <1>4. SameEdge(p)
    BY <1>3 DEF SameEdge
  <1>5. IsOpen(p)' => IsOpen(p)
    BY DEF IsOpen
  <1>6. EdgeInv(p)' /\ Moves(p) /\ JoinsNot(p) /\ KeepsChan(p)
    BY <1>4, <1>5, SameEdgeKeeps
  <1>7. KeepsPair(p)
    BY <1>3 DEF KeepsPair
  <1> QED
    BY <1>2, <1>6, <1>7, LinkStep

\* The remote offer is set on the connection of the entry.
LEMMA OfferSetLink ==
    ASSUME NInv, NInv', LinkInv, NEW p \in Peer, NEW q \in Queues, ops[p][q] # << >>,
           Next1(p, q).kind = "offer", Next1(p, q).at \in {"remote", "yielding"},
           Live(p), NEW x \in Conn, x = entry[p].conn, Next1(p, q).on = x,
           NEW o \in Conn, o = Next1(p, q).arg, Owner(o) = Other(p),
           Goes(p, q, "made", x),
           pcs'[x].sig = "have-remote-offer", pcs'[x].remote = o,
           pcs'[x].state = pcs[x].state,
           \A z \in Conn \ {x} : pcs'[z] = pcs[z],
           closing' = closing, net' = net, OwnAnswers',
           \A r \in Peer : entry'[r].conn = entry[r].conn,
           \A r \in Peer \ {p} : entry'[r] = entry[r],
           entry'[p].offered = o,
           \/ ends' = ends /\ entry'[p].chan = entry[p].chan
           \/ /\ Next1(p, q).at = "yielding" /\ entry[p].chan # Nothing /\ entry'[p].chan = Nothing
              /\ ends'[p][entry[p].chan] = "none"
              /\ \A r \in Peer, c \in Conn : ends'[r][c] = ends[r][c] \/ (r = p /\ c = entry[p].chan)
    PROVE  LinkInv'
  <1>1. Owner(x) = p /\ x \notin closing /\ EdgeInv(p) /\ Next1(p, q) \in AllOps(p)
    BY LiveConn, OpConn DEF LinkInv
  <1>2. Setting(p, q) \/ Yielding(p, q)
    BY DEF Setting, Yielding, Under, IsAt
  <1>3. Next1(p, q).at = "yielding" => Yielding(p, q)
    BY DEF Yielding, Under, IsAt
  <1>4. /\ OpsFollow /\ LaterIdle'
        /\ \A r \in Peer, s \in Queues : r # p => ops'[r][s] = ops[r][s]
        /\ \A s \in Queues :
             /\ Dialling(p, s)' => Dialling(p, s)
             /\ Yielding(p, s)' => Yielding(p, s)
             /\ Setting(p, s)' => Setting(p, s) /\ Next1(p, s)' = Next1(p, s)
    <2>1. "made" \in {"made", "remote", "yielding"} /\ "made" # "remote" /\ "made" # "yielding"
      OBVIOUS
    <2> QED
      BY <1>1, <2>1, GoesUnder
  <1>5. \A r \in Peer, c \in Conn : ends'[r][c] = ends[r][c] \/ (r = p /\ ends'[r][c] = "none")
    OBVIOUS
  <1>6. OnlyOf(p) /\ OwnRemotes' /\ ClosingFollows(p)
    <2>1. pcs'[x].sig # "closed" /\ pcs[x].sig # "closed"
      BY DEF Live
    <2> QED
      BY <1>1, <1>4, <1>5, <2>1, OneConnChanges
  <1>7. FramesFollow(p)
    BY FewerFrames
  <1>8. Steady(p) => Steady(p)' /\ pcs[x].remote = o /\ Next1(p, q).at # "yielding"
    <2> SUFFICES ASSUME Steady(p)
                 PROVE  Steady(p)' /\ pcs[x].remote = o /\ Next1(p, q).at # "yielding"
      OBVIOUS
    <2>1. Next1(p, q).at # "yielding" /\ pcs[x].remote = o
      BY <1>2, <1>3 DEF Steady
    <2>2. Steady(p)'
      BY <1>4, <2>1 DEF Steady
    <2> QED
      BY <2>1, <2>2
  <1>9. Moves(p)
    BY <1>8 DEF Moves
  <1>10. CASE pcs[x].state # "new"
    <2>1. Steady(p)
      BY <1>1, <1>10 DEF EdgeInv
    <2>2. ends' = ends /\ entry'[p].chan = entry[p].chan /\ pcs[x].remote = o /\ Steady(p)'
      BY <1>8, <2>1
    <2>3. EdgeInv(p)'
      BY <1>1, <1>10, <2>2 DEF EdgeInv
    <2>4. JoinsNot(p) /\ KeepsChan(p) /\ KeepsPair(p)
      BY <1>10, <2>2 DEF JoinsNot, Joined, IsOpen, KeepsChan, KeepsPair
    <2> QED
      BY <1>4, <1>6, <1>7, <1>9, <2>3, <2>4, LinkStep
  <1>11. CASE pcs[x].state = "new"
    <2>1. DialsAlone(p) /\ YieldsPolitely(p) /\ SetsOneOffer(p) /\ ChanWaits(p)
      BY <1>1, <1>11 DEF EdgeInv
    <2>2. Next1(p, q).at # "yielding" => HasChan(p)' = HasChan(p) /\ ends' = ends
                                          /\ entry'[p].chan = entry[p].chan
      BY DEF HasChan
    <2>3. DialsAlone(p)'
      <3>1. ASSUME NEW s \in Queues, Dialling(p, s)
            PROVE  HasChan(p)' /\ \A r \in Queues : ~ Yielding(p, r) /\ (r # s => ~ Dialling(p, r))
        BY <1>3, <2>1, <2>2, <3>1 DEF DialsAlone
      <3> QED
        BY <1>4, <3>1 DEF DialsAlone
    <2>4. YieldsPolitely(p)' /\ SetsOneOffer(p)'
      BY <1>4, <2>1 DEF YieldsPolitely, SetsOneOffer
    <2>5. ChanWaits(p)'
      <3>1. Other(p) \in Peer /\ Other(p) # p
        BY OtherPeer
      <3>2. ends'[Other(p)][x] = "none"
        BY <1>5, <2>1, <3>1 DEF ChanWaits
      <3>3. \/ HasChan(p)'
            \/ entry'[p].chan = Nothing /\ ends'[p][x] = "none"
        BY <2>1, <2>2 DEF ChanWaits, HasChan
      <3> QED
        BY <3>2, <3>3 DEF ChanWaits
    <2>6. EdgeInv(p)'
      BY <1>11, <2>3, <2>4, <2>5 DEF EdgeInv
    <2>7. JoinsNot(p)
      BY <1>11, <2>5 DEF JoinsNot, Joined, IsOpen, ChanWaits, HasChan
    <2>8. KeepsChan(p)
      <3>1. CASE p = Polite
        BY <1>1, <3>1 DEF KeepsChan
      <3>2. CASE p # Polite
        <4>1. p = Impolite /\ Next1(p, q).at # "yielding"
          BY <1>3, <2>1, <3>2 DEF YieldsPolitely, Peer
        <4> QED
          BY <2>2, <4>1 DEF KeepsChan
      <3> QED
        BY <3>1, <3>2
    <2>9. KeepsPair(p)
      <3>1. p = Impolite \/ p = Polite
        BY DEF Peer
      <3> QED
        BY <1>11, <3>1 DEF KeepsPair, Paired
    <2> QED
      BY <1>4, <1>6, <1>7, <1>9, <2>6, <2>7, <2>8, <2>9, LinkStep
  <1> QED
    BY <1>10, <1>11

LEMMA SetRemoteOfferLink ==
    ASSUME NInv, NInv', LinkInv, NEW p \in Peer, NEW q \in Queues, SetRemoteOffer(p, q)
    PROVE  LinkInv'
  <1> DEFINE x == Next1(p, q).on
             o == Next1(p, q).arg
  <1>1. /\ ops[p][q] # << >> /\ Next1(p, q).kind = "offer"
        /\ Next1(p, q).at \in {"remote", "yielding"}
        /\ UNCHANGED << pending, closing, net >>
    BY DEF SetRemoteOffer, IsAt
  <1>2. /\ x \in Conn /\ Owner(x) = p /\ o \in Conn /\ Owner(o) = Other(p)
        /\ Next1(p, q) \in AllOps(p)
    BY <1>1, OpConn
  <1>3. FramesFollow(p) /\ OwnAnswers'
    BY <1>1, FewerFrames, SameAnswers
  <1>4. CASE Done(p, q) /\ UNCHANGED << pcs, ends, entry >>
    <2>1. SameLink(p)
      BY <1>1, <1>4, NothingOfLink
    <2> QED
      BY <1>1, <1>3, <1>4, <2>1, QuietDone
  <1>5. CASE ~ (Done(p, q) /\ UNCHANGED << pcs, ends, entry >>)
    <2>1. PICK withdrawn \in BOOLEAN :
            /\ pcs[x].sig # "closed"
            /\ pcs' = [pcs EXCEPT ![x].sig = "have-remote-offer", ![x].remote = o]
            /\ withdrawn => /\ Next1(p, q).at = "yielding" /\ entry[p].conn = x
                            /\ entry[p].chan # Nothing
            /\ ends' = IF withdrawn THEN [ends EXCEPT ![p][entry[p].chan] = "none"] ELSE ends
            /\ entry' = [entry EXCEPT ![p].chan = IF withdrawn THEN Nothing ELSE @,
                                      ![p].offered = IF entry[p].conn = x THEN o ELSE @]
            /\ Goes(p, q, "made", x)
      BY <1>5 DEF SetRemoteOffer, Withdraws
    <2>2. /\ pcs'[x].sig = "have-remote-offer" /\ pcs'[x].remote = o
          /\ pcs'[x].state = pcs[x].state
          /\ \A z \in Conn \ {x} : pcs'[z] = pcs[z]
      <3> HIDE DEF x, o
      <3>1. pcs \in [Conn -> ConnRecord] /\ pcs[x] \in ConnRecord
        BY <1>2 DEF NInv, Typed, ConnsTyped
      <3> DEFINE c == Described(pcs[x], "have-remote-offer", o)
      <3>2. pcs' = [pcs EXCEPT ![x] = c]
        BY <1>2, <2>1, <3>1 DEF Described
      <3>3. c.sig = "have-remote-offer" /\ c.remote = o /\ c.state = pcs[x].state
        BY <3>1 DEF Described, ConnRecord
      <3> HIDE DEF c
      <3> QED
        BY <1>2, <3>1, <3>2, <3>3
    <2>3. /\ \A r \in Peer : entry'[r].conn = entry[r].conn
          /\ \A r \in Peer \ {p} : entry'[r] = entry[r]
          /\ entry'[p].chan = IF withdrawn THEN Nothing ELSE entry[p].chan
          /\ entry'[p].offered = IF entry[p].conn = x THEN o ELSE entry[p].offered
      <3> HIDE DEF x, o
      <3> DEFINE chan == IF withdrawn THEN Nothing ELSE entry[p].chan
                 offered == IF entry[p].conn = x THEN o ELSE entry[p].offered
                 e == EntryWith(entry[p], chan, offered)
      <3>1. entry \in [Peer -> EntryRecord] /\ entry[p] \in EntryRecord
        BY DEF NInv, Typed, EntriesTyped
      <3>2. entry' = [entry EXCEPT ![p] = e]
        BY <2>1, <3>1 DEF EntryWith
      <3> HIDE DEF chan, offered
      <3>3. e.conn = entry[p].conn /\ e.chan = chan /\ e.offered = offered
        BY <3>1 DEF EntryWith, EntryRecord
      <3> HIDE DEF e
      <3>4. entry'[p] = e /\ \A r \in Peer \ {p} : entry'[r] = entry[r]
        BY <3>1, <3>2
      <3> QED
        BY <3>3, <3>4 DEF chan, offered
    <2>4. CASE entry[p].conn = x
      <3>1. Live(p) /\ x \notin closing
        BY <1>2, <2>1, <2>4, OpConn, LiveConn, ConnParts DEF Live
      <3>2. \/ ends' = ends /\ entry'[p].chan = entry[p].chan
            \/ /\ Next1(p, q).at = "yielding" /\ entry[p].chan # Nothing /\ entry'[p].chan = Nothing
               /\ ends'[p][entry[p].chan] = "none"
               /\ \A r \in Peer, c \in Conn : ends'[r][c] = ends[r][c] \/ (r = p /\ c = entry[p].chan)
        <4>1. CASE ~ withdrawn
          BY <2>1, <2>3, <4>1
        <4>2. CASE withdrawn
          <5> DEFINE d == entry[p].chan
          <5>1. d \in Conn /\ ends' = [ends EXCEPT ![p][d] = "none"]
            BY <2>1, <4>2, EntryConn DEF MaybeConn
          <5>2. ends \in [Peer -> [Conn -> EndState]]
            BY DEF NInv, Typed, EndsTyped
          <5>3. /\ ends'[p][d] = "none"
                /\ \A r \in Peer, c \in Conn : ends'[r][c] = ends[r][c] \/ (r = p /\ c = d)
            <6> HIDE DEF d
            <6> QED
              BY <5>1, <5>2
          <5> QED
            BY <2>1, <2>3, <4>2, <5>3
        <4> QED
          BY <4>1, <4>2
      <3> HIDE DEF x, o
      <3>3. Goes(p, q, "made", x) /\ entry'[p].offered = o
        BY <2>1, <2>3, <2>4
      <3>4. x = Next1(p, q).on /\ o = Next1(p, q).arg
        BY DEF x, o
      <3>5. closing' = closing /\ net' = net
        BY <1>1
      <3> QED
        BY <1>1, <1>2, <1>3, <2>2, <2>3, <2>4, <3>1, <3>2, <3>3, <3>4, <3>5, OfferSetLink
    <2>5. CASE entry[p].conn # x
      <3>1. x \in closing /\ SetsNoOther(x)
        BY <1>1, <2>1, <2>5, OpConn
      <3>2. o = pcs[x].remote
        BY <1>1, <1>2, <3>1 DEF SetsNoOther
      <3>3. ends' = ends /\ entry'[p].chan = entry[p].chan /\ entry'[p].offered = entry[p].offered
        BY <2>1, <2>3, <2>5
      <3>4. "made" \in {"made", "remote", "yielding"}
        OBVIOUS
      <3>5. /\ OpsFollow /\ LaterIdle'
            /\ \A r \in Peer, s \in Queues : r # p => ops'[r][s] = ops[r][s]
            /\ \A s \in Queues : CalmQueue(p, s)
        <4> HIDE DEF x
        <4>1. closing' = closing /\ Goes(p, q, "made", x)
          BY <1>1, <2>1
        <4> QED
          BY <1>1, <1>2, <2>3, <2>5, <3>4, <4>1, GoesUnder
      <3>6. closing' = closing /\ Owner(x) = p /\ x \in Conn /\ entry[p].conn # x
        BY <1>1, <1>2, <2>5
      <3>7. pcs[x].sig # "closed" /\ pcs'[x].sig # "closed" /\ pcs'[x].remote = pcs[x].remote
        BY <2>1, <2>2, <3>2
      <3>8. \A r \in Peer \ {p} : entry'[r] = entry[r] /\ \A s \in Queues : ops'[r][s] = ops[r][s]
        BY <2>3, <3>5
      <3>9. (\A z \in Conn \ {x} : pcs'[z] = pcs[z]) /\ entry'[p].conn = entry[p].conn
        BY <2>2, <2>3
      <3> HIDE DEF x, o
      <3> QED
        BY <1>3, <3>3, <3>5, <3>6, <3>7, <3>8, <3>9, ClosingConnLink
    <2> QED
      BY <2>4, <2>5
  <1> QED
    BY <1>4, <1>5

\* The connection of the entry comes to be stable, and nothing is under way on it.
LEMMA StableLink ==
    ASSUME NInv, NInv', LinkInv, NEW p \in Peer, NEW q \in Queues, ops[p][q] # << >>, Done(p, q),
           Live(p), NEW x \in Conn, x = entry[p].conn, ~ Busy(p, q, x),
           pcs'[x].sig = "stable", pcs'[x].state = pcs[x].state,
           pcs'[x].remote # Nothing => Owner(pcs'[x].remote) = Other(p),
           pcs'[x].remote = pcs[x].remote \/ pcs[x].sig = "have-local-offer",
           \A z \in Conn \ {x} : pcs'[z] = pcs[z],
           closing' = closing, ends' = ends, SameEntries(p), FramesFollow(p), OwnAnswers'
    PROVE  LinkInv'
  <1>1. Owner(x) = p /\ x \notin closing /\ EdgeInv(p)
    BY LiveConn DEF LinkInv
  <1>2. /\ entry'[p].conn = x /\ entry'[p].chan = entry[p].chan
        /\ entry'[p].offered = entry[p].offered
        /\ \A r \in Peer \ {p} : entry'[r] = entry[r]
        /\ \A r \in Peer : entry'[r].conn = entry[r].conn
    BY DEF SameEntries
  <1>3. /\ OpsFollow /\ LaterIdle'
        /\ \A r \in Peer, s \in Queues : r # p => ops'[r][s] = ops[r][s]
        /\ \A s \in Queues :
             /\ Dialling(p, s)' => Dialling(p, s) /\ s # q
             /\ Yielding(p, s)' => Yielding(p, s) /\ s # q
             /\ Setting(p, s)' => Setting(p, s) /\ s # q
    BY <1>2, DoneUnder
  <1>4. \A s \in Queues \ {q} : ~ Dialling(p, s) /\ ~ Yielding(p, s) /\ ~ Setting(p, s)
    BY NotBusy
  <1>5. \A s \in Queues : ~ Dialling(p, s)' /\ ~ Yielding(p, s)' /\ ~ Setting(p, s)'
    BY <1>3, <1>4
  <1>6. OnlyOf(p) /\ OwnRemotes' /\ ClosingFollows(p)
    <2>1. pcs'[x].sig # "closed" /\ pcs[x].sig # "closed"
      BY DEF Live
    <2>2. \A r \in Peer, c \in Conn : ends'[r][c] = ends[r][c] \/ (r = p /\ ends'[r][c] = "none")
      OBVIOUS
    <2> QED
      BY <1>1, <1>2, <1>3, <2>1, <2>2, OneConnChanges
  <1>7. HasChan(p)' = HasChan(p) /\ IsOpen(p)' = IsOpen(p)
    BY <1>2 DEF HasChan, IsOpen
  <1>8. pcs[x].sig = "have-local-offer" => HasChan(p) /\ pcs[x].state = "new"
    BY UnansweredHasChan
  <1>9. EdgeInv(p)'
    <2>1. entry[p].offered # Nothing => pcs'[x].remote = entry[p].offered
      BY <1>1 DEF EdgeInv
    <2>2. ASSUME pcs[x].state = "new"
          PROVE  (DialsAlone(p) /\ YieldsPolitely(p) /\ SetsOneOffer(p) /\ ChanWaits(p))'
      <3>1. (DialsAlone(p) /\ YieldsPolitely(p) /\ SetsOneOffer(p))'
        BY <1>5 DEF DialsAlone, YieldsPolitely, SetsOneOffer
      <3>2. ChanWaits(p)
        BY <1>1, <2>2 DEF EdgeInv
      <3>3. ChanWaits(p)'
        BY <1>2, <1>7, <3>2 DEF ChanWaits
      <3> QED
        BY <3>1, <3>3
    <2>3. ASSUME pcs[x].state # "new"
          PROVE  Steady(p)' /\ pcs'[x].remote = pcs[x].remote
      <3>1. Steady(p) /\ pcs'[x].remote = pcs[x].remote
        BY <1>1, <1>8, <2>3 DEF EdgeInv
      <3> QED
        BY <1>2, <1>5, <3>1 DEF Steady
    <2>4. pcs[x].state = "connected" => entry[p].chan \in {Nothing, x, pcs'[x].remote}
      BY <1>1, <2>3 DEF EdgeInv
    <2> QED
      BY <1>2, <2>1, <2>2, <2>3, <2>4 DEF EdgeInv
  <1>10. Moves(p)
    <2>1. ASSUME Steady(p)
          PROVE  Steady(p)' /\ pcs'[x].remote = pcs[x].remote
      <3>1. pcs'[x].remote = pcs[x].remote
        BY <2>1 DEF Steady
      <3> QED
        BY <1>2, <1>5, <2>1, <3>1 DEF Steady
    <2> QED
      BY <1>2, <2>1 DEF Moves
  <1>11. JoinsNot(p)
    BY <1>2, <1>7 DEF JoinsNot, Joined
  <1>12. KeepsChan(p)
    BY <1>2, <1>7, <1>8 DEF KeepsChan
  <1>13. KeepsPair(p)
    BY <1>2 DEF KeepsPair
  <1> QED
    BY <1>3, <1>6, <1>9, <1>10, <1>11, <1>12, <1>13, LinkStep

LEMMA MakeAnswerLink ==
    ASSUME NInv, NInv', LinkInv, NEW p \in Peer, NEW q \in Queues, MakeAnswer(p, q)
    PROVE  LinkInv'
  <1> DEFINE x == Next1(p, q).on
             o == Next1(p, q).arg
  <1>1. /\ ops[p][q] # << >> /\ Next1(p, q).kind = "offer" /\ Next1(p, q).at # "start"
        /\ ~ Busy(p, q, x) /\ Done(p, q)
        /\ UNCHANGED << ends, pending, closing >>
    BY DEF MakeAnswer, IsAt
  <1>2. x \in Conn /\ Owner(x) = p
    BY <1>1, OpConn
  <1>3. OwnAnswers'
    BY <1>1, SameAnswers
  <1>4. CASE UNCHANGED << pcs, entry, net >>
    <2>1. SameLink(p) /\ FramesFollow(p)
      BY <1>1, <1>4, NothingOfLink, FewerFrames
    <2> QED
      BY <1>1, <1>3, <2>1, QuietDone
  <1>5. CASE ~ UNCHANGED << pcs, entry, net >>
    <2>1. /\ pcs[x].sig = "have-remote-offer"
          /\ pcs' = [pcs EXCEPT ![x].sig = "stable"]
          /\ entry' = [entry EXCEPT ![p].answered = @ \/ entry[p].conn = x]
          /\ net' \subseteq net \cup {Answer(x)}
      BY <1>5, Zenon DEF MakeAnswer
    <2> HIDE DEF x
    <2>2. /\ pcs'[x].sig = "stable" /\ pcs'[x].remote = pcs[x].remote
          /\ pcs'[x].state = pcs[x].state
          /\ \A z \in Conn \ {x} : pcs'[z] = pcs[z]
      BY <1>2, <2>1 DEF NInv, Typed, ConnsTyped, ConnRecord
    <2>3. PICK answered \in BOOLEAN : entry' = [entry EXCEPT ![p].answered = answered]
      <3>1. entry' = [entry EXCEPT ![p].answered = entry[p].answered \/ entry[p].conn = x]
        BY <2>1 DEF NInv, Typed, EntriesTyped
      <3>2. (entry[p].answered \/ entry[p].conn = x) \in BOOLEAN
        OBVIOUS
      <3> QED
        BY <3>1, <3>2, Zenon
    <2>4. SameEntries(p)
      BY <2>3 DEF NInv, Typed, EntriesTyped, EntryRecord, SameEntries
    <2>5. FramesFollow(p)
      BY <2>1, NoOffers
    <2>6. pcs[x].remote # Nothing => Owner(pcs[x].remote) = Other(p)
      BY <1>2 DEF LinkInv, Owned, OwnRemotes
    <2>7. ends' = ends /\ closing' = closing
      BY <1>1
    <2>8. CASE entry[p].conn = x
      <3>1. Live(p)
        BY <1>2, <2>1, <2>8, ConnParts DEF Live
      <3> QED
        BY <1>1, <1>2, <1>3, <2>2, <2>4, <2>5, <2>6, <2>7, <2>8, <3>1, StableLink
    <2>9. CASE entry[p].conn # x
      <3>1. \A r \in Peer : entry'[r].conn = entry[r].conn
        BY <2>4 DEF SameEntries
      <3>2. /\ OpsFollow /\ LaterIdle'
            /\ \A r \in Peer, s \in Queues : r # p => ops'[r][s] = ops[r][s]
            /\ \A s \in Queues : CalmQueue(p, s)
        BY <1>1, <3>1, DoneUnder
      <3>3. /\ \A r \in Peer \ {p} : entry'[r] = entry[r]
            /\ entry'[p].conn = entry[p].conn /\ entry'[p].chan = entry[p].chan
            /\ entry'[p].offered = entry[p].offered
        BY <2>4 DEF SameEntries
      <3>4. pcs[x].sig # "closed" /\ pcs'[x].sig # "closed"
        BY <2>1, <2>2
      <3>5. \A r \in Peer \ {p} : entry'[r] = entry[r] /\ \A s \in Queues : ops'[r][s] = ops[r][s]
        BY <3>2, <3>3
      <3> QED
        BY <1>2, <1>3, <2>2, <2>5, <2>7, <2>9, <3>2, <3>3, <3>4, <3>5, ClosingConnLink
    <2> QED
      BY <2>8, <2>9
  <1> QED
    BY <1>4, <1>5

LEMMA ApplyAnswerLink ==
    ASSUME NInv, NInv', LinkInv, NEW p \in Peer, NEW q \in Queues, ApplyAnswer(p, q)
    PROVE  LinkInv'
  <1> DEFINE x == entry[p].conn
             a == Next1(p, q).arg
  <1>1. /\ ops[p][q] # << >> /\ Next1(p, q).kind = "answer" /\ Done(p, q)
        /\ UNCHANGED << ends, closing, net >>
    BY DEF ApplyAnswer, IsAt
  <1>2. Owner(a) = Other(p)
    <2>1. Next1(p, q) \in AllOps(p)
      BY <1>1, AQueue DEF Next1, NInv, Typed
    <2> QED
      BY <1>1, <2>1 DEF LinkInv, Owned, OwnOps
  <1>3. FramesFollow(p)
    BY <1>1, FewerFrames
  <1>4. CASE /\ UNCHANGED << pcs, entry >>
             /\ \/ UNCHANGED pending
                \/ pending' = [pending EXCEPT ![p] = [answer |-> a, for |-> x]]
                \/ pending' = [pending EXCEPT ![p] = [answer |-> a, for |-> Nothing]]
    <2>1. SameLink(p)
      BY <1>1, <1>4, NothingOfLink
    <2>2. \A r \in Peer : pending'[r].answer = pending[r].answer \/ (r = p /\ pending'[r].answer = a)
      <3> HIDE DEF a, x
      <3>1. pending \in [Peer -> [answer : MaybeConn, for : MaybeConn]]
        BY DEF NInv, Typed, MemoryTyped
      <3> QED
        BY <1>4, <3>1
    <2>3. OwnAnswers'
      BY <1>2, <2>2 DEF LinkInv, Owned, OwnAnswers
    <2> QED
      BY <1>1, <1>3, <2>1, <2>3, QuietDone
  <1>5. CASE /\ x # Nothing /\ pcs[x].sig = "have-local-offer"
             /\ ~ Busy(p, q, x)
             /\ pcs' = [pcs EXCEPT ![x].sig = "stable", ![x].remote = a, ![x].left = 0]
             /\ entry' = [entry EXCEPT ![p].applied = a]
             /\ pending' = [pending EXCEPT ![p] = NoAnswer]
    <2>1. x \in Conn /\ Live(p)
      BY <1>5, EntryConn DEF Live
    <2>2. OwnAnswers'
      BY <1>5, PendingGoes
    <2>3. SameEntries(p)
      <3> HIDE DEF a
      <3> QED
        BY <1>5 DEF NInv, Typed, EntriesTyped, EntryRecord, SameEntries
    <2>4. /\ pcs'[x].sig = "stable" /\ pcs'[x].remote = a
          /\ pcs'[x].state = pcs[x].state
          /\ \A z \in Conn \ {x} : pcs'[z] = pcs[z]
      <3> HIDE DEF x, a
      <3> DEFINE c == Offered(pcs[x], 0, "stable", a)
      <3>1. pcs \in [Conn -> ConnRecord] /\ pcs[x] \in ConnRecord
        BY <2>1 DEF NInv, Typed, ConnsTyped
      <3>2. pcs' = [pcs EXCEPT ![x] = c]
        BY <1>5, <2>1, <3>1 DEF Offered, ConnRecord
      <3>3. c.sig = "stable" /\ c.remote = a /\ c.state = pcs[x].state
        BY <3>1 DEF Offered, ConnRecord
      <3> HIDE DEF c
      <3> QED
        BY <2>1, <3>1, <3>2, <3>3
    <2>5. ends' = ends /\ closing' = closing
      BY <1>1
    <2>6. pcs'[x].remote # Nothing => Owner(pcs'[x].remote) = Other(p)
      BY <1>2, <2>4
    <2>7. x = entry[p].conn /\ pcs[x].sig = "have-local-offer" /\ ~ Busy(p, q, x)
      BY <1>5
    <2> HIDE DEF x, a
    <2> QED
      BY <1>1, <1>3, <2>1, <2>2, <2>3, <2>4, <2>5, <2>6, <2>7, StableLink
  <1> QED
    BY <1>4, <1>5 DEF ApplyAnswer

\* Channels of p come and go, of a transport that was set up.
LEMMA ChannelLink ==
    ASSUME NInv, NInv', LinkInv, NEW p \in Peer, UNCHANGED << pcs, pending, ops, closing, net >>,
           \A r \in Peer \ {p} : entry'[r] = entry[r] /\ ends'[r] = ends[r],
           entry'[p].conn = entry[p].conn, entry'[p].offered = entry[p].offered,
           \A c \in Conn :
              Owner(c) = Other(p) /\ ends[Other(p)][c] \in {"none", "connecting"} =>
                 (ends[p][c] = "none" => ends'[p][c] = "none"),
           \/ /\ entry'[p].chan = entry[p].chan /\ (IsOpen(p)' => IsOpen(p))
              /\ Live(p) /\ pcs[entry[p].conn].state = "new" =>
                   ends'[p][entry[p].conn] = ends[p][entry[p].conn]
           \/ /\ Live(p) /\ pcs[entry[p].conn].state # "new"
              /\ IsOpen(p)' => IsOpen(p) \/ pcs[entry[p].conn].state = "connected"
              /\ entry'[p].chan \in {Nothing, entry[p].conn, pcs[entry[p].conn].remote},
           Channels' \/ KeepsPair(p)
    PROVE  LinkInv'
  <1> DEFINE e == entry[p].conn
             o == Other(p)
  <1>1. o \in Peer /\ o # p
    BY OtherPeer
  <1>2. pcs' = pcs /\ pending' = pending /\ ops' = ops /\ closing' = closing /\ net' = net
    OBVIOUS
  <1>3. \A r \in Peer : entry'[r].conn = entry[r].conn
    OBVIOUS
  <1>4. /\ OpsFollow /\ LaterIdle' /\ OwnAnswers' /\ FramesFollow(p)
        /\ \A r \in Peer, q \in Queues : CalmQueue(r, q)
    BY <1>2, <1>3, SameOps, SameAnswers, FewerFrames
  <1>5. OwnRemotes' /\ ClosingFollows(p)
    BY <1>2 DEF LinkInv, Owned, OwnRemotes, ClosingFollows, NInv, Typed, WiresTyped
  <1>6. OnlyOf(p)
    BY <1>1, <1>2, <1>4 DEF OnlyOf
  <1>7. CASE /\ entry'[p].chan = entry[p].chan /\ (IsOpen(p)' => IsOpen(p))
             /\ Live(p) /\ pcs[e].state = "new" => ends'[p][e] = ends[p][e]
    <2>1. Live(p)' => Live(p)
      BY <1>2 DEF Live
    <2>2. ends'[o][e] = ends[o][e]
      BY <1>1
    <2>3. SameEdge(p)
      BY <1>2, <1>4, <1>7, <2>1, <2>2 DEF SameEdge
    <2>4. EdgeInv(p)' /\ Moves(p) /\ JoinsNot(p) /\ KeepsChan(p)
      BY <1>7, <2>3, SameEdgeKeeps
    <2> QED
      BY <1>4, <1>5, <1>6, <2>4, LinkStep
  <1>8. CASE /\ Live(p) /\ pcs[e].state # "new"
             /\ IsOpen(p)' => IsOpen(p) \/ pcs[e].state = "connected"
             /\ entry'[p].chan \in {Nothing, e, pcs[e].remote}
    <2>1. EdgeInv(p) /\ Steady(p)
      BY <1>8 DEF LinkInv, EdgeInv
    <2>2. pcs'[e].sig \in {"stable", "have-remote-offer"} /\ pcs'[e].remote = pcs[e].remote
      BY <1>2, <2>1 DEF Steady
    <2>3. Steady(p)'
      BY <1>4, <2>1, <2>2, SteadyStays
    <2>4. EdgeInv(p)'
      BY <1>2, <1>8, <2>1, <2>3 DEF EdgeInv
    <2>5. Moves(p)
      BY <1>2, <1>8, <2>3 DEF Moves
    <2>6. JoinsNot(p)
      BY <1>2, <1>8 DEF JoinsNot, Joined
    <2>7. KeepsChan(p)
      BY <1>2, <1>8 DEF KeepsChan
    <2> QED
      BY <1>4, <1>5, <1>6, <2>4, <2>5, <2>6, <2>7, LinkStep
  <1> QED
    BY <1>7, <1>8

\* What is needed of two connections that are paired, to see where a channel goes.
LEMMA PairParts ==
    ASSUME NInv, LinkInv, NEW p \in Peer, UNCHANGED pcs, entry'[p].conn = entry[p].conn, ~ KeepsPair(p)
    PROVE  LET x == entry[Impolite].conn
               y == entry[Polite].conn
           IN  /\ Live(Impolite) /\ Live(Polite) /\ Paired(x, y)
               /\ ImpoliteKept(x, y) \/ PoliteKept(x, y)
               /\ x \in Conn /\ Owner(x) = Impolite /\ y \in Conn /\ Owner(y) = Polite
               /\ \A r \in Peer : entry[r].chan \in {Nothing, x, y}
               /\ \A r \in Peer : pcs[entry[r].conn].remote = entry[Other(r)].conn
               /\ Impolite # Polite /\ Impolite \in Peer /\ Polite \in Peer
               /\ Other(Impolite) = Polite /\ Other(Polite) = Impolite
               /\ x # Nothing /\ y # Nothing /\ x # y
  <1> DEFINE x == entry[Impolite].conn
             y == entry[Polite].conn
  <1>1. /\ Impolite # Polite /\ Impolite \in Peer /\ Polite \in Peer
        /\ Other(Impolite) = Polite /\ Other(Polite) = Impolite
        /\ \A r \in Peer : r = Impolite \/ r = Polite
    BY DEF Peer, Other
  <1>2. (\A r \in Peer : Live(r)) /\ Paired(x, y)
    BY DEF KeepsPair
  <1>3. x \in Conn /\ Owner(x) = Impolite /\ y \in Conn /\ Owner(y) = Polite
    BY <1>1, <1>2, LiveConn
  <1>4. x # Nothing /\ y # Nothing
    BY <1>3, ConnParts
  <1>5. \A r \in Peer : EdgeInv(r)
    BY DEF LinkInv
  <1>6. /\ entry[Impolite].chan \in {Nothing, x, pcs[x].remote}
        /\ entry[Polite].chan \in {Nothing, y, pcs[y].remote}
    BY <1>1, <1>2, <1>5 DEF EdgeInv, Paired
  <1>7. pcs[x].remote = y /\ pcs[y].remote = x
    BY <1>2 DEF Paired
  <1>8. ImpoliteKept(x, y) \/ PoliteKept(x, y)
    BY <1>1, <1>2 DEF LinkInv, Channels
  <1> QED
    BY <1>1, <1>2, <1>3, <1>4, <1>6, <1>7, <1>8

LEMMA ChannelGoneLink ==
    ASSUME NInv, NInv', LinkInv, NEW p \in Peer, NEW c \in Conn, ChannelGone(p, c)
    PROVE  LinkInv'
  <1> DEFINE e == entry[p].conn
  <1>1. /\ UNCHANGED << pcs, pending, ops, closing, net >>
        /\ ends[p][c] = "open" /\ ends[Other(p)][c] = "closed"
        /\ Other(p) \in Peer \ {p}
    BY OtherPeer DEF ChannelGone
  <1>2. /\ ends'[p][c] = "closed"
        /\ \A r \in Peer \ {p} : ends'[r] = ends[r]
        /\ \A d \in Conn \ {c} : ends'[p][d] = ends[p][d]
    BY DEF ChannelGone, NInv, Typed, EndsTyped
  <1>3. /\ \A r \in Peer \ {p} : entry'[r] = entry[r]
        /\ entry'[p].conn = e /\ entry'[p].offered = entry[p].offered
        /\ entry'[p].chan = IF entry[p].chan = c THEN Nothing ELSE entry[p].chan
    BY DEF ChannelGone, NInv, Typed, EntriesTyped, EntryRecord
  <1>4. \A d \in Conn : ends[p][d] = "none" => ends'[p][d] = "none"
    <2> SUFFICES ASSUME NEW d \in Conn, ends[p][d] = "none" PROVE ends'[p][d] = "none"
      OBVIOUS
    <2>1. d # c
      BY <1>1
    <2> QED
      BY <1>2, <2>1
  <1>5. entry[p].chan \in MaybeConn /\ (IsOpen(p)' => IsOpen(p))
    <2>1. entry[p].chan \in MaybeConn
      BY EntryConn
    <2> QED
      BY <1>2, <1>3, <2>1 DEF IsOpen, MaybeConn
  <1>6. ASSUME Live(p), pcs[e].state = "new"
        PROVE  entry[p].chan # c /\ ends'[p][e] = ends[p][e]
    <2>1. ChanWaits(p) /\ e \in Conn
      BY <1>6, LiveConn DEF LinkInv, EdgeInv
    <2>2. ends[p][e] # "open" /\ entry[p].chan \in {Nothing, e}
      BY <2>1 DEF ChanWaits, HasChan
    <2> QED
      BY <1>1, <1>2, <2>1, <2>2, ConnParts
  <1>7. Channels' \/ KeepsPair(p)
    <2> SUFFICES ASSUME ~ KeepsPair(p) PROVE Channels'
      OBVIOUS
    <2> DEFINE x == entry[Impolite].conn
               y == entry[Polite].conn
    <2>1. /\ ImpoliteKept(x, y) \/ PoliteKept(x, y)
          /\ x \in Conn /\ y \in Conn /\ x # y
          /\ entry[p].chan \in {Nothing, x, y}
          /\ Impolite # Polite /\ Impolite \in Peer /\ Polite \in Peer
          /\ Other(Impolite) = Polite /\ Other(Polite) = Impolite
      BY <1>1, <1>3, PairParts
    <2>2. p = Impolite \/ p = Polite
      BY DEF Peer
    <2>3. c \in {x, y}
      <3> SUFFICES ASSUME c \notin {x, y} PROVE KeepsPair(p)
        OBVIOUS
      <3>1. entry'[p].chan = entry[p].chan
        BY <1>1, <1>3, <2>1, ConnParts
      <3>2. \A d \in {x, y} : ends'[p][d] = ends[p][d]
        BY <1>2, <2>1
      <3>3. pcs' = pcs
        BY <1>1
      <3> QED
        BY <1>3, <3>1, <3>2, <3>3 DEF KeepsPair
    <2>4. /\ entry'[Impolite].conn = x /\ entry'[Polite].conn = y
      BY <1>3, <2>1, <2>2
    <2>5. p = Polite /\ c = y /\ ImpoliteKept(x, y) /\ ends[Polite][x] = "none"
            /\ entry[Polite].chan = y /\ ends[Impolite][y] = "closed"
      <3> HIDE DEF x, y
      <3>1. CASE ImpoliteKept(x, y)
        BY <1>1, <2>1, <2>2, <2>3, <3>1 DEF ImpoliteKept
      <3>2. CASE PoliteKept(x, y)
        BY <1>1, <2>1, <2>2, <2>3, <3>2 DEF PoliteKept
      <3> QED
        BY <2>1, <3>1, <3>2
    <2>6. ends'[Impolite] = ends[Impolite] /\ entry'[Impolite] = entry[Impolite]
      BY <1>2, <1>3, <2>1, <2>5
    <2>7. ends'[Polite][y] = "closed" /\ ends'[Polite][x] = "none" /\ entry'[Polite].chan = Nothing
      BY <1>2, <1>3, <2>1, <2>5
    <2>8. /\ ends'[Impolite][x] = "open" /\ entry'[Impolite].chan = x
          /\ ends'[Impolite][y] \in {"none", "closed"}
          /\ ends'[Polite][x] = "none" /\ entry'[Polite].chan = Nothing /\ ends'[Polite][y] # "open"
      BY <2>5, <2>6, <2>7 DEF ImpoliteKept
    <2> QED
      BY <2>4, <2>8 DEF Channels, ImpoliteKept
  <1>8. CASE entry[p].chan # c
    <2>1. entry'[p].chan = entry[p].chan
      BY <1>3, <1>8
    <2> HIDE DEF e
    <2>2. entry[p].conn = e /\ entry'[p].conn = entry[p].conn
      BY <1>3 DEF e
    <2> QED
      BY <1>1, <1>2, <1>3, <1>4, <1>5, <1>6, <1>7, <2>1, <2>2, ChannelLink
  <1>9. CASE entry[p].chan = c
    <2>1. IsOpen(p)
      BY <1>1, <1>9, ConnParts DEF IsOpen
    <2>2. CASE Live(p)
      <3>1. pcs[e].state # "new"
        BY <1>6, <1>9, <2>2
      <3>2. entry'[p].chan = Nothing
        BY <1>3, <1>9
      <3> QED
        BY <1>1, <1>2, <1>3, <1>4, <1>5, <1>7, <2>2, <3>1, <3>2, ChannelLink
    <2>3. CASE ~ Live(p)
      <3>1. e # Nothing /\ e \in Conn /\ pcs[e].remote # Nothing
        BY <2>1, EntryConn, ConnParts
      <3>2. pcs[e].sig # "closed"
        BY <3>1 DEF LinkInv, Owned, OwnRemotes
      <3> QED
        BY <2>3, <3>1, <3>2 DEF Live
    <2> QED
      BY <2>2, <2>3
  <1> QED
    BY <1>8, <1>9

\* A channel arrives that is closed at once: of an old connection, or one of two.
LEMMA ArrivesInVain ==
    ASSUME NInv, NInv', LinkInv, NEW p \in Peer, NEW c \in Conn, NEW z \in Conn,
           UNCHANGED << pcs, pending, ops, closing, net >>,
           Owner(c) = Other(p), ends[p][c] = "none", ends[Other(p)][c] \in {"open", "closed"},
           Owner(z) = p, pcs[z].state = "connected", pcs[z].remote = c,
           entry[p].conn # z \/ KeepsLocal(p, c),
           ends' = [ends EXCEPT ![p][c] = "closed"], UNCHANGED entry
    PROVE  LinkInv'
  <1>1. /\ ends'[p][c] = "closed"
        /\ \A r \in Peer \ {p} : ends'[r] = ends[r]
        /\ \A d \in Conn \ {c} : ends'[p][d] = ends[p][d]
    BY DEF NInv, Typed, EndsTyped
  <1>2. Other(p) \in Peer \ {p} /\ (p = Impolite \/ p = Polite)
    BY OtherPeer DEF Peer
  <1>3. pcs[z].sig # "closed"
    BY DEF LinkInv, Owned, OwnRemotes
  <1>4. ASSUME NEW d \in Conn, Owner(d) = Other(p), ends[Other(p)][d] \in {"none", "connecting"},
               ends[p][d] = "none"
        PROVE  ends'[p][d] = "none"
    <2>1. d # c
      BY <1>4
    <2> QED
      BY <1>1, <1>4, <2>1
  <1>5. IsOpen(p)' => IsOpen(p)
    <2>1. entry[p].chan # Nothing => entry[p].chan \in Conn
      BY EntryConn DEF MaybeConn
    <2> QED
      BY <1>1, <2>1 DEF IsOpen
  <1>6. Live(p) => ends'[p][entry[p].conn] = ends[p][entry[p].conn]
    <2> SUFFICES ASSUME Live(p) PROVE entry[p].conn \in Conn \ {c}
      BY <1>1
    <2>1. entry[p].conn \in Conn /\ Owner(entry[p].conn) = p
      BY LiveConn
    <2> QED
      BY <1>2, <2>1
  <1>7. Channels' \/ KeepsPair(p)
    <2> SUFFICES ASSUME ~ KeepsPair(p) PROVE Channels'
      OBVIOUS
    <2> DEFINE x == entry[Impolite].conn
               y == entry[Polite].conn
    <2>1. /\ Live(Impolite) /\ Live(Polite)
          /\ ImpoliteKept(x, y) \/ PoliteKept(x, y)
          /\ x \in Conn /\ y \in Conn /\ x # y /\ Owner(x) = Impolite /\ Owner(y) = Polite
          /\ \A r \in Peer : pcs[entry[r].conn].remote = entry[Other(r)].conn
          /\ Impolite # Polite /\ Impolite \in Peer /\ Polite \in Peer
          /\ Other(Impolite) = Polite /\ Other(Polite) = Impolite
      BY PairParts
    <2>2. c \in {x, y}
      <3> SUFFICES ASSUME c \notin {x, y} PROVE KeepsPair(p)
        OBVIOUS
      <3>1. \A d \in {x, y} : ends'[p][d] = ends[p][d]
        BY <1>1, <2>1
      <3> QED
        BY <3>1 DEF KeepsPair
    <2>3. c = entry[Other(p)].conn
      BY <1>2, <2>1, <2>2
    <2>4. entry[p].conn = z
      <3> SUFFICES ASSUME entry[p].conn # z PROVE FALSE
        OBVIOUS
      <3>1. z \in closing
        BY <1>3, OtherConn
      <3>2. TiedTo(z)
        BY <1>3, <3>1 DEF LinkInv, ClosingTied
      <3>3. Live(Other(p))
        BY <1>2, <2>1
      <3>4. pcs[entry[Other(p)].conn].remote = z
        BY <2>3, <3>2, <3>3 DEF TiedTo
      <3>5. pcs[entry[Other(p)].conn].remote = entry[p].conn
        BY <1>2, <2>1, OtherPeer
      <3> QED
        BY <3>4, <3>5
    <2>5. p = Impolite /\ entry[Impolite].chan \notin {Nothing, y} /\ c = y
      BY <1>2, <2>1, <2>3, <2>4 DEF KeepsLocal
    <2>6. ImpoliteKept(x, y)
      <3> HIDE DEF x, y
      <3> QED
        BY <2>1, <2>5 DEF PoliteKept
    <2>7. /\ ends'[Impolite][x] = ends[Impolite][x] /\ ends'[Impolite][y] = "closed"
          /\ ends'[Polite] = ends[Polite]
      BY <1>1, <2>1, <2>5
    <2>8. ImpoliteKept(x, y)'
      BY <2>6, <2>7 DEF ImpoliteKept
    <2> QED
      BY <2>8 DEF Channels
  <1>8. entry' = entry
    OBVIOUS
  <1>9. \A r \in Peer \ {p} : entry'[r] = entry[r] /\ ends'[r] = ends[r]
    BY <1>1
  <1> QED
    BY <1>4, <1>5, <1>6, <1>7, <1>8, <1>9, ChannelLink

\* A channel arrives that comes to be the entry's.
LEMMA ArrivesToStay ==
    ASSUME NInv, NInv', LinkInv, NEW p \in Peer, NEW c \in Conn, NEW z \in Conn,
           UNCHANGED << pcs, pending, ops, closing, net >>,
           Owner(c) = Other(p), ends[p][c] = "none", ends[Other(p)][c] \in {"open", "closed"},
           Owner(z) = p, pcs[z].state = "connected", pcs[z].remote = c,
           entry[p].conn = z, ~ KeepsLocal(p, c),
           ends' = IF entry[p].chan = Nothing THEN [ends EXCEPT ![p][c] = "open"]
                   ELSE [ends EXCEPT ![p][c] = "open", ![p][entry[p].chan] = "closed"],
           entry' = [entry EXCEPT ![p].chan = c]
    PROVE  LinkInv'
  <1> DEFINE d == entry[p].chan
  <1>1. Other(p) \in Peer \ {p} /\ (p = Impolite \/ p = Polite) /\ z # c
    BY OtherPeer DEF Peer
  <1>2. Live(p) /\ d \in {Nothing, z, c}
    <2>1. pcs[z].sig # "closed"
      BY DEF LinkInv, Owned, OwnRemotes
    <2>2. Live(p)
      BY <2>1, ConnParts DEF Live
    <2> QED
      BY <2>2 DEF LinkInv, EdgeInv
  <1>3. /\ d # c => ends'[p][c] = "open"
        /\ d \in Conn => ends'[p][d] = "closed"
        /\ \A r \in Peer \ {p} : ends'[r] = ends[r]
        /\ \A w \in Conn \ {c, d} : ends'[p][w] = ends[p][w]
    <2>1. ends \in [Peer -> [Conn -> EndState]]
      BY DEF NInv, Typed, EndsTyped
    <2>2. CASE d = Nothing
      <3>1. ends' = [ends EXCEPT ![p][c] = "open"] /\ d \notin Conn
        BY <2>2, ConnParts
      <3> QED
        BY <2>1, <3>1
    <2>3. CASE d # Nothing
      <3>1. d \in Conn /\ ends' = [ends EXCEPT ![p][c] = "open", ![p][d] = "closed"]
        BY <1>2, <2>3
      <3> HIDE DEF d
      <3> QED
        BY <2>1, <3>1
    <2> QED
      BY <2>2, <2>3
  <1>4. /\ \A r \in Peer \ {p} : entry'[r] = entry[r]
        /\ entry'[p].conn = z /\ entry'[p].offered = entry[p].offered /\ entry'[p].chan = c
    BY DEF NInv, Typed, EntriesTyped, EntryRecord
  <1>5. ASSUME NEW w \in Conn, Owner(w) = Other(p), ends[Other(p)][w] \in {"none", "connecting"},
               ends[p][w] = "none"
        PROVE  ends'[p][w] = "none"
    <2>1. w # c /\ w # z
      BY <1>1, <1>5
    <2>2. w # d
      BY <1>2, <1>5, <2>1, ConnParts
    <2> QED
      BY <1>3, <1>5, <2>1, <2>2
  <1>6. Channels' \/ KeepsPair(p)
    <2> SUFFICES ASSUME ~ KeepsPair(p) PROVE Channels'
      OBVIOUS
    <2> DEFINE x == entry[Impolite].conn
               y == entry[Polite].conn
    <2>1. /\ ImpoliteKept(x, y) \/ PoliteKept(x, y)
          /\ x \in Conn /\ y \in Conn /\ x # y
          /\ \A r \in Peer : pcs[entry[r].conn].remote = entry[Other(r)].conn
          /\ Impolite # Polite /\ Impolite \in Peer /\ Polite \in Peer
          /\ Other(Impolite) = Polite /\ Other(Polite) = Impolite
      BY <1>4, PairParts
    <2>2. c = entry[Other(p)].conn
      <3>1. pcs[entry[p].conn].remote = entry[Other(p)].conn
        BY <2>1
      <3> QED
        BY <3>1
    <2>3. /\ entry'[Impolite].conn = x /\ entry'[Polite].conn = y
      <3>1. \A r \in Peer : entry'[r].conn = entry[r].conn
        BY <1>4
      <3> QED
        BY <2>1, <3>1
    <2>4. CASE p = Impolite
      <3>1. c = y /\ z = x
        BY <2>1, <2>2, <2>4
      <3>2. PoliteKept(x, y)
        <4> HIDE DEF x, y
        <4>1. ~ ImpoliteKept(x, y)
          BY <2>1, <2>4, <3>1, ConnParts DEF ImpoliteKept, KeepsLocal
        <4> QED
          BY <2>1, <4>1
      <3>3. d = Nothing
        BY <2>1, <2>4, <3>1, <3>2 DEF PoliteKept
      <3>4. /\ ends'[Impolite][y] = "open" /\ ends'[Impolite][x] = ends[Impolite][x]
            /\ entry'[Impolite].chan = y
            /\ ends'[Polite] = ends[Polite] /\ entry'[Polite] = entry[Polite]
        BY <1>3, <1>4, <2>1, <2>4, <3>1, <3>3, ConnParts
      <3>5. /\ ends'[Impolite][x] = "none" /\ ends'[Polite][x] = "none"
            /\ ends'[Polite][y] = "open" /\ entry'[Polite].chan = y
            /\ ends'[Impolite][y] = "open" /\ entry'[Impolite].chan = y
        BY <3>2, <3>4 DEF PoliteKept
      <3> QED
        BY <2>3, <3>5 DEF Channels, PoliteKept
    <2>5. CASE p = Polite
      <3>1. c = x /\ z = y
        BY <2>1, <2>2, <2>5
      <3>2. ImpoliteKept(x, y)
        <4> HIDE DEF x, y
        <4>1. ~ PoliteKept(x, y)
          BY <2>1, <2>5, <3>1 DEF PoliteKept
        <4> QED
          BY <2>1, <4>1
      <3>3. \/ d = Nothing /\ ends[Polite][y] # "open"
            \/ d = y
        BY <2>1, <2>5, <3>1, <3>2 DEF ImpoliteKept
      <3>4. /\ ends'[Polite][x] = "open" /\ entry'[Polite].chan = x
            /\ ends'[Impolite] = ends[Impolite] /\ entry'[Impolite] = entry[Impolite]
        <4>1. d # c
          BY <2>1, <3>1, <3>3, ConnParts
        <4>2. ends'[Polite][x] = "open"
          BY <1>3, <2>5, <3>1, <4>1
        <4>3. entry'[Polite].chan = x
          BY <1>4, <2>5, <3>1
        <4>4. Impolite \in Peer \ {p}
          BY <2>1, <2>5
        <4> QED
          BY <1>3, <1>4, <4>2, <4>3, <4>4
      <3>5. ends'[Polite][y] # "open"
        <4>1. CASE d = Nothing
          BY <1>3, <2>1, <2>5, <3>1, <3>3, <4>1, ConnParts
        <4>2. CASE d = y
          BY <1>3, <2>1, <2>5, <4>2
        <4> QED
          BY <3>3, <4>1, <4>2
      <3>6. /\ ends'[Impolite][x] = "open" /\ entry'[Impolite].chan = x
            /\ ends'[Impolite][y] \in {"none", "closed"}
            /\ ends'[Polite][x] = "open" /\ entry'[Polite].chan = x /\ ends'[Polite][y] # "open"
        BY <3>2, <3>4, <3>5 DEF ImpoliteKept
      <3> QED
        BY <2>3, <3>6 DEF Channels, ImpoliteKept
    <2> QED
      BY <1>1, <2>4, <2>5
  <1>7. /\ pcs[entry[p].conn].state = "connected"
        /\ entry'[p].chan \in {Nothing, entry[p].conn, pcs[entry[p].conn].remote}
        /\ entry'[p].conn = entry[p].conn
    BY <1>4
  <1>8. \A r \in Peer \ {p} : entry'[r] = entry[r] /\ ends'[r] = ends[r]
    BY <1>3, <1>4
  <1>9. entry'[p].offered = entry[p].offered
    BY <1>4
  <1>10. \/ /\ entry'[p].chan = entry[p].chan /\ (IsOpen(p)' => IsOpen(p))
            /\ Live(p) /\ pcs[entry[p].conn].state = "new" =>
                 ends'[p][entry[p].conn] = ends[p][entry[p].conn]
         \/ /\ Live(p) /\ pcs[entry[p].conn].state # "new"
            /\ IsOpen(p)' => IsOpen(p) \/ pcs[entry[p].conn].state = "connected"
            /\ entry'[p].chan \in {Nothing, entry[p].conn, pcs[entry[p].conn].remote}
    BY <1>2, <1>7
  <1>11. \A w \in Conn :
            Owner(w) = Other(p) /\ ends[Other(p)][w] \in {"none", "connecting"} =>
               (ends[p][w] = "none" => ends'[p][w] = "none")
    BY <1>5
  <1>12. UNCHANGED << pcs, pending, ops, closing, net >> /\ entry'[p].conn = entry[p].conn
    BY <1>7
  <1> HIDE DEF d
  <1> QED
    BY <1>6, <1>8, <1>9, <1>10, <1>11, <1>12, ChannelLink

LEMMA ChannelArrivesLink ==
    ASSUME NInv, NInv', LinkInv, NEW p \in Peer, NEW c \in Conn, ChannelArrives(p, c)
    PROVE  LinkInv'
  <1>1. /\ Owner(c) = Other(p) /\ ends[p][c] = "none"
        /\ ends[Other(p)][c] \in {"open", "closed"}
        /\ UNCHANGED << pcs, pending, ops, closing, net >>
    BY DEF ChannelArrives
  <1>2. PICK z \in Conn :
           /\ Owner(z) = p /\ pcs[z].state = "connected" /\ pcs[z].remote = c
           /\ IF entry[p].conn # z \/ KeepsLocal(p, c)
                THEN ends' = [ends EXCEPT ![p][c] = "closed"] /\ UNCHANGED entry
                ELSE /\ ends' = IF entry[p].chan = Nothing THEN [ends EXCEPT ![p][c] = "open"]
                                ELSE [ends EXCEPT ![p][c] = "open", ![p][entry[p].chan] = "closed"]
                     /\ entry' = [entry EXCEPT ![p].chan = c]
    BY ZenonT(60) DEF ChannelArrives
  <1>3. CASE entry[p].conn # z \/ KeepsLocal(p, c)
    BY <1>1, <1>2, <1>3, ArrivesInVain
  <1>4. CASE entry[p].conn = z /\ ~ KeepsLocal(p, c)
    BY <1>1, <1>2, <1>4, ArrivesToStay
  <1> QED
    BY <1>3, <1>4

\* Two connections connect: what changes, and what does not.
LEMMA ConnectsParts ==
    ASSUME NInv, LinkInv, NEW x \in Conn, NEW y \in Conn, Connects(x, y)
    PROVE  LET mine(p) == IF p = Impolite THEN x ELSE y
           IN  /\ Owner(x) = Impolite /\ Owner(y) = Polite /\ Matched(x, y)
               /\ pcs[x].state = "new" /\ pcs[y].state = "new"
               /\ ops' = ops /\ net' = net /\ closing' = closing /\ pending' = pending
               /\ \A z \in Conn : pcs'[z].sig = pcs[z].sig /\ pcs'[z].remote = pcs[z].remote
               /\ \A z \in Conn \ {x, y} : pcs'[z].state = pcs[z].state
               /\ pcs'[x].state = "connected" /\ pcs'[y].state = "connected"
               /\ \A p \in Peer : /\ entry'[p].conn = entry[p].conn
                                  /\ entry'[p].chan = entry[p].chan
                                  /\ entry'[p].offered = entry[p].offered
               /\ \A p \in Peer, c \in Conn : c # mine(p) => ends'[p][c] = ends[p][c]
               /\ \A p \in Peer : ends[p][mine(p)] # "connecting" => ends'[p][mine(p)] = ends[p][mine(p)]
               /\ \A p \in Peer : ends[p][mine(p)] = "connecting" =>
                    ends'[p][mine(p)] = IF entry[p].conn = mine(p) /\ entry[p].chan = mine(p)
                                          THEN "open" ELSE "closed"
  <1>1. /\ Owner(x) = Impolite /\ Owner(y) = Polite /\ Matched(x, y)
        /\ pcs[x].state = "new" /\ pcs[y].state = "new"
        /\ ops' = ops /\ net' = net /\ closing' = closing /\ pending' = pending
    BY DEF Connects
  <1>2. x # y /\ Impolite # Polite
    BY <1>1 DEF Peer
  <1>3. /\ \A z \in Conn : pcs'[z].sig = pcs[z].sig /\ pcs'[z].remote = pcs[z].remote
        /\ \A z \in Conn \ {x, y} : pcs'[z].state = pcs[z].state
        /\ pcs'[x].state = "connected" /\ pcs'[y].state = "connected"
    <2> DEFINE P == [pcs EXCEPT ![x].state = "connected"]
    <2>1. pcs' = [P EXCEPT ![y].state = "connected"]
      BY DEF Connects
    <2>2. /\ P \in [Conn -> ConnRecord]
          /\ \A z \in Conn : P[z].sig = pcs[z].sig /\ P[z].remote = pcs[z].remote
          /\ \A z \in Conn \ {x} : P[z].state = pcs[z].state
          /\ P[x].state = "connected"
      BY DEF NInv, Typed, ConnsTyped, ConnRecord
    <2> HIDE DEF P
    <2>3. /\ \A z \in Conn : pcs'[z].sig = P[z].sig /\ pcs'[z].remote = P[z].remote
          /\ \A z \in Conn \ {y} : pcs'[z].state = P[z].state
          /\ pcs'[y].state = "connected"
      BY <2>1, <2>2 DEF ConnRecord
    <2> QED
      BY <1>2, <2>2, <2>3
  <1> DEFINE mine(p) == IF p = Impolite THEN x ELSE y
             after(p) == IF entry[p].conn = mine(p) /\ entry[p].chan = mine(p)
                           THEN "open" ELSE "closed"
  <1>4. /\ \A p \in Peer, c \in Conn : c # mine(p) => ends'[p][c] = ends[p][c]
        /\ \A p \in Peer : ends[p][mine(p)] # "connecting" => ends'[p][mine(p)] = ends[p][mine(p)]
        /\ \A p \in Peer : ends[p][mine(p)] = "connecting" => ends'[p][mine(p)] = after(p)
    <2>1. \A p \in Peer : mine(p) \in Conn
      OBVIOUS
    <2>2. ends \in [Peer -> [Conn -> EndState]]
      BY DEF NInv, Typed, EndsTyped
    <2>3. ends' = [p \in Peer |-> [ends[p] EXCEPT ![mine(p)] =
                      IF ends[p][mine(p)] = "connecting" THEN after(p) ELSE ends[p][mine(p)]]]
      BY <2>1, <2>2 DEF Connects
    <2> HIDE DEF mine, after
    <2> QED
      BY <2>1, <2>2, <2>3
  <1>5. \A p \in Peer : /\ entry'[p].conn = entry[p].conn
                        /\ entry'[p].chan = entry[p].chan
                        /\ entry'[p].offered = entry[p].offered
    <2>1. entry' = [p \in Peer |-> IF entry[p].conn = mine(p)
                       THEN [entry[p] EXCEPT !.state = "connected"] ELSE entry[p]]
      BY DEF Connects
    <2>2. \A p \in Peer : /\ [entry[p] EXCEPT !.state = "connected"].conn = entry[p].conn
                          /\ [entry[p] EXCEPT !.state = "connected"].chan = entry[p].chan
                          /\ [entry[p] EXCEPT !.state = "connected"].offered = entry[p].offered
      BY DEF NInv, Typed, EntriesTyped, EntryRecord
    <2> HIDE DEF mine
    <2> QED
      BY <2>1, <2>2
  <1> QED
    BY <1>1, <1>3, <1>4, <1>5

\* What one of the two peers of connections that connect keeps: it has an edge of
\* another connection, or this one and sets no other description.
LEMMA ConnectsEdge ==
    ASSUME NInv, LinkInv, NEW p \in Peer, NEW m \in Conn, NEW n \in Conn,
           Owner(m) = p, Owner(n) = Other(p),
           pcs[m].sig = "stable", pcs[m].remote # Nothing, pcs[m].state = "new",
           ops' = ops,
           \A z \in Conn : pcs'[z].sig = pcs[z].sig /\ pcs'[z].remote = pcs[z].remote,
           \A z \in Conn \ {m, n} : pcs'[z].state = pcs[z].state,
           pcs'[m].state = "connected",
           \A r \in Peer : entry'[r].conn = entry[r].conn,
           entry'[p].chan = entry[p].chan, entry'[p].offered = entry[p].offered,
           \A c \in Conn \ {m} : ends'[p][c] = ends[p][c],
           \A c \in Conn \ {n} : ends'[Other(p)][c] = ends[Other(p)][c],
           entry[p].conn # m => ends'[p][m] # "open" \/ ends[p][m] = "open"
    PROVE  /\ EdgeInv(p)' /\ Moves(p) /\ KeepsChan(p)
           /\ entry[p].conn = m => Live(p) /\ Steady(p)' /\ ChanWaits(p)
           /\ entry[p].conn # m => JoinsNot(p)
  <1> DEFINE e == entry[p].conn
  <1>1. Other(p) \in Peer /\ Other(p) # p /\ m # n
    BY OtherPeer
  <1>2. \A r \in Peer, q \in Queues : CalmQueue(r, q)
    BY SameOps
  <1>3. CASE e # m
    <2>1. ASSUME Live(p)'
          PROVE  /\ Live(p) /\ e \in Conn \ {m, n}
                 /\ pcs'[e].state = pcs[e].state
      <3>1. e # Nothing
        BY <2>1 DEF Live
      <3>2. e \in Conn /\ Owner(e) = p
        BY <3>1, EntryConn DEF NInv, EntriesOwn
      <3>3. Live(p)
        BY <2>1, <3>1, <3>2 DEF Live
      <3> QED
        BY <1>1, <1>3, <3>2, <3>3
    <2>2. SameEdge(p)
      BY <1>2, <2>1 DEF SameEdge
    <2>3. IsOpen(p)' => IsOpen(p)
      <3>1. entry[p].chan # Nothing => entry[p].chan \in Conn
        BY EntryConn DEF MaybeConn
      <3> QED
        BY <1>3, <3>1 DEF IsOpen
    <2> QED
      BY <1>3, <2>2, <2>3, SameEdgeKeeps
  <1>4. CASE e = m
    <2>1. Live(p) /\ EdgeInv(p)
      BY <1>4, ConnParts DEF Live, LinkInv
    <2>2. Steady(p)
      BY <1>4, <2>1, StableIsSteady
    <2>3. ChanWaits(p)
      BY <1>4, <2>1 DEF EdgeInv
    <2>4. pcs'[e].sig \in {"stable", "have-remote-offer"} /\ pcs'[e].remote = pcs[e].remote
      BY <1>4
    <2>5. Steady(p)'
      BY <1>2, <2>2, <2>4, SteadyStays
    <2>6. EdgeInv(p)'
      <3>1. entry[p].chan \in {Nothing, e}
        BY <2>3 DEF ChanWaits, HasChan
      <3> QED
        BY <1>4, <2>1, <2>5, <3>1 DEF EdgeInv
    <2>7. Moves(p)
      BY <1>4, <2>1, <2>4, <2>5 DEF Moves
    <2>8. KeepsChan(p)
      BY <1>4 DEF KeepsChan
    <2> QED
      BY <1>4, <2>1, <2>3, <2>5, <2>6, <2>7, <2>8
  <1> QED
    BY <1>3, <1>4

LEMMA ConnectsLink ==
    ASSUME NInv, NInv', LinkInv, NEW x \in Conn, NEW y \in Conn, Connects(x, y)
    PROVE  LinkInv'
  <1>1. /\ Owner(x) = Impolite /\ Owner(y) = Polite
        /\ pcs[x].sig = "stable" /\ pcs[y].sig = "stable"
        /\ pcs[x].remote = y /\ pcs[y].remote = x
        /\ pcs[x].state = "new" /\ pcs[y].state = "new"
        /\ ops' = ops /\ net' = net /\ closing' = closing /\ pending' = pending
    BY ConnectsParts DEF Matched
  <1>2. /\ \A z \in Conn : pcs'[z].sig = pcs[z].sig /\ pcs'[z].remote = pcs[z].remote
        /\ \A z \in Conn \ {x, y} : pcs'[z].state = pcs[z].state
        /\ pcs'[x].state = "connected" /\ pcs'[y].state = "connected"
    BY ConnectsParts
  <1>3. \A p \in Peer : /\ entry'[p].conn = entry[p].conn
                        /\ entry'[p].chan = entry[p].chan
                        /\ entry'[p].offered = entry[p].offered
    BY ConnectsParts
  <1>4. /\ Impolite \in Peer /\ Polite \in Peer /\ Impolite # Polite
        /\ Other(Impolite) = Polite /\ Other(Polite) = Impolite /\ x # y
        /\ \A p \in Peer : p = Impolite \/ p = Polite
    BY <1>1 DEF Peer, Other
  <1>5. /\ \A c \in Conn \ {x} : ends'[Impolite][c] = ends[Impolite][c]
        /\ ends[Impolite][x] # "connecting" => ends'[Impolite][x] = ends[Impolite][x]
        /\ ends[Impolite][x] = "connecting" =>
             ends'[Impolite][x] = IF entry[Impolite].conn = x /\ entry[Impolite].chan = x
                                    THEN "open" ELSE "closed"
    BY <1>4, ConnectsParts
  <1>6. /\ \A c \in Conn \ {y} : ends'[Polite][c] = ends[Polite][c]
        /\ ends[Polite][y] # "connecting" => ends'[Polite][y] = ends[Polite][y]
        /\ ends[Polite][y] = "connecting" =>
             ends'[Polite][y] = IF entry[Polite].conn = y /\ entry[Polite].chan = y
                                  THEN "open" ELSE "closed"
    BY <1>4, ConnectsParts
  <1>7. /\ EdgeInv(Impolite)' /\ Moves(Impolite) /\ KeepsChan(Impolite)
        /\ entry[Impolite].conn = x => Live(Impolite) /\ Steady(Impolite)' /\ ChanWaits(Impolite)
        /\ entry[Impolite].conn # x => JoinsNot(Impolite)
    <2>1. pcs[x].remote # Nothing
      BY <1>1, ConnParts
    <2>2. entry[Impolite].conn # x => ends'[Impolite][x] # "open" \/ ends[Impolite][x] = "open"
      BY <1>5
    <2>3. /\ entry'[Impolite].chan = entry[Impolite].chan
          /\ entry'[Impolite].offered = entry[Impolite].offered
          /\ \A r \in Peer : entry'[r].conn = entry[r].conn
      BY <1>3, <1>4
    <2>4. \A c \in Conn \ {y} : ends'[Other(Impolite)][c] = ends[Other(Impolite)][c]
      BY <1>4, <1>6
    <2>5. Owner(y) = Other(Impolite) /\ \A c \in Conn \ {x} : ends'[Impolite][c] = ends[Impolite][c]
      BY <1>1, <1>4, <1>5
    <2> QED
      BY <1>1, <1>2, <1>4, <2>1, <2>2, <2>3, <2>4, <2>5, ConnectsEdge
  <1>8. /\ EdgeInv(Polite)' /\ Moves(Polite) /\ KeepsChan(Polite)
        /\ entry[Polite].conn = y => Live(Polite) /\ Steady(Polite)' /\ ChanWaits(Polite)
        /\ entry[Polite].conn # y => JoinsNot(Polite)
    <2>1. pcs[y].remote # Nothing
      BY <1>1, ConnParts
    <2>2. entry[Polite].conn # y => ends'[Polite][y] # "open" \/ ends[Polite][y] = "open"
      BY <1>6
    <2>3. /\ entry'[Polite].chan = entry[Polite].chan
          /\ entry'[Polite].offered = entry[Polite].offered
          /\ \A r \in Peer : entry'[r].conn = entry[r].conn
      BY <1>3, <1>4
    <2>4. \A c \in Conn \ {x} : ends'[Other(Polite)][c] = ends[Other(Polite)][c]
      BY <1>4, <1>5
    <2>5. Owner(x) = Other(Polite) /\ \A c \in Conn \ {y} : ends'[Polite][c] = ends[Polite][c]
      BY <1>1, <1>4, <1>6
    <2>6. \A z \in Conn \ {y, x} : pcs'[z].state = pcs[z].state
      BY <1>2
    <2> QED
      BY <1>1, <1>2, <1>4, <2>1, <2>2, <2>3, <2>4, <2>5, <2>6, ConnectsEdge
  <1>9. \A p \in Peer : EdgeInv(p)' /\ Moves(p) /\ KeepsChan(p)
    BY <1>4, <1>7, <1>8
  <1>10. Owned'
    <2>1. OwnFrames' /\ OwnOps' /\ OwnAnswers'
      BY <1>1 DEF LinkInv, Owned, OwnFrames, OwnOps, OwnAnswers, AllOps
    <2>2. OwnRemotes'
      <3> SUFFICES ASSUME NEW z \in Conn
                   PROVE  /\ pcs'[z].remote # Nothing => Owner(pcs'[z].remote) = Other(Owner(z))
                          /\ pcs'[z].sig = "closed" => pcs'[z].remote = Nothing /\ pcs'[z].state = "new"
        BY DEF OwnRemotes
      <3>1. /\ pcs[z].remote # Nothing => Owner(pcs[z].remote) = Other(Owner(z))
            /\ pcs[z].sig = "closed" => pcs[z].remote = Nothing /\ pcs[z].state = "new"
        BY DEF LinkInv, Owned, OwnRemotes
      <3>2. pcs[z].sig = "closed" => z \notin {x, y}
        BY <1>1
      <3> QED
        BY <1>2, <3>1, <3>2
    <2> QED
      BY <2>1, <2>2 DEF Owned
  <1>11. LaterIdle'
    BY <1>1, <1>3, SameOps
  <1>12. OfferMeansChan'
    <2>1. \A o \in AllOps(Polite)' : o.kind = "offer" =>
             \E w \in AllOps(Polite) : w.kind = "offer" /\ w.arg = o.arg
      BY <1>1 DEF AllOps
    <2>2. Live(Impolite)' /\ Offer(entry'[Impolite].conn) \in net' =>
             Offer(entry'[Impolite].conn) \in net \/ HasChan(Impolite)'
      BY <1>1
    <2> QED
      BY <1>7, <2>1, <2>2, OfferMeansChanKept
  <1>13. OneHasChan'
    BY <1>9, OneHasChanKept
  <1>14. ClosingTied'
    <2>1. \A z \in closing' : pcs'[z].sig # "closed" =>
              /\ pcs[z].sig # "closed" /\ pcs'[z].remote = pcs[z].remote
              /\ z \in closing
      BY <1>1, <1>2 DEF NInv, Typed, WiresTyped
    <2>2. \A p \in Peer : \A o \in AllOps(p)' : o \in AllOps(p)
      BY <1>1 DEF AllOps
    <2> QED
      BY <1>9, <2>1, <2>2, ClosingTiedKept
  <1>15. EntriesTied'
    <2> SUFFICES ASSUME NEW p \in Peer, NEW e, e = entry'[p].conn, Joined(p)'
                 PROVE  TiedTo(e)'
      BY DEF EntriesTied, TiedTo
    <2>1. CASE e \in {x, y}
      <3> SUFFICES ASSUME Live(Other(Owner(e)))',
                          pcs'[e].remote = entry'[Other(Owner(e))].conn
                   PROVE  /\ pcs'[entry'[Other(Owner(e))].conn].remote = e
                          /\ Steady(Other(Owner(e)))'
        BY DEF TiedTo
      <3>1. CASE e = x
        <4>1. Other(Owner(e)) = Polite /\ pcs'[x].remote = y /\ pcs'[y].remote = x
          BY <1>1, <1>2, <1>4, <3>1
        <4>2. entry[Polite].conn = y
          BY <1>3, <1>4, <3>1, <4>1
        <4> QED
          BY <1>3, <1>4, <1>8, <3>1, <4>1, <4>2
      <3>2. CASE e = y
        <4>1. Other(Owner(e)) = Impolite /\ pcs'[x].remote = y /\ pcs'[y].remote = x
          BY <1>1, <1>2, <1>4, <3>2
        <4>2. entry[Impolite].conn = x
          BY <1>3, <1>4, <3>2, <4>1
        <4> QED
          BY <1>3, <1>4, <1>7, <3>2, <4>1, <4>2
      <3> QED
        BY <2>1, <3>1, <3>2
    <2>2. CASE e \notin {x, y}
      <3>1. e = entry[p].conn /\ JoinsNot(p)
        BY <1>3, <1>4, <1>7, <1>8, <2>2
      <3>2. Joined(p)
        BY <3>1 DEF JoinsNot
      <3>3. e \in Conn /\ Owner(e) = p /\ pcs[e].sig # "closed"
        BY <3>1, <3>2, LiveConn DEF Joined, Live
      <3>4. TiedTo(e)
        BY <3>1, <3>2 DEF LinkInv, EntriesTied
      <3>5. Moves(Other(Owner(e)))
        BY <1>9, <3>3, ConnParts
      <3> QED
        BY <1>2, <3>3, <3>4, <3>5, TiedStays
    <2> QED
      BY <2>1, <2>2
  <1>16. Channels'
    <2> SUFFICES ASSUME NEW a, NEW b, a = entry'[Impolite].conn, b = entry'[Polite].conn,
                        Live(Impolite)', Live(Polite)', Paired(a, b)'
                 PROVE  ImpoliteKept(a, b)' \/ PoliteKept(a, b)'
      BY DEF Channels, Paired, ImpoliteKept, PoliteKept
    <2>1. a = entry[Impolite].conn /\ b = entry[Polite].conn
      BY <1>3, <1>4
    <2>2. /\ a \in Conn /\ Owner(a) = Impolite /\ b \in Conn /\ Owner(b) = Polite
          /\ Live(Impolite) /\ Live(Polite)
      <3>1. a # Nothing /\ b # Nothing
        BY DEF Live
      <3>2. a \in Conn /\ Owner(a) = Impolite /\ b \in Conn /\ Owner(b) = Polite
        BY <1>4, <2>1, <3>1, EntryConn DEF NInv, EntriesOwn
      <3>3. pcs[a].sig # "closed" /\ pcs[b].sig # "closed"
        BY <1>2, <3>2 DEF Live
      <3> QED
        BY <2>1, <3>1, <3>2, <3>3 DEF Live
    <2>3. a # y /\ b # x
      BY <1>1, <1>4, <2>2
    <2>4. pcs[a].remote = b /\ pcs[b].remote = a
      BY <1>2, <2>2 DEF Paired
    <2>5. CASE a = x
      <3>1. b = y
        BY <1>1, <2>4, <2>5
      <3>2. ChanWaits(Impolite) /\ ChanWaits(Polite)
        BY <1>7, <1>8, <2>1, <2>5, <3>1
      <3>3. /\ \/ entry[Impolite].chan = x /\ ends[Impolite][x] = "connecting"
               \/ entry[Impolite].chan = Nothing /\ ends[Impolite][x] = "none"
            /\ \/ entry[Polite].chan = y /\ ends[Polite][y] = "connecting"
               \/ entry[Polite].chan = Nothing /\ ends[Polite][y] = "none"
            /\ ends[Polite][x] = "none" /\ ends[Impolite][y] = "none"
        BY <1>4, <2>1, <2>5, <3>1, <3>2 DEF ChanWaits, HasChan
      <3>4. entry[Impolite].chan = x \/ entry[Polite].chan = y
        <4>1. HasChan(Impolite) \/ HasChan(Polite)
          BY <1>1, <2>1, <2>2, <2>5, <3>1 DEF LinkInv, OneHasChan
        <4> QED
          BY <2>1, <2>5, <3>1, <4>1 DEF HasChan
      <3>5. x # Nothing /\ y # Nothing
        BY ConnParts
      <3>6. ends'[Polite][x] = "none" /\ ends'[Impolite][y] = "none"
        BY <1>4, <1>5, <1>6, <3>3
      <3>7. /\ entry'[Impolite].chan = entry[Impolite].chan
            /\ entry'[Polite].chan = entry[Polite].chan
        BY <1>3, <1>4
      <3>8. /\ entry[Impolite].chan = x => ends'[Impolite][x] = "open"
            /\ entry[Polite].chan = y => ends'[Polite][y] = "open"
            /\ entry[Impolite].chan # x => ends'[Impolite][x] = "none"
            /\ entry[Polite].chan # y => ends'[Polite][y] = "none"
        BY <1>5, <1>6, <2>1, <2>5, <3>1, <3>3, <3>5
      <3>9. CASE entry[Impolite].chan = x
        <4>1. ImpoliteKept(x, y)'
          BY <3>3, <3>6, <3>7, <3>8, <3>9 DEF ImpoliteKept
        <4> QED
          BY <2>5, <3>1, <4>1 DEF ImpoliteKept
      <3>10. CASE entry[Impolite].chan # x
        <4>1. PoliteKept(x, y)'
          BY <3>3, <3>4, <3>6, <3>7, <3>8, <3>10 DEF PoliteKept
        <4> QED
          BY <2>5, <3>1, <4>1 DEF PoliteKept
      <3> QED
        BY <3>9, <3>10
    <2>6. CASE a # x
      <3>1. b # y
        BY <1>1, <2>4, <2>6
      <3>2. Paired(a, b)
        BY <1>2, <2>2, <2>3, <2>6, <3>1 DEF Paired
      <3>3. ImpoliteKept(a, b) \/ PoliteKept(a, b)
        BY <2>1, <2>2, <3>2 DEF LinkInv, Channels
      <3>4. /\ ends'[Impolite][a] = ends[Impolite][a] /\ ends'[Impolite][b] = ends[Impolite][b]
            /\ ends'[Polite][a] = ends[Polite][a] /\ ends'[Polite][b] = ends[Polite][b]
            /\ entry'[Impolite].chan = entry[Impolite].chan
            /\ entry'[Polite].chan = entry[Polite].chan
        BY <1>3, <1>4, <1>5, <1>6, <2>2, <2>3, <2>6, <3>1
      <3> QED
        BY <3>3, <3>4 DEF ImpoliteKept, PoliteKept
    <2> QED
      BY <2>5, <2>6
  <1> QED
    BY <1>9, <1>10, <1>11, <1>12, <1>13, <1>14, <1>15, <1>16 DEF LinkInv

LEMMA LinkInit == NegotiationInit => LinkInv
  <1> SUFFICES ASSUME NegotiationInit PROVE LinkInv
    OBVIOUS
  <1>1. /\ \A p \in Peer : entry[p].conn = Nothing
        /\ \A p \in Peer, q \in Queues : ops[p][q] = << >>
        /\ \A p \in Peer : pending[p].answer = Nothing
        /\ \A z \in Conn : pcs[z] = NoConn
        /\ closing = {} /\ net = {}
    BY DEF NegotiationInit, NoEntry, EntryOf, NoAnswer
  <1>2. Impolite \in Peer /\ Polite \in Peer
    BY DEF Peer
  <1>3. \A p \in Peer : ~ Live(p)
    BY <1>1 DEF Live
  <1>4. \A p \in Peer : AllOps(p) = {}
    BY <1>1 DEF AllOps
  <1>5. Owned
    BY <1>1, <1>4, ClosedConn DEF Owned, OwnFrames, OwnOps, OwnAnswers, OwnRemotes
  <1>6. LaterIdle
    BY <1>1 DEF LaterIdle
  <1>7. \A p \in Peer : EdgeInv(p)
    BY <1>3 DEF EdgeInv
  <1>8. OfferMeansChan /\ OneHasChan /\ Channels
    BY <1>2, <1>3 DEF OfferMeansChan, OneHasChan, Channels
  <1>9. EntriesTied /\ ClosingTied
    BY <1>1, <1>3 DEF EntriesTied, Joined, ClosingTied
  <1> QED
    BY <1>5, <1>6, <1>7, <1>8, <1>9 DEF LinkInv

LEMMA LinkStepOfAll ==
    ASSUME NInv, NInv', LinkInv, NegotiationNext
    PROVE  LinkInv'
  <1>1. ASSUME NEW p \in Peer, NEW q \in Queues, Operate(p, q)
        PROVE  LinkInv'
    BY <1>1, StartDialLink, FinishDialLink, StartOfferLink, SetRemoteOfferLink,
       MakeAnswerLink, ApplyAnswerLink DEF Operate
  <1>2. ASSUME NEW p \in Peer,
               \/ Dial(p) \/ BurstFires(p) \/ HangUp(p) \/ KeepaliveCloses(p)
               \/ \E c \in Conn : ChannelArrives(p, c) \/ ChannelGone(p, c)
        PROVE  LinkInv'
    BY <1>2, DialLink, BurstFiresLink, HangUpLink, KeepaliveClosesLink, ChannelArrivesLink,
       ChannelGoneLink
  <1>3. ASSUME NEW x \in Conn,
               RetryFires(x) \/ ResetBackoff(x) \/ FlushOver(x) \/ TransportFails(x)
        PROVE  LinkInv'
    BY <1>3, RetryFiresLink, ResetBackoffLink, FlushOverLink, TransportFailsLink
  <1>4. ASSUME NEW x \in Conn, NEW y \in Conn, Connects(x, y)
        PROVE  LinkInv'
    BY <1>4, ConnectsLink
  <1>5. ASSUME NEW f \in net, Receive(f) \/ Lose(f)
        PROVE  LinkInv'
    BY <1>5, ReceiveLink, LoseLink
  <1> QED
    BY <1>1, <1>2, <1>3, <1>4, <1>5 DEF NegotiationNext

LEMMA LinkKept == SessionSpec => [](NInv /\ LinkInv)
  <1>1. SessionInit => NInv /\ LinkInv
    BY NegotiationInitInv, LinkInit DEF SessionInit
  <1>2. NInv /\ LinkInv /\ [SessionNext]_bothVars => (NInv /\ LinkInv)'
    <2> SUFFICES ASSUME NInv, LinkInv, [SessionNext]_bothVars
                 PROVE  NInv' /\ LinkInv'
      OBVIOUS
    <2>1. CASE NegotiationNext
      <3>1. NInv'
        BY <2>1, NegotiationStep
      <3> QED
        BY <2>1, <3>1, LinkStepOfAll
    <2>2. CASE UNCHANGED negotiationVars
      <3>1. NInv'
        BY <2>2, NegotiationStillKeeps
      <3> QED
        BY <2>2, <3>1, NegotiationStillLink
    <2> QED
      BY <2>1, <2>2 DEF SessionNext, bothVars
  <1> QED
    BY <1>1, <1>2, PTL DEF SessionSpec

LEMMA OneChannelLeft ==
    ASSUME NInv, LinkInv
    PROVE  GlareLeavesOneChannel
  <1> SUFFICES ASSUME NEW x \in Conn, NEW y \in Conn, Paired(x, y),
                      entry[Impolite].conn = x, entry[Polite].conn = y
               PROVE  /\ \E c \in {x, y} : ends[Owner(c)][c] = "open" /\ ends[Other(Owner(c))][c] # "closed"
                      /\ (\A c \in {x, y} : ends[Impolite][c] = "open" <=> ends[Polite][c] = "open")
                            => entry[Impolite].chan = entry[Polite].chan
    BY DEF GlareLeavesOneChannel
  <1>1. /\ Impolite \in Peer /\ Polite \in Peer
        /\ Other(Impolite) = Polite /\ Other(Polite) = Impolite
    BY DEF Peer, Other
  <1>2. pcs[x].sig # "closed" /\ pcs[y].sig # "closed"
    BY DEF Paired, LinkInv, Owned, OwnRemotes
  <1>3. Live(Impolite) /\ Live(Polite)
    BY <1>2, ConnParts DEF Live
  <1>4. Owner(x) = Impolite /\ Owner(y) = Polite
    BY <1>1, <1>3, LiveConn
  <1>5. ImpoliteKept(x, y) \/ PoliteKept(x, y)
    BY <1>3 DEF LinkInv, Channels
  <1>6. CASE ImpoliteKept(x, y)
    <2>1. ends[Owner(x)][x] = "open" /\ ends[Other(Owner(x))][x] # "closed"
      BY <1>1, <1>4, <1>6 DEF ImpoliteKept
    <2>2. (ends[Impolite][x] = "open" <=> ends[Polite][x] = "open")
            => entry[Impolite].chan = entry[Polite].chan
      BY <1>6 DEF ImpoliteKept
    <2> QED
      BY <2>1, <2>2
  <1>7. CASE PoliteKept(x, y)
    <2>1. ends[Owner(y)][y] = "open" /\ ends[Other(Owner(y))][y] # "closed"
      BY <1>1, <1>4, <1>7 DEF PoliteKept
    <2>2. (ends[Impolite][y] = "open" <=> ends[Polite][y] = "open")
            => entry[Impolite].chan = entry[Polite].chan
      BY <1>7 DEF PoliteKept
    <2> QED
      BY <2>1, <2>2
  <1> QED
    BY <1>5, <1>6, <1>7

\* Of the two channels of a glare (attachDataChannelHandlers and pc.ondatachannel of
\* src/src/client.js) one stays: while the peers hold two connections that are joined,
\* one channel is open where it was made and not closed at the other end, and once
\* every channel has arrived both use the same one.  With it the types, and that no
\* transport outlives its entry; for any names and bounds, and whichever frames are
\* lost, sent again or received out of order.
THEOREM ConnsStaySound == SessionSpec => []ConnsAreSound
  <1>1. NInv /\ LinkInv => GlareLeavesOneChannel
    BY OneChannelLeft
  <1> QED
    BY <1>1, LinkKept, NegotiationTypeCorrect, NoConnLeaks, PTL DEF ConnsAreSound
=============================================================================
