----------------------------- MODULE LivePeers -----------------------------
(***************************************************************************)
(* The table of live peers of a relay (src/src/index.js): which WebSocket  *)
(* a frame for a peer is delivered to.  A peer reconnects under the same   *)
(* identity, so several sockets of one peer can be open at once; the relay *)
(* numbers its sockets and lets a newer socket take the route from an      *)
(* older one, never the other way round.                                   *)
(*                                                                         *)
(* A peer stands for the relay's key [network, room, peerId].  A socket    *)
(* speaks for one peer: client.js opens a socket per identity and room.    *)
(* Handlers are atomic up to their last await, which only queues work      *)
(* (deferWork), so one action models one frame or one close event.         *)
(***************************************************************************)
EXTENDS Naturals

CONSTANTS
    Peers,          \* the peers, as [network, room, peerId] keys
    Sockets,        \* the server ends of WebSockets; one is reused once closed
    None,           \* "no socket"
    MaxGeneration   \* bound on the sockets accepted between two restarts

ASSUME LivePeersAssumption ==
    /\ None \notin Sockets
    /\ Peers # {}
    /\ MaxGeneration \in Nat

VARIABLES
    state,                  \* state of each socket, as the relay sees it
    owner,                  \* the peer a socket speaks for
    socketGeneration,       \* its number, given when it was accepted
    nextSocketGeneration,
    bound,                  \* sockets whose handler remembers its peer (peerKey)
    livePeers,              \* the route of each peer: a socket or None
    absent,                 \* peers that said goodbye (absentPeerUntilMs)
    resting                 \* peers that left the relay on purpose (relayIdlePeerUntilMs)

liveVars == << state, owner, socketGeneration, nextSocketGeneration, bound,
               livePeers, absent, resting >>

SocketStates == {"closed", "open", "closing", "left"}

TypeOK ==
    /\ state \in [Sockets -> SocketStates]
    /\ owner \in [Sockets -> Peers]
    /\ socketGeneration \in [Sockets -> Nat]
    /\ nextSocketGeneration \in Nat
    /\ bound \subseteq Sockets
    /\ livePeers \in [Peers -> Sockets \cup {None}]
    /\ absent \subseteq Peers
    /\ resting \subseteq Peers

Init ==
    /\ state = [s \in Sockets |-> "closed"]
    /\ owner \in [Sockets -> Peers]
    /\ socketGeneration = [s \in Sockets |-> 0]
    /\ nextSocketGeneration = 0
    /\ bound = {}
    /\ livePeers = [p \in Peers |-> None]
    /\ absent = {}
    /\ resting = {}

-----------------------------------------------------------------------------
(* Sockets *)

\* A client connects: handleWebSocket numbers the socket and accepts it.
\* A socket reused for a new connection is a new socket.
Accept(s, p) ==
    /\ state[s] = "closed"
    /\ nextSocketGeneration < MaxGeneration
    /\ nextSocketGeneration' = nextSocketGeneration + 1
    /\ socketGeneration' = [socketGeneration EXCEPT ![s] = nextSocketGeneration + 1]
    /\ state' = [state EXCEPT ![s] = "open"]
    /\ owner' = [owner EXCEPT ![s] = p]
    /\ UNCHANGED << bound, livePeers, absent, resting >>

\* A frame can arrive until the socket's close event has run, also on a
\* socket the relay has asked to close; but not after a withdraw, which the
\* client always sends last.
CanReceive(s) == state[s] \in {"open", "closing"}

Route(s) == livePeers[owner[s]]

\* claimLivePeer: refused only to a socket older than the one that holds the route.
Claims(s) ==
    ~ (Route(s) \notin {None, s} /\ socketGeneration[Route(s)] > socketGeneration[s])

\* deleteLivePeerIfOwned
OwnsRoute(s) == Route(s) = s

-----------------------------------------------------------------------------
(* Frames: every frame claims the route before anything else is done with it. *)

\* The frame of a socket that has been replaced: the relay closes that socket.
RefuseFrame(s) ==
    /\ CanReceive(s)
    /\ ~ Claims(s)
    /\ state' = [state EXCEPT ![s] = "closing"]
    /\ bound' = bound \cup {s}
    /\ UNCHANGED << owner, socketGeneration, nextSocketGeneration, livePeers,
                    absent, resting >>

\* A socket already bound to its peer announces again: a heartbeat.
IsHeartbeat(s) == s \in bound

Announce(s) ==
    /\ CanReceive(s)
    /\ Claims(s)
    /\ livePeers' = [livePeers EXCEPT ![owner[s]] = s]
    /\ bound' = bound \cup {s}
    /\ absent' = absent \ {owner[s]}
    /\ resting' = resting \ {owner[s]}
    /\ UNCHANGED << state, owner, socketGeneration, nextSocketGeneration >>

\* The route the frame has just claimed is given up again.
Leave(s) ==
    /\ livePeers' = [livePeers EXCEPT ![owner[s]] = None]
    /\ bound' = bound \cup {s}

WithdrawReasons == {"relay_idle", "user_disconnect", "previous_identity_cleanup"}

\* withdraw: reason relay_idle (relay on demand) or a goodbye.  A client
\* announces first on every socket; only withdrawSignalingIdentity opens one
\* just to say goodbye for an identity of the past.
Withdraw(s, reason) ==
    /\ CanReceive(s)
    /\ reason # "previous_identity_cleanup" => s \in bound
    /\ Claims(s)
    /\ Leave(s)
    /\ state' = [state EXCEPT ![s] = "left"]
    /\ IF reason = "relay_idle"
         THEN /\ resting' = resting \cup {owner[s]}   \* noteRelayIdlePeer
              /\ absent' = absent \ {owner[s]}
         ELSE /\ absent' = absent \cup {owner[s]}     \* noteAbsentPeer
              /\ UNCHANGED resting
    /\ UNCHANGED << owner, socketGeneration, nextSocketGeneration >>

\* bye: the client sends one only when it is registered.
Bye(s) ==
    /\ CanReceive(s)
    /\ s \in bound
    /\ Claims(s)
    /\ Leave(s)
    /\ UNCHANGED << state, owner, socketGeneration, nextSocketGeneration,
                    absent, resting >>

\* ping, discover, ext and the negotiation frames: they keep, or take back,
\* the route.  The client sends them only once it is registered.
OtherFrame(s) ==
    /\ CanReceive(s)
    /\ s \in bound
    /\ Claims(s)
    /\ livePeers' = [livePeers EXCEPT ![owner[s]] = s]
    /\ UNCHANGED << state, owner, socketGeneration, nextSocketGeneration,
                    bound, absent, resting >>

\* mutant: a closing socket releases its peer's route, whoever owns it
CleanupAnyRoute(s) ==
    livePeers' = [livePeers EXCEPT ![owner[s]] = IF s \in bound THEN None ELSE @]

\* mutant: the close event forgets the socket's peer and leaves its route
CleanupNothing(s) == UNCHANGED livePeers

\* cleanupPeerState's part that releases the route: only a bound socket
\* knows its peer, and only the owner of the route may give it up.
CleanupRoute(s) ==
    livePeers' = [livePeers EXCEPT ![owner[s]] =
                     IF s \in bound /\ OwnsRoute(s) THEN None ELSE @]

\* The close (or error) event of a socket.
SocketClosed(s) ==
    /\ state[s] # "closed"
    /\ CleanupRoute(s)
    /\ state' = [state EXCEPT ![s] = "closed"]
    /\ bound' = bound \ {s}
    /\ UNCHANGED << owner, socketGeneration, nextSocketGeneration, absent, resting >>

-----------------------------------------------------------------------------
(* Time and failure *)

\* The marks lapse: a minute after a goodbye, ten after a relay_idle.
ForgetAbsent(p) ==
    /\ p \in absent
    /\ absent' = absent \ {p}
    /\ UNCHANGED << state, owner, socketGeneration, nextSocketGeneration, bound,
                    livePeers, resting >>

ForgetResting(p) ==
    /\ p \in resting
    /\ resting' = resting \ {p}
    /\ UNCHANGED << state, owner, socketGeneration, nextSocketGeneration, bound,
                    livePeers, absent >>

\* The relay restarts.  All of this is module state: the sockets drop with
\* no close event, and socket numbers start again from one.
Restart ==
    /\ state' = [s \in Sockets |-> "closed"]
    /\ nextSocketGeneration' = 0
    /\ bound' = {}
    /\ livePeers' = [p \in Peers |-> None]
    /\ absent' = {}
    /\ resting' = {}
    /\ UNCHANGED << owner, socketGeneration >>

-----------------------------------------------------------------------------
\* Everything socket s can cause.
SocketStep(s) ==
    \/ RefuseFrame(s)
    \/ Announce(s)
    \/ \E reason \in WithdrawReasons : Withdraw(s, reason)
    \/ Bye(s)
    \/ OtherFrame(s)
    \/ SocketClosed(s)

Next ==
    \/ \E s \in Sockets, p \in Peers : Accept(s, p)
    \/ \E s \in Sockets : SocketStep(s)
    \/ \E p \in Peers : ForgetAbsent(p) \/ ForgetResting(p)
    \/ Restart

Spec == Init /\ [][Next]_liveVars

-----------------------------------------------------------------------------
(* Properties *)

\* A route never outlives its socket: the socket a peer's frames are sent to
\* has not had its close event, speaks for that peer, and is bound to it, so
\* that its close event will release the route.
RouteIsUsable ==
    \A p \in Peers : livePeers[p] # None =>
        /\ state[livePeers[p]] # "closed"
        /\ owner[livePeers[p]] = p
        /\ livePeers[p] \in bound

Superseded(s) ==
    Route(s) \notin {None, s} /\ socketGeneration[Route(s)] > socketGeneration[s]

\* A late frame or close of a replaced socket, whatever it is, neither takes
\* back nor removes the route of its successor, and does not mark the peer
\* as gone or resting.
SupersededIsPowerless ==
    [][\A s \in Sockets : Superseded(s) /\ SocketStep(s) =>
            UNCHANGED << livePeers, absent, resting >>]_liveVars

\* A route passes directly from one socket to another only forward in time:
\* to a socket that was accepted later (claimLivePeer).
RouteMovesForward ==
    [][\A p \in Peers : livePeers[p] # None /\ livePeers'[p] \notin {None, livePeers[p]}
            => socketGeneration[livePeers'[p]] > socketGeneration[livePeers[p]]]_liveVars
=============================================================================
