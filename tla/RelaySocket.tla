----------------------------- MODULE RelaySocket -----------------------------
(***************************************************************************)
(* The socket a client opens to its relay (client.js, openRelaySocket and  *)
(* openDirectRelaySocket, with direct/dial.js): a data channel, punched or *)
(* direct, and when that cannot be had a WebSocket through the tunnel,     *)
(* behind one object whose events the session hears.                       *)
(***************************************************************************)
EXTENDS Integers, FiniteSets

CONSTANTS
    Sockets     \* sockets the client opens, one after the other or at once

ASSUME RelaySocketAssumption == IsFiniteSet(Sockets)

\* A relay that is punched, one with a direct address and a tunnel, one with a
\* direct address only.
Kinds == {"punch", "direct", "bare"}

VARIABLES
    socket,     \* the sockets
    failed      \* punchFailures and directFailures, younger than PUNCH_RETRY_AFTER_MS

socketVars == << socket, failed >>

Unopened ==
    [kind |-> "none", state |-> "none", dialing |-> FALSE, byUser |-> FALSE,
     channel |-> "none", waning |-> FALSE, inner |-> "none", opens |-> 0, closes |-> 0]

SocketTypeOK ==
    /\ failed \in [Kinds -> BOOLEAN]
    /\ \A s \in Sockets :
          LET x == socket[s]
          IN  /\ x.kind \in Kinds \cup {"none"}
              /\ x.state \in {"none", "connecting", "open", "closed"}
              /\ x.channel \in {"none", "open", "closed"}
              /\ x.inner \in {"none", "connecting", "open", "closing", "closed"}
              \* one transport at a time
              /\ x.channel # "none" => x.inner = "none"
              /\ x.dialing => x.channel = "none" /\ x.inner = "none"

SocketInit ==
    /\ socket = [s \in Sockets |-> Unopened]
    /\ failed = [k \in Kinds |-> FALSE]

-----------------------------------------------------------------------------
\* A relay whose channel failed lately is asked through its tunnel at once.
OpenRelaySocket(s, k) ==
    /\ socket[s] = Unopened
    /\ LET x == [Unopened EXCEPT !.kind = k, !.state = "connecting"]
       IN  socket' = [socket EXCEPT ![s] =
              IF k # "bare" /\ failed[k] THEN [x EXCEPT !.inner = "connecting"]
              ELSE [x EXCEPT !.dialing = TRUE]]
    /\ UNCHANGED failed

\* mutant: every sign that the channel is gone is passed on
FinishAgain(x) == [x EXCEPT !.state = "closed", !.closes = @ + 1,
                            !.channel = IF @ = "open" THEN "closed" ELSE @]

\* finish
Finish(x) ==
    IF x.state = "closed" THEN x
    ELSE [x EXCEPT !.state = "closed", !.closes = @ + 1,
                   !.channel = IF @ = "open" THEN "closed" ELSE @]

\* A channel that opens after the client has closed the socket is closed too.
Dialed(x) ==
    IF x.byUser THEN [x EXCEPT !.dialing = FALSE]
    ELSE [x EXCEPT !.dialing = FALSE, !.channel = "open", !.state = "open", !.opens = @ + 1]

DialSucceeds(s) ==
    /\ socket[s].dialing
    /\ socket' = [socket EXCEPT ![s] = Dialed(@)]
    /\ failed' = IF socket[s].byUser THEN failed ELSE [failed EXCEPT ![socket[s].kind] = FALSE]

\* fallBack
DialFails(s) ==
    /\ socket[s].dialing
    /\ LET x == [socket[s] EXCEPT !.dialing = FALSE]
       IN  /\ socket' = [socket EXCEPT ![s] =
                 IF x.byUser THEN x
                 ELSE IF x.kind = "bare" THEN Finish(x)
                 ELSE [x EXCEPT !.inner = "connecting"]]
           /\ failed' = IF x.byUser THEN failed ELSE [failed EXCEPT ![x.kind] = TRUE]

\* The channel closes, or its connection fails: each is reported, also when the
\* socket has closed them itself.
ChannelGone(s) ==
    /\ socket[s].channel # "none"
    /\ socket' = [socket EXCEPT ![s] = Finish(@)]
    /\ UNCHANGED failed

\* The connection of a direct channel is lost: if it has not come back after
\* DIRECT_DISCONNECTED_GRACE_MS, the channel counts as gone.
Disconnected(s) ==
    /\ socket[s].channel = "open" /\ socket[s].kind # "punch"
    /\ socket' = [socket EXCEPT ![s].waning = ~ @]
    /\ UNCHANGED failed

GraceOver(s) ==
    /\ socket[s].waning
    /\ socket' = [socket EXCEPT ![s] = Finish(@)]
    /\ UNCHANGED failed

InnerOpens(s) ==
    /\ socket[s].inner = "connecting"
    /\ socket' = [socket EXCEPT ![s].inner = "open", ![s].state = "open", ![s].opens = @ + 1]
    /\ UNCHANGED failed

InnerCloses(s) ==
    /\ socket[s].inner \in {"connecting", "open", "closing"}
    /\ socket' = [socket EXCEPT ![s].inner = "closed", ![s].state = "closed", ![s].closes = @ + 1]
    /\ UNCHANGED failed

\* close()
CloseSocket(s) ==
    /\ socket[s].kind # "none"
    /\ LET x == socket[s]
       IN  socket' = [socket EXCEPT ![s] =
             IF x.inner = "closed" THEN x
             ELSE IF x.inner # "none" THEN [x EXCEPT !.inner = "closing"]
             ELSE IF x.state = "closed" THEN x
             ELSE Finish([x EXCEPT !.byUser = TRUE])]
    /\ UNCHANGED failed

FailureLapses(k) ==
    /\ failed[k]
    /\ failed' = [failed EXCEPT ![k] = FALSE]
    /\ UNCHANGED socket

-----------------------------------------------------------------------------
SocketNext ==
    \/ \E s \in Sockets :
          \/ \E k \in Kinds : OpenRelaySocket(s, k)
          \/ DialSucceeds(s) \/ DialFails(s) \/ ChannelGone(s) \/ Disconnected(s) \/ GraceOver(s)
          \/ InnerOpens(s) \/ InnerCloses(s) \/ CloseSocket(s)
    \/ \E k \in Kinds : FailureLapses(k)

SocketSpec == SocketInit /\ [][SocketNext]_socketVars

-----------------------------------------------------------------------------
(* Properties *)

\* The session hears of each socket that it opens at most once, and exactly once
\* that it has closed, whichever of the channel, its connection, the WebSocket and
\* the client itself ends it, and never that it opens after that.
HeardOnce ==
    \A s \in Sockets :
       LET x == socket[s]
       IN  /\ x.opens <= 1
           /\ x.closes = IF x.state = "closed" THEN 1 ELSE 0
           /\ x.state = "open" => x.opens = 1

\* Nothing stays open behind a socket that has closed or that the client has closed
\* while its channel was still being dialled.
NothingLeftOpen ==
    \A s \in Sockets : socket[s].state = "closed" \/ socket[s].byUser =>
       socket[s].channel # "open" /\ socket[s].inner \in {"none", "closed"}

\* What the session hears and does, in the terms of PlainSocket.
SocketPhase(x) ==
    IF x.kind = "none" THEN "closed"
    ELSE IF x.closes = 1 /\ x.opens <= 1 /\ x.state = "closed" THEN "closed"
    ELSE IF x.closes = 0 /\ x.inner = "closing" THEN "closing"
    ELSE IF x.closes = 0 /\ x.opens = 0 /\ x.state = "connecting" THEN "connecting"
    ELSE IF x.closes = 0 /\ x.opens = 1 /\ x.state = "open" THEN "open"
    ELSE "broken"

Contract == INSTANCE PlainSocket WITH phase <- [s \in Sockets |-> SocketPhase(socket[s])]

\* The session need not know what is behind its socket: a channel that is dialled
\* and fails, a tunnel that takes over and a late end of either keep the contract
\* of one WebSocket.
IsPlainSocket == Contract!Spec
=============================================================================
