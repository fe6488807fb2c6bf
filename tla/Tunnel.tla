-------------------------------- MODULE Tunnel --------------------------------
(***************************************************************************)
(* A tunnel of a relay behind NAT: the relay keeps one WebSocket open to a *)
(* home (src/src/tunnel/client.js), and the home (tunnel/home.js) carries  *)
(* down it the requests and the WebSockets that peers open at the relay's  *)
(* public address.                                                         *)
(*                                                                         *)
(* Each end keeps its own view of a connection: a close travels behind     *)
(* what was sent before it, and a cut connection tells neither end.        *)
(* Sockets are numbered as the relay opens them; the generation of a       *)
(* tunnel, drawn at random, is its socket.  What data frames carry, which  *)
(* changes no state, is left out.                                          *)
(***************************************************************************)
EXTENDS Integers, Sequences, FiniteSetsExt

CONSTANTS
    Homes,      \* the number of public relays that may be homes
    MaxSockets, \* bound on the tunnel sockets
    Peers,      \* WebSockets that peers open at the public address, once each
    Requests,   \* HTTP requests sent there, once each
    MaxUpsets   \* bound on the connections that are cut, too slow or refused

ASSUME TunnelAssumption ==
    /\ {Homes, MaxSockets} \subseteq Nat \ {0}
    /\ MaxUpsets \in Nat

VARIABLES
    sock,       \* each tunnel socket: its home, its ends, what is on its way
    peer,       \* each peer's socket at the home, and its tunnel (gen)
    request,    \* each request, and the tunnel it went down
    stream,     \* the relay's end of each peer: the socket it came through, or 0
    client,     \* the relay's own state
    refused,    \* homes that are left alone (refusedUntil)
    opened,     \* how many sockets the relay has opened
    upsets      \* how many upsets so far

vars == << sock, peer, request, stream, client, refused, opened, upsets >>
relayVars == << stream, client, refused, opened >>

Sockets == 1 .. MaxSockets
HomeIds == 1 .. Homes

Gone == [home |-> 0, cut |-> FALSE, r |-> "closed", h |-> "closed", authed |-> FALSE,
         nonce |-> FALSE, verifying |-> FALSE, ready |-> FALSE, since |-> 0,
         up |-> << >>, down |-> << >>]

Upset == upsets < MaxUpsets /\ upsets' = upsets + 1

\* The runtime lists a socket until its close event.
Listed(s) == sock[s].h \in {"open", "closing"}

TypeOK ==
    /\ \A s \in Sockets :
          /\ sock[s].home \in 0 .. Homes
          /\ sock[s].r \in {"open", "closed"}
          /\ sock[s].h \in {"open", "closing", "closed"}
          /\ sock[s].since \in Nat
          /\ sock[s].authed => ~ sock[s].nonce /\ ~ sock[s].verifying
    /\ \A p \in Peers : peer[p].state \in {"none", "open", "closing", "over"} /\ peer[p].gen \in 0 .. MaxSockets
    /\ \A q \in Requests :
          request[q].state \in {"none", "pending", "answered", "silent"} /\ request[q].via \in 0 .. MaxSockets
    /\ client \in [current : 0 .. MaxSockets, index : HomeIds, failures : 0 .. 1, url : 0 .. Homes]
    /\ refused \subseteq HomeIds
    /\ opened \in 0 .. MaxSockets
    /\ upsets \in 0 .. MaxUpsets
    \* the relay has one socket open at most, and its streams are on that one
    /\ \A s \in Sockets : sock[s].r = "open" <=> client.current = s
    /\ \A p \in Peers : stream[p] \in {0, client.current}

Init ==
    /\ sock = [s \in Sockets |-> Gone]
    /\ peer = [p \in Peers |-> [state |-> "none", gen |-> 0]]
    /\ request = [q \in Requests |-> [state |-> "none", via |-> 0]]
    /\ stream = [p \in Peers |-> 0]
    /\ client = [current |-> 0, index |-> 1, failures |-> 0, url |-> 0]
    /\ refused = {}
    /\ opened = 0
    /\ upsets = 0

-----------------------------------------------------------------------------
(* The home *)

\* tunnelSocket: of those signed in and open, the one that signed in last; or 0
TunnelSocket(h) ==
    LET here == {s \in Sockets : sock[s].home = h /\ sock[s].authed /\ sock[s].h = "open"}
    IN  IF here = {} THEN 0 ELSE CHOOSE s \in here : \A x \in here : sock[x].since <= sock[s].since

\* A frame on its way, unless it goes nowhere.
Down(b, f) == IF b.cut \/ b.r = "closed" THEN b ELSE [b EXCEPT !.down = Append(@, f)]
Up(b, f) == IF b.cut \/ b.h = "closed" THEN b ELSE [b EXCEPT !.up = Append(@, f)]

\* closeQuietly
Closing(b) == IF b.h = "open" THEN [b EXCEPT !.h = "closing"] ELSE b

\* mutant: the socket is left open
SignedOutOnly(b) == [b EXCEPT !.authed = FALSE]

SignedOut(b) == [Closing(b) EXCEPT !.authed = FALSE]

\* closePeersOf
PeersWithout(gens) ==
    [p \in Peers |-> IF peer[p].state = "open" /\ peer[p].gen \in gens
                     THEN [peer[p] EXCEPT !.state = "closing"] ELSE peer[p]]

\* The other tunnels that the home lists.
Others(s) == {x \in Sockets \ {s} : Listed(x) /\ sock[x].home = sock[s].home}

\* A hello arrives: its signature is being verified.
HelloArrives(s) ==
    /\ Listed(s) /\ ~ sock[s].cut
    /\ sock[s].up # << >> /\ Head(sock[s].up).t = "hello"
    /\ sock[s].nonce /\ ~ sock[s].authed
    /\ sock' = [sock EXCEPT ![s].up = Tail(@), ![s].verifying = TRUE]
    /\ UNCHANGED << peer, request, relayVars, upsets >>

\* A socket whose two ends are over is forgotten.
Kept(b) == IF b.r = "closed" /\ b.h = "closed" /\ ~ b.verifying THEN Gone ELSE b

\* A socket that is signed in now.
SignedIn(b, n) ==
    LET in == [b EXCEPT !.verifying = FALSE, !.nonce = FALSE, !.authed = TRUE, !.since = n]
    IN  IF b.h = "open" THEN Down(in, [t |-> "ready"]) ELSE in

Latest == 1 + Max({sock[x].since : x \in Sockets})

\* The signature is right: the tunnels there are signed out, closed, and their
\* peers with them.  Whether this one was closed or replaced while its signature
\* was verified is not looked at.
SignIn(s) ==
    /\ sock[s].verifying
    /\ sock' = [x \in Sockets |->
          IF x = s THEN Kept(SignedIn(sock[s], Latest))
          ELSE IF x \in Others(s) THEN SignedOut(sock[x]) ELSE sock[x]]
    /\ peer' = PeersWithout(Others(s))
    /\ UNCHANGED << request, relayVars, upsets >>

\* A peer's WebSocket, opened down the tunnel.
PeerConnects(p) ==
    /\ peer[p].state = "none"
    /\ \E h \in HomeIds :
          LET s == TunnelSocket(h)
          IN  /\ s # 0
              /\ sock' = [sock EXCEPT ![s] = Down(@, [t |-> "open", p |-> p])]
              /\ peer' = [peer EXCEPT ![p] = [state |-> "open", gen |-> s]]
    /\ UNCHANGED << request, relayVars, upsets >>

\* A message of a peer whose tunnel is no longer the current one closes the peer.
PeerSpeaks(p) ==
    /\ peer[p].state = "open" /\ TunnelSocket(sock[peer[p].gen].home) # peer[p].gen
    /\ peer' = [peer EXCEPT ![p].state = "closing"]
    /\ UNCHANGED << sock, request, relayVars, upsets >>

\* webSocketClose of a peer that left, or was closed
PeerCloses(p) ==
    /\ peer[p].state \in {"open", "closing"}
    /\ peer' = [peer EXCEPT ![p].state = "over"]
    /\ LET s == peer[p].gen
       IN  sock' = IF TunnelSocket(sock[s].home) = s
                   THEN [sock EXCEPT ![s] = Down(@, [t |-> "end", p |-> p])] ELSE sock
    /\ UNCHANGED << request, relayVars, upsets >>

\* A request: sent down the tunnel, and its answer waited for.
RequestArrives(q) ==
    /\ request[q].state = "none"
    /\ \E h \in HomeIds :
          LET s == TunnelSocket(h)
          IN  /\ s # 0
              /\ sock' = [sock EXCEPT ![s] = Down(@, [t |-> "req", q |-> q])]
              /\ request' = [request EXCEPT ![q] = [state |-> "pending", via |-> s]]
    /\ UNCHANGED << peer, relayVars, upsets >>

\* mutant: the tunnel there is now is dropped, whichever it is
DroppedAny(s) == TunnelSocket(sock[s].home)

\* The tunnel that a request which timed out went down, if it is still the one.
Dropped(s) == IF TunnelSocket(sock[s].home) = s THEN s ELSE 0

\* REQUEST_TIMEOUT_MS without an answer (dropTunnel)
RequestTimesOut(q) ==
    /\ request[q].state = "pending"
    /\ request' = [request EXCEPT ![q].state = "silent"]
    /\ LET s == Dropped(request[q].via)
       IN  /\ sock' = [x \in Sockets |-> IF x = s THEN SignedOut(sock[x]) ELSE sock[x]]
           /\ peer' = PeersWithout({s})
    /\ UNCHANGED << relayVars, upsets >>

\* Another frame of the relay: an answer, or the end of a stream.  One of a tunnel
\* that was signed out closes it.
FrameArrives(s) ==
    /\ Listed(s) /\ ~ sock[s].cut /\ ~ sock[s].verifying
    /\ sock[s].up # << >> /\ Head(sock[s].up).t # "hello"
    /\ LET f == Head(sock[s].up)
           b == [sock EXCEPT ![s].up = Tail(@)]
       IN  /\ sock' = IF sock[s].authed THEN b ELSE [b EXCEPT ![s] = Closing(@)]
           /\ request' = IF sock[s].authed /\ f.t = "res" /\ request[f.q].state = "pending"
                         THEN [request EXCEPT ![f.q].state = "answered"] ELSE request
           /\ peer' = IF sock[s].authed /\ f.t = "end" /\ peer[f.p].state = "open"
                      THEN [peer EXCEPT ![f.p].state = "closing"] ELSE peer
    /\ UNCHANGED << relayVars, upsets >>

\* The relay's close has come: a socket that is closing is not a tunnel any more.
CloseArrives(s) ==
    /\ sock[s].h = "open" /\ ~ sock[s].cut
    /\ sock[s].r = "closed"
    /\ sock' = [sock EXCEPT ![s] = Closing(@)]
    /\ UNCHANGED << peer, request, relayVars, upsets >>

\* webSocketClose, webSocketError of a tunnel: its close is complete, or the
\* runtime has noticed the cut.  What was on its way may be lost.
HomeCloses(s) ==
    /\ \/ Listed(s) /\ sock[s].cut
       \/ sock[s].h = "closing" /\ sock[s].r = "closed"
    /\ sock' = [sock EXCEPT ![s] = Kept([@ EXCEPT !.h = "closed"])]
    /\ peer' = PeersWithout({s})
    /\ UNCHANGED << request, relayVars, upsets >>

-----------------------------------------------------------------------------
(* The relay behind NAT *)

NextHome(h) == (h % Homes) + 1

\* The first home from the current one on that is not left alone.
HomeToTry ==
    IF client.index \notin refused THEN client.index
    ELSE CHOOSE h \in HomeIds \ refused :
            \E n \in 0 .. Homes : \/ h = client.index + n
                                  \/ h = client.index + n - Homes

\* connect: a home answers, with a challenge that the relay signs.  With every home
\* refusing it waits.
Connect ==
    /\ client.current = 0 /\ opened < MaxSockets
    /\ HomeIds \ refused # {}
    /\ opened' = opened + 1
    /\ sock' = [sock EXCEPT ![opened + 1] =
                  [Gone EXCEPT !.home = HomeToTry, !.r = "open", !.h = "open", !.nonce = TRUE,
                               !.up = << [t |-> "hello"] >>]]
    /\ client' = [client EXCEPT !.current = opened + 1, !.index = HomeToTry]
    /\ UNCHANGED << peer, request, stream, refused, upsets >>

\* On to the next home: the address is lost.
LeavesHome == [client EXCEPT !.current = 0, !.index = NextHome(HomeToTry), !.failures = 0, !.url = 0]

\* The second try in vain at a home is the last one there.
TriedInVain ==
    IF client.failures = 1 THEN LeavesHome
    ELSE [client EXCEPT !.current = 0, !.index = HomeToTry, !.failures = 1]

\* A home refuses (429, 5xx), and is left alone for a time; or cannot be reached.
ConnectFails ==
    /\ client.current = 0 /\ HomeIds \ refused # {}
    /\ Upset
    /\ \/ refused' = refused \cup {HomeToTry} /\ client' = LeavesHome
       \/ refused' = refused /\ client' = TriedInVain
    /\ UNCHANGED << sock, peer, request, stream, opened >>

\* refusedUntil is over, for the backoff or at midnight.
RefusalLapses(h) ==
    /\ h \in refused
    /\ refused' = refused \ {h}
    /\ UNCHANGED << sock, peer, request, stream, client, opened, upsets >>

\* The streams once a socket has closed.
StreamsWithout(s) == [p \in Peers |-> IF stream[p] = s THEN 0 ELSE stream[p]]

\* The close event of the relay's socket: a tunnel that was ready is opened again
\* at the same home.
RelayCloses(s) ==
    /\ sock' = [sock EXCEPT ![s] = Kept([@ EXCEPT !.r = "closed", !.down = << >>, !.ready = FALSE])]
    /\ stream' = StreamsWithout(s)
    /\ client' = IF sock[s].ready THEN [client EXCEPT !.current = 0, !.failures = 1] ELSE TriedInVain
    /\ UNCHANGED << peer, request, refused, opened >>

\* The home has closed the socket.
CloseComes(s) ==
    /\ sock[s].r = "open" /\ ~ sock[s].cut /\ sock[s].down = << >>
    /\ sock[s].h # "open"
    /\ RelayCloses(s) /\ UNCHANGED upsets

\* CONNECT_TIMEOUT_MS, or DEAD_AFTER_MS: no answer comes over a cut connection.
FoundDead(s) ==
    /\ sock[s].r = "open" /\ sock[s].cut
    /\ RelayCloses(s) /\ UNCHANGED upsets

\* CONNECT_TIMEOUT_MS at a home that is only slow
TooSlow(s) ==
    /\ sock[s].r = "open" /\ ~ sock[s].cut /\ ~ sock[s].ready
    /\ Upset
    /\ RelayCloses(s)

\* A frame of the home.  A request is answered, or takes too long to be.
Receive(s) ==
    /\ sock[s].r = "open" /\ ~ sock[s].cut /\ sock[s].down # << >>
    /\ LET f == Head(sock[s].down)
           b == [sock EXCEPT ![s].down = Tail(@)]
       IN  \/ /\ f.t = "ready"
              /\ sock' = [b EXCEPT ![s].ready = TRUE]
              /\ client' = [client EXCEPT !.failures = 0, !.url = sock[s].home]
              /\ refused' = refused \ {sock[s].home}
              /\ UNCHANGED stream
           \/ /\ f.t = "req"
              /\ sock' = b \/ sock' = [b EXCEPT ![s] = Up(@, [t |-> "res", q |-> f.q])]
              /\ UNCHANGED << stream, client, refused >>
           \/ /\ f.t \in {"open", "end"}
              /\ sock' = b
              /\ stream' = [stream EXCEPT ![f.p] = IF f.t = "open" THEN s ELSE 0]
              /\ UNCHANGED << client, refused >>
    /\ UNCHANGED << peer, request, opened, upsets >>

\* The relay closes a stream (TunnelStream.close).
StreamCloses(p) ==
    /\ stream[p] # 0
    /\ stream' = [stream EXCEPT ![p] = 0]
    /\ sock' = [sock EXCEPT ![stream[p]] = Up(@, [t |-> "end", p |-> p])]
    /\ UNCHANGED << peer, request, client, refused, opened, upsets >>

\* A connection is cut, and neither end is told.
Cut(s) ==
    /\ ~ sock[s].cut /\ (sock[s].r = "open" \/ Listed(s))
    /\ Upset
    /\ sock' = [sock EXCEPT ![s].cut = TRUE, ![s].up = << >>, ![s].down = << >>]
    /\ UNCHANGED << peer, request, relayVars >>

-----------------------------------------------------------------------------
Travels(s) == HelloArrives(s) \/ SignIn(s) \/ FrameArrives(s) \/ CloseArrives(s) \/ Receive(s)

Next ==
    \/ \E s \in Sockets :
          \/ Travels(s) \/ HomeCloses(s)
          \/ CloseComes(s) \/ FoundDead(s) \/ TooSlow(s) \/ Cut(s)
    \/ \E p \in Peers : PeerConnects(p) \/ PeerSpeaks(p) \/ PeerCloses(p) \/ StreamCloses(p)
    \/ \E q \in Requests : RequestArrives(q) \/ RequestTimesOut(q)
    \/ Connect \/ ConnectFails
    \/ \E h \in HomeIds : RefusalLapses(h)

Spec == Init /\ [][Next]_vars

\* Frames travel over connections that are not cut, timers fire, and a close event
\* follows a close; a peer need not close nor speak, and the home need never notice
\* a cut: a dead connection does not acknowledge a close.
Fairness ==
    /\ \A s \in Sockets :
          /\ WF_vars(Travels(s))
          /\ WF_vars(~ sock[s].cut /\ HomeCloses(s))
          /\ WF_vars(CloseComes(s) \/ FoundDead(s))
    /\ WF_vars(Connect)
    /\ \A h \in HomeIds : WF_vars(RefusalLapses(h))
    /\ \A p \in Peers : WF_vars(peer[p].state = "closing" /\ PeerCloses(p))

FairSpec == Spec /\ Fairness

-----------------------------------------------------------------------------
(* Properties *)

\* A peer that is open at a home came through the last tunnel that signed in there,
\* or one whose close event is still to come: whichever way a tunnel goes, closed,
\* replaced, dropped or cut, no peer is left behind on one that goes nowhere.
PeersGoWithTheirTunnel ==
    \A p \in Peers : peer[p].state = "open" =>
       LET s == peer[p].gen
       IN  /\ Listed(s) /\ sock[s].authed
           /\ \A x \in Others(s) : sock[x].authed => sock[x].since < sock[s].since

\* The address that is published is at the home the relay is connected to, or tries
\* next: never at one it has left for another, or that refuses it.
AddressIsOwned == client.url # 0 => client.index = client.url /\ client.url \notin refused

\* A request that is not answered costs the tunnel it went down, never the one that
\* has replaced it meanwhile.
TimeoutSparesSuccessor ==
    [][\A q \in Requests : request'[q].state = "silent" /\ request[q].state = "pending" =>
          \A s \in Sockets \ {request[q].via} : sock'[s] = sock[s]]_vars

\* The relay's end of a peer that is gone ends too, whether the frame that says so
\* arrives, or the tunnel goes first.
StreamsEndWithTheirPeer == \A p \in Peers : peer[p].state = "over" ~> stream[p] = 0

\* Once no more connection is cut and no home refuses, the relay is reachable at the
\* address that it publishes, although hellos of earlier tunnels may come late,
\* closes be lost and homes have been given up.
ReachableInTheEnd ==
    <>[](/\ client.url # 0
         /\ TunnelSocket(client.url) # 0 /\ TunnelSocket(client.url) = client.current
         /\ ~ sock[client.current].cut)
=============================================================================
