---------------------------- MODULE Negotiation ----------------------------
(***************************************************************************)
(* How two peers of a room come to share one WebRTC connection and one     *)
(* data channel (src/src/client.js): offers and answers sent through a     *)
(* relay, glare, retries, answers that come late, a bye in the middle of a *)
(* negotiation, a fresh offer on a channel that still looks open.          *)
(*                                                                         *)
(* An RTCPeerConnection is named by the ICE credentials of its             *)
(* descriptions, so a name stands for the connection, its offer, its       *)
(* answer and the data channel it makes.  Candidates are left out.  A name *)
(* is used again once nothing refers to it any more.                       *)
(***************************************************************************)
EXTENDS Naturals, Sequences

CONSTANTS
    Impolite, Polite,   \* the peers, the one with the smaller id first
    Names,              \* names of the connections of a peer, numbers
    Nothing,
    MaxRetries,         \* Len(OFFER_RETRY_DELAYS_MS)
    MaxBurst,           \* Len(ANSWER_BURST_DELAYS_MS)
    MaxQueue,           \* bound on the operations of a queue
    MaxDials,           \* bound on the dials of the hosts
    MaxTroubles         \* bound on the edges closed on purpose, the frames lost, the
                        \* transports that fail by themselves and the frames sent again

ASSUME NegotiationAssumption ==
    /\ Impolite # Polite
    /\ Names \subseteq Nat
    /\ Nothing \notin {Impolite, Polite} \X Names
    /\ MaxRetries \in Nat /\ MaxBurst \in Nat
    /\ MaxQueue \in Nat \ {0}
    /\ MaxDials \in Nat /\ MaxTroubles \in Nat

Peer == {Impolite, Polite}
Other(p) == IF p = Impolite THEN Polite ELSE Impolite
Conn == Peer \X Names
Owner(x) == x[1]
MaybeConn == Conn \cup {Nothing}

VARIABLES
    pcs,        \* the RTCPeerConnections
    ends,       \* ends[p][c]: the end at p of the channel that connection c made
    entry,      \* mesh.connections.get(other peer)
    pending,    \* pendingAnswers: an answer, and the connection it waits for
    recent,     \* recentOfferSdp and recentAnswerSdp
    burst,      \* answerBurstTimers
    ops,        \* offerProcessingQueues, and queues deleted while they ran
    closing,    \* connections closed in a moment, after the bye is flushed
    net,        \* frames under way
    spent       \* what is used up of the bounds

negotiationVars == << pcs, ends, entry, pending, recent, burst, ops, closing, net, spent >>

Queues == {"queue", "detached"}
Op == [kind : {"dial", "offer", "answer"}, arg : MaybeConn, on : MaybeConn,
       at : {"start", "made", "remote", "yielding"}]
Frame == [type : {"offer", "answer"}, to : Peer, conn : Conn]
           \cup [type : {"bye"}, to : Peer]
           \cup [type : {"channel-bye"}, to : Peer, conn : Conn]

NegotiationTypeOK ==
    /\ pcs \in [Conn -> [sig : {"closed", "stable", "have-local-offer", "have-remote-offer"},
                         remote : MaybeConn, state : {"new", "connected", "failed"},
                         left : 0 .. MaxRetries + 1]]
    /\ ends \in [Peer -> [Conn -> {"none", "connecting", "open", "closed"}]]
    /\ entry \in [Peer -> [conn : MaybeConn, chan : MaybeConn, offered : MaybeConn,
                           applied : MaybeConn, answered : BOOLEAN,
                           state : {"connecting", "connected", "dead"}]]
    /\ pending \in [Peer -> [answer : MaybeConn, for : MaybeConn]]
    /\ recent \in [Peer -> [offer : MaybeConn, answer : MaybeConn]]
    /\ burst \in [Peer -> [conn : MaybeConn, left : 0 .. MaxBurst]]
    /\ \A p \in Peer, q \in Queues : ops[p][q] \in Seq(Op)
    /\ closing \subseteq Conn
    /\ net \subseteq Frame
    /\ spent \in [dials : 0 .. MaxDials, byes : 0 .. MaxTroubles, losses : 0 .. MaxTroubles,
                  breaks : 0 .. MaxTroubles, resent : 0 .. MaxTroubles]

NoConn == [sig |-> "closed", remote |-> Nothing, state |-> "new", left |-> 0]
EntryOf(x) == [conn |-> x, chan |-> Nothing, offered |-> Nothing, applied |-> Nothing,
               answered |-> FALSE, state |-> "connecting"]
NoEntry == EntryOf(Nothing)
NoAnswer == [answer |-> Nothing, for |-> Nothing]
NoBurst == [conn |-> Nothing, left |-> 0]

NegotiationInit ==
    /\ pcs = [x \in Conn |-> NoConn]
    /\ ends = [p \in Peer |-> [c \in Conn |-> "none"]]
    /\ entry = [p \in Peer |-> NoEntry]
    /\ pending = [p \in Peer |-> NoAnswer]
    /\ recent = [p \in Peer |-> [offer |-> Nothing, answer |-> Nothing]]
    /\ burst = [p \in Peer |-> NoBurst]
    /\ ops = [p \in Peer |-> [q \in Queues |-> << >>]]
    /\ closing = {}
    /\ net = {}
    /\ spent = [dials |-> 0, byes |-> 0, losses |-> 0, breaks |-> 0, resent |-> 0]

-----------------------------------------------------------------------------
(* Connections and channels *)

IsOpen(p) == entry[p].chan # Nothing /\ ends[p][entry[p].chan] = "open"

\* The other end of connection x, if the two have each other's descriptions.
Matched(x, y) ==
    /\ pcs[x].sig = "stable" /\ pcs[y].sig = "stable"
    /\ pcs[x].remote = y /\ pcs[y].remote = x

\* Nothing refers to name x: it may stand for a new connection.
Unused(x) ==
    /\ pcs[x].sig = "closed"
    /\ x \notin closing
    /\ \A p \in Peer :
          /\ x \notin {entry[p].conn, entry[p].chan, entry[p].offered, entry[p].applied,
                       pending[p].answer, pending[p].for, burst[p].conn}
          /\ ends[p][x] # "open"
          /\ \A q \in Queues : \A i \in DOMAIN ops[p][q] :
                x \notin {ops[p][q][i].arg, ops[p][q][i].on}
    /\ \A f \in net : f.type = "bye" \/ f.conn # x
    /\ \A y \in Conn : pcs[y].sig # "closed" => pcs[y].remote # x

\* The connections of p once those in S are closed, and its ends of channels.
Shut(P, S) == [x \in Conn |-> IF x \in S THEN NoConn ELSE P[x]]
ShutEnds(E, S) ==
    [p \in Peer |-> [c \in Conn |->
        IF E[p][c] \in {"connecting", "open"}
             /\ \E x \in S : Owner(x) = p /\ c \in {x, pcs[x].remote}
          THEN "closed" ELSE E[p][c]]]

\* A new connection, without a description.
NewConn == [sig |-> "stable", remote |-> Nothing, state |-> "new", left |-> 0]

\* The lowest free name, if any.
Fresh(p) ==
    {x \in Conn : /\ Owner(x) = p /\ Unused(x)
                  /\ \A n \in Names : n < x[2] => ~ Unused(<< p, n >>)}

\* What is remembered of the descriptions named x is not about the new ones.
Forgotten(x) ==
    [p \in Peer |-> [offer |-> IF recent[p].offer = x THEN Nothing ELSE recent[p].offer,
                     answer |-> IF recent[p].answer = x THEN Nothing ELSE recent[p].answer]]

\* The ends of the channels named x, when x stands for a new connection.
Renamed(E, x) == [p \in Peer |-> [E[p] EXCEPT ![x] = "none"]]

Next1(p, q) == Head(ops[p][q])
IsAt(p, q, kind, at) ==
    ops[p][q] # << >> /\ Next1(p, q).kind = kind /\ Next1(p, q).at = at
Done(p, q) == ops' = [ops EXCEPT ![p][q] = Tail(@)]
Goes(p, q, at, x) ==
    ops' = [ops EXCEPT ![p][q] = << [Head(@) EXCEPT !.at = at, !.on = x] >> \o Tail(@)]
Enqueued(p, kind, x) ==
    [ops EXCEPT ![p]["queue"] = Append(@, [kind |-> kind, arg |-> x, on |-> Nothing, at |-> "start"])]

\* An operation of the other queue called for a description to be made or set on
\* connection x, which is not done: what is called on x later waits for it.
Busy(p, q, x) ==
    \E r \in Queues \ {q} :
       /\ ops[p][r] # << >> /\ Next1(p, r).on = x
       /\ ~ IsAt(p, r, "offer", "made")

Offer(x) == [type |-> "offer", to |-> Other(Owner(x)), conn |-> x]
Answer(x) == [type |-> "answer", to |-> Other(Owner(x)), conn |-> x]

\* Another trouble is within the bound.
Room == spent.byes + spent.losses + spent.breaks + spent.resent < MaxTroubles

-----------------------------------------------------------------------------
(* Dialling: initiateWebRTCConnection *)

Dial(p) ==
    /\ ~ IsOpen(p)
    /\ Len(ops[p]["queue"]) < MaxQueue
    /\ \A i \in DOMAIN ops[p]["queue"] : ops[p]["queue"][i].kind # "dial"
    /\ spent.dials < MaxDials
    /\ spent' = [spent EXCEPT !.dials = @ + 1]
    /\ ops' = Enqueued(p, "dial", Nothing)
    /\ UNCHANGED << pcs, ends, entry, pending, recent, burst, closing, net >>

\* mutant: a connection that has failed still counts
InProgressUnlessClosed(p) ==
    LET x == entry[p].conn
    IN  x # Nothing /\ pcs[x].sig # "closed"

\* A connection that is being made is not replaced.
InProgress(p) ==
    LET x == entry[p].conn
    IN  /\ x # Nothing /\ pcs[x].sig # "closed" /\ entry[p].state # "dead"
        /\ pcs[x].state # "failed"
        /\ pcs[x].state = "connected" \/ pcs[x].remote # Nothing

StartDial(p, q) ==
    /\ IsAt(p, q, "dial", "start")
    /\ IF IsOpen(p) \/ InProgress(p)
         THEN Done(p, q) /\ UNCHANGED << pcs, ends, entry, recent >>
         ELSE \E x \in Fresh(p) :
                /\ pcs' = [Shut(pcs, {entry[p].conn}) EXCEPT ![x] = NewConn]
                /\ ends' = [Renamed(ShutEnds(ends, {entry[p].conn} \ {Nothing}), x)
                              EXCEPT ![p][x] = "connecting"]
                /\ entry' = [entry EXCEPT ![p] = [EntryOf(x) EXCEPT !.chan = x]]
                /\ recent' = Forgotten(x)
                /\ Goes(p, q, "made", x)
    /\ UNCHANGED << pending, burst, closing, net, spent >>

\* The timer of the retries runs, with all of them left.
FullBackoff == MaxRetries + 1

\* The answer applied last, if SDP_DEDUP_WINDOW_MS has not passed.
Known(p) == {recent[p].answer, Nothing}

\* The local description is set, an answer that came before it is applied, and
\* the offer is sent.
FinishDial(p, q) ==
    /\ IsAt(p, q, "dial", "made")
    /\ Done(p, q)
    /\ \E known \in Known(p) :
       LET x == Next1(p, q).on
           a == pending[p].answer
           early == /\ a \notin {Nothing, known} /\ pending[p].for \in {Nothing, x}
                    /\ entry[p].conn = x /\ ~ Busy(p, q, x)
       IN  IF pcs[x].sig # "stable"
             THEN UNCHANGED << pcs, entry, pending, recent, net >>
             ELSE /\ pcs' = [pcs EXCEPT ![x].left = FullBackoff,
                                        ![x].sig = IF early THEN "stable" ELSE "have-local-offer",
                                        ![x].remote = IF early THEN a ELSE @]
                  /\ net' = net \cup {Offer(x)}
                  /\ IF early
                       THEN /\ entry' = [entry EXCEPT ![p].applied = a]
                            /\ recent' = [recent EXCEPT ![p].answer = a]
                            /\ pending' = [pending EXCEPT ![p] = NoAnswer]
                       ELSE UNCHANGED << entry, recent, pending >>
    /\ UNCHANGED << ends, burst, closing, spent >>

Resend(f) ==
    /\ Room
    /\ spent' = [spent EXCEPT !.resent = @ + 1]
    /\ net' = net \cup {f}

\* retryOffer.  (Beyond the bound the remaining retries are left out.)
Unanswered(x) ==
    entry[Owner(x)].conn = x /\ pcs[x].sig = "have-local-offer" /\ pcs[x].remote = Nothing

RetryFires(x) ==
    /\ pcs[x].left > 0
    /\ IF ~ Unanswered(x)
         THEN /\ pcs' = [pcs EXCEPT ![x].left = 0]
              /\ UNCHANGED << ends, entry, net, spent >>
         ELSE IF pcs[x].left = 1 \/ ~ Room
         THEN /\ pcs' = Shut(pcs, {x})
              /\ ends' = ShutEnds(ends, {x})
              /\ entry' = [entry EXCEPT ![Owner(x)].state = "dead"]
              /\ UNCHANGED << net, spent >>
         ELSE /\ pcs' = [pcs EXCEPT ![x].left = @ - 1]
              /\ Resend(Offer(x))
              /\ UNCHANGED << ends, entry >>
    /\ UNCHANGED << pending, recent, burst, ops, closing >>

\* __resetOfferRetryBackoff, when the host recovers its connections.
ResetBackoff(x) ==
    /\ Unanswered(x)
    /\ pcs[x].left \in 1 .. MaxRetries
    /\ pcs' = [pcs EXCEPT ![x].left = FullBackoff]
    /\ Resend(Offer(x))
    /\ UNCHANGED << ends, entry, pending, recent, burst, ops, closing >>

-----------------------------------------------------------------------------
(* Answering: handleIncomingOffer *)

\* The credentials the peer has of the other: of its offer, or its answer.
Credentials(p) ==
    LET e == entry[p]
    IN  IF e.offered # Nothing THEN e.offered
        ELSE IF e.conn # Nothing THEN pcs[e.conn].remote ELSE Nothing

\* mutant: every offer on an open channel is of another attempt
RestartedByAny(p, o) == IsOpen(p)

\* The offer of another attempt, on a channel that is open at this end.
RemoteRestarted(p, o) == IsOpen(p) /\ Credentials(p) \notin {Nothing, o}

\* The connection of the entry that the offer is for, if it is of use.
IsUsable(p, o) ==
    LET x == entry[p].conn
    IN  /\ x # Nothing /\ pcs[x].sig # "closed"
        /\ pcs[x].state # "failed" /\ entry[p].state # "dead"
        /\ ~ RemoteRestarted(p, o)

\* An offer of other credentials, on a connection that is not finished.
RemoteStartedOver(p, o) ==
    pcs[entry[p].conn].remote # Nothing /\ Credentials(p) \notin {Nothing, o}

\* Its answer was given: a retry of the same offer.
WasAnswered(p, o) == entry[p].answered /\ Credentials(p) = o

\* An open channel: the answer is sent again.
OfferOnOpenChannel(p, q, o) ==
    /\ IsOpen(p) /\ ~ RemoteRestarted(p, o)
    /\ net' = net \cup (IF entry[p].answered THEN {Answer(entry[p].conn)} ELSE {})
    /\ Done(p, q)
    /\ UNCHANGED << pcs, ends, entry, pending, recent, burst, closing, spent >>

\* A retry, told by its text (recentOfferSdp) or its credentials: the answer
\* is sent again, unless one was sent a moment ago.
RetriedOffer(p, q, o) ==
    /\ ~ IsOpen(p) /\ IsUsable(p, o)
    /\ o = recent[p].offer \/ WasAnswered(p, o)
    /\ \E again \in BOOLEAN :
          IF again /\ entry[p].answered
            THEN /\ net' = net \cup {Answer(entry[p].conn)}
                 /\ burst' = [burst EXCEPT ![p] = [conn |-> entry[p].conn, left |-> MaxBurst]]
            ELSE UNCHANGED << net, burst >>
    /\ Done(p, q)
    /\ UNCHANGED << pcs, ends, entry, pending, recent, closing, spent >>

\* The connection is replaced by a fresh one for this offer; one whose text was
\* seen a moment ago gets no further.
OfferOnFreshConn(p, q, o) ==
    /\ IF IsUsable(p, o) THEN ~ IsOpen(p) /\ RemoteStartedOver(p, o) /\ ~ WasAnswered(p, o)
                       ELSE ~ IsOpen(p) \/ RemoteRestarted(p, o)
    /\ \E y \in Fresh(p), seen \in (IF IsUsable(p, o) \/ o # recent[p].offer THEN {FALSE} ELSE BOOLEAN) :
          /\ pcs' = [Shut(pcs, {entry[p].conn}) EXCEPT ![y] = NewConn]
          /\ ends' = Renamed(ShutEnds(ends, {entry[p].conn} \ {Nothing}), y)
          /\ entry' = [entry EXCEPT ![p] = EntryOf(y)]
          /\ recent' = Forgotten(y)
          /\ IF seen THEN Done(p, q) ELSE Goes(p, q, "remote", y)
    /\ burst' = [burst EXCEPT ![p] = NoBurst]
    /\ pending' = IF RemoteRestarted(p, o) THEN [pending EXCEPT ![p] = NoAnswer] ELSE pending
    /\ UNCHANGED << closing, net, spent >>

\* Glare: the polite peer gives way, and takes its own offer back.
Yields(p, x) == p = Polite /\ pcs[x].sig = "have-local-offer"

OfferOnConn(p, q, o) ==
    LET x == entry[p].conn
    IN  /\ ~ IsOpen(p) /\ IsUsable(p, o)
        /\ ~ WasAnswered(p, o) /\ ~ RemoteStartedOver(p, o)
        /\ IF pcs[x].sig = "stable"
             THEN Goes(p, q, "remote", x) /\ UNCHANGED << pcs, pending >>
           ELSE IF Yields(p, x)
             THEN /\ pcs' = [pcs EXCEPT ![x].left = 0]
                  /\ pending' = [pending EXCEPT ![p] = NoAnswer]
                  /\ Goes(p, q, "yielding", x)
           ELSE Done(p, q) /\ UNCHANGED << pcs, pending >>
        /\ UNCHANGED << ends, entry, recent, burst, closing, net, spent >>

StartOffer(p, q) ==
    /\ IsAt(p, q, "offer", "start")
    /\ LET o == Next1(p, q).arg
       IN  \/ OfferOnOpenChannel(p, q, o)
           \/ RetriedOffer(p, q, o)
           \/ OfferOnFreshConn(p, q, o)
           \/ OfferOnConn(p, q, o)

\* withdrawChannelOfRolledBackOffer
Withdraws(p, x) == entry[p].conn = x /\ entry[p].chan # Nothing /\ ~ IsOpen(p)

\* The remote offer is set.  If this end yields it rolls back first, which fails if
\* there is nothing to roll back any more, and the channel of its own offer goes (a
\* peer of an earlier build leaves it).  A local offer that an operation of the other
\* queue made meanwhile is rolled back by the browser, and its channel stays.
SetRemoteOffer(p, q) ==
    /\ IsAt(p, q, "offer", "remote") \/ IsAt(p, q, "offer", "yielding")
    /\ LET x == Next1(p, q).on
           o == Next1(p, q).arg
           yielding == Next1(p, q).at = "yielding"
       IN  IF pcs[x].sig \in IF yielding THEN {"closed", "stable"} ELSE {"closed"}
             THEN Done(p, q) /\ UNCHANGED << pcs, ends, entry >>
             ELSE /\ pcs' = [pcs EXCEPT ![x].sig = "have-remote-offer", ![x].remote = o]
                  /\ \E withdrawn \in {yielding /\ Withdraws(p, x), FALSE} :
                     /\ ends' = IF withdrawn THEN [ends EXCEPT ![p][entry[p].chan] = "none"]
                                ELSE ends
                     /\ entry' = [entry EXCEPT ![p].chan = IF withdrawn THEN Nothing ELSE @,
                                               ![p].offered = IF entry[p].conn = x THEN o ELSE @]
                  /\ Goes(p, q, "made", x)
    /\ UNCHANGED << pending, recent, burst, closing, net, spent >>

\* The answer is made and sent, and sent again in a burst.
MakeAnswer(p, q) ==
    /\ IsAt(p, q, "offer", "made")
    /\ ~ Busy(p, q, Next1(p, q).on)
    /\ Done(p, q)
    /\ LET x == Next1(p, q).on
           o == Next1(p, q).arg
       IN  IF pcs[x].sig # "have-remote-offer"
             THEN UNCHANGED << pcs, entry, recent, burst, net >>
             ELSE /\ pcs' = [pcs EXCEPT ![x].sig = "stable"]
                  /\ entry' = [entry EXCEPT ![p].answered = @ \/ entry[p].conn = x]
                  /\ recent' = [recent EXCEPT ![p].offer = o]
                  /\ IF entry[p].conn # Nothing
                       THEN /\ net' = net \cup {Answer(x)}
                            /\ burst' = [burst EXCEPT ![p] = [conn |-> x, left |-> MaxBurst]]
                       ELSE UNCHANGED << net, burst >>
    /\ UNCHANGED << ends, pending, closing, spent >>

BurstFires(p) ==
    LET x == burst[p].conn
    IN  /\ burst[p].left > 0
        /\ burst' = [burst EXCEPT ![p] = IF @.left = 1 THEN NoBurst
                                         ELSE [conn |-> x, left |-> @.left - 1]]
        /\ IF entry[p].conn = x /\ pcs[x].sig # "closed" /\ pcs[x].state # "connected"
             THEN Resend(Answer(x)) ELSE UNCHANGED << net, spent >>
        /\ UNCHANGED << pcs, ends, entry, pending, recent, ops, closing >>

-----------------------------------------------------------------------------
(* Applying answers: applyIncomingAnswer *)

\* An answer waits for the connection it finds, if that is not ready for it.
ApplyAnswer(p, q) ==
    /\ IsAt(p, q, "answer", "start")
    /\ Done(p, q)
    /\ \E known \in Known(p) :
       LET x == entry[p].conn
           a == Next1(p, q).arg
       IN  IF x = Nothing
             THEN /\ pending' = [pending EXCEPT ![p] = [answer |-> a, for |-> Nothing]]
                  /\ UNCHANGED << pcs, entry, recent >>
           ELSE IF a \in {known, entry[p].applied}
             THEN UNCHANGED << pcs, entry, recent, pending >>
           ELSE IF pcs[x].sig # "have-local-offer"
             THEN /\ pending' = IF IsOpen(p) THEN pending
                                ELSE [pending EXCEPT ![p] = [answer |-> a, for |-> x]]
                  /\ UNCHANGED << pcs, entry, recent >>
           ELSE /\ ~ Busy(p, q, x)
                /\ pcs' = [pcs EXCEPT ![x].sig = "stable", ![x].remote = a, ![x].left = 0]
                /\ entry' = [entry EXCEPT ![p].applied = a]
                /\ recent' = [recent EXCEPT ![p].answer = a]
                /\ pending' = [pending EXCEPT ![p] = NoAnswer]
    /\ UNCHANGED << ends, burst, closing, net, spent >>

-----------------------------------------------------------------------------
(* Closing an edge: closePeerConnection *)

\* The queue is deleted, although what is in it goes on.  (Of two such queues the
\* later follows the earlier.)
Detached(running) ==
    [q \in Queues |-> IF q = "queue" THEN << >> ELSE running["detached"] \o running["queue"]]

\* mutant: the transport stays when the edge goes
ForgetEdgeOnly(p, flush) ==
    /\ entry' = [entry EXCEPT ![p] = NoEntry]
    /\ pending' = [pending EXCEPT ![p] = NoAnswer]
    /\ burst' = [burst EXCEPT ![p] = NoBurst]
    /\ ops' = [ops EXCEPT ![p] = Detached(@)]
    /\ UNCHANGED << pcs, ends, closing >>

\* The entry goes with all that waits for it.  The connection is closed at once, or
\* when the bye on the channel is out.
ForgetEdge(p, flush) ==
    LET x == entry[p].conn
    IN  /\ entry' = [entry EXCEPT ![p] = NoEntry]
        /\ pending' = [pending EXCEPT ![p] = NoAnswer]
        /\ burst' = [burst EXCEPT ![p] = NoBurst]
        /\ ops' = [ops EXCEPT ![p] = Detached(@)]
        /\ IF flush
             THEN /\ closing' = closing \cup {x}
                  /\ pcs' = [pcs EXCEPT ![x].left = 0]
                  /\ UNCHANGED ends
             ELSE /\ pcs' = Shut(pcs, {x})
                  /\ ends' = ShutEnds(ends, {x})
                  /\ UNCHANGED closing

HangUp(p) ==
    /\ entry[p].conn # Nothing
    /\ Room
    /\ spent' = [spent EXCEPT !.byes = @ + 1]
    /\ ForgetEdge(p, IsOpen(p))
    /\ net' = net \cup {[type |-> "bye", to |-> Other(p)]}
                  \cup (IF IsOpen(p) THEN {[type |-> "channel-bye", to |-> Other(p),
                                            conn |-> pcs[entry[p].conn].remote]} ELSE {})
    /\ UNCHANGED recent

FlushOver(x) ==
    /\ x \in closing
    /\ closing' = closing \ {x}
    /\ pcs' = Shut(pcs, {x})
    /\ ends' = ShutEnds(ends, {x})
    /\ UNCHANGED << entry, pending, recent, burst, ops, net, spent >>

-----------------------------------------------------------------------------
(* Frames: handleSignalingMessage, and the bye on a channel *)

Touched(p) ==
    [entry EXCEPT ![p].state = IF entry[p].conn # Nothing /\ @ # "connected" THEN "connecting" ELSE @]

Receive(f) ==
    /\ f \in net
    /\ net' = net \ {f}
    /\ LET p == f.to
       IN  CASE f.type \in {"offer", "answer"} ->
                  /\ Len(ops[p]["queue"]) < MaxQueue
                  /\ ops' = Enqueued(p, f.type, f.conn)
                  /\ entry' = Touched(p)
                  /\ UNCHANGED << pcs, ends, pending, burst, closing >>
             [] f.type = "bye" /\ entry[p].conn # Nothing -> ForgetEdge(p, FALSE)
             [] f.type = "channel-bye" /\ entry[p].conn = f.conn -> ForgetEdge(p, FALSE)
             [] OTHER -> UNCHANGED << pcs, ends, entry, pending, burst, ops, closing >>
    /\ UNCHANGED << recent, spent >>

\* A frame that is too old for the relay, or lost with it.
Lose(f) ==
    /\ f \in net
    /\ Room
    /\ spent' = [spent EXCEPT !.losses = @ + 1]
    /\ net' = net \ {f}
    /\ UNCHANGED << pcs, ends, entry, pending, recent, burst, ops, closing >>

-----------------------------------------------------------------------------
(* The transport, and its events: createPeerConnection *)

\* Two connections with each other's descriptions connect; the channels made
\* before open, and one that is no longer its entry's is closed (onopen).
Connects(x, y) ==
    /\ Owner(x) = Impolite /\ Owner(y) = Polite
    /\ Matched(x, y)
    /\ pcs[x].state = "new" /\ pcs[y].state = "new"
    /\ pcs' = [pcs EXCEPT ![x].state = "connected", ![y].state = "connected"]
    /\ LET mine(p) == IF p = Impolite THEN x ELSE y
           after(p) == IF entry[p].conn = mine(p) /\ entry[p].chan = mine(p)
                         THEN "open" ELSE "closed"
       IN  /\ ends' = [p \in Peer |-> [ends[p] EXCEPT ![mine(p)] =
                          IF @ = "connecting" THEN after(p) ELSE @]]
           /\ entry' = [p \in Peer |-> IF entry[p].conn = mine(p)
                          THEN [entry[p] EXCEPT !.state = "connected"] ELSE entry[p]]
    /\ burst' = [p \in Peer |-> IF entry[p].conn \in {x, y}
                                  THEN NoBurst ELSE burst[p]]
    /\ UNCHANGED << pending, recent, ops, closing, net, spent >>

\* Of two channels of one connection the impolite peer's stays.
KeepsLocal(p, c) ==
    /\ p = Impolite
    /\ entry[p].chan \notin {Nothing, c} /\ ends[p][entry[p].chan] \in {"connecting", "open"}

\* ondatachannel of connection y: the channel that c made arrives at its other
\* end, perhaps after it was closed where it was made.
ChannelArrives(p, c) ==
    LET e == entry[p]
    IN  /\ Owner(c) = Other(p) /\ ends[p][c] = "none"
        /\ ends[Other(p)][c] \in {"open", "closed"}
        /\ \E y \in Conn :
              /\ Owner(y) = p /\ pcs[y].state = "connected" /\ pcs[y].remote = c
              /\ IF e.conn # y \/ KeepsLocal(p, c)
                   THEN ends' = [ends EXCEPT ![p][c] = "closed"] /\ UNCHANGED entry
                   ELSE /\ ends' = IF e.chan = Nothing THEN [ends EXCEPT ![p][c] = "open"]
                                   ELSE [ends EXCEPT ![p][c] = "open", ![p][e.chan] = "closed"]
                        /\ entry' = [entry EXCEPT ![p].chan = c]
        /\ UNCHANGED << pcs, pending, recent, burst, ops, closing, net, spent >>

\* onclose: the other end of the channel was closed.
ChannelGone(p, c) ==
    /\ ends[p][c] = "open" /\ ends[Other(p)][c] = "closed"
    /\ ends' = [ends EXCEPT ![p][c] = "closed"]
    /\ entry' = [entry EXCEPT ![p].chan = IF @ = c THEN Nothing ELSE @]
    /\ UNCHANGED << pcs, pending, recent, burst, ops, closing, net, spent >>

\* The other side of connection x cannot answer its checks, or not any more.
Hopeless(x) ==
    LET y == pcs[x].remote
    IN  /\ pcs[x].sig = "stable" /\ y # Nothing
        /\ \/ pcs[y].sig = "closed" \/ pcs[y].state = "failed"
           \/ pcs[y].remote # x /\ pcs[y].sig \in {"stable", "have-remote-offer"}

\* onconnectionstatechange: connection x fails, and its entry is dead.
TransportFails(x) ==
    /\ pcs[x].sig # "closed" /\ pcs[x].state # "failed"
    /\ \/ Hopeless(x) /\ UNCHANGED spent
       \/ /\ ~ Hopeless(x) /\ pcs[x].state = "connected"
          /\ Room
          /\ spent' = [spent EXCEPT !.breaks = @ + 1]
    /\ pcs' = [pcs EXCEPT ![x].state = "failed"]
    /\ entry' = [entry EXCEPT ![Owner(x)].state = IF entry[Owner(x)].conn = x THEN "dead" ELSE @]
    /\ UNCHANGED << ends, pending, recent, burst, ops, closing, net >>

\* closeBrokenChannel: the keepalive finds the transport failed, or hears
\* nothing from the other end any more.
KeepaliveCloses(p) ==
    LET e == entry[p]
    IN  /\ IsOpen(p)
        /\ pcs[e.conn].state = "failed" \/ ends[Other(p)][e.chan] = "closed"
        /\ pcs' = Shut(pcs, {e.conn})
        /\ ends' = [ShutEnds(ends, {e.conn}) EXCEPT ![p][e.chan] = "closed"]
        /\ entry' = [entry EXCEPT ![p].state = "dead"]
        /\ UNCHANGED << pending, recent, burst, ops, closing, net, spent >>

-----------------------------------------------------------------------------
Operate(p, q) ==
    \/ StartDial(p, q)
    \/ FinishDial(p, q)
    \/ StartOffer(p, q)
    \/ SetRemoteOffer(p, q)
    \/ MakeAnswer(p, q)
    \/ ApplyAnswer(p, q)

NegotiationNext ==
    \/ \E p \in Peer :
          \/ Dial(p)
          \/ \E q \in Queues : Operate(p, q)
          \/ BurstFires(p)
          \/ HangUp(p)
          \/ KeepaliveCloses(p)
          \/ \E c \in Conn : ChannelArrives(p, c) \/ ChannelGone(p, c)
    \/ \E x \in Conn : RetryFires(x) \/ ResetBackoff(x) \/ FlushOver(x) \/ TransportFails(x)
    \/ \E x, y \in Conn : Connects(x, y)
    \/ \E f \in net : Receive(f) \/ Lose(f)

\* What is queued runs, frames arrive, timers fire, and the browser reports
\* what becomes of a transport.  Nothing makes hosts dial or hang up.
NegotiationFairness ==
    /\ \A p \in Peer :
          /\ \A q \in Queues : WF_negotiationVars(Operate(p, q))
          /\ WF_negotiationVars(KeepaliveCloses(p))
          /\ \A c \in Conn : WF_negotiationVars(ChannelArrives(p, c)) /\ WF_negotiationVars(ChannelGone(p, c))
    /\ \A x \in Conn :
          /\ WF_negotiationVars(RetryFires(x)) /\ WF_negotiationVars(FlushOver(x))
          /\ WF_negotiationVars(Hopeless(x) /\ TransportFails(x))
          /\ \A y \in Conn : WF_negotiationVars(Connects(x, y))
    /\ \A f \in Frame : WF_negotiationVars(Receive(f))

-----------------------------------------------------------------------------
(* Properties *)

\* Connections x and y are connected with each other.
Paired(x, y) ==
    /\ pcs[x].state = "connected" /\ pcs[x].remote = y
    /\ pcs[y].state = "connected" /\ pcs[y].remote = x

\* The peers hold both ends of one channel, of connections that are paired.
Linked ==
    \E x, y \in Conn :
       /\ Paired(x, y)
       /\ entry[Impolite].conn = x /\ entry[Polite].conn = y
       /\ IsOpen(Impolite) /\ IsOpen(Polite)
       /\ entry[Impolite].chan = entry[Polite].chan

\* No transport outlives its entry: whatever is closed, replaced or rolled back
\* while operations of two queues run, each connection that is not closed is
\* the one of the entry, or will be closed when its bye is out.
NoLeakedConn ==
    \A x \in Conn : pcs[x].sig # "closed" => x \in closing \/ entry[Owner(x)].conn = x

\* However the two channels of a glare open and arrive, the peers never close
\* both: one is open where it was made and not closed at the other end, and once
\* every channel has arrived the peers hold the same.
GlareLeavesOneChannel ==
    \A x, y \in Conn :
       Paired(x, y) /\ entry[Impolite].conn = x /\ entry[Polite].conn = y =>
          /\ \E c \in {x, y} : ends[Owner(c)][c] = "open" /\ ends[Other(Owner(c))][c] # "closed"
          /\ (\A c \in {x, y} : ends[Impolite][c] = "open" <=> ends[Polite][c] = "open")
                => entry[Impolite].chan = entry[Polite].chan

\* A link is not torn down by what is left of the negotiation that made it, nor
\* by a dial: no retried offer, late answer, second channel or timer closes it.
\* Only a bye, a transport that fails, or an offer of other credentials does.
LinkIsKept ==
    [][Linked =>
          \/ Linked'
          \/ spent'.byes # spent.byes \/ spent'.breaks # spent.breaks
          \/ \E f \in net \ net' : f.type \in {"bye", "channel-bye"}
          \/ \E p \in Peer, q \in Queues :
                /\ IsAt(p, q, "offer", "start") /\ ops'[p][q] # ops[p][q]
                /\ Credentials(p) # Next1(p, q).arg]_negotiationVars

\* A dial is not refused for ever: a connection that keeps it back becomes a
\* link, or fails, or is replaced.
NotRefusedForEver == \A p \in Peer : InProgress(p) ~> (~ InProgress(p) \/ Linked)
=============================================================================
