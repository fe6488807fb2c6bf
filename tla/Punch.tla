-------------------------------- MODULE Punch --------------------------------
(***************************************************************************)
(* Hole punching (src/src/punch): one introduction through the mailboxes   *)
(* of a rendezvous (rendezvous.js, transport.js: dialPunched against       *)
(* listenForPunches), and offers answered in one request (offer.js).       *)
(*                                                                         *)
(* Each POST takes its own time, so a side's messages overtake each other. *)
(* WebRTC opens the channel once both sides have the other's description   *)
(* and a candidate.                                                        *)
(***************************************************************************)
EXTENDS Integers, Sequences, FiniteSets

CONSTANTS
    Candidates,     \* ICE candidates of a side
    MaxBox,         \* MAX_MESSAGES_PER_MAILBOX
    MaxMisses,      \* bound on messages that expire, posts and polls that fail
    Offers,         \* requests to /api/v1/punch/offer
    MaxPending      \* MAX_PENDING

VARIABLES
    side,           \* the dialer's and the listener's ends
    posts,          \* posts under way, of each side
    box,            \* the rendezvous' mailboxes, of each side
    dial,           \* what has become of dialPunched()
    misses,         \* what has been lost so far
    offer,          \* where each offer's handler stands
    settled,        \* offers whose channel has opened, or that were given up
    pending         \* the handlers' counter

rendezvousVars == << side, posts, box, dial, misses >>
offerVars == << offer, settled, pending >>
punchVars == << rendezvousVars, offerVars >>

Sides == {"dialer", "listener"}
Other(s) == IF s = "dialer" THEN "listener" ELSE "dialer"
Description == "description"
Signals == {Description} \cup Candidates

\* A side gathers a candidate, and a mailbox holds a message.
ASSUME PunchAssumption ==
    /\ MaxBox \in Nat \ {0} /\ MaxMisses \in Nat /\ MaxPending \in Nat
    /\ Candidates # {} /\ Description \notin Candidates
    /\ IsFiniteSet(Offers)

\* dropped is kept for the properties: the candidates that came before the offer of
\* their session.
NoEnd == [pc |-> "none", described |-> FALSE, held |-> {}, applied |-> {}, dropped |-> {},
          batch |-> << >>, open |-> FALSE]

PunchTypeOK ==
    /\ side \in [Sides -> [pc : {"none", "open", "closed"}, described : BOOLEAN,
                           held : SUBSET Candidates, applied : SUBSET Candidates,
                           dropped : SUBSET Candidates, batch : Seq(Signals), open : BOOLEAN]]
    /\ posts \in [Sides -> SUBSET Signals]
    /\ box \in [Sides -> Seq(Signals)] /\ \A s \in Sides : Len(box[s]) <= MaxBox
    /\ dial \in {"idle", "offering", "waiting", "open", "failed"}
    /\ misses \in Nat
    /\ offer \in [Offers -> {"none", "reading", "answering", "answered", "over"}]
    /\ settled \subseteq Offers
    /\ pending \in 0 .. Cardinality(Offers)

PunchInit ==
    /\ side = [s \in Sides |-> NoEnd]
    /\ posts = [s \in Sides |-> {}]
    /\ box = [s \in Sides |-> << >>]
    /\ dial = "idle"
    /\ misses = 0
    /\ offer = [o \in Offers |-> "none"]
    /\ settled = {}
    /\ pending = 0

-----------------------------------------------------------------------------
(* The rendezvous *)

\* dialPunched: the offer and, as they are gathered, the candidates are posted.
DialPunched ==
    /\ dial = "idle"
    /\ dial' = "offering"
    /\ side' = [side EXCEPT !["dialer"].pc = "open"]
    /\ posts' = [posts EXCEPT !["dialer"] = Signals]
    /\ UNCHANGED << box, misses, offerVars >>

\* push: the oldest message makes room.
Pushed(b, m) == Append(IF Len(b) >= MaxBox THEN Tail(b) ELSE b, m)

\* The dialer polls once its offer is there.
PostArrives(s, m) ==
    /\ m \in posts[s]
    /\ posts' = [posts EXCEPT ![s] = @ \ {m}]
    /\ box' = [box EXCEPT ![Other(s)] = Pushed(@, m)]
    /\ misses' = IF Len(box[Other(s)]) >= MaxBox THEN misses + 1 ELSE misses
    /\ dial' = IF s = "dialer" /\ m = Description /\ dial = "offering" THEN "waiting" ELSE dial
    /\ UNCHANGED << side, offerVars >>

Miss == misses < MaxMisses /\ misses' = misses + 1

\* A post fails.  Without its offer the dial has failed too.
PostFails(s, m) ==
    /\ Miss
    /\ m \in posts[s]
    /\ posts' = [posts EXCEPT ![s] = @ \ {m}]
    /\ dial' = IF s = "dialer" /\ m = Description /\ dial = "offering" THEN "failed" ELSE dial
    /\ UNCHANGED << side, box, offerVars >>

\* MESSAGE_TTL_MS
Expires(s) ==
    /\ Miss
    /\ box[s] # << >>
    /\ box' = [box EXCEPT ![s] = Tail(@)]
    /\ UNCHANGED << side, posts, dial, offerVars >>

\* A side asks again only when it has dealt with what it got; the listener's
\* answer has to be posted before it goes on.
Polls(s) ==
    /\ side[s].batch = << >>
    /\ IF s = "dialer" THEN dial = "waiting" ELSE Description \notin posts[s]

\* take: the whole mailbox, which is empty then.
PollAnswered(s) ==
    /\ Polls(s) /\ box[s] # << >>
    /\ side' = [side EXCEPT ![s].batch = box[s]]
    /\ box' = [box EXCEPT ![s] = << >>]
    /\ UNCHANGED << posts, dial, misses, offerVars >>

\* The answer with what was taken is lost.
PollLost(s) ==
    /\ Miss
    /\ Polls(s) /\ box[s] # << >>
    /\ box' = [box EXCEPT ![s] = << >>]
    /\ UNCHANGED << side, posts, dial, offerVars >>

\* mutant: candidates that came before the description are forgotten
ApplySignalUnheld(e, m) ==
    IF m = Description THEN [e EXCEPT !.described = TRUE, !.held = {}]
    ELSE IF e.described THEN [e EXCEPT !.applied = @ \cup {m}]
    ELSE [e EXCEPT !.held = @ \cup {m}]

\* applySignal
ApplySignal(e, m) ==
    IF m = Description THEN [e EXCEPT !.described = TRUE, !.applied = @ \cup e.held, !.held = {}]
    ELSE IF e.described THEN [e EXCEPT !.applied = @ \cup {m}]
    ELSE [e EXCEPT !.held = @ \cup {m}]

Rest(s) == [side[s] EXCEPT !.batch = Tail(@)]

DialerTakes ==
    /\ side["dialer"].batch # << >>
    /\ side' = [side EXCEPT !["dialer"] = ApplySignal(Rest("dialer"), Head(side["dialer"].batch))]
    /\ UNCHANGED << posts, box, dial, misses, offerVars >>

\* The listener knows a session from its offer on, and answers that.  Candidates
\* that come before are dropped.
ListenerTakes ==
    /\ side["listener"].batch # << >>
    /\ Description \notin posts["listener"]
    /\ LET e == side["listener"]
           m == Head(e.batch)
           known == e.pc # "none"
       IN  /\ side' = [side EXCEPT !["listener"] =
                 IF known \/ m = Description
                   THEN ApplySignal([Rest("listener") EXCEPT !.pc = IF known THEN @ ELSE "open"], m)
                   ELSE [Rest("listener") EXCEPT !.dropped = @ \cup {m}]]
           /\ posts' = IF ~ known /\ m = Description
                         THEN [posts EXCEPT !["listener"] = Signals] ELSE posts
    /\ UNCHANGED << box, dial, misses, offerVars >>

Connectable ==
    \A s \in Sides : side[s].pc = "open" /\ side[s].described /\ side[s].applied # {}

\* The channel opens at each side, the other first or later; a dial that was
\* given up hears nothing of it.
ChannelOpens(s) ==
    /\ Connectable /\ ~ side[s].open
    /\ side' = [side EXCEPT ![s].open = TRUE]
    /\ dial' = IF s = "dialer" /\ dial = "waiting" THEN "open" ELSE dial
    /\ UNCHANGED << posts, box, misses, offerVars >>

\* DIAL_TIMEOUT_MS: the polling stops; the connection is left as it is.
DialTimeout ==
    /\ dial \in {"offering", "waiting"}
    /\ dial' = "failed"
    /\ UNCHANGED << side, posts, box, misses, offerVars >>

\* stop(): the listener closes the connections it has made.
StopListening ==
    /\ Miss
    /\ side["listener"].pc = "open"
    /\ side' = [side EXCEPT !["listener"].pc = "closed", !["listener"].batch = << >>]
    /\ UNCHANGED << posts, box, dial, offerVars >>

-----------------------------------------------------------------------------
(* Offers in one request *)

\* There is room when the request comes; its body is still to be read.
OfferArrives(o) ==
    /\ offer[o] = "none" /\ pending < MaxPending
    /\ offer' = [offer EXCEPT ![o] = "reading"]
    /\ UNCHANGED << settled, pending, rendezvousVars >>

\* Too large, or no offer in it.
OfferRefused(o) ==
    /\ offer[o] = "reading"
    /\ offer' = [offer EXCEPT ![o] = "over"]
    /\ UNCHANGED << settled, pending, rendezvousVars >>

OfferRead(o) ==
    /\ offer[o] = "reading"
    /\ offer' = [offer EXCEPT ![o] = "answering"]
    /\ pending' = pending + 1
    /\ UNCHANGED << settled, rendezvousVars >>

\* release
Release(o) ==
    /\ settled' = settled \cup {o}
    /\ pending' = IF o \in settled THEN pending ELSE pending - 1

\* No answer can be made: the offer is bad, or its connection was closed.
OfferBad(o) ==
    /\ offer[o] = "answering"
    /\ offer' = [offer EXCEPT ![o] = "over"]
    /\ Release(o)
    /\ UNCHANGED rendezvousVars

OfferAnswered(o) ==
    /\ offer[o] = "answering" /\ o \notin settled
    /\ offer' = [offer EXCEPT ![o] = "answered"]
    /\ UNCHANGED << settled, pending, rendezvousVars >>

\* openTimeoutMs: the connection is closed.
GiveUp(o) ==
    /\ offer[o] \in {"answering", "answered"} /\ o \notin settled
    /\ offer' = [offer EXCEPT ![o] = IF @ = "answered" THEN "over" ELSE @]
    /\ Release(o)
    /\ UNCHANGED rendezvousVars

\* ondatachannel, ready: the channel is given to the relay.
OfferOpens(o) ==
    /\ offer[o] = "answered"
    /\ offer' = [offer EXCEPT ![o] = "over"]
    /\ Release(o)
    /\ UNCHANGED rendezvousVars

-----------------------------------------------------------------------------
RendezvousNext ==
    \/ DialPunched \/ DialerTakes \/ ListenerTakes \/ DialTimeout \/ StopListening
    \/ \E s \in Sides : \/ Expires(s) \/ PollAnswered(s) \/ PollLost(s) \/ ChannelOpens(s)
                        \/ \E m \in Signals : PostArrives(s, m) \/ PostFails(s, m)

OffersNext ==
    \E o \in Offers : \/ OfferArrives(o) \/ OfferRefused(o) \/ OfferRead(o) \/ OfferBad(o)
                      \/ OfferAnswered(o) \/ GiveUp(o) \/ OfferOpens(o)

PunchNext == RendezvousNext \/ OffersNext

PunchSpec == PunchInit /\ [][PunchNext]_punchVars

-----------------------------------------------------------------------------
(* Properties *)

\* Every message of both sides has been dealt with, and none was lost.
AllDealtWith ==
    /\ misses = 0 /\ dial = "waiting"
    /\ \A s \in Sides : posts[s] = {} /\ box[s] = << >> /\ side[s].batch = << >>

\* Whatever order the messages of the two sides take: once all have been dealt with
\* and none was lost, both sides have the other's description, the dialer has applied
\* every candidate of the listener's, those that overtook the answer included
\* (applySignal keeps them), and the listener every one that did not overtake the
\* offer.  One that did is gone: the listener knows no session yet to keep it in.
CandidatesAreUsed ==
    AllDealtWith =>
       /\ \A s \in Sides : side[s].pc = "open" /\ side[s].described
       /\ side["dialer"].applied = Candidates
       /\ side["listener"].applied \cup side["listener"].dropped = Candidates

\* The counter of pending offers counts those that are being answered or whose
\* channel may still open: an offer that was given up, failed or opened, in any
\* order, does not take a place any more, and none is given back twice.
PendingComesBack ==
    pending = Cardinality({o \in Offers : offer[o] \in {"answering", "answered"} /\ o \notin settled})

\* No candidate is forgotten at the side that dials, nor at the listener once it has
\* the offer, and the bound on pending offers counts what is pending.
PunchingIsSound == PunchTypeOK /\ CandidatesAreUsed /\ PendingComesBack
=============================================================================
