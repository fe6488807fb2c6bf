------------------------------ MODULE RelayLinks ------------------------------
(***************************************************************************)
(* Links between two local relays (src/src/node/relay-links.js): the one   *)
(* with the lower node id dials, both prove who they are, agree on keys,   *)
(* and then send each other numbered, sealed requests and answers          *)
(* (link-crypto.js).  Signing, verifying, encrypting and decrypting take   *)
(* time, and frames arrive meanwhile.                                      *)
(*                                                                         *)
(* Both relays are honest and have post-quantum keys.  A frame is held by  *)
(* its type and number.  Two links of Links may be made at once.           *)
(***************************************************************************)
EXTENDS Integers, Sequences

CONSTANTS
    Links,          \* connections between the two relays
    MaxEarly,       \* how many sealed frames are held until the channel exists
    MaxLinkRequests,\* bound on the requests over the links
    MaxTimeouts     \* bound on the handshakes given up

ASSUME RelayLinksAssumption == {MaxEarly, MaxLinkRequests, MaxTimeouts} \subseteq Nat

VARIABLES
    ends,       \* both ends of each link
    wire,       \* frames on their way to each end
    linked,     \* links: each relay's link to the other
    spent       \* requests made and handshakes given up so far

linkVars == << ends, wire, linked, spent >>

Ends == {"low", "high"}
Far(e) == IF e = "low" THEN "high" ELSE "low"

NoLink == "none"

FreshEnd ==
    [attached |-> FALSE,        \* attach() has run
     closing |-> FALSE,         \* link.close()
     closed |-> FALSE,          \* the close event has run
     peer |-> FALSE,            \* peerNodeId
     answered |-> FALSE,        \* the challenge was answered
     hello |-> "none",          \* the hello of the other end: being verified, verified
     signing |-> FALSE,         \* our hello is being signed
     encrypting |-> FALSE,      \* our key is being encrypted
     keyFrame |-> FALSE,        \* peerKeyFrame
     finishing |-> 0,           \* runs of finishSecureOnce() that are decrypting
     finished |-> FALSE,        \* finishing is set
     channel |-> FALSE,
     sent |-> 0, received |-> 0,
     early |-> << >>,           \* earlySealed
     pending |-> 0,             \* requests without an answer
     bad |-> FALSE]             \* a frame did not open

LinksTypeOK ==
    /\ \A l \in Links, e \in Ends :
          LET x == ends[l][e]
          IN  /\ x.hello \in {"none", "verifying", "verified"}
              /\ x.finishing \in 0 .. 1
              /\ x.pending \in 0 .. spent.requests
              /\ Len(x.early) <= MaxEarly
              \* an end that is linked has a channel, and one that closed has nothing to wait for
              /\ x.peer => x.channel /\ x.attached
              /\ x.closed => x.pending = 0
              /\ x.early # << >> => ~ x.channel
    /\ linked \in [Ends -> Links \cup {NoLink}]

LinksInit ==
    /\ ends = [l \in Links |-> [e \in Ends |-> FreshEnd]]
    /\ wire = [l \in Links |-> [e \in Ends |-> << >>]]
    /\ linked = [e \in Ends |-> NoLink]
    /\ spent = [requests |-> 0, timeouts |-> 0]

-----------------------------------------------------------------------------
LinkOpen(l, e) == ends[l][e].peer /\ ~ ends[l][e].closed

\* A frame, unless our side of the connection is closed.
Sends(l, e, f) ==
    IF ends[l][e].closing \/ ends[l][e].closed THEN wire
    ELSE [wire EXCEPT ![l][Far(e)] = Append(@, f)]

\* mutant: a second link to the same relay is kept too
MayLinkAlways(e) == TRUE

\* Whether there is no open link to that relay yet.
MayLink(e) == \A l \in Links : linked[e] = l => ~ LinkOpen(l, e)

\* maintain, lanSeen: only the lower relay dials, and not while it is linked; but
\* a sighting on the LAN dials while an earlier dial is still being made, and so
\* does the next round.  The other end may attach before or after it.
DialLink(l) ==
    /\ MayLink("low")
    /\ ~ ends[l]["low"].attached /\ ~ ends[l]["high"].attached
    /\ \E e \in Ends : ends' = [ends EXCEPT ![l][e].attached = TRUE]
    /\ UNCHANGED << wire, linked, spent >>

Attach(l, e) ==
    /\ ~ ends[l][e].attached /\ ends[l][Far(e)].attached
    /\ ends' = [ends EXCEPT ![l][e].attached = TRUE]
    /\ UNCHANGED << wire, linked, spent >>

\* The challenge, sent on attaching and again until the other end is known.
Challenge(l, e) ==
    /\ ends[l][e].attached /\ ~ ends[l][e].peer /\ ~ ends[l][e].closed /\ ~ ends[l][e].closing
    /\ \A i \in DOMAIN wire[l][Far(e)] : wire[l][Far(e)][i].t # "challenge"
    /\ wire' = Sends(l, e, [t |-> "challenge"])
    /\ UNCHANGED << ends, linked, spent >>

\* finishSecure
Finishes(x) ==
    IF ~ x.channel /\ x.hello = "verified" /\ x.keyFrame /\ ~ x.finished
    THEN [x EXCEPT !.finishing = @ + 1, !.finished = TRUE] ELSE x

\* openSealed: a frame is refused that is not the next one.
Opens(x, n) ==
    IF n = x.received + 1 THEN [x EXCEPT !.received = n] ELSE [x EXCEPT !.bad = TRUE, !.closing = TRUE]

\* handleFrame: a request is answered; an answer settles its request.
Handled(x, f) ==
    IF f.t = "res" THEN [x EXCEPT !.pending = IF @ > 0 THEN @ - 1 ELSE 0] ELSE x

\* A sealed frame that the channel opens.
TakeSealed(x, f) ==
    LET y == Handled(Opens(x, f.n), f)
        answers == f.t = "req" /\ ~ y.bad /\ ~ x.closing /\ ~ x.closed
    IN  [end |-> IF answers THEN [y EXCEPT !.sent = @ + 1] ELSE y,
         out |-> IF answers THEN << [t |-> "res", n |-> y.sent + 1] >> ELSE << >>]

\* A frame arrives; before the end has attached, nobody hears it.
Deliver(l, e) ==
    /\ wire[l][e] # << >>
    /\ LET x == ends[l][e]
           f == Head(wire[l][e])
           rest == [wire EXCEPT ![l][e] = Tail(@)]
       IN  IF ~ x.attached \/ x.closed
           THEN wire' = rest /\ UNCHANGED ends
           ELSE \/ /\ f.t = "challenge"
                   /\ wire' = rest
                   /\ ends' = IF x.answered THEN ends
                              ELSE [ends EXCEPT ![l][e].answered = TRUE, ![l][e].signing = TRUE]
                \/ /\ f.t = "hello"
                   /\ wire' = rest
                   /\ ends' = IF x.peer THEN ends ELSE [ends EXCEPT ![l][e].hello = "verifying"]
                \/ /\ f.t = "key"
                   /\ wire' = rest
                   /\ ends' = IF x.channel \/ x.keyFrame THEN ends
                              ELSE [ends EXCEPT ![l][e] = Finishes([@ EXCEPT !.keyFrame = TRUE])]
                \/ /\ f.t \in {"req", "res"} /\ ~ x.channel
                   /\ wire' = rest
                   /\ ends' = IF Len(x.early) < MaxEarly
                              THEN [ends EXCEPT ![l][e].early = Append(@, f)] ELSE ends
                \/ /\ f.t \in {"req", "res"} /\ x.channel
                   /\ LET r == TakeSealed(x, f)
                      IN  /\ ends' = [ends EXCEPT ![l][e] = r.end]
                          /\ wire' = [rest EXCEPT ![l][Far(e)] = @ \o r.out]
    /\ UNCHANGED << linked, spent >>

\* Our hello is signed.
SendHello(l, e) ==
    /\ ends[l][e].signing
    /\ ends' = [ends EXCEPT ![l][e].signing = FALSE]
    /\ wire' = Sends(l, e, [t |-> "hello"])
    /\ UNCHANGED << linked, spent >>

\* The other end's hello is right: our key is encrypted for it.
HelloVerified(l, e) ==
    /\ ends[l][e].hello = "verifying"
    /\ ends' = [ends EXCEPT ![l][e].hello = "verified", ![l][e].encrypting = TRUE]
    /\ UNCHANGED << wire, linked, spent >>

SendKey(l, e) ==
    /\ ends[l][e].encrypting
    /\ wire' = Sends(l, e, [t |-> "key"])
    /\ ends' = [ends EXCEPT ![l][e] = Finishes([@ EXCEPT !.encrypting = FALSE])]
    /\ UNCHANGED << linked, spent >>

\* The frames that came before the channel, in order.
HeldFrames(x) == x.early

\* They are opened one after the other.
TakeHeld(x, held) ==
    LET Taken[i \in 0 .. Len(held)] ==
           IF i = 0 THEN [end |-> x, out |-> << >>]
           ELSE LET r == TakeSealed(Taken[i - 1].end, held[i])
                IN  [end |-> r.end, out |-> Taken[i - 1].out \o r.out]
    IN  Taken[Len(held)]

\* finishSecureOnce: the channel is made, the link opened, and what came early.
FinishSecure(l, e) ==
    /\ ends[l][e].finishing > 0
    /\ LET x == [ends[l][e] EXCEPT !.finishing = @ - 1, !.channel = TRUE,
                                   !.sent = 0, !.received = 0, !.early = << >>]
           y == IF x.peer \/ x.closed THEN x
                ELSE IF MayLink(e) THEN [x EXCEPT !.peer = TRUE] ELSE [x EXCEPT !.closing = TRUE]
           all == TakeHeld(y, HeldFrames(ends[l][e]))
       IN  /\ ends' = [ends EXCEPT ![l][e] = all.end]
           /\ linked' = IF y.peer /\ ~ x.peer THEN [linked EXCEPT ![e] = l] ELSE linked
           /\ wire' = [wire EXCEPT ![l][Far(e)] = @ \o all.out]
    /\ UNCHANGED spent

\* A request over an open link.
RequestOver(l, e) ==
    /\ LinkOpen(l, e) /\ ~ ends[l][e].closing /\ spent.requests < MaxLinkRequests
    /\ spent' = [spent EXCEPT !.requests = @ + 1]
    /\ ends' = [ends EXCEPT ![l][e].pending = @ + 1, ![l][e].sent = @ + 1]
    /\ wire' = Sends(l, e, [t |-> "req", n |-> ends[l][e].sent + 1])
    /\ UNCHANGED linked

\* HELLO_TIMEOUT_MS
HelloTimeout(l, e) ==
    /\ ends[l][e].attached /\ ~ ends[l][e].peer /\ ~ ends[l][e].closing /\ ~ ends[l][e].closed
    /\ spent.timeouts < MaxTimeouts
    /\ spent' = [spent EXCEPT !.timeouts = @ + 1]
    /\ ends' = [ends EXCEPT ![l][e].closing = TRUE]
    /\ UNCHANGED << wire, linked >>

\* The close event: one of the ends has closed the link, and what the other had
\* sent has arrived or not.  Requests in flight are answered 502.
CloseEventOf(l, e) ==
    /\ ends[l][e].attached /\ ~ ends[l][e].closed
    /\ \/ ends[l][e].closing
       \/ ends[l][Far(e)].closing /\ wire[l][e] = << >>
       \/ ends[l][Far(e)].closed
    /\ ends' = [ends EXCEPT ![l][e].closed = TRUE, ![l][e].closing = TRUE, ![l][e].pending = 0,
                            ![l][e].early = << >>]
    /\ linked' = IF linked[e] = l THEN [linked EXCEPT ![e] = NoLink] ELSE linked
    /\ wire' = [wire EXCEPT ![l][e] = << >>]
    /\ UNCHANGED spent

-----------------------------------------------------------------------------
LinksNext ==
    \E l \in Links :
       \/ DialLink(l)
       \/ \E e \in Ends :
             \/ Attach(l, e) \/ Challenge(l, e) \/ Deliver(l, e)
             \/ SendHello(l, e) \/ HelloVerified(l, e) \/ SendKey(l, e) \/ FinishSecure(l, e)
             \/ RequestOver(l, e) \/ HelloTimeout(l, e) \/ CloseEventOf(l, e)

LinksSpec == LinksInit /\ [][LinksNext]_linkVars

-----------------------------------------------------------------------------
(* Properties *)

\* Whichever of hello and key completes the handshake, and however many frames come
\* while the other's key is still being opened, no sealed frame is refused.
SealedFramesOpen == \A l \in Links, e \in Ends : ~ ends[l][e].bad

AtRest(l, e) ==
    LET x == ends[l][e]
    IN  /\ x.attached /\ x.answered /\ ~ x.closing /\ ~ x.closed
        /\ ~ x.signing /\ x.hello # "verifying" /\ ~ x.encrypting /\ x.finishing = 0
        /\ wire[l][e] = << >>

\* A handshake does not stall, and a request is not forgotten: once nothing is on
\* its way, both ends are linked and neither waits for an answer.
NothingStalls ==
    \A l \in Links : (\A e \in Ends : AtRest(l, e)) =>
       \A e \in Ends : ends[l][e].peer /\ ends[l][e].pending = 0

\* A relay has one open link to another, the one in its table.  Of two links made at
\* once the ends may each keep another one; then each closes what the other keeps.
OneLinkAtATime == \A l \in Links, e \in Ends : LinkOpen(l, e) => linked[e] = l

\* A link with nothing of it on its way is in the tables of both ends: no two ends
\* stay on different links, or one on a link that the other has not.
EndsAgree == \A l \in Links : (\A e \in Ends : AtRest(l, e)) => \A e \in Ends : linked[e] = l
=============================================================================
