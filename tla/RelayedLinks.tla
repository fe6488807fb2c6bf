----------------------------- MODULE RelayedLinks ----------------------------
(***************************************************************************)
(* Links through the relay, for a pair of peers whose WebRTC attempts fail *)
(* (client.js, "Relayed links"): an end asks, the other accepts, and each  *)
(* has an object that looks like a data channel.  The relay passes their   *)
(* frames on in order, or loses them.                                      *)
(***************************************************************************)
EXTENDS Integers, Sequences

CONSTANTS
    Dialers,    \* the ends whose host dials
    MaxAsks,    \* RELAYED_LINK_ASKS
    MaxWoes     \* bound on frames lost and links closed by a host

Pair == {"a", "b"}
Mate(e) == IF e = "a" THEN "b" ELSE "a"

ASSUME RelayedLinksAssumption ==
    Dialers \subseteq Pair /\ MaxAsks \in Nat \ {0} /\ MaxWoes \in Nat

VARIABLES
    link,       \* each end's entry in relayedLinks
    asks,       \* how often it has asked for it
    failures,   \* linkFailures
    frames,     \* frames on their way to each end
    woes        \* what has gone wrong so far

relayedVars == << link, asks, failures, frames, woes >>

Actions == {"open", "accept", "data", "close"}
AfterFailures == 2      \* RELAYED_LINK_AFTER_FAILURES

RelayedTypeOK ==
    /\ link \in [Pair -> {"none", "connecting", "open"}]
    /\ asks \in [Pair -> 0 .. MaxAsks]
    /\ failures \in [Pair -> 0 .. AfterFailures]
    /\ frames \in [Pair -> Seq(Actions)]
    /\ woes \in 0 .. MaxWoes
    \* only an end that asks waits for an answer
    /\ \A e \in Pair : link[e] = "connecting" <=> asks[e] > 0

RelayedInit ==
    /\ link = [e \in Pair |-> "none"]
    /\ asks = [e \in Pair |-> 0]
    /\ failures = [e \in Pair |-> 0]
    /\ frames = [e \in Pair |-> << >>]
    /\ woes = 0

-----------------------------------------------------------------------------
\* No frame that asks, accepts or closes is on its way: each takes less than the
\* seconds between two asks and the keepalive's patience.
Quiet == \A e \in Pair : \A i \in DOMAIN frames[e] : frames[e][i] = "data"

\* link.close(): the other end is told, unless it was the one that closed.
Closes(e, told) == IF link[e] # "none" /\ told THEN << "close" >> ELSE << >>

\* sendLinkFrame
SendsFrame(e, out) == frames' = [frames EXCEPT ![Mate(e)] = @ \o out]

\* A WebRTC attempt of the end fails, as all of this pair do.
NoteLinkFailure(e) ==
    /\ e \in Dialers /\ failures[e] < AfterFailures
    /\ failures' = [failures EXCEPT ![e] = @ + 1]
    /\ UNCHANGED << link, asks, frames, woes >>

\* Nothing of an earlier link is on its way: what the end sent has arrived, and what
\* comes to it is the other end's ask, or data of a link that only that end still has.
EarlierIsOver(e) ==
    /\ frames[Mate(e)] = << >>
    /\ \A i \in DOMAIN frames[e] :
          frames[e][i] = "open" \/ (frames[e][i] = "data" /\ link[Mate(e)] = "open")

\* openRelayedLink, instead of the next attempt.  The host dials seconds after it
\* lost a link; the other end may be asking too.
OpenRelayedLink(e) ==
    /\ failures[e] = AfterFailures /\ link[e] = "none" /\ EarlierIsOver(e)
    /\ link' = [link EXCEPT ![e] = "connecting"]
    /\ asks' = [asks EXCEPT ![e] = 1]
    /\ SendsFrame(e, << "open" >>)
    /\ UNCHANGED << failures, woes >>

\* The timer: the end asks again, or gives up.
AskAgain(e) ==
    /\ link[e] = "connecting" /\ Quiet
    /\ IF asks[e] < MaxAsks
         THEN /\ asks' = [asks EXCEPT ![e] = @ + 1]
              /\ SendsFrame(e, << "open" >>)
              /\ UNCHANGED link
         ELSE /\ link' = [link EXCEPT ![e] = "none"]
              /\ asks' = [asks EXCEPT ![e] = 0]
              /\ SendsFrame(e, Closes(e, TRUE))
    /\ UNCHANGED << failures, woes >>

\* mutant: the end that accepts waits for the first data
OnOpenWaiting(e) ==
    /\ link' = [link EXCEPT ![e] = IF @ = "open" THEN @ ELSE "connecting"]
    /\ asks' = [asks EXCEPT ![e] = 0]
    /\ frames' = [frames EXCEPT ![e] = Tail(@),
          ![Mate(e)] = @ \o (IF link[e] = "open" THEN << >> ELSE Closes(e, TRUE)) \o << "accept" >>]

\* The other end asks: it is answered, with a link made for it if there is no open
\* one.  A link this end has asked for is closed, and the other end told.
OnOpen(e) ==
    /\ link' = [link EXCEPT ![e] = "open"]
    /\ asks' = [asks EXCEPT ![e] = 0]
    /\ frames' = [frames EXCEPT ![e] = Tail(@),
          ![Mate(e)] = @ \o (IF link[e] = "open" THEN << >> ELSE Closes(e, TRUE)) \o << "accept" >>]

\* The acceptance, or data that overtook it.
OnAnswer(e) ==
    /\ link' = [link EXCEPT ![e] = IF @ = "connecting" THEN "open" ELSE @]
    /\ asks' = [asks EXCEPT ![e] = 0]
    /\ frames' = [frames EXCEPT ![e] = Tail(@)]

\* Whichever link the other end has closed, it is taken for the present one.
OnClose(e) ==
    /\ link' = [link EXCEPT ![e] = "none"]
    /\ asks' = [asks EXCEPT ![e] = 0]
    /\ frames' = [frames EXCEPT ![e] = Tail(@)]

\* handleLinkFrame
HandleLinkFrame(e) ==
    /\ frames[e] # << >>
    /\ LET f == Head(frames[e])
       IN  \/ f = "open" /\ OnOpen(e)
           \/ f \in {"accept", "data"} /\ OnAnswer(e)
           \/ f = "close" /\ OnClose(e)
    /\ UNCHANGED << failures, woes >>

\* Data, or a ping of the keepalive.
SendOver(e) ==
    /\ link[e] = "open"
    /\ \A i \in DOMAIN frames[Mate(e)] : frames[Mate(e)][i] # "data"
    /\ SendsFrame(e, << "data" >>)
    /\ UNCHANGED << link, asks, failures, woes >>

\* mutant: the keepalive trusts a link whose connection says that it is connected
KeepaliveTrusts(e) == link[e] = "closed" /\ UNCHANGED relayedVars

\* The keepalive hears nothing from an end that has no link.
KeepaliveEnds(e) ==
    /\ link[e] = "open" /\ link[Mate(e)] = "none" /\ Quiet
    /\ link' = [link EXCEPT ![e] = "none"]
    /\ SendsFrame(e, Closes(e, TRUE))
    /\ UNCHANGED << asks, failures, woes >>

\* A host closes its end.
CloseOver(e) ==
    /\ woes < MaxWoes /\ woes' = woes + 1
    /\ link[e] # "none"
    /\ link' = [link EXCEPT ![e] = "none"]
    /\ asks' = [asks EXCEPT ![e] = 0]
    /\ SendsFrame(e, Closes(e, TRUE))
    /\ UNCHANGED failures

FrameLost(e) ==
    /\ woes < MaxWoes /\ woes' = woes + 1
    /\ frames[e] # << >>
    /\ frames' = [frames EXCEPT ![e] = Tail(@)]
    /\ UNCHANGED << link, asks, failures >>

-----------------------------------------------------------------------------
RelayedNext ==
    \E e \in Pair :
       \/ NoteLinkFailure(e) \/ OpenRelayedLink(e) \/ AskAgain(e) \/ HandleLinkFrame(e)
       \/ SendOver(e) \/ KeepaliveEnds(e) \/ CloseOver(e) \/ FrameLost(e)

RelayedSpec == RelayedInit /\ [][RelayedNext]_relayedVars

\* Frames are delivered, the keepalive and the timer run, and one host or the other
\* goes on dialling.
RelayedFairness ==
    /\ \A e \in Pair :
          WF_relayedVars(AskAgain(e)) /\ WF_relayedVars(HandleLinkFrame(e))
             /\ WF_relayedVars(KeepaliveEnds(e))
    /\ \E e \in Dialers :
          WF_relayedVars(NoteLinkFailure(e)) /\ WF_relayedVars(OpenRelayedLink(e))

FairRelayedSpec == RelayedSpec /\ RelayedFairness

-----------------------------------------------------------------------------
(* Properties *)

\* When nothing was lost, no host has closed a link and no frame that makes or ends one
\* is under way, the two ends agree: both are linked, or neither is, nor waits for an
\* answer.  That holds of two ends that ask at once too: each closes the link it has
\* asked for and accepts the other's, and each takes that close for the end of the one
\* it has accepted (OnClose), which leaves both without, never one of them.
LinkedAtBothOrNeither ==
    woes = 0 /\ Quiet =>
       (\A e \in Pair : link[e] = "open") \/ (\A e \in Pair : link[e] = "none")

\* The two hosts do not go on dialling at the same moment.
AsksPartInTheEnd == <>[](\E e \in Pair : link[e] # "connecting")

\* Frames that are lost, closed links of which one end has not heard, asks that cross
\* and close frames that meet a newer link leave the pair linked in the end, at both
\* ends, unless its asks go on crossing.
LinkedInTheEnd == AsksPartInTheEnd => <>[](\A e \in Pair : link[e] = "open")
=============================================================================
