------------------------------- MODULE DemoMesh -------------------------------
(***************************************************************************)
(* The mesh of the demo page (public/app.js), which does not use the       *)
(* client library: two pages, each with its entry for the other in         *)
(* meshLinks.  The page with the smaller id dials.  Candidates are gathered *)
(* before an offer or an answer is sent, so that the code after the await  *)
(* may meet a link that was closed or made anew meanwhile.                 *)
(*                                                                         *)
(* Left out: connect_request and connect_accept, which nothing in the      *)
(* repository sends, and the other pages, but that they may fill the mesh  *)
(* of the page that is dialled.                                            *)
(***************************************************************************)
EXTENDS Integers, FiniteSets

CONSTANTS
    DialNames,      \* names of connections that are dialled; used again when forgotten
    MaxSlips    \* bound on what goes wrong

ASSUME DemoMeshAssumption == DialNames \subseteq Nat \ {0} /\ MaxSlips \in Nat

Pages == {"a", "b"}
Dialer == "a"       \* fromPeer.localeCompare(peerId) < 0
OtherPage(p) == IF p = "a" THEN "b" ELSE "a"

VARIABLES
    page,       \* each page: its relay socket, its cooldowns, whom it has discovered
    entry,      \* its entry in meshLinks
    awaits,     \* code that awaits the gathering or the adding of candidates
    mail,       \* frames on their way
    cut,        \* the connection the network has cut, 0 if none
    slips       \* what has gone wrong so far

meshVars == << page, entry, awaits, mail, cut, slips >>

Blank == [phase |-> "idle", pc |-> 0, answer |-> 0, dc |-> "none",
          requested |-> FALSE, pending |-> 0]

Phases == {"idle", "ready", "offered", "answering", "answered", "connected-pending", "connected"}

MeshTypeOK ==
    /\ page \in [Pages -> [online : BOOLEAN, locked : BOOLEAN, known : BOOLEAN,
                           failed : BOOLEAN, bye : BOOLEAN]]
    /\ entry \in [Pages -> [phase : Phases, pc : DialNames \cup {0}, answer : DialNames \cup {0},
                            dc : {"none", "connecting", "open", "closed", "given up"},
                            requested : BOOLEAN, pending : DialNames \cup {0}]]
    /\ awaits \subseteq [by : Pages, what : {"offer", "answer", "candidates"},
                         pc : DialNames, own : BOOLEAN]
    /\ mail \subseteq [to : Pages, type : {"offer", "answer", "connect_reject", "bye"},
                       pc : DialNames \cup {0}]
    /\ cut \in DialNames \cup {0} /\ slips \in 0 .. MaxSlips
    \* an open channel belongs to a connection, and only the dialler keeps an answer
    /\ \A p \in Pages : entry[p].dc = "open" => entry[p].pc # 0
    /\ entry["b"].pending = 0 /\ ~entry["b"].requested

MeshInit ==
    /\ page = [p \in Pages |-> [online |-> TRUE, locked |-> FALSE, known |-> FALSE,
                                failed |-> FALSE, bye |-> FALSE]]
    /\ entry = [p \in Pages |-> Blank]
    /\ awaits = {} /\ mail = {} /\ cut = 0 /\ slips = 0

-----------------------------------------------------------------------------
Slip == slips < MaxSlips /\ slips' = slips + 1

\* isNegotiatingPhase
Negotiating(e) == e.phase \notin {"idle", "connected"}

\* shouldKeepLinkWithoutAnnouncement, but for the grace after the last signal
InUse(e) == e.dc = "open" \/ Negotiating(e)

\* closeMeshLink: the answer that is kept for a later offer stays
Closed(e) == [Blank EXCEPT !.pending = e.pending]

\* Code that awaits the candidates of a connection that is closed never goes on.
Dropped(p) == {w \in awaits : w.by = p /\ w.what = "candidates"}

\* A link that is deleted: code that still awaits writes to an entry nobody reads.
Orphaned(p) == {IF w.by = p THEN [w EXCEPT !.own = FALSE] ELSE w : w \in awaits \ Dropped(p)}

\* failoverFromCurrentPeer: the choice of the next peer passes over one that cools down
Fails(p) ==
    /\ page' = [page EXCEPT ![p].failed = TRUE]
    /\ entry' = [entry EXCEPT ![p] = Closed(@)]
    /\ awaits' = awaits \ Dropped(p)

\* sendRelayEnvelope: without a socket the frame is lost
Mails(p, frames) == mail' = IF page[p].online THEN mail \cup frames ELSE mail

\* The two ends have each other's descriptions and the network carries them.
Matched ==
    /\ entry["a"].pc # 0 /\ entry["a"].pc = entry["b"].pc
    /\ entry["a"].answer = entry["a"].pc
    /\ entry["a"].pc # cut
    /\ \A p \in Pages : entry[p].dc \notin {"closed", "given up"}

\* Ten seconds and more pass: long enough for frames, for candidates and for a channel
\* to open, but for a slip.
LongWait ==
    IF mail = {} /\ awaits = {} /\ ~(Matched /\ \E p \in Pages : entry[p].dc # "open")
    THEN UNCHANGED slips ELSE Slip

-----------------------------------------------------------------------------
(* Dialling *)

\* The names of connections somebody may still tell from a new one.
NamesInUse ==
    {entry[OtherPage(Dialer)].pc, entry[Dialer].pending}
        \cup {m.pc : m \in mail} \cup {w.pc : w \in awaits}

\* maybeAutoConnectPeer, and the guards of requestConnect, for the page as it now is
MayDial(p, now) ==
    /\ p = Dialer
    /\ now.online /\ now.known /\ ~now.locked /\ ~now.failed /\ ~now.bye
    /\ entry[p].phase \in {"idle", "ready"} /\ ~entry[p].requested
    /\ entry[p].dc # "open"
    /\ entry[p].answer # 0 => entry[p].dc = "given up"

\* requestConnect and startOfferFlow, to the await of the candidates.  A connection that
\* was used is closed first, and with it goes the mark that a dial is under way.  An
\* answer kept while there was no connection is applied to this one.
DialWith(p, e, i) ==
    entry' = [entry EXCEPT ![p] = [phase |-> "ready", pc |-> i, answer |-> e.pending,
                                   dc |-> "connecting", requested |-> e.pc = 0, pending |-> 0]]

Dial(p, e) ==
    \E i \in DialNames \ NamesInUse :
       /\ i = CHOOSE j \in DialNames \ NamesInUse : TRUE
       /\ DialWith(p, e, i)
       /\ awaits' = awaits \cup {[by |-> p, what |-> "offer", pc |-> i, own |-> TRUE]}
       /\ cut' = IF cut = i THEN 0 ELSE cut

\* The offer is complete: it is sent, whatever has become of the link.
OfferReady(w) ==
    /\ w \in awaits /\ w.what = "offer"
    /\ awaits' = awaits \ {w}
    /\ entry' = [entry EXCEPT ![w.by].phase = IF w.own THEN "offered" ELSE @,
                              ![w.by].requested = FALSE]
    /\ Mails(w.by, {[to |-> OtherPage(w.by), type |-> "offer", pc |-> w.pc]})
    /\ UNCHANGED << page, cut, slips >>

-----------------------------------------------------------------------------
(* Frames of the other page.  Each is taken for a sign of it: it is known. *)

Takes(m) == mail' = mail \ {m}
KnownBy(p) == page' = [page EXCEPT ![p].known = TRUE]

\* The frame of a held page, a second answer, and the like.
Ignores(p) == UNCHANGED << entry, awaits, cut, slips >> /\ KnownBy(p)

Held(p) == page[p].locked \/ page[p].bye

\* mutant: an offer is taken whatever the state of the link
IgnoresNoOffer(e) == FALSE

\* "Ignored offer from connected peer"
IgnoresOffer(e) == e.phase = "connected" \/ e.dc = "open"

\* onOffer, to the await of the candidates: one connection for each offer.
TakeOffer(p, i) ==
    /\ entry' = [entry EXCEPT ![p] = [Blank EXCEPT !.phase = "answering", !.pc = i, !.answer = i]]
    /\ awaits' = (awaits \ Dropped(p))
                    \cup {[by |-> p, what |-> "answer", pc |-> i, own |-> TRUE]}
    /\ KnownBy(p)
    /\ UNCHANGED << cut, slips >>

\* The mesh of the page is full of others: a slip of theirs.
RefusesOffer(m) ==
    /\ Slip
    /\ ~Negotiating(entry[m.to])
    /\ mail' = (mail \ {m})
          \cup {[to |-> OtherPage(m.to), type |-> "connect_reject", pc |-> 0]}
    /\ KnownBy(m.to)
    /\ UNCHANGED << entry, awaits, cut >>

ReceiveOffer(m) ==
    /\ m.type = "offer"
    /\ \/ /\ Held(m.to) \/ IgnoresOffer(entry[m.to])
          /\ Takes(m) /\ Ignores(m.to)
       \/ /\ ~Held(m.to) /\ entry[m.to].dc # "open" /\ RefusesOffer(m)
       \/ /\ ~Held(m.to) /\ ~IgnoresOffer(entry[m.to])
          /\ Takes(m) /\ TakeOffer(m.to, m.pc)

\* The answer is complete: it is sent, whatever has become of the link.
AnswerReady(w) ==
    /\ w \in awaits /\ w.what = "answer"
    /\ awaits' = awaits \ {w}
    /\ entry' = [entry EXCEPT ![w.by].phase = IF w.own THEN "answered" ELSE @]
    /\ Mails(w.by, {[to |-> OtherPage(w.by), type |-> "answer", pc |-> w.pc]})
    /\ UNCHANGED << page, cut, slips >>

\* onAnswer: no look at which offer it answers.  Candidates that are waiting are added
\* before the phase is set.
AppliesAnswer(p, i) ==
    \/ /\ entry' = [entry EXCEPT ![p].answer = i, ![p].pending = 0, ![p].phase = "connected-pending"]
       /\ UNCHANGED awaits
    \/ /\ entry' = [entry EXCEPT ![p].answer = i, ![p].pending = 0]
       /\ awaits' = awaits \cup {[by |-> p, what |-> "candidates", pc |-> entry[p].pc, own |-> TRUE]}

\* "Queued answer until a local offer is ready"
KeepsAnswer(p, i) == entry' = [entry EXCEPT ![p].pending = i]

TakeAnswer(p, i) ==
    LET e == entry[p]
    IN  /\ \/ /\ e.phase # "connected" /\ e.dc = "open"
              /\ entry' = [entry EXCEPT ![p].phase = "connected", ![p].requested = FALSE]
              /\ UNCHANGED awaits
           \/ /\ e.phase # "connected" /\ e.dc # "open" /\ e.pc = 0
              /\ KeepsAnswer(p, i)
              /\ UNCHANGED awaits
           \/ /\ e.phase # "connected" /\ e.pc # 0 /\ e.answer = 0
              /\ AppliesAnswer(p, i)
           \/ /\ \/ e.phase = "connected"
                 \/ e.dc # "open" /\ e.pc # 0 /\ e.answer # 0
              /\ UNCHANGED << entry, awaits >>
        /\ KnownBy(p)
        /\ UNCHANGED << cut, slips >>

ReceiveAnswer(m) ==
    /\ m.type = "answer"
    /\ Takes(m)
    /\ \/ Held(m.to) /\ Ignores(m.to)
       \/ ~Held(m.to) /\ TakeAnswer(m.to, m.pc)

\* The candidates have been added.
CandidatesAdded(w) ==
    /\ w \in awaits /\ w.what = "candidates"
    /\ awaits' = awaits \ {w}
    /\ entry' = [entry EXCEPT ![w.by].phase = "connected-pending"]
    /\ UNCHANGED << page, mail, cut, slips >>

\* onConnectReject: whatever the link has become meanwhile, it is closed.
ReceiveReject(m) ==
    /\ m.type = "connect_reject"
    /\ Takes(m)
    /\ page' = [page EXCEPT ![m.to].known = TRUE, ![m.to].failed = TRUE]
    /\ entry' = [entry EXCEPT ![m.to] = Closed(@)]
    /\ awaits' = awaits \ Dropped(m.to)
    /\ UNCHANGED << cut, slips >>

\* A bye: the other page is not dialled, nor its frames heard, for a while.
ReceiveBye(m) ==
    /\ m.type = "bye"
    /\ Takes(m)
    /\ page' = [page EXCEPT ![m.to].known = TRUE, ![m.to].bye = TRUE]
    /\ entry' = [entry EXCEPT ![m.to] = Closed(@)]
    /\ awaits' = awaits \ Dropped(m.to)
    /\ UNCHANGED << cut, slips >>

\* onServerEnvelope
ReceiveSignal(m) ==
    /\ m \in mail /\ page[m.to].online
    /\ ReceiveOffer(m) \/ ReceiveAnswer(m) \/ ReceiveReject(m) \/ ReceiveBye(m)

-----------------------------------------------------------------------------
(* The connection *)

\* The channel opens: at the dialler the one it made, at the other page one that comes.
ChannelOpens(p) ==
    /\ Matched /\ entry[p].dc # "open"
    /\ entry' = [entry EXCEPT ![p].dc = "open", ![p].phase = "connected", ![p].requested = FALSE]
    /\ UNCHANGED << page, awaits, mail, cut, slips >>

\* ICE gives up on a connection whose channel never opened, or has closed.
ConnectionFails(p) ==
    /\ entry[p].pc # 0 /\ entry[p].answer # 0 /\ entry[p].dc \notin {"open", "given up"}
    /\ ~Matched
    /\ LongWait
    /\ Fails(p)
    /\ UNCHANGED << mail, cut >>

\* The channel of a connection that is gone: it closes; or the connection fails and is
\* closed with it; or the keepalive hears no pong and closes both.  Only a link whose
\* phase is "connected" is dialled again on a close.
ChannelEnds(p) ==
    /\ entry[p].dc = "open" /\ ~Matched
    /\ \/ Fails(p)
       \/ /\ entry[p].phase # "connected"
          /\ \E how \in {"closed", "given up"} : entry' = [entry EXCEPT ![p].dc = how]
          /\ UNCHANGED << page, awaits >>
    /\ UNCHANGED << mail, cut, slips >>

\* The network cuts the connection.
Cut ==
    /\ Slip /\ Matched
    /\ cut' = entry[Dialer].pc
    /\ UNCHANGED << page, entry, awaits, mail >>

Lose(m) ==
    /\ Slip /\ m \in mail
    /\ Takes(m)
    /\ UNCHANGED << page, entry, awaits, cut >>

-----------------------------------------------------------------------------
(* Timers and the relay *)

\* Candidates are awaited for 4 s at most: less than any of the times below.
Settled(p) == \A w \in awaits : w.by # p

\* A cooldown of 5 s after a failure, of 30 s after a bye.
CooldownOver(p) ==
    /\ Settled(p)
    /\ page[p].failed \/ page[p].bye
    /\ \/ page' = [page EXCEPT ![p].failed = FALSE]
       \/ page' = [page EXCEPT ![p].bye = FALSE]
    /\ page' # page
    /\ UNCHANGED << entry, awaits, mail, cut, slips >>

\* Dials if it may.  A second dial while the candidates of one are gathered, for longer
\* than the loop takes, is a slip.
AutoConnects(p, now) ==
    IF MayDial(p, now)
    THEN Dial(p, entry[p]) /\ IF Settled(p) THEN UNCHANGED slips ELSE Slip
    ELSE UNCHANGED << entry, awaits, cut, slips >>

\* mutant: an offer whose answer does not come is waited for forever
WaitsForever(p) == FALSE

\* "Initiators should timeout if responder doesn't send answer within 10s"
AnswerTimeout(p) == entry[p].phase = "offered" /\ entry[p].dc # "open"

\* The loop of startAutoLoop, every three seconds: links that nobody uses are deleted
\* after their grace; only a page that is announced is timed out, or dialled.
AutoLoop(p) ==
    /\ page[p].online /\ ~page[p].locked
    /\ \/ /\ page[p].known /\ AnswerTimeout(p)
          /\ LongWait
          /\ page' = [page EXCEPT ![p].failed = TRUE]
          /\ entry' = [entry EXCEPT ![p].phase = "idle", ![p].requested = FALSE]
          /\ UNCHANGED << awaits, cut >>
       \/ /\ page[p].known
          /\ AutoConnects(p, page[p])
          /\ UNCHANGED page
       \/ /\ ~InUse(entry[p]) /\ Settled(p)
          /\ LongWait
          /\ IF MayDial(p, page[p])
               THEN Dial(p, Blank)
               ELSE entry' = [entry EXCEPT ![p] = Blank] /\ UNCHANGED << awaits, cut >>
          /\ UNCHANGED page
    /\ UNCHANGED mail

\* A peer_list with the other page in it.
PeerList(p) ==
    /\ page[p].online /\ ~page[p].known
    /\ page' = [page EXCEPT ![p].known = TRUE]
    /\ AutoConnects(p, page'[p])
    /\ UNCHANGED mail

\* A peer_list without it, or an announcement that is not renewed in time.
PeerListWithout(p) ==
    /\ Slip
    /\ page[p].online /\ page[p].known
    /\ page' = [page EXCEPT ![p].known = FALSE]
    /\ \/ UNCHANGED << entry, awaits >>
       \/ /\ ~InUse(entry[p]) /\ Settled(p)
          /\ entry' = [entry EXCEPT ![p] = Blank]
          /\ UNCHANGED awaits
    /\ UNCHANGED << mail, cut >>

\* The socket to the relay closes: every link is closed with it (stopRtc).
RelayDrops(p) ==
    /\ Slip
    /\ page[p].online
    /\ page' = [page EXCEPT ![p].online = FALSE]
    /\ entry' = [entry EXCEPT ![p] = Closed(@)]
    /\ awaits' = awaits \ Dropped(p)
    /\ UNCHANGED << mail, cut >>

\* The browser was suspended: the links are deleted, the cooldowns and the pages that
\* were discovered forgotten.
Resumes(p) ==
    /\ Slip
    /\ page' = [page EXCEPT ![p].online = FALSE, ![p].failed = FALSE,
                            ![p].bye = FALSE, ![p].known = FALSE]
    /\ entry' = [entry EXCEPT ![p] = Blank]
    /\ awaits' = Orphaned(p)
    /\ UNCHANGED << mail, cut >>

\* The tab is visible again, and the relay was not lost: the cooldowns are cleared.
TabVisible(p) ==
    /\ Slip
    /\ page[p].failed \/ page[p].bye
    /\ page' = [page EXCEPT ![p].failed = FALSE, ![p].bye = FALSE]
    /\ UNCHANGED << entry, awaits, mail, cut >>

\* beginRtc, when the socket is open or the user asks: a manual hang-up is over.  The
\* page that was selected, if one is, is dialled.
BeginRtc(p) ==
    /\ ~page[p].online \/ page[p].locked
    /\ page' = [page EXCEPT ![p].online = TRUE, ![p].locked = FALSE]
    /\ \/ AutoConnects(p, page'[p])
       \/ UNCHANGED << entry, awaits, cut, slips >>
    /\ UNCHANGED mail

\* The peers a bye is sent to
Byes(p) ==
    IF page[p].known \/ entry[p] # Blank
    THEN {[to |-> OtherPage(p), type |-> "bye", pc |-> 0]} ELSE {}

\* hangup
Hangup(p) ==
    /\ Slip
    /\ page[p].online /\ ~page[p].locked
    /\ page' = [page EXCEPT ![p].locked = TRUE, ![p].bye = @ \/ Byes(p) # {}]
    /\ entry' = [entry EXCEPT ![p] = Closed(@)]
    /\ awaits' = awaits \ Dropped(p)
    /\ Mails(p, Byes(p))
    /\ UNCHANGED cut

\* resetRtc: a bye, and a fresh start.
ResetRtc(p) ==
    /\ Slip
    /\ page[p].online
    /\ page' = [page EXCEPT ![p].locked = FALSE, ![p].failed = FALSE, ![p].bye = FALSE]
    /\ entry' = [entry EXCEPT ![p] = Closed(@)]
    /\ awaits' = awaits \ Dropped(p)
    /\ Mails(p, Byes(p))
    /\ UNCHANGED cut

-----------------------------------------------------------------------------
MeshNext ==
    \/ \E m \in mail : ReceiveSignal(m) \/ Lose(m)
    \/ \E w \in awaits : OfferReady(w) \/ AnswerReady(w) \/ CandidatesAdded(w)
    \/ \E p \in Pages :
          \/ ChannelOpens(p) \/ ConnectionFails(p) \/ ChannelEnds(p)
          \/ CooldownOver(p) \/ AutoLoop(p) \/ PeerList(p) \/ PeerListWithout(p)
          \/ RelayDrops(p) \/ Resumes(p) \/ TabVisible(p) \/ BeginRtc(p) \/ Hangup(p) \/ ResetRtc(p)
    \/ Cut

MeshSpec == MeshInit /\ [][MeshNext]_meshVars

\* Frames arrive, awaited candidates come, timers fire, connections open or fail, the
\* relay is reached again and lists the pages.
MeshFairness ==
    /\ WF_meshVars(\E m \in mail : ReceiveSignal(m))
    /\ WF_meshVars(\E w \in awaits : OfferReady(w) \/ AnswerReady(w) \/ CandidatesAdded(w))
    /\ \A p \in Pages :
          /\ WF_meshVars(ChannelOpens(p) \/ ChannelEnds(p))
          /\ WF_meshVars(ConnectionFails(p))
          /\ WF_meshVars(CooldownOver(p))
          /\ WF_meshVars(AutoLoop(p))
          /\ WF_meshVars(PeerList(p))
          /\ WF_meshVars(~page[p].online /\ BeginRtc(p))

-----------------------------------------------------------------------------
(* Properties *)

\* No frame of a negotiation displaces a channel that works: not an offer or an answer
\* of an earlier dial that comes late, nor the one of a dial that was started over.
ChannelIsSpared ==
    [][\A m \in mail :
          m.type \in {"offer", "answer"} /\ Matched /\ entry[m.to].dc = "open" /\ mail' = mail \ {m}
             => entry'[m.to].dc = "open" /\ entry'[m.to].pc = entry[m.to].pc]_meshVars

\* A channel opened before its candidates were added: the phase says that it is still
\* pending, so that its end is no reason to dial again.
LeftPending(p) == entry[p].phase = "connected-pending" /\ entry[p].dc = "given up"

\* Two pages of a room that stay there, neither of them hung up, are linked in the end,
\* whatever was lost, late or started over; but for a link that is left pending.
MeshIsMade ==
    \/ []<>(\E p \in Pages : page[p].locked)
    \/ <>[](\A p \in Pages : entry[p].dc = "open")
    \/ <>[]LeftPending(Dialer)
=============================================================================
