-------------------------- MODULE RelayForwarding --------------------------
(***************************************************************************)
(* What becomes of a frame for another peer (src/src/index.js): sent at    *)
(* once if that peer has a live socket here; otherwise carried by a        *)
(* "forward" task, which asks the other relays and, failing that, stores   *)
(* the frame in D1 (psp_relay) until the peer announces itself.  Tasks     *)
(* await D1 and other relays, and peers come and go meanwhile.             *)
(*                                                                         *)
(* A drain is the part of an announce task that hands stored frames to the *)
(* peer; the registry part is RelayRegistry.  When the queue runs a task   *)
(* is DeferredQueue: here it may start at any time.                        *)
(***************************************************************************)
EXTENDS LivePeers, FiniteSets, FiniteSetsExt

CONSTANTS
    Frames,         \* frames peers send to each other, each once
    Byes,           \* those of type "bye"
    Drains,         \* announce tasks (bound on those not yet over)
    FetchLimit,     \* rows one drain reads (MAX_BATCH)
    D1Fails         \* whether D1 statements may fail

ASSUME RelayForwardingAssumption ==
    /\ Byes \subseteq Frames
    /\ FetchLimit \in Nat \ {0}
    /\ D1Fails \in BOOLEAN

VARIABLES
    to,         \* addressee of each frame
    task,       \* how far each frame's forwarding is
    rows,       \* frames stored in psp_relay
    drain,      \* the announce tasks
    got,        \* history: frames sent on a socket of their addressee
    dropped,    \* history: frames dropped because their addressee said goodbye
    gone        \* history: peers whose last word was a goodbye

forwardingVars == << to, task, rows, drain, got, dropped, gone >>
vars == << liveVars, forwardingVars >>

\* "queued" .. "ending": a forward task; "accepting": a frame posted by
\* another relay, whose handler awaits D1; "done": nothing more happens here.
Stages == {"unsent", "queued", "asking", "storing", "ending", "accepting", "done"}

Drain == [pc : {"idle", "queued", "fetching", "sending", "deleting"},
          peer : Peers, socket : Sockets \cup {None}, ids : SUBSET Frames]

ForwardingTypeOK ==
    /\ TypeOK
    /\ to \in [Frames -> Peers]
    /\ task \in [Frames -> Stages]
    /\ rows \subseteq Frames
    /\ drain \in [Drains -> Drain]
    /\ got \subseteq Frames
    /\ dropped \subseteq Frames
    /\ gone \subseteq Peers

\* A task that is over; its peer does not matter any more.
Idle == [pc |-> "idle", peer |-> CHOOSE p \in Peers : TRUE, socket |-> None, ids |-> {}]

ForwardingInit ==
    /\ Init
    /\ to = [m \in Frames |-> CHOOSE p \in Peers : TRUE]
    /\ task = [m \in Frames |-> "unsent"]
    /\ rows = {}
    /\ drain = [d \in Drains |-> Idle]
    /\ got = {}
    /\ dropped = {}
    /\ gone = {}

\* socket.send on the route of p succeeds: it throws once the relay has
\* closed the socket.
Delivers(p) == livePeers[p] # None /\ state[livePeers[p]] = "open"

Advance(m, stage) == task' = [task EXCEPT ![m] = stage]

-----------------------------------------------------------------------------
(* Frames of a peer's socket *)

\* A frame for p, in the RELAY_TYPES branch.
SendFrame(s, m, p) ==
    /\ OtherFrame(s)
    /\ m \notin Byes
    /\ task[m] = "unsent"
    /\ p # owner[s]
    /\ to' = [to EXCEPT ![m] = p]
    /\ IF Delivers(p)
         THEN got' = got \cup {m} /\ Advance(m, "done")
         ELSE Advance(m, "queued") /\ UNCHANGED got
    /\ UNCHANGED << rows, drain, dropped, gone >>

\* A bye for p (closePeerConnection): taken by the branch that releases the
\* sender's own route, before the RELAY_TYPES branch could forward it.
SendBye(s, m, p) ==
    /\ Bye(s)
    /\ m \in Byes
    /\ task[m] = "unsent"
    /\ p # owner[s]
    /\ to' = [to EXCEPT ![m] = p]
    /\ Advance(m, "done")
    /\ UNCHANGED << rows, drain, got, dropped, gone >>

\* An announcement queues a task that drains what is stored for the peer.
AnnounceFrame(s) ==
    /\ Announce(s)
    /\ IF state[s] = "open"
         THEN \E d \in Drains :
                /\ drain[d].pc = "idle"
                /\ drain' = [drain EXCEPT ![d] = [Idle EXCEPT !.pc = "queued", !.peer = owner[s]]]
         ELSE UNCHANGED drain
    /\ gone' = gone \ {owner[s]}
    /\ UNCHANGED << to, task, rows, got, dropped >>

WithdrawFrame(s, reason) ==
    /\ Withdraw(s, reason)
    /\ gone' = IF reason = "relay_idle" THEN gone \ {owner[s]} ELSE gone \cup {owner[s]}
    /\ UNCHANGED << to, task, rows, drain, got, dropped >>

\* The steps of LivePeers that involve no frame for a peer.  (A socket a drain
\* still holds is not reused for another connection.)
OtherLiveStep ==
    /\ \/ \E s \in Sockets, p \in Peers :
             (\A d \in Drains : drain[d].socket # s) /\ Accept(s, p)
       \/ \E s \in Sockets : RefuseFrame(s) \/ OtherFrame(s) \/ SocketClosed(s)
       \/ \E p \in Peers : ForgetAbsent(p) \/ ForgetResting(p)
    /\ UNCHANGED forwardingVars

-----------------------------------------------------------------------------
(* The forward task of frame m *)

\* mutant: a peer resting off the relay is treated like one that has left
RunForwardRestingGone(m) ==
    LET p == to[m]
    IN  /\ task[m] = "queued"
        /\ IF Delivers(p)
             THEN got' = got \cup {m} /\ Advance(m, "ending") /\ UNCHANGED dropped
             ELSE IF p \in absent \cup resting
             THEN dropped' = dropped \cup {m} /\ Advance(m, "ending") /\ UNCHANGED got
             ELSE Advance(m, "asking") /\ UNCHANGED << got, dropped >>
        /\ UNCHANGED << liveVars, to, rows, drain, gone >>

RunForward(m) ==
    LET p == to[m]
    IN  /\ task[m] = "queued"
        /\ IF Delivers(p)
             THEN got' = got \cup {m} /\ Advance(m, "ending") /\ UNCHANGED dropped
             ELSE IF p \in resting
             THEN Advance(m, "storing") /\ UNCHANGED << got, dropped >>
             ELSE IF p \in absent
             THEN dropped' = dropped \cup {m} /\ Advance(m, "ending") /\ UNCHANGED got
             ELSE Advance(m, "asking") /\ UNCHANGED << got, dropped >>
        /\ UNCHANGED << liveVars, to, rows, drain, gone >>

\* forwardFederatedMessage says that a relay took the frame; or that none
\* did, fails, or misses its deadline.
FederationAnswers(m, delivered) ==
    /\ task[m] = "asking"
    /\ Advance(m, IF delivered THEN "ending" ELSE "storing")
    /\ UNCHANGED << liveVars, to, rows, drain, got, dropped, gone >>

\* A forward of a negotiation frame that has waited 20 s does not run.
ForwardStale(m) ==
    /\ task[m] = "queued"
    /\ Advance(m, "done")
    /\ UNCHANGED << liveVars, to, rows, drain, got, dropped, gone >>

\* The task's key is deleted.
ForwardOver(m) ==
    /\ task[m] = "ending"
    /\ Advance(m, "done")
    /\ UNCHANGED << liveVars, to, rows, drain, got, dropped, gone >>

-----------------------------------------------------------------------------
(* D1: psp_relay *)

AfterStore(m) == IF task[m] = "storing" THEN "ending" ELSE "done"

\* insertRelayMessage
StoreFrame(m) ==
    /\ task[m] \in {"storing", "accepting"}
    /\ rows' = rows \cup {m}
    /\ Advance(m, AfterStore(m))
    /\ UNCHANGED << liveVars, to, drain, got, dropped, gone >>

\* D1 fails, or says that an accepted frame's peer is not known here.
StoreRefused(m) ==
    /\ task[m] = "accepting" \/ (task[m] = "storing" /\ D1Fails)
    /\ Advance(m, AfterStore(m))
    /\ UNCHANGED << liveVars, to, rows, drain, got, dropped, gone >>

\* handleRelayForward: another relay posts a frame for p.
FederatedFrame(m, p) ==
    /\ task[m] = "unsent"
    /\ m \notin Byes
    /\ to' = [to EXCEPT ![m] = p]
    /\ IF Delivers(p)
         THEN got' = got \cup {m} /\ Advance(m, "done")
         ELSE Advance(m, "accepting") /\ UNCHANGED got
    /\ UNCHANGED << liveVars, rows, drain, dropped, gone >>

\* A row's time is up: it is not handed out any more (cleanupExpired).
RowExpires(m) ==
    /\ m \in rows
    /\ rows' = rows \ {m}
    /\ UNCHANGED << liveVars, to, task, drain, got, dropped, gone >>

-----------------------------------------------------------------------------
(* Announce tasks: deliverQueuedRelayMessages *)

Becomes(d, pc) == drain' = [drain EXCEPT ![d].pc = pc]
Over(d) == drain' = [drain EXCEPT ![d] = Idle]

\* mutant: stored frames wait for a new connection
StartDrainOnJoinOnly(d) ==
    /\ drain[d].pc = "queued"
    /\ Over(d)
    /\ UNCHANGED << liveVars, to, task, rows, got, dropped, gone >>

\* The task takes the peer's socket of this moment, if there is one.
StartDrain(d) ==
    /\ drain[d].pc = "queued"
    /\ LET p == drain[d].peer
       IN  IF livePeers[p] = None
             THEN Over(d)
             ELSE drain' = [drain EXCEPT ![d].pc = "fetching", ![d].socket = livePeers[p]]
    /\ UNCHANGED << liveVars, to, task, rows, got, dropped, gone >>

RowsFor(p) == {m \in rows : to[m] = p}

\* fetchRelayMessages
FetchRows(d) ==
    /\ drain[d].pc = "fetching"
    /\ LET found == RowsFor(drain[d].peer)
           size == IF Cardinality(found) < FetchLimit THEN Cardinality(found) ELSE FetchLimit
       IN  IF found = {}
             THEN Over(d)
             ELSE \E ids \in kSubset(size, found) :
                    drain' = [drain EXCEPT ![d].pc = "sending", ![d].ids = ids]
    /\ UNCHANGED << liveVars, to, task, rows, got, dropped, gone >>

\* mutant: a failed send counts as delivered
SendRowsBlindly(d) ==
    /\ drain[d].pc = "sending"
    /\ got' = IF state[drain[d].socket] = "open" THEN got \cup drain[d].ids ELSE got
    /\ Becomes(d, "deleting")
    /\ UNCHANGED << liveVars, to, task, rows, dropped, gone >>

\* What a send fails for is not deleted.
SendRows(d) ==
    /\ drain[d].pc = "sending"
    /\ IF state[drain[d].socket] = "open"
         THEN got' = got \cup drain[d].ids /\ Becomes(d, "deleting")
         ELSE Over(d) /\ UNCHANGED got
    /\ UNCHANGED << liveVars, to, task, rows, dropped, gone >>

\* deleteRelayMessagesById
DeleteRows(d) ==
    /\ drain[d].pc = "deleting"
    /\ rows' = rows \ drain[d].ids
    /\ Over(d)
    /\ UNCHANGED << liveVars, to, task, got, dropped, gone >>

\* A D1 statement fails: the task is over.
DrainFails(d) ==
    /\ D1Fails
    /\ drain[d].pc \in {"queued", "fetching", "deleting"}
    /\ Over(d)
    /\ UNCHANGED << liveVars, to, task, rows, got, dropped, gone >>

-----------------------------------------------------------------------------
\* mutant: a frame that another relay has posted is taken up again
RelayRestartsAnew ==
    /\ Restart
    /\ task' = [m \in Frames |-> IF task[m] = "unsent" THEN "unsent" ELSE "queued"]
    /\ UNCHANGED << to, rows, drain, got, dropped, gone >>

\* Tasks whose key is still in storage run again; a posted frame does not.
RelayRestarts ==
    /\ Restart
    /\ task' = [m \in Frames |-> IF task[m] \in {"asking", "storing", "ending"} THEN "queued"
                                ELSE IF task[m] = "accepting" THEN "done"
                                ELSE task[m]]
    /\ drain' = [d \in Drains |-> IF drain[d].pc = "idle" THEN drain[d]
                                  ELSE [drain[d] EXCEPT !.pc = "queued", !.socket = None, !.ids = {}]]
    /\ UNCHANGED << to, rows, got, dropped, gone >>

ForwardingNext ==
    \/ \E s \in Sockets, m \in Frames, p \in Peers : SendFrame(s, m, p) \/ SendBye(s, m, p)
    \/ \E s \in Sockets : AnnounceFrame(s)
    \/ \E s \in Sockets, reason \in WithdrawReasons : WithdrawFrame(s, reason)
    \/ OtherLiveStep
    \/ \E m \in Frames, p \in Peers : FederatedFrame(m, p)
    \/ \E m \in Frames : RunForward(m) \/ ForwardStale(m) \/ ForwardOver(m)
    \/ \E m \in Frames, delivered \in BOOLEAN : FederationAnswers(m, delivered)
    \/ \E m \in Frames : StoreFrame(m) \/ StoreRefused(m) \/ RowExpires(m)
    \/ \E d \in Drains : StartDrain(d) \/ FetchRows(d) \/ SendRows(d) \/ DeleteRows(d)
    \/ \E d \in Drains : DrainFails(d)
    \/ RelayRestarts

ForwardingSpec == ForwardingInit /\ [][ForwardingNext]_vars

\* A registered client announces again and again, an announce task goes on, and
\* a socket the relay has closed gets its close event.
Heartbeat(p) ==
    \E s \in Sockets : livePeers[p] = s /\ state[s] = "open" /\ AnnounceFrame(s)
DrainStep(d) == StartDrain(d) \/ FetchRows(d) \/ SendRows(d) \/ DeleteRows(d)

Fairness ==
    /\ \A p \in Peers : SF_vars(Heartbeat(p))
    /\ \A d \in Drains : WF_vars(DrainStep(d))
    /\ WF_vars(\E s \in Sockets : state[s] = "closing" /\ SocketClosed(s) /\ OtherLiveStep)

FairForwardingSpec == ForwardingSpec /\ Fairness

-----------------------------------------------------------------------------
(* Properties *)

\* A stored frame is deleted only after it was sent on a socket that was open,
\* or when its time is up: no drain deletes what it failed to hand over, also
\* when the socket it took went away while D1 was being read.
HandoverBeforeDelete ==
    [][\A m \in rows \ rows' : m \in got \/ RowExpires(m)]_vars

\* "Only a peer that said goodbye is gone": a frame is dropped for its
\* addressee's absence only if the addressee's last word to this relay was a
\* goodbye, never because it rests off the relay or has come back.
OnlyGoodbyeDrops ==
    [][\A m \in dropped' \ dropped : to[m] \in gone]_vars

\* While a peer stays connected, every frame stored for it is collected in the
\* end, even one that was stored after the drain of its announcement had run.
StoredIsCollected ==
    \A m \in Frames : []<>(m \notin rows \/ livePeers[to[m]] = None)

\* Where a frame can be: in a task that is not over, stored, or in a drain.
Held ==
    {m \in Frames : task[m] \notin {"unsent", "done"}} \cup rows
        \cup UNION {drain[d].ids : d \in Drains}

Promise == INSTANCE Mailbox WITH
    sent <- {m \in Frames : task[m] # "unsent"}, held <- Held

\* The ways a frame takes between tasks, rows and drains, restarts included, add
\* up to a mailbox: what the relay has let go is not handed over or dropped later.
IsMailbox == Promise!Spec
=============================================================================
