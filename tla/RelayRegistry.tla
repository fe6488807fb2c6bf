--------------------------- MODULE RelayRegistry ---------------------------
(***************************************************************************)
(* The relay's registry of announced peers (src/src/index.js): the rows of *)
(* psp_announcements in D1, which peers are listed from.  A socket handler *)
(* only touches the table of LivePeers; the D1 writes behind it are tasks  *)
(* in the coordinator's storage, run by its alarm, a batch at a time and   *)
(* the tasks of a batch concurrently.  So a leave and the announcement of  *)
(* the peer's next socket reach D1 in any order.                           *)
(*                                                                         *)
(* Tasks other than "announce" and "peer-left" do not touch the registry   *)
(* (see DeferredQueue and RelayForwarding).                                *)
(***************************************************************************)
EXTENDS LivePeers, Sequences, FiniteSets, SequencesExt

CONSTANTS
    MaxBatch,       \* tasks one alarm runs (MAX_DEFERRED_TASKS_PER_ALARM)
    MaxQueue,       \* bound on the tasks in storage
    MaxRestarts     \* bound on the restarts of the relay

ASSUME RelayRegistryAssumption ==
    /\ MaxBatch \in Nat \ {0}
    /\ MaxQueue \in Nat \ {0}
    /\ MaxRestarts \in Nat

VARIABLES
    queue,      \* tasks in storage, by time of their key
    alarm,      \* an alarm is set and due
    draining,   \* an alarm is running its batch
    orphans,    \* writes of timed-out tasks that may still happen
    listed,     \* peers with an announcement whose lease has not lapsed
    restarts

registryVars == << queue, alarm, draining, orphans, listed, restarts >>
vars == << liveVars, registryVars >>

Kinds == {"announce", "peer-left"}
\* "by" (the socket whose close queued a leave, None for other tasks) is not stored
\* by the code: no action reads it.
Task == [kind : Kinds, peer : Peers, by : Sockets \cup {None}, isHeartbeat : BOOLEAN,
         pc : {"queued", "started", "written"}]
Write == [kind : Kinds, peer : Peers]

RegistryTypeOK ==
    /\ TypeOK
    /\ queue \in Seq(Task) /\ Len(queue) <= MaxQueue
    /\ alarm \in BOOLEAN
    /\ draining \in BOOLEAN
    /\ orphans \subseteq Write
    /\ listed \subseteq Peers
    /\ restarts \in 0 .. MaxRestarts

RegistryInit ==
    /\ Init
    /\ queue = << >>
    /\ alarm = FALSE
    /\ draining = FALSE
    /\ orphans = {}
    /\ listed = {}
    /\ restarts = 0

-----------------------------------------------------------------------------
(* Socket handlers queue their registry work. *)

\* deferWork: put the task, and make sure that an alarm is due.
Defer(kind, s, by, isHeartbeat) ==
    /\ Len(queue) < MaxQueue
    /\ queue' = Append(queue, [kind |-> kind, peer |-> owner[s], by |-> by,
                               isHeartbeat |-> isHeartbeat, pc |-> "queued"])
    /\ alarm' = TRUE
    /\ UNCHANGED << draining, orphans, listed, restarts >>

\* On a socket the relay has closed the ACK cannot be sent: the handler ends
\* in its catch, with the route claimed and nothing queued.
AnnounceFrame(s) ==
    /\ Announce(s)
    /\ IF state[s] = "closing"
         THEN UNCHANGED registryVars
         ELSE Defer("announce", s, None, IsHeartbeat(s))

\* withdraw and bye: the claim that precedes them succeeded, so they always
\* release a route and queue the leave.
LeaveFrame(s) ==
    /\ (\E reason \in WithdrawReasons : Withdraw(s, reason)) \/ Bye(s)
    /\ Defer("peer-left", s, None, FALSE)

\* cleanupPeerState: a leave, if the closing socket still owned the route.
CloseEvent(s) ==
    /\ SocketClosed(s)
    /\ IF s \in bound /\ OwnsRoute(s)
         THEN Defer("peer-left", s, s, FALSE)
         ELSE UNCHANGED registryVars

\* Everything else in LivePeers leaves the registry alone.
OtherLiveStep ==
    /\ \/ \E s \in Sockets, p \in Peers : Accept(s, p)
       \/ \E s \in Sockets : RefuseFrame(s) \/ OtherFrame(s)
       \/ \E p \in Peers : ForgetAbsent(p) \/ ForgetResting(p)
    /\ UNCHANGED registryVars

-----------------------------------------------------------------------------
(* The alarm: drainDeferredTasks *)

Beats(q) == {i \in DOMAIN q : q[i].isHeartbeat}

\* mutant: equal heartbeats make each other redundant
RedundantMutual(q) ==
    {i \in Beats(q) : \E j \in Beats(q) : j # i /\ q[j].peer = q[i].peer}

\* coalesceDeferredTasks: of a peer's heartbeats only the newest is kept.
Redundant(q) ==
    {i \in Beats(q) : \E j \in Beats(q) : j > i /\ q[j].peer = q[i].peer}

\* Heartbeats come after the joins and leaves, in the order in which their
\* peers first appear (a Map keeps the place of a key it overwrites).
Place(q, i) ==
    IF i \in Beats(q)
      THEN Len(q) + Min({j \in Beats(q) : q[j].peer = q[i].peer})
      ELSE i

\* The tasks of the next batch.
Chosen(q) ==
    LET keep == DOMAIN q \ Redundant(q)
    IN  {i \in keep : Cardinality({j \in keep : Place(q, j) < Place(q, i)}) < MaxBatch}

\* deferredTaskIsStale drops the heartbeats (only) of an alarm that is late.
Fresh(late) == SelectSeq(queue, LAMBDA t : ~ (late /\ t.isHeartbeat))

Drain(late) ==
    /\ alarm
    /\ ~ draining
    /\ LET q == Fresh(late)
           kept == SetToSortSeq(DOMAIN q \ Redundant(q), <)
           pcIn(i) == IF i \in Chosen(q) THEN "started" ELSE q[i].pc
       IN  /\ queue' = [k \in DOMAIN kept |-> [q[kept[k]] EXCEPT !.pc = pcIn(kept[k])]]
           /\ draining' = (q # << >>)
    /\ alarm' = FALSE
    /\ UNCHANGED << liveVars, orphans, listed, restarts >>

\* mutant: the key of a task that is over stays behind
TaskOverKept(i) ==
    /\ queue' = [queue EXCEPT ![i].pc = "queued"]
    /\ draining' = \E j \in DOMAIN queue' : queue'[j].pc # "queued"
    /\ alarm' = (alarm \/ (~ draining' /\ queue' # << >>))
    /\ UNCHANGED restarts

\* A task is over, however it ended: its key is deleted.  When the whole batch
\* is over and tasks remain, the alarm is set again.
TaskOver(i) ==
    /\ queue' = RemoveAt(queue, i)
    /\ draining' = \E j \in DOMAIN queue' : queue'[j].pc # "queued"
    /\ alarm' = (alarm \/ (~ draining' /\ queue' # << >>))
    /\ UNCHANGED restarts

Running(i) == i \in DOMAIN queue /\ queue[i].pc = "started"
Written(i) == i \in DOMAIN queue /\ queue[i].pc = "written"

\* upsertAnnouncement, deleteAnnouncement: one statement each.  (Whether the
\* upsert also renews a lease that is still running: see AnnouncementLease.)
Apply(kind, p) ==
    listed' = IF kind = "announce" THEN listed \cup {p} ELSE listed \ {p}

\* runDeferredTask up to its registry write.
TaskWrites(i) ==
    /\ Running(i)
    /\ Apply(queue[i].kind, queue[i].peer)
    /\ queue' = [queue EXCEPT ![i].pc = "written"]
    /\ UNCHANGED << liveVars, alarm, draining, orphans, restarts >>

\* The rest of the task (publication, broadcast) does not touch the registry.
TaskFinishes(i) ==
    /\ Written(i)
    /\ TaskOver(i)
    /\ UNCHANGED << liveVars, orphans, listed >>

\* D1 fails: the task is logged and over.
TaskFails(i) ==
    /\ Running(i)
    /\ TaskOver(i)
    /\ UNCHANGED << liveVars, orphans, listed >>

\* DEFERRED_TASK_TIMEOUT_MS: the task is over, but nothing cancels its write.
TaskTimesOut(i) ==
    /\ Running(i)
    /\ TaskOver(i)
    /\ orphans' = orphans \cup {[kind |-> queue[i].kind, peer |-> queue[i].peer]}
    /\ UNCHANGED << liveVars, listed >>

OrphanWrites(w) ==
    /\ Apply(w.kind, w.peer)
    /\ orphans' = orphans \ {w}
    /\ UNCHANGED << liveVars, queue, alarm, draining, restarts >>

\* A lease lapses: nobody renewed it in time.
LeaseLapses(p) ==
    /\ p \in listed
    /\ listed' = listed \ {p}
    /\ UNCHANGED << liveVars, queue, alarm, draining, orphans, restarts >>

\* The RelayCoordinator constructor: what was queued, or was running and had
\* not deleted its key, runs (again) after a restart.
RestartQueue ==
    /\ queue' = [i \in DOMAIN queue |-> [queue[i] EXCEPT !.pc = "queued"]]
    /\ alarm' = (alarm \/ queue # << >>)

RelayRestarts ==
    /\ restarts < MaxRestarts
    /\ Restart
    /\ RestartQueue
    /\ draining' = FALSE
    /\ orphans' = {}
    /\ restarts' = restarts + 1
    /\ UNCHANGED listed

-----------------------------------------------------------------------------
RegistryNext ==
    \/ \E s \in Sockets : AnnounceFrame(s) \/ LeaveFrame(s) \/ CloseEvent(s)
    \/ OtherLiveStep
    \/ \E late \in BOOLEAN : Drain(late)
    \/ \E i \in 1 .. MaxQueue :
          TaskWrites(i) \/ TaskFinishes(i) \/ TaskFails(i) \/ TaskTimesOut(i)
    \/ \E w \in orphans : OrphanWrites(w)
    \/ \E p \in Peers : LeaseLapses(p)
    \/ RelayRestarts

RegistrySpec == RegistryInit /\ [][RegistryNext]_vars

\* A registered client keeps announcing (startAdvertiseHeartbeat) ...
Heartbeat(p) ==
    \E s \in Sockets : livePeers[p] = s /\ state[s] = "open" /\ AnnounceFrame(s)
\* ... its announcement does not fail every time ...
AnnounceWritten(p) ==
    \E i \in 1 .. MaxQueue : TaskWrites(i) /\ queue[i].kind = "announce" /\ queue[i].peer = p
\* ... a started task comes to an end, and so does a socket the relay has closed.
TaskEnds == \E i \in 1 .. MaxQueue :
    TaskFinishes(i) \/ TaskFails(i) \/ TaskTimesOut(i)

Fairness ==
    /\ SF_vars(Drain(FALSE))
    /\ WF_vars(TaskEnds)
    /\ SF_vars(\E s \in Sockets : state[s] = "closing" /\ CloseEvent(s))
    /\ WF_vars(\E w \in orphans : OrphanWrites(w))
    /\ \A p \in Peers :
          /\ SF_vars(Heartbeat(p))
          /\ SF_vars(AnnounceWritten(p))
          /\ WF_vars(livePeers[p] = None /\ LeaseLapses(p))

FairRegistrySpec == RegistrySpec /\ Fairness

-----------------------------------------------------------------------------
(* Properties *)

\* A peer that stays connected and keeps announcing is listed again and
\* again, whatever leaves of its earlier sockets, failures, timeouts and
\* restarts do to its row.
LivePeerIsRelisted ==
    \A p \in Peers : []<>(p \in listed \/ livePeers[p] = None)

\* A peer that has gone for good is in the end not listed any more, although
\* a heartbeat queued before its leave can be written after it.
GonePeerIsUnlisted ==
    \A p \in Peers : <>[](livePeers[p] = None) => <>[](p \notin listed)

\* "Only the socket that still owns this peer ID may delete the shared lease"
\* (index.js, cleanupPeerState).  The check is made when the socket closes and its
\* leave is queued: this states that it still holds when the row is deleted, so that
\* the leave of a closed socket never deletes the row of a peer that has come back on
\* another open socket since, and has no announcement left that would restore it.
OnlyOwnerDeletesLease ==
    [][\A i \in 1 .. MaxQueue :
         TaskWrites(i) /\ queue[i].kind = "peer-left" /\ queue[i].by # None =>
           LET p == queue[i].peer
           IN  p \in listed /\ livePeers[p] \notin {None, queue[i].by} /\ state[livePeers[p]] = "open" =>
               \E j \in DOMAIN queue : queue[j].peer = p /\ queue[j].kind = "announce"
                                          /\ queue[j].pc # "written"]_vars
=============================================================================
