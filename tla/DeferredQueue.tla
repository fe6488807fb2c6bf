--------------------------- MODULE DeferredQueue ---------------------------
(***************************************************************************)
(* The queue of deferred work of a relay (src/src/index.js): tasks in the  *)
(* coordinator's storage, run by its alarm.  Storage lists keys in order,  *)
(* and a key starts with the task's priority and then its time, so an      *)
(* alarm that reads only the first ScanLimit keys sees the most urgent     *)
(* ones; of those it drops the stale and the superseded and runs MaxBatch. *)
(*                                                                         *)
(* What a task does is left to RelayRegistry and RelayForwarding.  Time    *)
(* passes in ticks, of ten seconds with the budgets of the code.           *)
(***************************************************************************)
EXTENDS Naturals, Sequences, FiniteSets

CONSTANTS
    Peers,
    Kinds,          \* the kinds of task that arrive, a subset of AllKinds
    ScanLimit,      \* DEFERRED_TASK_SCAN_LIMIT
    MaxBatch,       \* MAX_DEFERRED_TASKS_PER_ALARM
    MaxQueue,       \* bound on the tasks in storage
    ForwardBudget,  \* ticks a negotiation frame waits (DEFERRED_FORWARD_STALE_MS)
    Budget,         \* ticks a drain or a heartbeat waits (DEFERRED_TASK_STALE_MS)
    StuckAfter      \* ticks after which a due alarm is stuck (ALARM_STUCK_AFTER_MS)

\* "negotiation" and "message": a forward of a frame in NEGOTIATION_TYPES or
\* not; "join" and "heartbeat": an announce that is the first of its socket or not.
AllKinds == {"negotiation", "message", "discover", "join", "heartbeat", "peer-left",
             "relay-list", "deliver-queued", "cleanup"}

ASSUME DeferredQueueAssumption ==
    /\ Kinds \subseteq AllKinds
    /\ ScanLimit \in Nat \ {0}
    /\ MaxBatch \in 1 .. ScanLimit
    /\ MaxQueue \in Nat \ {0}
    /\ Budget \in Nat /\ ForwardBudget \in 0 .. Budget
    /\ StuckAfter \in Nat

Forwards == {"negotiation", "message"}

\* DEFERRED_TASK_PRIORITY: the smaller, the sooner.
Rank(kind) ==
    CASE kind \in Forwards -> 0
      [] kind \in {"discover", "join", "heartbeat", "peer-left"} -> 1
      [] kind = "relay-list" -> 2
      [] kind = "deliver-queued" -> 3
      [] OTHER -> 5

\* Ages are not counted beyond this.
MaxAge == Budget + 1

VARIABLES
    queue,      \* tasks in storage, in the order in which they were put
    alarm,      \* the alarm that is set, if any
    draining    \* an alarm is running its batch

vars == << queue, alarm, draining >>

Task == [kind : Kinds, peer : Peers, age : 0 .. MaxAge, started : BOOLEAN]

\* An alarm is unset, in the platform's retry backoff, or due for so many
\* ticks; and a due alarm may be stuck, and not run by itself.
Unset == [at |-> "none", overdue |-> 0, stuck |-> FALSE]
Backoff == [at |-> "later", overdue |-> 0, stuck |-> FALSE]
Due == [at |-> "now", overdue |-> 0, stuck |-> FALSE]

TypeOK ==
    /\ queue \in Seq(Task) /\ Len(queue) <= MaxQueue
    /\ alarm \in [at : {"none", "later", "now"}, overdue : 0 .. StuckAfter + 1, stuck : BOOLEAN]
    /\ draining = (\E i \in DOMAIN queue : queue[i].started)

Init ==
    /\ queue = << >>
    /\ alarm = Unset
    /\ draining = FALSE

-----------------------------------------------------------------------------
(* deferWork *)

\* mutant: only a missing alarm is set
RearmedIfMissing == IF alarm.at = "none" THEN Due ELSE alarm

\* Not only a missing alarm is set: one in backoff, or long overdue, is too.
Rearmed ==
    IF alarm.at \in {"none", "later"} \/ alarm.overdue > StuckAfter THEN Due ELSE alarm

\* (A task beyond MaxQueue is not recorded; that it arrives still counts.)
DeferWork(kind, p) ==
    /\ queue' = IF Len(queue) < MaxQueue
                  THEN Append(queue, [kind |-> kind, peer |-> p, age |-> 0, started |-> FALSE])
                  ELSE queue
    /\ alarm' = Rearmed
    /\ UNCHANGED draining

-----------------------------------------------------------------------------
(* drainDeferredTasks *)

\* Position of task i in the order of the storage's keys.
KeyBefore(q, i, j) ==
    \/ Rank(q[i].kind) < Rank(q[j].kind)
    \/ Rank(q[i].kind) = Rank(q[j].kind) /\ i < j

FirstOf(S, n, Before(_, _)) ==
    {i \in S : Cardinality({j \in S : Before(j, i)}) < n}

\* mutant: keys in order of time only, as earlier builds wrote them
WindowByTime(q) == FirstOf(DOMAIN q, ScanLimit, LAMBDA i, j : i < j)

\* The tasks an alarm reads.
Window(q) == FirstOf(DOMAIN q, ScanLimit, LAMBDA i, j : KeyBefore(q, i, j))

\* deferredTaskIsStale
IsStale(t) ==
    \/ t.kind = "negotiation" /\ t.age > ForwardBudget
    \/ t.kind \in {"heartbeat", "deliver-queued"} /\ t.age > Budget

Coalescable(t) == t.kind \in {"discover", "deliver-queued", "heartbeat"}

\* The tasks of S that ask the same as task i: itself, if it is not coalescable.
SameAs(q, S, i) ==
    {j \in S : j = i \/ (Coalescable(q[i]) /\ q[j].kind = q[i].kind /\ q[j].peer = q[i].peer)}

\* mutant: of several equal tasks the oldest is kept
RedundantNewest(q, S) == {i \in S : \E j \in SameAs(q, S, i) : j < i}

\* coalesceDeferredTasks: of several equal tasks the newest is kept ...
Redundant(q, S) == {i \in S : \E j \in SameAs(q, S, i) : j > i}

\* ... and runs, within its rank, after the tasks that are never coalesced,
\* where the first of its like would have.
RunsBefore(q, S, i, j) ==
    LET Leading(k) == CHOOSE f \in SameAs(q, S, k) : \A g \in SameAs(q, S, k) : f <= g
        Place(k) == IF Coalescable(q[k]) THEN Len(q) + Leading(k) ELSE k
    IN  \/ Rank(q[i].kind) < Rank(q[j].kind)
        \/ Rank(q[i].kind) = Rank(q[j].kind) /\ Place(i) < Place(j)

Live(q) == {i \in Window(q) : ~ IsStale(q[i])}
Discarded(q) == (Window(q) \ Live(q)) \cup Redundant(q, Live(q))
Batch(q) ==
    LET live == Live(q)
    IN  FirstOf(live \ Redundant(q, live), MaxBatch, LAMBDA i, j : RunsBefore(q, live, i, j))

\* The k-th of the positions in S.
Nth(S, k) == CHOOSE i \in S : Cardinality({j \in S : j < i}) = k - 1

\* Queue q without the tasks in S.
Without(q, S) ==
    LET kept == DOMAIN q \ S
    IN  [k \in 1 .. Cardinality(kept) |-> q[Nth(kept, k)]]

\* The alarm runs.  If all it read was stale, there may be more behind it.
Drain ==
    /\ alarm.at = "now"
    /\ ~ alarm.stuck
    /\ ~ draining
    /\ \E batch \in {Batch(queue)}, discarded \in {Discarded(queue)} :
          LET q == [i \in DOMAIN queue |-> [queue[i] EXCEPT !.started = @ \/ i \in batch]]
          IN  /\ queue' = Without(q, discarded)
              /\ draining' = (batch # {})
              /\ alarm' = IF batch = {} /\ queue' # << >> THEN Due ELSE Unset

\* mutant: only an alarm that found nothing to run is set again
TaskOverUnarmed(i) ==
    /\ i \in DOMAIN queue
    /\ queue[i].started
    /\ queue' = Without(queue, {i})
    /\ draining' = \E j \in DOMAIN queue' : queue'[j].started
    /\ UNCHANGED alarm

\* A task returns, fails or times out: its key is deleted.  After the last one
\* the alarm is set for what remains.
TaskOver(i) ==
    /\ i \in DOMAIN queue
    /\ queue[i].started
    /\ queue' = Without(queue, {i})
    /\ draining' = \E j \in DOMAIN queue' : queue'[j].started
    /\ alarm' = IF ~ draining' /\ queue' # << >> THEN Due ELSE alarm

-----------------------------------------------------------------------------
(* The platform *)

\* An alarm whose handler throws before it has run a batch is retried later.
AlarmFails ==
    /\ alarm.at = "now" /\ ~ alarm.stuck /\ ~ draining
    /\ alarm' = Backoff
    /\ UNCHANGED << queue, draining >>

BackoffOver ==
    /\ alarm.at = "later"
    /\ alarm' = Due
    /\ UNCHANGED << queue, draining >>

\* A due alarm is never run.
AlarmSticks ==
    /\ alarm.at = "now" /\ ~ alarm.stuck
    /\ alarm' = [alarm EXCEPT !.stuck = TRUE]
    /\ UNCHANGED << queue, draining >>

Older(n, max) == IF n < max THEN n + 1 ELSE n

Tick ==
    /\ queue' = [i \in DOMAIN queue |-> [queue[i] EXCEPT !.age = Older(@, MaxAge)]]
    /\ alarm' = IF alarm.at = "now"
                  THEN [alarm EXCEPT !.overdue = Older(@, StuckAfter + 1)] ELSE alarm
    /\ UNCHANGED draining

\* The constructor sets an alarm for tasks left behind, if there is none.
Restart ==
    /\ queue' = [i \in DOMAIN queue |-> [queue[i] EXCEPT !.started = FALSE]]
    /\ alarm' = IF queue # << >> /\ alarm.at = "none" THEN Due ELSE alarm
    /\ draining' = FALSE

Next ==
    \/ \E kind \in Kinds, p \in Peers : DeferWork(kind, p)
    \/ Drain
    \/ \E i \in 1 .. MaxQueue : TaskOver(i)
    \/ AlarmFails
    \/ BackoffOver
    \/ AlarmSticks
    \/ Tick
    \/ Restart

Spec == Init /\ [][Next]_vars

\* Peers keep sending frames that need work, time passes, and the platform runs
\* a due alarm unless it is stuck; an alarm that is set anew does not stick, and
\* its handler does not throw, every time.
Fairness ==
    /\ WF_vars(\E kind \in Kinds, p \in Peers : DeferWork(kind, p))
    /\ WF_vars(Tick)
    /\ SF_vars(Drain)
    /\ WF_vars(\E i \in 1 .. MaxQueue : TaskOver(i))

FairSpec == Spec /\ Fairness

-----------------------------------------------------------------------------
(* Properties *)

\* The queue is served again and again: no alarm that fails, backs off or is
\* stuck holds it up for good while peers keep sending frames.
QueueServed == []<><<Drain>>_vars

\* However alarms, new work and restarts interleave, no more than one batch of
\* tasks is running at a time.
OneBatchAtATime == Cardinality({i \in DOMAIN queue : queue[i].started}) <= MaxBatch

\* No task waits without an alarm to run it: after every frame, batch, failure
\* and restart, a non-empty queue has an alarm that is set, or one that runs.
NoStrandedTask == queue # << >> => alarm.at # "none" \/ draining

\* No task is run while a more urgent one, that is not stale, is left waiting
\* in storage, however long the backlog in front of it was put.
UrgentFirst ==
    [][Drain => LET batch == Batch(queue)
                    waiting == DOMAIN queue \ (batch \cup Discarded(queue))
                IN  \A i \in batch, j \in waiting :
                       Rank(queue[i].kind) <= Rank(queue[j].kind)]_vars

\* A discover that is not run is superseded: a newer one of the same peer is
\* still queued or starts now, so the peer gets an answer.
DiscoverAnswered ==
    [][Drain => LET discarded == Discarded(queue)
                    kept == DOMAIN queue \ discarded
                IN  \A i \in discarded : queue[i].kind = "discover" =>
                       \E j \in kept : j > i /\ queue[j].kind = "discover"
                                      /\ queue[j].peer = queue[i].peer]_vars

\* The queue is sound: its tasks are where they belong, no two batches overlap, and
\* none is left without an alarm.
QueueIsSound == TypeOK /\ OneBatchAtATime /\ NoStrandedTask
=============================================================================
