--------------------------- MODULE RelayFederation ---------------------------
(***************************************************************************)
(* How a relay finds the relay that holds the addressee of a frame         *)
(* (src/src/index.js, forwardFederatedMessage and handleRelayForward): it  *)
(* asks the relay it remembers for that peer (the hint), then those that   *)
(* serve the room, known from a cached lookup, then once more those of a   *)
(* fresh lookup.  Each relay asked delivers the frame, queues it, or       *)
(* refuses it; answers get lost, and the whole of it has a deadline, after *)
(* which the frame is queued at home although calls are still under way.   *)
(*                                                                         *)
(* One peer moves between relays; the frames for it are sent at Home.  The *)
(* queue of tasks and the stored rows of one relay are DeferredQueue and   *)
(* RelayForwarding.                                                        *)
(***************************************************************************)
EXTENDS Naturals, Sequences, FiniteSets, SequencesExt

CONSTANTS
    Relays, Home,   \* the relays, and the one of the senders
    Frames,         \* frames for the peer, each sent once
    None,           \* no relay
    ForwardLimit,   \* KADEMLIA_FORWARD_LIMIT
    MaxMoves,       \* bound on the sockets the peer opens
    MaxUpsets       \* bound on lost answers, failed lookups, passed deadlines

ASSUME RelayFederationAssumption ==
    /\ Home \in Relays /\ None \notin Relays
    /\ ForwardLimit \in Nat \ {0} /\ MaxMoves \in Nat /\ MaxUpsets \in Nat

Others == Relays \ {Home}

VARIABLES
    peer,       \* what a relay knows of the peer: its socket, which may be dead, or that it rests
    listed,     \* when it was registered there (psp_announcements), 0 if it is not
    gone,       \* absentPeerUntilMs at Home
    serves,     \* the relays whose provider record of the room is published
    hint,       \* peerRelayHints at Home
    cache,      \* recentPeerProviderLookups at Home
    task,       \* the forward tasks
    held,       \* frames queued at a relay (psp_relay)
    got,        \* history: the relays that handed a frame to the peer
    dropped,    \* history: frames for a peer that had said goodbye
    wasted,     \* history: frames sent on a dead socket
    steady,     \* history: where the peer was live and listed since a task began
    blind,      \* history: tasks in which something was lost or late
    spent       \* what is used up of the bounds

peerVars == << peer, listed, serves >>
vars == << peerVars, gone, hint, cache, task, held, got, dropped, wasted, steady, blind, spent >>

\* "new", a call to the hinted relay, the lookup, calls to the room's relays, "over"
Task == [pc : {"new", "hinted", "lookup", "asking", "over"},
         attempted : SUBSET Relays,   \* attempted
         open : SUBSET Relays,        \* calls under way
         round : SUBSET Relays,       \* remoteUrls
         queued : SUBSET Relays,      \* queued: the hint, then results
         delivered : SUBSET Relays,
         refreshed : BOOLEAN,         \* options.refreshed
         timely : BOOLEAN]            \* the deadline has not passed

TypeOK ==
    /\ peer \in [Relays -> {"none", "live", "dead", "resting"}]
    /\ listed \in [Relays -> 0 .. MaxMoves]
    /\ gone \in BOOLEAN
    /\ serves \subseteq Relays /\ hint \in Others \cup {None}
    /\ cache \in [at : SUBSET Relays, age : {"none", "fresh", "old"}]
    /\ task \in [Frames -> Task]
    /\ held \in [Relays -> SUBSET Frames]
    /\ \A f \in Frames : got[f] \in Seq(Relays)
    /\ dropped \subseteq Frames /\ wasted \subseteq Frames /\ blind \subseteq Frames
    /\ steady \in [Frames -> Relays \cup {None}]
    /\ spent \in [moves : 0 .. MaxMoves, upsets : 0 .. MaxUpsets]
    \* a peer has one socket that works
    /\ Cardinality({r \in Relays : peer[r] = "live"}) <= 1

NoCache == [at |-> {}, age |-> "none"]

Init ==
    /\ peer = [r \in Relays |-> "none"]
    /\ listed = [r \in Relays |-> 0]
    /\ gone = FALSE
    /\ serves \in SUBSET Others
    /\ hint = None
    /\ cache = NoCache
    /\ task = [f \in Frames |-> [pc |-> "new", attempted |-> {}, open |-> {}, round |-> {}, queued |-> {},
                                 delivered |-> {}, refreshed |-> FALSE, timely |-> TRUE]]
    /\ held = [r \in Relays |-> {}]
    /\ got = [f \in Frames |-> << >>]
    /\ dropped = {} /\ wasted = {} /\ blind = {}
    /\ steady = [f \in Frames |-> None]
    /\ spent = [moves |-> 0, upsets |-> 0]

-----------------------------------------------------------------------------
(* The peer, and what relays learn of it *)

taskVars == << task, held, got, dropped, wasted, blind >>

\* The peer is at r no more: no task can count on it.
Unsteady(r) == steady' = [f \in Frames |-> IF steady[f] = r THEN None ELSE steady[f]]

Arrive(r) ==
    /\ spent.moves < MaxMoves
    /\ \A o \in Relays : peer[o] # "live"
    /\ peer' = [peer EXCEPT ![r] = "live"]
    /\ listed' = [listed EXCEPT ![r] = spent.moves + 1]
    /\ gone' = (gone /\ r # Home)
    /\ spent' = [spent EXCEPT !.moves = @ + 1]
    /\ UNCHANGED << serves, hint, cache, taskVars, steady >>

\* publishPeerProviderRecords, of the announce task
Publish(r) ==
    /\ peer[r] = "live" /\ r \notin serves
    /\ serves' = serves \cup {r}
    /\ UNCHANGED << peer, listed, gone, hint, cache, taskVars, steady, spent >>

\* deliverQueuedRelayMessages, of an announce task
Collect(r) ==
    /\ peer[r] = "live" /\ held[r] # {}
    /\ got' = [f \in Frames |-> IF f \in held[r] THEN Append(got[f], r) ELSE got[f]]
    /\ held' = [held EXCEPT ![r] = {}]
    /\ UNCHANGED << peerVars, gone, hint, cache, task, dropped, wasted, blind, steady, spent >>

\* withdraw: a goodbye, or a rest; or the socket's end, seen at once
Depart(r, as) ==
    /\ peer[r] = "live"
    /\ peer' = [peer EXCEPT ![r] = IF as = "resting" THEN "resting" ELSE "none"]
    /\ gone' = IF r # Home THEN gone ELSE (as = "goodbye" \/ (gone /\ as # "resting"))
    /\ Unsteady(r)
    /\ UNCHANGED << listed, serves, hint, cache, taskVars, spent >>

\* The connection is lost, and the relay does not know.
Cut(r) ==
    /\ peer[r] = "live"
    /\ peer' = [peer EXCEPT ![r] = "dead"]
    /\ Unsteady(r)
    /\ UNCHANGED << listed, serves, gone, hint, cache, taskVars, spent >>

\* It gets to know, or the mark of a rest lapses.
Forgets(r) ==
    /\ peer[r] \in {"dead", "resting"}
    /\ peer' = [peer EXCEPT ![r] = "none"]
    /\ UNCHANGED << listed, serves, gone, hint, cache, taskVars, steady, spent >>

\* The "peer-left" task, or the end of the lease.
Unlist(r) ==
    /\ peer[r] # "live" /\ listed[r] > 0
    /\ listed' = [listed EXCEPT ![r] = 0]
    /\ UNCHANGED << peer, serves, gone, hint, cache, taskVars, steady, spent >>

\* rememberPeerRelayHint
Remember(r) == hint' = r /\ gone' = FALSE

\* Registrations elsewhere are hints.
Hinted(lists) == lists \ {Home}

\* findFederatedPeers: of the relays that answer, the newest registration wins
\* (mergeDiscoveredPeers); the registration at Home gives no hint.
Discover ==
    /\ \E answering \in SUBSET (serves \ {Home}) :
          LET lists == {r \in answering \cup {Home} : listed[r] > 0}
          IN  \E r \in Hinted(lists) :
                 /\ \A o \in lists : listed[o] <= listed[r]
                 /\ Remember(r)
    /\ UNCHANGED << peerVars, cache, taskVars, steady, spent >>

\* handleRelayForward at Home: a frame of the peer comes via its relay.
FrameFrom(r) ==
    /\ r # Home /\ peer[r] = "live"
    /\ Remember(r)
    /\ UNCHANGED << peerVars, cache, taskVars, steady, spent >>

\* lookupRoomProviders, of a forward to another peer of the room
OtherLookup ==
    /\ cache.age = "none" /\ serves # {}
    /\ cache' = [at |-> serves, age |-> "fresh"]
    /\ UNCHANGED << peerVars, gone, hint, taskVars, steady, spent >>

\* getPeerRelayHint, the goodbye's minute, and the age of a cached lookup, which
\* another forward may also forget (refreshRoomProviders)
Lapses ==
    /\ \/ hint # None /\ hint' = None /\ UNCHANGED << gone, cache >>
       \/ gone /\ gone' = FALSE /\ UNCHANGED << hint, cache >>
       \/ /\ cache.age # "none"
          /\ cache' = IF cache.age = "fresh" THEN [cache EXCEPT !.age = "old"] ELSE NoCache
          /\ UNCHANGED << hint, gone >>
    /\ UNCHANGED << peerVars, taskVars, steady, spent >>

-----------------------------------------------------------------------------
(* The forward task at Home *)

Upset(f) ==
    /\ spent.upsets < MaxUpsets
    /\ spent' = [spent EXCEPT !.upsets = @ + 1]
    /\ blind' = blind \cup {f}

\* The task ends undelivered: the frame is queued here, unless it already was.
Held(h, f, t) == IF t.timely THEN [h EXCEPT ![Home] = @ \cup {f}] ELSE h

\* The start of forwardFederatedMessage: the hint is asked first.
Begins(t) ==
    IF hint \in Others /\ hint \notin t.attempted
      THEN [t EXCEPT !.pc = "hinted", !.attempted = @ \cup {hint}, !.open = {hint}, !.queued = {}]
      ELSE [t EXCEPT !.pc = "lookup", !.queued = {}]

\* runDeferredTask (forward)
Start(f) ==
    /\ task[f].pc = "new"
    /\ steady' = [steady EXCEPT ![f] =
          IF \E r \in Others \cap serves : peer[r] = "live"
            THEN CHOOSE r \in Others : peer[r] = "live" ELSE None]
    /\ LET ends == [task EXCEPT ![f].pc = "over"] IN
       \/ /\ peer[Home] = "live"
          /\ got' = [got EXCEPT ![f] = Append(@, Home)]
          /\ task' = ends /\ UNCHANGED << held, dropped, wasted >>
       \/ /\ peer[Home] = "dead"
          /\ wasted' = wasted \cup {f}
          /\ task' = ends /\ UNCHANGED << held, got, dropped >>
       \/ /\ peer[Home] = "resting"
          /\ held' = [held EXCEPT ![Home] = @ \cup {f}]
          /\ task' = ends /\ UNCHANGED << got, dropped, wasted >>
       \/ /\ peer[Home] = "none" /\ gone
          /\ dropped' = dropped \cup {f}
          /\ task' = ends /\ UNCHANGED << held, got, wasted >>
       \/ /\ peer[Home] = "none" /\ ~ gone
          /\ task' = [task EXCEPT ![f] = Begins(@)]
          /\ UNCHANGED << held, got, dropped, wasted >>
    /\ UNCHANGED << peerVars, gone, hint, cache, blind, spent >>

\* handleRelayForward at the relay asked
Outcome(r) ==
    IF peer[r] \in {"live", "dead"} THEN "delivered"
    ELSE IF peer[r] = "resting" \/ listed[r] > 0 THEN "queued"
    ELSE "failed"

\* Its effect, and the answer, which may get lost.
Answer(f, r) ==
    LET t == task[f] IN
    /\ r \in t.open
    /\ got' = IF peer[r] = "live" THEN [got EXCEPT ![f] = Append(@, r)] ELSE got
    /\ wasted' = IF peer[r] = "dead" THEN wasted \cup {f} ELSE wasted
    /\ held' = IF Outcome(r) = "queued" THEN [held EXCEPT ![r] = @ \cup {f}] ELSE held
    /\ \E result \in {Outcome(r), "failed"} :
          /\ IF result = Outcome(r) THEN UNCHANGED << blind, spent >> ELSE Upset(f)
          /\ task' = [task EXCEPT ![f] =
                [t EXCEPT !.open = @ \ {r},
                          !.queued = IF result = "queued" THEN @ \cup {r} ELSE @,
                          !.delivered = IF result = "delivered" THEN @ \cup {r} ELSE @,
                          !.pc = IF @ # "hinted" THEN @ ELSE IF result = "delivered" THEN "over" ELSE "lookup"]]
    /\ UNCHANGED << peerVars, gone, hint, cache, dropped, steady >>

\* lookupRoomProviders: the cached relays, or those that serve the room now; an
\* empty answer is not cached.
Providers == IF cache.age = "none" THEN serves ELSE cache.at

\* A frame that the hint has queued is left there if the hint serves the room.
Lookup(f) ==
    LET t == task[f] IN
    /\ t.pc = "lookup"
    /\ cache' = IF cache.age = "none" /\ serves # {} THEN [at |-> serves, age |-> "fresh"] ELSE cache
    /\ IF t.queued \cap Providers # {}
         THEN task' = [task EXCEPT ![f].pc = "over"]
         ELSE LET able == (Providers \ {Home}) \ t.attempted
              IN \E S \in SUBSET able :
                    /\ S = able \/ Cardinality(S) = ForwardLimit
                    /\ Cardinality(S) <= ForwardLimit
                    /\ task' = [task EXCEPT ![f] =
                          [t EXCEPT !.pc = "asking", !.open = S, !.round = S, !.queued = {}]]
    /\ UNCHANGED << peerVars, gone, hint, held, got, dropped, wasted, blind, steady, spent >>

LookupFails(f) ==
    /\ task[f].pc = "lookup"
    /\ Upset(f)
    /\ task' = [task EXCEPT ![f].pc = "over"]
    /\ held' = Held(held, f, task[f])
    /\ UNCHANGED << peerVars, gone, hint, cache, got, dropped, wasted, steady >>

\* mutant: the second round asks the relays of the first again
AttemptedNone(t) == {}

\* What the second round does not ask again.
Attempted(t) == t.attempted \cup t.round

\* No relay took the frame.
Ends(f) ==
    /\ task' = [task EXCEPT ![f].pc = "over"]
    /\ held' = Held(held, f, task[f])
    /\ UNCHANGED << gone, hint, cache >>

\* mutant: no second round
RefreshesNever(t) == FALSE

\* refreshRoomProviders
Refreshes(t) == ~ t.refreshed /\ cache.age = "old"

Conclude(f) ==
    LET t == task[f] IN
    /\ t.pc = "asking" /\ t.open = {}
    /\ \/ /\ t.delivered # {}
          /\ \E r \in t.delivered : Remember(r)
          /\ task' = [task EXCEPT ![f].pc = "over"]
          /\ UNCHANGED << cache, held >>
       \/ /\ t.delivered = {} /\ t.queued # {}
          /\ task' = [task EXCEPT ![f].pc = "over"]
          /\ UNCHANGED << gone, hint, cache, held >>
       \/ /\ t.delivered = {} /\ t.queued = {} /\ Refreshes(t)
          /\ cache' = NoCache
          /\ task' = [task EXCEPT ![f] =
                Begins([t EXCEPT !.attempted = Attempted(t), !.round = {}, !.refreshed = TRUE])]
          /\ UNCHANGED << gone, hint, held >>
       \/ /\ t.delivered = {} /\ t.queued = {} /\ ~ Refreshes(t)
          /\ Ends(f)
    /\ UNCHANGED << peerVars, got, dropped, wasted, blind, steady, spent >>

\* FEDERATED_FORWARD_DEADLINE_MS: the frame is queued; the calls go on.
Deadline(f) ==
    /\ task[f].pc \in {"hinted", "lookup", "asking"} /\ task[f].timely
    /\ Upset(f)
    /\ task' = [task EXCEPT ![f].timely = FALSE]
    /\ held' = Held(held, f, task[f])
    /\ UNCHANGED << peerVars, gone, hint, cache, got, dropped, wasted, steady >>

-----------------------------------------------------------------------------
Next ==
    \/ \E r \in Relays :
          \/ Arrive(r) \/ Unlist(r) \/ Publish(r) \/ Collect(r) \/ Cut(r) \/ Forgets(r) \/ FrameFrom(r)
          \/ \E as \in {"goodbye", "resting", "closed"} : Depart(r, as)
    \/ Discover \/ OtherLookup \/ Lapses
    \/ \E f \in Frames :
          \/ Start(f) \/ Lookup(f) \/ LookupFails(f) \/ Conclude(f) \/ Deadline(f)
          \/ \E r \in Others : Answer(f, r)

Spec == Init /\ [][Next]_vars

-----------------------------------------------------------------------------
(* Properties *)

\* However a frame is retried and queued, no relay hands it to the peer twice:
\* not after an answer that was lost, a second round, or a deadline that passed
\* while the relay was being asked.  (Two relays may, and the client drops the
\* second copy.)
NoRelayDeliversTwice == \A f \in Frames : IsInjective(got[f])

\* No frame is forgotten: once its task is over it was handed to the peer or is
\* queued at some relay, unless its peer had said goodbye or a relay sent it on
\* a socket that was dead.
NothingForgotten ==
    \A f \in Frames :
       task[f].pc = "over" =>
          \/ got[f] # << >> \/ f \in dropped \/ f \in wasted
          \/ \E r \in Relays : f \in held[r]

\* What becomes of every frame: handed over, queued or accounted for, and by no
\* relay twice.
FramesAreKept == NoRelayDeliversTwice /\ NothingForgotten

\* The peer was at a relay that serves the room as long as the task ran, and
\* nothing was lost or late; yet the frame did not reach it.
Missed(f) ==
    /\ task[f].pc # "over" /\ task'[f].pc = "over"
    /\ steady[f] # None /\ f \notin blind' /\ got'[f] = << >>

\* A live route is found, whatever stale hint or cached lookup a relay has: a
\* frame misses its peer only if another relay took it, or the lookup was not
\* repeated, being fresh, or forgotten meanwhile for the sake of another frame.
LiveRouteIsFound ==
    [][\A f \in Frames : Missed(f) =>
          \/ \E r \in Others : f \in held'[r]
          \/ f \in wasted'
          \/ cache.age # "old"]_vars
=============================================================================
