---------------------------- MODULE RoomDiscovery ----------------------------
(***************************************************************************)
(* How peers that join one room at two relays find each other              *)
(* (src/src/index.js, discoverJoiningPeer and findFederatedPeers;          *)
(* relay-overlay.js, publishPeerProviderRecords and lookupScopeProviders). *)
(* A relay lists its peer, looks for the relays that serve the room while  *)
(* it publishes that it does, asks them for their peers, and looks again   *)
(* if it found nobody.  Lookups, and rounds of questions, are shared for a *)
(* few seconds by all the peers of a relay, finished or not.               *)
(*                                                                         *)
(* One room, one peer of which has joined before, or does not at all.      *)
(* Where a record lies in the overlay, and how a walk finds it, is         *)
(* RelayOverlay: here a walk reads, at one time, what the nearest relays   *)
(* hold and what the relays it happens to ask hold of their own.  Peers do *)
(* not leave.                                                              *)
(***************************************************************************)
EXTENDS Naturals, FiniteSets

CONSTANTS
    Guests,     \* the peers of the room
    Hosts,      \* the relays
    HostOf,     \* the relay of each peer
    First,      \* the peer that has joined before, or does not
    Nobody,
    MaxSlips    \* bound on what fails, and on what others do, or time, while a peer is joining

ASSUME RoomDiscoveryAssumption ==
    /\ HostOf \in [Guests -> Hosts] /\ First \in Guests /\ Nobody \notin Guests
    /\ MaxSlips \in Nat

VARIABLES
    reaches,    \* the relays a walk of each relay asks, but for those that hold its record
    rows,       \* peers that are listed at their relay (psp_announcements)
    kept,       \* relays that hold their own record (storeProviderRecord)
    placed,     \* relays whose record the nearest hold
    marked,     \* recentProviderPublishes
    lookup,     \* sharedScopeLookups, of each relay
    round,      \* sharedFederatedQueries, of each relay and set of relays asked
    stage,      \* where each peer's task stands
    seek,       \* its findFederatedPeers()
    pub,        \* its publishPeerProviderRecords()
    told,       \* history: the peers each peer was told of
    leant,      \* history: peers whose task used what was begun for another's, or met a failure
    slips       \* how much of that has been so far

roomVars == << reaches, rows, kept, placed, marked, lookup, round, stage, seek, pub, told, leant, slips >>
records == << kept, placed, marked >>
shares == << lookup, round >>

\* A promise others may wait for: begun by the task of one peer, for a few seconds new.
NoPromise == [state |-> "none", by |-> Nobody, got |-> {}, fresh |-> FALSE]
Promises(S) == [state : {"none", "pending", "done"}, by : Guests \cup {Nobody}, got : SUBSET S, fresh : BOOLEAN]

NoSeek == [pc |-> "no", on |-> Nobody, have |-> {}, at |-> {}]
NoPub == [pc |-> "no", got |-> {}]
Beginning == {"out", "eager", "await", "close", "second"}

RoomTypeOK ==
    /\ reaches \in [Hosts -> SUBSET Hosts]
    /\ rows \subseteq Guests /\ leant \subseteq Guests
    /\ {kept, placed, marked} \subseteq SUBSET Hosts /\ placed \subseteq kept
    /\ lookup \in [Hosts -> Promises(Hosts)]
    /\ round \in [Hosts -> [SUBSET Hosts -> Promises(Guests)]]
    /\ stage \in [Guests -> Beginning \cup {"in", "discover", "away"}]
    /\ seek \in [Guests -> [pc : {"no", "walk", "retry", "ready", "ask", "found", "failed"},
                            on : Guests \cup {Nobody}, have : SUBSET Guests, at : SUBSET Hosts]]
    /\ pub \in [Guests -> [pc : {"no", "start", "read", "place", "done", "throttled", "failed"}, got : SUBSET Hosts]]
    /\ told \in [Guests -> SUBSET Guests]
    /\ slips \in 0 .. MaxSlips

RoomInit ==
    /\ rows \in {{}, {First}}
    /\ \/ reaches = [h \in Hosts |-> {}]
       \/ rows = {} /\ reaches = [h \in Hosts |-> Hosts]
    /\ kept = {HostOf[g] : g \in rows} /\ placed = kept /\ marked = kept
    /\ leant = {}
    /\ lookup = [h \in Hosts |-> NoPromise]
    /\ round = [h \in Hosts |-> [urls \in SUBSET Hosts |-> NoPromise]]
    /\ stage = [g \in Guests |-> IF g # First THEN "out" ELSE IF g \in rows THEN "in" ELSE "away"]
    /\ seek = [g \in Guests |-> NoSeek]
    /\ pub = [g \in Guests |-> NoPub]
    /\ told = [g \in Guests |-> {}]
    /\ slips = 0

Slip ==
    /\ slips < MaxSlips
    /\ slips' = slips + 1

\* The other peers of the room.
Company(g) == {o \in Guests \ {g} : stage[o] # "away"}

\* While a peer is joining, only so many other things happen.
Joining == \E g \in Guests : stage[g] \in {"eager", "await", "close", "second"}
Meanwhile == IF Joining THEN Slip ELSE UNCHANGED slips

\* It matters for a peer that is joining.
Leans(S) == leant' = leant \cup {g \in S : stage[g] \in Beginning}

\* findPeers
Listed(h) == {g \in rows : HostOf[g] = h}

\* What a walk of h finds.
Records(h) == placed \cup {o \in reaches[h] \cup {h} : o \in kept}

-----------------------------------------------------------------------------
(* lookupScopeProviders and sharedFederatedPeerQuery *)

\* The relay's own lookup, shared from now on.
OwnLookup(g, have) ==
    /\ lookup' = [lookup EXCEPT ![HostOf[g]] = [state |-> "pending", by |-> g, got |-> {}, fresh |-> TRUE]]
    /\ seek' = [seek EXCEPT ![g] = [pc |-> "walk", on |-> g, have |-> have, at |-> {}]]

\* The start of findFederatedPeers, with no providers given.
Seek(g, have) ==
    LET shared == lookup[HostOf[g]] IN
    \/ shared.fresh
       /\ seek' = [seek EXCEPT ![g] = IF shared.state = "done"
                      THEN [pc |-> "ready", on |-> Nobody, have |-> have, at |-> shared.got]
                      ELSE [pc |-> "walk", on |-> shared.by, have |-> have, at |-> {}]]
       /\ Leans({g})
       /\ UNCHANGED lookup
    \/ ~ shared.fresh /\ OwnLookup(g, have) /\ UNCHANGED leant

\* Those that wait for the walk or the round that g's task began.
Waiting(g, pc) == {w \in Guests : seek[w].pc = pc /\ seek[w].on = g}

WalkEnds(g) ==
    LET h == HostOf[g] IN
    /\ g \in Waiting(g, "walk")
    /\ seek' = [w \in Guests |-> IF w \in Waiting(g, "walk")
                    THEN [seek[w] EXCEPT !.pc = "ready", !.on = Nobody, !.at = Records(h)] ELSE seek[w]]
    /\ lookup' = IF lookup[h].state = "pending" /\ lookup[h].by = g
                    THEN [lookup EXCEPT ![h] = [@ EXCEPT !.state = "done", !.by = Nobody, !.got = Records(h)]] ELSE lookup
    /\ UNCHANGED << reaches, rows, records, round, stage, pub, told, leant, slips >>

\* It is forgotten, if it is still the one that is shared; those who shared it do
\* their own, and the task that began it fails.
WalkFails(g) ==
    LET h == HostOf[g] IN
    /\ g \in Waiting(g, "walk") /\ Slip
    /\ seek' = [w \in Guests |-> IF w \in Waiting(g, "walk")
                    THEN [seek[w] EXCEPT !.pc = IF w = g THEN "failed" ELSE "retry", !.on = Nobody] ELSE seek[w]]
    /\ lookup' = IF lookup[h].state = "pending" /\ lookup[h].by = g
                    THEN [lookup EXCEPT ![h] = NoPromise] ELSE lookup
    /\ Leans(Waiting(g, "walk"))
    /\ UNCHANGED << reaches, rows, records, round, stage, pub, told >>

Retry(g) ==
    /\ seek[g].pc = "retry"
    /\ OwnLookup(g, seek[g].have)
    /\ UNCHANGED << reaches, rows, records, round, stage, pub, told, leant, slips >>

\* What becomes of the peers that each task of S has found: a joining peer's first
\* look and a reply are sent; a joining peer that found nobody is to look again.
Found(S, have) ==
    LET sends == {g \in S : stage[g] \in {"eager", "discover"}} IN
    /\ told' = [g \in Guests |-> IF g \in sends THEN told[g] \cup have[g] ELSE told[g]]
    /\ stage' = [g \in Guests |->
          IF g \notin sends THEN stage[g]
          ELSE IF stage[g] = "discover" THEN "in"
          ELSE IF have[g] = {} THEN "await" ELSE "close"]
    /\ seek' = [g \in Guests |->
          IF g \notin S THEN seek[g]
          ELSE IF stage[g] = "discover" THEN NoSeek ELSE [NoSeek EXCEPT !.pc = "found", !.have = have[g]]]

\* The relays that serve the room are asked, but for this one.
Ask(g) ==
    LET h == HostOf[g]
        urls == seek[g].at \ {h}
        shared == round[h][urls]
        have == [w \in {g} |-> seek[g].have \cup (shared.got \ {g})]
    IN
    /\ seek[g].pc = "ready"
    /\ \/ /\ urls = {}
          /\ Found({g}, have)
          /\ UNCHANGED << round, leant >>
       \/ /\ urls # {} /\ shared.fresh /\ shared.state = "done"
          /\ Found({g}, have) /\ Leans({g})
          /\ UNCHANGED round
       \/ /\ urls # {} /\ shared.fresh /\ shared.state = "pending"
          /\ seek' = [seek EXCEPT ![g] = [@ EXCEPT !.pc = "ask", !.on = shared.by]]
          /\ Leans({g})
          /\ UNCHANGED << round, stage, told >>
       \/ /\ urls # {} /\ ~ shared.fresh
          /\ round' = [round EXCEPT ![h][urls] = [state |-> "pending", by |-> g, got |-> {}, fresh |-> TRUE]]
          /\ seek' = [seek EXCEPT ![g] = [@ EXCEPT !.pc = "ask", !.on = g]]
          /\ UNCHANGED << stage, told, leant >>
    /\ UNCHANGED << reaches, rows, records, lookup, pub, slips >>

\* queryRelayForPeers: a relay that does not answer has no peers.
RoundEnds(g) ==
    LET h == HostOf[g]
        urls == seek[g].at \ {h}
        heirs == Waiting(g, "ask")
    IN
    /\ g \in heirs
    /\ \E answering \in {urls} \cup {urls \ {o} : o \in urls} :
          LET got == UNION {Listed(o) : o \in answering} IN
          /\ IF answering = urls THEN UNCHANGED << slips, leant >> ELSE Slip /\ Leans(heirs)
          /\ Found(heirs, [w \in heirs |-> seek[w].have \cup (got \ {w})])
          /\ round' = IF round[h][urls].state = "pending" /\ round[h][urls].by = g
                         THEN [round EXCEPT ![h][urls] = [@ EXCEPT !.state = "done", !.by = Nobody, !.got = got]]
                         ELSE round
    /\ UNCHANGED << reaches, rows, records, lookup, pub >>

\* mutant: what is shared is never forgotten
AgedNever(p) == p
\* SCOPE_LOOKUP_SHARE_MS and FEDERATED_PEER_SHARE_MS have passed; what is not shared
\* any more, and waited for by nobody new, is as good as forgotten.
Aged(p) == IF p.state = "done" THEN NoPromise ELSE [p EXCEPT !.fresh = FALSE]

AgeLookup(h) ==
    /\ lookup[h].fresh
    /\ lookup' = [lookup EXCEPT ![h] = Aged(@)]
    /\ Meanwhile
    /\ UNCHANGED << reaches, rows, records, round, stage, seek, pub, told, leant >>

AgeRound(h) ==
    \E urls \in SUBSET Hosts :
       /\ round[h][urls].fresh
       /\ round' = [round EXCEPT ![h][urls] = Aged(@)]
       /\ Meanwhile
       /\ UNCHANGED << reaches, rows, records, lookup, stage, seek, pub, told, leant >>

-----------------------------------------------------------------------------
(* publishPeerProviderRecords *)

\* mutant: the relay's own copy is not kept until the nearest have theirs
KeptLate(h) == kept
\* replicateProviderRecord keeps a copy before it looks for the nearest relays.
KeptFirst(h) == kept \cup {h}

Publish(g) ==
    LET h == HostOf[g] IN
    /\ pub[g].pc = "start"
    /\ \/ /\ h \in marked
          /\ pub' = [pub EXCEPT ![g].pc = "throttled"]
          /\ Leans({g})
          /\ UNCHANGED << marked, kept >>
       \/ /\ h \notin marked
          /\ marked' = marked \cup {h}
          /\ kept' = KeptFirst(h)
          /\ pub' = [pub EXCEPT ![g].pc = "read"]
          /\ UNCHANGED leant
    /\ UNCHANGED << reaches, rows, placed, shares, stage, seek, told, slips >>

\* The walk to the nearest relays, which answer with the records they have.
Reads(g) ==
    /\ pub[g].pc = "read"
    /\ pub' = [pub EXCEPT ![g] = [pc |-> "place", got |-> Records(HostOf[g])]]
    /\ UNCHANGED << reaches, rows, records, shares, stage, seek, told, leant, slips >>

Places(g) ==
    /\ pub[g].pc = "place"
    /\ kept' = kept \cup {HostOf[g]}
    /\ placed' = placed \cup {HostOf[g]}
    /\ pub' = [pub EXCEPT ![g].pc = "done"]
    /\ UNCHANGED << reaches, rows, marked, shares, stage, seek, told, leant, slips >>

\* It fails, and is not tried again until PROVIDER_PUBLISH_INTERVAL_MS has passed:
\* longer than any task takes.  To publish once more what the nearest hold changes
\* nothing, and is left out.
PublishFails(g) ==
    /\ pub[g].pc \in {"read", "place"} /\ Slip
    /\ pub' = [pub EXCEPT ![g] = [NoPub EXCEPT !.pc = "failed"]]
    /\ Leans({g})
    /\ UNCHANGED << reaches, rows, records, shares, stage, seek, told >>

Unmark(h) ==
    /\ h \in marked
    /\ h \notin placed
    /\ \A g \in Guests : HostOf[g] = h => stage[g] \in {"in", "discover", "away"} /\ pub[g] = NoPub
    /\ marked' = marked \ {h}
    /\ UNCHANGED << reaches, rows, kept, placed, shares, stage, seek, pub, told, leant, slips >>

-----------------------------------------------------------------------------
(* runDeferredTask: announce, and discover *)

\* The peer is listed; discover() and publish() begin together.
Join(g) ==
    /\ stage[g] = "out"
    /\ rows' = rows \cup {g}
    /\ stage' = [stage EXCEPT ![g] = "eager"]
    /\ pub' = [pub EXCEPT ![g].pc = "start"]
    /\ Seek(g, Listed(HostOf[g]))
    /\ UNCHANGED << reaches, records, round, told, slips >>

\* It found nobody: again, with the providers that publication has read, or, when it
\* was throttled, with a lookup.
LookAgain(g) ==
    /\ stage[g] = "await" /\ pub[g].pc \in {"done", "throttled"}
    /\ stage' = [stage EXCEPT ![g] = "second"]
    /\ pub' = [pub EXCEPT ![g] = NoPub]
    /\ IF pub[g].pc = "done"
         THEN /\ seek' = [seek EXCEPT ![g] = [NoSeek EXCEPT !.pc = "ready", !.have = Listed(HostOf[g]) \ {g},
                                                            !.at = pub[g].got]]
              /\ UNCHANGED << lookup, leant >>
         ELSE Seek(g, Listed(HostOf[g]) \ {g})
    /\ UNCHANGED << reaches, rows, records, round, told, slips >>

\* broadcastPeerList: every subscriber of the room is sent the peers listed here
\* and those found.
Broadcast(g, found) ==
    LET h == HostOf[g] IN
    told' = [s \in Guests |-> IF HostOf[s] = h /\ stage[s] \notin {"out", "away"}
                THEN told[s] \cup ((Listed(h) \cup found) \ {s}) ELSE told[s]]

Joined(g) ==
    /\ \/ stage[g] = "close" /\ pub[g].pc \in {"done", "throttled"}
       \/ stage[g] = "second" /\ seek[g].pc = "found"
    /\ Broadcast(g, seek[g].have)
    /\ stage' = [stage EXCEPT ![g] = "in"]
    /\ seek' = [seek EXCEPT ![g] = NoSeek]
    /\ pub' = [pub EXCEPT ![g] = NoPub]
    /\ UNCHANGED << reaches, rows, records, shares, leant, slips >>

\* A lookup or the publication failed: the task ends there, and lists nobody.
JoinFails(g) ==
    /\ \/ stage[g] \in {"eager", "second"} /\ seek[g].pc = "failed"
       \/ stage[g] \in {"await", "close"} /\ pub[g].pc = "failed"
    /\ pub[g].pc \in {"no", "done", "throttled", "failed"}
    /\ stage' = [stage EXCEPT ![g] = "in"]
    /\ seek' = [seek EXCEPT ![g] = NoSeek]
    /\ pub' = [pub EXCEPT ![g] = NoPub]
    /\ UNCHANGED << reaches, rows, records, shares, told, leant, slips >>

\* A heartbeat only publishes.
Beat(g) ==
    /\ stage[g] \in {"in", "discover"} /\ pub[g] = NoPub /\ HostOf[g] \notin marked
    /\ pub' = [pub EXCEPT ![g].pc = "start"]
    /\ UNCHANGED << reaches, rows, records, shares, stage, seek, told, leant, slips >>

Beaten(g) ==
    /\ stage[g] \in {"in", "discover"} /\ pub[g].pc \in {"done", "throttled", "failed"}
    /\ pub' = [pub EXCEPT ![g] = NoPub]
    /\ UNCHANGED << reaches, rows, records, shares, stage, seek, told, leant, slips >>

Discover(g) ==
    /\ stage[g] = "in" /\ ~ Company(g) \subseteq told[g]
    /\ stage' = [stage EXCEPT ![g] = "discover"]
    /\ Seek(g, Listed(HostOf[g]) \ {g})
    /\ Meanwhile
    /\ UNCHANGED << reaches, rows, records, round, pub, told >>

\* Its lookup failed, or took longer than DISCOVER_REPLY_DEADLINE_MS: it is sent
\* the peers of this relay.
RepliesLocal(g) ==
    /\ stage[g] = "discover" /\ seek[g].pc = "failed"
    /\ Found({g}, [w \in {g} |-> Listed(HostOf[g]) \ {g}])
    /\ UNCHANGED << reaches, rows, records, shares, pub, leant, slips >>

-----------------------------------------------------------------------------
\* What goes on by itself: calls end, and their tasks go on.
Runs(g) ==
    \/ WalkEnds(g) \/ Retry(g) \/ Ask(g) \/ RoundEnds(g)
    \/ LookAgain(g) \/ Joined(g) \/ JoinFails(g) \/ RepliesLocal(g)
Publishes(g) == Publish(g) \/ Reads(g) \/ Places(g) \/ Beaten(g)

RoomNext ==
    \/ \E g \in Guests :
          Join(g) \/ Runs(g) \/ Publishes(g) \/ Discover(g) \/ Beat(g) \/ WalkFails(g) \/ PublishFails(g)
    \/ \E h \in Hosts : AgeLookup(h) \/ AgeRound(h) \/ Unmark(h)

RoomSpec == RoomInit /\ [][RoomNext]_roomVars

\* Every call under way ends (withTimeout, AbortSignal.timeout), and the publications
\* of a relay are not held up by what else it does; clients ask again and again; time
\* passes.  (Stated, and checked, for a room that First stays away from.)
OfTwo == stage[First] = "away"

RoomFairness ==
    /\ \A g \in Guests : WF_roomVars(OfTwo /\ (Join(g) \/ Runs(g) \/ Discover(g)))
    /\ \A h \in Hosts :
          /\ WF_roomVars(OfTwo /\ (Unmark(h) \/ \E g \in Guests : HostOf[g] = h /\ (Beat(g) \/ Publishes(g))))
          /\ WF_roomVars(OfTwo /\ AgeLookup(h)) /\ WF_roomVars(OfTwo /\ AgeRound(h))

-----------------------------------------------------------------------------
(* Properties *)

\* Two peers that join at two relays are not both told of nobody, however their
\* lookups and publications interleave: the relays keep their own record before
\* they look, so the later of the two to look sees the other.  So it is if the walk
\* of each relay asks the other, nothing failed, and neither task used what had
\* been begun for another's.
NotBothAlone ==
    \A g, o \in Guests :
       /\ HostOf[g] # HostOf[o]
       /\ {stage[g], stage[o]} \subseteq {"in", "discover"}
       /\ HostOf[o] \in reaches[HostOf[g]] /\ HostOf[g] \in reaches[HostOf[o]]
       /\ {g, o} \cap leant = {}
       => told[g] \cup told[o] # {}

\* What a room keeps in every state: what it knows is of its type, and no two of its
\* peers are both left alone.
RoomsAreSound == RoomTypeOK /\ NotBothAlone

\* In the end every peer is told of every other, for all the lookups and rounds
\* that are shared, and the publication that failed.
AllAreTold == OfTwo /\ RoomFairness => <>(\A g \in Guests : stage[g] = "away" \/ Company(g) \subseteq told[g])
=============================================================================
