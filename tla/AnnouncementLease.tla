------------------------- MODULE AnnouncementLease -------------------------
(***************************************************************************)
(* How long a peer stays listed: the client's announcements (client.js)    *)
(* against the lease the relay's registry gives them (upsertAnnouncement   *)
(* in src/src/index.js).  The client asks for JoinTTL when its socket      *)
(* opens, and for FullTTL every Beat after that; the relay rewrites a row  *)
(* only when half of what is asked for, or less, is left of it.            *)
(*                                                                         *)
(* One peer, on a relay that restarts nothing and whose other sockets do   *)
(* not interfere (that is RelayRegistry).  Time passes in ticks of any     *)
(* length; an announcement takes up to MaxUnderway to reach the registry.     *)
(***************************************************************************)
EXTENDS Naturals

CONSTANTS
    JoinTTL,        \* ttl_ms of the announcement made when a socket opens
    FullTTL,        \* ADVERTISE_TTL_MS
    Beat,           \* ADVERTISE_HEARTBEAT_MS
    MaxUnderway,       \* bound on the time an announcement is under way
    MaxLost         \* bound on the beats lost in a row

ASSUME AnnouncementLeaseAssumption ==
    /\ JoinTTL \in Nat \ {0}
    /\ FullTTL \in Nat \ {0}
    /\ Beat \in Nat \ {0}
    /\ MaxUnderway \in 0 .. Beat - 1
    /\ MaxLost \in Nat

VARIABLES
    registered,     \* the client's socket is open and acknowledged
    clock,          \* time since the client's last announcement by its timer
    underway,       \* the announcement on its way to the registry, if any
    lease,          \* what is left of the row's lease; 0: the peer is not listed
    role,           \* the row has the role the client was started with
    beaten,         \* history: a beat has arrived since the peer joined
    whole,          \* history: the last beat that arrived had the row rewritten
    lost,           \* history: beats lost since the last that arrived
    age             \* history: time since that beat was sent

leaseVars == << registered, clock, underway, lease, role, beaten, whole, lost, age >>

None == [kind |-> "none", for |-> 0, role |-> TRUE]

\* "join" on an opening socket, "beat" of the timer, "advert" by advertise().
Announcements == [kind : {"none", "join", "beat", "advert"}, for : 0 .. MaxUnderway, role : BOOLEAN]

LeaseTypeOK ==
    /\ registered \in BOOLEAN
    /\ clock \in 0 .. Beat
    /\ underway \in Announcements
    /\ lease \in Nat
    /\ role \in BOOLEAN
    /\ beaten \in BOOLEAN
    /\ whole \in BOOLEAN
    /\ lost \in 0 .. MaxLost
    /\ age \in Nat

LeaseInit ==
    /\ registered = FALSE
    /\ clock = 0
    /\ underway = None
    /\ lease = 0
    /\ role = TRUE
    /\ beaten = FALSE
    /\ whole = FALSE
    /\ lost = 0
    /\ age = 0

-----------------------------------------------------------------------------
(* The client *)

Announces(kind, r) == underway' = [kind |-> kind, for |-> 0, role |-> r]

\* The socket opens and announces; its ACK starts the heartbeat's timer.
SocketOpens ==
    /\ ~ registered
    /\ underway = None
    /\ registered' = TRUE
    /\ clock' = 0
    /\ Announces("join", TRUE)
    /\ UNCHANGED << lease, role, beaten, whole, lost, age >>

\* The socket drops.
Drop ==
    /\ registered
    /\ registered' = FALSE
    /\ clock' = 0
    /\ beaten' = FALSE
    /\ whole' = FALSE
    /\ lost' = 0
    /\ age' = 0
    /\ UNCHANGED << underway, lease, role >>

\* startAdvertiseHeartbeat: the timer announces the capabilities the client
\* was started with.
Heartbeat ==
    /\ registered
    /\ clock = Beat
    /\ underway = None
    /\ clock' = 0
    /\ Announces("beat", TRUE)
    /\ UNCHANGED << registered, lease, role, beaten, whole, lost, age >>

\* advertise(nextCapabilities), which may name another role.
Advertise(r) ==
    /\ registered
    /\ underway = None
    /\ Announces("advert", r)
    /\ UNCHANGED << registered, clock, lease, role, beaten, whole, lost, age >>

-----------------------------------------------------------------------------
(* The relay *)

AskedFor == IF underway.kind = "beat" THEN FullTTL ELSE JoinTTL

\* mutant: a row is rewritten only in the last quarter of its lease
RewritesLate == role # underway.role \/ 4 * lease <= AskedFor

\* The WHERE clause of upsertAnnouncement.
Rewrites == role # underway.role \/ 2 * lease <= AskedFor

\* The announcement's task writes the row.  A beat counts from then on, until
\* an announcement of another role replaces the lease it got by a short one.
Arrives ==
    /\ underway # None
    /\ underway' = None
    /\ lease' = IF Rewrites THEN AskedFor ELSE lease
    /\ role' = underway.role
    /\ IF underway.kind = "beat" /\ registered
         THEN beaten' = TRUE /\ whole' = Rewrites /\ lost' = 0 /\ age' = clock
         ELSE /\ beaten' = (beaten /\ role = underway.role)
              /\ UNCHANGED << whole, lost, age >>
    /\ UNCHANGED << registered, clock >>

\* The frame is lost, or its task fails, times out or is dropped.
BeatLost ==
    /\ underway.kind = "beat"
    /\ lost < MaxLost
    /\ underway' = None
    /\ lost' = lost + 1
    /\ UNCHANGED << registered, clock, lease, role, beaten, whole, age >>

\* The timer and the announcement under way are not late.
TimePasses ==
    /\ registered => clock < Beat
    /\ underway # None => underway.for < MaxUnderway
    /\ clock' = IF registered THEN clock + 1 ELSE clock
    /\ underway' = IF underway = None THEN None ELSE [underway EXCEPT !.for = @ + 1]
    /\ lease' = IF lease = 0 THEN 0 ELSE lease - 1
    /\ age' = IF beaten THEN age + 1 ELSE age
    /\ UNCHANGED << registered, role, beaten, whole, lost >>

LeaseNext ==
    \/ SocketOpens
    \/ Drop
    \/ Heartbeat
    \/ \E r \in BOOLEAN : Advertise(r)
    \/ Arrives
    \/ BeatLost
    \/ TimePasses

LeaseSpec == LeaseInit /\ [][LeaseNext]_leaseVars

-----------------------------------------------------------------------------
(* Properties *)

\* The longest that the registry may wait for the next beat to arrive.
Silence == (lost + 1) * Beat + MaxUnderway

\* A peer whose beats arrive is listed without a gap, although the relay does
\* not rewrite its row at every beat: for as long as the lease spans the beats lost
\* since the last, the next one and its delay, if that last beat had the row
\* rewritten, and half of the lease if it was skipped.  (The client counts on the
\* whole lease after every beat: client.js:154-158.)
ListedOnceBeaten ==
    beaten /\ (2 * Silence <= FullTTL \/ (whole /\ Silence < FullTTL)) => lease > 0
=============================================================================
