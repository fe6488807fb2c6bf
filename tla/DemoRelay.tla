------------------------------- MODULE DemoRelay -------------------------------
(***************************************************************************)
(* The relay socket of the demo page (public/app.js), with the relay on    *)
(* demand: it is released while the mesh is healthy, woken when the page   *)
(* is cut off or a frame needs it, and reconnected when it is lost.  The   *)
(* close event of a socket runs later than its close, in a handler that    *)
(* does not ask whether the socket is still the page's.  Why a page with   *)
(* links is an anchor or busy is left open.                                *)
(***************************************************************************)
EXTENDS Integers

CONSTANTS
    Wires,          \* WebSockets; a closed one stands for a new one
    MaxMishaps      \* bound on lost sockets, lost links and suspended browsers

ASSUME DemoRelayAssumption == Wires \subseteq Nat \ {0} /\ Wires # {} /\ MaxMishaps \in Nat

VARIABLES
    current,        \* socket.value, 0 if null
    wire,           \* the state of each socket
    heard,          \* the sockets that still have their handlers
    status,
    released,       \* relayIdle
    relayState,     \* relayState
    manual,         \* manualDisconnect
    retry,          \* reconnectTimer is pending ...
    overwritten,    \* ... and an earlier one, that it replaced
    watching,       \* relayWatchTimer runs
    wakeful,        \* relayWakeUntil lies ahead
    releasable,     \* relayReleasableSince: unset, set, or set long enough ago
    decision,       \* of an evaluation under way
    queued,         \* pendingRelayEnvelopes is not empty
    linked,         \* the page has the neighbours it needs
    mishaps

wires == << current, wire, heard >>
timers == << retry, overwritten >>
demand == << wakeful, releasable, decision >>
pageVars == << wires, status, released, relayState, manual, timers, watching, demand,
               queued, linked, mishaps >>

PageTypeOK ==
    /\ current \in Wires \cup {0}
    /\ wire \in [Wires -> {"closed", "connecting", "open", "closing"}]
    /\ heard \subseteq {w \in Wires : wire[w] # "closed"}
    /\ status \in {"disconnected", "connecting", "connected"}
    /\ relayState \in {"up", "idle", "waking"}
    /\ {released, manual, retry, overwritten, watching, wakeful, queued, linked} \subseteq BOOLEAN
    /\ releasable \in {"no", "since", "settled"}
    /\ decision \in {"none", "wanted", "unwanted"}
    /\ mishaps \in 0 .. MaxMishaps
    \* frames wait for a relay that was released, and nothing else
    /\ queued => released

PageInit ==
    /\ current = CHOOSE w \in Wires : TRUE
    /\ heard = {current}
    /\ wire = [w \in Wires |-> IF w = current THEN "connecting" ELSE "closed"]
    /\ status = "connecting" /\ released = FALSE /\ relayState = "up" /\ manual = FALSE
    /\ retry = FALSE /\ overwritten = FALSE /\ watching = FALSE
    /\ wakeful = FALSE /\ releasable = "no" /\ decision = "none"
    /\ queued = FALSE /\ linked = FALSE /\ mishaps = 0

-----------------------------------------------------------------------------
Mishap == mishaps < MaxMishaps /\ mishaps' = mishaps + 1

InService(cur, ws) == cur # 0 /\ ws[cur] \in {"connecting", "open"}

\* connect(), when the page's socket is cur and the sockets are as in ws: a new socket,
\* unless there is one, or one seems to be under way (canConnect).
Connect(cur, ws, hs, stat) ==
    /\ manual' = FALSE /\ retry' = FALSE
    /\ IF InService(cur, ws) \/ (cur = 0 /\ stat = "connecting")
         THEN current' = cur /\ wire' = ws /\ heard' = hs /\ status' = stat
         ELSE \E w \in {v \in Wires : ws[v] = "closed"} :
                 /\ w = CHOOSE v \in Wires : ws[v] = "closed"
                 /\ current' = w
                 /\ wire' = [ws EXCEPT ![w] = "connecting"]
                 /\ heard' = hs \cup {w}
                 /\ status' = IF released THEN stat ELSE "connecting"

\* close(): the event comes later
ClosesWire(cur) == IF InService(cur, wire) THEN [wire EXCEPT ![cur] = "closing"] ELSE wire

-----------------------------------------------------------------------------
(* Events of a socket *)

\* onopen: the frames that waited are sent on the socket the page has; without one the
\* handler throws before it starts the watch.
Opens(w) ==
    /\ wire[w] = "connecting"
    /\ wire' = [wire EXCEPT ![w] = "open"]
    /\ IF w \in heard
         THEN /\ status' = "connected" /\ released' = FALSE /\ relayState' = "up"
              /\ releasable' = "no" /\ queued' = FALSE
              /\ watching' = (watching \/ ~queued \/ (current # 0 /\ wire'[current] = "open"))
         ELSE UNCHANGED << status, released, relayState, releasable, queued, watching >>
    /\ UNCHANGED << current, heard, manual, timers, wakeful, decision, linked, mishaps >>

\* onclose of a socket that was lost, or whose close the page no longer waits for: the
\* page reconnects soon, unless its user has disconnected it.
IsLost ==
    /\ status' = "disconnected" /\ watching' = FALSE /\ linked' = FALSE
    /\ retry' = (retry \/ ~manual)
    /\ overwritten' = (overwritten \/ (retry /\ ~manual))
    /\ UNCHANGED relayState

\* onclose of a relay that was released, or of a wake that did not get through.
WasReleased ==
    /\ relayState' = "idle"
    /\ UNCHANGED << status, watching, linked, timers >>

\* The page's socket is forgotten with any socket that closes.
Ended(w) ==
    /\ wire[w] # "closed"
    /\ IF wire[w] = "closing" THEN UNCHANGED mishaps ELSE Mishap
    /\ wire' = [wire EXCEPT ![w] = "closed"]
    /\ heard' = heard \ {w}
    /\ IF w \in heard
         THEN /\ current' = 0
              /\ IF released THEN WasReleased ELSE IsLost
         ELSE UNCHANGED << current, status, watching, linked, timers, relayState >>
    /\ UNCHANGED << released, manual, demand, queued >>

-----------------------------------------------------------------------------
(* The relay on demand *)

\* wakeRelay
Wakes ==
    /\ wakeful' = TRUE /\ releasable' = "no"
    /\ IF released /\ relayState # "waking"
         THEN relayState' = "waking" /\ Connect(current, wire, heard, status)
         ELSE UNCHANGED << relayState, wires, status, manual, retry >>

\* releaseRelay, on an open socket
Releases ==
    /\ released' = TRUE /\ relayState' = "idle" /\ releasable' = "no"
    /\ wire' = [wire EXCEPT ![current] = "closing"]

\* sendEnvelope: a frame that only the relay can carry.
NeedsRelay ==
    /\ released /\ ~(current # 0 /\ wire[current] = "open")
    /\ queued' = TRUE
    /\ Wakes
    /\ UNCHANGED << released, overwritten, watching, decision, linked, mishaps >>

\* evaluateRelay, to its await
Evaluate ==
    /\ watching /\ ~manual /\ decision = "none" /\ status = "connected"
    /\ decision' = "wanted" \/ (linked /\ decision' = "unwanted")
    /\ UNCHANGED << wires, status, released, relayState, manual, timers, watching, wakeful,
                    releasable, queued, linked, mishaps >>

\* The rest of evaluateRelay.
Decides ==
    LET open == current # 0 /\ wire[current] = "open"
    IN  \/ /\ decision = "wanted" \/ wakeful
           /\ IF released THEN Wakes
              ELSE releasable' = "no" /\ UNCHANGED << wires, wakeful, status, manual, retry, relayState >>
           /\ UNCHANGED released
        \/ /\ decision = "unwanted" /\ ~wakeful /\ ~released /\ open
           /\ IF releasable = "settled"
                THEN Releases /\ UNCHANGED << current, heard >>
                ELSE releasable' = "since" /\ UNCHANGED << wires, released, relayState >>
           /\ UNCHANGED << wakeful, status, manual, retry >>
        \/ /\ decision = "unwanted" /\ ~wakeful
           /\ releasable' = "no"        \* it is released, or busy with a negotiation
           /\ UNCHANGED << wires, wakeful, status, manual, retry, released, relayState >>

Evaluated ==
    /\ decision # "none" /\ decision' = "none"
    /\ Decides
    /\ UNCHANGED << overwritten, watching, queued, linked, mishaps >>

\* The 60 s for which a relay that was woken is held are over, or the 30 s for which one
\* that is not needed is kept.
DemandTimer ==
    /\ \/ wakeful /\ wakeful' = FALSE /\ UNCHANGED releasable
       \/ releasable = "since" /\ releasable' = "settled" /\ UNCHANGED wakeful
    /\ UNCHANGED << wires, status, released, relayState, manual, timers, watching, decision,
                    queued, linked, mishaps >>

-----------------------------------------------------------------------------
(* The user, the browser and the mesh *)

\* disconnect()
Disconnect ==
    /\ Mishap
    /\ manual' = TRUE /\ retry' = FALSE
    /\ watching' = FALSE /\ released' = FALSE /\ wakeful' = FALSE
    /\ releasable' = "no" /\ relayState' = "up" /\ queued' = FALSE
    /\ wire' = ClosesWire(current) /\ current' = 0
    /\ status' = "disconnected" /\ linked' = FALSE
    /\ UNCHANGED << heard, overwritten, decision >>

ConnectsAgain ==
    /\ manual
    /\ Connect(current, wire, heard, status)
    /\ UNCHANGED << released, relayState, overwritten, watching, demand, queued, linked, mishaps >>

\* The timers of a reconnection.  One that was replaced was never cleared.
RetryFires ==
    /\ retry
    /\ IF current = 0
         THEN Connect(current, wire, heard, status)
         ELSE retry' = FALSE /\ UNCHANGED << manual, wires, status >>
    /\ UNCHANGED << released, relayState, overwritten, watching, demand, queued, linked, mishaps >>

OverwrittenFires ==
    /\ overwritten /\ overwritten' = FALSE
    /\ IF current = 0
         THEN Connect(current, wire, heard, status)
         ELSE UNCHANGED << manual, retry, wires, status >>
    /\ UNCHANGED << released, relayState, watching, demand, queued, linked, mishaps >>

\* handleTabVisible: a relay that was released is taken for one that was lost.
TabShows ==
    /\ Mishap
    /\ ~manual /\ ~InService(current, wire)
    /\ linked' = FALSE
    /\ Connect(current, wire, heard, status)
    /\ UNCHANGED << released, relayState, overwritten, watching, demand, queued >>

\* handleSuspendRestore: the socket is given up, with its handlers.
Restores ==
    /\ Mishap
    /\ ~manual
    /\ linked' = FALSE
    /\ Connect(0, ClosesWire(current), heard \ {current}, "disconnected")
    /\ UNCHANGED << released, relayState, overwritten, watching, demand, queued >>

\* The mesh of a page that is connected grows; it loses links.
MeshGrows ==
    /\ status = "connected" /\ ~linked /\ linked' = TRUE
    /\ UNCHANGED << wires, status, released, relayState, manual, timers, watching, demand,
                    queued, mishaps >>

MeshShrinks ==
    /\ Mishap
    /\ linked /\ linked' = FALSE
    /\ UNCHANGED << wires, status, released, relayState, manual, timers, watching, demand, queued >>

-----------------------------------------------------------------------------
PageNext ==
    \/ \E w \in Wires : Opens(w) \/ Ended(w)
    \/ NeedsRelay \/ Evaluate \/ Evaluated \/ DemandTimer
    \/ Disconnect \/ ConnectsAgain \/ RetryFires \/ OverwrittenFires
    \/ TabShows \/ Restores \/ MeshGrows \/ MeshShrinks

PageSpec == PageInit /\ [][PageNext]_pageVars

\* Sockets open or have closed, timers fire, evaluations end.
PageFairness ==
    /\ \A w \in Wires : WF_pageVars(Opens(w)) /\ WF_pageVars(wire[w] = "closing" /\ Ended(w))
    /\ WF_pageVars(Evaluate) /\ WF_pageVars(Evaluated)
    /\ WF_pageVars(RetryFires)

FairPageSpec == PageSpec /\ PageFairness

-----------------------------------------------------------------------------
(* Properties *)

HasRelay == current # 0 /\ wire[current] = "open"

\* A page that has links needs no relay, one whose user disconnected it wants none.
IsServed == HasRelay \/ manual \/ (linked /\ status = "connected")

\* "Stay fully hands-off: reconnect automatically unless user explicitly disconnected."
StaysConnected == []<>(status = "connected" \/ manual)

\* A page that came back from a suspension, or to a visible tab, with its relay released,
\* and whose first attempt to reach it failed: the failure is taken for one of a wake.
IsStranded == released /\ current = 0 /\ status # "connected"

\* A socket that has opened is not the page's: the close of an earlier one came after it
\* had been made.
HasLostTrack == \E w \in heard : wire[w] = "open" /\ w # current

\* But for these two, a page that has lost its relay or its links has one of them again.
ServedOrLost == []<>(IsServed \/ IsStranded \/ HasLostTrack)
=============================================================================
