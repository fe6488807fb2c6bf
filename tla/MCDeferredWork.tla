--------------------------- MODULE MCDeferredWork ---------------------------
(***************************************************************************)
(* What a relay puts off, checked in one run: the queue of deferred tasks, *)
(* in ticks of any time beyond every budget; and two of those tasks,       *)
(* announce and discover, with which peers find each other.  The parts     *)
(* share no state; a behaviour is one of one part, chosen at the start.    *)
(***************************************************************************)
EXTENDS DeferredQueue, RoomDiscovery, TLC

CONSTANTS g1, g2, g3, h1, h2

\* Two peers at one relay and a third at another.
RelayOf == (g1 :> h1) @@ (g2 :> h1) @@ (g3 :> h2)

VARIABLE part

deferredVars == << vars, roomVars, part >>

\* The part that does not run has the first of its initial states.
DeferredInit ==
    /\ Init /\ RoomInit
    /\ part \in {"queue", "rooms"}
    /\ part = "queue" => rows = {} /\ \A h \in Hosts : reaches[h] = {}

DeferredNext ==
    \/ part = "queue" /\ Next /\ UNCHANGED << roomVars, part >>
    \/ part = "rooms" /\ RoomNext /\ UNCHANGED << vars, part >>

DeferredSpec == DeferredInit /\ [][DeferredNext]_deferredVars

QueueIsServed == part = "queue" /\ Fairness => QueueServed
PeersAreTold == part = "rooms" => AllAreTold
=============================================================================
