----------------------------- MODULE MCDiscovery -----------------------------
(***************************************************************************)
(* How a relay finds the relay a peer is at, checked in one run: frames    *)
(* forwarded to other relays by the registry and its hints, and the        *)
(* overlay's walks.  The parts share no state; a behaviour is one of one   *)
(* part, chosen at the start, and the other stays as it is.                *)
(***************************************************************************)
EXTENDS RelayFederation, RelayOverlay, TLC

VARIABLE part

discoveryVars == << vars, overlayVars, part >>

DiscoveryInit ==
    /\ Init
    /\ \/ part = "overlay" /\ serves = {} /\ OverlayInit
       \/ part = "federation" /\ Starts(1 .. Settled, 1, Finder, TRUE)

DiscoveryNext ==
    \/ part = "overlay" /\ OverlayNext /\ UNCHANGED << vars, part >>
    \/ part = "federation" /\ Next /\ UNCHANGED << overlayVars, part >>

DiscoverySpec == DiscoveryInit /\ [][DiscoveryNext]_discoveryVars

\* The other relays of a federation differ in nothing but their names.
Symmetry == Permutations(Others)

\* The types of the parts; a walk asks no relay twice, and not too many.
DiscoveryTypeOK == TypeOK /\ OverlayTypeOK /\ WalkIsBounded
=============================================================================
