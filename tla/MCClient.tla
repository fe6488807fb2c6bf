------------------------------ MODULE MCClient ------------------------------
(***************************************************************************)
(* Six parts of a peer that share no state, checked in one run: a data     *)
(* channel, a link through the relay, the socket to a relay, the lease of  *)
(* its announcements, and the mesh and the relay of the demo page.  A      *)
(* behaviour is one of one part, chosen at the start; the others stay as   *)
(* they are.                                                               *)
(***************************************************************************)
EXTENDS DataChannel, RelayedLinks, RelaySocket, AnnouncementLease, DemoMesh, DemoRelay

VARIABLE part

clientVars == << vars, relayedVars, socketVars, leaseVars, meshVars, pageVars, part >>

ClientInit ==
    /\ part \in {"channel", "relayed", "socket", "lease", "mesh", "page"}
    /\ Init /\ RelayedInit /\ SocketInit /\ LeaseInit /\ MeshInit /\ PageInit

ClientNext ==
    \/ /\ part = "channel" /\ Next
       /\ UNCHANGED << relayedVars, socketVars, leaseVars, meshVars, pageVars, part >>
    \/ /\ part = "relayed" /\ RelayedNext
       /\ UNCHANGED << vars, socketVars, leaseVars, meshVars, pageVars, part >>
    \/ /\ part = "socket" /\ SocketNext
       /\ UNCHANGED << vars, relayedVars, leaseVars, meshVars, pageVars, part >>
    \/ /\ part = "lease" /\ LeaseNext
       /\ UNCHANGED << vars, relayedVars, socketVars, meshVars, pageVars, part >>
    \/ /\ part = "mesh" /\ MeshNext
       /\ UNCHANGED << vars, relayedVars, socketVars, leaseVars, pageVars, part >>
    \/ /\ part = "page" /\ PageNext
       /\ UNCHANGED << vars, relayedVars, socketVars, leaseVars, meshVars, part >>

ClientSpec == ClientInit /\ [][ClientNext]_clientVars

\* The liveness properties of the parts that have some, under their own fairness.
HalfDeadChannelIsGivenUp == (part = "channel") /\ Fairness => HalfDeadIsGivenUp
HealthyChannelIsUsable == (part = "channel") /\ Fairness => HealthyIsUsable
RelayedIsLinkedInTheEnd == (part = "relayed") /\ RelayedFairness => LinkedInTheEnd
DemoRecovers ==
    /\ (part = "mesh") /\ MeshFairness => MeshIsMade
    /\ (part = "page") /\ PageFairness => ServedOrLost

\* The types of the parts (those of the socket and the lease are proved).
ClientTypeOK == TypeOK /\ RelayedTypeOK /\ MeshTypeOK /\ PageTypeOK
=============================================================================
