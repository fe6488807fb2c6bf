----------------------------- MODULE MCAddresses -----------------------------
(***************************************************************************)
(* The two ways a relay without a host name gets an address, checked in    *)
(* one run: a tunnel to a home, and an entry in the name directory.  They  *)
(* share no state; a behaviour is one of one part, chosen at the start.    *)
(***************************************************************************)
EXTENDS Tunnel, Directory

VARIABLE part

addressVars == << vars, dirVars, part >>

AddressInit == part \in {"tunnel", "directory"} /\ Init /\ DirectoryInit

AddressNext ==
    \/ part = "tunnel" /\ Next /\ UNCHANGED << dirVars, part >>
    \/ part = "directory" /\ DirectoryNext /\ UNCHANGED << vars, part >>

AddressSpec == AddressInit /\ [][AddressNext]_addressVars

\* The liveness properties of each part, under its own fairness.
ReachedInTheEnd ==
    /\ part = "tunnel" /\ Fairness => StreamsEndWithTheirPeer /\ ReachableInTheEnd
    /\ part = "directory" /\ DirectoryFairness => ListedInTheEnd

\* No peer is left on a tunnel that goes nowhere, and no address is published that
\* is not the relay's own; a relay has a second entry in the directory only after first
\* publishes that overlapped, and no more than it had requests under way.
AddressesAreSound ==
    /\ TypeOK /\ PeersGoWithTheirTunnel /\ AddressIsOwned
    /\ DirectoryTypeOK /\ EntriesStayFew /\ OneEntry
=============================================================================
