------------------------------ MODULE MCRelays ------------------------------
(***************************************************************************)
(* How relays reach each other, checked in one run: the links between two  *)
(* relays, the rendezvous of a punched connection, and the offers a relay  *)
(* answers.  The parts share no state; a behaviour is one of one part,     *)
(* chosen at the start, and the others stay as they are.                   *)
(***************************************************************************)
EXTENDS RelayLinks, Punch, TLC

VARIABLE part

relaysVars == << linkVars, punchVars, part >>

RelaysInit ==
    /\ part \in {"links", "rendezvous", "offers"}
    /\ LinksInit /\ PunchInit

RelaysNext ==
    \/ /\ part = "links" /\ LinksNext
       /\ UNCHANGED << punchVars, part >>
    \/ /\ part = "rendezvous" /\ RendezvousNext
       /\ UNCHANGED << linkVars, part >>
    \/ /\ part = "offers" /\ OffersNext
       /\ UNCHANGED << linkVars, part >>

RelaysSpec == RelaysInit /\ [][RelaysNext]_relaysVars

\* Links differ in nothing but their names.
Symmetry == Permutations(Links)

\* A handshake comes to its end: no sealed frame is refused, and nothing stalls; each
\* end keeps one link to the other, and a link that stays is the one of both.
LinksAreSound == LinksTypeOK /\ SealedFramesOpen /\ NothingStalls /\ OneLinkAtATime /\ EndsAgree
=============================================================================
