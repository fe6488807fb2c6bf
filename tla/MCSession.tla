----------------------------- MODULE MCSession -----------------------------
(***************************************************************************)
(* Two parts of the client that share no state, checked in one run: its    *)
(* session at a relay, with three sockets so that two may be closing at    *)
(* once, and the negotiation of a connection with a peer.  A behaviour is  *)
(* one of one part, chosen at the start; the other stays as it is.         *)
(***************************************************************************)
EXTENDS RelaySession, Negotiation

VARIABLE part

bothVars == << vars, negotiationVars, part >>

SessionInit ==
    /\ part \in {"session", "negotiation"}
    /\ Init /\ NegotiationInit

SessionNext ==
    \/ part = "session" /\ Next /\ UNCHANGED << negotiationVars, part >>
    \/ part = "negotiation" /\ NegotiationNext /\ UNCHANGED << vars, part >>

SessionSpec == SessionInit /\ [][SessionNext]_bothVars

\* The liveness properties of the parts, each under its own fairness.
CutOffIsWoken == (part = "session") /\ Fairness => WokenWhenCutOff
DialIsNotRefused == (part = "negotiation") /\ NegotiationFairness => NotRefusedForEver

\* What a negotiation keeps in every state.
ConnsAreSound == NegotiationTypeOK /\ NoLeakedConn /\ GlareLeavesOneChannel
=============================================================================
