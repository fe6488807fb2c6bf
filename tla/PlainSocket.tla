---------------------------- MODULE PlainSocket ----------------------------
(***************************************************************************)
(* What whoever opens sockets to relays may count on, and may do: the      *)
(* contract of a WebSocket.  A socket that was closed may stand for a new  *)
(* one.  It opens at most once after it was dialled, is shut at most once, *)
(* and tells that it has closed once, with or without having been shut,    *)
(* and never that it opens after it was shut.                              *)
(*                                                                         *)
(* RelaySocket keeps this contract, whatever it hides behind the socket,   *)
(* and RelaySession keeps to it.                                           *)
(***************************************************************************)
CONSTANT Sockets

VARIABLE phase      \* of each socket, by the calls made and the events heard

Phases == {"closed", "connecting", "open", "closing"}

Init == phase = [s \in Sockets |-> "closed"]

Dials  == {<< "closed", "connecting" >>}
Opens  == {<< "connecting", "open" >>}
Shuts  == {<< "connecting", "closing" >>, << "open", "closing" >>}
Closes == {<< "connecting", "closed" >>, << "open", "closed" >>, << "closing", "closed" >>}

\* One call may shut a socket and dial another.
Next ==
    /\ phase' \in [Sockets -> Phases]
    /\ \A s \in Sockets :
          \/ phase'[s] = phase[s]
          \/ << phase[s], phase'[s] >> \in Dials \cup Opens \cup Shuts \cup Closes

Spec == Init /\ [][Next]_phase
=============================================================================
