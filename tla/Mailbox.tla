------------------------------ MODULE Mailbox ------------------------------
(***************************************************************************)
(* What a relay promises about the frames it is sent for peers that are    *)
(* not there: it holds a frame for a while, may hand it over more than     *)
(* once as long as it holds it, and says of no frame that was not sent to  *)
(* it, or that it has let go, that it is handed over or dropped.           *)
(***************************************************************************)
CONSTANT Frames

VARIABLES
    sent,       \* frames sent to the relay
    held,       \* frames it has, in whatever place
    got,        \* frames handed over to a socket of their addressee
    dropped     \* frames dropped because their addressee said goodbye

Init == sent = {} /\ held = {} /\ got = {} /\ dropped = {}

\* A new frame is handed over at once, held, or turned down.
Post(m) ==
    /\ m \notin sent
    /\ sent' = sent \cup {m}
    /\ \/ got' = got \cup {m} /\ UNCHANGED held
       \/ held' = held \cup {m} /\ UNCHANGED got
       \/ UNCHANGED << held, got >>
    /\ UNCHANGED dropped

\* Frames that are held go to their addressee, who may get them again.
HandOver ==
    /\ \E S \in SUBSET held : got' = got \cup S
    /\ UNCHANGED << sent, held, dropped >>

Drop(m) ==
    /\ m \in held
    /\ dropped' = dropped \cup {m}
    /\ UNCHANGED << sent, held, got >>

\* Frames that are let go do not come back.
LetGo ==
    /\ held' \in SUBSET held
    /\ UNCHANGED << sent, got, dropped >>

Next ==
    \/ \E m \in Frames : Post(m) \/ Drop(m)
    \/ HandOver
    \/ LetGo

Spec == Init /\ [][Next]_<< sent, held, got, dropped >>
=============================================================================
