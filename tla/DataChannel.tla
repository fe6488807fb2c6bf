----------------------------- MODULE DataChannel -----------------------------
(***************************************************************************)
(* The keepalive of one data channel, at both ends (src/src/client.js,     *)
(* attachDataChannelHandlers, isChannelLive, sendData).  A channel may say *)
(* "open" while one direction, or both, is dead: only a pong shows that    *)
(* what is sent arrives.  Tabs are hidden, frozen and shown again, and     *)
(* send buffers fill and drain.                                            *)
(*                                                                         *)
(* Time passes in ticks of DATA_PING_MS.  A clock of the code, the time of *)
(* an event, is here the ticks since then; events long ago are all alike.  *)
(***************************************************************************)
EXTENDS Integers, Sequences, FiniteSets

CONSTANTS
    Ends,           \* the two ends
    PongTimeout,    \* DATA_PONG_TIMEOUT_MS
    PingRetry,      \* DATA_PING_RETRY_MS
    Fresh,          \* DATA_PROOF_FRESH_MS
    DormantMax,     \* DATA_DORMANT_MAX_MS
    MaxDelay,       \* bound on the ticks a frame is under way
    StallAfter,     \* DATA_BACKLOG_STALL_MS
    MaxBacklog,     \* bound on the ticks DATA_MAX_BUFFERED_BYTES take on a line that works
    MaxBreaks,      \* bound on the directions that die
    MaxUpsets       \* bound on the tabs hidden, the buffers filled, the states that flicker

ASSUME DataChannelAssumption ==
    /\ IsFiniteSet(Ends) /\ Cardinality(Ends) = 2
    /\ PongTimeout \in Nat \ {0} /\ PingRetry \in 1 .. PongTimeout
    /\ Fresh \in Nat /\ Fresh > PongTimeout /\ DormantMax \in Nat
    /\ StallAfter \in 1 .. PongTimeout
    /\ MaxBacklog \in 0 .. StallAfter - 1 /\ MaxBacklog + 2 * MaxDelay < PongTimeout
    /\ MaxDelay \in Nat /\ MaxBreaks \in Nat /\ MaxUpsets \in Nat

Other(e) == CHOOSE o \in Ends : o # e

\* The clock of an event that has not happened.
Never == -1
\* A clock stops at the bound that it is compared with.
Clock(bound) == Never .. bound

VARIABLES
    state,      \* channel.readyState
    conn,       \* pc.connectionState
    tab,        \* of the page: "visible", "hidden" or "frozen"
    buffer,     \* since when there is more to send than the line takes, or Never
    due,        \* the interval of the keepalive is to run in this tick
    own,        \* the clocks of the handlers: the ping in flight, the last frame that came in
    shown,      \* the clocks on the entry: the ping in flight, the last pong
    parked,     \* entry.dormantAt
    owed,       \* pongOwed
    line,       \* frames on their way to an end, in order
    works,      \* what an end sends arrives
    spent,      \* what is used up of the bounds
    caught      \* of the properties: ends frozen while the other does not have them parked

vars == << state, conn, tab, buffer, due, own, shown, parked, owed, line, works, spent,
           caught >>

Frame == [kind : {"ping", "pong", "data", "dormant"}, age : 0 .. MaxDelay]

TypeOK ==
    /\ state \in [Ends -> {"connecting", "open", "closed"}]
    /\ conn \in [Ends -> {"connected", "unsettled", "failed"}]
    /\ tab \in [Ends -> {"visible", "hidden", "frozen"}]
    /\ buffer \in [Ends -> Clock(StallAfter)]
    /\ due \in [Ends -> BOOLEAN] /\ owed \in [Ends -> BOOLEAN] /\ works \in [Ends -> BOOLEAN]
    /\ own \in [Ends -> [ping : Clock(PongTimeout), inbound : Clock(PongTimeout)]]
    /\ shown \in [Ends -> [ping : Clock(PongTimeout), pong : Clock(Fresh)]]
    /\ parked \in [Ends -> Clock(DormantMax)]
    /\ line \in [Ends -> Seq(Frame)]
    /\ spent \in [breaks : 0 .. MaxBreaks, upsets : 0 .. MaxUpsets]
    /\ caught \subseteq Ends
    /\ \A e \in Ends : due[e] => state[e] = "open"

Init ==
    /\ state = [e \in Ends |-> "connecting"]
    /\ conn = [e \in Ends |-> "connected"]
    /\ tab = [e \in Ends |-> "visible"]
    /\ buffer = [e \in Ends |-> Never]
    /\ due = [e \in Ends |-> FALSE]
    /\ own = [e \in Ends |-> [ping |-> Never, inbound |-> 0]]
    /\ shown = [e \in Ends |-> [ping |-> Never, pong |-> Never]]
    /\ parked = [e \in Ends |-> Never]
    /\ owed = [e \in Ends |-> FALSE]
    /\ line = [e \in Ends |-> << >>]
    /\ works = [e \in Ends |-> TRUE]
    /\ spent = [breaks |-> 0, upsets |-> 0]
    /\ caught = {}

-----------------------------------------------------------------------------
\* backlogged and backlogStalled
IsBusy(e) == buffer[e] \in 0 .. StallAfter - 1
IsStalled(e) == buffer[e] = StallAfter

IsParked(e) == parked[e] # Never /\ parked[e] < DormantMax

\* isChannelLive
IsLive(e) ==
    /\ state[e] = "open" /\ ~ IsParked(e) /\ conn[e] = "connected"
    /\ shown[e].pong # Never /\ shown[e].pong < Fresh
    /\ shown[e].ping < PongTimeout

\* Frames of the given kinds are put on the line from e, if they arrive at all.
Sends(L, e, kinds) ==
    IF works[e] /\ state[Other(e)] # "closed"
      THEN [L EXCEPT ![Other(e)] = @ \o [i \in DOMAIN kinds |-> [kind |-> kinds[i], age |-> 0]]]
      ELSE L

\* mutant: the interval goes on after the channel is closed
CloseBrokenTicking(e) ==
    /\ state' = [state EXCEPT ![e] = "closed"]
    /\ UNCHANGED << conn, tab, buffer, due, own, shown, parked, owed, line, works, spent, caught >>

\* closeBrokenChannel: the channel and its connection are closed.
CloseBroken(e) ==
    /\ state' = [state EXCEPT ![e] = "closed"]
    /\ due' = [due EXCEPT ![e] = FALSE]
    /\ UNCHANGED << conn, tab, buffer, own, shown, parked, owed, line, works, spent, caught >>

\* onopen: unproven until the first pong, and a ping that is skipped is not in
\* flight.  A pong owed to a ping that came early is sent.
Open(e) ==
    /\ state[e] = "connecting" /\ tab[e] # "frozen"
    /\ state' = [state EXCEPT ![e] = "open"]
    /\ LET sent == IF conn[e] = "connected" THEN 0 ELSE Never
       IN  /\ own' = [own EXCEPT ![e].ping = sent]
           /\ shown' = [shown EXCEPT ![e] = [ping |-> sent, pong |-> Never]]
           /\ line' = Sends(line, e, (IF sent = 0 THEN << "ping" >> ELSE << >>)
                                       \o (IF owed[e] THEN << "pong" >> ELSE << >>))
    /\ owed' = [owed EXCEPT ![e] = FALSE]
    /\ UNCHANGED << conn, tab, buffer, due, parked, works, spent, caught >>

-----------------------------------------------------------------------------
(* The interval *)

InFlight(e) == own[e].ping # Never
\* inboundAlive
InboundAlive(e) == own[e].inbound < PongTimeout

\* mutant: only a stuck channel is given up, not a silent one
ConvictsStalled(e) ==
    conn[e] = "failed" \/ (tab[e] = "visible" /\ IsStalled(e))

\* The verdicts of the interval.
Convicts(e) ==
    \/ conn[e] = "failed"
    \/ /\ tab[e] = "visible"
       /\ \/ IsStalled(e)
          \/ buffer[e] = Never /\ own[e].ping >= PongTimeout /\ ~ InboundAlive(e)

\* Parked or hidden, no ping is in flight; behind a backlog its clock starts
\* again; one in flight is sent again, and else one is sent.
Keepalive(e) ==
    /\ due[e] /\ tab[e] # "frozen" /\ state[e] = "open"
    /\ IF IsParked(e)
         THEN /\ own' = [own EXCEPT ![e].ping = Never]
              /\ due' = [due EXCEPT ![e] = FALSE]
              /\ UNCHANGED << state, shown, parked, line >>
              /\ UNCHANGED << conn, tab, buffer, owed, works, spent, caught >>
       ELSE IF Convicts(e)
         THEN CloseBroken(e)
       ELSE /\ due' = [due EXCEPT ![e] = FALSE]
            /\ parked' = [parked EXCEPT ![e] = Never]
            /\ IF tab[e] = "hidden"
                 THEN own' = [own EXCEPT ![e].ping = Never] /\ UNCHANGED << shown, line >>
               ELSE IF InFlight(e) /\ IsBusy(e)
                 THEN /\ own' = [own EXCEPT ![e].ping = 0]
                      /\ shown' = [shown EXCEPT ![e].ping = IF @ = Never THEN @ ELSE 0]
                      /\ UNCHANGED line
               ELSE IF InFlight(e)
                 THEN /\ line' = IF own[e].ping >= PingRetry /\ conn[e] = "connected"
                                   THEN Sends(line, e, << "ping" >>) ELSE line
                      /\ UNCHANGED << own, shown >>
               ELSE IF conn[e] = "connected"
                 THEN /\ line' = Sends(line, e, << "ping" >>)
                      /\ own' = [own EXCEPT ![e].ping = 0]
                      /\ shown' = [shown EXCEPT ![e].ping = IF @ = Never THEN 0 ELSE @]
               ELSE UNCHANGED << own, shown, line >>
            /\ UNCHANGED << state, conn, tab, buffer, owed, works, spent, caught >>

-----------------------------------------------------------------------------
(* Frames: onmessage *)

Heard(e) == [own EXCEPT ![e].inbound = 0]

\* A frame other than "dormant" ends the parking.
Unparked(e) == [parked EXCEPT ![e] = Never]

Took(e) == [line EXCEPT ![e] = Tail(@)]

OnDormant(e) ==
    /\ own' = Heard(e)
    /\ parked' = [parked EXCEPT ![e] = 0]
    /\ line' = Took(e)
    /\ UNCHANGED << state, shown, owed, due >>

\* A ping is answered on the channel it came on, once that is open.
OnPing(e) ==
    /\ own' = Heard(e)
    /\ parked' = Unparked(e)
    /\ line' = IF state[e] = "open" THEN Sends(Took(e), e, << "pong" >>) ELSE Took(e)
    /\ owed' = [owed EXCEPT ![e] = @ \/ state[e] = "connecting"]
    /\ UNCHANGED << state, shown, due >>

\* mutant: the pong does not end the ping on the entry
OnPongUnshown(e) ==
    /\ own' = [own EXCEPT ![e] = [ping |-> Never, inbound |-> 0]]
    /\ shown' = [shown EXCEPT ![e].pong = 0]
    /\ parked' = Unparked(e)
    /\ line' = Took(e)
    /\ UNCHANGED << state, owed, due >>

OnPong(e) ==
    /\ own' = [own EXCEPT ![e] = [ping |-> Never, inbound |-> 0]]
    /\ shown' = [shown EXCEPT ![e] = [ping |-> Never, pong |-> 0]]
    /\ parked' = Unparked(e)
    /\ line' = Took(e)
    /\ UNCHANGED << state, owed, due >>

\* A ping was not answered in time, although data comes in.
OutboundDead(e) == shown[e].ping >= PongTimeout /\ ~ IsBusy(e)

\* proveOutbound: data that comes in asks for a pong, if the last is not of
\* this moment.
OnData(e, L) ==
    /\ parked' = Unparked(e)
    /\ own' = Heard(e)
    /\ IF OutboundDead(e)
         THEN /\ state' = [state EXCEPT ![e] = "closed"]
              /\ due' = [due EXCEPT ![e] = FALSE]
              /\ line' = L
              /\ UNCHANGED shown
         ELSE /\ UNCHANGED << state, due >>
              /\ IF shown[e].ping # Never
                   THEN /\ shown' = [shown EXCEPT ![e].ping = IF IsBusy(e) THEN 0 ELSE @]
                        /\ line' = L
                 ELSE IF conn[e] = "connected" /\ (shown[e].pong = Never \/ shown[e].pong > 1)
                   THEN /\ shown' = [shown EXCEPT ![e].ping = 0]
                        /\ line' = Sends(L, e, << "ping" >>)
                 ELSE line' = L /\ UNCHANGED shown
    /\ UNCHANGED owed

\* What is behind a backlog of its sender has not left yet.
Receive(e) ==
    /\ line[e] # << >> /\ tab[e] # "frozen" /\ state[e] # "closed"
    /\ buffer[Other(e)] = Never
    /\ LET kind == Head(line[e]).kind
       IN  \/ kind = "dormant" /\ OnDormant(e)
           \/ kind = "ping" /\ OnPing(e)
           \/ kind = "pong" /\ OnPong(e)
           \/ kind = "data" /\ OnData(e, Took(e))
    /\ caught' = IF Head(line[e]).kind = "pong" /\ tab[Other(e)] # "frozen"
                   THEN caught \ {Other(e)} ELSE caught
    /\ UNCHANGED << conn, tab, buffer, works, spent >>

\* The backlog of the other end is on its way.
Flows(e) == IsBusy(e) /\ works[e] /\ state[e] = "open"

\* A part of it arrives.
BacklogArrives(e) ==
    /\ Flows(Other(e)) /\ tab[e] # "frozen" /\ state[e] # "closed"
    /\ OnData(e, line)
    /\ UNCHANGED << conn, tab, buffer, works, spent, caught >>

\* sendData: refused, and then a ping asks for a pong, unless the channel is
\* live.  (One frame of data is under way at a time.)
SendData(e) ==
    /\ state[e] = "open" /\ tab[e] # "frozen" /\ ~ IsParked(e)
    /\ \A i \in DOMAIN line[Other(e)] : line[Other(e)][i].kind # "data"
    /\ IF IsLive(e)
         THEN line' = Sends(line, e, << "data" >>) /\ UNCHANGED shown
         ELSE /\ shown[e].pong = Never \/ shown[e].pong >= Fresh
              /\ shown[e].ping = Never /\ conn[e] = "connected"
              /\ line' = Sends(line, e, << "ping" >>)
              /\ shown' = [shown EXCEPT ![e].ping = 0]
    /\ UNCHANGED << state, conn, tab, buffer, due, own, parked, owed, works, spent, caught >>

-----------------------------------------------------------------------------
(* The page, the transport, and time *)

Upset ==
    /\ spent.upsets < MaxUpsets
    /\ spent' = [spent EXCEPT !.upsets = @ + 1]

\* onVisible, of a page that is hidden: the other end is told.
Hide(e) ==
    /\ state[e] = "open" /\ tab[e] = "visible"
    /\ Upset
    /\ tab' = [tab EXCEPT ![e] = "hidden"]
    /\ line' = IF conn[e] = "connected" THEN Sends(line, e, << "dormant" >>) ELSE line
    /\ UNCHANGED << state, conn, buffer, due, own, shown, parked, owed, works, caught >>

\* What is under way of the end that is to be frozen, or still to be answered by
\* it, can end the parking of the other.
HasSettled(e) ==
    IsParked(Other(e)) /\ line[Other(e)] = << >> /\ line[e] = << >> /\ buffer[e] = Never

\* A hidden page is frozen, at any moment; its handlers do not run.
Freeze(e) ==
    /\ tab[e] = "hidden"
    /\ tab' = [tab EXCEPT ![e] = "frozen"]
    /\ caught' = IF HasSettled(e) THEN caught ELSE caught \cup {e}
    /\ UNCHANGED << state, conn, buffer, due, own, shown, parked, owed, line, works, spent >>

\* mutant: the clocks run on from before
ShowStale(e) ==
    /\ tab[e] # "visible"
    /\ tab' = [tab EXCEPT ![e] = "visible"]
    /\ UNCHANGED << state, conn, buffer, due, own, shown, parked, owed, line, works, spent, caught >>

\* onVisible, of a page that is shown: the channel has to prove itself.
Show(e) ==
    /\ tab[e] # "visible"
    /\ tab' = [tab EXCEPT ![e] = "visible"]
    /\ IF state[e] = "open" /\ conn[e] = "connected"
         THEN /\ line' = Sends(line, e, << "ping" >>)
              /\ own' = [own EXCEPT ![e].ping = 0]
              /\ shown' = [shown EXCEPT ![e] = [ping |-> 0, pong |-> Never]]
         ELSE UNCHANGED << line, own, shown >>
    /\ UNCHANGED << state, conn, buffer, due, parked, owed, works, spent, caught >>

BufferFills(e) ==
    /\ state[e] = "open" /\ buffer[e] = Never
    /\ Upset
    /\ buffer' = [buffer EXCEPT ![e] = 0]
    /\ UNCHANGED << state, conn, tab, due, own, shown, parked, owed, line, works, caught >>

BufferDrains(e) ==
    /\ IsBusy(e) /\ works[e]
    /\ buffer' = [buffer EXCEPT ![e] = Never]
    /\ UNCHANGED << state, conn, tab, due, own, shown, parked, owed, line, works, spent, caught >>

\* connectionState says "connecting" or "disconnected" for a while.
Flickers(e) ==
    /\ conn[e] = "connected"
    /\ Upset
    /\ conn' = [conn EXCEPT ![e] = "unsettled"]
    /\ UNCHANGED << state, tab, buffer, due, own, shown, parked, owed, line, works, caught >>

Settles(e) ==
    /\ conn[e] = "unsettled"
    /\ conn' = [conn EXCEPT ![e] = IF works[e] /\ works[Other(e)] THEN "connected" ELSE "failed"]
    /\ UNCHANGED << state, tab, buffer, due, own, shown, parked, owed, line, works, spent, caught >>

\* A direction dies.
Breaks(e) ==
    /\ works[e] /\ spent.breaks < MaxBreaks
    /\ works' = [works EXCEPT ![e] = FALSE]
    /\ line' = [line EXCEPT ![Other(e)] = << >>]
    /\ spent' = [spent EXCEPT !.breaks = @ + 1]
    /\ UNCHANGED << state, conn, tab, buffer, due, own, shown, parked, owed, caught >>

\* onclose: the other end closed, and the direction from there works.
OtherClosed(e) ==
    /\ state[e] # "closed" /\ tab[e] # "frozen"
    /\ state[Other(e)] = "closed" /\ works[Other(e)]
    /\ state' = [state EXCEPT ![e] = "closed"]
    /\ due' = [due EXCEPT ![e] = FALSE]
    /\ line' = [line EXCEPT ![e] = << >>]
    /\ UNCHANGED << conn, tab, buffer, own, shown, parked, owed, works, spent, caught >>

Later(c, bound) == IF c = Never \/ c = bound THEN c ELSE c + 1

\* A tick passes once what was due in the last has run and no frame is late.
\* The timers of a page that is not frozen are on time.
Tick ==
    /\ \A e \in Ends :
          /\ due[e] => tab[e] = "frozen"
          /\ state[e] # "connecting"
          /\ IsBusy(e) /\ works[e] => buffer[e] < MaxBacklog
          /\ line[e] # << >> /\ tab[e] # "frozen" /\ state[e] # "closed" /\ buffer[Other(e)] = Never
                => Head(line[e]).age < MaxDelay
    /\ due' = [e \in Ends |-> state[e] = "open"]
    /\ own' = [e \in Ends |->
                  [ping |-> Later(own[e].ping, PongTimeout),
                   inbound |-> IF Flows(Other(e)) THEN 0 ELSE Later(own[e].inbound, PongTimeout)]]
    /\ buffer' = [e \in Ends |-> Later(buffer[e], StallAfter)]
    /\ shown' = [e \in Ends |-> [ping |-> Later(shown[e].ping, PongTimeout),
                                pong |-> Later(shown[e].pong, Fresh)]]
    /\ parked' = [e \in Ends |-> Later(parked[e], DormantMax)]
    /\ line' = [e \in Ends |-> [i \in DOMAIN line[e] |->
                   [line[e][i] EXCEPT !.age = IF @ < MaxDelay THEN @ + 1 ELSE @]]]
    /\ caught' = caught \cup {e \in Ends : tab[e] = "frozen" /\ ~ IsParked(Other(e))'}
    /\ UNCHANGED << state, conn, tab, owed, works, spent >>

-----------------------------------------------------------------------------
Next ==
    \/ \E e \in Ends :
          \/ Open(e) \/ Keepalive(e) \/ Receive(e) \/ SendData(e)
          \/ Hide(e) \/ Freeze(e) \/ Show(e)
          \/ BufferFills(e) \/ BufferDrains(e) \/ BacklogArrives(e)
          \/ Flickers(e) \/ Settles(e) \/ Breaks(e) \/ OtherClosed(e)
    \/ Tick

Spec == Init /\ [][Next]_vars

\* Time passes, timers of pages that are not frozen run, and the transport
\* reports what it knows.  Nothing makes a page visible or a host send.
Fairness ==
    /\ SF_vars(Tick)
    /\ \A e \in Ends :
          /\ WF_vars(Open(e)) /\ WF_vars(Keepalive(e)) /\ WF_vars(Receive(e))
          /\ WF_vars(BufferDrains(e))
          /\ WF_vars(Settles(e)) /\ WF_vars(OtherClosed(e))

FairSpec == Spec /\ Fairness

-----------------------------------------------------------------------------
(* Properties *)

\* A channel that works is not given up: an end closes only when a direction is
\* dead, the other end has closed, or the other end was frozen with frames of its
\* own still under way or still to be answered, and has answered nothing since.
\* (Those frames end the parking its announcement asked for, and then it is silent
\* like an end that is gone.)  No backlog, page hidden or frozen after its
\* announcement was taken, state that flickers, early ping or clock that two
\* handlers share makes an end convict a channel on which every frame arrives.
HealthyIsKept ==
    [][\A e \in Ends :
          state[e] # "closed" /\ state'[e] = "closed" =>
             \/ ~ works[e] \/ ~ works[Other(e)]
             \/ state[Other(e)] = "closed"
             \/ Other(e) \in caught]_vars

\* A channel that is dead in one direction only is given up by both ends, if
\* their pages are visible in the end.
HalfDeadIsGivenUp ==
    (<>[](\A e \in Ends : tab[e] = "visible") /\ <>(\E e \in Ends : ~ works[e]))
       => <>(\A e \in Ends : state[e] = "closed")

\* A channel that works is not refused for ever: when nothing is left to upset
\* it and the pages stay visible, data can be sent again and again, at both ends
\* and also after a freeze that the channel survived.  The one excuse is a channel
\* closed on an end that was caught by its freeze.
HealthyIsUsable ==
    <>[](\A f \in Ends : tab[f] = "visible" /\ works[f])
       => \/ \A e \in Ends : []<>IsLive(e)
          \/ <>(\E f \in Ends : state[f] = "closed" /\ Other(f) \in caught)
=============================================================================
