----------------------- MODULE RelayForwardingProofs -----------------------
(***************************************************************************)
(* Proofs about LivePeers, for any number of peers and sockets, and about  *)
(* RelayForwarding, for any number of frames and announce tasks as well:   *)
(* what it does to the table of live peers is what LivePeers does, a drain *)
(* deletes only what it handed over, only a goodbye drops a frame, and the *)
(* frames are in a mailbox.                                                *)
(***************************************************************************)
EXTENDS RelayForwarding, TLAPS

-----------------------------------------------------------------------------
(* LivePeers on its own *)

\* Open sockets carry numbers already given out ...
Numbered ==
    \A s \in Sockets : state[s] # "closed" =>
        socketGeneration[s] \in 1 .. nextSocketGeneration

\* ... and no two of them the same one.
Distinct ==
    \A s, t \in Sockets :
        /\ s # t
        /\ state[s] # "closed"
        /\ state[t] # "closed"
        => socketGeneration[s] # socketGeneration[t]

IInv == TypeOK /\ RouteIsUsable /\ Numbered /\ Distinct

USE LivePeersAssumption

\* A relay that has just started satisfies the inductive invariant.
LEMMA InitIInv == Init => IInv
  BY DEF Init, IInv, TypeOK, SocketStates, RouteIsUsable, Numbered, Distinct

\* Type correctness is preserved by every step.
LEMMA NextTypeOK == TypeOK /\ [Next]_liveVars => TypeOK'
  <1> SUFFICES ASSUME TypeOK, [Next]_liveVars PROVE TypeOK'
    OBVIOUS
  <1> USE DEF TypeOK, SocketStates
  <1>1. ASSUME NEW s \in Sockets, NEW p \in Peers, Accept(s, p) PROVE TypeOK'
    BY <1>1 DEF Accept
  <1>2. ASSUME NEW s \in Sockets, SocketStep(s) PROVE TypeOK'
    <2>1. CASE RefuseFrame(s)
      BY <2>1 DEF RefuseFrame
    <2>2. CASE Announce(s)
      BY <2>2 DEF Announce
    <2>3. ASSUME NEW reason \in WithdrawReasons, Withdraw(s, reason) PROVE TypeOK'
      BY <2>3 DEF Withdraw, Leave
    <2>4. CASE Bye(s)
      BY <2>4 DEF Bye, Leave
    <2>5. CASE OtherFrame(s)
      BY <2>5 DEF OtherFrame
    <2>6. CASE SocketClosed(s)
      BY <2>6 DEF SocketClosed, CleanupRoute
    <2>7. QED
      BY <1>2, <2>1, <2>2, <2>3, <2>4, <2>5, <2>6 DEF SocketStep
  <1>3. ASSUME NEW p \in Peers, ForgetAbsent(p) \/ ForgetResting(p) PROVE TypeOK'
    BY <1>3 DEF ForgetAbsent, ForgetResting
  <1>4. CASE Restart
    BY <1>4 DEF Restart
  <1>5. CASE UNCHANGED liveVars
    BY <1>5 DEF liveVars
  <1>6. QED
    BY <1>1, <1>2, <1>3, <1>4, <1>5 DEF Next

\* THEOREM TypeCorrect: TypeOK holds in every state, for any constants.
THEOREM TypeCorrect == Spec => []TypeOK
  <1>1. Init => TypeOK
    BY InitIInv DEF IInv
  <1>2. QED
    BY <1>1, NextTypeOK, PTL DEF Spec

-----------------------------------------------------------------------------
(* Preservation of the other conjuncts of IInv *)

\* The steps that neither accept a socket nor change a socket's number.
LEMMA NumbersKept ==
    ASSUME TypeOK, NEW s \in Sockets, SocketStep(s)
    PROVE  /\ owner' = owner
           /\ socketGeneration' = socketGeneration
           /\ nextSocketGeneration' = nextSocketGeneration
           /\ \A t \in Sockets : state[t] = "closed" => state'[t] = "closed"
           /\ \A t \in Sockets \ {s} : state'[t] = state[t] /\ (t \in bound => t \in bound')
  <1> USE DEF TypeOK
  <1>1. CASE RefuseFrame(s)
    BY <1>1 DEF RefuseFrame, CanReceive
  <1>2. CASE Announce(s)
    BY <1>2 DEF Announce
  <1>3. CASE \E reason \in WithdrawReasons : Withdraw(s, reason)
    BY <1>3 DEF Withdraw, Leave, CanReceive
  <1>4. CASE Bye(s)
    BY <1>4 DEF Bye, Leave
  <1>5. CASE OtherFrame(s)
    BY <1>5 DEF OtherFrame
  <1>6. CASE SocketClosed(s)
    BY <1>6 DEF SocketClosed
  <1>7. QED
    BY <1>1, <1>2, <1>3, <1>4, <1>5, <1>6 DEF SocketStep

\* Numbers are given out in order, so open sockets keep distinct ones.
LEMMA NextNumbers ==
    ASSUME TypeOK, Numbered, Distinct, [Next]_liveVars
    PROVE  Numbered' /\ Distinct'
  <1> USE DEF TypeOK, Numbered, Distinct
  <1>1. ASSUME NEW s \in Sockets, NEW p \in Peers, Accept(s, p)
        PROVE Numbered' /\ Distinct'
    BY <1>1 DEF Accept
  <1>2. ASSUME NEW s \in Sockets, SocketStep(s) PROVE Numbered' /\ Distinct'
    BY <1>2, NumbersKept
  <1>3. ASSUME NEW p \in Peers, ForgetAbsent(p) \/ ForgetResting(p)
        PROVE Numbered' /\ Distinct'
    BY <1>3 DEF ForgetAbsent, ForgetResting
  <1>4. CASE Restart
    BY <1>4 DEF Restart
  <1>5. CASE UNCHANGED liveVars
    BY <1>5 DEF liveVars
  <1>6. QED
    BY <1>1, <1>2, <1>3, <1>4, <1>5 DEF Next

\* A frame moves at most its sender's route: to the sender's socket, which is
\* then open and bound, or to nothing.
LEMMA FrameMovesOwnRoute ==
    ASSUME TypeOK, NEW s \in Sockets, SocketStep(s)
    PROVE  \/ /\ livePeers' = livePeers
              /\ state'[s] # "closed" /\ (s \in bound => s \in bound')
           \/ /\ livePeers' = livePeers
              /\ livePeers[owner[s]] # s \/ s \notin bound
           \/ livePeers' = [livePeers EXCEPT ![owner[s]] = None]
           \/ /\ livePeers' = [livePeers EXCEPT ![owner[s]] = s]
              /\ Claims(s)
              /\ state[s] # "closed"
              /\ state'[s] # "closed"
              /\ s \in bound'
  <1> USE DEF TypeOK
  <1>1. CASE RefuseFrame(s)
    BY <1>1 DEF RefuseFrame
  <1>2. CASE Announce(s)
    BY <1>2 DEF Announce, CanReceive
  <1>3. CASE \E reason \in WithdrawReasons : Withdraw(s, reason)
    BY <1>3 DEF Withdraw, Leave
  <1>4. CASE Bye(s)
    BY <1>4 DEF Bye, Leave
  <1>5. CASE OtherFrame(s)
    BY <1>5 DEF OtherFrame, CanReceive
  <1>6. CASE SocketClosed(s)
    <2>1. CASE s \in bound /\ OwnsRoute(s)
      BY <1>6, <2>1 DEF SocketClosed, CleanupRoute
    <2>2. CASE ~ (s \in bound /\ OwnsRoute(s))
      BY <1>6, <2>2 DEF SocketClosed, CleanupRoute, OwnsRoute, Route
    <2>3. QED
      BY <2>1, <2>2
  <1>7. QED
    BY <1>1, <1>2, <1>3, <1>4, <1>5, <1>6 DEF SocketStep

\* No step leaves a route behind on a socket that is closed or not its peer's.
LEMMA NextRouteIsUsable ==
    ASSUME TypeOK, RouteIsUsable, [Next]_liveVars
    PROVE  RouteIsUsable'
  <1> USE DEF TypeOK, RouteIsUsable
  <1>1. ASSUME NEW s \in Sockets, NEW p \in Peers, Accept(s, p)
        PROVE RouteIsUsable'
    BY <1>1 DEF Accept
  <1>2. ASSUME NEW s \in Sockets, SocketStep(s) PROVE RouteIsUsable'
    <2> SUFFICES ASSUME NEW p \in Peers, livePeers'[p] # None
                 PROVE  /\ state'[livePeers'[p]] # "closed"
                        /\ owner'[livePeers'[p]] = p
                        /\ livePeers'[p] \in bound'
      OBVIOUS
    <2>1. /\ owner' = owner
          /\ \A t \in Sockets \ {s} : state'[t] = state[t] /\ (t \in bound => t \in bound')
      BY <1>2, NumbersKept
    <2>2. CASE livePeers'[p] = s /\ livePeers' = [livePeers EXCEPT ![owner[s]] = s]
                /\ state'[s] # "closed" /\ s \in bound'
      BY <2>1, <2>2
    <2>3. CASE livePeers'[p] = livePeers[p] /\ livePeers[p] # s
      BY <2>1, <2>3
    <2>4. CASE livePeers' = livePeers /\ livePeers[p] = s
      BY <1>2, <2>1, <2>4, FrameMovesOwnRoute
    <2>5. QED
      BY <1>2, <2>2, <2>3, <2>4, FrameMovesOwnRoute
  <1>3. ASSUME NEW p \in Peers, ForgetAbsent(p) \/ ForgetResting(p)
        PROVE RouteIsUsable'
    BY <1>3 DEF ForgetAbsent, ForgetResting
  <1>4. CASE Restart
    BY <1>4 DEF Restart
  <1>5. CASE UNCHANGED liveVars
    BY <1>5 DEF liveVars
  <1>6. QED
    BY <1>1, <1>2, <1>3, <1>4, <1>5 DEF Next

\* The conjuncts of the inductive invariant together are preserved ...
LEMMA NextIInv == IInv /\ [Next]_liveVars => IInv'
  BY NextTypeOK, NextNumbers, NextRouteIsUsable DEF IInv

\* ... and so hold in every state.
LEMMA Inductive == Spec => []IInv
  BY InitIInv, NextIInv, PTL DEF Spec

-----------------------------------------------------------------------------
(* The theorems *)

\* RouteCorrect: for any number of peers and sockets, no route outlives its
\* socket (RouteIsUsable; cleanupPeerState, deleteLivePeerIfOwned).
THEOREM RouteCorrect == Spec => []RouteIsUsable
  <1>1. IInv => RouteIsUsable
    BY DEF IInv
  <1>2. QED
    BY <1>1, Inductive, PTL

\* LateFrameHarmless: whatever arrives late on a replaced socket leaves its
\* successor's route and the peer's marks alone.
THEOREM LateFrameHarmless == Spec => SupersededIsPowerless
  <1>1. ASSUME TypeOK, NEW s \in Sockets, Superseded(s), SocketStep(s)
        PROVE  UNCHANGED << livePeers, absent, resting >>
    <2>1. ~ Claims(s) /\ ~ OwnsRoute(s)
      BY <1>1 DEF Superseded, Claims, OwnsRoute, Route, TypeOK
    <2>2. RefuseFrame(s) \/ SocketClosed(s)
      BY <1>1, <2>1 DEF SocketStep, Announce, Withdraw, Bye, OtherFrame
    <2>3. CASE RefuseFrame(s)
      BY <2>3 DEF RefuseFrame
    <2>4. CASE SocketClosed(s)
      BY <1>1, <2>1, <2>4 DEF SocketClosed, CleanupRoute, TypeOK
    <2>5. QED
      BY <2>2, <2>3, <2>4
  <1>2. TypeOK => \A s \in Sockets : Superseded(s) /\ SocketStep(s) =>
                        UNCHANGED << livePeers, absent, resting >>
    BY <1>1
  <1>3. QED
    BY <1>2, TypeCorrect, PTL DEF SupersededIsPowerless

\* NewerSocketWins: a route passes between sockets only to a later one.
THEOREM NewerSocketWins == Spec => RouteMovesForward
  <1>1. ASSUME IInv, [Next]_liveVars, NEW p \in Peers, livePeers[p] # None,
               livePeers'[p] \notin {None, livePeers[p]}
        PROVE  socketGeneration[livePeers'[p]] > socketGeneration[livePeers[p]]
    <2> USE DEF IInv, TypeOK
    <2>1. PICK s \in Sockets : SocketStep(s)
      BY <1>1 DEF Next, Accept, ForgetAbsent, ForgetResting, Restart, liveVars
    <2>2. /\ livePeers' = [livePeers EXCEPT ![owner[s]] = s]
          /\ Claims(s)
          /\ state[s] # "closed"
      BY <1>1, <2>1, FrameMovesOwnRoute
    <2>3. owner[s] = p /\ livePeers'[p] = s
      BY <1>1, <2>2
    <2>4. /\ livePeers[p] \in Sockets
          /\ state[livePeers[p]] # "closed"
          /\ livePeers[p] # s
      BY <1>1, <2>3 DEF RouteIsUsable
    <2>5. socketGeneration[livePeers[p]] # socketGeneration[s]
      BY <1>1, <2>2, <2>4 DEF Distinct
    <2>6. ~ (socketGeneration[livePeers[p]] > socketGeneration[s])
      BY <1>1, <2>2, <2>3, <2>4 DEF Claims, Route
    <2>7. socketGeneration[livePeers[p]] \in Nat /\ socketGeneration[s] \in Nat
      BY <1>1, <2>4
    <2>8. QED
      BY <2>3, <2>5, <2>6, <2>7
  <1>2. IInv /\ [Next]_liveVars =>
          \A p \in Peers : livePeers[p] # None /\ livePeers'[p] \notin {None, livePeers[p]}
            => socketGeneration[livePeers'[p]] > socketGeneration[livePeers[p]]
    BY <1>1
  <1>3. QED
    BY <1>2, Inductive, PTL DEF Spec, RouteMovesForward

-----------------------------------------------------------------------------
(* RelayForwarding *)

\* Who is taken to have left is a peer whose last word was a goodbye.
AbsentIsGone == absent \subseteq gone

\* What a drain is about to delete, it has sent.
DeletesWhatItSent ==
    \A d \in Drains : drain[d].pc = "deleting" => drain[d].ids \subseteq got

FInv == ForwardingTypeOK /\ AbsentIsGone /\ DeletesWhatItSent

USE RelayForwardingAssumption

-----------------------------------------------------------------------------
(* The table of live peers *)

\* Every step is one of LivePeers, or leaves the live peers alone.
LEMMA StepIsLive == [ForwardingNext]_vars => [Next]_liveVars
  <1> SUFFICES ASSUME [ForwardingNext]_vars PROVE [Next]_liveVars
    OBVIOUS
  <1>1. ASSUME NEW s \in Sockets, NEW m \in Frames, NEW p \in Peers,
               SendFrame(s, m, p) \/ SendBye(s, m, p)
        PROVE  Next
    BY <1>1 DEF SendFrame, SendBye, Next, SocketStep
  <1>2. ASSUME NEW s \in Sockets, AnnounceFrame(s) PROVE Next
    BY <1>2 DEF AnnounceFrame, Next, SocketStep
  <1>3. ASSUME NEW s \in Sockets, NEW reason \in WithdrawReasons, WithdrawFrame(s, reason)
        PROVE  Next
    BY <1>3 DEF WithdrawFrame, Next, SocketStep
  <1>4. CASE OtherLiveStep
    BY <1>4 DEF OtherLiveStep, Next, SocketStep
  <1>5. ASSUME NEW m \in Frames, NEW p \in Peers, FederatedFrame(m, p)
        PROVE  UNCHANGED liveVars
    BY <1>5 DEF FederatedFrame
  <1>6. ASSUME NEW m \in Frames, NEW delivered \in BOOLEAN,
               \/ RunForward(m) \/ ForwardStale(m) \/ ForwardOver(m)
               \/ FederationAnswers(m, delivered)
               \/ StoreFrame(m) \/ StoreRefused(m) \/ RowExpires(m)
        PROVE  UNCHANGED liveVars
    BY <1>6 DEF RunForward, ForwardStale, ForwardOver, FederationAnswers, StoreFrame,
       StoreRefused, RowExpires
  <1>7. ASSUME NEW d \in Drains,
               \/ StartDrain(d) \/ FetchRows(d) \/ SendRows(d) \/ DeleteRows(d)
               \/ DrainFails(d)
        PROVE  UNCHANGED liveVars
    BY <1>7 DEF StartDrain, FetchRows, SendRows, DeleteRows, DrainFails
  <1>8. CASE RelayRestarts
    BY <1>8 DEF RelayRestarts, Next
  <1>9. CASE UNCHANGED vars
    BY <1>9 DEF vars
  <1>10. QED
    BY <1>1, <1>2, <1>3, <1>4, <1>5, <1>6, <1>7, <1>8, <1>9 DEF ForwardingNext

\* Forwarding does with the live peers what LivePeers does, so that all that is
\* proved of that table holds while frames are forwarded.
THEOREM ForwardingKeepsLivePeers == ForwardingSpec => Spec
  <1>1. ForwardingInit => Init
    BY DEF ForwardingInit
  <1>2. QED
    BY <1>1, StepIsLive, PTL DEF ForwardingSpec, Spec

-----------------------------------------------------------------------------
(* Drains *)

\* The record of a task that is over, or about to begin.
LEMMA IdleFields ==
    /\ Idle \in Drain
    /\ Idle.pc = "idle" /\ Idle.ids = {}
    /\ \A p \in Peers : LET q == [Idle EXCEPT !.pc = "queued", !.peer = p]
                        IN  q \in Drain /\ q.pc = "queued" /\ q.ids = {}
  <1> DEFINE c == CHOOSE p \in Peers : TRUE
  <1>1. c \in Peers
    BY LivePeersAssumption
  <1> HIDE DEF c
  <1>2. Idle = [pc |-> "idle", peer |-> c, socket |-> None, ids |-> {}]
    BY DEF Idle, c
  <1>3. Idle \in Drain /\ Idle.pc = "idle" /\ Idle.ids = {}
    BY <1>1, <1>2 DEF Drain
  <1>4. ASSUME NEW p \in Peers, NEW q, q = [Idle EXCEPT !.pc = "queued", !.peer = p]
        PROVE  q \in Drain /\ q.pc = "queued" /\ q.ids = {}
    BY <1>3, <1>4 DEF Drain
  <1>5. QED
    BY <1>3, <1>4

\* A step of one drain, which becomes x.
LEMMA OneDrain ==
    ASSUME FInv, NEW d \in Drains, NEW x \in Drain, drain' = [drain EXCEPT ![d] = x],
           x.pc = "deleting" => x.ids \subseteq got', got \subseteq got'
    PROVE  drain' \in [Drains -> Drain] /\ DeletesWhatItSent'
  <1>1. drain \in [Drains -> Drain] /\ DeletesWhatItSent
    BY DEF FInv, ForwardingTypeOK
  <1>2. \A e \in Drains : drain'[e] = IF e = d THEN x ELSE drain[e]
    BY <1>1
  <1>3. QED
    BY <1>1, <1>2 DEF DeletesWhatItSent

\* What the steps of a drain make of its record.
LEMMA DrainSteps ==
    ASSUME FInv, NEW d \in Drains,
           \/ StartDrain(d) \/ FetchRows(d) \/ SendRows(d) \/ DeleteRows(d) \/ DrainFails(d)
    PROVE  \E x \in Drain :
              /\ drain' = [drain EXCEPT ![d] = x]
              /\ x.pc = "deleting" => x.ids \subseteq got'
              /\ x.ids \subseteq drain[d].ids \cup rows
  <1>0. drain \in [Drains -> Drain] /\ drain[d] \in Drain /\ rows \subseteq Frames
    BY DEF FInv, ForwardingTypeOK
  <1>1. ASSUME Over(d) PROVE drain' = [drain EXCEPT ![d] = Idle]
    BY <1>1 DEF Over
  <1>2. Idle \in Drain /\ Idle.pc = "idle" /\ Idle.ids = {}
    BY IdleFields
  <1>3. ASSUME NEW x, x \in Drain, drain' = [drain EXCEPT ![d] = x],
               x.pc # "deleting", x.ids \subseteq drain[d].ids \cup rows
        PROVE  \E y \in Drain :
                  /\ drain' = [drain EXCEPT ![d] = y]
                  /\ y.pc = "deleting" => y.ids \subseteq got'
                  /\ y.ids \subseteq drain[d].ids \cup rows
    BY <1>3
  <1>4. CASE Over(d)
    BY <1>1, <1>2, <1>3, <1>4
  <1>5. CASE StartDrain(d) /\ ~ Over(d)
    <2> DEFINE x == [drain[d] EXCEPT !.pc = "fetching", !.socket = livePeers[drain[d].peer]]
    <2>1. livePeers[drain[d].peer] \in Sockets \cup {None}
      BY <1>0 DEF Drain, FInv, ForwardingTypeOK, TypeOK
    <2>2. x \in Drain /\ x.pc = "fetching" /\ x.ids = drain[d].ids
      BY <1>0, <2>1 DEF Drain
    <2>3. drain' = [drain EXCEPT ![d] = x]
      BY <1>5 DEF StartDrain
    <2>4. QED
      BY <1>3, <2>2, <2>3
  <1>6. CASE FetchRows(d) /\ ~ Over(d)
    <2>1. PICK ids \in SUBSET RowsFor(drain[d].peer) :
             drain' = [drain EXCEPT ![d].pc = "sending", ![d].ids = ids]
      BY <1>6 DEF FetchRows, kSubset
    <2> DEFINE x == [drain[d] EXCEPT !.pc = "sending", !.ids = ids]
    <2>2. ids \subseteq rows
      BY DEF RowsFor
    <2>3. x \in Drain /\ x.pc = "sending" /\ x.ids = ids
      BY <1>0, <2>2 DEF Drain
    <2>4. drain' = [drain EXCEPT ![d] = x]
      BY <2>1
    <2>5. QED
      BY <1>3, <2>2, <2>3, <2>4
  <1>7. CASE SendRows(d) /\ ~ Over(d)
    <2> DEFINE x == [drain[d] EXCEPT !.pc = "deleting"]
    <2>1. x \in Drain /\ x.ids = drain[d].ids
      BY <1>0 DEF Drain
    <2>2. drain' = [drain EXCEPT ![d] = x] /\ got' = got \cup drain[d].ids
      BY <1>7 DEF SendRows, Becomes
    <2>3. QED
      BY <2>1, <2>2
  <1>8. QED
    BY <1>4, <1>5, <1>6, <1>7 DEF DeleteRows, DrainFails
-----------------------------------------------------------------------------
(* The invariant *)

LEMMA InitFInv == ForwardingInit => FInv
  <1> SUFFICES ASSUME ForwardingInit PROVE FInv
    OBVIOUS
  <1>1. TypeOK
    BY InitIInv DEF ForwardingInit, IInv
  <1>2. (CHOOSE p \in Peers : TRUE) \in Peers
    BY LivePeersAssumption
  <1>3. to \in [Frames -> Peers] /\ task \in [Frames -> Stages]
    BY <1>2 DEF ForwardingInit, Stages
  <1>4. drain \in [Drains -> Drain] /\ DeletesWhatItSent
    BY IdleFields DEF ForwardingInit, DeletesWhatItSent
  <1>5. QED
    BY <1>1, <1>3, <1>4 DEF ForwardingInit, FInv, ForwardingTypeOK, AbsentIsGone, Init

\* The parts that steps change on their own: a frame's stage, and the histories.
LEMMA StageOfFrame ==
    ASSUME task \in [Frames -> Stages], NEW m \in Frames, NEW stage \in Stages,
           Advance(m, stage)
    PROVE  task' \in [Frames -> Stages]
  BY DEF Advance

\* Frames for a peer, of its socket or posted by another relay.
LEMMA NewFrameKeepsFInv ==
    ASSUME FInv, TypeOK', NEW m \in Frames, NEW p \in Peers,
           \/ \E s \in Sockets : SendFrame(s, m, p) \/ SendBye(s, m, p)
           \/ FederatedFrame(m, p)
    PROVE  FInv'
  <1>1. /\ to' = [to EXCEPT ![m] = p]
        /\ UNCHANGED << rows, drain, dropped, gone >>
        /\ got' = got \cup {m} \/ got' = got
        /\ \E stage \in {"done", "queued", "accepting"} : Advance(m, stage)
        /\ absent' = absent
    BY DEF SendFrame, SendBye, FederatedFrame, OtherFrame, Bye, liveVars
  <1>2. to' \in [Frames -> Peers] /\ task' \in [Frames -> Stages]
    BY <1>1, StageOfFrame DEF FInv, ForwardingTypeOK, Stages
  <1>3. QED
    BY <1>1, <1>2 DEF FInv, ForwardingTypeOK, AbsentIsGone, DeletesWhatItSent

\* The forward task of a frame, and its row.
LEMMA TaskKeepsFInv ==
    ASSUME FInv, TypeOK', NEW m \in Frames,
           \/ RunForward(m) \/ ForwardStale(m) \/ ForwardOver(m)
           \/ \E delivered \in BOOLEAN : FederationAnswers(m, delivered)
           \/ StoreFrame(m) \/ StoreRefused(m) \/ RowExpires(m)
    PROVE  FInv'
  <1>1. /\ UNCHANGED << liveVars, to, drain, gone >>
        /\ got' = got \cup {m} \/ got' = got
        /\ dropped' = dropped \cup {m} \/ dropped' = dropped
        /\ rows' \in {rows, rows \cup {m}, rows \ {m}}
        /\ \/ task' = task
           \/ \E stage \in {"ending", "storing", "asking", "done"} : Advance(m, stage)
    BY DEF RunForward, ForwardStale, ForwardOver, FederationAnswers, StoreFrame,
       StoreRefused, RowExpires, AfterStore
  <1>2. task' \in [Frames -> Stages]
    BY <1>1, StageOfFrame DEF FInv, ForwardingTypeOK, Stages
  <1>3. QED
    BY <1>1, <1>2 DEF FInv, ForwardingTypeOK, AbsentIsGone, DeletesWhatItSent, liveVars

LEMMA DrainKeepsFInv ==
    ASSUME FInv, TypeOK', NEW d \in Drains,
           \/ StartDrain(d) \/ FetchRows(d) \/ SendRows(d) \/ DeleteRows(d) \/ DrainFails(d)
    PROVE  FInv'
  <1>1. /\ UNCHANGED << liveVars, to, task, dropped, gone >>
        /\ rows' \subseteq rows
        /\ got \subseteq got' /\ got' \subseteq got \cup drain[d].ids
    BY DEF StartDrain, FetchRows, SendRows, DeleteRows, DrainFails
  <1>2. drain' \in [Drains -> Drain] /\ DeletesWhatItSent'
    BY <1>1, DrainSteps, OneDrain
  <1>3. drain[d].ids \subseteq Frames
    BY DEF FInv, ForwardingTypeOK, Drain
  <1>4. QED
    BY <1>1, <1>2, <1>3 DEF FInv, ForwardingTypeOK, AbsentIsGone, liveVars

\* Announcements, goodbyes and the steps that are about no frame.
LEMMA LiveStepKeepsFInv ==
    ASSUME FInv, TypeOK',
           \/ \E s \in Sockets : AnnounceFrame(s)
           \/ \E s \in Sockets, reason \in WithdrawReasons : WithdrawFrame(s, reason)
           \/ OtherLiveStep
           \/ RelayRestarts
           \/ UNCHANGED vars
    PROVE  FInv'
  <1> USE DEF FInv, ForwardingTypeOK, AbsentIsGone, DeletesWhatItSent
  <1>1. ASSUME NEW s \in Sockets, AnnounceFrame(s) PROVE FInv'
    <2>1. owner[s] \in Peers
      BY DEF TypeOK
    <2>2. absent' = absent \ {owner[s]} /\ gone' = gone \ {owner[s]}
      BY <1>1 DEF AnnounceFrame, Announce
    <2>3. drain' \in [Drains -> Drain] /\ DeletesWhatItSent'
      <3>1. CASE drain' = drain
        BY <1>1, <3>1 DEF AnnounceFrame
      <3>2. CASE drain' # drain
        <4>1. PICK d \in Drains :
                 drain' = [drain EXCEPT ![d] = [Idle EXCEPT !.pc = "queued", !.peer = owner[s]]]
          BY <1>1, <3>2 DEF AnnounceFrame
        <4> DEFINE x == [Idle EXCEPT !.pc = "queued", !.peer = owner[s]]
        <4>2. x \in Drain /\ x.pc = "queued"
          BY <2>1, IdleFields
        <4>3. got' = got
          BY <1>1 DEF AnnounceFrame
        <4> HIDE DEF x
        <4>4. drain' = [drain EXCEPT ![d] = x]
          BY <4>1 DEF x
        <4>5. QED
          BY <4>2, <4>3, <4>4, OneDrain
      <3>3. QED
        BY <3>1, <3>2
    <2>4. QED
      BY <1>1, <2>2, <2>3 DEF AnnounceFrame
  <1>2. ASSUME NEW s \in Sockets, NEW reason \in WithdrawReasons, WithdrawFrame(s, reason)
        PROVE  FInv'
    <2>1. owner[s] \in Peers
      BY DEF TypeOK
    <2>2. absent' \subseteq gone' /\ gone' \subseteq Peers
      BY <1>2, <2>1 DEF WithdrawFrame, Withdraw
    <2>3. QED
      BY <1>2, <2>2 DEF WithdrawFrame
  <1>3. CASE OtherLiveStep
    <2>1. absent' \subseteq absent
      BY <1>3 DEF OtherLiveStep, Accept, RefuseFrame, OtherFrame, SocketClosed, ForgetAbsent,
         ForgetResting
    <2>2. QED
      BY <1>3, <2>1 DEF OtherLiveStep, forwardingVars
  <1>4. CASE RelayRestarts
    <2>1. absent' = {} /\ UNCHANGED << to, rows, got, dropped, gone >>
      BY <1>4 DEF RelayRestarts, Restart
    <2>2. task' \in [Frames -> Stages]
      BY <1>4 DEF RelayRestarts, Stages
    <2>3. ASSUME NEW d \in Drains PROVE drain'[d] \in Drain /\ drain'[d].pc # "deleting"
      <3>1. drain[d] \in Drain
        OBVIOUS
      <3>2. CASE drain[d].pc = "idle"
        BY <1>4, <3>1, <3>2 DEF RelayRestarts
      <3>3. CASE drain[d].pc # "idle"
        <4>1. drain'[d] = [drain[d] EXCEPT !.pc = "queued", !.socket = None, !.ids = {}]
          BY <1>4, <3>3 DEF RelayRestarts
        <4>2. QED
          BY <3>1, <4>1 DEF Drain
      <3>4. QED
        BY <3>2, <3>3
    <2>4. drain' \in [Drains -> Drain]
      BY <1>4, <2>3 DEF RelayRestarts
    <2>5. QED
      BY <2>1, <2>2, <2>3, <2>4
  <1>5. CASE UNCHANGED vars
    BY <1>5 DEF vars, forwardingVars, liveVars
  <1>6. QED
    BY <1>1, <1>2, <1>3, <1>4, <1>5

LEMMA NextFInv == FInv /\ [ForwardingNext]_vars => FInv'
  <1> SUFFICES ASSUME FInv, [ForwardingNext]_vars PROVE FInv'
    OBVIOUS
  <1>1. TypeOK'
    BY StepIsLive, NextTypeOK DEF FInv, ForwardingTypeOK
  <1>2. QED
    BY <1>1, NewFrameKeepsFInv, TaskKeepsFInv, DrainKeepsFInv, LiveStepKeepsFInv
       DEF ForwardingNext

LEMMA SpecFInv == ForwardingSpec => []FInv
  BY InitFInv, NextFInv, PTL DEF ForwardingSpec
\* The state of the relay's forwarding stays within its type.
THEOREM ForwardingTypeCorrect == ForwardingSpec => []ForwardingTypeOK
  <1>1. FInv => ForwardingTypeOK
    BY DEF FInv
  <1>2. QED
    BY <1>1, SpecFInv, PTL

\* What each kind of step does to the frames that are stored, and to those that
\* were dropped.
LEMMA FewStepsLoseFrames ==
    ASSUME FInv, [ForwardingNext]_vars
    PROVE  /\ \A m \in rows \ rows' : m \in got \/ RowExpires(m)
           /\ \A m \in dropped' \ dropped : to[m] \in gone
  <1>1. ASSUME NEW m \in Frames, RunForward(m)
        PROVE  rows' = rows /\ \A n \in dropped' \ dropped : to[n] \in gone
    BY <1>1 DEF RunForward, FInv, AbsentIsGone
  <1>2. ASSUME NEW d \in Drains, DeleteRows(d)
        PROVE  dropped' = dropped /\ \A m \in rows \ rows' : m \in got
    BY <1>2 DEF DeleteRows, FInv, DeletesWhatItSent
  <1>3. ASSUME NEW m \in Frames, RowExpires(m)
        PROVE  dropped' = dropped /\ \A n \in rows \ rows' : n = m
    BY <1>3, Zenon DEF RowExpires
  <1>4. ASSUME \/ \E s \in Sockets, m \in Frames, p \in Peers : SendFrame(s, m, p) \/ SendBye(s, m, p)
               \/ \E s \in Sockets : AnnounceFrame(s)
               \/ \E s \in Sockets, reason \in WithdrawReasons : WithdrawFrame(s, reason)
               \/ OtherLiveStep
               \/ UNCHANGED vars
        PROVE  dropped' = dropped /\ rows' = rows
    BY <1>4, Zenon DEF SendFrame, SendBye, AnnounceFrame, WithdrawFrame, OtherLiveStep, vars, forwardingVars
  <1>5. ASSUME \/ \E m \in Frames, p \in Peers : FederatedFrame(m, p)
               \/ \E m \in Frames : ForwardStale(m) \/ ForwardOver(m) \/ StoreRefused(m)
               \/ \E m \in Frames, delivered \in BOOLEAN : FederationAnswers(m, delivered)
               \/ \E d \in Drains : StartDrain(d) \/ FetchRows(d) \/ SendRows(d) \/ DrainFails(d)
               \/ RelayRestarts
        PROVE  dropped' = dropped /\ rows' = rows
    BY <1>5, Zenon DEF FederatedFrame, ForwardStale, ForwardOver, StoreRefused, FederationAnswers,
       StartDrain, FetchRows, SendRows, DrainFails, RelayRestarts
  <1>6. ASSUME NEW m \in Frames, StoreFrame(m)
        PROVE  dropped' = dropped /\ rows \subseteq rows'
    BY <1>6 DEF StoreFrame
  <1>7. QED
    BY <1>1, <1>2, <1>3, <1>4, <1>5, <1>6 DEF ForwardingNext

\* deliverQueuedRelayMessages deletes no frame that it has not sent.
THEOREM HandoverComesFirst == ForwardingSpec => HandoverBeforeDelete
  <1>1. FInv /\ [ForwardingNext]_vars => [\A m \in rows \ rows' : m \in got \/ RowExpires(m)]_vars
    BY FewStepsLoseFrames
  <1>2. QED
    BY <1>1, SpecFInv, PTL DEF ForwardingSpec, HandoverBeforeDelete

\* A forward task drops a frame only for a peer whose last word was a goodbye,
\* whatever that peer, its other sockets and the relay did since.
THEOREM GoodbyeComesFirst == ForwardingSpec => OnlyGoodbyeDrops
  <1>1. FInv /\ [ForwardingNext]_vars => [\A m \in dropped' \ dropped : to[m] \in gone]_vars
    BY FewStepsLoseFrames
  <1>2. QED
    BY <1>1, SpecFInv, PTL DEF ForwardingSpec, OnlyGoodbyeDrops

-----------------------------------------------------------------------------
(* The mailbox *)

Sent == {m \in Frames : task[m] # "unsent"}

\* A frame is held by its task, its row or a drain.
LEMMA HeldIn ==
    /\ \A m : m \in Held <=> \/ m \in Frames /\ task[m] \notin {"unsent", "done"}
                             \/ m \in rows
                             \/ \E d \in Drains : m \in drain[d].ids
    /\ \A m : m \in Held' <=> \/ m \in Frames /\ task'[m] \notin {"unsent", "done"}
                              \/ m \in rows'
                              \/ \E d \in Drains : m \in drain'[d].ids
  BY DEF Held

\* A new frame.
LEMMA PostsFrame ==
    ASSUME FInv, NEW m \in Frames, NEW p \in Peers,
           \/ \E s \in Sockets : SendFrame(s, m, p) \/ SendBye(s, m, p)
           \/ FederatedFrame(m, p)
    PROVE  Promise!Post(m)
  <1>1. task \in [Frames -> Stages]
    BY DEF FInv, ForwardingTypeOK
  <1>2. /\ task[m] = "unsent"
        /\ UNCHANGED << rows, drain, dropped >>
        /\ \/ got' = got \cup {m} /\ task' = [task EXCEPT ![m] = "done"]
           \/ got' = got /\ \E stage \in {"done", "queued", "accepting"} :
                               task' = [task EXCEPT ![m] = stage]
    BY DEF SendFrame, SendBye, FederatedFrame, Advance
  <1>3. m \notin Sent /\ Sent' = Sent \cup {m}
    BY <1>1, <1>2 DEF Sent
  <1>4. CASE task' = [task EXCEPT ![m] = "done"]
    <2>1. Held' = Held
      BY <1>1, <1>2, <1>4, HeldIn
    <2>2. QED
      BY <1>2, <1>3, <2>1 DEF Promise!Post, Sent
  <1>5. CASE got' = got /\ \E stage \in {"queued", "accepting"} : task' = [task EXCEPT ![m] = stage]
    <2>1. Held' = Held \cup {m}
      BY <1>1, <1>2, <1>5, HeldIn
    <2>2. QED
      BY <1>2, <1>3, <1>5, <2>1 DEF Promise!Post, Sent
  <1>6. QED
    BY <1>2, <1>4, <1>5

\* Steps that hand over and drop nothing, and bring no frame back.
LEMMA LetsGo ==
    ASSUME Held' \subseteq Held, Sent' = Sent, got' = got, dropped' = dropped
    PROVE  Promise!Next
  BY DEF Promise!Next, Promise!LetGo, Sent

\* The forward task of a frame, and its row.
LEMMA TaskInMailbox ==
    ASSUME FInv, NEW m \in Frames,
           \/ RunForward(m) \/ ForwardStale(m) \/ ForwardOver(m)
           \/ \E delivered \in BOOLEAN : FederationAnswers(m, delivered)
           \/ StoreFrame(m) \/ StoreRefused(m) \/ RowExpires(m)
    PROVE  Promise!Next
  <1>0. task \in [Frames -> Stages]
    BY DEF FInv, ForwardingTypeOK
  <1>1. ASSUME NEW stage \in {"asking", "storing", "ending"}, Advance(m, stage),
               task[m] \notin {"unsent", "done"}, UNCHANGED << rows, drain >>
        PROVE  Held' = Held /\ Sent' = Sent /\ m \in Held
    BY <1>0, <1>1, HeldIn DEF Advance, Sent
  <1>2. CASE RunForward(m)
    <2>1. /\ task[m] = "queued" /\ UNCHANGED << rows, drain >>
          /\ \E stage \in {"asking", "storing", "ending"} : Advance(m, stage)
      BY <1>2 DEF RunForward
    <2>2. Held' = Held /\ Sent' = Sent /\ m \in Held
      BY <1>1, <2>1
    <2>3. CASE got' = got \cup {m} /\ dropped' = dropped
      <3>1. {m} \in SUBSET Held
        BY <2>2
      <3>2. Promise!HandOver
        BY <2>2, <2>3, <3>1 DEF Promise!HandOver, Sent
      <3>3. QED
        BY <3>2 DEF Promise!Next
    <2>4. CASE got' = got /\ dropped' = dropped \cup {m}
      BY <2>2, <2>4 DEF Promise!Next, Promise!Drop, Sent
    <2>5. CASE got' = got /\ dropped' = dropped
      BY <2>2, <2>5, LetsGo
    <2>6. QED
      BY <1>2, <2>3, <2>4, <2>5 DEF RunForward
  <1>3. CASE \E delivered \in BOOLEAN : FederationAnswers(m, delivered)
    <2>1. /\ task[m] = "asking" /\ UNCHANGED << rows, drain, got, dropped >>
          /\ \E stage \in {"storing", "ending"} : Advance(m, stage)
      BY <1>3 DEF FederationAnswers
    <2>2. QED
      BY <1>1, <2>1, LetsGo
  <1>4. CASE ForwardStale(m) \/ ForwardOver(m) \/ StoreRefused(m)
    <2>1. /\ task[m] \notin {"unsent", "done"} /\ UNCHANGED << rows, drain, got, dropped >>
          /\ \E stage \in {"ending", "done"} : task' = [task EXCEPT ![m] = stage]
      BY <1>4 DEF ForwardStale, ForwardOver, StoreRefused, AfterStore, Advance
    <2>2. Held' \subseteq Held /\ Sent' = Sent
      BY <1>0, <2>1, HeldIn DEF Sent
    <2>3. QED
      BY <2>1, <2>2, LetsGo
  <1>5. CASE StoreFrame(m)
    <2>1. /\ task[m] \notin {"unsent", "done"} /\ UNCHANGED << drain, got, dropped >>
          /\ rows' = rows \cup {m}
          /\ \E stage \in {"ending", "done"} : task' = [task EXCEPT ![m] = stage]
      BY <1>5 DEF StoreFrame, AfterStore, Advance
    <2>2. Held' \subseteq Held /\ Sent' = Sent
      BY <1>0, <2>1, HeldIn DEF Sent
    <2>3. QED
      BY <2>1, <2>2, LetsGo
  <1>6. CASE RowExpires(m)
    <2>1. UNCHANGED << task, drain, got, dropped >> /\ rows' \subseteq rows
      BY <1>6 DEF RowExpires
    <2>2. Held' \subseteq Held /\ Sent' = Sent
      BY <2>1, HeldIn DEF Sent
    <2>3. QED
      BY <2>1, <2>2, LetsGo
  <1>7. QED
    BY <1>2, <1>3, <1>4, <1>5, <1>6

LEMMA DrainInMailbox ==
    ASSUME FInv, NEW d \in Drains,
           \/ StartDrain(d) \/ FetchRows(d) \/ SendRows(d) \/ DeleteRows(d) \/ DrainFails(d)
    PROVE  Promise!Next
  <1>1. PICK x \in Drain : /\ drain' = [drain EXCEPT ![d] = x]
                           /\ x.ids \subseteq drain[d].ids \cup rows
    BY DrainSteps
  <1>2. \A e \in Drains : drain'[e] = IF e = d THEN x ELSE drain[e]
    BY <1>1 DEF FInv, ForwardingTypeOK
  <1>3. rows' \subseteq rows /\ UNCHANGED << task, dropped >>
    BY DEF StartDrain, FetchRows, SendRows, DeleteRows, DrainFails
  <1>4. Held' \subseteq Held /\ Sent' = Sent
    BY <1>1, <1>2, <1>3, HeldIn DEF Sent
  <1>5. CASE got' = got
    BY <1>3, <1>4, <1>5, LetsGo
  <1>6. CASE got' # got
    <2>1. got' = got \cup drain[d].ids /\ drain' = [drain EXCEPT ![d].pc = "deleting"]
          /\ UNCHANGED rows
      BY <1>6 DEF StartDrain, FetchRows, SendRows, DeleteRows, DrainFails, Becomes
    <2>2. \A e \in Drains : drain'[e].ids = drain[e].ids
      BY <2>1 DEF FInv, ForwardingTypeOK, Drain
    <2>3. Held' = Held
      BY <1>3, <2>1, <2>2, HeldIn
    <2>4. drain[d].ids \in SUBSET Held
      BY HeldIn
    <2>5. Promise!HandOver
      BY <1>3, <1>4, <2>1, <2>3, <2>4 DEF Promise!HandOver, Sent
    <2>6. QED
      BY <2>5 DEF Promise!Next
  <1>7. QED
    BY <1>5, <1>6

\* Announcements begin a drain that has read nothing yet; a restart begins tasks
\* and drains anew, and forgets frames that another relay has posted.
LEMMA LiveStepInMailbox ==
    ASSUME FInv,
           \/ \E s \in Sockets : AnnounceFrame(s)
           \/ \E s \in Sockets, reason \in WithdrawReasons : WithdrawFrame(s, reason)
           \/ OtherLiveStep
           \/ RelayRestarts
           \/ UNCHANGED vars
    PROVE  Promise!Next
  <1>0. /\ task \in [Frames -> Stages] /\ drain \in [Drains -> Drain]
        /\ owner \in [Sockets -> Peers]
    BY DEF FInv, ForwardingTypeOK, TypeOK
  <1>1. ASSUME NEW s \in Sockets, AnnounceFrame(s), drain' # drain
        PROVE  Promise!Next
    <2>1. PICK d \in Drains :
             drain' = [drain EXCEPT ![d] = [Idle EXCEPT !.pc = "queued", !.peer = owner[s]]]
      BY <1>1 DEF AnnounceFrame
    <2> DEFINE x == [Idle EXCEPT !.pc = "queued", !.peer = owner[s]]
    <2>2. x.ids = {}
      BY <1>0, IdleFields
    <2>3. drain' = [drain EXCEPT ![d] = x]
      BY <2>1
    <2> HIDE DEF x
    <2>4. \A e \in Drains : drain'[e] = IF e = d THEN x ELSE drain[e]
      BY <1>0, <2>3
    <2>5. UNCHANGED << task, rows, got, dropped >>
      BY <1>1 DEF AnnounceFrame
    <2>6. Held' \subseteq Held /\ Sent' = Sent
      BY <2>2, <2>4, <2>5, HeldIn DEF Sent
    <2>7. QED
      BY <2>5, <2>6, LetsGo
  <1>2. ASSUME UNCHANGED << task, rows, drain, got, dropped >>
        PROVE  Promise!Next
    BY <1>2, HeldIn, LetsGo DEF Sent
  <1>3. CASE RelayRestarts
    <2>1. UNCHANGED << rows, got, dropped >>
      BY <1>3 DEF RelayRestarts
    <2>2. \A m \in Frames : /\ task'[m] = "unsent" <=> task[m] = "unsent"
                            /\ task[m] = "done" => task'[m] = "done"
      BY <1>0, <1>3 DEF RelayRestarts, Stages
    <2>3. ASSUME NEW d \in Drains PROVE drain'[d].ids \subseteq drain[d].ids
      <3>1. drain[d] \in Drain
        BY <1>0
      <3>2. CASE drain[d].pc = "idle"
        BY <1>3, <3>2 DEF RelayRestarts
      <3>3. CASE drain[d].pc # "idle"
        <4>1. drain'[d] = [drain[d] EXCEPT !.pc = "queued", !.socket = None, !.ids = {}]
          BY <1>3, <3>3 DEF RelayRestarts
        <4>2. QED
          BY <3>1, <4>1 DEF Drain
      <3>4. QED
        BY <3>2, <3>3
    <2>4. Held' \subseteq Held /\ Sent' = Sent
      BY <2>1, <2>2, <2>3, HeldIn DEF Sent
    <2>5. QED
      BY <2>1, <2>4, LetsGo
  <1>4. QED
    BY <1>1, <1>2, <1>3 DEF AnnounceFrame, WithdrawFrame, OtherLiveStep, forwardingVars, vars

\* Whatever way frames take between tasks, D1 and drains, with restarts between
\* any two steps, the relay is a mailbox.
THEOREM MailboxKept == ForwardingSpec => IsMailbox
  <1>1. ForwardingInit => Promise!Init
    <2> SUFFICES ASSUME ForwardingInit PROVE Promise!Init
      OBVIOUS
    <2>1. \A d \in Drains : drain[d].ids = {}
      BY IdleFields DEF ForwardingInit
    <2>2. Held = {}
      BY <2>1, HeldIn DEF ForwardingInit
    <2>3. QED
      BY <2>2 DEF ForwardingInit, Promise!Init
  <1>2. FInv /\ [ForwardingNext]_vars
          => [Promise!Next]_<< {m \in Frames : task[m] # "unsent"}, Held, got, dropped >>
    <2> SUFFICES ASSUME FInv, [ForwardingNext]_vars PROVE Promise!Next
      OBVIOUS
    <2>1. ASSUME NEW m \in Frames, NEW p \in Peers,
                 \/ \E s \in Sockets : SendFrame(s, m, p) \/ SendBye(s, m, p)
                 \/ FederatedFrame(m, p)
          PROVE  Promise!Next
      BY <2>1, PostsFrame DEF Promise!Next
    <2>2. QED
      BY <2>1, TaskInMailbox, DrainInMailbox, LiveStepInMailbox DEF ForwardingNext
  <1>3. QED
    BY <1>1, <1>2, SpecFInv, PTL DEF ForwardingSpec, IsMailbox, Promise!Spec
=============================================================================
