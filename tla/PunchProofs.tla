----------------------------- MODULE PunchProofs -----------------------------
(***************************************************************************)
(* Proofs about Punch, for any candidates, any size of the mailboxes and   *)
(* any number of offers: of an introduction nothing is forgotten but       *)
(* candidates that overtake their offer, and every pending offer gives its *)
(* place back.                                                             *)
(***************************************************************************)
EXTENDS Punch, FiniteSetTheorems, TLAPS

USE PunchAssumption

End == [pc : {"none", "open", "closed"}, described : BOOLEAN,
        held : SUBSET Candidates, applied : SUBSET Candidates, dropped : SUBSET Candidates,
        batch : Seq(Signals), open : BOOLEAN]

-----------------------------------------------------------------------------
(* The invariant *)

\* Message m is in the mailbox or batch b.
In(b, m) == \E i \in DOMAIN b : b[i] = m

\* Message m is on its way to side s.
OnWay(s, m) == m \in posts[Other(s)] \/ In(box[s], m) \/ In(side[s].batch, m)

\* End e has dealt with message m, or keeps it.
Has(e, m) == IF m = Description THEN e.described ELSE m \in e.applied \cup e.held \cup e.dropped

\* Nothing is kept back from a side that has been described, and the dialer drops
\* nothing.
HeldForLater ==
    /\ \A s \in Sides : side[s].described => side[s].held = {}
    /\ side["dialer"].dropped = {}

\* Unless something was lost, whatever a side has sent is on its way or has come; the
\* listener has a connection once it has the offer.
NothingIsLost ==
    misses = 0 =>
       /\ \A s \in Sides : side[s].pc # "closed"
       /\ dial # "idle" =>
             /\ side["dialer"].pc = "open"
             /\ \/ OnWay("listener", Description)
                \/ side["listener"].pc = "open" /\ side["listener"].described
             /\ \A m \in Signals : OnWay("listener", m) \/ Has(side["listener"], m)
       /\ side["listener"].pc = "open" =>
             \A m \in Signals : OnWay("dialer", m) \/ Has(side["dialer"], m)

\* An offer is settled once it is being answered, and none that is answered and
\* still waited for is.
SettledOnce ==
    \A o \in settled : offer[o] \in {"answering", "over"}

PunchInv == PunchTypeOK /\ HeldForLater /\ NothingIsLost /\ SettledOnce /\ PendingComesBack

LEMMA InvSuffices == PunchInv => PunchingIsSound
  <1> SUFFICES ASSUME PunchInv, misses = 0, dial = "waiting",
                      \A s \in Sides : posts[s] = {} /\ box[s] = << >> /\ side[s].batch = << >>
               PROVE  /\ \A s \in Sides : side[s].pc = "open" /\ side[s].described
                      /\ side["dialer"].applied = Candidates
                      /\ side["listener"].applied \cup side["listener"].dropped = Candidates
    BY DEF PunchInv, PunchingIsSound, CandidatesAreUsed, AllDealtWith
  <1>1. \A m : ~ OnWay("dialer", m) /\ ~ OnWay("listener", m)
    <2>1. \A m : ~ In(<< >>, m)
      BY DEF In
    <2>2. QED
      BY <2>1 DEF OnWay, Sides, Other
  <1>2. /\ side["dialer"].pc = "open"
        /\ side["listener"].pc = "open" /\ side["listener"].described
        /\ \A m \in Signals : Has(side["dialer"], m) /\ Has(side["listener"], m)
    BY <1>1 DEF PunchInv, NothingIsLost
  <1>3. side["dialer"].described
    BY <1>2 DEF Signals, Has
  <1>4. side["dialer"].held = {} /\ side["dialer"].dropped = {} /\ side["listener"].held = {}
    BY <1>2, <1>3 DEF PunchInv, HeldForLater, Sides
  <1>5. /\ side["dialer"].applied \in SUBSET Candidates /\ side["listener"].applied \in SUBSET Candidates
        /\ side["listener"].dropped \in SUBSET Candidates
    BY DEF PunchInv, PunchTypeOK, Sides
  <1>6. \A c \in Candidates : c \in Signals /\ c # Description
    BY DEF Signals
  <1>7. \A c \in Candidates : /\ c \in side["dialer"].applied
                              /\ c \in side["listener"].applied \cup side["listener"].dropped
    BY <1>2, <1>4, <1>6 DEF Has
  <1>8. QED
    BY <1>2, <1>3, <1>5, <1>7 DEF Sides
-----------------------------------------------------------------------------
(* Mailboxes and batches *)

LEMMA InTail ==
    ASSUME NEW M, NEW b \in Seq(M), b # << >>
    PROVE  /\ Head(b) \in M /\ Tail(b) \in Seq(M) /\ Len(Tail(b)) = Len(b) - 1
           /\ \A m : In(b, m) => m = Head(b) \/ In(Tail(b), m)
  <1>1. /\ Len(b) \in Nat \ {0} /\ DOMAIN b = 1 .. Len(b) /\ Head(b) = b[1]
        /\ Head(b) \in M /\ Tail(b) \in Seq(M) /\ Len(Tail(b)) = Len(b) - 1
        /\ DOMAIN Tail(b) = 1 .. Len(b) - 1
        /\ \A i \in 1 .. Len(b) - 1 : Tail(b)[i] = b[i + 1]
    OBVIOUS
  <1>2. ASSUME NEW i \in DOMAIN b, i # 1
        PROVE  In(Tail(b), b[i])
    <2>1. i - 1 \in 1 .. Len(b) - 1 /\ (i - 1) + 1 = i
      BY <1>1, <1>2
    <2>2. Tail(b)[i - 1] = b[i] /\ i - 1 \in DOMAIN Tail(b)
      BY <1>1, <2>1
    <2>3. QED
      BY <2>2, Zenon DEF In
  <1>3. QED
    BY <1>1, <1>2 DEF In

LEMMA InAppend ==
    ASSUME NEW M, NEW b \in Seq(M), NEW n \in M
    PROVE  /\ Append(b, n) \in Seq(M) /\ Len(Append(b, n)) = Len(b) + 1
           /\ In(Append(b, n), n)
           /\ \A m : In(b, m) => In(Append(b, n), m)
  <1>1. /\ Len(b) \in Nat /\ DOMAIN b = 1 .. Len(b)
        /\ Append(b, n) \in Seq(M) /\ Len(Append(b, n)) = Len(b) + 1
        /\ DOMAIN Append(b, n) = 1 .. Len(b) + 1
        /\ \A i \in 1 .. Len(b) : Append(b, n)[i] = b[i]
        /\ Append(b, n)[Len(b) + 1] = n
    OBVIOUS
  <1>2. Len(b) + 1 \in DOMAIN Append(b, n) /\ DOMAIN b \in SUBSET (DOMAIN Append(b, n))
    BY <1>1
  <1>3. QED
    BY <1>1, <1>2 DEF In

LEMMA PushedIs ==
    ASSUME NEW b \in Seq(Signals), Len(b) <= MaxBox, NEW m \in Signals
    PROVE  /\ Pushed(b, m) \in Seq(Signals) /\ Len(Pushed(b, m)) <= MaxBox
           /\ In(Pushed(b, m), m)
           /\ ~ (Len(b) >= MaxBox) => \A n : In(b, n) => In(Pushed(b, m), n)
  <1>1. Len(b) \in Nat
    OBVIOUS
  <1>2. CASE Len(b) >= MaxBox
    <2>1. b # << >>
      BY <1>2
    <2>2. Tail(b) \in Seq(Signals) /\ Len(Tail(b)) = Len(b) - 1
      BY <2>1, InTail
    <2>3. /\ Append(Tail(b), m) \in Seq(Signals) /\ Len(Append(Tail(b), m)) = Len(Tail(b)) + 1
          /\ In(Append(Tail(b), m), m)
      BY <2>2, InAppend
    <2>4. QED
      BY <1>1, <1>2, <2>2, <2>3 DEF Pushed
  <1>3. CASE ~ (Len(b) >= MaxBox)
    <2>1. /\ Append(b, m) \in Seq(Signals) /\ Len(Append(b, m)) = Len(b) + 1
          /\ In(Append(b, m), m) /\ \A n : In(b, n) => In(Append(b, m), n)
      BY InAppend
    <2>2. QED
      BY <1>1, <1>3, <2>1 DEF Pushed
  <1>4. QED
    BY <1>2, <1>3

\* A side that deals with a message has it then, and what it had before.
LEMMA ApplySignalIs ==
    ASSUME NEW e \in End, NEW m \in Signals
    PROVE  LET f == ApplySignal(e, m)
           IN  /\ f \in End
               /\ Has(f, m) /\ \A n : Has(e, n) => Has(f, n)
               /\ f.pc = e.pc /\ f.batch = e.batch /\ f.dropped = e.dropped
               /\ (e.described => e.held = {}) => (f.described => f.held = {})
  <1>1. CASE m = Description
    <2> DEFINE f == [e EXCEPT !.described = TRUE, !.applied = @ \cup e.held, !.held = {}]
    <2>1. /\ f \in End /\ f.described /\ f.held = {} /\ f.applied = e.applied \cup e.held
          /\ f.pc = e.pc /\ f.batch = e.batch /\ f.dropped = e.dropped
      BY DEF End
    <2>2. ApplySignal(e, m) = f
      BY <1>1 DEF ApplySignal
    <2> HIDE DEF f
    <2>3. Has(f, m) /\ \A n : Has(e, n) => Has(f, n)
      BY <1>1, <2>1 DEF Has
    <2>4. QED
      BY <2>1, <2>2, <2>3
  <1>2. CASE m # Description /\ e.described
    <2> DEFINE f == [e EXCEPT !.applied = @ \cup {m}]
    <2>1. m \in Candidates
      BY <1>2 DEF Signals
    <2>2. /\ f \in End /\ f.described = e.described /\ f.held = e.held
          /\ f.applied = e.applied \cup {m} /\ f.pc = e.pc /\ f.batch = e.batch /\ f.dropped = e.dropped
      BY <2>1 DEF End
    <2>3. ApplySignal(e, m) = f
      BY <1>2 DEF ApplySignal
    <2> HIDE DEF f
    <2>4. Has(f, m) /\ \A n : Has(e, n) => Has(f, n)
      BY <1>2, <2>2 DEF Has
    <2>5. QED
      BY <2>2, <2>3, <2>4
  <1>3. CASE m # Description /\ ~ e.described
    <2> DEFINE f == [e EXCEPT !.held = @ \cup {m}]
    <2>1. m \in Candidates
      BY <1>3 DEF Signals
    <2>2. /\ f \in End /\ f.described = e.described /\ f.applied = e.applied
          /\ f.held = e.held \cup {m} /\ f.pc = e.pc /\ f.batch = e.batch /\ f.dropped = e.dropped
      BY <2>1 DEF End
    <2>3. ApplySignal(e, m) = f
      BY <1>3 DEF ApplySignal
    <2> HIDE DEF f
    <2>4. Has(f, m) /\ \A n : Has(e, n) => Has(f, n)
      BY <1>3, <2>2 DEF Has
    <2>5. QED
      BY <1>3, <2>2, <2>3, <2>4
  <1>4. QED
    BY <1>1, <1>2, <1>3
-----------------------------------------------------------------------------
(* The rendezvous keeps its part of the invariant *)

RendezvousType ==
    /\ side \in [Sides -> End]
    /\ posts \in [Sides -> SUBSET Signals]
    /\ box \in [Sides -> Seq(Signals)] /\ \A s \in Sides : Len(box[s]) <= MaxBox
    /\ dial \in {"idle", "offering", "waiting", "open", "failed"}
    /\ misses \in Nat

RendezvousInv == RendezvousType /\ HeldForLater /\ NothingIsLost

LEMMA SidesAre ==
    /\ Sides = {"dialer", "listener"}
    /\ Other("dialer") = "listener" /\ Other("listener") = "dialer"
    /\ \A s \in Sides : Other(s) \in Sides /\ Other(s) # s
    /\ Description \in Signals
  BY DEF Sides, Other, Signals

LEMMA DialPunchedKeeps ==
    ASSUME RendezvousInv, DialPunched
    PROVE  RendezvousInv'
  <1> DEFINE d == [side["dialer"] EXCEPT !.pc = "open"]
  <1>1. /\ side["dialer"] \in End /\ side' = [side EXCEPT !["dialer"] = d]
        /\ d \in End /\ d.pc = "open" /\ d.described = side["dialer"].described
        /\ d.held = side["dialer"].held /\ d.applied = side["dialer"].applied
        /\ d.dropped = side["dialer"].dropped
        /\ d.batch = side["dialer"].batch
    <2>1. side["dialer"] \in End
      BY SidesAre DEF RendezvousInv, RendezvousType
    <2>2. \A e \in End :
             LET f == [e EXCEPT !.pc = "open"]
             IN  /\ f \in End /\ f.pc = "open" /\ f.described = e.described
                 /\ f.held = e.held /\ f.applied = e.applied /\ f.batch = e.batch
                 /\ f.dropped = e.dropped
      BY DEF End
    <2>3. side' = [side EXCEPT !["dialer"] = d]
      BY DEF DialPunched
    <2>4. QED
      BY <2>1, <2>2, <2>3
  <1> HIDE DEF d
  <1>2. /\ side'["dialer"] = d /\ side'["listener"] = side["listener"]
        /\ posts' = [posts EXCEPT !["dialer"] = Signals] /\ box' = box /\ misses' = misses
        /\ dial' = "offering"
    BY <1>1, SidesAre DEF RendezvousInv, RendezvousType, DialPunched
  <1>3. RendezvousType'
    BY <1>1, <1>2, SidesAre DEF RendezvousInv, RendezvousType
  <1>4. HeldForLater'
    BY <1>1, <1>2, SidesAre DEF RendezvousInv, HeldForLater
  <1>5. NothingIsLost'
    <2>1. posts'["dialer"] = Signals /\ posts'["listener"] = posts["listener"]
      BY <1>2, SidesAre DEF RendezvousInv, RendezvousType
    <2>2. \A m \in Signals : OnWay("listener", m)'
      BY <2>1, SidesAre DEF OnWay
    <2>3. \A m : OnWay("dialer", m) => OnWay("dialer", m)'
      BY <1>1, <1>2, <2>1, SidesAre DEF OnWay
    <2>4. \A m : Has(side["dialer"], m) => Has(side'["dialer"], m)
      BY <1>1, <1>2 DEF Has
    <2>5. QED
      BY <1>1, <1>2, <2>2, <2>3, <2>4, SidesAre DEF RendezvousInv, NothingIsLost
  <1>6. QED
    BY <1>3, <1>4, <1>5 DEF RendezvousInv

\* A step that loses nothing new, moves messages on and leaves the ends as they are,
\* or lets them have more.
Carries ==
    misses' = 0 =>
       /\ misses = 0
       /\ dial' # "idle" => dial # "idle"
       /\ \A s \in Sides : side'[s].pc = side[s].pc
       /\ side["listener"].described => side'["listener"].described
       /\ OnWay("listener", Description) =>
             OnWay("listener", Description)' \/ (side'["listener"].pc = "open" /\ side'["listener"].described)
       /\ \A s \in Sides : \A m \in Signals :
             /\ Has(side[s], m) => Has(side'[s], m)
             /\ OnWay(s, m) => OnWay(s, m)' \/ Has(side'[s], m)

LEMMA CarriesKeeps ==
    ASSUME NothingIsLost, Carries
    PROVE  NothingIsLost'
  BY SidesAre DEF NothingIsLost, Carries

LEMMA PostArrivesKeeps ==
    ASSUME RendezvousInv, NEW s \in Sides, NEW m \in Signals, PostArrives(s, m)
    PROVE  RendezvousInv'
  <1> DEFINE o == Other(s)
             p == Pushed(box[o], m)
  <1>1. /\ o \in Sides /\ box[o] \in Seq(Signals) /\ Len(box[o]) <= MaxBox
        /\ side' = side /\ posts' = [posts EXCEPT ![s] = @ \ {m}]
        /\ box' = [box EXCEPT ![o] = p]
        /\ misses' = IF Len(box[o]) >= MaxBox THEN misses + 1 ELSE misses
        /\ dial' = IF s = "dialer" /\ m = Description /\ dial = "offering" THEN "waiting" ELSE dial
    BY SidesAre DEF RendezvousInv, RendezvousType, PostArrives
  <1>2. /\ p \in Seq(Signals) /\ Len(p) <= MaxBox /\ In(p, m)
        /\ ~ (Len(box[o]) >= MaxBox) => \A n : In(box[o], n) => In(p, n)
    BY <1>1, PushedIs
  <1> HIDE DEF p, o
  <1>3. RendezvousType'
    BY <1>1, <1>2 DEF RendezvousInv, RendezvousType
  <1>4. HeldForLater'
    BY <1>1 DEF RendezvousInv, HeldForLater
  <1>5. Carries
    <2>1. SUFFICES ASSUME misses' = 0
                   PROVE  /\ misses = 0 /\ (dial' # "idle" => dial # "idle")
                          /\ \A t \in Sides : \A n : OnWay(t, n) => OnWay(t, n)'
      BY <1>1, SidesAre DEF Carries
    <2>2. misses = 0 /\ ~ (Len(box[o]) >= MaxBox)
      BY <1>1, <2>1 DEF RendezvousInv, RendezvousType
    <2>3. \A t \in Sides : \A n : In(box[t], n) => In(box'[t], n)
      BY <1>1, <1>2, <2>2 DEF RendezvousInv, RendezvousType
    <2>4. \A t \in Sides : \A n : n \in posts[Other(t)] => n \in posts'[Other(t)] \/ In(box'[t], n)
      BY <1>1, <1>2, SidesAre DEF RendezvousInv, RendezvousType, o
    <2>5. QED
      BY <1>1, <2>2, <2>3, <2>4 DEF OnWay
  <1>6. QED
    BY <1>3, <1>4, <1>5, CarriesKeeps DEF RendezvousInv

\* What is lost is counted.
LEMMA MissKeeps ==
    ASSUME RendezvousInv,
           \/ \E s \in Sides : (\E m \in Signals : PostFails(s, m)) \/ Expires(s) \/ PollLost(s)
           \/ StopListening
    PROVE  RendezvousInv'
  <1>1. misses' = misses + 1 /\ misses \in Nat
    BY DEF PostFails, Expires, PollLost, StopListening, Miss, RendezvousInv, RendezvousType
  <1>2. NothingIsLost'
    BY <1>1 DEF NothingIsLost
  <1>3. ASSUME NEW s \in Sides, NEW m \in Signals, PostFails(s, m)
        PROVE  RendezvousType' /\ HeldForLater'
    BY <1>1, <1>3 DEF PostFails, RendezvousInv, RendezvousType, HeldForLater
  <1>4. ASSUME NEW s \in Sides, Expires(s)
        PROVE  RendezvousType' /\ HeldForLater'
    <2>1. Tail(box[s]) \in Seq(Signals) /\ Len(Tail(box[s])) = Len(box[s]) - 1 /\ Len(box[s]) \in Nat
      BY <1>4, InTail DEF Expires, RendezvousInv, RendezvousType
    <2>2. Len(Tail(box[s])) <= MaxBox
      BY <2>1 DEF RendezvousInv, RendezvousType
    <2>3. QED
      BY <1>1, <1>4, <2>1, <2>2 DEF Expires, RendezvousInv, RendezvousType, HeldForLater
  <1>5. ASSUME NEW s \in Sides, PollLost(s)
        PROVE  RendezvousType' /\ HeldForLater'
    <2>1. << >> \in Seq(Signals) /\ Len(<< >>) <= MaxBox
      OBVIOUS
    <2>2. QED
      BY <1>1, <1>5, <2>1 DEF PollLost, RendezvousInv, RendezvousType, HeldForLater
  <1>6. ASSUME StopListening
        PROVE  RendezvousType' /\ HeldForLater'
    <2> DEFINE e == [side["listener"] EXCEPT !.pc = "closed", !.batch = << >>]
    <2>1. /\ side' = [side EXCEPT !["listener"] = e]
          /\ e \in End /\ e.described = side["listener"].described /\ e.held = side["listener"].held
      <3>1. side["listener"] \in End
        BY SidesAre DEF RendezvousInv, RendezvousType
      <3>2. \A x \in End, b \in Seq(Signals) :
               LET f == [x EXCEPT !.pc = "closed", !.batch = b]
               IN  f \in End /\ f.described = x.described /\ f.held = x.held
        BY DEF End
      <3>3. side' = [side EXCEPT !["listener"] = e]
        BY <1>6, <3>1 DEF StopListening
      <3>4. << >> \in Seq(Signals)
        OBVIOUS
      <3>5. QED
        BY <3>1, <3>2, <3>3, <3>4
    <2> HIDE DEF e
    <2>2. /\ side'["listener"] = e /\ side'["dialer"] = side["dialer"] /\ side' \in [Sides -> End]
          /\ UNCHANGED << posts, box, dial >>
      BY <1>6, <2>1, SidesAre DEF StopListening, RendezvousInv, RendezvousType
    <2>3. HeldForLater'
      BY <2>1, <2>2, SidesAre DEF RendezvousInv, HeldForLater
    <2>4. RendezvousType'
      BY <1>1, <2>2 DEF RendezvousInv, RendezvousType
    <2>5. QED
      BY <2>3, <2>4
  <1>7. QED
    BY <1>2, <1>3, <1>4, <1>5, <1>6 DEF RendezvousInv

LEMMA PollAnsweredKeeps ==
    ASSUME RendezvousInv, NEW s \in Sides, PollAnswered(s)
    PROVE  RendezvousInv'
  <1> DEFINE e == [side[s] EXCEPT !.batch = box[s]]
  <1>1. /\ side[s] \in End /\ box[s] \in Seq(Signals) /\ side[s].batch = << >>
        /\ side' = [side EXCEPT ![s] = e] /\ box' = [box EXCEPT ![s] = << >>]
        /\ posts' = posts /\ dial' = dial /\ misses' = misses
    BY DEF RendezvousInv, RendezvousType, PollAnswered, Polls
  <1>2. /\ e \in End /\ e.batch = box[s] /\ e.pc = side[s].pc /\ e.described = side[s].described
        /\ e.held = side[s].held /\ e.applied = side[s].applied /\ e.dropped = side[s].dropped
    <2>1. \A x \in End, b \in Seq(Signals) :
             LET f == [x EXCEPT !.batch = b]
             IN  /\ f \in End /\ f.batch = b /\ f.pc = x.pc /\ f.described = x.described
                 /\ f.held = x.held /\ f.applied = x.applied /\ f.dropped = x.dropped
      BY DEF End
    <2>2. QED
      BY <1>1, <2>1
  <1> HIDE DEF e
  <1>3. \A t \in Sides : side'[t] = IF t = s THEN e ELSE side[t]
    BY <1>1 DEF RendezvousInv, RendezvousType
  <1>4. RendezvousType'
    <2>1. << >> \in Seq(Signals) /\ Len(<< >>) <= MaxBox
      OBVIOUS
    <2>2. QED
      BY <1>1, <1>2, <2>1 DEF RendezvousInv, RendezvousType
  <1>5. HeldForLater'
    BY <1>2, <1>3, SidesAre DEF RendezvousInv, HeldForLater
  <1>6. Carries
    <2>1. \A t \in Sides : \A n : OnWay(t, n) => OnWay(t, n)'
      <3>1. \A n : ~ In(<< >>, n)
        BY DEF In
      <3>2. \A t \in Sides : box'[t] = IF t = s THEN << >> ELSE box[t]
        BY <1>1 DEF RendezvousInv, RendezvousType
      <3>3. QED
        BY <1>1, <1>2, <1>3, <3>1, <3>2 DEF OnWay
    <2>2. \A t \in Sides : /\ side'[t].pc = side[t].pc /\ side'[t].described = side[t].described
                           /\ \A n : Has(side[t], n) => Has(side'[t], n)
      BY <1>2, <1>3 DEF Has
    <2>3. QED
      BY <1>1, <2>1, <2>2, SidesAre DEF Carries
  <1>7. QED
    BY <1>4, <1>5, <1>6, CarriesKeeps DEF RendezvousInv

\* An end that has the first message of its batch before it.
LEMMA RestIs ==
    ASSUME RendezvousType, NEW s \in Sides, side[s].batch # << >>
    PROVE  LET e == Rest(s)
               m == Head(side[s].batch)
           IN  /\ e \in End /\ m \in Signals
               /\ e.pc = side[s].pc /\ e.described = side[s].described
               /\ e.held = side[s].held /\ e.applied = side[s].applied /\ e.dropped = side[s].dropped
               /\ \A n : In(side[s].batch, n) => n = m \/ In(e.batch, n)
  <1>1. side[s] \in End /\ side[s].batch \in Seq(Signals)
    BY DEF RendezvousType, End
  <1>2. /\ Head(side[s].batch) \in Signals /\ Tail(side[s].batch) \in Seq(Signals)
        /\ \A n : In(side[s].batch, n) => n = Head(side[s].batch) \/ In(Tail(side[s].batch), n)
    BY <1>1, InTail
  <1>3. \A x \in End, b \in Seq(Signals) :
           LET f == [x EXCEPT !.batch = b]
           IN  /\ f \in End /\ f.batch = b /\ f.pc = x.pc /\ f.described = x.described
               /\ f.held = x.held /\ f.applied = x.applied /\ f.dropped = x.dropped
    BY DEF End
  <1> DEFINE t == Tail(side[s].batch)
  <1>4. Rest(s) = [side[s] EXCEPT !.batch = t]
    BY DEF Rest
  <1>5. t \in Seq(Signals) /\ \A n : In(side[s].batch, n) => n = Head(side[s].batch) \/ In(t, n)
    BY <1>2
  <1> HIDE DEF t
  <1>6. /\ Rest(s) \in End /\ Rest(s).batch = t
        /\ Rest(s).pc = side[s].pc /\ Rest(s).described = side[s].described
        /\ Rest(s).held = side[s].held /\ Rest(s).applied = side[s].applied
        /\ Rest(s).dropped = side[s].dropped
    BY <1>1, <1>3, <1>4, <1>5
  <1>7. QED
    BY <1>2, <1>5, <1>6

LEMMA DialerTakesKeeps ==
    ASSUME RendezvousInv, DialerTakes
    PROVE  RendezvousInv'
  <1> DEFINE m == Head(side["dialer"].batch)
             r == Rest("dialer")
             e == ApplySignal(r, m)
  <1>1. /\ side' = [side EXCEPT !["dialer"] = e] /\ side["dialer"].batch # << >>
        /\ posts' = posts /\ box' = box /\ dial' = dial /\ misses' = misses
    BY DEF DialerTakes
  <1>2. /\ r \in End /\ m \in Signals
        /\ r.pc = side["dialer"].pc /\ r.described = side["dialer"].described
        /\ r.held = side["dialer"].held /\ r.applied = side["dialer"].applied
        /\ r.dropped = side["dialer"].dropped
        /\ \A n : In(side["dialer"].batch, n) => n = m \/ In(r.batch, n)
    BY <1>1, RestIs, SidesAre DEF RendezvousInv
  <1> HIDE DEF m, r
  <1>3. /\ e \in End /\ Has(e, m) /\ (\A n : Has(r, n) => Has(e, n))
        /\ e.pc = r.pc /\ e.batch = r.batch /\ e.dropped = r.dropped
        /\ ((r.described => r.held = {}) => (e.described => e.held = {}))
    BY <1>2, ApplySignalIs
  <1> HIDE DEF e
  <1>4. side'["dialer"] = e /\ side'["listener"] = side["listener"]
    BY <1>1, SidesAre DEF RendezvousInv, RendezvousType
  <1>5. RendezvousType'
    BY <1>1, <1>3 DEF RendezvousInv, RendezvousType
  <1>6. HeldForLater'
    BY <1>2, <1>3, <1>4, SidesAre DEF RendezvousInv, HeldForLater
  <1>7. Carries
    <2>1. \A n : OnWay("listener", n) => OnWay("listener", n)'
      BY <1>1, <1>4 DEF OnWay
    <2>2. \A n : Has(side["dialer"], n) => Has(side'["dialer"], n)
      <3>1. \A n : Has(side["dialer"], n) => Has(r, n)
        BY <1>2 DEF Has
      <3>2. QED
        BY <1>3, <1>4, <3>1
    <2>3. \A n : OnWay("dialer", n) => OnWay("dialer", n)' \/ Has(side'["dialer"], n)
      BY <1>1, <1>2, <1>3, <1>4 DEF OnWay
    <2>4. QED
      BY <1>1, <1>2, <1>3, <1>4, <2>1, <2>2, <2>3, SidesAre DEF Carries
  <1>8. QED
    BY <1>5, <1>6, <1>7, CarriesKeeps DEF RendezvousInv
LEMMA ListenerTakesKeeps ==
    ASSUME RendezvousInv, ListenerTakes
    PROVE  RendezvousInv'
  <1> DEFINE m == Head(side["listener"].batch)
             r == Rest("listener")
             e == side'["listener"]
  <1>1. /\ side["listener"].batch # << >> /\ Description \notin posts["listener"]
        /\ box' = box /\ dial' = dial /\ misses' = misses
    BY DEF ListenerTakes
  <1>2. /\ r \in End /\ m \in Signals
        /\ r.pc = side["listener"].pc /\ r.described = side["listener"].described
        /\ r.held = side["listener"].held /\ r.applied = side["listener"].applied
        /\ r.dropped = side["listener"].dropped
        /\ \A n : In(side["listener"].batch, n) => n = m \/ In(r.batch, n)
    BY <1>1, RestIs, SidesAre DEF RendezvousInv
  <1> HIDE DEF m, r
  <1> DEFINE known == side["listener"].pc # "none"
             o == [r EXCEPT !.pc = IF known THEN @ ELSE "open"]
             a == ApplySignal(o, m)
             d == [r EXCEPT !.dropped = @ \cup {m}]
             x == IF known \/ m = Description THEN a ELSE d
  <1>3. /\ side' = [side EXCEPT !["listener"] = x]
        /\ posts' = IF ~ known /\ m = Description THEN [posts EXCEPT !["listener"] = Signals] ELSE posts
    BY DEF ListenerTakes, m, r
  <1>4. /\ o \in End /\ o.pc = (IF known THEN r.pc ELSE "open") /\ o.described = r.described
        /\ o.held = r.held /\ o.applied = r.applied /\ o.dropped = r.dropped /\ o.batch = r.batch
    <2>1. \A y \in End, pc \in {"none", "open", "closed"} :
             LET f == [y EXCEPT !.pc = pc]
             IN  /\ f \in End /\ f.pc = pc /\ f.described = y.described /\ f.held = y.held
                 /\ f.applied = y.applied /\ f.dropped = y.dropped /\ f.batch = y.batch
      BY DEF End
    <2> DEFINE pc == IF known THEN r.pc ELSE "open"
    <2>2. r.pc \in {"none", "open", "closed"} /\ pc \in {"none", "open", "closed"}
      BY <1>2 DEF End
    <2>3. o = [r EXCEPT !.pc = pc]
      OBVIOUS
    <2> HIDE DEF pc, o
    <2>4. /\ o \in End /\ o.pc = pc /\ o.described = r.described /\ o.held = r.held
          /\ o.applied = r.applied /\ o.dropped = r.dropped /\ o.batch = r.batch
      BY <1>2, <2>1, <2>2, <2>3
    <2>5. QED
      BY <2>4 DEF pc
  <1> HIDE DEF o
  <1>5. /\ a \in End /\ Has(a, m) /\ (\A n : Has(o, n) => Has(a, n))
        /\ a.pc = o.pc /\ a.batch = o.batch
        /\ ((o.described => o.held = {}) => (a.described => a.held = {}))
    BY <1>2, <1>4, ApplySignalIs
  <1> HIDE DEF a
  <1>6. m # Description =>
           /\ d \in End /\ Has(d, m) /\ (\A n : Has(r, n) => Has(d, n))
           /\ d.pc = r.pc /\ d.described = r.described /\ d.held = r.held /\ d.batch = r.batch
    <2> SUFFICES ASSUME m # Description
                 PROVE  /\ d \in End /\ Has(d, m) /\ (\A n : Has(r, n) => Has(d, n))
                        /\ d.pc = r.pc /\ d.described = r.described /\ d.held = r.held /\ d.batch = r.batch
      OBVIOUS
    <2>1. m \in Candidates
      BY <1>2 DEF Signals
    <2>2. /\ d \in End /\ d.pc = r.pc /\ d.described = r.described /\ d.held = r.held
          /\ d.applied = r.applied /\ d.dropped = r.dropped \cup {m} /\ d.batch = r.batch
      BY <1>2, <2>1 DEF End
    <2> HIDE DEF d
    <2>3. QED
      BY <2>2 DEF Has
  <1> HIDE DEF d
  <1>7. /\ x \in End /\ e = x /\ side'["dialer"] = side["dialer"]
        /\ Has(x, m) /\ (\A n : Has(r, n) => Has(x, n)) /\ x.batch = r.batch
        /\ x.pc = (IF known THEN r.pc ELSE IF m = Description THEN "open" ELSE "none")
        /\ x.described => x.held = {}
    <2>1. \A n : Has(r, n) => Has(o, n)
      BY <1>4 DEF Has
    <2>2. r.described => r.held = {}
      BY <1>2, SidesAre DEF RendezvousInv, HeldForLater
    <2>3. /\ x \in End /\ Has(x, m) /\ (\A n : Has(r, n) => Has(x, n)) /\ x.batch = r.batch
          /\ x.described => x.held = {}
          /\ x.pc = (IF known THEN r.pc ELSE IF m = Description THEN "open" ELSE "none")
      BY <1>2, <1>4, <1>5, <1>6, <2>1, <2>2
    <2> HIDE DEF x
    <2>4. e = x /\ side'["dialer"] = side["dialer"]
      BY <1>3, SidesAre DEF RendezvousInv, RendezvousType
    <2>5. QED
      BY <2>3, <2>4
  <1> HIDE DEF x, e
  <1>8. RendezvousType'
    BY <1>1, <1>3, <1>7, SidesAre DEF RendezvousInv, RendezvousType
  <1>9. HeldForLater'
    BY <1>7, SidesAre DEF RendezvousInv, HeldForLater, e
  <1>10. NothingIsLost'
    <2>1. SUFFICES ASSUME misses' = 0 PROVE NothingIsLost'
      BY DEF NothingIsLost
    <2>2. /\ \A s \in Sides : side[s].pc # "closed"
          /\ dial # "idle" =>
                /\ side["dialer"].pc = "open"
                /\ \/ OnWay("listener", Description)
                   \/ side["listener"].pc = "open" /\ side["listener"].described
                /\ \A n \in Signals : OnWay("listener", n) \/ Has(side["listener"], n)
          /\ side["listener"].pc = "open" =>
                \A n \in Signals : OnWay("dialer", n) \/ Has(side["dialer"], n)
      BY <1>1, <2>1 DEF RendezvousInv, NothingIsLost
    <2>3. r.pc \in {"none", "open"}
      BY <1>2, <2>2, SidesAre DEF End
    <2>4. x.pc # "closed" /\ (x.pc = "open" => known \/ m = Description)
      BY <1>2, <1>7, <2>3
    <2>5. /\ posts'["dialer"] = posts["dialer"]
          /\ \A n : OnWay("listener", n) => OnWay("listener", n)' \/ n = m
      <3>1. posts'["dialer"] = posts["dialer"]
        BY <1>3, SidesAre DEF RendezvousInv, RendezvousType
      <3>2. QED
        BY <1>1, <1>2, <1>7, <3>1, SidesAre DEF OnWay, e
    <2>6. (x.described /\ x.pc # "none") \/ OnWay("listener", Description)' \/ dial = "idle"
      <3>1. CASE m = Description
        BY <1>2, <1>7, <3>1 DEF Has
      <3>2. CASE side["listener"].pc = "open" /\ side["listener"].described
        BY <1>2, <1>7, <3>2 DEF Has
      <3>3. QED
        BY <2>2, <2>5, <3>1, <3>2
    <2>7. \A n : Has(side["listener"], n) => Has(x, n)
      BY <1>2, <1>7 DEF Has
    <2>8. dial # "idle" => \A n \in Signals : OnWay("listener", n)' \/ Has(x, n)
      BY <1>7, <2>2, <2>5, <2>7
    <2>9. ASSUME x.pc = "open", NEW n \in Signals
          PROVE  OnWay("dialer", n)' \/ Has(side'["dialer"], n)
      <3>1. CASE known
        <4>1. side["listener"].pc = "open" /\ posts' = posts
          BY <1>2, <1>3, <2>3, <3>1
        <4>2. QED
          BY <1>1, <1>7, <2>2, <4>1 DEF OnWay
      <3>2. CASE ~ known
        <4>1. posts'["listener"] = Signals
          BY <1>3, <2>4, <2>9, <3>2, SidesAre DEF RendezvousInv, RendezvousType
        <4>2. QED
          BY <4>1, SidesAre DEF OnWay
      <3>3. QED
        BY <3>1, <3>2
    <2>10. x.pc \in {"none", "open"}
      BY <1>7, <2>3
    <2>11. QED
      BY <1>1, <1>7, <2>1, <2>2, <2>4, <2>6, <2>8, <2>9, <2>10, SidesAre DEF NothingIsLost, e
  <1>11. QED
    BY <1>8, <1>9, <1>10 DEF RendezvousInv

LEMMA ChannelOpensKeeps ==
    ASSUME RendezvousInv, NEW s \in Sides, ChannelOpens(s)
    PROVE  RendezvousInv'
  <1> DEFINE e == [side[s] EXCEPT !.open = TRUE]
  <1>1. /\ side[s] \in End /\ side' = [side EXCEPT ![s] = e]
        /\ posts' = posts /\ box' = box /\ misses' = misses
        /\ dial' = IF s = "dialer" /\ dial = "waiting" THEN "open" ELSE dial
    BY DEF RendezvousInv, RendezvousType, ChannelOpens
  <1>2. /\ e \in End /\ e.pc = side[s].pc /\ e.described = side[s].described
        /\ e.held = side[s].held /\ e.applied = side[s].applied /\ e.batch = side[s].batch
        /\ e.dropped = side[s].dropped
    <2>1. \A x \in End :
             LET f == [x EXCEPT !.open = TRUE]
             IN  /\ f \in End /\ f.pc = x.pc /\ f.described = x.described
                 /\ f.held = x.held /\ f.applied = x.applied /\ f.batch = x.batch
                 /\ f.dropped = x.dropped
      BY DEF End
    <2>2. QED
      BY <1>1, <2>1
  <1> HIDE DEF e
  <1>3. \A t \in Sides : side'[t] = IF t = s THEN e ELSE side[t]
    BY <1>1 DEF RendezvousInv, RendezvousType
  <1>4. RendezvousType'
    BY <1>1, <1>2 DEF RendezvousInv, RendezvousType
  <1>5. HeldForLater'
    BY <1>2, <1>3, SidesAre DEF RendezvousInv, HeldForLater
  <1>6. Carries
    <2>1. \A t \in Sides : \A n : OnWay(t, n) => OnWay(t, n)'
      BY <1>1, <1>2, <1>3 DEF OnWay
    <2>2. \A t \in Sides : /\ side'[t].pc = side[t].pc /\ side'[t].described = side[t].described
                           /\ \A n : Has(side[t], n) => Has(side'[t], n)
      BY <1>2, <1>3 DEF Has
    <2>3. QED
      BY <1>1, <2>1, <2>2, SidesAre DEF Carries
  <1>7. QED
    BY <1>4, <1>5, <1>6, CarriesKeeps DEF RendezvousInv

LEMMA DialTimeoutKeeps ==
    ASSUME RendezvousInv, DialTimeout
    PROVE  RendezvousInv'
  <1>1. /\ UNCHANGED << side, posts, box, misses >> /\ dial # "idle" /\ dial' = "failed"
    BY DEF DialTimeout
  <1>2. \A t, n : OnWay(t, n) => OnWay(t, n)'
    BY <1>1 DEF OnWay
  <1>3. Carries
    BY <1>1, <1>2 DEF Carries
  <1>4. QED
    BY <1>1, <1>3, CarriesKeeps DEF RendezvousInv, RendezvousType, HeldForLater

LEMMA RendezvousKeeps ==
    ASSUME RendezvousInv, RendezvousNext \/ UNCHANGED rendezvousVars
    PROVE  RendezvousInv'
  <1>1. CASE DialPunched
    BY <1>1, DialPunchedKeeps
  <1>2. CASE DialerTakes
    BY <1>2, DialerTakesKeeps
  <1>3. CASE ListenerTakes
    BY <1>3, ListenerTakesKeeps
  <1>4. CASE DialTimeout
    BY <1>4, DialTimeoutKeeps
  <1>5. CASE StopListening
    BY <1>5, MissKeeps
  <1>6. ASSUME NEW s \in Sides, Expires(s) \/ PollLost(s) \/ \E m \in Signals : PostFails(s, m)
        PROVE  RendezvousInv'
    BY <1>6, MissKeeps
  <1>7. ASSUME NEW s \in Sides, PollAnswered(s)
        PROVE  RendezvousInv'
    BY <1>7, PollAnsweredKeeps
  <1>8. ASSUME NEW s \in Sides, ChannelOpens(s)
        PROVE  RendezvousInv'
    BY <1>8, ChannelOpensKeeps
  <1>9. ASSUME NEW s \in Sides, NEW m \in Signals, PostArrives(s, m)
        PROVE  RendezvousInv'
    BY <1>9, PostArrivesKeeps
  <1>10. CASE UNCHANGED rendezvousVars
    BY <1>10 DEF rendezvousVars, RendezvousInv, RendezvousType, HeldForLater, NothingIsLost, OnWay
  <1>11. QED
    BY <1>1, <1>2, <1>3, <1>4, <1>5, <1>6, <1>7, <1>8, <1>9, <1>10 DEF RendezvousNext
-----------------------------------------------------------------------------
(* The offers keep theirs *)

OffersType ==
    /\ offer \in [Offers -> {"none", "reading", "answering", "answered", "over"}]
    /\ settled \subseteq Offers
    /\ pending \in 0 .. Cardinality(Offers)

OffersInv == OffersType /\ SettledOnce /\ PendingComesBack

\* The offers that take a place.
Pending == {o \in Offers : offer[o] \in {"answering", "answered"} /\ o \notin settled}

LEMMA PendingCounts ==
    /\ PendingComesBack <=> pending = Cardinality(Pending)
    /\ PendingComesBack' <=> pending' = Cardinality(Pending')
    /\ IsFiniteSet(Pending) /\ Cardinality(Pending) \in Nat
    /\ IsFiniteSet(Pending') /\ Cardinality(Pending') \in 0 .. Cardinality(Offers)
  <1>1. Pending \in SUBSET Offers /\ Pending' \in SUBSET Offers
    BY DEF Pending
  <1>2. \A S \in SUBSET Offers :
           IsFiniteSet(S) /\ Cardinality(S) \in Nat /\ Cardinality(S) <= Cardinality(Offers)
    BY FS_Subset, FS_CardinalityType
  <1>3. Cardinality(Offers) \in Nat
    BY FS_CardinalityType
  <1>4. QED
    BY <1>1, <1>2, <1>3 DEF PendingComesBack, Pending

\* A step of one offer, by what it does to the offers that take a place.
LEMMA OfferCounts ==
    ASSUME OffersInv, NEW o \in Offers,
           \/ Pending' = Pending /\ pending' = pending
           \/ Pending' = Pending \cup {o} /\ o \notin Pending /\ pending' = pending + 1
           \/ Pending' = Pending \ {o} /\ o \in Pending /\ pending' = pending - 1
    PROVE  PendingComesBack' /\ pending' \in 0 .. Cardinality(Offers)
  <1>1. pending = Cardinality(Pending)
    BY PendingCounts DEF OffersInv
  <1>2. CASE Pending' = Pending /\ pending' = pending
    BY <1>1, <1>2, PendingCounts
  <1>3. CASE Pending' = Pending \cup {o} /\ o \notin Pending /\ pending' = pending + 1
    <2>1. Cardinality(Pending \cup {o}) = Cardinality(Pending) + 1
      BY <1>3, PendingCounts, FS_AddElement
    <2>2. QED
      BY <1>1, <1>3, <2>1, PendingCounts
  <1>4. CASE Pending' = Pending \ {o} /\ o \in Pending /\ pending' = pending - 1
    <2>1. Cardinality(Pending \ {o}) = Cardinality(Pending) - 1
      BY <1>4, PendingCounts, FS_RemoveElement
    <2>2. QED
      BY <1>1, <1>4, <2>1, PendingCounts
  <1>5. QED
    BY <1>2, <1>3, <1>4

\* What follows of the rest of the invariant for a step that moves one offer.
LEMMA OfferMoves ==
    ASSUME OffersInv, NEW o \in Offers,
           NEW to \in {"reading", "answering", "answered", "over"},
           offer' = [offer EXCEPT ![o] = to],
           settled' \in {settled, settled \cup {o}},
           o \in settled' => to \in {"answering", "over"}
    PROVE  /\ offer' \in [Offers -> {"none", "reading", "answering", "answered", "over"}]
           /\ settled' \subseteq Offers /\ SettledOnce'
           /\ Pending' = IF to \in {"answering", "answered"} /\ o \notin settled'
                         THEN Pending \cup {o} ELSE Pending \ {o}
  <1>1. \A p \in Offers : offer'[p] = IF p = o THEN to ELSE offer[p]
    BY DEF OffersInv, OffersType
  <1>2. \A p : p # o => (p \in settled' <=> p \in settled)
    OBVIOUS
  <1>3. offer' \in [Offers -> {"none", "reading", "answering", "answered", "over"}] /\ settled' \subseteq Offers
    BY DEF OffersInv, OffersType
  <1>4. SettledOnce'
    BY <1>1, <1>2, <1>3 DEF OffersInv, SettledOnce
  <1>5. \A p : p \in Pending' <=> IF p = o THEN to \in {"answering", "answered"} /\ o \notin settled'
                                  ELSE p \in Pending
    BY <1>1, <1>2 DEF Pending
  <1>6. QED
    BY <1>3, <1>4, <1>5

LEMMA OffersKeep ==
    ASSUME OffersInv, OffersNext \/ UNCHANGED offerVars
    PROVE  OffersInv'
  <1>1. CASE UNCHANGED offerVars
    BY <1>1 DEF offerVars, OffersInv, OffersType, SettledOnce, PendingComesBack
  <1>2. ASSUME NEW o \in Offers, OfferArrives(o) \/ OfferRefused(o)
        PROVE  OffersInv'
    <2>1. \E to \in {"reading", "over"} : offer' = [offer EXCEPT ![o] = to]
      BY <1>2 DEF OfferArrives, OfferRefused
    <2>2. PICK to \in {"reading", "over"} : offer' = [offer EXCEPT ![o] = to]
      BY <2>1
    <2>3. settled' = settled /\ pending' = pending /\ o \notin settled /\ o \notin Pending
      BY <1>2 DEF OfferArrives, OfferRefused, OffersInv, SettledOnce, Pending
    <2>4. /\ offer' \in [Offers -> {"none", "reading", "answering", "answered", "over"}]
          /\ settled' \subseteq Offers /\ SettledOnce' /\ Pending' = Pending \ {o}
      BY <2>2, <2>3, OfferMoves
    <2>5. Pending' = Pending
      BY <2>3, <2>4
    <2>6. QED
      BY <2>3, <2>4, <2>5, OfferCounts DEF OffersInv, OffersType
  <1>3. ASSUME NEW o \in Offers, OfferRead(o)
        PROVE  OffersInv'
    <2>1. /\ offer' = [offer EXCEPT ![o] = "answering"]
          /\ settled' = settled /\ pending' = pending + 1 /\ o \notin settled /\ o \notin Pending
      BY <1>3 DEF OfferRead, OffersInv, SettledOnce, Pending
    <2>2. /\ offer' \in [Offers -> {"none", "reading", "answering", "answered", "over"}]
          /\ settled' \subseteq Offers /\ SettledOnce' /\ Pending' = Pending \cup {o}
      BY <2>1, OfferMoves
    <2>3. QED
      BY <2>1, <2>2, OfferCounts DEF OffersInv, OffersType
  <1>4. ASSUME NEW o \in Offers, OfferAnswered(o)
        PROVE  OffersInv'
    <2>1. /\ offer' = [offer EXCEPT ![o] = "answered"]
          /\ settled' = settled /\ pending' = pending /\ o \notin settled /\ o \in Pending
      BY <1>4 DEF OfferAnswered, Pending
    <2>2. /\ offer' \in [Offers -> {"none", "reading", "answering", "answered", "over"}]
          /\ settled' \subseteq Offers /\ SettledOnce' /\ Pending' = Pending \cup {o}
      BY <2>1, OfferMoves
    <2>3. Pending' = Pending
      BY <2>1, <2>2
    <2>4. QED
      BY <2>1, <2>2, <2>3, OfferCounts DEF OffersInv, OffersType
  <1>5. ASSUME NEW o \in Offers, OfferBad(o) \/ GiveUp(o) \/ OfferOpens(o)
        PROVE  OffersInv'
    <2>1. /\ settled' = settled \cup {o}
          /\ pending' = IF o \in settled THEN pending ELSE pending - 1
          /\ offer[o] \in {"answering", "answered"}
      BY <1>5 DEF OfferBad, GiveUp, OfferOpens, Release
    <2>2. \E to \in {"answering", "over"} : offer' = [offer EXCEPT ![o] = to]
      BY <1>5 DEF OfferBad, GiveUp, OfferOpens
    <2>3. PICK to \in {"answering", "over"} : offer' = [offer EXCEPT ![o] = to]
      BY <2>2
    <2>4. /\ offer' \in [Offers -> {"none", "reading", "answering", "answered", "over"}]
          /\ settled' \subseteq Offers /\ SettledOnce' /\ Pending' = Pending \ {o}
      BY <2>1, <2>3, OfferMoves
    <2>5. o \in settled => Pending' = Pending
      BY <2>4 DEF Pending
    <2>6. o \notin settled => o \in Pending
      BY <2>1 DEF Pending
    <2>7. QED
      BY <2>1, <2>4, <2>5, <2>6, OfferCounts DEF OffersInv, OffersType
  <1>6. QED
    BY <1>1, <1>2, <1>3, <1>4, <1>5 DEF OffersNext

-----------------------------------------------------------------------------
LEMMA InvParts ==
    /\ PunchInv <=> RendezvousInv /\ OffersInv
    /\ PunchInv' <=> RendezvousInv' /\ OffersInv'
  BY DEF PunchInv, RendezvousInv, OffersInv, PunchTypeOK, RendezvousType, OffersType, End

LEMMA PunchStarts == PunchInit => PunchInv
  <1> SUFFICES ASSUME PunchInit PROVE PunchInv
    OBVIOUS
  <1>1. << >> \in Seq(Signals) /\ Len(<< >>) = 0 /\ NoEnd \in End
    BY DEF NoEnd, End
  <1>2. RendezvousInv
    BY <1>1 DEF PunchInit, RendezvousInv, RendezvousType, HeldForLater, NothingIsLost, NoEnd, Sides
  <1>3. Pending = {} /\ Cardinality(Pending) = 0 /\ Cardinality(Offers) \in Nat
    BY FS_EmptySet, FS_CardinalityType DEF PunchInit, Pending
  <1>4. OffersInv
    BY <1>3, PendingCounts DEF PunchInit, OffersInv, OffersType, SettledOnce
  <1>5. QED
    BY <1>2, <1>4, InvParts

\* Of an introduction of which no message is lost, both sides come to have the other's
\* description and to use every candidate that did not overtake its offer, whatever
\* order the messages take (dialPunched, listenForPunches, applySignal), and the count
\* of pending offers comes back on every way out (handlePunchOffer).
THEOREM PunchingStaysSound == PunchSpec => []PunchingIsSound
  <1>1. PunchInit => PunchInv
    BY PunchStarts
  <1>2. PunchInv /\ [PunchNext]_punchVars => PunchInv'
    <2> SUFFICES ASSUME PunchInv, [PunchNext]_punchVars PROVE PunchInv'
      OBVIOUS
    <2>1. /\ RendezvousNext \/ UNCHANGED rendezvousVars
          /\ OffersNext \/ UNCHANGED offerVars
      <3>1. CASE RendezvousNext
        BY <3>1 DEF RendezvousNext, DialPunched, DialerTakes, ListenerTakes, DialTimeout, StopListening,
                    Expires, PollAnswered, PollLost, ChannelOpens, PostArrives, PostFails
      <3>2. CASE OffersNext
        BY <3>2 DEF OffersNext, OfferArrives, OfferRefused, OfferRead, OfferBad, OfferAnswered,
                    GiveUp, OfferOpens
      <3>3. CASE UNCHANGED punchVars
        BY <3>3 DEF punchVars
      <3>4. QED
        BY <3>1, <3>2, <3>3 DEF PunchNext
    <2>2. QED
      BY <2>1, InvParts, RendezvousKeeps, OffersKeep
  <1>3. PunchInv => PunchingIsSound
    BY InvSuffices
  <1>4. QED
    BY <1>1, <1>2, <1>3, PTL DEF PunchSpec
=============================================================================
