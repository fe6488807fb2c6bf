---------------------------- MODULE ClientProofs ----------------------------
(***************************************************************************)
(* Proofs about the parts of MCClient, for every value of its constants:   *)
(* the lease of the announcements, the sockets to a relay, the links       *)
(* through a relay, and the types of the demo page's parts.                *)
(***************************************************************************)
EXTENDS MCClient, FiniteSetTheorems, SequenceTheorems, TLAPS

-----------------------------------------------------------------------------
(* The lease of the announcements: any times, any number of lost beats. *)

\* Beats sent since the last one that arrived.
SinceArrival == IF underway.kind = "beat" THEN lost + 1 ELSE lost

\* A beat under way was sent when the timer was last reset ...
BeatTimed == registered /\ underway.kind = "beat" => clock = underway.for

\* ... so the timer and the lost beats tell how long ago a beat arrived, and
\* no more than that has been used up of (the second) half of the lease.
LeaseUsed ==
    beaten => /\ registered
              /\ age = SinceArrival * Beat + clock
              /\ 2 * lease + 2 * age > FullTTL
              /\ whole => lease + age >= FullTTL

IInv == LeaseTypeOK /\ BeatTimed /\ LeaseUsed

USE AnnouncementLeaseAssumption

\* The announcement under way is one of its type: used wherever it is replaced.
LEMMA UnderwayType ==
    /\ None \in Announcements /\ None.kind = "none"
    /\ \A kind \in {"join", "beat", "advert"}, r \in BOOLEAN :
          LET sent == [kind |-> kind, for |-> 0, role |-> r]
          IN  sent \in Announcements /\ sent.kind = kind /\ sent.for = 0
  <1>1. 0 \in 0 .. MaxUnderway
    OBVIOUS
  <1>2. QED
    BY <1>1 DEF None, Announcements

\* Multiples of the beat, as far as the arithmetic below needs them.
LEMMA Multiples ==
    \A n \in Nat : n * Beat \in Nat /\ (n + 1) * Beat = n * Beat + Beat
  OBVIOUS

\* The last beat that arrived is no older than the lost ones and the next allow.
LEMMA AgeBound ==
    ASSUME IInv, beaten
    PROVE  age <= Silence
  <1> USE DEF Silence
  <1> USE DEF IInv, LeaseTypeOK, LeaseUsed
  <1>1. (lost + 1) * Beat = lost * Beat + Beat /\ lost * Beat \in Nat
    BY Multiples
  <1>2. CASE underway.kind = "beat"
    <2>1. clock <= MaxUnderway
      BY <1>2 DEF BeatTimed, Announcements
    <2>2. age = (lost + 1) * Beat + clock
      BY <1>2 DEF SinceArrival
    <2>3. QED
      BY <1>1, <2>1, <2>2
  <1>3. CASE underway.kind # "beat"
    <2>1. age = lost * Beat + clock
      BY <1>3 DEF SinceArrival
    <2>2. QED
      BY <1>1, <2>1
  <1>4. QED
    BY <1>2, <1>3

\* With a long enough lease, the invariant keeps the peer listed.
LEMMA ListedByInvariant ==
    ASSUME IInv
    PROVE  ListedOnceBeaten
  <1> SUFFICES ASSUME beaten, 2 * Silence <= FullTTL \/ (whole /\ Silence < FullTTL)
               PROVE  lease > 0
    BY DEF ListedOnceBeaten
  <1>1. age <= (lost + 1) * Beat + MaxUnderway
    BY AgeBound DEF Silence
  <1>2. lost * Beat \in Nat /\ (lost + 1) * Beat = lost * Beat + Beat
    BY Multiples DEF IInv, LeaseTypeOK
  <1>3. QED
    BY <1>1, <1>2 DEF IInv, LeaseTypeOK, LeaseUsed, Silence

\* A peer that has not joined satisfies the invariant.
LEMMA InitIInv == LeaseInit => IInv
  <1> SUFFICES ASSUME LeaseInit PROVE IInv
    OBVIOUS
  <1> USE DEF LeaseInit
  <1>1. registered \in BOOLEAN /\ role \in BOOLEAN /\ beaten \in BOOLEAN /\ whole \in BOOLEAN
    BY Zenon
  <1>2. clock \in 0 .. Beat /\ lease \in Nat /\ lost \in 0 .. MaxLost /\ age \in Nat
    BY AnnouncementLeaseAssumption
  <1>3. underway \in Announcements /\ underway.kind # "beat"
    BY UnderwayType DEF None
  <1>4. LeaseTypeOK
    BY <1>1, <1>2, <1>3, Zenon DEF LeaseTypeOK
  <1>5. BeatTimed
    BY <1>3, Zenon DEF BeatTimed
  <1>6. LeaseUsed
    BY Zenon DEF LeaseUsed
  <1>7. QED
    BY <1>4, <1>5, <1>6 DEF IInv

\* Type correctness is preserved by every step.
LEMMA NextTypeOK == LeaseTypeOK /\ [LeaseNext]_leaseVars => LeaseTypeOK'
  <1> SUFFICES ASSUME LeaseTypeOK, [LeaseNext]_leaseVars PROVE LeaseTypeOK'
    OBVIOUS
  <1> USE DEF LeaseTypeOK
  <1>1. CASE SocketOpens
    <2>1. underway' \in Announcements
      BY <1>1, UnderwayType DEF SocketOpens, Announces
    <2>2. QED
      BY <1>1, <2>1 DEF SocketOpens
  <1>2. CASE Drop
    <2>1. registered' \in BOOLEAN /\ beaten' \in BOOLEAN /\ whole' \in BOOLEAN /\ role' \in BOOLEAN
      BY <1>2, Zenon DEF Drop
    <2>2. clock' \in 0 .. Beat /\ lost' \in 0 .. MaxLost /\ age' \in Nat
      BY <1>2, AnnouncementLeaseAssumption DEF Drop
    <2>3. underway' \in Announcements /\ lease' \in Nat
      BY <1>2 DEF Drop
    <2>4. QED
      BY <2>1, <2>2, <2>3, Zenon
  <1>3. CASE Heartbeat
    <2>1. underway' \in Announcements
      BY <1>3, UnderwayType DEF Heartbeat, Announces
    <2>2. QED
      BY <1>3, <2>1 DEF Heartbeat
  <1>4. ASSUME NEW r \in BOOLEAN, Advertise(r) PROVE LeaseTypeOK'
    <2>1. underway' \in Announcements
      BY <1>4, UnderwayType DEF Advertise, Announces
    <2>2. QED
      BY <1>4, <2>1 DEF Advertise
  <1>5. CASE Arrives
    <2>1. underway' \in Announcements /\ underway.role \in BOOLEAN
      BY <1>5, UnderwayType DEF Arrives, Announcements
    <2>2. lease' \in Nat
      BY <1>5 DEF Arrives, AskedFor
    <2>3. CASE underway.kind = "beat" /\ registered
      <3>1. beaten' = TRUE /\ whole' = Rewrites /\ lost' = 0 /\ age' = clock
        BY <1>5, <2>3, Zenon DEF Arrives
      <3>2. lost' \in 0 .. MaxLost /\ age' \in Nat
        BY <3>1, AnnouncementLeaseAssumption
      <3>3. beaten' \in BOOLEAN /\ whole' \in BOOLEAN
        BY <3>1, Zenon DEF Rewrites
      <3>4. QED
        BY <1>5, <2>1, <2>2, <3>2, <3>3, Zenon DEF Arrives
    <2>4. CASE ~ (underway.kind = "beat" /\ registered)
      <3>1. beaten' = (beaten /\ role = underway.role) /\ UNCHANGED << whole, lost, age >>
        BY <1>5, <2>4, Zenon DEF Arrives
      <3>2. beaten' \in BOOLEAN /\ whole' \in BOOLEAN
        BY <3>1, Zenon
      <3>3. lost' \in 0 .. MaxLost /\ age' \in Nat
        BY <3>1
      <3>4. QED
        BY <1>5, <2>1, <2>2, <3>2, <3>3, Zenon DEF Arrives
    <2>5. QED
      BY <2>3, <2>4
  <1>6. CASE BeatLost
    BY <1>6, UnderwayType DEF BeatLost
  <1>7. CASE TimePasses
    <2>1. underway' \in Announcements
      BY <1>7, UnderwayType DEF TimePasses, Announcements
    <2>2. lease' \in Nat /\ age' \in Nat /\ clock' \in 0 .. Beat
      BY <1>7 DEF TimePasses
    <2>3. QED
      BY <1>7, <2>1, <2>2 DEF TimePasses
  <1>8. CASE UNCHANGED leaseVars
    BY <1>8 DEF leaseVars
  <1>9. QED
    BY <1>1, <1>2, <1>3, <1>4, <1>5, <1>6, <1>7, <1>8 DEF LeaseNext

\* The timer tells the age of a beat under way, after every step.
LEMMA NextBeatTimed == LeaseTypeOK /\ BeatTimed /\ [LeaseNext]_leaseVars => BeatTimed'
  <1> SUFFICES ASSUME LeaseTypeOK, BeatTimed, [LeaseNext]_leaseVars PROVE BeatTimed'
    OBVIOUS
  <1> USE DEF LeaseTypeOK, BeatTimed
  <1>1. CASE SocketOpens
    BY <1>1, UnderwayType DEF SocketOpens, Announces
  <1>2. CASE Drop
    BY <1>2 DEF Drop
  <1>3. CASE Heartbeat
    BY <1>3, UnderwayType DEF Heartbeat, Announces
  <1>4. ASSUME NEW r \in BOOLEAN, Advertise(r) PROVE BeatTimed'
    BY <1>4, UnderwayType DEF Advertise, Announces
  <1>5. CASE Arrives \/ BeatLost
    BY <1>5, UnderwayType DEF Arrives, BeatLost
  <1>6. CASE TimePasses
    BY <1>6, UnderwayType DEF TimePasses, Announcements
  <1>7. CASE UNCHANGED leaseVars
    BY <1>7 DEF leaseVars
  <1>8. QED
    BY <1>1, <1>2, <1>3, <1>4, <1>5, <1>6, <1>7 DEF LeaseNext

\* Every step keeps account of how much of the lease is used up.
LEMMA NextLeaseUsed ==
    ASSUME IInv, [LeaseNext]_leaseVars
    PROVE  LeaseUsed'
  <1> USE DEF IInv, LeaseTypeOK, LeaseUsed
  <1>1. CASE SocketOpens
    BY <1>1 DEF SocketOpens
  <1>2. CASE Drop
    BY <1>2 DEF Drop
  <1>3. CASE Heartbeat
    <2>1. SinceArrival = lost /\ SinceArrival' = lost + 1
      BY <1>3 DEF Heartbeat, Announces, SinceArrival, None
    <2>2. (lost + 1) * Beat = lost * Beat + Beat /\ lost * Beat \in Nat
      BY Multiples
    <2>3. QED
      BY <1>3, <2>1, <2>2 DEF Heartbeat
  <1>4. ASSUME NEW r \in BOOLEAN, Advertise(r) PROVE LeaseUsed'
    <2>1. SinceArrival' = SinceArrival
      BY <1>4 DEF Advertise, Announces, SinceArrival, None
    <2>2. QED
      BY <1>4, <2>1 DEF Advertise
  <1>5. CASE Arrives
    <2>1. CASE underway.kind = "beat" /\ registered
      <3>1. SinceArrival' = 0 /\ age' = clock /\ clock' = clock
        BY <1>5, <2>1 DEF Arrives, SinceArrival, None
      <3>2. 2 * lease' > FullTTL
        BY <1>5, <2>1 DEF Arrives, Rewrites, AskedFor
      <3>3. lease' \in Nat /\ age' \in Nat
        BY <1>5, NextTypeOK
      <3>4. whole' => lease' = FullTTL
        BY <1>5, <2>1 DEF Arrives, AskedFor
      <3>5. QED
        BY <1>5, <2>1, <3>1, <3>2, <3>3, <3>4 DEF Arrives
    <2>2. CASE ~ (underway.kind = "beat" /\ registered)
      <3> SUFFICES ASSUME beaten'
                   PROVE  /\ registered'
                          /\ age' = SinceArrival' * Beat + clock'
                          /\ 2 * lease' + 2 * age' > FullTTL
                          /\ whole' => lease' + age' >= FullTTL
        OBVIOUS
      <3>1. beaten /\ role = underway.role /\ UNCHANGED << whole, lost, age, registered, clock >>
        BY <1>5, <2>2 DEF Arrives
      <3>2. SinceArrival = lost /\ SinceArrival' = lost
        BY <1>5, <2>2, <3>1 DEF Arrives, SinceArrival, None
      <3>3. lease' >= lease
        BY <1>5, <3>1 DEF Arrives, Rewrites, AskedFor
      <3>4. lease' \in Nat
        BY <1>5, NextTypeOK
      <3>5. registered /\ age = lost * Beat + clock /\ 2 * lease + 2 * age > FullTTL
        BY <3>1, <3>2
      <3>6. registered' /\ age' = SinceArrival' * Beat + clock'
        BY <3>1, <3>2, <3>5
      <3>7. lease \in Nat /\ age \in Nat /\ age' = age
        BY <3>1
      <3>8. \A before, now, a \in Nat :
               now >= before /\ 2 * before + 2 * a > FullTTL => 2 * now + 2 * a > FullTTL
        OBVIOUS
      <3>9. 2 * lease' + 2 * age > FullTTL
        BY <3>3, <3>4, <3>5, <3>7, <3>8
      <3>10. whole' => lease' + age' >= FullTTL
        BY <3>1, <3>3, <3>4, <3>7
      <3>11. QED
        BY <3>6, <3>7, <3>9, <3>10, Zenon
    <2>3. QED
      BY <2>1, <2>2
  <1>6. CASE BeatLost
    <2>1. SinceArrival' = SinceArrival
      BY <1>6 DEF BeatLost, SinceArrival, None
    <2>2. QED
      BY <1>6, <2>1 DEF BeatLost
  <1>7. CASE TimePasses
    <2> SUFFICES ASSUME beaten
                 PROVE  /\ registered'
                        /\ age' = SinceArrival' * Beat + clock'
                        /\ 2 * lease' + 2 * age' > FullTTL
                        /\ whole' => lease' + age' >= FullTTL
      BY <1>7 DEF TimePasses
    <2>1. 2 * lease + 2 * age > FullTTL
      OBVIOUS
    <2>2. SinceArrival' = SinceArrival /\ SinceArrival \in Nat
      BY <1>7 DEF TimePasses, SinceArrival, None
    <2>3. SinceArrival * Beat \in Nat
      BY <2>2, Multiples
    <2>4. /\ registered' /\ age' = age + 1 /\ clock' = clock + 1
          /\ lease' + 1 >= lease /\ lease' \in Nat
      BY <1>7 DEF TimePasses
    <2>5. age' = SinceArrival' * Beat + clock'
      BY <2>2, <2>3, <2>4
    <2>6. 2 * lease' + 2 * age' > FullTTL
      <3>1. \A before, now, a \in Nat :
               now + 1 >= before /\ 2 * before + 2 * a > FullTTL
                  => 2 * now + 2 * (a + 1) > FullTTL
        OBVIOUS
      <3>2. QED
        BY <2>1, <2>4, <3>1
    <2>7. whole' => lease' + age' >= FullTTL
      BY <1>7, <2>4 DEF TimePasses
    <2>8. QED
      BY <2>4, <2>5, <2>6, <2>7, Zenon
  <1>8. CASE UNCHANGED leaseVars
    BY <1>8 DEF leaseVars, SinceArrival
  <1>9. QED
    BY <1>1, <1>2, <1>3, <1>4, <1>5, <1>6, <1>7, <1>8 DEF LeaseNext

-----------------------------------------------------------------------------
(* The theorems *)

\* LeaseTypeCorrect: type correctness, for any times.
THEOREM LeaseTypeCorrect == LeaseSpec => []LeaseTypeOK
  <1>1. LeaseInit => LeaseTypeOK
    BY InitIInv DEF IInv
  <1>2. QED
    BY <1>1, NextTypeOK, PTL DEF LeaseSpec

\* LeaseHolds: a peer that has once been renewed stays listed while the lease spans the
\* beats lost since, the next one and its delay, if its last beat had the row rewritten,
\* and half of the lease if that was skipped: with the client's 120 s and 40 s, one lost
\* beat in the first case, none (and no delay over 20 s) in the second
\* (upsertAnnouncement, startAdvertiseHeartbeat).
THEOREM LeaseHolds == LeaseSpec => []ListedOnceBeaten
  <1>1. LeaseInit => IInv
    BY InitIInv
  <1>2. IInv /\ [LeaseNext]_leaseVars => IInv'
    BY NextTypeOK, NextBeatTimed, NextLeaseUsed DEF IInv
  <1>3. IInv => ListedOnceBeaten
    BY ListedByInvariant
  <1>4. QED
    BY <1>1, <1>2, <1>3, PTL DEF LeaseSpec

HIDE AnnouncementLeaseAssumption

-----------------------------------------------------------------------------
(***************************************************************************)
(* A relay socket keeps the contract of one WebSocket, for any number of   *)
(* sockets: each step of RelaySocket changes one socket, in a way that a   *)
(* WebSocket's phase may change (or not at all).                           *)
(***************************************************************************)

SocketRecord ==
    [kind : Kinds \cup {"none"}, state : {"none", "connecting", "open", "closed"},
     dialing : BOOLEAN, byUser : BOOLEAN, channel : {"none", "open", "closed"},
     waning : BOOLEAN, inner : {"none", "connecting", "open", "closing", "closed"},
     opens : Int, closes : Int]

\* What is behind a socket, against what the session has heard of it.
Sound(x) ==
    /\ x.kind = "none" => x = Unopened
    /\ x.state = "none" => x.kind = "none"
    /\ x.closes = IF x.state = "closed" THEN 1 ELSE 0
    /\ x.opens \in {0, 1}
    /\ x.state = "open" => x.opens = 1
    /\ x.state \in {"none", "connecting"} => x.opens = 0
    /\ x.dialing => x.channel = "none" /\ x.inner = "none" /\ x.opens = 0
    /\ x.dialing /\ x.state = "closed" => x.byUser
    /\ x.byUser => x.state = "closed" /\ x.inner = "none"
    /\ x.channel # "none" => x.inner = "none"
    /\ x.channel = "open" => x.state = "open"
    /\ x.channel = "closed" => x.state = "closed"
    /\ x.inner = "connecting" => x.state = "connecting"
    /\ x.inner = "open" => x.state = "open"
    /\ x.inner = "closing" => x.state \in {"connecting", "open"}
    /\ x.inner = "closed" => x.state = "closed"
    /\ x.waning => x.channel # "none"

Safe(x) == x \in SocketRecord /\ Sound(x)

SafeInv ==
    /\ socket \in [Sockets -> SocketRecord]
    /\ \A s \in Sockets : Sound(socket[s])
    /\ failed \in [Kinds -> BOOLEAN]

\* The phase of a socket changes as a WebSocket's may.
Moves(x, y) ==
    \/ SocketPhase(x) = SocketPhase(y)
    \/ << SocketPhase(x), SocketPhase(y) >>
          \in Contract!Dials \cup Contract!Opens \cup Contract!Shuts \cup Contract!Closes

GoodStep(x, y) == Safe(y) /\ Moves(x, y)

\* A sound socket shows one of the contract's phases.
LEMMA PhaseOfSound ==
    ASSUME NEW x, Safe(x)
    PROVE  SocketPhase(x) \in Contract!Phases
  BY DEF Safe, SocketRecord, Sound, SocketPhase, Kinds, Contract!Phases, Unopened

\* One socket that makes a good step keeps the invariant and the contract.
LEMMA OneSocketMoves ==
    ASSUME SafeInv, NEW s \in Sockets, NEW y, GoodStep(socket[s], y),
           socket' = [socket EXCEPT ![s] = y], failed' \in [Kinds -> BOOLEAN]
    PROVE  SafeInv' /\ Contract!Next
<1>1. \A t \in Sockets : socket'[t] = IF t = s THEN y ELSE socket[t]
  BY DEF SafeInv
<1>2. y \in SocketRecord /\ Sound(y)
  BY DEF GoodStep, Safe
<1>3. SafeInv'
  BY <1>1, <1>2 DEF SafeInv
<1>4. \A t \in Sockets : SocketPhase(socket'[t]) \in Contract!Phases
  BY <1>1, <1>2, PhaseOfSound DEF SafeInv, Safe
<1>5. \A t \in Sockets : Moves(socket[t], socket'[t])
  BY <1>1 DEF GoodStep, Moves
<1>6. Contract!Next
  BY <1>4, <1>5 DEF Contract!Next, Moves
<1> QED
  BY <1>3, <1>6

-----------------------------------------------------------------------------
(* The steps of one socket *)

LEMMA UnopenedFields ==
    /\ Unopened \in SocketRecord
    /\ Unopened.kind = "none" /\ Unopened.state = "none"
    /\ ~ Unopened.dialing /\ ~ Unopened.byUser /\ ~ Unopened.waning
    /\ Unopened.channel = "none" /\ Unopened.inner = "none"
    /\ Unopened.opens = 0 /\ Unopened.closes = 0
  BY DEF Unopened, SocketRecord, Kinds

LEMMA Opening ==
    ASSUME NEW k \in Kinds,
           NEW x, x = [Unopened EXCEPT !.kind = k, !.state = "connecting"],
           NEW y, y \in {[x EXCEPT !.inner = "connecting"], [x EXCEPT !.dialing = TRUE]}
    PROVE  GoodStep(Unopened, y)
<1>1. x \in SocketRecord
  BY UnopenedFields DEF SocketRecord
<1>2. /\ x.kind = k /\ x.state = "connecting" /\ x.opens = 0 /\ x.closes = 0
      /\ ~ x.dialing /\ ~ x.byUser /\ ~ x.waning /\ x.channel = "none" /\ x.inner = "none"
  BY UnopenedFields DEF SocketRecord
<1>3. y \in SocketRecord
  BY <1>1 DEF SocketRecord
<1>4. /\ y.kind = k /\ y.state = "connecting" /\ y.opens = 0 /\ y.closes = 0
      /\ ~ y.byUser /\ ~ y.waning /\ y.channel = "none"
      /\ \/ y.dialing /\ y.inner = "none"
         \/ ~ y.dialing /\ y.inner = "connecting"
  BY <1>1, <1>2 DEF SocketRecord
<1>5. k # "none"
  BY DEF Kinds
<1>6. Sound(y)
  BY <1>4, <1>5 DEF Sound
<1>7. SocketPhase(Unopened) = "closed" /\ SocketPhase(y) = "connecting"
  BY <1>4, <1>5, UnopenedFields DEF SocketPhase
<1> QED
  BY <1>3, <1>6, <1>7 DEF GoodStep, Safe, Moves, Contract!Dials

\* The records that the steps make.
ShutAs(x, n, c) == [x EXCEPT !.state = "closed", !.closes = n, !.channel = c]
DialedAs(x, n) == [x EXCEPT !.dialing = FALSE, !.channel = "open", !.state = "open", !.opens = n]
InnerOpenAs(x, n) == [x EXCEPT !.inner = "open", !.state = "open", !.opens = n]
InnerClosedAs(x, n) == [x EXCEPT !.inner = "closed", !.state = "closed", !.closes = n]

LEMMA ShutFields ==
    ASSUME NEW x \in SocketRecord, NEW n \in Int, NEW c \in {"none", "open", "closed"}, NEW y, y = ShutAs(x, n, c)
    PROVE  /\ y \in SocketRecord /\ y.kind = x.kind /\ y.byUser = x.byUser /\ y.waning = x.waning
           /\ y.dialing = x.dialing /\ y.opens = x.opens /\ y.inner = x.inner
           /\ y.state = "closed" /\ y.closes = n /\ y.channel = c
  BY DEF SocketRecord, ShutAs

LEMMA DialedFields ==
    ASSUME NEW x \in SocketRecord, NEW n \in Int, NEW y, y = DialedAs(x, n)
    PROVE  /\ y \in SocketRecord /\ y.kind = x.kind /\ y.byUser = x.byUser /\ y.waning = x.waning
           /\ ~ y.dialing /\ y.closes = x.closes /\ y.inner = x.inner
           /\ y.state = "open" /\ y.opens = n /\ y.channel = "open"
  BY DEF SocketRecord, DialedAs

LEMMA InnerOpenFields ==
    ASSUME NEW x \in SocketRecord, NEW n \in Int, NEW y, y = InnerOpenAs(x, n)
    PROVE  /\ y \in SocketRecord /\ y.kind = x.kind /\ y.byUser = x.byUser /\ y.waning = x.waning
           /\ y.dialing = x.dialing /\ y.closes = x.closes /\ y.channel = x.channel
           /\ y.state = "open" /\ y.opens = n /\ y.inner = "open"
  BY DEF SocketRecord, InnerOpenAs

LEMMA InnerClosedFields ==
    ASSUME NEW x \in SocketRecord, NEW n \in Int, NEW y, y = InnerClosedAs(x, n)
    PROVE  /\ y \in SocketRecord /\ y.kind = x.kind /\ y.byUser = x.byUser /\ y.waning = x.waning
           /\ y.dialing = x.dialing /\ y.opens = x.opens /\ y.channel = x.channel
           /\ y.state = "closed" /\ y.closes = n /\ y.inner = "closed"
  BY DEF SocketRecord, InnerClosedAs

LEMMA ShutOnce ==
    ASSUME NEW x \in SocketRecord, NEW c \in {"none", "open", "closed"}, NEW y, y = ShutAs(x, 1, c)
    PROVE  /\ y \in SocketRecord /\ y.kind = x.kind /\ y.byUser = x.byUser /\ y.waning = x.waning
           /\ y.dialing = x.dialing /\ y.opens = x.opens /\ y.inner = x.inner
           /\ y.state = "closed" /\ y.closes = 1 /\ y.channel = c
  BY ShutFields

\* What finish() leaves of a socket that it closes.
LEMMA FinishFields ==
    ASSUME NEW x \in SocketRecord, x.state # "closed", x.closes = 0, NEW y, y = Finish(x)
    PROVE  /\ y \in SocketRecord
           /\ y.kind = x.kind /\ y.dialing = x.dialing /\ y.byUser = x.byUser
           /\ y.waning = x.waning /\ y.opens = x.opens /\ y.inner = x.inner
           /\ y.state = "closed" /\ y.closes = 1
           /\ y.channel = IF x.channel = "open" THEN "closed" ELSE x.channel
<1>1. PICK d \in {"none", "open", "closed"} : d = IF x.channel = "open" THEN "closed" ELSE x.channel
  BY DEF SocketRecord
<1>2. y = ShutAs(x, 1, d)
  BY <1>1 DEF Finish, ShutAs
<1>3. d \in {"none", "open", "closed"}
  BY <1>1
<1>4. /\ y \in SocketRecord
      /\ y.kind = x.kind /\ y.dialing = x.dialing /\ y.byUser = x.byUser
      /\ y.waning = x.waning /\ y.opens = x.opens /\ y.inner = x.inner
      /\ y.state = "closed" /\ y.closes = 1 /\ y.channel = d
  BY <1>2, <1>3, ShutOnce, Z3
<1> QED
  BY <1>1, <1>4

\* What finish() is called on is open, or closed already.
LEMMA FinishIsGood ==
    ASSUME NEW x, Safe(x), x.channel # "none"
    PROVE  GoodStep(x, Finish(x))
<1>1. CASE x.state = "closed"
  BY <1>1 DEF Finish, GoodStep, Moves
<1>2. CASE x.state # "closed"
  <2> DEFINE y == Finish(x)
  <2>1. /\ x.state = "open" /\ x.channel = "open" /\ x.opens = 1 /\ x.closes = 0
        /\ x.inner = "none" /\ ~ x.dialing /\ ~ x.byUser /\ x.kind # "none"
    BY <1>2, UnopenedFields DEF Safe, SocketRecord, Sound
  <2>2. /\ y \in SocketRecord
        /\ y.kind = x.kind /\ y.dialing = x.dialing /\ y.byUser = x.byUser
        /\ y.inner = x.inner /\ y.opens = x.opens
        /\ y.state = "closed" /\ y.closes = 1 /\ y.channel = "closed"
    BY <1>2, <2>1, FinishFields DEF Safe
  <2>3. Sound(y)
    BY <2>1, <2>2 DEF Sound
  <2>4. SocketPhase(x) = "open" /\ SocketPhase(y) = "closed"
    BY <2>1, <2>2 DEF SocketPhase
  <2> QED
    BY <2>2, <2>3, <2>4 DEF GoodStep, Safe, Moves, Contract!Closes
<1> QED
  BY <1>1, <1>2

LEMMA DialedIsGood ==
    ASSUME NEW x, Safe(x), x.dialing
    PROVE  GoodStep(x, Dialed(x))
<1> DEFINE y == Dialed(x)
<1>1. /\ x.channel = "none" /\ x.inner = "none" /\ x.opens = 0 /\ x.kind # "none"
      /\ x.state \in {"connecting", "closed"} /\ x.state # "none" /\ ~ x.waning
      /\ x.closes = IF x.state = "closed" THEN 1 ELSE 0
  BY UnopenedFields DEF Safe, SocketRecord, Sound
<1>2. CASE x.byUser
  <2>1. /\ y \in SocketRecord
        /\ y.kind = x.kind /\ y.state = x.state /\ ~ y.dialing /\ y.byUser
        /\ y.channel = x.channel /\ y.inner = x.inner /\ y.waning = x.waning
        /\ y.opens = x.opens /\ y.closes = x.closes
    BY <1>2 DEF Dialed, Safe, SocketRecord
  <2>2. Sound(y)
    BY <1>1, <1>2, <2>1 DEF Safe, Sound
  <2>3. SocketPhase(y) = SocketPhase(x)
    BY <2>1 DEF SocketPhase
  <2> QED
    BY <2>1, <2>2, <2>3 DEF GoodStep, Safe, Moves
<1>3. CASE ~ x.byUser
  <2>1. x.state = "connecting" /\ x.closes = 0
    BY <1>1, <1>3 DEF Safe, Sound
  <2>2. /\ y \in SocketRecord
        /\ y.kind = x.kind /\ y.state = "open" /\ ~ y.dialing /\ ~ y.byUser
        /\ y.channel = "open" /\ y.inner = x.inner /\ y.waning = x.waning
        /\ y.opens = 1 /\ y.closes = x.closes
    <3>1. y = DialedAs(x, 1)
      BY <1>1, <1>3 DEF Dialed, DialedAs
    <3> HIDE DEF y
    <3> QED
      BY <1>1, <1>3, <3>1, DialedFields DEF Safe
  <2>3. Sound(y)
    BY <1>1, <2>1, <2>2 DEF Sound
  <2>4. SocketPhase(x) = "connecting" /\ SocketPhase(y) = "open"
    BY <1>1, <2>1, <2>2 DEF SocketPhase
  <2> QED
    BY <2>2, <2>3, <2>4 DEF GoodStep, Safe, Moves, Contract!Opens
<1> QED
  BY <1>2, <1>3

\* A socket that nothing carries any more.
LEMMA NothingLeftToTry ==
    ASSUME NEW z, SocketPhase(z) = "connecting",
           NEW x \in SocketRecord, x.kind # "none", x.state = "connecting", ~ x.dialing,
           ~ x.byUser, x.channel = "none", x.inner = "none", ~ x.waning,
           x.opens = 0, x.closes = 0
    PROVE  GoodStep(z, Finish(x))
<1> DEFINE y == Finish(x)
<1>1. /\ y \in SocketRecord
      /\ y.kind = x.kind /\ y.dialing = x.dialing /\ y.byUser = x.byUser
      /\ y.waning = x.waning /\ y.opens = x.opens /\ y.inner = x.inner
      /\ y.state = "closed" /\ y.closes = 1
      /\ y.channel = IF x.channel = "open" THEN "closed" ELSE x.channel
  BY FinishFields, Z3
<1>2. Sound(y)
  BY <1>1 DEF Sound
<1>3. SocketPhase(y) = "closed"
  BY <1>1 DEF SocketPhase
<1> QED
  BY <1>1, <1>2, <1>3 DEF GoodStep, Safe, Moves, Contract!Closes

LEMMA DialFailsIsGood ==
    ASSUME NEW z, Safe(z), z.dialing,
           NEW x, x = [z EXCEPT !.dialing = FALSE],
           NEW y, y = IF x.byUser THEN x
                      ELSE IF x.kind = "bare" THEN Finish(x)
                      ELSE [x EXCEPT !.inner = "connecting"]
    PROVE  GoodStep(z, y)
<1>1. /\ z.channel = "none" /\ z.inner = "none" /\ z.opens = 0 /\ z.kind # "none"
      /\ z.state \in {"connecting", "closed"} /\ z.state # "none" /\ ~ z.waning
      /\ z.closes = IF z.state = "closed" THEN 1 ELSE 0
  BY UnopenedFields DEF Safe, SocketRecord, Sound
<1>2. /\ x \in SocketRecord
      /\ x.kind = z.kind /\ x.state = z.state /\ ~ x.dialing /\ x.byUser = z.byUser
      /\ x.channel = "none" /\ x.inner = "none" /\ ~ x.waning
      /\ x.opens = 0 /\ x.closes = z.closes
  BY <1>1 DEF Safe, SocketRecord
<1>3. CASE z.byUser
  <2>1. y = x
    BY <1>2, <1>3
  <2>2. Sound(x)
    BY <1>1, <1>2, <1>3 DEF Safe, Sound
  <2>3. SocketPhase(x) = SocketPhase(z)
    BY <1>1, <1>2 DEF SocketPhase
  <2> QED
    BY <1>2, <2>1, <2>2, <2>3 DEF GoodStep, Safe, Moves
<1>4. CASE ~ z.byUser
  <2>1. z.state = "connecting" /\ z.closes = 0
    BY <1>1, <1>4 DEF Safe, Sound
  <2>2. CASE x.kind = "bare"
    <3>1. y = Finish(x)
      BY <1>2, <1>4, <2>2
    <3>2. SocketPhase(z) = "connecting"
      BY <1>1, <2>1 DEF SocketPhase
    <3>3. /\ x \in SocketRecord /\ x.kind # "none" /\ x.state = "connecting" /\ ~ x.dialing
          /\ ~ x.byUser /\ x.channel = "none" /\ x.inner = "none" /\ ~ x.waning
          /\ x.opens = 0 /\ x.closes = 0
      BY <1>1, <1>2, <1>4, <2>1
    <3> QED
      BY <3>1, <3>2, <3>3, NothingLeftToTry
  <2>3. CASE x.kind # "bare"
    <3>1. /\ y \in SocketRecord
          /\ y.kind = x.kind /\ y.state = x.state /\ ~ y.dialing /\ ~ y.byUser
          /\ y.channel = "none" /\ y.inner = "connecting" /\ ~ y.waning
          /\ y.opens = 0 /\ y.closes = x.closes
      BY <1>2, <1>4, <2>3 DEF SocketRecord
    <3>2. Sound(y)
      BY <1>1, <1>2, <2>1, <3>1 DEF Sound
    <3>3. SocketPhase(z) = "connecting" /\ SocketPhase(y) = "connecting"
      BY <1>1, <1>2, <2>1, <3>1 DEF SocketPhase
    <3> QED
      BY <3>1, <3>2, <3>3 DEF GoodStep, Safe, Moves
  <2> QED
    BY <2>2, <2>3
<1> QED
  BY <1>3, <1>4

LEMMA ClosingIsGood ==
    ASSUME NEW x, Safe(x), x.kind # "none",
           NEW y, y = IF x.inner = "closed" THEN x
                      ELSE IF x.inner # "none" THEN [x EXCEPT !.inner = "closing"]
                      ELSE IF x.state = "closed" THEN x
                      ELSE Finish([x EXCEPT !.byUser = TRUE])
    PROVE  GoodStep(x, y)
<1>1. x.state # "none"
  BY DEF Safe, Sound
<1>2. CASE x.inner # "none"
  <2>1. x.channel = "none" /\ ~ x.dialing /\ ~ x.byUser /\ ~ x.waning
    BY <1>2 DEF Safe, SocketRecord, Sound
  <2>2. /\ y \in SocketRecord
        /\ y.kind = x.kind /\ y.state = x.state /\ y.dialing = x.dialing /\ y.byUser = x.byUser
        /\ y.channel = x.channel /\ y.waning = x.waning
        /\ y.inner = (IF x.inner = "closed" THEN "closed" ELSE "closing")
        /\ y.opens = x.opens /\ y.closes = x.closes
    BY <1>2 DEF Safe, SocketRecord
  <2>3. Sound(y)
    BY <1>1, <1>2, <2>1, <2>2 DEF Safe, SocketRecord, Sound
  <2>4. CASE x.inner = "closed"
    <3>1. SocketPhase(y) = SocketPhase(x)
      BY <2>2, <2>4 DEF SocketPhase
    <3> QED
      BY <2>2, <2>3, <3>1 DEF GoodStep, Safe, Moves
  <2>5. CASE x.inner # "closed"
    <3>1. x.closes = 0 /\ x.state \in {"connecting", "open"}
            /\ x.opens = (IF x.state = "open" THEN 1 ELSE 0)
      BY <1>2, <2>5 DEF Safe, SocketRecord, Sound
    <3>2. SocketPhase(x) \in {"connecting", "open", "closing"} /\ SocketPhase(y) = "closing"
      BY <2>2, <2>5, <3>1 DEF SocketPhase
    <3> QED
      BY <2>2, <2>3, <3>2 DEF GoodStep, Safe, Moves, Contract!Shuts
  <2> QED
    BY <2>4, <2>5
<1>3. CASE x.inner = "none" /\ x.state = "closed"
  BY <1>3 DEF GoodStep, Moves
<1>4. CASE x.inner = "none" /\ x.state # "closed"
  <2> DEFINE w == [x EXCEPT !.byUser = TRUE]
  <2>1. /\ w \in SocketRecord
        /\ w.kind = x.kind /\ w.state = x.state /\ w.dialing = x.dialing /\ w.byUser
        /\ w.channel = x.channel /\ w.waning = x.waning /\ w.inner = x.inner
        /\ w.opens = x.opens /\ w.closes = x.closes
    BY DEF Safe, SocketRecord
  <2>2. y = Finish(w) /\ x.closes = 0
    BY <1>4 DEF Safe, Sound
  <2> HIDE DEF w
  <2>3. /\ y \in SocketRecord
        /\ y.kind = x.kind /\ y.state = "closed" /\ y.dialing = x.dialing /\ y.byUser
        /\ y.channel = (IF x.channel = "open" THEN "closed" ELSE x.channel)
        /\ y.waning = x.waning /\ y.inner = x.inner
        /\ y.opens = x.opens /\ y.closes = 1
    BY <1>4, <2>1, <2>2, FinishFields
  <2>4. Sound(y)
    BY <1>1, <1>4, <2>3 DEF Safe, SocketRecord, Sound
  <2>5. x.state \in {"connecting", "open"} /\ x.opens = (IF x.state = "open" THEN 1 ELSE 0)
    BY <1>1, <1>4 DEF Safe, SocketRecord, Sound
  <2>6. SocketPhase(x) \in {"connecting", "open"} /\ SocketPhase(y) = "closed"
    BY <1>4, <2>2, <2>3, <2>5 DEF SocketPhase, Safe, SocketRecord
  <2> QED
    BY <2>3, <2>4, <2>6 DEF GoodStep, Safe, Moves, Contract!Closes
<1> QED
  BY <1>2, <1>3, <1>4

LEMMA InnerIsGood ==
    ASSUME NEW x, Safe(x), NEW y,
           \/ x.inner = "connecting"
                /\ y = [x EXCEPT !.inner = "open", !.state = "open", !.opens = @ + 1]
           \/ x.inner \in {"connecting", "open", "closing"}
                /\ y = [x EXCEPT !.inner = "closed", !.state = "closed", !.closes = @ + 1]
    PROVE  GoodStep(x, y)
<1>1. /\ x.kind # "none" /\ x.channel = "none" /\ ~ x.dialing /\ ~ x.byUser /\ ~ x.waning
      /\ x.closes = 0 /\ x.state \in {"connecting", "open"}
      /\ x.opens = (IF x.state = "open" THEN 1 ELSE 0)
  BY UnopenedFields DEF Safe, SocketRecord, Sound
<1>2. CASE x.inner = "connecting" /\ y = [x EXCEPT !.inner = "open", !.state = "open", !.opens = @ + 1]
  <2>1. x.state = "connecting" /\ x.opens = 0
    BY <1>1, <1>2 DEF Safe, Sound
  <2>2. /\ y \in SocketRecord
        /\ y.kind = x.kind /\ y.state = "open" /\ ~ y.dialing /\ ~ y.byUser
        /\ y.channel = "none" /\ y.inner = "open" /\ ~ y.waning
        /\ y.opens = 1 /\ y.closes = 0
    <3>1. y = InnerOpenAs(x, 1)
      BY <1>2, <2>1 DEF InnerOpenAs
    <3> QED
      BY <1>1, <3>1, InnerOpenFields DEF Safe
  <2>3. Sound(y)
    BY <1>1, <2>2 DEF Sound
  <2>4. SocketPhase(x) = "connecting" /\ SocketPhase(y) = "open"
    BY <1>1, <1>2, <2>1, <2>2 DEF SocketPhase
  <2> QED
    BY <2>2, <2>3, <2>4 DEF GoodStep, Safe, Moves, Contract!Opens
<1>3. CASE /\ x.inner \in {"connecting", "open", "closing"}
           /\ y = [x EXCEPT !.inner = "closed", !.state = "closed", !.closes = @ + 1]
  <2>1. /\ y \in SocketRecord
        /\ y.kind = x.kind /\ y.state = "closed" /\ ~ y.dialing /\ ~ y.byUser
        /\ y.channel = "none" /\ y.inner = "closed" /\ ~ y.waning
        /\ y.opens = x.opens /\ y.closes = 1
    <3>1. y = InnerClosedAs(x, 1)
      BY <1>1, <1>3 DEF InnerClosedAs
    <3> QED
      BY <1>1, <3>1, InnerClosedFields DEF Safe
  <2>2. Sound(y)
    BY <1>1, <2>1 DEF Sound
  <2>3. SocketPhase(x) \in {"connecting", "open", "closing"} /\ SocketPhase(y) = "closed"
    BY <1>1, <1>3, <2>1 DEF SocketPhase
  <2> QED
    BY <2>1, <2>2, <2>3 DEF GoodStep, Safe, Moves, Contract!Closes
<1> QED
  BY <1>2, <1>3

\* A connection that is lost for a moment, or is back, is not heard of.
LEMMA WaningIsGood ==
    ASSUME NEW x, Safe(x), x.channel = "open",
           NEW y, y = [x EXCEPT !.waning = ~ @]
    PROVE  GoodStep(x, y)
<1>1. /\ y \in SocketRecord
      /\ y.kind = x.kind /\ y.state = x.state /\ y.dialing = x.dialing /\ y.byUser = x.byUser
      /\ y.channel = x.channel /\ y.inner = x.inner
      /\ y.opens = x.opens /\ y.closes = x.closes
  BY DEF Safe, SocketRecord
<1>2. x.kind # "none"
  BY UnopenedFields DEF Safe, Sound
<1>3. Sound(y)
  BY <1>1, <1>2 DEF Safe, Sound
<1>4. SocketPhase(y) = SocketPhase(x)
  BY <1>1 DEF SocketPhase
<1> QED
  BY <1>1, <1>3, <1>4 DEF GoodStep, Safe, Moves

-----------------------------------------------------------------------------
LEMMA SafeInit == SocketInit => SafeInv /\ Contract!Init
  BY UnopenedFields DEF SocketInit, SafeInv, Sound, Contract!Init, SocketPhase

\* Each step leaves what it found sound, and moves at most one phase.
LEMMA SafeStep ==
    ASSUME SafeInv, [SocketNext]_socketVars
    PROVE  SafeInv' /\ [Contract!Next]_[s \in Sockets |-> SocketPhase(socket[s])]
<1>0. \A s \in Sockets : Safe(socket[s])
  BY DEF SafeInv, Safe
<1>1. ASSUME NEW s \in Sockets, NEW k \in Kinds, OpenRelaySocket(s, k)
      PROVE  SafeInv' /\ Contract!Next
  <2> DEFINE x == [Unopened EXCEPT !.kind = k, !.state = "connecting"]
             y == IF k # "bare" /\ failed[k] THEN [x EXCEPT !.inner = "connecting"]
                  ELSE [x EXCEPT !.dialing = TRUE]
  <2>1. socket[s] = Unopened /\ socket' = [socket EXCEPT ![s] = y] /\ failed' = failed
    BY <1>1 DEF OpenRelaySocket
  <2>2. y \in {[x EXCEPT !.inner = "connecting"], [x EXCEPT !.dialing = TRUE]}
    OBVIOUS
  <2> HIDE DEF y
  <2>3. GoodStep(Unopened, y)
    BY <2>2, Opening
  <2> QED
    BY <2>1, <2>3, OneSocketMoves DEF SafeInv
<1>2. ASSUME NEW s \in Sockets, DialSucceeds(s)
      PROVE  SafeInv' /\ Contract!Next
  <2>1. GoodStep(socket[s], Dialed(socket[s]))
    BY <1>0, <1>2, DialedIsGood DEF DialSucceeds
  <2>2. failed' \in [Kinds -> BOOLEAN]
    BY <1>2 DEF DialSucceeds, SafeInv
  <2>3. socket' = [socket EXCEPT ![s] = Dialed(socket[s])]
    BY <1>2 DEF DialSucceeds
  <2> QED
    BY <2>1, <2>2, <2>3, OneSocketMoves
<1>3. ASSUME NEW s \in Sockets, DialFails(s)
      PROVE  SafeInv' /\ Contract!Next
  <2> DEFINE x == [socket[s] EXCEPT !.dialing = FALSE]
             y == IF x.byUser THEN x
                  ELSE IF x.kind = "bare" THEN Finish(x)
                  ELSE [x EXCEPT !.inner = "connecting"]
  <2>1. GoodStep(socket[s], y)
    BY <1>0, <1>3, DialFailsIsGood DEF DialFails
  <2>2. failed' \in [Kinds -> BOOLEAN]
    BY <1>3 DEF DialFails, SafeInv
  <2>3. socket' = [socket EXCEPT ![s] = y]
    BY <1>3 DEF DialFails
  <2> HIDE DEF y
  <2> QED
    BY <2>1, <2>2, <2>3, OneSocketMoves
<1>4. ASSUME NEW s \in Sockets, ChannelGone(s) \/ GraceOver(s)
      PROVE  SafeInv' /\ Contract!Next
  <2>1. socket[s].channel # "none"
    BY <1>0, <1>4 DEF ChannelGone, GraceOver, Safe, Sound
  <2>2. GoodStep(socket[s], Finish(socket[s]))
    BY <1>0, <2>1, FinishIsGood
  <2>3. socket' = [socket EXCEPT ![s] = Finish(socket[s])] /\ failed' = failed
    BY <1>4 DEF ChannelGone, GraceOver
  <2> QED
    BY <2>2, <2>3, OneSocketMoves DEF SafeInv
<1>5. ASSUME NEW s \in Sockets, Disconnected(s)
      PROVE  SafeInv' /\ Contract!Next
  <2> DEFINE y == [socket[s] EXCEPT !.waning = ~ @]
  <2>1. GoodStep(socket[s], y)
    BY <1>0, <1>5, WaningIsGood DEF Disconnected
  <2>2. socket' = [socket EXCEPT ![s] = y] /\ failed' = failed
    BY <1>5 DEF Disconnected
  <2> HIDE DEF y
  <2> QED
    BY <2>1, <2>2, OneSocketMoves DEF SafeInv
<1>6. ASSUME NEW s \in Sockets, InnerOpens(s)
      PROVE  SafeInv' /\ Contract!Next
  <2> DEFINE y == [socket[s] EXCEPT !.inner = "open", !.state = "open", !.opens = @ + 1]
  <2>1. GoodStep(socket[s], y)
    BY <1>0, <1>6, InnerIsGood DEF InnerOpens
  <2>2. socket' = [socket EXCEPT ![s] = y] /\ failed' = failed
    BY <1>6 DEF InnerOpens, SafeInv
  <2> HIDE DEF y
  <2> QED
    BY <2>1, <2>2, OneSocketMoves DEF SafeInv
<1>7. ASSUME NEW s \in Sockets, InnerCloses(s)
      PROVE  SafeInv' /\ Contract!Next
  <2> DEFINE y == [socket[s] EXCEPT !.inner = "closed", !.state = "closed", !.closes = @ + 1]
  <2>1. GoodStep(socket[s], y)
    BY <1>0, <1>7, InnerIsGood DEF InnerCloses
  <2>2. socket' = [socket EXCEPT ![s] = y] /\ failed' = failed
    BY <1>7 DEF InnerCloses, SafeInv
  <2> HIDE DEF y
  <2> QED
    BY <2>1, <2>2, OneSocketMoves DEF SafeInv
<1>8. ASSUME NEW s \in Sockets, CloseSocket(s)
      PROVE  SafeInv' /\ Contract!Next
  <2> DEFINE x == socket[s]
             y == IF x.inner = "closed" THEN x
                  ELSE IF x.inner # "none" THEN [x EXCEPT !.inner = "closing"]
                  ELSE IF x.state = "closed" THEN x
                  ELSE Finish([x EXCEPT !.byUser = TRUE])
  <2>1. GoodStep(socket[s], y)
    BY <1>0, <1>8, ClosingIsGood DEF CloseSocket
  <2>2. socket' = [socket EXCEPT ![s] = y] /\ failed' = failed
    BY <1>8 DEF CloseSocket
  <2> HIDE DEF y
  <2> QED
    BY <2>1, <2>2, OneSocketMoves DEF SafeInv
<1>9. ASSUME NEW k \in Kinds, FailureLapses(k)
      PROVE  SafeInv' /\ UNCHANGED socket
  BY <1>9 DEF FailureLapses, SafeInv
<1>10. ASSUME UNCHANGED socketVars
       PROVE  SafeInv' /\ UNCHANGED socket
  BY <1>10 DEF socketVars, SafeInv
<1> QED
  BY <1>1, <1>2, <1>3, <1>4, <1>5, <1>6, <1>7, <1>8, <1>9, <1>10 DEF SocketNext

THEOREM SocketsStaySound == SocketSpec => []SafeInv
<1>1. SafeInv /\ [SocketNext]_socketVars => SafeInv'
  BY SafeStep
<1> QED
  BY SafeInit, <1>1, PTL DEF SocketSpec

-----------------------------------------------------------------------------
(* Theorems *)

\* The sockets of the session, and the failures it remembers, have their types, and
\* there is one transport behind a socket at a time.
THEOREM SocketTypeCorrect == SocketSpec => []SocketTypeOK
<1>1. SafeInv => SocketTypeOK
  BY DEF SafeInv, SocketTypeOK, SocketRecord, Sound
<1> QED
  BY SocketsStaySound, <1>1, PTL

\* The session hears at most once that a socket opened and exactly once that it
\* closed, whichever of its transports ends it.
THEOREM EventsHeardOnce == SocketSpec => []HeardOnce
<1>1. SafeInv => HeardOnce
  BY DEF SafeInv, HeardOnce, SocketRecord, Sound
<1> QED
  BY SocketsStaySound, <1>1, PTL

\* No transport stays open behind a socket that closed.
THEOREM NothingIsLeftOpen == SocketSpec => []NothingLeftOpen
<1>1. SafeInv => NothingLeftOpen
  BY DEF SafeInv, NothingLeftOpen, SocketRecord, Sound
<1> QED
  BY SocketsStaySound, <1>1, PTL

\* openRelaySocket hides a punched or direct channel, its failure and the tunnel
\* that takes over behind the contract of one WebSocket.
THEOREM PlainSocketKept == SocketSpec => IsPlainSocket
<1>1. SafeInv /\ [SocketNext]_socketVars
        => [Contract!Next]_[s \in Sockets |-> SocketPhase(socket[s])]
  BY SafeStep
<1> QED
  BY SocketsStaySound, SafeInit, <1>1, PTL DEF SocketSpec, IsPlainSocket, Contract!Spec

-----------------------------------------------------------------------------
(***************************************************************************)
(* Links through the relay, asked for by either end of a pair, or by both.  *)
(***************************************************************************)

\* Frames of a sequence that are added, and taken.
LEMMA AddedFrames ==
    ASSUME NEW S, NEW s \in Seq(S)
    PROVE  /\ << >> \o s = s /\ s \o << >> = s
           /\ \A x \in S : << x >> \in Seq(S)
           /\ \A t \in Seq(S) : s \o t \in Seq(S)
           /\ s # << >> => Tail(s) \in Seq(S)
  <1>1. << >> \o s = s /\ s \o << >> = s
    BY ConcatEmptySeq
  <1>2. \A t \in Seq(S) : s \o t \in Seq(S)
    BY ConcatProperties
  <1>3. s # << >> => Tail(s) \in Seq(S)
    BY HeadTailProperties
  <1>4. QED
    BY <1>1, <1>2, <1>3

\* Short sequences, with one more.
LEMMA OneAndOne ==
    ASSUME NEW a \in Actions, NEW b \in Actions
    PROVE  << a >> \o << b >> = << a, b >>
  <1>1. << a >> \in Seq(Actions) /\ << b >> \in Seq(Actions) /\ << a, b >> \in Seq(Actions)
    OBVIOUS
  <1>2. << a >> \o << b >> \in Seq(Actions) /\ Len(<< a >> \o << b >>) = 2
    BY <1>1, ConcatProperties
  <1>3. \A i \in 1 .. 2 : (<< a >> \o << b >>)[i] = << a, b >>[i]
    BY <1>1, ConcatProperties
  <1>4. QED
    BY <1>1, <1>2, <1>3, SeqEqual

LEMMA TwoAndOne ==
    ASSUME NEW a \in Actions, NEW b \in Actions, NEW c \in Actions
    PROVE  << a, b >> \o << c >> = << a, b, c >>
  <1>1. << a, b >> \in Seq(Actions) /\ << c >> \in Seq(Actions) /\ << a, b, c >> \in Seq(Actions)
    OBVIOUS
  <1>2. << a, b >> \o << c >> \in Seq(Actions) /\ Len(<< a, b >> \o << c >>) = 3
    BY <1>1, ConcatProperties
  <1>3. \A i \in 1 .. 3 : (<< a, b >> \o << c >>)[i] = << a, b, c >>[i]
    BY <1>1, ConcatProperties
  <1>4. QED
    BY <1>1, <1>2, <1>3, SeqEqual

LEMMA ThreeAndOne ==
    ASSUME NEW a \in Actions, NEW b \in Actions, NEW c \in Actions, NEW d \in Actions
    PROVE  << a, b, c >> \o << d >> = << a, b, c, d >>
  <1>1. << a, b, c >> \in Seq(Actions) /\ << d >> \in Seq(Actions) /\ << a, b, c, d >> \in Seq(Actions)
    OBVIOUS
  <1>2. << a, b, c >> \o << d >> \in Seq(Actions) /\ Len(<< a, b, c >> \o << d >>) = 4
    BY <1>1, ConcatProperties
  <1>3. \A i \in 1 .. 4 : (<< a, b, c >> \o << d >>)[i] = << a, b, c, d >>[i]
    BY <1>1, ConcatProperties
  <1>4. QED
    BY <1>1, <1>2, <1>3, SeqEqual

\* An end's link and the number of its asks change together.
Becomes(e, l, n) == link' = [link EXCEPT ![e] = l] /\ asks' = [asks EXCEPT ![e] = n]

RestTyped ==
    /\ failures' \in [Pair -> 0 .. AfterFailures]
    /\ frames' \in [Pair -> Seq(Actions)] /\ woes' \in 0 .. MaxWoes

LEMMA RelayedTypeOf ==
    ASSUME RelayedTypeOK, NEW e \in Pair, NEW l \in {"none", "connecting", "open"},
           NEW n \in 0 .. MaxAsks, l = "connecting" <=> n > 0, Becomes(e, l, n),
           RestTyped
    PROVE  RelayedTypeOK'
  <1>1. link' \in [Pair -> {"none", "connecting", "open"}] /\ asks' \in [Pair -> 0 .. MaxAsks]
    BY DEF RelayedTypeOK, Becomes
  <1>2. \A d \in Pair : link'[d] = "connecting" <=> asks'[d] > 0
    <2> TAKE d \in Pair
    <2>1. CASE d = e
      BY <2>1 DEF RelayedTypeOK, Becomes
    <2>2. CASE d # e
      <3>1. link'[d] = link[d] /\ asks'[d] = asks[d]
        BY <2>2 DEF RelayedTypeOK, Becomes
      <3>2. QED
        BY <3>1 DEF RelayedTypeOK
    <2>3. QED
      BY <2>1, <2>2
  <1>3. QED
    BY <1>1, <1>2 DEF RelayedTypeOK, RestTyped

\* A link that ends, or is open, was asked for no more.
LEMMA RelayedTypeOfRest ==
    ASSUME RelayedTypeOK, NEW e \in Pair, RestTyped,
           Becomes(e, "none", 0) \/ Becomes(e, "open", 0)
    PROVE  RelayedTypeOK'
  <1>1. 0 \in 0 .. MaxAsks /\ ~ (0 > 0)
    BY RelayedLinksAssumption
  <1>2. "none" \in {"none", "connecting", "open"} /\ "open" \in {"none", "connecting", "open"}
    OBVIOUS
  <1>3. ("none" = "connecting" <=> 0 > 0) /\ ("open" = "connecting" <=> 0 > 0)
    BY <1>1
  <1>4. CASE Becomes(e, "none", 0)
    BY <1>1, <1>2, <1>3, <1>4, RelayedTypeOf
  <1>5. CASE Becomes(e, "open", 0)
    BY <1>1, <1>2, <1>3, <1>5, RelayedTypeOf
  <1>6. QED
    BY <1>4, <1>5

\* A link that is asked for.
LEMMA RelayedTypeOfAsk ==
    ASSUME RelayedTypeOK, NEW e \in Pair, RestTyped, NEW n \in 1 .. MaxAsks,
           Becomes(e, "connecting", n)
    PROVE  RelayedTypeOK'
  <1>1. n \in 0 .. MaxAsks /\ ("connecting" = "connecting" <=> n > 0)
    BY RelayedLinksAssumption
  <1>2. "connecting" \in {"none", "connecting", "open"}
    OBVIOUS
  <1>3. QED
    BY <1>1, <1>2, RelayedTypeOf

LEMMA Mates == \A e \in Pair : Mate(e) \in Pair /\ Mate(e) # e
  BY DEF Pair, Mate

\* Frames that are sent, or taken and answered, stay frames.
LEMMA FramesType ==
    ASSUME RelayedTypeOK, NEW e \in Pair
    PROVE  /\ \A out \in Seq(Actions) : SendsFrame(e, out) => frames' \in [Pair -> Seq(Actions)]
           /\ frames[e] # << >> => Tail(frames[e]) \in Seq(Actions)
           /\ \A t \in BOOLEAN : Closes(e, t) \in Seq(Actions)
           /\ << "open" >> \in Seq(Actions) /\ << "data" >> \in Seq(Actions)
           /\ frames[e] # << >> /\ OnOpen(e) => frames' \in [Pair -> Seq(Actions)]
  <1>1. frames[e] \in Seq(Actions) /\ frames[Mate(e)] \in Seq(Actions)
    BY Mates DEF RelayedTypeOK
  <1>2. /\ << "open" >> \in Seq(Actions) /\ << "data" >> \in Seq(Actions) /\ << >> \in Seq(Actions)
        /\ << "accept" >> \in Seq(Actions) /\ << "close" >> \in Seq(Actions)
    BY DEF Actions
  <1>3. \A t \in BOOLEAN : Closes(e, t) \in Seq(Actions)
    BY <1>2 DEF Closes
  <1>4. frames[e] # << >> => Tail(frames[e]) \in Seq(Actions)
    BY <1>1, AddedFrames
  <1>5. ASSUME NEW out \in Seq(Actions), SendsFrame(e, out)
        PROVE  frames' \in [Pair -> Seq(Actions)]
    <2>1. frames[Mate(e)] \o out \in Seq(Actions)
      BY <1>1, AddedFrames
    <2>2. QED
      BY <1>5, <2>1, Mates DEF SendsFrame, RelayedTypeOK
  <1>6. ASSUME frames[e] # << >>, OnOpen(e)
        PROVE  frames' \in [Pair -> Seq(Actions)]
    <2>1. PICK c \in Seq(Actions) : c = IF link[e] = "open" THEN << >> ELSE Closes(e, TRUE)
      BY <1>2, <1>3
    <2>2. frames[Mate(e)] \o c \o << "accept" >> \in Seq(Actions)
      <3>1. frames[Mate(e)] \o c \in Seq(Actions)
        BY <1>1, AddedFrames
      <3>2. QED
        BY <1>2, <3>1, AddedFrames
    <2>3. frames' = [frames EXCEPT ![e] = Tail(frames[e]),
                                   ![Mate(e)] = frames[Mate(e)] \o c \o << "accept" >>]
      <3>1. [frames EXCEPT ![e] = Tail(frames[e])][Mate(e)] = frames[Mate(e)]
        BY Mates DEF RelayedTypeOK
      <3>2. QED
        BY <1>6, <2>1, <3>1 DEF OnOpen
    <2>4. QED
      BY <1>4, <1>6, <2>2, <2>3, Mates DEF RelayedTypeOK
  <1>7. QED
    BY <1>2, <1>3, <1>4, <1>5, <1>6

\* Each step of a relayed link keeps its types.
LEMMA RelayedTypeStep ==
    ASSUME RelayedTypeOK, [RelayedNext]_relayedVars
    PROVE  RelayedTypeOK'
  <1>0. CASE UNCHANGED relayedVars
    BY <1>0 DEF relayedVars, RelayedTypeOK
  <1>1. ASSUME NEW e \in Pair
        PROVE  /\ link = [link EXCEPT ![e] = link[e]] /\ asks = [asks EXCEPT ![e] = asks[e]]
               /\ link[e] \in {"none", "connecting", "open"} /\ asks[e] \in 0 .. MaxAsks
               /\ link[e] = "connecting" <=> asks[e] > 0
               /\ failures \in [Pair -> 0 .. AfterFailures]
               /\ frames \in [Pair -> Seq(Actions)] /\ woes \in 0 .. MaxWoes
               /\ 0 \in 0 .. MaxAsks /\ 1 \in 0 .. MaxAsks
               /\ woes < MaxWoes => woes + 1 \in 0 .. MaxWoes
    BY RelayedLinksAssumption DEF RelayedTypeOK
  <1>2. ASSUME NEW e \in Pair, NoteLinkFailure(e)
        PROVE  RelayedTypeOK'
    <2>1. failures' \in [Pair -> 0 .. AfterFailures]
      <3>1. failures[e] + 1 \in 0 .. AfterFailures
        BY <1>1, <1>2 DEF NoteLinkFailure, AfterFailures
      <3>2. QED
        BY <1>1, <1>2, <3>1 DEF NoteLinkFailure
    <2>2. QED
      BY <1>2, <2>1 DEF NoteLinkFailure, RelayedTypeOK
  <1>3. ASSUME NEW e \in Pair, OpenRelayedLink(e)
        PROVE  RelayedTypeOK'
    <2>1. frames' \in [Pair -> Seq(Actions)]
      BY <1>3, FramesType DEF OpenRelayedLink
    <2>2. Becomes(e, "connecting", 1)
      BY <1>3 DEF OpenRelayedLink, Becomes
    <2>3. QED
      <3>1. RestTyped /\ 1 \in 1 .. MaxAsks
        BY <1>1, <1>3, <2>1, RelayedLinksAssumption DEF OpenRelayedLink, RestTyped
      <3>2. QED
        BY <2>2, <3>1, RelayedTypeOfAsk
  <1>4. ASSUME NEW e \in Pair, AskAgain(e)
        PROVE  RelayedTypeOK'
    <2>1. frames' \in [Pair -> Seq(Actions)]
      BY <1>4, FramesType DEF AskAgain
    <2>2. CASE asks[e] < MaxAsks
      <3>1. asks[e] + 1 \in 1 .. MaxAsks
        BY <1>1, <2>2, RelayedLinksAssumption
      <3>2. Becomes(e, "connecting", asks[e] + 1)
        BY <1>1, <1>4, <2>2 DEF AskAgain, Becomes
      <3>3. RestTyped
        BY <1>1, <1>4, <2>1 DEF AskAgain, RestTyped
      <3>4. QED
        BY <3>1, <3>2, <3>3, RelayedTypeOfAsk
    <2>3. CASE ~ (asks[e] < MaxAsks)
      <3>1. Becomes(e, "none", 0)
        BY <1>4, <2>3 DEF AskAgain, Becomes
      <3>2. RestTyped
        BY <1>1, <1>4, <2>1 DEF AskAgain, RestTyped
      <3>3. QED
        BY <3>1, <3>2, RelayedTypeOfRest
    <2>4. QED
      BY <2>2, <2>3
  <1>5. ASSUME NEW e \in Pair, HandleLinkFrame(e)
        PROVE  RelayedTypeOK'
    <2>1. frames[e] # << >> /\ UNCHANGED << failures, woes >>
      BY <1>5 DEF HandleLinkFrame
    <2>2. Tail(frames[e]) \in Seq(Actions)
      BY <2>1, FramesType
    <2>3. CASE OnOpen(e)
      <3>1. frames' \in [Pair -> Seq(Actions)]
        BY <2>1, <2>3, FramesType
      <3>2. Becomes(e, "open", 0)
        BY <2>3 DEF OnOpen, Becomes
      <3>3. RestTyped
        BY <1>1, <2>1, <3>1 DEF RestTyped
      <3>4. QED
        BY <3>2, <3>3, RelayedTypeOfRest
    <2>4. CASE OnAnswer(e)
      <3>1. frames' \in [Pair -> Seq(Actions)]
        BY <1>1, <2>2, <2>4 DEF OnAnswer
      <3>2. PICK l \in {"none", "open"} :
                l = IF link[e] = "connecting" THEN "open" ELSE link[e]
        BY <1>1
      <3>3. Becomes(e, l, 0)
        BY <2>4, <3>2 DEF OnAnswer, Becomes
      <3>4. RestTyped
        BY <1>1, <2>1, <3>1 DEF RestTyped
      <3>5. QED
        BY <3>2, <3>3, <3>4, RelayedTypeOfRest
    <2>5. CASE OnClose(e)
      <3>1. frames' \in [Pair -> Seq(Actions)]
        BY <1>1, <2>2, <2>5 DEF OnClose
      <3>2. Becomes(e, "none", 0)
        BY <2>5 DEF OnClose, Becomes
      <3>3. RestTyped
        BY <1>1, <2>1, <3>1 DEF RestTyped
      <3>4. QED
        BY <3>2, <3>3, RelayedTypeOfRest
    <2>6. QED
      BY <1>5, <2>3, <2>4, <2>5 DEF HandleLinkFrame
  <1>6. ASSUME NEW e \in Pair, SendOver(e)
        PROVE  RelayedTypeOK'
    <2>1. frames' \in [Pair -> Seq(Actions)]
      BY <1>6, FramesType DEF SendOver
    <2>2. QED
      BY <1>6, <2>1 DEF SendOver, RelayedTypeOK
  <1>7. ASSUME NEW e \in Pair, KeepaliveEnds(e)
        PROVE  RelayedTypeOK'
    <2>1. frames' \in [Pair -> Seq(Actions)]
      BY <1>7, FramesType DEF KeepaliveEnds
    <2>2. Becomes(e, "none", 0)
      <3>1. asks[e] = 0
        BY <1>1, <1>7 DEF KeepaliveEnds
      <3>2. QED
        BY <1>1, <1>7, <3>1 DEF KeepaliveEnds, Becomes
    <2>3. QED
      <3>1. RestTyped
        BY <1>1, <1>7, <2>1 DEF KeepaliveEnds, RestTyped
      <3>2. QED
        BY <2>2, <3>1, RelayedTypeOfRest
  <1>8. ASSUME NEW e \in Pair, CloseOver(e)
        PROVE  RelayedTypeOK'
    <2>1. frames' \in [Pair -> Seq(Actions)]
      BY <1>8, FramesType DEF CloseOver
    <2>2. Becomes(e, "none", 0)
      BY <1>8 DEF CloseOver, Becomes
    <2>3. QED
      <3>1. RestTyped
        BY <1>1, <1>8, <2>1 DEF CloseOver, RestTyped
      <3>2. QED
        BY <2>2, <3>1, RelayedTypeOfRest
  <1>9. ASSUME NEW e \in Pair, FrameLost(e)
        PROVE  RelayedTypeOK'
    <2>1. Tail(frames[e]) \in Seq(Actions)
      BY <1>9, FramesType DEF FrameLost
    <2>2. frames' \in [Pair -> Seq(Actions)] /\ woes' \in 0 .. MaxWoes
      BY <1>1, <1>9, <2>1 DEF FrameLost
    <2>3. QED
      BY <1>9, <2>2 DEF FrameLost, RelayedTypeOK
  <1>10. QED
    BY <1>0, <1>2, <1>3, <1>4, <1>5, <1>6, <1>7, <1>8, <1>9 DEF RelayedNext

\* The sequences under way over a link that is open, while nothing is lost.
AtMostData == {<< >>, << "data" >>}

\* Late frames of links that have ended, and those behind a close that is to come.
LateFrames == {<< >>, << "accept" >>, << "accept", "data" >>, << "data" >>}
Closing == {<< "close", "accept" >>, << "close", "accept", "data" >>}

\* While nothing is lost and no host closes its end, a pair is in one of six phases.
\* No link, or two of which each ends with a close under way.
Ending ==
    \A e \in Pair : \/ link[e] = "none" /\ frames[e] \in LateFrames
                    \/ link[e] = "open" /\ frames[e] \in Closing

Asked(d, m) ==
    /\ link[d] = "connecting" /\ link[m] = "none"
    /\ frames[d] = << >> /\ frames[m] = << "open" >>

Accepted(d, m) ==
    /\ link[d] = "connecting" /\ link[m] = "open"
    /\ frames[d] \in {<< "accept" >>, << "accept", "data" >>} /\ frames[m] = << >>

Linked == \A e \in Pair : link[e] = "open" /\ frames[e] \in AtMostData

\* Both ask at once, and one has heard so.
Crossed == \A e \in Pair : link[e] = "connecting" /\ frames[e] = << "open" >>

CrossedAt(d, m) ==
    /\ link[d] = "connecting" /\ link[m] = "open"
    /\ frames[d] \in {<< "open", "close", "accept" >>, << "open", "close", "accept", "data" >>}
    /\ frames[m] = << >>

MadeInSteps ==
    \/ Ending \/ Linked \/ Crossed
    \/ \E d \in Pair : Asked(d, Mate(d)) \/ Accepted(d, Mate(d)) \/ CrossedAt(d, Mate(d))

PairInv == RelayedTypeOK /\ (woes = 0 => MadeInSteps)

\* What a step does to the frames of both ends: some are sent, or one is taken.
LEMMA FramesAfter ==
    ASSUME RelayedTypeOK, NEW e \in Pair
    PROVE  /\ \A out : SendsFrame(e, out) =>
                 frames'[Mate(e)] = frames[Mate(e)] \o out /\ frames'[e] = frames[e]
           /\ frames' = [frames EXCEPT ![e] = Tail(frames[e])] =>
                 frames'[e] = Tail(frames[e]) /\ frames'[Mate(e)] = frames[Mate(e)]
           /\ OnOpen(e) =>
                 /\ frames'[e] = Tail(frames[e])
                 /\ link[e] = "none" => frames'[Mate(e)] = (frames[Mate(e)] \o << >>) \o << "accept" >>
                 /\ link[e] = "connecting" =>
                       frames'[Mate(e)] = (frames[Mate(e)] \o << "close" >>) \o << "accept" >>
  <1>1. frames \in [Pair -> Seq(Actions)]
    BY DEF RelayedTypeOK
  <1>2. ASSUME OnOpen(e), NEW out, link[e] # "open", out = Closes(e, TRUE)
        PROVE  frames'[Mate(e)] = (frames[Mate(e)] \o out) \o << "accept" >>
    <2>1. frames' = [frames EXCEPT ![e] = Tail(@), ![Mate(e)] = (@ \o out) \o << "accept" >>]
      BY <1>2 DEF OnOpen
    <2>2. QED
      BY <1>1, <2>1, Mates
  <1>3. OnOpen(e) => frames'[e] = Tail(frames[e])
    BY <1>1, Mates DEF OnOpen
  <1>4. /\ link[e] = "none" => Closes(e, TRUE) = << >>
        /\ link[e] = "connecting" => Closes(e, TRUE) = << "close" >>
    BY DEF Closes
  <1>5. QED
    BY <1>1, <1>2, <1>3, <1>4, Mates DEF SendsFrame

LEMMA ShortFrames ==
    /\ Tail(<< "open" >>) = << >> /\ Head(<< "open" >>) = "open"
    /\ Tail(<< "data" >>) = << >> /\ Head(<< "data" >>) = "data"
    /\ Tail(<< "accept" >>) = << >> /\ Head(<< "accept" >>) = "accept"
    /\ Tail(<< "accept", "data" >>) = << "data" >> /\ Head(<< "accept", "data" >>) = "accept"
    /\ Tail(<< "close", "accept" >>) = << "accept" >> /\ Head(<< "close", "accept" >>) = "close"
    /\ Tail(<< "close", "accept", "data" >>) = << "accept", "data" >>
    /\ Head(<< "close", "accept", "data" >>) = "close"
    /\ Tail(<< "open", "close", "accept" >>) = << "close", "accept" >>
    /\ Head(<< "open", "close", "accept" >>) = "open"
    /\ Tail(<< "open", "close", "accept", "data" >>) = << "close", "accept", "data" >>
    /\ Head(<< "open", "close", "accept", "data" >>) = "open"
  OBVIOUS

LEMMA AddedOnes ==
    /\ << >> \o << "open" >> = << "open" >> /\ << >> \o << "data" >> = << "data" >>
    /\ << "accept" >> \o << "data" >> = << "accept", "data" >>
    /\ << "close", "accept" >> \o << "data" >> = << "close", "accept", "data" >>
    /\ << "open", "close", "accept" >> \o << "data" >> = << "open", "close", "accept", "data" >>
    /\ (<< >> \o << >>) \o << "accept" >> = << "accept" >>
    /\ (<< >> \o << "close" >>) \o << "accept" >> = << "close", "accept" >>
    /\ (<< "open" >> \o << "close" >>) \o << "accept" >> = << "open", "close", "accept" >>
  <1>1. /\ << "open" >> \in Seq(Actions) /\ << "data" >> \in Seq(Actions)
        /\ << "accept" >> \in Seq(Actions) /\ << "close" >> \in Seq(Actions) /\ << >> \in Seq(Actions)
        /\ "open" \in Actions /\ "data" \in Actions /\ "accept" \in Actions /\ "close" \in Actions
    BY DEF Actions
  <1>2. /\ << >> \o << "open" >> = << "open" >> /\ << >> \o << "data" >> = << "data" >>
        /\ << >> \o << >> = << >> /\ << >> \o << "accept" >> = << "accept" >>
        /\ << >> \o << "close" >> = << "close" >>
    BY <1>1, AddedFrames
  <1>3. << "accept" >> \o << "data" >> = << "accept", "data" >>
    BY <1>1, OneAndOne
  <1>4. << "close" >> \o << "accept" >> = << "close", "accept" >>
    BY <1>1, OneAndOne
  <1>5. << "close", "accept" >> \o << "data" >> = << "close", "accept", "data" >>
    BY <1>1, TwoAndOne
  <1>6. << "open" >> \o << "close" >> = << "open", "close" >>
    BY <1>1, OneAndOne
  <1>7. << "open", "close" >> \o << "accept" >> = << "open", "close", "accept" >>
    BY <1>1, TwoAndOne
  <1>8. << "open", "close", "accept" >> \o << "data" >> = << "open", "close", "accept", "data" >>
    BY <1>1, ThreeAndOne
  <1>9. QED
    BY <1>2, <1>3, <1>4, <1>5, <1>6, <1>7, <1>8

\* Which of these sequences hold a frame other than data.
LEMMA NotQuiet ==
    ASSUME NEW e \in Pair, Quiet
    PROVE  /\ frames[e] \notin Closing /\ frames[e] # << "open" >> /\ frames[e] # << "accept" >>
           /\ frames[e] # << "accept", "data" >> /\ frames[e] # << "open", "close", "accept" >>
           /\ frames[e] # << "open", "close", "accept", "data" >>
  <1>1. frames[e] \in Closing => 1 \in DOMAIN frames[e] /\ frames[e][1] # "data"
    BY DEF Closing
  <1>2. frames[e] \in {<< "open" >>, << "accept" >>} => 1 \in DOMAIN frames[e] /\ frames[e][1] # "data"
    OBVIOUS
  <1>3. frames[e] = << "accept", "data" >> => 1 \in DOMAIN frames[e] /\ frames[e][1] # "data"
    OBVIOUS
  <1>4. frames[e] \in {<< "open", "close", "accept" >>, << "open", "close", "accept", "data" >>}
           => 1 \in DOMAIN frames[e] /\ frames[e][1] # "data"
    OBVIOUS
  <1>5. QED
    BY <1>1, <1>2, <1>3, <1>4 DEF Quiet

\* In no phase is a frame of the making missing while an end waits for an answer.
LEMMA QuietPhases ==
    ASSUME MadeInSteps, Quiet
    PROVE  (\A e \in Pair : link[e] = "open") \/ (\A e \in Pair : link[e] = "none")
  <1>1. ~ Crossed
    BY NotQuiet DEF Crossed, Pair
  <1>2. \A d \in Pair : ~ Asked(d, Mate(d)) /\ ~ Accepted(d, Mate(d)) /\ ~ CrossedAt(d, Mate(d))
    BY NotQuiet, Mates DEF Asked, Accepted, CrossedAt
  <1>3. QED
    BY <1>1, <1>2, NotQuiet DEF MadeInSteps, Ending, Linked

\* An end that asks starts the making, or crosses the other's ask.
LEMMA AskKeepsPhase ==
    ASSUME RelayedTypeOK, MadeInSteps, NEW e \in Pair, OpenRelayedLink(e)
    PROVE  MadeInSteps'
  <1> DEFINE m == Mate(e)
  <1>1. /\ m \in Pair /\ Mate(m) = e /\ Pair = {e, m} /\ m # e /\ DOMAIN link = Pair
    BY DEF Pair, Mate, RelayedTypeOK
  <1>2. /\ link[e] = "none" /\ frames[m] = << >>
        /\ frames[e] # << >> => frames[e][1] = "open" \/ (frames[e][1] = "data" /\ link[m] = "open")
    <2>1. frames[e] \in Seq(Actions)
      BY DEF RelayedTypeOK
    <2>2. frames[e] # << >> => 1 \in DOMAIN frames[e]
      BY <2>1
    <2>3. QED
      BY <2>2 DEF OpenRelayedLink, EarlierIsOver
  <1>3. /\ link'[e] = "connecting" /\ link'[m] = link[m]
        /\ frames'[m] = << "open" >> /\ frames'[e] = frames[e]
    BY <1>1, <1>2, FramesAfter, AddedOnes DEF OpenRelayedLink, RelayedTypeOK
  <1> HIDE DEF m
  <1>4. CASE Ending
    <2>1. link[m] = "none" /\ frames[e] \in LateFrames
      BY <1>1, <1>2, <1>4 DEF Ending, Closing
    <2>2. frames[e] = << >>
      BY <1>2, <2>1 DEF LateFrames
    <2>3. QED
      BY <1>1, <1>3, <2>1, <2>2 DEF Asked, MadeInSteps, m
  <1>5. CASE Asked(m, e)
    BY <1>1, <1>3, <1>5 DEF Asked, Crossed, MadeInSteps
  <1>6. /\ ~ Linked /\ ~ Crossed /\ ~ Asked(e, m) /\ ~ Accepted(e, m) /\ ~ Accepted(m, e)
        /\ ~ CrossedAt(e, m) /\ ~ CrossedAt(m, e)
    BY <1>1, <1>2 DEF Linked, Crossed, Asked, Accepted, CrossedAt
  <1>7. QED
    BY <1>1, <1>4, <1>5, <1>6 DEF MadeInSteps, m

\* Data of an end with a link follow what is under way.
LEMMA DataKeepPhase ==
    ASSUME RelayedTypeOK, MadeInSteps, NEW e \in Pair, SendOver(e)
    PROVE  MadeInSteps'
  <1> DEFINE m == Mate(e)
  <1>1. /\ m \in Pair /\ Mate(m) = e /\ Pair = {e, m} /\ m # e
    BY DEF Pair, Mate
  <1>2. link' = link /\ link[e] = "open" /\ frames'[m] = frames[m] \o << "data" >> /\ frames'[e] = frames[e]
    BY FramesAfter DEF SendOver
  <1>3. /\ frames[m] # << "data" >> /\ frames[m] # << "accept", "data" >>
        /\ frames[m] # << "close", "accept", "data" >> /\ frames[m] # << "open", "close", "accept", "data" >>
    <2>1. /\ 1 \in DOMAIN << "data" >> /\ << "data" >>[1] = "data"
          /\ 2 \in DOMAIN << "accept", "data" >> /\ << "accept", "data" >>[2] = "data"
          /\ 3 \in DOMAIN << "close", "accept", "data" >> /\ << "close", "accept", "data" >>[3] = "data"
          /\ 4 \in DOMAIN << "open", "close", "accept", "data" >>
          /\ << "open", "close", "accept", "data" >>[4] = "data"
      OBVIOUS
    <2>2. \A i \in DOMAIN frames[m] : frames[m][i] # "data"
      BY DEF SendOver
    <2>3. QED
      BY <2>1, <2>2
  <1> HIDE DEF m
  <1>4. CASE Ending
    <2>1. frames[m] \in LateFrames => frames'[m] \in LateFrames
      BY <1>2, <1>3, AddedOnes DEF LateFrames
    <2>2. frames[m] \in Closing => frames'[m] \in Closing
      BY <1>2, <1>3, AddedOnes DEF Closing
    <2>3. QED
      BY <1>1, <1>2, <1>4, <2>1, <2>2 DEF Ending, MadeInSteps
  <1>5. CASE Linked
    <2>1. frames'[m] \in AtMostData
      BY <1>1, <1>2, <1>3, <1>5, AddedOnes DEF Linked, AtMostData
    <2>2. QED
      BY <1>1, <1>2, <1>5, <2>1 DEF Linked, MadeInSteps
  <1>6. CASE Accepted(m, e)
    <2>1. frames'[m] = << "accept", "data" >>
      BY <1>2, <1>3, <1>6, AddedOnes DEF Accepted
    <2>2. QED
      BY <1>1, <1>2, <1>6, <2>1 DEF Accepted, MadeInSteps
  <1>7. CASE CrossedAt(m, e)
    <2>1. frames'[m] = << "open", "close", "accept", "data" >>
      BY <1>2, <1>3, <1>7, AddedOnes DEF CrossedAt
    <2>2. QED
      BY <1>1, <1>2, <1>7, <2>1 DEF CrossedAt, MadeInSteps
  <1>8. ~ Crossed /\ ~ Asked(e, m) /\ ~ Asked(m, e) /\ ~ Accepted(e, m) /\ ~ CrossedAt(e, m)
    BY <1>1, <1>2 DEF Crossed, Asked, Accepted, CrossedAt
  <1>9. QED
    BY <1>1, <1>4, <1>5, <1>6, <1>7, <1>8 DEF MadeInSteps, m

\* A frame that is handled moves the making on, or ends a link.
LEMMA FrameKeepsPhase ==
    ASSUME RelayedTypeOK, MadeInSteps, NEW e \in Pair, HandleLinkFrame(e)
    PROVE  MadeInSteps'
  <1> DEFINE m == Mate(e)
             f == Head(frames[e])
  <1>1. /\ m \in Pair /\ Mate(m) = e /\ Pair = {e, m} /\ m # e /\ DOMAIN link = Pair
    BY DEF Pair, Mate, RelayedTypeOK
  <1>2. /\ frames[e] # << >>
        /\ f = "open" => OnOpen(e)
        /\ f \in {"accept", "data"} => OnAnswer(e)
        /\ f = "close" => OnClose(e)
    BY DEF HandleLinkFrame
  <1>3. OnOpen(e) => /\ link'[e] = "open" /\ link'[m] = link[m] /\ frames'[e] = Tail(frames[e])
                     /\ link[e] = "none" => frames'[m] = (frames[m] \o << >>) \o << "accept" >>
                     /\ link[e] = "connecting" => frames'[m] = (frames[m] \o << "close" >>) \o << "accept" >>
    BY <1>1, FramesAfter DEF OnOpen
  <1>4. OnAnswer(e) => /\ link'[e] = IF link[e] = "connecting" THEN "open" ELSE link[e]
                       /\ link'[m] = link[m] /\ frames'[e] = Tail(frames[e]) /\ frames'[m] = frames[m]
    BY <1>1, FramesAfter DEF OnAnswer
  <1>5. OnClose(e) => /\ link'[e] = "none" /\ link'[m] = link[m]
                      /\ frames'[e] = Tail(frames[e]) /\ frames'[m] = frames[m]
    BY <1>1, FramesAfter DEF OnClose
  <1> HIDE DEF m
  <1>6. CASE Ending
    <2>1. CASE link[e] = "none" /\ frames[e] \in LateFrames
      <3>1. f \in {"accept", "data"} /\ Tail(frames[e]) \in LateFrames
        BY <1>2, <2>1, ShortFrames DEF LateFrames
      <3>2. QED
        BY <1>1, <1>2, <1>4, <1>6, <2>1, <3>1 DEF Ending, MadeInSteps
    <2>2. CASE link[e] = "open" /\ frames[e] \in Closing
      <3>1. f = "close" /\ Tail(frames[e]) \in LateFrames
        BY <2>2, ShortFrames DEF Closing, LateFrames
      <3>2. QED
        BY <1>1, <1>2, <1>5, <1>6, <3>1 DEF Ending, MadeInSteps
    <2>3. QED
      BY <1>6, <2>1, <2>2 DEF Ending
  <1>7. CASE Linked
    <2>1. f = "data" /\ Tail(frames[e]) = << >> /\ link[e] = "open"
      BY <1>2, <1>7, ShortFrames DEF Linked, AtMostData
    <2>2. QED
      BY <1>1, <1>2, <1>4, <1>7, <2>1 DEF Linked, AtMostData, MadeInSteps
  <1>8. CASE Crossed
    <2>1. frames[e] = << "open" >> /\ frames[m] = << "open" >> /\ link[e] = "connecting" /\ link[m] = "connecting"
      BY <1>1, <1>8 DEF Crossed
    <2>2. f = "open" /\ Tail(frames[e]) = << >>
      BY <2>1, ShortFrames
    <2>3. frames'[m] = << "open", "close", "accept" >> /\ frames'[e] = << >>
      BY <1>2, <1>3, <2>1, <2>2, AddedOnes
    <2>4. CrossedAt(m, e)'
      BY <1>2, <1>3, <2>1, <2>2, <2>3 DEF CrossedAt
    <2>5. QED
      BY <1>1, <2>4 DEF MadeInSteps
  <1>9. CASE Asked(m, e)
    <2>1. f = "open" /\ Tail(frames[e]) = << >> /\ frames[m] = << >> /\ link[e] = "none" /\ link[m] = "connecting"
      BY <1>9, ShortFrames DEF Asked
    <2>2. frames'[m] = << "accept" >> /\ frames'[e] = << >>
      BY <1>2, <1>3, <2>1, AddedOnes
    <2>3. Accepted(m, e)'
      BY <1>2, <1>3, <2>1, <2>2 DEF Accepted
    <2>4. QED
      BY <1>1, <2>3 DEF MadeInSteps
  <1>10. CASE Accepted(e, m)
    <2>1. /\ f = "accept" /\ Tail(frames[e]) \in AtMostData /\ frames[m] = << >>
          /\ link[e] = "connecting" /\ link[m] = "open"
      BY <1>10, ShortFrames DEF Accepted, AtMostData
    <2>2. QED
      BY <1>1, <1>2, <1>4, <2>1 DEF Linked, AtMostData, MadeInSteps
  <1>11. CASE CrossedAt(e, m)
    <2>1. /\ f = "open" /\ Tail(frames[e]) \in Closing /\ frames[m] = << >>
          /\ link[e] = "connecting" /\ link[m] = "open"
      BY <1>11, ShortFrames DEF CrossedAt, Closing
    <2>2. frames'[m] = << "close", "accept" >>
      BY <1>2, <1>3, <2>1, AddedOnes
    <2>3. QED
      BY <1>1, <1>2, <1>3, <2>1, <2>2 DEF Ending, Closing, MadeInSteps
  <1>12. ~ Asked(e, m) /\ ~ Accepted(m, e) /\ ~ CrossedAt(m, e)
    BY <1>2 DEF Asked, Accepted, CrossedAt
  <1>13. QED
    BY <1>1, <1>6, <1>7, <1>8, <1>9, <1>10, <1>11, <1>12 DEF MadeInSteps, m

\* Whichever ends ask, a pair goes from phase to phase while nothing is lost.
LEMMA PairStep ==
    ASSUME PairInv, [RelayedNext]_relayedVars
    PROVE  PairInv'
  <1>1. RelayedTypeOK /\ RelayedTypeOK'
    BY RelayedTypeStep DEF PairInv
  <1>2. SUFFICES ASSUME woes' = 0  PROVE MadeInSteps'
    BY <1>1 DEF PairInv
  <1>3. woes \in Nat
    BY <1>1, RelayedLinksAssumption DEF RelayedTypeOK
  <1>4. ASSUME link' = link, frames' = frames, woes = 0
        PROVE  MadeInSteps'
    BY <1>4 DEF PairInv, MadeInSteps, Ending, Linked, Crossed, Asked, Accepted, CrossedAt
  <1>5. CASE UNCHANGED relayedVars
    BY <1>2, <1>4, <1>5 DEF relayedVars
  <1>6. ASSUME NEW e \in Pair, NoteLinkFailure(e)
        PROVE  MadeInSteps'
    BY <1>2, <1>4, <1>6 DEF NoteLinkFailure
  <1>7. ASSUME NEW e \in Pair, OpenRelayedLink(e) \/ SendOver(e) \/ HandleLinkFrame(e)
        PROVE  MadeInSteps'
    <2>1. woes = 0
      BY <1>2, <1>7 DEF OpenRelayedLink, SendOver, HandleLinkFrame
    <2>2. QED
      BY <1>1, <1>7, <2>1, AskKeepsPhase, DataKeepPhase, FrameKeepsPhase DEF PairInv
  <1>8. ASSUME NEW e \in Pair, AskAgain(e) \/ KeepaliveEnds(e)
        PROVE  FALSE
    <2>1. woes = 0 /\ Quiet /\ MadeInSteps
      BY <1>2, <1>8 DEF AskAgain, KeepaliveEnds, PairInv
    <2>2. link[e] = "connecting" \/ (link[e] = "open" /\ link[Mate(e)] = "none")
      BY <1>8 DEF AskAgain, KeepaliveEnds
    <2>3. QED
      BY <2>1, <2>2, QuietPhases, Mates
  <1>9. ASSUME NEW e \in Pair, CloseOver(e) \/ FrameLost(e)
        PROVE  FALSE
    <2>1. woes' = woes + 1
      BY <1>9 DEF CloseOver, FrameLost
    <2>2. QED
      BY <1>2, <1>3, <2>1
  <1>10. QED
    BY <1>5, <1>6, <1>7, <1>8, <1>9 DEF RelayedNext

\* Whichever ends of a pair ask for links through the relay, and although two asks that
\* cross end both links: when nothing was lost, no host has closed a link and no frame
\* that makes or ends one is under way, both ends are linked or neither is (client.js,
\* openRelayedLink and handleLinkFrame).
THEOREM PairAgrees == RelayedSpec => []LinkedAtBothOrNeither
  <1>1. RelayedInit => PairInv
    BY RelayedLinksAssumption
       DEF RelayedInit, PairInv, RelayedTypeOK, MadeInSteps, Ending, LateFrames, AfterFailures
  <1>2. PairInv /\ [RelayedNext]_relayedVars => PairInv'
    BY PairStep
  <1>3. PairInv => LinkedAtBothOrNeither
    BY QuietPhases DEF PairInv, LinkedAtBothOrNeither
  <1>4. QED
    BY <1>1, <1>2, <1>3, PTL DEF RelayedSpec

-----------------------------------------------------------------------------
(***************************************************************************)
(* The types of the parts of the demo page and of a data channel.          *)
(***************************************************************************)

\* The truth values of the page and its other types, apart.
PageTruths ==
    /\ released \in BOOLEAN /\ manual \in BOOLEAN /\ retry \in BOOLEAN /\ overwritten \in BOOLEAN
    /\ watching \in BOOLEAN /\ wakeful \in BOOLEAN /\ queued \in BOOLEAN /\ linked \in BOOLEAN

Wired ==
    /\ current \in Wires \cup {0}
    /\ wire \in [Wires -> {"closed", "connecting", "open", "closing"}]
    /\ heard \subseteq {w \in Wires : wire[w] # "closed"}

PageWords ==
    /\ status \in {"disconnected", "connecting", "connected"}
    /\ relayState \in {"up", "idle", "waking"}
    /\ releasable \in {"no", "since", "settled"}
    /\ decision \in {"none", "wanted", "unwanted"}
    /\ mishaps \in 0 .. MaxMishaps

LEMMA PageTypeIs ==
    PageTypeOK <=> PageTruths /\ Wired /\ PageWords /\ (queued => released)
  BY DEF PageTypeOK, PageTruths, Wired, PageWords

LEMMA MishapBounded ==
    ASSUME mishaps \in 0 .. MaxMishaps, Mishap
    PROVE  mishaps' \in 0 .. MaxMishaps
  BY DemoRelayAssumption DEF Mishap

\* connect() keeps the types of the sockets, from any state of them.
LEMMA ConnectType ==
    ASSUME NEW cur \in Wires \cup {0}, NEW hs,
           NEW ws \in [Wires -> {"closed", "connecting", "open", "closing"}],
           hs \subseteq {w \in Wires : ws[w] # "closed"},
           NEW stat \in {"disconnected", "connecting", "connected"},
           Connect(cur, ws, hs, stat)
    PROVE  /\ Wired' /\ status' \in {"disconnected", "connecting", "connected"}
           /\ manual' \in BOOLEAN /\ retry' \in BOOLEAN
  <1>1. manual' \in BOOLEAN /\ retry' \in BOOLEAN
    BY DEF Connect
  <1>2. CASE InService(cur, ws) \/ (cur = 0 /\ stat = "connecting")
    BY <1>1, <1>2 DEF Connect, Wired
  <1>3. CASE ~ (InService(cur, ws) \/ (cur = 0 /\ stat = "connecting"))
    <2>1. PICK w \in Wires :
              /\ current' = w /\ wire' = [ws EXCEPT ![w] = "connecting"]
              /\ heard' = hs \cup {w}
              /\ status' = IF released THEN stat ELSE "connecting"
      BY <1>3 DEF Connect
    <2>2. wire' \in [Wires -> {"closed", "connecting", "open", "closing"}]
      BY <2>1
    <2>3. heard' \subseteq {v \in Wires : wire'[v] # "closed"}
      BY <2>1
    <2>4. status' \in {"disconnected", "connecting", "connected"}
      BY <2>1
    <2>5. QED
      BY <1>1, <2>1, <2>2, <2>3, <2>4 DEF Wired
  <1>4. QED
    BY <1>2, <1>3

LEMMA ClosesWireType ==
    ASSUME Wired
    PROVE  /\ ClosesWire(current) \in [Wires -> {"closed", "connecting", "open", "closing"}]
           /\ heard \subseteq {w \in Wires : ClosesWire(current)[w] # "closed"}
  BY DEF Wired, ClosesWire, InService

LEMMA WakesType ==
    ASSUME PageTruths, Wired, PageWords, Wakes
    PROVE  /\ Wired' /\ wakeful' \in BOOLEAN /\ manual' \in BOOLEAN /\ retry' \in BOOLEAN
           /\ releasable' \in {"no", "since", "settled"}
           /\ relayState' \in {"up", "idle", "waking"}
           /\ status' \in {"disconnected", "connecting", "connected"}
  <1>1. /\ wakeful' \in BOOLEAN /\ releasable' \in {"no", "since", "settled"}
        /\ relayState' \in {"up", "idle", "waking"}
    BY DEF Wakes, PageWords
  <1>2. CASE released /\ relayState # "waking"
    <2>1. Connect(current, wire, heard, status)
      BY <1>2 DEF Wakes
    <2>2. QED
      BY <1>1, <2>1, ConnectType DEF Wired, PageWords
  <1>3. CASE ~ (released /\ relayState # "waking")
    BY <1>1, <1>3 DEF Wakes, Wired, PageTruths, PageWords, wires
  <1>4. QED
    BY <1>2, <1>3

\* Each step of the page's relay keeps its types.
LEMMA PageTypeStep ==
    ASSUME PageTypeOK, [PageNext]_pageVars
    PROVE  PageTypeOK'
  <1>0. /\ PageTruths /\ Wired /\ PageWords /\ (queued => released)
        /\ mishaps \in 0 .. MaxMishaps /\ (Mishap => mishaps' \in 0 .. MaxMishaps)
    BY PageTypeIs, MishapBounded DEF PageWords
  <1>1. SUFFICES PageTruths' /\ Wired' /\ PageWords' /\ (queued' => released')
    BY DEF PageTypeOK, PageTruths, Wired, PageWords
  <1>2. CASE UNCHANGED pageVars
    BY <1>0, <1>2 DEF pageVars, wires, timers, demand, PageTruths, Wired, PageWords
  <1>3. ASSUME NEW w \in Wires, Opens(w)
        PROVE  PageTruths' /\ Wired' /\ PageWords' /\ (queued' => released')
    <2>1. Wired'
      BY <1>0, <1>3 DEF Opens, Wired
    <2>2. PageTruths' /\ (queued' => released')
      BY <1>0, <1>3 DEF Opens, PageTruths, timers
    <2>3. PageWords'
      BY <1>0, <1>3 DEF Opens, PageWords
    <2>4. QED
      BY <2>1, <2>2, <2>3
  <1>4. ASSUME NEW w \in Wires, Ended(w)
        PROVE  PageTruths' /\ Wired' /\ PageWords' /\ (queued' => released')
    <2>1. Wired'
      BY <1>0, <1>4 DEF Ended, Wired
    <2>2. PageTruths' /\ (queued' => released')
      BY <1>0, <1>4 DEF Ended, IsLost, WasReleased, PageTruths, timers, demand
    <2>3. PageWords'
      BY <1>0, <1>4 DEF Ended, IsLost, WasReleased, PageWords, demand
    <2>4. QED
      BY <2>1, <2>2, <2>3
  <1>5. CASE NeedsRelay
    <2>1. Wakes
      BY <1>5 DEF NeedsRelay
    <2>2. QED
      BY <1>0, <1>5, <2>1, WakesType DEF NeedsRelay, PageTruths, PageWords
  <1>6. CASE Evaluate
    BY <1>0, <1>6 DEF Evaluate, wires, timers, PageTruths, Wired, PageWords
  <1>7. CASE Evaluated
    <2>1. /\ decision' = "none"
          /\ UNCHANGED << overwritten, watching, queued, linked, mishaps >>
      BY <1>7 DEF Evaluated
    <2>2. CASE Wakes /\ UNCHANGED released
      BY <1>0, <2>1, <2>2, WakesType DEF PageTruths, PageWords
    <2>3. CASE Releases /\ current # 0 /\ wire[current] = "open"
               /\ UNCHANGED << current, heard >> /\ UNCHANGED << wakeful, status, manual, retry >>
      <3>1. Wired'
        BY <1>0, <2>3 DEF Releases, Wired
      <3>2. QED
        BY <1>0, <2>1, <2>3, <3>1 DEF Releases, PageTruths, PageWords
    <2>4. CASE /\ releasable' \in {"no", "since"}
               /\ UNCHANGED << wires, wakeful, status, manual, retry, released, relayState >>
      BY <1>0, <2>1, <2>4 DEF wires, PageTruths, Wired, PageWords
    <2>5. QED
      BY <1>7, <2>2, <2>3, <2>4 DEF Evaluated, Decides
  <1>8. CASE DemandTimer
    <2>1. /\ UNCHANGED << wires, status, released, relayState, manual, timers, watching >>
          /\ UNCHANGED << decision, queued, linked, mishaps >>
          /\ wakeful' \in BOOLEAN /\ releasable' \in {"no", "since", "settled"}
      BY <1>0, <1>8 DEF DemandTimer, PageTruths, PageWords
    <2>2. QED
      BY <1>0, <2>1 DEF wires, timers, PageTruths, Wired, PageWords
  <1>9. CASE Disconnect
    <2>1. Wired'
      BY <1>0, <1>9, ClosesWireType DEF Disconnect, Wired
    <2>2. QED
      BY <1>0, <1>9, <2>1 DEF Disconnect, PageTruths, PageWords
  <1>10. CASE ConnectsAgain \/ RetryFires \/ OverwrittenFires \/ TabShows
    <2>1. /\ UNCHANGED << released, relayState, watching, demand, queued >>
          /\ linked' \in BOOLEAN /\ overwritten' \in BOOLEAN /\ mishaps' \in 0 .. MaxMishaps
      BY <1>0, <1>10 DEF ConnectsAgain, RetryFires, OverwrittenFires, TabShows, PageTruths
    <2>2. \/ Connect(current, wire, heard, status)
          \/ retry' = FALSE /\ UNCHANGED << manual, wires, status >>
          \/ UNCHANGED << manual, retry, wires, status >>
      BY <1>10 DEF ConnectsAgain, RetryFires, OverwrittenFires, TabShows
    <2>3. Wired' /\ status' \in {"disconnected", "connecting", "connected"}
          /\ manual' \in BOOLEAN /\ retry' \in BOOLEAN
      <3>1. CASE Connect(current, wire, heard, status)
        BY <1>0, <3>1, ConnectType DEF Wired, PageWords
      <3>2. CASE retry' \in BOOLEAN /\ UNCHANGED << manual, wires, status >>
        BY <1>0, <3>2 DEF wires, Wired, PageTruths, PageWords
      <3>3. QED
        BY <1>0, <2>2, <3>1, <3>2 DEF PageTruths
    <2>4. QED
      BY <1>0, <2>1, <2>3 DEF demand, PageTruths, PageWords
  <1>11. CASE Restores
    <2>1. /\ UNCHANGED << released, relayState, overwritten, watching, demand, queued >>
          /\ linked' \in BOOLEAN /\ mishaps' \in 0 .. MaxMishaps
          /\ Connect(0, ClosesWire(current), heard \ {current}, "disconnected")
      BY <1>0, <1>11 DEF Restores
    <2>2. heard \ {current} \subseteq {w \in Wires : ClosesWire(current)[w] # "closed"}
      BY <1>0, ClosesWireType
    <2>3. /\ Wired' /\ status' \in {"disconnected", "connecting", "connected"}
          /\ manual' \in BOOLEAN /\ retry' \in BOOLEAN
      BY <1>0, <2>1, <2>2, ClosesWireType, ConnectType
    <2>4. QED
      BY <1>0, <2>1, <2>3 DEF demand, PageTruths, PageWords
  <1>12. CASE MeshGrows
    BY <1>0, <1>12 DEF MeshGrows, wires, timers, demand, PageTruths, Wired, PageWords
  <1>13. CASE MeshShrinks
    <2>1. /\ UNCHANGED << wires, status, released, relayState, manual, timers, watching >>
          /\ UNCHANGED << demand, queued >> /\ linked' \in BOOLEAN
          /\ mishaps' \in 0 .. MaxMishaps
      BY <1>0, <1>13 DEF MeshShrinks
    <2>2. QED
      BY <1>0, <2>1 DEF wires, timers, demand, PageTruths, Wired, PageWords
  <1>14. QED
    BY <1>2, <1>3, <1>4, <1>5, <1>6, <1>7, <1>8, <1>9, <1>10, <1>11, <1>12, <1>13 DEF PageNext

LEMMA PageTypeInit == PageInit => PageTypeOK
  <1>1. SUFFICES ASSUME PageInit  PROVE PageTypeOK
    OBVIOUS
  <1>2. current \in Wires /\ heard = {current}
        /\ wire = [w \in Wires |-> IF w = current THEN "connecting" ELSE "closed"]
    BY <1>1, DemoRelayAssumption DEF PageInit
  <1>3. Wired
    BY <1>2 DEF Wired
  <1>4. PageWords
    BY <1>1, DemoRelayAssumption DEF PageInit, PageWords
  <1>5. PageTruths /\ (queued => released)
    BY <1>1 DEF PageInit, PageTruths
  <1>6. QED
    BY <1>3, <1>4, <1>5, PageTypeIs

-----------------------------------------------------------------------------
(* The mesh of the demo page. *)

PageRecord == [online : BOOLEAN, locked : BOOLEAN, known : BOOLEAN, failed : BOOLEAN, bye : BOOLEAN]

EntryRecord ==
    [phase : Phases, pc : DialNames \cup {0}, answer : DialNames \cup {0},
     dc : {"none", "connecting", "open", "closed", "given up"},
     requested : BOOLEAN, pending : DialNames \cup {0}]

AwaitRecord ==
    [by : Pages, what : {"offer", "answer", "candidates"}, pc : DialNames, own : BOOLEAN]

MailRecord ==
    [to : Pages, type : {"offer", "answer", "connect_reject", "bye"}, pc : DialNames \cup {0}]

\* An entry of a page: one that does not dial keeps no answer and dials nobody.
EntrySound(p, e) ==
    /\ e \in EntryRecord
    /\ e.dc = "open" => e.pc # 0
    /\ p = "b" => e.pending = 0 /\ ~ e.requested

\* Offers are of the page that dials, and answers of the other.
AwaitSound(w) ==
    /\ w \in AwaitRecord
    /\ w.what = "offer" => w.by = "a"
    /\ w.what = "answer" => w.by = "b"

MailSound(m) ==
    /\ m \in MailRecord
    /\ m.type = "offer" => m.to = "b" /\ m.pc # 0
    /\ m.type = "answer" => m.to = "a" /\ m.pc # 0

PagesSound == page \in [Pages -> PageRecord]
EntriesSound == entry \in [Pages -> EntryRecord] /\ \A p \in Pages : EntrySound(p, entry[p])
AwaitsSound == \A w \in awaits : AwaitSound(w)
AllMailSound == \A m \in mail : MailSound(m)
CountsSound == cut \in DialNames \cup {0} /\ slips \in 0 .. MaxSlips

MeshInv == PagesSound /\ EntriesSound /\ AwaitsSound /\ AllMailSound /\ CountsSound

LEMMA MeshTypeIs == MeshInv => MeshTypeOK
  <1>1. SUFFICES ASSUME MeshInv  PROVE MeshTypeOK
    OBVIOUS
  <1>2. /\ page \in [Pages -> [online : BOOLEAN, locked : BOOLEAN, known : BOOLEAN,
                               failed : BOOLEAN, bye : BOOLEAN]]
        /\ entry \in [Pages -> EntryRecord]
        /\ cut \in DialNames \cup {0} /\ slips \in 0 .. MaxSlips
    BY <1>1 DEF MeshInv, PagesSound, EntriesSound, CountsSound, PageRecord
  <1>3. awaits \subseteq AwaitRecord /\ mail \subseteq MailRecord
    BY <1>1 DEF MeshInv, AwaitsSound, AllMailSound, AwaitSound, MailSound
  <1>4. \A p \in Pages : entry[p].dc = "open" => entry[p].pc # 0
    BY <1>1 DEF MeshInv, EntriesSound, EntrySound
  <1>5. entry["b"].pending = 0 /\ ~ entry["b"].requested
    BY <1>1 DEF MeshInv, EntriesSound, EntrySound, Pages
  <1>6. QED
    BY <1>2, <1>3, <1>4, <1>5 DEF MeshTypeOK, EntryRecord, AwaitRecord, MailRecord

LEMMA BlankSound == Blank \in EntryRecord /\ \A p \in Pages : EntrySound(p, Blank)
  BY DEF Blank, EntryRecord, EntrySound, Phases

LEMMA ClosedSound ==
    ASSUME NEW p \in Pages, NEW e, EntrySound(p, e)
    PROVE  EntrySound(p, Closed(e))
  BY DEF Blank, Closed, EntryRecord, EntrySound, Phases

\* One entry is changed, to one that is sound.
LEMMA EntryChanged ==
    ASSUME EntriesSound, NEW p \in Pages, NEW e, EntrySound(p, e), entry' = [entry EXCEPT ![p] = e]
    PROVE  EntriesSound'
  <1>1. e \in EntryRecord
    BY DEF EntrySound
  <1>2. entry' \in [Pages -> EntryRecord]
    BY <1>1 DEF EntriesSound
  <1>3. \A q \in Pages : EntrySound(q, entry'[q])
    <2> TAKE q \in Pages
    <2>1. CASE q = p
      BY <2>1 DEF EntriesSound
    <2>2. CASE q # p
      BY <2>2 DEF EntriesSound
    <2>3. QED
      BY <2>1, <2>2
  <1>4. QED
    BY <1>2, <1>3 DEF EntriesSound

LEMMA OtherPages == \A p \in Pages : OtherPage(p) \in Pages /\ OtherPage("a") = "b" /\ OtherPage("b") = "a"
  BY DEF OtherPage, Pages

\* What a close and a slip leave is sound.
LEMMA ClosesSound ==
    ASSUME MeshInv, NEW p \in Pages
    PROVE  /\ entry' = [entry EXCEPT ![p] = Closed(@)] => EntriesSound'
           /\ entry' = [entry EXCEPT ![p] = Blank] => EntriesSound'
           /\ awaits' = awaits \ Dropped(p) => AwaitsSound'
           /\ \A m : mail' = mail \ {m} => AllMailSound'
           /\ Slip => slips' \in 0 .. MaxSlips
           /\ LongWait => slips' \in 0 .. MaxSlips
           /\ UNCHANGED page => PagesSound'
           /\ UNCHANGED entry => EntriesSound'
           /\ UNCHANGED awaits => AwaitsSound'
           /\ UNCHANGED mail => AllMailSound'
           /\ UNCHANGED slips => slips' \in 0 .. MaxSlips
           /\ UNCHANGED cut => cut' \in DialNames \cup {0}
  <1>1. EntrySound(p, entry[p])
    BY DEF MeshInv, EntriesSound
  <1>2. ASSUME entry' = [entry EXCEPT ![p] = Closed(@)]
        PROVE  EntriesSound'
    BY <1>1, <1>2, ClosedSound, EntryChanged DEF MeshInv
  <1>3. ASSUME entry' = [entry EXCEPT ![p] = Blank]
        PROVE  EntriesSound'
    BY <1>3, BlankSound, EntryChanged DEF MeshInv
  <1>4. (awaits' = awaits \ Dropped(p) \/ UNCHANGED awaits) => AwaitsSound'
    BY DEF MeshInv, AwaitsSound
  <1>5. ((\E m : mail' = mail \ {m}) \/ UNCHANGED mail) => AllMailSound'
    BY DEF MeshInv, AllMailSound
  <1>6. Slip \/ UNCHANGED slips => slips' \in 0 .. MaxSlips
    BY DemoMeshAssumption DEF Slip, MeshInv, CountsSound
  <1>7. LongWait => Slip \/ UNCHANGED slips
    BY DEF LongWait
  <1>8. /\ UNCHANGED page => PagesSound'
        /\ UNCHANGED entry => EntriesSound'
        /\ UNCHANGED cut => cut' \in DialNames \cup {0}
    BY DEF MeshInv, PagesSound, EntriesSound, CountsSound
  <1>9. QED
    BY <1>2, <1>3, <1>4, <1>5, <1>6, <1>7, <1>8

\* The fields of an entry that steps change.
LEMMA EntryFields ==
    ASSUME NEW p \in Pages, NEW e, EntrySound(p, e)
    PROVE  /\ \A f \in Phases : EntrySound(p, [e EXCEPT !.phase = f])
           /\ \A f \in Phases : EntrySound(p, [e EXCEPT !.phase = f, !.requested = FALSE])
           /\ \A how \in {"closed", "given up"} : EntrySound(p, [e EXCEPT !.dc = how])
           /\ e.pc # 0 => EntrySound(p, [e EXCEPT !.dc = "open", !.phase = "connected", !.requested = FALSE])
           /\ \A i \in DialNames : EntrySound(p, [e EXCEPT !.answer = i, !.pending = 0])
           /\ \A i \in DialNames :
                 EntrySound(p, [e EXCEPT !.answer = i, !.pending = 0, !.phase = "connected-pending"])
           /\ \A i \in DialNames : p = "a" => EntrySound(p, [e EXCEPT !.pending = i])
           /\ e.phase \in Phases
  <1>1. e \in EntryRecord /\ (e.dc = "open" => e.pc # 0) /\ (p = "b" => e.pending = 0 /\ ~ e.requested)
    BY DEF EntrySound
  <1>2. {"connected", "connected-pending"} \subseteq Phases
    BY DEF Phases
  <1>3. \A f \in Phases : EntrySound(p, [e EXCEPT !.phase = f])
    BY <1>1 DEF EntrySound, EntryRecord
  <1>4. \A f \in Phases : EntrySound(p, [e EXCEPT !.phase = f, !.requested = FALSE])
    BY <1>1 DEF EntrySound, EntryRecord
  <1>5. \A how \in {"closed", "given up"} : EntrySound(p, [e EXCEPT !.dc = how])
    BY <1>1 DEF EntrySound, EntryRecord
  <1>6. e.pc # 0 => EntrySound(p, [e EXCEPT !.dc = "open", !.phase = "connected", !.requested = FALSE])
    BY <1>1, <1>2 DEF EntrySound, EntryRecord
  <1>7. \A i \in DialNames : EntrySound(p, [e EXCEPT !.answer = i, !.pending = 0])
    BY <1>1 DEF EntrySound, EntryRecord
  <1>8. \A i \in DialNames :
           EntrySound(p, [e EXCEPT !.answer = i, !.pending = 0, !.phase = "connected-pending"])
    BY <1>1, <1>2 DEF EntrySound, EntryRecord
  <1>9. \A i \in DialNames : p = "a" => EntrySound(p, [e EXCEPT !.pending = i])
    BY <1>1 DEF EntrySound, EntryRecord
  <1>10. e.phase \in Phases
    BY <1>1 DEF EntryRecord
  <1>11. QED
    BY <1>3, <1>4, <1>5, <1>6, <1>7, <1>8, <1>9, <1>10

\* Dialling: only the dialler does.
LEMMA DialSound ==
    ASSUME MeshInv, NEW e, EntrySound(Dialer, e), Dial(Dialer, e)
    PROVE  EntriesSound' /\ AwaitsSound' /\ cut' \in DialNames \cup {0}
  <1>1. PICK i \in DialNames :
           /\ DialWith(Dialer, e, i)
           /\ awaits' = awaits \cup {[by |-> Dialer, what |-> "offer", pc |-> i, own |-> TRUE]}
           /\ cut' = IF cut = i THEN 0 ELSE cut
    BY DEF Dial
  <1>2. PICK x : x = [phase |-> "ready", pc |-> i, answer |-> e.pending,
                      dc |-> "connecting", requested |-> e.pc = 0, pending |-> 0]
    OBVIOUS
  <1>3. EntrySound(Dialer, x)
    <2>1. e.pending \in DialNames \cup {0} /\ (e.pc = 0) \in BOOLEAN /\ "ready" \in Phases
      BY DEF EntrySound, EntryRecord, Phases
    <2>2. QED
      BY <1>2, <2>1 DEF EntrySound, EntryRecord, Dialer
  <1>4. EntriesSound'
    BY <1>1, <1>2, <1>3, EntryChanged DEF DialWith, MeshInv, Dialer, Pages
  <1>5. AwaitSound([by |-> Dialer, what |-> "offer", pc |-> i, own |-> TRUE])
    BY DEF AwaitSound, AwaitRecord, Dialer, Pages
  <1>6. AwaitsSound'
    BY <1>1, <1>5 DEF MeshInv, AwaitsSound
  <1>7. QED
    BY <1>1, <1>4, <1>6 DEF MeshInv, CountsSound

\* Frames that are sent are sound.
LEMMA MailsSound ==
    ASSUME MeshInv, NEW p \in Pages, NEW fs, \A m \in fs : MailSound(m), Mails(p, fs)
    PROVE  AllMailSound'
  BY DEF Mails, MeshInv, AllMailSound

LEMMA ByesSound ==
    ASSUME NEW p \in Pages
    PROVE  \A m \in Byes(p) : MailSound(m)
  BY OtherPages DEF Byes, MailSound, MailRecord

\* The loop, the list and the start of a page dial, or leave everything.
LEMMA AutoConnectsSound ==
    ASSUME MeshInv, NEW p \in Pages, NEW now, AutoConnects(p, now)
    PROVE  EntriesSound' /\ AwaitsSound' /\ CountsSound'
  <1>1. EntrySound(p, entry[p])
    BY DEF MeshInv, EntriesSound
  <1>2. CASE MayDial(p, now)
    <2>1. p = Dialer /\ Dial(p, entry[p]) /\ (Slip \/ UNCHANGED slips)
      BY <1>2 DEF AutoConnects, MayDial
    <2>2. EntriesSound' /\ AwaitsSound' /\ cut' \in DialNames \cup {0}
      BY <1>1, <2>1, DialSound
    <2>3. slips' \in 0 .. MaxSlips
      BY <2>1, ClosesSound
    <2>4. QED
      BY <2>2, <2>3 DEF CountsSound
  <1>3. CASE ~ MayDial(p, now)
    BY <1>3, ClosesSound DEF AutoConnects, CountsSound
  <1>4. QED
    BY <1>2, <1>3

\* What a page knows is of its type.
LEMMA PageFlags ==
    ASSUME MeshInv, NEW p \in Pages, NEW v \in BOOLEAN
    PROVE  /\ page' = [page EXCEPT ![p].known = v] => PagesSound'
           /\ page' = [page EXCEPT ![p].failed = v] => PagesSound'
           /\ page' = [page EXCEPT ![p].bye = v] => PagesSound'
           /\ page' = [page EXCEPT ![p].online = v] => PagesSound'
           /\ KnownBy(p) => PagesSound'
  <1>1. page \in [Pages -> PageRecord]
    BY DEF MeshInv, PagesSound
  <1>2. page' = [page EXCEPT ![p].known = v] => PagesSound'
    BY <1>1 DEF PagesSound, PageRecord
  <1>3. page' = [page EXCEPT ![p].failed = v] => PagesSound'
    BY <1>1 DEF PagesSound, PageRecord
  <1>4. page' = [page EXCEPT ![p].bye = v] => PagesSound'
    BY <1>1 DEF PagesSound, PageRecord
  <1>5. page' = [page EXCEPT ![p].online = v] => PagesSound'
    BY <1>1 DEF PagesSound, PageRecord
  <1>6. KnownBy(p) => PagesSound'
    BY <1>1 DEF KnownBy, PagesSound, PageRecord
  <1>7. QED
    BY <1>2, <1>3, <1>4, <1>5, <1>6

\* A frame of the other page is taken, and perhaps answered.
LEMMA ReceiveSound ==
    ASSUME MeshInv, NEW m \in mail, ReceiveSignal(m)
    PROVE  MeshInv'
  <1>1. MailSound(m) /\ m.to \in Pages
    BY DEF MeshInv, AllMailSound, MailSound, MailRecord
  <1>2. PICK p \in Pages : p = m.to
    BY <1>1
  <1>3. EntrySound(p, entry[p]) /\ DOMAIN entry = Pages
    BY DEF MeshInv, EntriesSound
  <1>4. ASSUME mail' = mail \ {m}, UNCHANGED << entry, awaits, cut, slips >>, KnownBy(p)
        PROVE  MeshInv'
    BY <1>4, ClosesSound, PageFlags DEF MeshInv, CountsSound
  <1>5. CASE ReceiveOffer(m)
    <2>1. CASE Takes(m) /\ Ignores(p)
      BY <1>4, <2>1 DEF Takes, Ignores
    <2>2. CASE RefusesOffer(m)
      <3>1. PICK r : r = [to |-> OtherPage(p), type |-> "connect_reject", pc |-> 0]
        OBVIOUS
      <3>2. MailSound(r)
        BY <3>1, OtherPages DEF MailSound, MailRecord
      <3>3. mail' = (mail \ {m}) \cup {r} /\ Slip /\ KnownBy(p) /\ UNCHANGED << entry, awaits, cut >>
        BY <1>2, <2>2, <3>1 DEF RefusesOffer
      <3>4. AllMailSound'
        BY <3>2, <3>3 DEF MeshInv, AllMailSound
      <3>5. QED
        BY <3>3, <3>4, ClosesSound, PageFlags DEF MeshInv, CountsSound
    <2>3. CASE Takes(m) /\ TakeOffer(p, m.pc)
      <3>1. p = "b" /\ m.pc \in DialNames
        BY <1>1, <1>2, <1>5 DEF ReceiveOffer, MailSound, MailRecord
      <3>2. PICK x : x = [Blank EXCEPT !.phase = "answering", !.pc = m.pc, !.answer = m.pc]
        OBVIOUS
      <3>3. EntrySound(p, x)
        BY <3>1, <3>2 DEF Blank, EntrySound, EntryRecord, Phases
      <3>4. EntriesSound'
        BY <2>3, <3>2, <3>3, EntryChanged DEF TakeOffer, MeshInv
      <3>5. AwaitSound([by |-> p, what |-> "answer", pc |-> m.pc, own |-> TRUE])
        BY <3>1 DEF AwaitSound, AwaitRecord
      <3>6. AwaitsSound'
        BY <2>3, <3>5 DEF TakeOffer, MeshInv, AwaitsSound
      <3>7. mail' = mail \ {m} /\ KnownBy(p) /\ UNCHANGED << cut, slips >>
        BY <2>3 DEF Takes, TakeOffer
      <3>8. QED
        BY <3>4, <3>6, <3>7, ClosesSound, PageFlags DEF MeshInv, CountsSound
    <2>4. QED
      BY <1>2, <1>5, <2>1, <2>2, <2>3 DEF ReceiveOffer
  <1>6. CASE ReceiveAnswer(m)
    <2>1. mail' = mail \ {m} /\ p = "a" /\ m.pc \in DialNames
      BY <1>1, <1>2, <1>6 DEF ReceiveAnswer, Takes, MailSound, MailRecord
    <2>2. CASE Ignores(p)
      BY <1>4, <2>1, <2>2 DEF Ignores
    <2>3. CASE TakeAnswer(p, m.pc)
      <3>1. KnownBy(p) /\ UNCHANGED << cut, slips >>
        BY <2>3 DEF TakeAnswer
      <3>2. EntriesSound' /\ AwaitsSound'
        <4>1. CASE /\ entry' = [entry EXCEPT ![p].phase = "connected", ![p].requested = FALSE]
                   /\ UNCHANGED awaits
          <5>1. PICK x : x = [entry[p] EXCEPT !.phase = "connected", !.requested = FALSE]
            OBVIOUS
          <5>2. entry' = [entry EXCEPT ![p] = x]
            BY <1>3, <4>1, <5>1
          <5>3. EntrySound(p, x)
            BY <1>3, <5>1, EntryFields DEF Phases
          <5>4. EntriesSound'
            BY <5>2, <5>3, EntryChanged DEF MeshInv
          <5>5. QED
            BY <4>1, <5>4, ClosesSound
        <4>2. CASE KeepsAnswer(p, m.pc) /\ UNCHANGED awaits
          <5>1. PICK x : x = [entry[p] EXCEPT !.pending = m.pc]
            OBVIOUS
          <5>2. entry' = [entry EXCEPT ![p] = x]
            BY <1>3, <4>2, <5>1 DEF KeepsAnswer
          <5>3. EntrySound(p, x)
            BY <1>3, <2>1, <5>1, EntryFields
          <5>4. EntriesSound'
            BY <5>2, <5>3, EntryChanged DEF MeshInv
          <5>5. QED
            BY <4>2, <5>4, ClosesSound
        <4>3. CASE AppliesAnswer(p, m.pc) /\ entry[p].pc # 0
          <5>1. CASE /\ entry' = [entry EXCEPT ![p].answer = m.pc, ![p].pending = 0, ![p].phase = "connected-pending"]
                     /\ UNCHANGED awaits
            <6>1. PICK x : x = [entry[p] EXCEPT !.answer = m.pc, !.pending = 0,
                                                !.phase = "connected-pending"]
              OBVIOUS
            <6>2. entry' = [entry EXCEPT ![p] = x]
              BY <1>3, <5>1, <6>1
            <6>3. EntrySound(p, x)
              BY <1>3, <2>1, <6>1, EntryFields
            <6>4. EntriesSound'
              BY <6>2, <6>3, EntryChanged DEF MeshInv
            <6>5. QED
              BY <5>1, <6>4, ClosesSound
          <5>2. CASE /\ entry' = [entry EXCEPT ![p].answer = m.pc, ![p].pending = 0]
                     /\ awaits' = awaits \cup {[by |-> p, what |-> "candidates", pc |-> entry[p].pc, own |-> TRUE]}
            <6>1. EntriesSound'
              <7>1. PICK x : x = [entry[p] EXCEPT !.answer = m.pc, !.pending = 0]
                OBVIOUS
              <7>2. entry' = [entry EXCEPT ![p] = x]
                BY <1>3, <5>2, <7>1
              <7>3. EntrySound(p, x)
                BY <1>3, <2>1, <7>1, EntryFields
              <7>4. QED
                BY <7>2, <7>3, EntryChanged DEF MeshInv
            <6>2. entry[p].pc \in DialNames
              BY <1>3, <4>3 DEF EntrySound, EntryRecord
            <6>3. AwaitSound([by |-> p, what |-> "candidates", pc |-> entry[p].pc, own |-> TRUE])
              BY <6>2 DEF AwaitSound, AwaitRecord
            <6>4. AwaitsSound'
              BY <5>2, <6>3 DEF MeshInv, AwaitsSound
            <6>5. QED
              BY <6>1, <6>4
          <5>3. QED
            BY <4>3, <5>1, <5>2 DEF AppliesAnswer
        <4>4. CASE UNCHANGED << entry, awaits >>
          BY <4>4, ClosesSound
        <4>5. QED
          BY <2>3, <4>1, <4>2, <4>3, <4>4 DEF TakeAnswer
      <3>3. QED
        BY <2>1, <3>1, <3>2, ClosesSound, PageFlags DEF MeshInv, CountsSound
    <2>4. QED
      BY <1>2, <1>6, <2>2, <2>3 DEF ReceiveAnswer
  <1>7. CASE ReceiveReject(m) \/ ReceiveBye(m)
    <2>1. /\ mail' = mail \ {m} /\ entry' = [entry EXCEPT ![p] = Closed(@)]
          /\ awaits' = awaits \ Dropped(p) /\ UNCHANGED << cut, slips >>
      BY <1>2, <1>7 DEF ReceiveReject, ReceiveBye, Takes
    <2>2. \/ page' = [page EXCEPT ![p].known = TRUE, ![p].failed = TRUE]
          \/ page' = [page EXCEPT ![p].known = TRUE, ![p].bye = TRUE]
      BY <1>2, <1>7 DEF ReceiveReject, ReceiveBye
    <2>3. PagesSound'
      <3>1. page[p] \in PageRecord /\ page \in [Pages -> PageRecord]
        BY DEF MeshInv, PagesSound
      <3>2. /\ [page[p] EXCEPT !.known = TRUE, !.failed = TRUE] \in PageRecord
            /\ [page[p] EXCEPT !.known = TRUE, !.bye = TRUE] \in PageRecord
        BY <3>1 DEF PageRecord
      <3>3. \/ page' = [page EXCEPT ![p] = [page[p] EXCEPT !.known = TRUE, !.failed = TRUE]]
            \/ page' = [page EXCEPT ![p] = [page[p] EXCEPT !.known = TRUE, !.bye = TRUE]]
        BY <2>2, <3>1
      <3>4. QED
        BY <3>1, <3>2, <3>3 DEF PagesSound
    <2>4. QED
      BY <2>1, <2>3, ClosesSound DEF MeshInv, CountsSound
  <1>8. QED
    BY <1>5, <1>6, <1>7 DEF ReceiveSignal

\* The candidates of an offer or an answer have been gathered, or those of a page added.
LEMMA AwaitedSound ==
    ASSUME MeshInv, NEW w \in awaits, OfferReady(w) \/ AnswerReady(w) \/ CandidatesAdded(w)
    PROVE  MeshInv'
  <1>1. AwaitSound(w) /\ w.by \in Pages /\ w.pc \in DialNames
    BY DEF MeshInv, AwaitsSound, AwaitSound, AwaitRecord
  <1>2. PICK p \in Pages : p = w.by
    BY <1>1
  <1>3. EntrySound(p, entry[p]) /\ DOMAIN entry = Pages /\ entry[p].phase \in Phases
    BY EntryFields DEF MeshInv, EntriesSound
  <1>4. AwaitsSound'
    BY DEF OfferReady, AnswerReady, CandidatesAdded, MeshInv, AwaitsSound
  <1>5. PagesSound' /\ CountsSound'
    BY ClosesSound, <1>2 DEF OfferReady, AnswerReady, CandidatesAdded, CountsSound
  <1>6. CASE OfferReady(w)
    <2>1. PICK f \in Phases : f = IF w.own THEN "offered" ELSE entry[p].phase
      BY <1>3 DEF Phases
    <2>2. PICK x : x = [entry[p] EXCEPT !.phase = f, !.requested = FALSE]
      OBVIOUS
    <2>3. entry' = [entry EXCEPT ![p] = x]
      BY <1>2, <1>3, <1>6, <2>1, <2>2 DEF OfferReady
    <2>4. EntrySound(p, x)
      BY <1>3, <2>2, EntryFields
    <2>5. EntriesSound'
      BY <2>3, <2>4, EntryChanged DEF MeshInv
    <2>6. p = "a"
      BY <1>1, <1>2, <1>6 DEF OfferReady, AwaitSound
    <2>7. MailSound([to |-> OtherPage(p), type |-> "offer", pc |-> w.pc])
      BY <1>1, <2>6, OtherPages, DemoMeshAssumption DEF MailSound, MailRecord
    <2>8. AllMailSound'
      BY <1>2, <1>6, <2>7, MailsSound DEF OfferReady
    <2>9. QED
      BY <1>4, <1>5, <2>5, <2>8 DEF MeshInv
  <1>7. CASE AnswerReady(w)
    <2>1. PICK f \in Phases : f = IF w.own THEN "answered" ELSE entry[p].phase
      BY <1>3 DEF Phases
    <2>2. PICK x : x = [entry[p] EXCEPT !.phase = f]
      OBVIOUS
    <2>3. entry' = [entry EXCEPT ![p] = x]
      BY <1>2, <1>3, <1>7, <2>1, <2>2 DEF AnswerReady
    <2>4. EntrySound(p, x)
      BY <1>3, <2>2, EntryFields
    <2>5. EntriesSound'
      BY <2>3, <2>4, EntryChanged DEF MeshInv
    <2>6. p = "b"
      BY <1>1, <1>2, <1>7 DEF AnswerReady, AwaitSound
    <2>7. MailSound([to |-> OtherPage(p), type |-> "answer", pc |-> w.pc])
      BY <1>1, <2>6, OtherPages, DemoMeshAssumption DEF MailSound, MailRecord
    <2>8. AllMailSound'
      BY <1>2, <1>7, <2>7, MailsSound DEF AnswerReady
    <2>9. QED
      BY <1>4, <1>5, <2>5, <2>8 DEF MeshInv
  <1>8. CASE CandidatesAdded(w)
    <2>1. PICK x : x = [entry[p] EXCEPT !.phase = "connected-pending"]
      OBVIOUS
    <2>2. entry' = [entry EXCEPT ![p] = x]
      BY <1>2, <1>3, <1>8, <2>1 DEF CandidatesAdded
    <2>3. EntrySound(p, x)
      BY <1>3, <2>1, EntryFields DEF Phases
    <2>4. EntriesSound'
      BY <2>2, <2>3, EntryChanged DEF MeshInv
    <2>5. AllMailSound'
      BY <1>2, <1>8, ClosesSound DEF CandidatesAdded
    <2>6. QED
      BY <1>4, <1>5, <2>4, <2>5 DEF MeshInv
  <1>9. QED
    BY <1>6, <1>7, <1>8

\* Steps of a page's connection, its timers and its relay.
LEMMA PageOfMeshSound ==
    ASSUME MeshInv, NEW p \in Pages,
           \/ ChannelOpens(p) \/ ConnectionFails(p) \/ ChannelEnds(p)
           \/ CooldownOver(p) \/ AutoLoop(p) \/ PeerList(p) \/ PeerListWithout(p)
           \/ RelayDrops(p) \/ Resumes(p) \/ TabVisible(p) \/ BeginRtc(p) \/ Hangup(p) \/ ResetRtc(p)
    PROVE  MeshInv'
  <1>1. /\ EntrySound(p, entry[p]) /\ DOMAIN entry = Pages
        /\ page \in [Pages -> PageRecord] /\ page[p] \in PageRecord
    BY DEF MeshInv, EntriesSound, PagesSound
  <1>2. CASE ChannelOpens(p)
    <2>1. entry[p].pc # 0
      <3>1. entry["a"].pc # 0 /\ entry["b"].pc # 0
        BY <1>2 DEF ChannelOpens, Matched
      <3>2. QED
        BY <3>1 DEF Pages
    <2>2. PICK x : x = [entry[p] EXCEPT !.dc = "open", !.phase = "connected", !.requested = FALSE]
      OBVIOUS
    <2>3. entry' = [entry EXCEPT ![p] = x]
      BY <1>1, <1>2, <2>2 DEF ChannelOpens
    <2>4. EntrySound(p, x)
      BY <1>1, <2>1, <2>2, EntryFields
    <2>5. EntriesSound'
      BY <2>3, <2>4, EntryChanged DEF MeshInv
    <2>6. QED
      BY <1>2, <2>5, ClosesSound DEF ChannelOpens, MeshInv, CountsSound
  <1>3. ASSUME Fails(p), UNCHANGED << mail, cut >>, LongWait \/ UNCHANGED slips
        PROVE  MeshInv'
    BY <1>3, ClosesSound, PageFlags DEF Fails, MeshInv, CountsSound
  <1>4. CASE ConnectionFails(p)
    BY <1>3, <1>4 DEF ConnectionFails
  <1>5. CASE ChannelEnds(p)
    <2>1. CASE Fails(p)
      BY <1>3, <1>5, <2>1 DEF ChannelEnds
    <2>2. CASE /\ \E how \in {"closed", "given up"} : entry' = [entry EXCEPT ![p].dc = how]
               /\ UNCHANGED << page, awaits, mail, cut, slips >>
      <3>1. PICK how \in {"closed", "given up"} : entry' = [entry EXCEPT ![p].dc = how]
        BY <2>2
      <3>2. PICK x : x = [entry[p] EXCEPT !.dc = how]
        OBVIOUS
      <3>3. entry' = [entry EXCEPT ![p] = x]
        BY <1>1, <3>1, <3>2
      <3>4. EntrySound(p, x)
        BY <1>1, <3>2, EntryFields
      <3>5. EntriesSound'
        BY <3>3, <3>4, EntryChanged DEF MeshInv
      <3>6. QED
        BY <2>2, <3>5, ClosesSound DEF MeshInv, CountsSound
    <2>3. QED
      BY <1>5, <2>1, <2>2 DEF ChannelEnds
  <1>6. CASE CooldownOver(p)
    <2>1. PagesSound'
      BY <1>6, PageFlags DEF CooldownOver
    <2>2. QED
      BY <1>6, <2>1, ClosesSound DEF CooldownOver, MeshInv, CountsSound
  <1>7. CASE AutoLoop(p)
    <2>1. AllMailSound'
      BY <1>7, ClosesSound DEF AutoLoop
    <2>2. CASE /\ page' = [page EXCEPT ![p].failed = TRUE]
               /\ entry' = [entry EXCEPT ![p].phase = "idle", ![p].requested = FALSE]
               /\ UNCHANGED << awaits, cut >> /\ LongWait
      <3>1. PICK x : x = [entry[p] EXCEPT !.phase = "idle", !.requested = FALSE]
        OBVIOUS
      <3>2. entry' = [entry EXCEPT ![p] = x]
        BY <1>1, <2>2, <3>1
      <3>3. EntrySound(p, x)
        BY <1>1, <3>1, EntryFields DEF Phases
      <3>4. EntriesSound'
        BY <3>2, <3>3, EntryChanged DEF MeshInv
      <3>5. QED
        BY <2>1, <2>2, <3>4, ClosesSound, PageFlags DEF MeshInv, CountsSound
    <2>3. CASE AutoConnects(p, page[p]) /\ UNCHANGED page
      BY <2>1, <2>3, AutoConnectsSound, ClosesSound DEF MeshInv
    <2>4. CASE /\ LongWait /\ UNCHANGED page
               /\ \/ MayDial(p, page[p]) /\ Dial(p, Blank)
                  \/ entry' = [entry EXCEPT ![p] = Blank] /\ UNCHANGED << awaits, cut >>
      <3>1. EntriesSound' /\ AwaitsSound' /\ cut' \in DialNames \cup {0}
        <4>1. CASE MayDial(p, page[p]) /\ Dial(p, Blank)
          BY <4>1, BlankSound, DialSound DEF MayDial
        <4>2. CASE entry' = [entry EXCEPT ![p] = Blank] /\ UNCHANGED << awaits, cut >>
          BY <4>2, ClosesSound
        <4>3. QED
          BY <2>4, <4>1, <4>2
      <3>2. QED
        BY <2>1, <2>4, <3>1, ClosesSound DEF MeshInv, CountsSound
    <2>5. QED
      BY <1>7, <2>2, <2>3, <2>4 DEF AutoLoop
  <1>8. CASE PeerList(p)
    BY <1>8, AutoConnectsSound, ClosesSound, PageFlags DEF PeerList, MeshInv
  <1>9. CASE PeerListWithout(p)
    <2>1. PagesSound' /\ UNCHANGED << awaits, mail, cut >> /\ slips' \in 0 .. MaxSlips
      BY <1>9, PageFlags, ClosesSound DEF PeerListWithout
    <2>2. EntriesSound'
      BY <1>9, ClosesSound DEF PeerListWithout
    <2>3. QED
      BY <2>1, <2>2, ClosesSound DEF MeshInv, CountsSound
  <1>10. CASE RelayDrops(p)
    BY <1>10, ClosesSound, PageFlags DEF RelayDrops, MeshInv, CountsSound
  <1>11. CASE Resumes(p)
    <2>1. PagesSound'
      <3>1. [page[p] EXCEPT !.online = FALSE, !.failed = FALSE, !.bye = FALSE, !.known = FALSE] \in PageRecord
        BY <1>1 DEF PageRecord
      <3>2. page' = [page EXCEPT ![p] = [page[p] EXCEPT !.online = FALSE, !.failed = FALSE,
                                                       !.bye = FALSE, !.known = FALSE]]
        BY <1>1, <1>11 DEF Resumes
      <3>3. QED
        BY <1>1, <3>1, <3>2 DEF PagesSound
    <2>2. AwaitsSound'
      <3>1. \A w \in awaits : AwaitSound(w) => AwaitSound([w EXCEPT !.own = FALSE])
        BY DEF AwaitSound, AwaitRecord
      <3>2. QED
        BY <1>11, <3>1 DEF Resumes, Orphaned, MeshInv, AwaitsSound
    <2>3. QED
      BY <1>11, <2>1, <2>2, ClosesSound DEF Resumes, MeshInv, CountsSound
  <1>12. CASE TabVisible(p)
    <2>1. PagesSound'
      <3>1. [page[p] EXCEPT !.failed = FALSE, !.bye = FALSE] \in PageRecord
        BY <1>1 DEF PageRecord
      <3>2. page' = [page EXCEPT ![p] = [page[p] EXCEPT !.failed = FALSE, !.bye = FALSE]]
        BY <1>1, <1>12 DEF TabVisible
      <3>3. QED
        BY <1>1, <3>1, <3>2 DEF PagesSound
    <2>2. QED
      BY <1>12, <2>1, ClosesSound DEF TabVisible, MeshInv, CountsSound
  <1>13. CASE BeginRtc(p)
    <2>1. PagesSound'
      <3>1. [page[p] EXCEPT !.online = TRUE, !.locked = FALSE] \in PageRecord
        BY <1>1 DEF PageRecord
      <3>2. page' = [page EXCEPT ![p] = [page[p] EXCEPT !.online = TRUE, !.locked = FALSE]]
        BY <1>1, <1>13 DEF BeginRtc
      <3>3. QED
        BY <1>1, <3>1, <3>2 DEF PagesSound
    <2>2. EntriesSound' /\ AwaitsSound' /\ CountsSound'
      BY <1>13, AutoConnectsSound, ClosesSound DEF BeginRtc, CountsSound
    <2>3. QED
      BY <1>13, <2>1, <2>2, ClosesSound DEF BeginRtc, MeshInv
  <1>14. CASE Hangup(p)
    <2>1. PagesSound'
      <3>1. PICK v \in BOOLEAN : v = (page[p].bye \/ Byes(p) # {})
        OBVIOUS
      <3>2. [page[p] EXCEPT !.locked = TRUE, !.bye = v] \in PageRecord
        BY <1>1 DEF PageRecord
      <3>3. page' = [page EXCEPT ![p] = [page[p] EXCEPT !.locked = TRUE, !.bye = v]]
        BY <1>1, <1>14, <3>1 DEF Hangup
      <3>4. QED
        BY <1>1, <3>2, <3>3 DEF PagesSound
    <2>2. AllMailSound'
      BY <1>14, MailsSound, ByesSound DEF Hangup
    <2>3. QED
      BY <1>14, <2>1, <2>2, ClosesSound DEF Hangup, MeshInv, CountsSound
  <1>15. CASE ResetRtc(p)
    <2>1. PagesSound'
      <3>1. [page[p] EXCEPT !.locked = FALSE, !.failed = FALSE, !.bye = FALSE] \in PageRecord
        BY <1>1 DEF PageRecord
      <3>2. page' = [page EXCEPT ![p] = [page[p] EXCEPT !.locked = FALSE, !.failed = FALSE, !.bye = FALSE]]
        BY <1>1, <1>15 DEF ResetRtc
      <3>3. QED
        BY <1>1, <3>1, <3>2 DEF PagesSound
    <2>2. AllMailSound'
      BY <1>15, MailsSound, ByesSound DEF ResetRtc
    <2>3. QED
      BY <1>15, <2>1, <2>2, ClosesSound DEF ResetRtc, MeshInv, CountsSound
  <1>16. QED
    BY <1>2, <1>4, <1>5, <1>6, <1>7, <1>8, <1>9, <1>10, <1>11, <1>12, <1>13, <1>14, <1>15

LEMMA MeshStep ==
    ASSUME MeshInv, [MeshNext]_meshVars
    PROVE  MeshInv'
  <1>1. CASE UNCHANGED meshVars
    <2>1. "a" \in Pages
      BY DEF Pages
    <2>2. QED
      BY <1>1, <2>1, ClosesSound DEF meshVars, MeshInv, CountsSound
  <1>2. ASSUME NEW m \in mail, Lose(m)
        PROVE  MeshInv'
    <2>1. "a" \in Pages
      BY DEF Pages
    <2>2. QED
      BY <1>2, <2>1, ClosesSound DEF Lose, Takes, MeshInv, CountsSound
  <1>3. CASE Cut
    <2>1. "a" \in Pages /\ entry["a"].pc \in DialNames \cup {0}
      BY DEF Pages, MeshInv, EntriesSound, EntryRecord
    <2>2. cut' \in DialNames \cup {0}
      BY <1>3, <2>1 DEF Cut, Dialer
    <2>3. QED
      BY <1>3, <2>1, <2>2, ClosesSound DEF Cut, MeshInv, CountsSound
  <1>4. QED
    BY <1>1, <1>2, <1>3, ReceiveSound, AwaitedSound, PageOfMeshSound DEF MeshNext

LEMMA MeshTypeInit == MeshInit => MeshInv
  BY BlankSound, DemoMeshAssumption
     DEF MeshInit, MeshInv, PagesSound, EntriesSound, AwaitsSound, AllMailSound, CountsSound, PageRecord

\* No frame of a negotiation displaces a channel that works (public/app.js, onOffer and
\* onAnswer): late, of an earlier dial, or of one that was started over.
THEOREM WorkingChannelIsSpared == MeshSpec => ChannelIsSpared
  <1>1. ASSUME MeshInv, MeshNext, NEW m \in mail, m.type \in {"offer", "answer"}, Matched,
               entry[m.to].dc = "open", mail' = mail \ {m}
        PROVE  entry'[m.to].dc = "open" /\ entry'[m.to].pc = entry[m.to].pc
    <2>1. MailSound(m) /\ m.to \in Pages
      BY <1>1 DEF MeshInv, AllMailSound, MailSound, MailRecord
    <2>2. PICK p \in Pages : p = m.to
      BY <2>1
    <2>3. DOMAIN entry = Pages /\ entry[p] \in EntryRecord
      BY <1>1 DEF MeshInv, EntriesSound
    <2>4. SUFFICES ASSUME entry'[p] # entry[p]
                   PROVE  entry'[p].dc = "open" /\ entry'[p].pc = entry[p].pc
      BY <1>1, <2>2
    <2>5. m \notin mail'
      BY <1>1
    <2>6. ASSUME NEW n \in mail, ReceiveSignal(n)
          PROVE  entry'[p].dc = "open" /\ entry'[p].pc = entry[p].pc
      <3>1. m = n
        <4>1. ReceiveOffer(n) \/ ReceiveAnswer(n) \/ ReceiveReject(n) \/ ReceiveBye(n)
          BY <2>6 DEF ReceiveSignal
        <4>2. mail \ {n} \subseteq mail'
          BY <4>1 DEF ReceiveOffer, ReceiveAnswer, ReceiveReject, ReceiveBye, Takes, RefusesOffer
        <4>3. QED
          BY <2>5, <4>2
      <3>2. CASE ReceiveOffer(m)
        <4>1. UNCHANGED entry
          BY <1>1, <3>2 DEF ReceiveOffer, IgnoresOffer, Ignores, RefusesOffer
        <4>2. QED
          BY <2>4, <4>1
      <3>3. CASE ReceiveAnswer(m)
        <4>1. p = "a"
          BY <2>1, <2>2, <3>3 DEF ReceiveAnswer, MailSound
        <4>2. entry[p].answer # 0
          BY <1>1, <4>1 DEF Matched
        <4>3. TakeAnswer(p, m.pc) \/ Ignores(p)
          BY <2>2, <3>3 DEF ReceiveAnswer
        <4>4. entry' = [entry EXCEPT ![p].phase = "connected", ![p].requested = FALSE]
          BY <1>1, <2>2, <2>4, <4>2, <4>3 DEF TakeAnswer, Ignores
        <4>5. QED
          BY <1>1, <2>2, <2>3, <4>4 DEF EntryRecord
      <3>4. QED
        BY <1>1, <2>6, <3>1, <3>2, <3>3 DEF ReceiveSignal, ReceiveReject, ReceiveBye
    <2>7. ASSUME NEW n \in mail, Lose(n)
          PROVE  FALSE
      BY <2>4, <2>7 DEF Lose
    <2>8. ASSUME NEW w \in awaits, OfferReady(w) \/ AnswerReady(w) \/ CandidatesAdded(w)
          PROVE  FALSE
      BY <1>1, <2>5, <2>8 DEF OfferReady, AnswerReady, CandidatesAdded, Mails
    <2>9. ASSUME NEW q \in Pages,
                 \/ ChannelOpens(q) \/ ConnectionFails(q) \/ ChannelEnds(q)
                 \/ CooldownOver(q) \/ AutoLoop(q) \/ PeerList(q) \/ PeerListWithout(q)
                 \/ RelayDrops(q) \/ Resumes(q) \/ TabVisible(q) \/ BeginRtc(q) \/ Hangup(q) \/ ResetRtc(q)
          PROVE  FALSE
      <3>1. mail \subseteq mail'
        BY <2>9 DEF ChannelOpens, ConnectionFails, ChannelEnds, CooldownOver, AutoLoop, PeerList,
                    PeerListWithout, RelayDrops, Resumes, TabVisible, BeginRtc, Hangup, ResetRtc, Mails
      <3>2. QED
        BY <1>1, <2>5, <3>1
    <2>10. ~ Cut
      BY <1>1, <2>5 DEF Cut
    <2>11. QED
      BY <1>1, <2>6, <2>7, <2>8, <2>9, <2>10 DEF MeshNext
  <1>2. MeshInv /\ [MeshNext]_meshVars =>
           [\A m \in mail :
              m.type \in {"offer", "answer"} /\ Matched /\ entry[m.to].dc = "open" /\ mail' = mail \ {m}
                 => entry'[m.to].dc = "open" /\ entry'[m.to].pc = entry[m.to].pc]_meshVars
    BY <1>1
  <1>3. QED
    BY <1>2, MeshTypeInit, MeshStep, PTL DEF MeshSpec, ChannelIsSpared

-----------------------------------------------------------------------------
(* A data channel. *)

\* Two ends, each the other's other.
LEMMA TwoEnds == \A e \in Ends : Other(e) \in Ends
  <1>1. Cardinality(Ends) # 1 /\ Cardinality(Ends) # 0 /\ IsFiniteSet(Ends)
    BY DataChannelAssumption
  <1>2. SUFFICES ASSUME NEW e \in Ends
                 PROVE  \E o \in Ends : o # e
    BY DEF Other
  <1>3. SUFFICES ASSUME \A o \in Ends : o = e
                 PROVE  FALSE
    OBVIOUS
  <1>4. Ends = {e}
    BY <1>2, <1>3
  <1>5. Cardinality({e}) = 1
    BY FS_Singleton
  <1>6. QED
    BY <1>1, <1>4, <1>5

\* What the clocks read.
PingClock == Clock(PongTimeout)
PongClock == Clock(Fresh)
ParkClock == Clock(DormantMax)
LineClock == Clock(StallAfter)

PingPong == [ping : PingClock, inbound : PingClock]
ShownClocks == [ping : PingClock, pong : PongClock]

\* The times that are compared, and the clocks.
LEMMA Times ==
    /\ 0 \in PingClock /\ Never \in PingClock
    /\ 0 \in PongClock /\ Never \in PongClock
    /\ 0 \in ParkClock /\ Never \in ParkClock
    /\ 0 \in LineClock /\ Never \in LineClock
    /\ \A c \in PingClock : Later(c, PongTimeout) \in PingClock
    /\ \A c \in PongClock : Later(c, Fresh) \in PongClock
    /\ \A c \in ParkClock : Later(c, DormantMax) \in ParkClock
    /\ \A c \in LineClock : Later(c, StallAfter) \in LineClock
    /\ 0 \in 0 .. MaxDelay /\ MaxDelay \in Nat
  <1>1. ASSUME NEW b \in Nat
        PROVE  0 \in Clock(b) /\ Never \in Clock(b) /\ \A c \in Clock(b) : Later(c, b) \in Clock(b)
    BY DEF Clock, Never, Later
  <1>2. PongTimeout \in Nat /\ Fresh \in Nat /\ DormantMax \in Nat /\ StallAfter \in Nat /\ MaxDelay \in Nat
    BY DataChannelAssumption
  <1>3. QED
    BY <1>1, <1>2 DEF PingClock, PongClock, ParkClock, LineClock

\* Frames that are sent, and one that is taken, leave lines.
LEMMA SendsType ==
    ASSUME NEW L \in [Ends -> Seq(Frame)], NEW e \in Ends,
           NEW kinds \in Seq({"ping", "pong", "data", "dormant"})
    PROVE  Sends(L, e, kinds) \in [Ends -> Seq(Frame)]
  <1>1. CASE works[e] /\ state[Other(e)] # "closed"
    <2>1. [i \in DOMAIN kinds |-> [kind |-> kinds[i], age |-> 0]] \in Seq(Frame)
      <3>1. Len(kinds) \in Nat /\ DOMAIN kinds = 1 .. Len(kinds)
            /\ \A i \in 1 .. Len(kinds) : kinds[i] \in {"ping", "pong", "data", "dormant"}
        OBVIOUS
      <3>2. \A i \in 1 .. Len(kinds) : [kind |-> kinds[i], age |-> 0] \in Frame
        BY <3>1, Times DEF Frame
      <3>3. QED
        BY <3>1, <3>2
    <2>2. L[Other(e)] \o [i \in DOMAIN kinds |-> [kind |-> kinds[i], age |-> 0]] \in Seq(Frame)
      BY <2>1, TwoEnds, AddedFrames
    <2>3. QED
      BY <1>1, <2>2, TwoEnds DEF Sends
  <1>2. CASE ~ (works[e] /\ state[Other(e)] # "closed")
    BY <1>2 DEF Sends
  <1>3. QED
    BY <1>1, <1>2

LEMMA KindsSent ==
    /\ << >> \in Seq({"ping", "pong", "data", "dormant"})
    /\ << "ping" >> \in Seq({"ping", "pong", "data", "dormant"})
    /\ << "pong" >> \in Seq({"ping", "pong", "data", "dormant"})
    /\ << "data" >> \in Seq({"ping", "pong", "data", "dormant"})
    /\ << "dormant" >> \in Seq({"ping", "pong", "data", "dormant"})
  OBVIOUS

\* The kinds of types of a channel.
Framed == line \in [Ends -> Seq(Frame)]
Clocked ==
    /\ parked \in [Ends -> ParkClock]
    /\ own \in [Ends -> PingPong] /\ shown \in [Ends -> ShownClocks]
    /\ buffer \in [Ends -> LineClock]
Stated ==
    /\ state \in [Ends -> {"connecting", "open", "closed"}]
    /\ conn \in [Ends -> {"connected", "unsettled", "failed"}]
    /\ tab \in [Ends -> {"visible", "hidden", "frozen"}]
    /\ due \in [Ends -> BOOLEAN] /\ owed \in [Ends -> BOOLEAN] /\ works \in [Ends -> BOOLEAN]
    /\ \A e \in Ends : due[e] => state[e] = "open"
Bounded ==
    /\ spent \in [breaks : 0 .. MaxBreaks, upsets : 0 .. MaxUpsets]
    /\ caught \subseteq Ends

LEMMA ChannelTypeIs == TypeOK <=> Framed /\ Clocked /\ Stated /\ Bounded
  BY DEF TypeOK, Framed, Clocked, Stated, Bounded, PingPong, ShownClocks,
         PingClock, PongClock, ParkClock, LineClock

\* What the handlers send.
LEMMA OneSent ==
    ASSUME NEW L \in [Ends -> Seq(Frame)], NEW e \in Ends
    PROVE  /\ Sends(L, e, << "ping" >>) \in [Ends -> Seq(Frame)]
           /\ Sends(L, e, << "pong" >>) \in [Ends -> Seq(Frame)]
           /\ Sends(L, e, << "data" >>) \in [Ends -> Seq(Frame)]
           /\ Sends(L, e, << "dormant" >>) \in [Ends -> Seq(Frame)]
  BY SendsType, KindsSent

\* Clocks of an end that start again, or stop, with a step.
OwnStep(e) ==
    \/ own' = own
    \/ \E c \in {0, Never} : own' = [own EXCEPT ![e].ping = c]
    \/ own' = [own EXCEPT ![e].inbound = 0]
    \/ own' = [own EXCEPT ![e] = [ping |-> Never, inbound |-> 0]]

ShownStep(e) ==
    \/ shown' = shown
    \/ shown' = [shown EXCEPT ![e].ping = 0]
    \/ \E c \in {0, Never}, d \in {0, Never} : shown' = [shown EXCEPT ![e] = [ping |-> c, pong |-> d]]

LEMMA ClockFields ==
    ASSUME Clocked, NEW e \in Ends
    PROVE  /\ OwnStep(e) => own' \in [Ends -> PingPong]
           /\ ShownStep(e) => shown' \in [Ends -> ShownClocks]
           /\ (\E c \in {0, Never} : parked' = [parked EXCEPT ![e] = c]) => parked' \in [Ends -> ParkClock]
           /\ (\E c \in {0, Never} : buffer' = [buffer EXCEPT ![e] = c])
                  => buffer' \in [Ends -> LineClock]
  <1>1. /\ 0 \in PingClock /\ Never \in PingClock /\ 0 \in PongClock /\ Never \in PongClock
        /\ 0 \in ParkClock /\ Never \in ParkClock /\ 0 \in LineClock /\ Never \in LineClock
    BY Times
  <1>2. OwnStep(e) => own' \in [Ends -> PingPong]
    BY <1>1 DEF OwnStep, Clocked, PingPong
  <1>3. ShownStep(e) => shown' \in [Ends -> ShownClocks]
    BY <1>1 DEF ShownStep, Clocked, ShownClocks
  <1>4. (\E c \in {0, Never} : parked' = [parked EXCEPT ![e] = c]) => parked' \in [Ends -> ParkClock]
    BY <1>1 DEF Clocked
  <1>5. (\E c \in {0, Never} : buffer' = [buffer EXCEPT ![e] = c])
            => buffer' \in [Ends -> LineClock]
    BY <1>1 DEF Clocked
  <1>6. QED
    BY <1>2, <1>3, <1>4, <1>5

\* The pings that data sets off.
LEMMA OnDataType ==
    ASSUME TypeOK, NEW e \in Ends, NEW L \in [Ends -> Seq(Frame)], OnData(e, L),
           caught' \subseteq Ends, UNCHANGED << conn, tab, buffer, works, spent >>
    PROVE  TypeOK'
  <1>0. Framed /\ Clocked /\ Stated /\ Bounded
    BY ChannelTypeIs
  <1>1. own' \in [Ends -> PingPong] /\ parked' \in [Ends -> ParkClock]
    <2>1. OwnStep(e) /\ \E c \in {0, Never} : parked' = [parked EXCEPT ![e] = c]
      BY DEF OnData, Heard, Unparked, OwnStep
    <2>2. QED
      BY <1>0, <2>1, ClockFields
  <1>2. Stated'
    <2>1. CASE OutboundDead(e)
      BY <1>0, <2>1 DEF OnData, Stated
    <2>2. CASE ~ OutboundDead(e)
      BY <1>0, <2>2 DEF OnData, Stated
    <2>3. QED
      BY <2>1, <2>2
  <1>3. line' \in [Ends -> Seq(Frame)]
    <2>1. line' = L \/ line' = Sends(L, e, << "ping" >>)
      BY DEF OnData
    <2>2. QED
      BY <2>1, OneSent
  <1>4. shown' \in [Ends -> ShownClocks]
    <2>1. shown = [shown EXCEPT ![e].ping = shown[e].ping]
      BY <1>0 DEF Clocked, ShownClocks
    <2>2. ShownStep(e)
      BY <2>1 DEF OnData, ShownStep
    <2>3. QED
      BY <1>0, <2>2, ClockFields
  <1>5. Framed' /\ Clocked' /\ Bounded'
    BY <1>0, <1>1, <1>3, <1>4 DEF Framed, Clocked, Bounded
  <1>6. QED
    BY <1>2, <1>5 DEF TypeOK, Framed, Clocked, Stated, Bounded, PingPong, ShownClocks,
         PingClock, PongClock, ParkClock, LineClock

LEMMA ReceiveType ==
    ASSUME TypeOK, NEW e \in Ends, Receive(e)
    PROVE  TypeOK'
  <1>0. Framed /\ Clocked /\ Stated /\ Bounded
    BY ChannelTypeIs
  <1>1. /\ UNCHANGED << conn, tab, buffer, works, spent >> /\ line[e] # << >>
        /\ caught' \subseteq Ends
    BY <1>0 DEF Receive, Bounded
  <1>2. Took(e) \in [Ends -> Seq(Frame)]
    <2>1. Tail(line[e]) \in Seq(Frame)
      BY <1>0, <1>1, AddedFrames DEF Framed
    <2>2. QED
      BY <1>0, <2>1 DEF Took, Framed
  <1>3. CASE OnDormant(e) \/ OnPing(e) \/ OnPong(e)
    <2>1. UNCHANGED << state, due >>
      BY <1>3 DEF OnDormant, OnPing, OnPong
    <2>2. owed' \in [Ends -> BOOLEAN]
      BY <1>0, <1>3 DEF OnDormant, OnPing, OnPong, Stated
    <2>3. line' \in [Ends -> Seq(Frame)]
      <3>1. line' = Took(e) \/ line' = Sends(Took(e), e, << "pong" >>)
        BY <1>3 DEF OnDormant, OnPing, OnPong
      <3>2. QED
        BY <1>2, <3>1, OneSent
    <2>4. own' \in [Ends -> PingPong] /\ parked' \in [Ends -> ParkClock]
      <3>1. OwnStep(e) /\ \E c \in {0, Never} : parked' = [parked EXCEPT ![e] = c]
        BY <1>3 DEF OnDormant, OnPing, OnPong, Unparked, Heard, OwnStep
      <3>2. QED
        BY <1>0, <3>1, ClockFields
    <2>5. shown' \in [Ends -> ShownClocks]
      <3>1. ShownStep(e)
        BY <1>3 DEF OnDormant, OnPing, OnPong, ShownStep
      <3>2. QED
        BY <1>0, <3>1, ClockFields
    <2>6. QED
      BY <1>0, <1>1, <2>1, <2>2, <2>3, <2>4, <2>5
         DEF TypeOK, Framed, Clocked, Stated, Bounded, PingPong, ShownClocks,
         PingClock, PongClock, ParkClock, LineClock
  <1>4. CASE OnData(e, Took(e))
    BY <1>1, <1>2, <1>4, OnDataType
  <1>5. QED
    BY <1>3, <1>4 DEF Receive

\* A channel stays typed when its clocks, its frames and its state do.
LEMMA ChannelTyped ==
    ASSUME Framed', Clocked', Stated', Bounded'
    PROVE  TypeOK'
  BY DEF TypeOK, Framed, Clocked, Stated, Bounded, PingPong, ShownClocks,
         PingClock, PongClock, ParkClock, LineClock

LEMMA UpsetBounded ==
    ASSUME Bounded, Upset, UNCHANGED caught
    PROVE  Bounded'
  <1>1. spent.upsets + 1 \in 0 .. MaxUpsets
    BY DataChannelAssumption DEF Bounded, Upset
  <1>2. QED
    BY <1>1 DEF Bounded, Upset

LEMMA KeepaliveType ==
    ASSUME TypeOK, NEW e \in Ends, Keepalive(e)
    PROVE  TypeOK'
  <1>0. Framed /\ Clocked /\ Stated /\ Bounded
    BY ChannelTypeIs
  <1>1. UNCHANGED << conn, tab, buffer, owed, works, spent, caught >>
    BY DEF Keepalive, CloseBroken
  <1>2. Stated'
    BY <1>0, <1>1 DEF Keepalive, CloseBroken, Stated
  <1>3. Bounded'
    BY <1>0, <1>1 DEF Bounded
  <1>4. shown = [shown EXCEPT ![e].ping = shown[e].ping]
    BY <1>0 DEF Clocked, ShownClocks
  <1>5. CASE IsParked(e) \/ Convicts(e)
    <2>1. UNCHANGED << shown, parked, line >>
      BY <1>5 DEF Keepalive, CloseBroken
    <2>2. OwnStep(e)
      BY <1>5 DEF Keepalive, CloseBroken, OwnStep
    <2>3. own' \in [Ends -> PingPong]
      BY <1>0, <2>2, ClockFields
    <2>4. QED
      BY <1>0, <1>1, <1>2, <1>3, <2>1, <2>3, ChannelTyped DEF Framed, Clocked
  <1>6. CASE ~ (IsParked(e) \/ Convicts(e))
    <2>1. \E c \in {0, Never} : parked' = [parked EXCEPT ![e] = c]
      BY <1>6 DEF Keepalive
    <2>2. OwnStep(e) /\ ShownStep(e) /\ (line' = line \/ line' = Sends(line, e, << "ping" >>))
      <3>1. CASE tab[e] = "hidden"
        BY <1>6, <3>1 DEF Keepalive, OwnStep, ShownStep
      <3>2. CASE tab[e] # "hidden" /\ InFlight(e) /\ IsBusy(e)
        <4>1. /\ own' = [own EXCEPT ![e].ping = 0] /\ line' = line
              /\ shown' = [shown EXCEPT ![e].ping = IF @ = Never THEN @ ELSE 0]
          BY <1>6, <3>2 DEF Keepalive
        <4>2. shown' = [shown EXCEPT ![e].ping = shown[e].ping] \/ shown' = [shown EXCEPT ![e].ping = 0]
          BY <1>0, <4>1 DEF Clocked
        <4>3. QED
          BY <1>4, <4>1, <4>2 DEF OwnStep, ShownStep
      <3>3. CASE tab[e] # "hidden" /\ InFlight(e) /\ ~ IsBusy(e)
        BY <1>6, <3>3 DEF Keepalive, OwnStep, ShownStep
      <3>4. CASE tab[e] # "hidden" /\ ~ InFlight(e) /\ conn[e] = "connected"
        <4>1. /\ own' = [own EXCEPT ![e].ping = 0] /\ line' = Sends(line, e, << "ping" >>)
              /\ shown' = [shown EXCEPT ![e].ping = IF @ = Never THEN 0 ELSE @]
          BY <1>6, <3>4 DEF Keepalive
        <4>2. shown' = [shown EXCEPT ![e].ping = shown[e].ping] \/ shown' = [shown EXCEPT ![e].ping = 0]
          BY <1>0, <4>1 DEF Clocked
        <4>3. QED
          BY <1>4, <4>1, <4>2 DEF OwnStep, ShownStep
      <3>5. CASE tab[e] # "hidden" /\ ~ InFlight(e) /\ conn[e] # "connected"
        BY <1>6, <3>5 DEF Keepalive, OwnStep, ShownStep
      <3>6. QED
        BY <3>1, <3>2, <3>3, <3>4, <3>5
    <2>3. own' \in [Ends -> PingPong] /\ shown' \in [Ends -> ShownClocks] /\ parked' \in [Ends -> ParkClock]
      BY <1>0, <2>1, <2>2, ClockFields
    <2>4. line' \in [Ends -> Seq(Frame)]
      BY <1>0, <2>2, OneSent DEF Framed
    <2>5. QED
      BY <1>0, <1>1, <1>2, <1>3, <2>3, <2>4, ChannelTyped DEF Framed, Clocked
  <1>7. QED
    BY <1>5, <1>6

LEMMA OpenType ==
    ASSUME TypeOK, NEW e \in Ends, Open(e)
    PROVE  TypeOK'
  <1>0. Framed /\ Clocked /\ Stated /\ Bounded
    BY ChannelTypeIs
  <1>1. UNCHANGED << conn, tab, buffer, due, parked, works, spent, caught >>
    BY DEF Open
  <1>2. PICK c \in {0, Never} : c = IF conn[e] = "connected" THEN 0 ELSE Never
    OBVIOUS
  <1>3. /\ own' = [own EXCEPT ![e].ping = c]
        /\ shown' = [shown EXCEPT ![e] = [ping |-> c, pong |-> Never]]
    BY <1>2 DEF Open
  <1>4. own' \in [Ends -> PingPong] /\ shown' \in [Ends -> ShownClocks]
    BY <1>0, <1>3, ClockFields DEF OwnStep, ShownStep
  <1>5. PICK k \in Seq({"ping", "pong", "data", "dormant"}) : line' = Sends(line, e, k)
    <2>1. \E a, b \in {<< >>, << "ping" >>, << "pong" >>} : line' = Sends(line, e, a \o b)
      BY DEF Open
    <2>2. \A a, b \in {<< >>, << "ping" >>, << "pong" >>} : a \o b \in Seq({"ping", "pong", "data", "dormant"})
      BY KindsSent, AddedFrames
    <2>3. QED
      BY <2>1, <2>2
  <1>6. line' \in [Ends -> Seq(Frame)]
    BY <1>0, <1>5, SendsType DEF Framed
  <1>7. Stated'
    BY <1>0, <1>1 DEF Open, Stated
  <1>8. QED
    BY <1>0, <1>1, <1>4, <1>6, <1>7, ChannelTyped DEF Framed, Clocked, Bounded

LEMMA TickType ==
    ASSUME TypeOK, Tick
    PROVE  TypeOK'
  <1>0. Framed /\ Clocked /\ Stated /\ Bounded
    BY ChannelTypeIs
  <1>1. own' \in [Ends -> PingPong] /\ shown' \in [Ends -> ShownClocks]
    BY <1>0, Times DEF Tick, Clocked, PingPong, ShownClocks
  <1>2. parked' \in [Ends -> ParkClock]
    BY <1>0, Times DEF Tick, Clocked
  <1>3. buffer' \in [Ends -> LineClock]
    BY <1>0, Times DEF Tick, Clocked
  <1>4. line' \in [Ends -> Seq(Frame)]
    <2>1. ASSUME NEW q \in Seq(Frame)
          PROVE  [i \in DOMAIN q |-> [q[i] EXCEPT !.age = IF @ < MaxDelay THEN @ + 1 ELSE @]] \in Seq(Frame)
      <3>1. DOMAIN q = 1 .. Len(q) /\ Len(q) \in Nat /\ \A i \in 1 .. Len(q) : q[i] \in Frame
        OBVIOUS
      <3>2. \A f \in Frame : [f EXCEPT !.age = IF @ < MaxDelay THEN @ + 1 ELSE @] \in Frame
        BY Times DEF Frame
      <3>3. QED
        BY <3>1, <3>2
    <2>2. QED
      BY <1>0, <2>1 DEF Tick, Framed
  <1>5. Stated' /\ Bounded'
    BY <1>0 DEF Tick, Stated, Bounded
  <1>6. QED
    BY <1>1, <1>2, <1>3, <1>4, <1>5, ChannelTyped DEF Framed, Clocked

\* Each step of a channel keeps its types.
LEMMA ChannelTypeStep ==
    ASSUME TypeOK, [Next]_vars
    PROVE  TypeOK'
  <1>0. Framed /\ Clocked /\ Stated /\ Bounded
    BY ChannelTypeIs
  <1>1. CASE UNCHANGED vars
    BY <1>1 DEF vars, TypeOK
  <1>2. ASSUME NEW e \in Ends, SendData(e)
        PROVE  TypeOK'
    <2>1. line' = Sends(line, e, << "data" >>) \/ line' = Sends(line, e, << "ping" >>)
      BY <1>2 DEF SendData
    <2>2. line' \in [Ends -> Seq(Frame)]
      <3>1. line \in [Ends -> Seq(Frame)]
        BY <1>0 DEF Framed
      <3>2. /\ Sends(line, e, << "data" >>) \in [Ends -> Seq(Frame)]
            /\ Sends(line, e, << "ping" >>) \in [Ends -> Seq(Frame)]
        BY <3>1, OneSent, Zenon
      <3>3. QED
        BY <2>1, <3>2, Zenon
    <2>3. ShownStep(e)
      BY <1>2 DEF SendData, ShownStep
    <2>4. shown' \in [Ends -> ShownClocks]
      BY <1>0, <2>3, ClockFields
    <2>5. QED
      BY <1>0, <1>2, <2>2, <2>4, ChannelTyped DEF SendData, Framed, Clocked, Stated, Bounded
  <1>3. ASSUME NEW e \in Ends, Hide(e)
        PROVE  TypeOK'
    <2>1. line' \in [Ends -> Seq(Frame)]
      BY <1>0, <1>3, OneSent DEF Hide, Framed
    <2>2. Bounded'
      BY <1>0, <1>3, UpsetBounded DEF Hide
    <2>3. QED
      BY <1>0, <1>3, <2>1, <2>2, ChannelTyped DEF Hide, Framed, Clocked, Stated
  <1>4. ASSUME NEW e \in Ends, Freeze(e)
        PROVE  TypeOK'
    BY <1>0, <1>4, ChannelTyped DEF Freeze, Framed, Clocked, Stated, Bounded
  <1>5. ASSUME NEW e \in Ends, Show(e)
        PROVE  TypeOK'
    <2>1. line' \in [Ends -> Seq(Frame)]
      BY <1>0, <1>5, OneSent DEF Show, Framed
    <2>2. OwnStep(e) /\ ShownStep(e)
      BY <1>5 DEF Show, OwnStep, ShownStep
    <2>3. own' \in [Ends -> PingPong] /\ shown' \in [Ends -> ShownClocks]
      BY <1>0, <2>2, ClockFields
    <2>4. QED
      BY <1>0, <1>5, <2>1, <2>3, ChannelTyped DEF Show, Framed, Clocked, Stated, Bounded
  <1>6. ASSUME NEW e \in Ends, BufferFills(e)
        PROVE  TypeOK'
    <2>1. buffer' \in [Ends -> LineClock] /\ Bounded'
      BY <1>0, <1>6, ClockFields, UpsetBounded DEF BufferFills
    <2>2. QED
      BY <1>0, <1>6, <2>1, ChannelTyped DEF BufferFills, Framed, Clocked, Stated
  <1>7. ASSUME NEW e \in Ends, BufferDrains(e)
        PROVE  TypeOK'
    <2>1. buffer' \in [Ends -> LineClock]
      BY <1>0, <1>7, ClockFields DEF BufferDrains
    <2>2. QED
      BY <1>0, <1>7, <2>1, ChannelTyped DEF BufferDrains, Framed, Clocked, Stated, Bounded
  <1>8. ASSUME NEW e \in Ends, BacklogArrives(e)
        PROVE  TypeOK'
    BY <1>0, <1>8, OnDataType DEF BacklogArrives, Framed, Bounded
  <1>9. ASSUME NEW e \in Ends, Flickers(e)
        PROVE  TypeOK'
    BY <1>0, <1>9, UpsetBounded, ChannelTyped DEF Flickers, Framed, Clocked, Stated
  <1>10. ASSUME NEW e \in Ends, Settles(e)
         PROVE  TypeOK'
    BY <1>0, <1>10, ChannelTyped DEF Settles, Framed, Clocked, Stated, Bounded
  <1>11. ASSUME NEW e \in Ends, Breaks(e)
         PROVE  TypeOK'
    <2>1. line' \in [Ends -> Seq(Frame)]
      BY <1>0, <1>11, TwoEnds DEF Breaks, Framed
    <2>2. Bounded'
      <3>1. spent.breaks + 1 \in 0 .. MaxBreaks
        BY <1>0, <1>11, DataChannelAssumption DEF Breaks, Bounded
      <3>2. QED
        BY <1>0, <1>11, <3>1 DEF Breaks, Bounded
    <2>3. QED
      BY <1>0, <1>11, <2>1, <2>2, ChannelTyped DEF Breaks, Framed, Clocked, Stated
  <1>12. ASSUME NEW e \in Ends, OtherClosed(e)
         PROVE  TypeOK'
    <2>1. line' \in [Ends -> Seq(Frame)]
      BY <1>0, <1>12 DEF OtherClosed, Framed
    <2>2. QED
      BY <1>0, <1>12, <2>1, ChannelTyped DEF OtherClosed, Framed, Clocked, Stated, Bounded
  <1>13. QED
    BY <1>1, <1>2, <1>3, <1>4, <1>5, <1>6, <1>7, <1>8, <1>9, <1>10, <1>11, <1>12,
       OpenType, KeepaliveType, ReceiveType, TickType DEF Next

LEMMA ChannelTypeInit == Init => TypeOK
  <1>1. SUFFICES ASSUME Init  PROVE TypeOK
    OBVIOUS
  <1>2. Framed /\ Stated
    BY <1>1 DEF Init, Framed, Stated
  <1>3. Clocked /\ Bounded
    BY <1>1, Times, DataChannelAssumption DEF Init, Clocked, PingPong, ShownClocks, Bounded
  <1>4. QED
    BY <1>2, <1>3, ChannelTypeIs

\* The invariant of the parts whose types are claimed together.
ClientInv == TypeOK /\ RelayedTypeOK /\ MeshInv /\ PageTypeOK

\* The data channel, the relayed link, the mesh and the relay of the demo page keep their
\* types: only an open channel has a keepalive interval due, only an end that has asked for
\* a relayed link waits, only an entry with a connection has an open channel, and frames
\* wait only for a relay that was released (client.js and public/app.js).
THEOREM ClientTypesHold == ClientSpec => []ClientTypeOK
  <1>1. ClientInit => ClientInv
    <2>1. ClientInit => Init /\ RelayedInit /\ MeshInit /\ PageInit
      BY DEF ClientInit
    <2>2. RelayedInit => RelayedTypeOK
      BY RelayedLinksAssumption DEF RelayedInit, RelayedTypeOK, AfterFailures
    <2>3. QED
      BY <2>1, <2>2, ChannelTypeInit, MeshTypeInit, PageTypeInit DEF ClientInv
  <1>2. ClientInv /\ [ClientNext]_clientVars => ClientInv'
    <2>1. SUFFICES ASSUME ClientInv, [ClientNext]_clientVars
                   PROVE  ClientInv'
      OBVIOUS
    <2>2. /\ [Next]_vars /\ [RelayedNext]_relayedVars
          /\ [MeshNext]_meshVars /\ [PageNext]_pageVars
      <3>1. \/ UNCHANGED clientVars
            \/ Next /\ UNCHANGED << relayedVars, meshVars, pageVars >>
            \/ RelayedNext /\ UNCHANGED << vars, meshVars, pageVars >>
            \/ UNCHANGED << vars, relayedVars, meshVars, pageVars >>
            \/ MeshNext /\ UNCHANGED << vars, relayedVars, pageVars >>
            \/ PageNext /\ UNCHANGED << vars, relayedVars, meshVars >>
        BY <2>1 DEF ClientNext
      <3>2. UNCHANGED clientVars => UNCHANGED << vars, relayedVars, meshVars, pageVars >>
        BY DEF clientVars
      <3>3. QED
        BY <3>1, <3>2
    <2>3. QED
      BY <2>1, <2>2, ChannelTypeStep, RelayedTypeStep, MeshStep, PageTypeStep DEF ClientInv
  <1>3. ClientInv => ClientTypeOK
    BY MeshTypeIs DEF ClientInv, ClientTypeOK
  <1>4. QED
    BY <1>1, <1>2, <1>3, PTL DEF ClientSpec

=============================================================================
