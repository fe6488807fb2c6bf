----------------------- MODULE RelayFederationProofs -----------------------
(***************************************************************************)
(* Proofs about RelayFederation, for any relays, frames, moves and upsets: *)
(* no relay hands a frame over twice, none is forgotten, and a live route  *)
(* is found as long as a lookup leaves no relay out.                       *)
(***************************************************************************)
EXTENDS RelayFederation, FiniteSetTheorems, TLAPS

USE RelayFederationAssumption

\* A relay has had frame f from its task.
Took(f, r) == r \in ToSet(got[f]) \/ f \in held[r]

\* What became of f is known: it was handed over, dropped, wasted or is queued.
Accounted(f) == got[f] # << >> \/ f \in dropped \/ f \in wasted \/ \E r \in Relays : f \in held[r]

\* The relays that a task has asked.
Asked(t) == t.attempted \cup t.round

\* The calls of a task: relays are asked once, all but Home, one at a time while the
\* hint is asked, and what has been asked is not asked again.
CallsOK(t) ==
    /\ Asked(t) \subseteq Others /\ t.open \subseteq Asked(t) /\ t.delivered \subseteq Asked(t)
    /\ t.pc = "new" => /\ Asked(t) = {} /\ t.queued = {} /\ t.delivered = {}
                       /\ t.timely /\ ~ t.refreshed
    /\ t.pc \in {"lookup", "over"} => t.open = {}
    /\ t.pc = "hinted" => \A r \in t.open : t.open = {r}
    /\ t.pc \in {"hinted", "lookup"} => t.round = {}

\* A relay has a frame once: another one when it was asked and has done it, Home when
\* the task is over or late.  Nothing ends before the frame is accounted for, and what
\* a task believes of an answer is so.
FrameOK(f) ==
    LET t == task[f] IN
    /\ \A r \in Relays : Took(f, r) =>
          \/ r \in Asked(t) \ t.open
          \/ r = Home /\ (t.pc = "over" \/ ~ t.timely)
    /\ \A r \in Relays : ~ (r \in ToSet(got[f]) /\ f \in held[r])
    /\ IsInjective(got[f])
    /\ t.pc = "over" \/ ~ t.timely => Accounted(f)
    /\ t.delivered # {} => got[f] # << >> \/ f \in wasted
    /\ t.queued # {} => got[f] # << >> \/ \E r \in Others : f \in held[r]

\* The relay a task can count on has its peer, serves the room, has handed the frame
\* over if it was asked, and is known from every lookup made since the task's second
\* round began.
SteadyOK(f) ==
    LET t == task[f] IN
    steady[f] # None =>
       /\ steady[f] \in Others /\ peer[steady[f]] = "live" /\ steady[f] \in serves
       /\ t.pc # "new"
       /\ steady[f] \in Asked(t) \ t.open => got[f] # << >>
       /\ t.refreshed => cache.age = "none" \/ steady[f] \in cache.at
       /\ t.refreshed /\ t.pc = "asking" => steady[f] \in Asked(t)

OneSocket == \A r, o \in Relays : peer[r] = "live" /\ peer[o] = "live" => r = o

-----------------------------------------------------------------------------
(* Types *)

Caches == [at : SUBSET Relays, age : {"none", "fresh", "old"}]
Counts == [moves : 0 .. MaxMoves, upsets : 0 .. MaxUpsets]

\* TypeOK, but that it says of sockets as OneSocket does.
FieldsOK ==
    /\ peer \in [Relays -> {"none", "live", "dead", "resting"}]
    /\ listed \in [Relays -> 0 .. MaxMoves]
    /\ gone \in BOOLEAN
    /\ serves \subseteq Relays /\ hint \in Others \cup {None}
    /\ cache \in Caches
    /\ task \in [Frames -> Task]
    /\ held \in [Relays -> SUBSET Frames]
    /\ got \in [Frames -> Seq(Relays)]
    /\ dropped \subseteq Frames /\ wasted \subseteq Frames /\ blind \subseteq Frames
    /\ steady \in [Frames -> Relays \cup {None}]
    /\ spent \in Counts

FedInv ==
    /\ FieldsOK /\ OneSocket
    /\ \A f \in Frames : CallsOK(task[f]) /\ FrameOK(f)

LEMMA FieldsAre == FieldsOK /\ OneSocket => TypeOK
  <1> SUFFICES ASSUME FieldsOK, OneSocket PROVE TypeOK
    OBVIOUS
  <1> DEFINE live == {r \in Relays : peer[r] = "live"}
  <1>1. Cardinality(live) <= 1
    <2>1. CASE live = {}
      BY <2>1, FS_EmptySet
    <2>2. CASE live # {}
      <3>1. PICK r \in live : TRUE
        BY <2>2
      <3>2. live = {r}
        BY <3>1 DEF OneSocket
      <3>3. QED
        BY <3>2, FS_Singleton
    <2>3. QED
      BY <2>1, <2>2
  <1>2. QED
    BY <1>1 DEF FieldsOK, TypeOK, Caches, Counts

LEMMA HandedOnce ==
    ASSUME NEW s \in Seq(Relays), NEW r \in Relays
    PROVE  /\ Append(s, r) \in Seq(Relays) /\ Append(s, r) # << >>
           /\ ToSet(Append(s, r)) = ToSet(s) \cup {r}
           /\ IsInjective(s) /\ r \notin ToSet(s) => IsInjective(Append(s, r))
  <1>1. /\ Append(s, r) \in Seq(Relays) /\ Len(Append(s, r)) = Len(s) + 1
        /\ \A i \in 1 .. Len(s) : Append(s, r)[i] = s[i]
        /\ Append(s, r)[Len(s) + 1] = r
    OBVIOUS
  <1>2. /\ DOMAIN s = 1 .. Len(s) /\ DOMAIN Append(s, r) = 1 .. (Len(s) + 1)
        /\ Len(s) \in Nat
    BY <1>1
  <1>3. Append(s, r) # << >>
    BY <1>2
  <1>4. ToSet(Append(s, r)) = ToSet(s) \cup {r}
    BY <1>1, <1>2 DEF ToSet
  <1>5. ASSUME IsInjective(s), r \notin ToSet(s) PROVE IsInjective(Append(s, r))
    <2> SUFFICES ASSUME NEW i \in 1 .. (Len(s) + 1), NEW j \in 1 .. (Len(s) + 1),
                        Append(s, r)[i] = Append(s, r)[j]
                 PROVE  i = j
      BY <1>2 DEF IsInjective
    <2>1. \A k \in 1 .. Len(s) : s[k] # r
      BY <1>2, <1>5 DEF ToSet
    <2>2. \A k, l \in 1 .. Len(s) : s[k] = s[l] => k = l
      BY <1>2, <1>5 DEF IsInjective
    <2>3. QED
      BY <1>1, <1>2, <2>1, <2>2
  <1>6. QED
    BY <1>1, <1>3, <1>4, <1>5

LEMMA NothingHanded == ToSet(<< >>) = {} /\ IsInjective(<< >>) /\ << >> \in Seq(Relays)
  BY DEF ToSet, IsInjective

-----------------------------------------------------------------------------
(* What does not concern a frame *)

LEMMA OtherFrame ==
    ASSUME FedInv, NEW f \in Frames, task'[f] = task[f], got'[f] = got[f],
           f \in dropped => f \in dropped', f \in wasted => f \in wasted',
           \A r \in Relays : f \in held'[r] <=> f \in held[r]
    PROVE  CallsOK(task[f])' /\ FrameOK(f)'
  <1>1. CallsOK(task[f]) /\ FrameOK(f)
    BY DEF FedInv
  <1>2. FrameOK(f)'
    BY <1>1 DEF FrameOK, Took, Accounted, Others
  <1>3. QED
    BY <1>1, <1>2

\* The peer, and what relays know of it, in a step that concerns no frame.
LEMMA WorldKeeps ==
    ASSUME FedInv, FieldsOK', OneSocket', UNCHANGED << task, held, got, dropped, wasted >>
    PROVE  FedInv'
  <1>1. \A f \in Frames : CallsOK(task[f])' /\ FrameOK(f)'
    BY OtherFrame
  <1>2. QED
    BY <1>1 DEF FedInv

World ==
    \/ \E r \in Relays :
          \/ Arrive(r) \/ Publish(r) \/ Cut(r) \/ Forgets(r) \/ Unlist(r) \/ FrameFrom(r)
          \/ \E as \in {"goodbye", "resting", "closed"} : Depart(r, as)
    \/ Discover \/ OtherLookup \/ Lapses

LEMMA HomeIsOne == Home \in Relays /\ Home \notin Others /\ Others \subseteq Relays /\ None \notin Relays
  BY DEF Others

LEMMA CountsMade ==
    ASSUME NEW c \in Counts
    PROVE  /\ c.moves < MaxMoves => c.moves + 1 \in 0 .. MaxMoves /\ [c EXCEPT !.moves = @ + 1] \in Counts
           /\ c.upsets < MaxUpsets => [c EXCEPT !.upsets = @ + 1] \in Counts
  <1>1. c.moves \in Nat /\ c.upsets \in Nat /\ MaxMoves \in Nat /\ MaxUpsets \in Nat
    BY DEF Counts
  <1>2. c.moves < MaxMoves => c.moves + 1 \in 0 .. MaxMoves
    BY <1>1
  <1>3. c.upsets < MaxUpsets => c.upsets + 1 \in 0 .. MaxUpsets
    BY <1>1
  <1>4. QED
    BY <1>2, <1>3 DEF Counts

LEMMA WorldFields ==
    ASSUME FedInv, World
    PROVE  FieldsOK' /\ OneSocket' /\ UNCHANGED << task, held, got, dropped, wasted >>
  <1>1. FieldsOK /\ OneSocket
    BY DEF FedInv
  <1>2. ASSUME NEW r \in Relays, Arrive(r)
        PROVE  FieldsOK' /\ OneSocket' /\ UNCHANGED taskVars
    <2>1. /\ peer' = [peer EXCEPT ![r] = "live"] /\ listed' = [listed EXCEPT ![r] = spent.moves + 1]
          /\ gone' = (gone /\ r # Home) /\ spent' = [spent EXCEPT !.moves = @ + 1]
          /\ spent.moves < MaxMoves /\ \A o \in Relays : peer[o] # "live"
          /\ UNCHANGED << serves, hint, cache, taskVars, steady >>
      BY <1>2 DEF Arrive
    <2>2. spent.moves + 1 \in 0 .. MaxMoves /\ spent' \in Counts
      BY <1>1, <2>1, CountsMade DEF FieldsOK
    <2>3. OneSocket'
      BY <1>1, <2>1 DEF OneSocket, FieldsOK
    <2>4. gone' \in BOOLEAN
      BY <2>1
    <2>5. peer' \in [Relays -> {"none", "live", "dead", "resting"}] /\ listed' \in [Relays -> 0 .. MaxMoves]
      BY <1>1, <2>1, <2>2 DEF FieldsOK
    <2>6. QED
      BY <1>1, <2>1, <2>2, <2>3, <2>4, <2>5 DEF FieldsOK, taskVars
  <1>3. ASSUME NEW r \in Relays, Publish(r)
        PROVE  FieldsOK' /\ OneSocket' /\ UNCHANGED taskVars
    BY <1>1, <1>3 DEF Publish, FieldsOK, OneSocket, taskVars
  <1>4. ASSUME NEW r \in Relays, NEW as \in {"goodbye", "resting", "closed"}, Depart(r, as)
        PROVE  FieldsOK' /\ OneSocket' /\ UNCHANGED taskVars
    <2>1. OneSocket' /\ peer' \in [Relays -> {"none", "live", "dead", "resting"}]
      BY <1>1, <1>4 DEF Depart, OneSocket, FieldsOK
    <2>2. gone' \in BOOLEAN
      BY <1>1, <1>4 DEF Depart, FieldsOK
    <2>3. steady' \in [Frames -> Relays \cup {None}]
      BY <1>1, <1>4 DEF Depart, FieldsOK, Unsteady
    <2>4. UNCHANGED << listed, serves, hint, cache, taskVars, spent >>
      BY <1>4 DEF Depart
    <2>5. QED
      BY <1>1, <2>1, <2>2, <2>3, <2>4 DEF FieldsOK, taskVars
  <1>5. ASSUME NEW r \in Relays, Cut(r)
        PROVE  FieldsOK' /\ OneSocket' /\ UNCHANGED taskVars
    <2>1. OneSocket' /\ peer' \in [Relays -> {"none", "live", "dead", "resting"}]
      BY <1>1, <1>5 DEF Cut, OneSocket, FieldsOK
    <2>2. steady' \in [Frames -> Relays \cup {None}]
      BY <1>1, <1>5 DEF Cut, FieldsOK, Unsteady
    <2>3. QED
      BY <1>1, <1>5, <2>1, <2>2 DEF Cut, FieldsOK, taskVars
  <1>6. ASSUME NEW r \in Relays, Forgets(r) \/ Unlist(r)
        PROVE  FieldsOK' /\ OneSocket' /\ UNCHANGED taskVars
    <2>1. peer' = peer \/ peer' = [peer EXCEPT ![r] = "none"]
      BY <1>6 DEF Forgets, Unlist
    <2>2. OneSocket' /\ peer' \in [Relays -> {"none", "live", "dead", "resting"}]
      BY <1>1, <2>1 DEF OneSocket, FieldsOK
    <2>3. listed' \in [Relays -> 0 .. MaxMoves]
      BY <1>1, <1>6 DEF Forgets, Unlist, FieldsOK
    <2>4. QED
      BY <1>1, <1>6, <2>2, <2>3 DEF Forgets, Unlist, FieldsOK, taskVars
  <1>7. ASSUME NEW r \in Relays, FrameFrom(r)
        PROVE  FieldsOK' /\ OneSocket' /\ UNCHANGED taskVars
    BY <1>1, <1>7 DEF FrameFrom, Remember, FieldsOK, OneSocket, Others, peerVars, taskVars
  <1>8. ASSUME Discover PROVE FieldsOK' /\ OneSocket' /\ UNCHANGED taskVars
    <2>1. \E r \in Others : Remember(r)
      <3>1. PICK lists \in SUBSET Relays : \E r \in Hinted(lists) : Remember(r)
        <4>1. PICK answering \in SUBSET (serves \ {Home}) :
                 \E r \in Hinted({r \in answering \cup {Home} : listed[r] > 0}) : Remember(r)
          BY <1>8, Zenon DEF Discover
        <4>2. {r \in answering \cup {Home} : listed[r] > 0} \in SUBSET Relays
          BY <1>1, HomeIsOne DEF FieldsOK
        <4>3. QED
          BY <4>1, <4>2
      <3>2. QED
        BY <3>1 DEF Hinted, Others
    <2>2. QED
      BY <1>1, <1>8, <2>1 DEF Discover, Remember, FieldsOK, OneSocket, peerVars, taskVars
  <1>9. ASSUME OtherLookup PROVE FieldsOK' /\ OneSocket' /\ UNCHANGED taskVars
    BY <1>1, <1>9 DEF OtherLookup, FieldsOK, OneSocket, Caches, peerVars, taskVars
  <1>10. ASSUME Lapses PROVE FieldsOK' /\ OneSocket' /\ UNCHANGED taskVars
    <2>1. cache' \in Caches /\ hint' \in Others \cup {None} /\ gone' \in BOOLEAN
      <3>1. [cache EXCEPT !.age = "old"] \in Caches /\ NoCache \in Caches /\ cache \in Caches
        BY <1>1 DEF FieldsOK, Caches, NoCache
      <3>2. \/ hint' = None /\ UNCHANGED << gone, cache >>
            \/ gone' = FALSE /\ UNCHANGED << hint, cache >>
            \/ cache' \in {[cache EXCEPT !.age = "old"], NoCache} /\ UNCHANGED << hint, gone >>
        BY <1>10 DEF Lapses
      <3>3. QED
        BY <1>1, <3>1, <3>2 DEF FieldsOK
    <2>2. QED
      BY <1>1, <1>10, <2>1 DEF Lapses, FieldsOK, OneSocket, peerVars, taskVars
  <1>11. FieldsOK' /\ OneSocket' /\ UNCHANGED taskVars
    <2>1. CASE Discover \/ OtherLookup \/ Lapses
      BY <2>1, <1>8, <1>9, <1>10
    <2>2. CASE \E r \in Relays :
                  \/ Arrive(r) \/ Publish(r) \/ Cut(r) \/ Forgets(r) \/ Unlist(r) \/ FrameFrom(r)
                  \/ \E as \in {"goodbye", "resting", "closed"} : Depart(r, as)
      <3>1. PICK r \in Relays :
                  \/ Arrive(r) \/ Publish(r) \/ Cut(r) \/ Forgets(r) \/ Unlist(r) \/ FrameFrom(r)
                  \/ \E as \in {"goodbye", "resting", "closed"} : Depart(r, as)
        BY <2>2
      <3>2. CASE \E as \in {"goodbye", "resting", "closed"} : Depart(r, as)
        BY <1>4, <3>2, Zenon
      <3>3. QED
        BY <1>2, <1>3, <1>5, <1>6, <1>7, <3>1, <3>2, Zenon
    <2>3. QED
      BY <2>1, <2>2, Zenon DEF World
  <1>12. QED
    BY <1>11 DEF taskVars

\* What is stored is handed over by the relay that stored it.
LEMMA CollectKeeps ==
    ASSUME FedInv, NEW r \in Relays, Collect(r)
    PROVE  FedInv'
  <1>1. FieldsOK /\ OneSocket
    BY DEF FedInv
  <1>2. /\ \A f \in Frames : got'[f] = IF f \in held[r] THEN Append(got[f], r) ELSE got[f]
        /\ \A o \in Relays : held'[o] = IF o = r THEN {} ELSE held[o]
        /\ task' = task /\ dropped' = dropped /\ wasted' = wasted
    BY <1>1 DEF Collect, FieldsOK
  <1>3. FieldsOK' /\ OneSocket'
    <2>1. got' \in [Frames -> Seq(Relays)]
      BY <1>1, HandedOnce DEF Collect, FieldsOK
    <2>2. QED
      BY <1>1, <2>1 DEF Collect, FieldsOK, OneSocket, peerVars
  <1>4. ASSUME NEW f \in Frames PROVE CallsOK(task[f])' /\ FrameOK(f)'
    <2>1. CASE f \notin held[r]
      BY <1>2, <2>1, OtherFrame
    <2>2. CASE f \in held[r]
      <3>1. CallsOK(task[f]) /\ FrameOK(f) /\ got[f] \in Seq(Relays)
        BY <1>1 DEF FedInv, FieldsOK
      <3>2. r \notin ToSet(got[f])
        BY <2>2, <3>1 DEF FrameOK
      <3>3. /\ ToSet(got'[f]) = ToSet(got[f]) \cup {r} /\ got'[f] # << >> /\ IsInjective(got'[f])
        <4>1. got'[f] = Append(got[f], r) /\ IsInjective(got[f])
          BY <1>2, <2>2, <3>1 DEF FrameOK
        <4>2. QED
          BY <3>1, <3>2, <4>1, HandedOnce
      <3>4. \A o \in Relays : Took(f, o)' <=> Took(f, o)
        BY <1>2, <2>2, <3>3 DEF Took
      <3>5. \A o \in Relays : ~ (o \in ToSet(got[f]) /\ f \in held[o])'
        BY <1>2, <3>1, <3>3 DEF FrameOK
      <3>6. FrameOK(f)'
        BY <1>2, <3>1, <3>3, <3>4, <3>5 DEF FrameOK, Accounted
      <3>7. QED
        BY <1>2, <3>1, <3>6
    <2>3. QED
      BY <2>1, <2>2
  <1>5. QED
    BY <1>3, <1>4 DEF FedInv
-----------------------------------------------------------------------------
(* The forward task *)

PCs == {"new", "hinted", "lookup", "asking", "over"}

\* What a step does with frame f is all that it does.
Only(f) ==
    /\ \A g \in Frames \ {f} : task'[g] = task[g] /\ got'[g] = got[g]
    /\ \A g \in Frames \ {f} : \A r \in Relays : g \in held'[r] <=> g \in held[r]
    /\ dropped \subseteq dropped' /\ wasted \subseteq wasted'

LEMMA TaskKeeps ==
    ASSUME FedInv, NEW f \in Frames, FieldsOK', OneSocket', Only(f), CallsOK(task'[f]), FrameOK(f)'
    PROVE  FedInv'
  <1>1. \A g \in Frames \ {f} : CallsOK(task[g])' /\ FrameOK(g)'
    BY OtherFrame DEF Only
  <1>2. QED
    BY <1>1 DEF FedInv

\* A frame that waits for a timely task has not been at Home.
LEMMA NotAtHome ==
    ASSUME FedInv, NEW f \in Frames, task[f].timely, task[f].pc # "over"
    PROVE  ~ Took(f, Home)
  BY HomeIsOne DEF FedInv, FrameOK, CallsOK

LEMMA BeginsIs ==
    ASSUME NEW t \in Task, hint \in Others \cup {None}
    PROVE  LET b == Begins(t) IN
           /\ b \in Task /\ b.round = t.round /\ b.queued = {} /\ b.delivered = t.delivered
           /\ b.timely = t.timely /\ b.refreshed = t.refreshed
           /\ \/ b.pc = "lookup" /\ b.attempted = t.attempted /\ b.open = t.open
              \/ \E h \in Others \ t.attempted :
                    b.pc = "hinted" /\ b.attempted = t.attempted \cup {h} /\ b.open = {h}
  <1>1. CASE hint \in Others /\ hint \notin t.attempted
    <2>1. Begins(t) = [t EXCEPT !.pc = "hinted", !.attempted = t.attempted \cup {hint}, !.open = {hint}, !.queued = {}]
      BY <1>1 DEF Begins
    <2>2. QED
      <3>1. t.attempted \cup {hint} \in SUBSET Relays /\ {hint} \in SUBSET Relays
        BY <1>1, HomeIsOne DEF Task
      <3>2. Begins(t) \in Task
        BY <2>1, <3>1 DEF Task
      <3>3. LET b == Begins(t) IN
            /\ b.round = t.round /\ b.queued = {} /\ b.delivered = t.delivered
            /\ b.timely = t.timely /\ b.refreshed = t.refreshed
            /\ b.pc = "hinted" /\ b.attempted = t.attempted \cup {hint} /\ b.open = {hint}
        BY <2>1 DEF Task
      <3>4. QED
        BY <1>1, <3>2, <3>3
  <1>2. CASE ~ (hint \in Others /\ hint \notin t.attempted)
    <2>1. Begins(t) = [t EXCEPT !.pc = "lookup", !.queued = {}]
      BY <1>2 DEF Begins
    <2>2. QED
      BY <2>1 DEF Task
  <1>3. QED
    BY <1>1, <1>2

\* The task of f ends in a step that leaves the frame somewhere.
LEMMA TaskOver ==
    ASSUME NEW t \in Task
    PROVE  LET o == [t EXCEPT !.pc = "over"] IN
           /\ o \in Task /\ o.pc = "over" /\ Asked(o) = Asked(t) /\ o.open = t.open
           /\ o.queued = t.queued /\ o.delivered = t.delivered
           /\ o.timely = t.timely /\ o.refreshed = t.refreshed
  BY DEF Task, Asked

LEMMA StartKeeps ==
    ASSUME FedInv, NEW f \in Frames, Start(f)
    PROVE  FedInv'
  <1> DEFINE t == task[f]
  <1>1. FieldsOK /\ OneSocket /\ CallsOK(t) /\ FrameOK(f) /\ t \in Task /\ t.pc = "new"
    BY DEF FedInv, FieldsOK, Start
  <1>2. /\ Asked(t) = {} /\ t.open = {} /\ t.queued = {} /\ t.delivered = {} /\ t.timely /\ ~ t.refreshed
        /\ \A r \in Relays : ~ Took(f, r)
    BY <1>1, HomeIsOne DEF CallsOK, FrameOK
  <1>3. UNCHANGED << peerVars, gone, hint, cache, blind, spent >>
    BY DEF Start
  <1>4. steady' \in [Frames -> Relays \cup {None}]
    <2>1. (\E r \in Others \cap serves : peer[r] = "live") => (CHOOSE r \in Others : peer[r] = "live") \in Relays
      BY HomeIsOne
    <2>2. QED
      BY <1>1, <2>1 DEF Start, FieldsOK
  <1>5. ASSUME t' = [t EXCEPT !.pc = "over"], task' = [task EXCEPT ![f] = t'],
               \/ got' = [got EXCEPT ![f] = Append(@, Home)] /\ UNCHANGED << held, dropped, wasted >>
               \/ wasted' = wasted \cup {f} /\ UNCHANGED << held, got, dropped >>
               \/ held' = [held EXCEPT ![Home] = @ \cup {f}] /\ UNCHANGED << got, dropped, wasted >>
               \/ dropped' = dropped \cup {f} /\ UNCHANGED << held, got, wasted >>
        PROVE  FedInv'
    <2>1. /\ t' \in Task /\ t'.pc = "over" /\ Asked(t') = {} /\ t'.open = {}
          /\ t'.queued = {} /\ t'.delivered = {} /\ t'.timely /\ ~ t'.refreshed
      BY <1>1, <1>2, <1>5, TaskOver
    <2>2. got[f] \in Seq(Relays) /\ Home \notin ToSet(got[f]) /\ IsInjective(got[f])
      BY <1>1, <1>2, HomeIsOne DEF FieldsOK, FrameOK, Took
    <2>3. /\ Append(got[f], Home) \in Seq(Relays) /\ Append(got[f], Home) # << >>
          /\ ToSet(Append(got[f], Home)) = ToSet(got[f]) \cup {Home}
          /\ IsInjective(Append(got[f], Home))
      BY <2>2, HandedOnce, HomeIsOne
    <2>4. FieldsOK' /\ OneSocket'
      <3>1. got' \in [Frames -> Seq(Relays)]
        BY <1>1, <1>5, <2>3 DEF FieldsOK
      <3>2. held' \in [Relays -> SUBSET Frames]
        BY <1>1, <1>5 DEF FieldsOK
      <3>3. dropped' \subseteq Frames /\ wasted' \subseteq Frames
        BY <1>1, <1>5 DEF FieldsOK
      <3>4. task' \in [Frames -> Task]
        BY <1>1, <1>5, <2>1 DEF FieldsOK
      <3>5. QED
        BY <1>1, <1>3, <1>4, <3>1, <3>2, <3>3, <3>4 DEF FieldsOK, OneSocket, peerVars
    <2>5. Only(f)
      <3>1. \A g \in Frames \ {f} : task'[g] = task[g] /\ got'[g] = got[g]
        BY <1>1, <1>5 DEF FieldsOK
      <3>2. \A g \in Frames \ {f} : \A r \in Relays : g \in held'[r] <=> g \in held[r]
        BY <1>1, <1>5 DEF FieldsOK
      <3>3. QED
        BY <1>5, <3>1, <3>2 DEF Only
    <2>6. task'[f] = t'
      BY <1>1, <1>5 DEF FieldsOK
    <2>7. CallsOK(t')
      BY <2>1, <2>6 DEF CallsOK
    <2>8. /\ ToSet(got'[f]) \subseteq {Home} /\ \A r \in Relays : f \in held'[r] => r = Home
          /\ ~ (Home \in ToSet(got'[f]) /\ f \in held'[Home])
          /\ IsInjective(got'[f])
          /\ got'[f] # << >> \/ f \in dropped' \/ f \in wasted' \/ f \in held'[Home]
      <3>1. ToSet(got[f]) \subseteq Relays
        BY <2>2 DEF ToSet
      <3>2. QED
        <4>1. ToSet(got[f]) = {} /\ \A r \in Relays : f \notin held[r]
          BY <1>2, <3>1 DEF Took
        <4>2. CASE got' = [got EXCEPT ![f] = Append(@, Home)] /\ UNCHANGED << held, dropped, wasted >>
          <5>1. got'[f] = Append(got[f], Home)
            BY <1>1, <4>2 DEF FieldsOK
          <5>2. QED
            BY <2>3, <4>1, <4>2, <5>1, HomeIsOne
        <4>3. CASE got' = got
          BY <1>1, <1>5, <2>2, <4>1, <4>3, HomeIsOne DEF FieldsOK
        <4>4. QED
          BY <1>5, <4>2, <4>3
    <2>9. FrameOK(f)'
      BY <2>1, <2>6, <2>8, HomeIsOne DEF FrameOK, Took, Accounted
    <2>10. QED
      BY <2>4, <2>5, <2>6, <2>7, <2>9, TaskKeeps
  <1>6. ASSUME t' = Begins(t), task' = [task EXCEPT ![f] = t'], UNCHANGED << held, got, dropped, wasted >>
        PROVE  FedInv'
    <2>1. /\ t' \in Task /\ t'.pc \in {"lookup", "hinted"} /\ t'.round = t.round /\ t'.queued = {} /\ t'.delivered = {}
          /\ t'.timely /\ ~ t'.refreshed
          /\ t'.pc = "lookup" => t'.attempted = t.attempted /\ t'.open = {}
          /\ t'.pc = "hinted" => \E h \in Others : t'.attempted = t.attempted \cup {h} /\ t'.open = {h}
      <3>1. hint \in Others \cup {None}
        BY <1>1 DEF FieldsOK
      <3>2. LET b == Begins(t) IN
           /\ b \in Task /\ b.round = t.round /\ b.queued = {} /\ b.delivered = t.delivered
           /\ b.timely = t.timely /\ b.refreshed = t.refreshed
           /\ \/ b.pc = "lookup" /\ b.attempted = t.attempted /\ b.open = t.open
              \/ \E h \in Others \ t.attempted :
                    b.pc = "hinted" /\ b.attempted = t.attempted \cup {h} /\ b.open = {h}
        BY <1>1, <3>1, BeginsIs
      <3>3. QED
        BY <1>2, <1>6, <3>2
    <2>2. FieldsOK' /\ OneSocket'
      <3>1. task' \in [Frames -> Task]
        BY <1>1, <1>6, <2>1 DEF FieldsOK
      <3>2. QED
        BY <1>1, <1>3, <1>4, <1>6, <3>1 DEF FieldsOK, OneSocket, peerVars
    <2>3. Only(f) /\ task'[f] = t'
      BY <1>1, <1>6 DEF FieldsOK, Only
    <2>4. CallsOK(t')
      BY <1>2, <2>1 DEF CallsOK, Asked
    <2>5. FrameOK(f)'
      BY <1>1, <1>2, <1>6, <2>1, <2>3 DEF FrameOK, Took
    <2>6. QED
      BY <2>2, <2>3, <2>4, <2>5, TaskKeeps
  <1>7. QED
    <2>1. task \in [Frames -> Task]
      BY <1>1 DEF FieldsOK
    <2>2. CASE task' = [task EXCEPT ![f].pc = "over"]
      <3>1. t' = [t EXCEPT !.pc = "over"] /\ task' = [task EXCEPT ![f] = t']
        BY <2>1, <2>2
      <3>2. \/ got' = [got EXCEPT ![f] = Append(@, Home)] /\ UNCHANGED << held, dropped, wasted >>
            \/ wasted' = wasted \cup {f} /\ UNCHANGED << held, got, dropped >>
            \/ held' = [held EXCEPT ![Home] = @ \cup {f}] /\ UNCHANGED << got, dropped, wasted >>
            \/ dropped' = dropped \cup {f} /\ UNCHANGED << held, got, wasted >>
            \/ task' = [task EXCEPT ![f] = Begins(@)] /\ UNCHANGED << held, got, dropped, wasted >>
        BY DEF Start
      <3>3. task' = [task EXCEPT ![f] = Begins(@)] => t' = Begins(t)
        BY <2>1
      <3>4. QED
        BY <1>5, <1>6, <3>1, <3>2, <3>3
    <2>3. CASE task' = [task EXCEPT ![f] = Begins(@)] /\ UNCHANGED << held, got, dropped, wasted >>
      <3>1. t' = Begins(t) /\ task' = [task EXCEPT ![f] = t']
        BY <2>1, <2>3
      <3>2. QED
        BY <1>6, <2>3, <3>1
    <2>4. QED
      BY <2>2, <2>3, Zenon DEF Start

LEMMA UpsetTypes ==
    ASSUME FieldsOK, NEW f \in Frames, Upset(f)
    PROVE  spent' \in Counts /\ blind' \subseteq Frames
  BY CountsMade DEF Upset, FieldsOK

LEMMA GotOne ==
    ASSUME FieldsOK, NEW f \in Frames, NEW r \in Relays, got' = [got EXCEPT ![f] = Append(@, r)]
    PROVE  /\ got' \in [Frames -> Seq(Relays)] /\ got'[f] = Append(got[f], r)
           /\ \A g \in Frames \ {f} : got'[g] = got[g]
  <1>1. got \in [Frames -> Seq(Relays)] /\ Append(got[f], r) \in Seq(Relays)
    BY DEF FieldsOK
  <1>2. QED
    BY <1>1

LEMMA HeldOne ==
    ASSUME FieldsOK, NEW f \in Frames, NEW r \in Relays, held' = [held EXCEPT ![r] = @ \cup {f}]
    PROVE  /\ held' \in [Relays -> SUBSET Frames]
           /\ \A g \in Frames \ {f} : \A o \in Relays : g \in held'[o] <=> g \in held[o]
           /\ \A o \in Relays : f \in held'[o] <=> f \in held[o] \/ o = r
  BY DEF FieldsOK

LEMMA AnswerKeeps ==
    ASSUME FedInv, NEW f \in Frames, NEW r \in Others, Answer(f, r)
    PROVE  FedInv'
  <1> DEFINE t == task[f]
  <1>1. FieldsOK /\ OneSocket /\ CallsOK(t) /\ FrameOK(f) /\ t \in Task /\ r \in t.open /\ r \in Relays
    BY HomeIsOne DEF FedInv, FieldsOK, Answer
  <1>2. ~ Took(f, r) /\ got[f] \in Seq(Relays) /\ t.pc \notin {"new", "lookup", "over"} /\ r # Home
        /\ r \in Asked(t)
    BY <1>1, HomeIsOne DEF FrameOK, FieldsOK, CallsOK
  <1>3. PICK result \in {Outcome(r), "failed"} :
           /\ IF result = Outcome(r) THEN UNCHANGED << blind, spent >> ELSE Upset(f)
           /\ task' = [task EXCEPT ![f] =
                 [t EXCEPT !.open = @ \ {r},
                           !.queued = IF result = "queued" THEN @ \cup {r} ELSE @,
                           !.delivered = IF result = "delivered" THEN @ \cup {r} ELSE @,
                           !.pc = IF @ # "hinted" THEN @ ELSE IF result = "delivered" THEN "over" ELSE "lookup"]]
    BY DEF Answer
  <1>4. /\ t'.pc = (IF t.pc # "hinted" THEN t.pc ELSE IF result = "delivered" THEN "over" ELSE "lookup")
        /\ t'.open = t.open \ {r} /\ t'.attempted = t.attempted /\ t'.round = t.round
        /\ t'.queued = (IF result = "queued" THEN t.queued \cup {r} ELSE t.queued)
        /\ t'.delivered = (IF result = "delivered" THEN t.delivered \cup {r} ELSE t.delivered)
        /\ t'.refreshed = t.refreshed /\ t'.timely = t.timely
        /\ t' \in Task /\ task' = [task EXCEPT ![f] = t']
    <2> DEFINE u == [t EXCEPT !.open = @ \ {r},
                           !.queued = IF result = "queued" THEN @ \cup {r} ELSE @,
                           !.delivered = IF result = "delivered" THEN @ \cup {r} ELSE @,
                           !.pc = IF @ # "hinted" THEN @ ELSE IF result = "delivered" THEN "over" ELSE "lookup"]
    <2>1. /\ u.pc = (IF t.pc # "hinted" THEN t.pc ELSE IF result = "delivered" THEN "over" ELSE "lookup")
          /\ u.open = t.open \ {r} /\ u.attempted = t.attempted /\ u.round = t.round
          /\ u.queued = (IF result = "queued" THEN t.queued \cup {r} ELSE t.queued)
          /\ u.delivered = (IF result = "delivered" THEN t.delivered \cup {r} ELSE t.delivered)
          /\ u.refreshed = t.refreshed /\ u.timely = t.timely
      BY <1>1 DEF Task
    <2>2. u \in Task
      BY <1>1 DEF Task
    <2>3. task' = [task EXCEPT ![f] = u]
      BY <1>3
    <2> HIDE DEF u
    <2>4. t' = u
      BY <1>1, <2>3 DEF FieldsOK
    <2>5. QED
      BY <2>1, <2>2, <2>3, <2>4
  <1>5. /\ peer[r] = "live" => got' = [got EXCEPT ![f] = Append(@, r)]
        /\ peer[r] # "live" => got' = got
        /\ peer[r] = "dead" => wasted' = wasted \cup {f}
        /\ peer[r] # "dead" => wasted' = wasted
        /\ Outcome(r) = "queued" => held' = [held EXCEPT ![r] = @ \cup {f}]
        /\ Outcome(r) # "queued" => held' = held
        /\ UNCHANGED << peerVars, gone, hint, cache, dropped, steady >>
    BY DEF Answer
  <1>6. /\ Outcome(r) = "queued" => peer[r] \notin {"live", "dead"}
        /\ Outcome(r) = "delivered" => peer[r] \in {"live", "dead"}
        /\ Outcome(r) # "failed" => result \in {Outcome(r), "failed"}
        /\ result = "queued" => Outcome(r) = "queued"
        /\ result = "delivered" => Outcome(r) = "delivered"
    BY <1>3 DEF Outcome
  <1>7. /\ Append(got[f], r) \in Seq(Relays) /\ Append(got[f], r) # << >>
        /\ ToSet(Append(got[f], r)) = ToSet(got[f]) \cup {r}
        /\ IsInjective(Append(got[f], r))
    BY <1>1, <1>2, HandedOnce DEF FrameOK, Took
  <1>8. /\ got' \in [Frames -> Seq(Relays)] /\ held' \in [Relays -> SUBSET Frames]
        /\ wasted' \subseteq Frames
        /\ \A g \in Frames \ {f} : got'[g] = got[g]
        /\ \A g \in Frames \ {f} : \A o \in Relays : g \in held'[o] <=> g \in held[o]
        /\ wasted \subseteq wasted'
    <2>1. got' \in [Frames -> Seq(Relays)] /\ \A g \in Frames \ {f} : got'[g] = got[g]
      <3>1. CASE peer[r] = "live"
        BY <1>1, <1>5, <3>1, GotOne
      <3>2. CASE peer[r] # "live"
        BY <1>1, <1>5, <3>2 DEF FieldsOK
      <3>3. QED
        BY <3>1, <3>2
    <2>2. held' \in [Relays -> SUBSET Frames] /\ \A g \in Frames \ {f} : \A o \in Relays : g \in held'[o] <=> g \in held[o]
      <3>1. CASE Outcome(r) = "queued"
        BY <1>1, <1>5, <3>1, HeldOne
      <3>2. CASE Outcome(r) # "queued"
        BY <1>1, <1>5, <3>2 DEF FieldsOK
      <3>3. QED
        BY <3>1, <3>2
    <2>3. wasted' \subseteq Frames /\ wasted \subseteq wasted'
      BY <1>1, <1>5 DEF FieldsOK
    <2>4. QED
      BY <2>1, <2>2, <2>3
  <1>9. FieldsOK' /\ OneSocket'
    <2>1. spent' \in Counts /\ blind' \subseteq Frames
      BY <1>1, <1>3, UpsetTypes DEF FieldsOK
    <2>2. task' \in [Frames -> Task]
      BY <1>1, <1>4 DEF FieldsOK
    <2>3. QED
      BY <1>1, <1>5, <1>8, <2>1, <2>2 DEF FieldsOK, OneSocket, peerVars
  <1>10. Only(f)
    <2>1. \A g \in Frames \ {f} : task'[g] = task[g]
      BY <1>1, <1>4 DEF FieldsOK
    <2>2. QED
      BY <1>5, <1>8, <2>1 DEF Only
  <1>11. CallsOK(t')
    BY <1>1, <1>2, <1>4 DEF CallsOK, Asked
  <1>12. /\ ToSet(got'[f]) = (IF peer[r] = "live" THEN ToSet(got[f]) \cup {r} ELSE ToSet(got[f]))
         /\ \A o \in Relays : f \in held'[o] <=> f \in held[o] \/ (o = r /\ Outcome(r) = "queued")
         /\ peer[r] = "live" => got'[f] # << >>
         /\ got[f] # << >> => got'[f] # << >>
         /\ IsInjective(got'[f])
    <2>1. /\ peer[r] = "live" => got'[f] = Append(got[f], r)
          /\ peer[r] # "live" => got'[f] = got[f]
      BY <1>1, <1>5 DEF FieldsOK
    <2>2. \A o \in Relays : f \in held'[o] <=> f \in held[o] \/ (o = r /\ Outcome(r) = "queued")
      BY <1>1, <1>5 DEF FieldsOK
    <2>3. IsInjective(got[f])
      BY <1>1 DEF FrameOK
    <2>4. QED
      BY <1>7, <2>1, <2>2, <2>3
  <1>13. FrameOK(f)'
    <2>1. ASSUME NEW o \in Relays, Took(f, o)'
          PROVE  \/ o \in Asked(t') \ t'.open
                 \/ o = Home /\ (t'.pc = "over" \/ ~ t'.timely)
      <3>1. CASE o = r
        <4>1. Asked(t') = Asked(t) /\ r \notin t'.open
          BY <1>4 DEF Asked
        <4>2. r \in Asked(t)
          BY <1>2
        <4>3. QED
          BY <3>1, <4>1, <4>2, Zenon
      <3>2. CASE o # r
        <4>1. Took(f, o)
          BY <1>12, <2>1, <3>2 DEF Took
        <4>2. \/ o \in Asked(t) \ t.open
              \/ o = Home /\ (t.pc = "over" \/ ~ t.timely)
          <5>1. \A v \in Relays : Took(f, v) =>
                   \/ v \in Asked(task[f]) \ task[f].open
                   \/ v = Home /\ (task[f].pc = "over" \/ ~ task[f].timely)
            BY <1>1 DEF FrameOK
          <5>2. QED
            BY <4>1, <5>1
        <4>3. QED
          BY <1>2, <1>4, <3>2, <4>2 DEF Asked
      <3>3. QED
        BY <3>1, <3>2
    <2>2. \A o \in Relays : ~ (o \in ToSet(got'[f]) /\ f \in held'[o])
      <3>1. \A o \in Relays : ~ (o \in ToSet(got[f]) /\ f \in held[o])
        BY <1>1 DEF FrameOK
      <3>2. QED
        BY <1>2, <1>6, <1>12, <3>1 DEF Took
    <2>3. t'.delivered # {} => got'[f] # << >> \/ f \in wasted'
      <3>1. t.delivered # {} => got[f] # << >> \/ f \in wasted
        BY <1>1 DEF FrameOK
      <3>2. QED
        BY <1>4, <1>5, <1>6, <1>12, <3>1
    <2>4. t'.queued # {} => got'[f] # << >> \/ \E o \in Others : f \in held'[o]
      <3>1. t.queued # {} => got[f] # << >> \/ \E o \in Others : f \in held[o]
        BY <1>1 DEF FrameOK
      <3>2. QED
        BY <1>4, <1>6, <1>12, <3>1, HomeIsOne
    <2>5. t'.pc = "over" \/ ~ t'.timely => Accounted(f)'
      <3>1. CASE t'.pc = "over"
        BY <1>2, <1>4, <1>5, <1>6, <1>12, <3>1 DEF Accounted
      <3>2. CASE ~ t'.timely
        BY <1>1, <1>4, <1>5, <1>12, <3>2 DEF FrameOK, Accounted
      <3>3. QED
        BY <3>1, <3>2
    <2> HIDE DEF t
    <2>6. QED
      BY <1>12, <2>1, <2>2, <2>3, <2>4, <2>5 DEF FrameOK, t
  <1>14. QED
    BY <1>9, <1>10, <1>11, <1>13, TaskKeeps

\* A task that ends, or is late, undelivered leaves the frame at Home.
LEMMA HeldAtHome ==
    ASSUME FedInv, NEW f \in Frames, held' = Held(held, f, task[f]), task[f].pc # "over",
           UNCHANGED << got, dropped, wasted >>,
           task'[f].pc = "over" \/ ~ task'[f].timely,
           Asked(task'[f]) = Asked(task[f]), task'[f].open = task[f].open,
           task'[f].queued = task[f].queued, task'[f].delivered = task[f].delivered
    PROVE  /\ FrameOK(f)' /\ held' \in [Relays -> SUBSET Frames]
           /\ \A g \in Frames \ {f} : \A o \in Relays : g \in held'[o] <=> g \in held[o]
  <1>1. FieldsOK /\ FrameOK(f) /\ (task[f].timely => ~ Took(f, Home))
    BY NotAtHome DEF FedInv
  <1>2. /\ held' \in [Relays -> SUBSET Frames]
        /\ \A g \in Frames \ {f} : \A o \in Relays : g \in held'[o] <=> g \in held[o]
        /\ \A o \in Relays : f \in held'[o] <=> f \in held[o] \/ (o = Home /\ task[f].timely)
    BY <1>1, HomeIsOne DEF FieldsOK, Held
  <1>3. Accounted(f)'
    BY <1>1, <1>2, HomeIsOne DEF FrameOK, Accounted
  <1>4. FrameOK(f)'
    BY <1>1, <1>2, <1>3, HomeIsOne DEF FrameOK, Took
  <1>5. QED
    BY <1>2, <1>4

\* A step of a task that hands nothing over, and queues nothing.
LEMMA PlainKeeps ==
    ASSUME FedInv, NEW f \in Frames, NEW u \in Task, task' = [task EXCEPT ![f] = u],
           UNCHANGED << peerVars, held, got, dropped, wasted, blind, steady, spent >>,
           gone' \in BOOLEAN, hint' \in Others \cup {None}, cache' \in Caches,
           CallsOK(u), u.timely = task[f].timely, task[f].pc # "over",
           Asked(task[f]) \ task[f].open \subseteq Asked(u) \ u.open,
           u.pc = "over" => Accounted(f),
           u.queued # {} => task[f].queued # {}, u.delivered # {} => task[f].delivered # {}
    PROVE  FedInv'
  <1>1. FieldsOK /\ OneSocket /\ FrameOK(f)
    BY DEF FedInv
  <1>2. task'[f] = u /\ task' \in [Frames -> Task] /\ \A g \in Frames \ {f} : task'[g] = task[g]
    BY <1>1 DEF FieldsOK
  <1>3. FieldsOK' /\ OneSocket'
    BY <1>1, <1>2 DEF FieldsOK, OneSocket, peerVars
  <1>4. Only(f)
    BY <1>2 DEF Only
  <1>5. FrameOK(f)'
    <2>1. /\ \A r \in Relays : Took(f, r)' <=> Took(f, r)
          /\ Accounted(f)' <=> Accounted(f)
      BY DEF Took, Accounted
    <2>2. \A r \in Relays : Took(f, r)' =>
             \/ r \in Asked(u) \ u.open
             \/ r = Home /\ (u.pc = "over" \/ ~ u.timely)
      BY <1>1, <2>1 DEF FrameOK
    <2>3. u.pc = "over" \/ ~ u.timely => Accounted(f)'
      BY <1>1, <2>1 DEF FrameOK
    <2>4. QED
      BY <1>1, <1>2, <2>2, <2>3 DEF FrameOK
  <1>6. QED
    BY <1>2, <1>3, <1>4, <1>5, TaskKeeps

\* A task that ends, or is late, undelivered.
LEMMA HeldKeeps ==
    ASSUME FedInv, NEW f \in Frames, NEW u \in Task, task' = [task EXCEPT ![f] = u],
           held' = Held(held, f, task[f]), task[f].pc # "over",
           UNCHANGED << peerVars, gone, hint, cache, got, dropped, wasted, steady >>,
           spent' \in Counts, blind' \subseteq Frames,
           CallsOK(u), u.pc = "over" \/ ~ u.timely, Asked(u) = Asked(task[f]), u.open = task[f].open,
           u.queued = task[f].queued, u.delivered = task[f].delivered
    PROVE  FedInv'
  <1>1. FieldsOK /\ OneSocket
    BY DEF FedInv
  <1>2. task'[f] = u /\ task' \in [Frames -> Task] /\ \A g \in Frames \ {f} : task'[g] = task[g]
    BY <1>1 DEF FieldsOK
  <1>3. /\ FrameOK(f)' /\ held' \in [Relays -> SUBSET Frames]
        /\ \A g \in Frames \ {f} : \A o \in Relays : g \in held'[o] <=> g \in held[o]
    BY <1>2, HeldAtHome
  <1>4. FieldsOK' /\ OneSocket'
    BY <1>1, <1>2, <1>3 DEF FieldsOK, OneSocket, peerVars
  <1>5. Only(f)
    BY <1>2, <1>3 DEF Only
  <1>6. QED
    BY <1>2, <1>3, <1>4, <1>5, TaskKeeps

LEMMA LookupKeeps ==
    ASSUME FedInv, NEW f \in Frames, Lookup(f)
    PROVE  FedInv'
  <1> DEFINE t == task[f]
  <1>1. FieldsOK /\ CallsOK(t) /\ FrameOK(f) /\ t \in Task /\ t.pc = "lookup"
    BY DEF FedInv, FieldsOK, Lookup
  <1>2. t.open = {} /\ t.round = {} /\ t.attempted \subseteq Others /\ t.delivered \subseteq t.attempted
    BY <1>1 DEF CallsOK, Asked
  <1>3. UNCHANGED << peerVars, gone, hint, held, got, dropped, wasted, blind, steady, spent >>
    BY DEF Lookup
  <1>4. cache' \in Caches /\ gone' \in BOOLEAN /\ hint' \in Others \cup {None} /\ Providers \subseteq Relays
    BY <1>1, <1>3 DEF Lookup, FieldsOK, Caches, Providers
  <1>5. CASE t.queued \cap Providers # {} /\ task' = [task EXCEPT ![f].pc = "over"]
    <2> DEFINE u == [t EXCEPT !.pc = "over"]
    <2>1. /\ u \in Task /\ u.pc = "over" /\ Asked(u) = Asked(t) /\ u.open = t.open
          /\ u.queued = t.queued /\ u.delivered = t.delivered /\ u.timely = t.timely
      BY <1>1, TaskOver
    <2>2. Accounted(f)
      BY <1>1, <1>5, HomeIsOne DEF FrameOK, Accounted
    <2>3. task' = [task EXCEPT ![f] = u]
      BY <1>1, <1>5 DEF FieldsOK
    <2> HIDE DEF u
    <2>4. CallsOK(u)
      BY <1>1, <1>2, <2>1 DEF CallsOK
    <2>5. QED
      BY <1>1, <1>3, <1>4, <2>1, <2>2, <2>3, <2>4, PlainKeeps
  <1>6. ASSUME NEW S \in SUBSET ((Providers \ {Home}) \ t.attempted),
               task' = [task EXCEPT ![f] = [t EXCEPT !.pc = "asking", !.open = S, !.round = S, !.queued = {}]]
        PROVE  FedInv'
    <2> DEFINE u == [t EXCEPT !.pc = "asking", !.open = S, !.round = S, !.queued = {}]
    <2>1. S \subseteq Others /\ S \cap t.attempted = {}
      BY <1>4 DEF Others
    <2>2. u \in Task
      BY <1>1, <2>1, HomeIsOne DEF Task
    <2>3. /\ u.pc = "asking" /\ u.open = S /\ u.round = S /\ u.queued = {} /\ u.attempted = t.attempted
          /\ u.delivered = t.delivered /\ u.timely = t.timely
      BY <1>1 DEF Task
    <2>4. task' = [task EXCEPT ![f] = u]
      BY <1>6
    <2> HIDE DEF u
    <2>5. CallsOK(u) /\ Asked(t) \ t.open \subseteq Asked(u) \ u.open
      BY <1>2, <2>1, <2>3 DEF CallsOK, Asked
    <2>6. QED
      BY <1>1, <1>3, <1>4, <2>2, <2>3, <2>4, <2>5, PlainKeeps
  <1>7. QED
    <2>1. CASE t.queued \cap Providers # {}
      BY <1>5, <2>1 DEF Lookup
    <2>2. CASE ~ (t.queued \cap Providers # {})
      BY <1>6, <2>2, Zenon DEF Lookup
    <2>3. QED
      BY <2>1, <2>2

LEMMA LookupFailsKeeps ==
    ASSUME FedInv, NEW f \in Frames, LookupFails(f)
    PROVE  FedInv'
  <1> DEFINE t == task[f]
             u == [t EXCEPT !.pc = "over"]
  <1>1. FieldsOK /\ CallsOK(t) /\ t \in Task /\ t.pc = "lookup"
    BY DEF FedInv, FieldsOK, LookupFails
  <1>2. /\ u \in Task /\ u.pc = "over" /\ Asked(u) = Asked(t) /\ u.open = t.open
        /\ u.queued = t.queued /\ u.delivered = t.delivered
    BY <1>1, TaskOver
  <1>3. task' = [task EXCEPT ![f] = u]
    BY <1>1 DEF LookupFails, FieldsOK
  <1>4. spent' \in Counts /\ blind' \subseteq Frames
    BY <1>1, UpsetTypes DEF LookupFails
  <1>5. held' = Held(held, f, t) /\ UNCHANGED << peerVars, gone, hint, cache, got, dropped, wasted, steady >>
    BY DEF LookupFails
  <1> HIDE DEF u
  <1>6. CallsOK(u)
    BY <1>1, <1>2 DEF CallsOK
  <1>7. QED
    BY <1>1, <1>2, <1>3, <1>4, <1>5, <1>6, HeldKeeps

LEMMA DeadlineKeeps ==
    ASSUME FedInv, NEW f \in Frames, Deadline(f)
    PROVE  FedInv'
  <1> DEFINE t == task[f]
             u == [t EXCEPT !.timely = FALSE]
  <1>1. FieldsOK /\ CallsOK(t) /\ t \in Task /\ t.pc \in {"hinted", "lookup", "asking"}
    BY DEF FedInv, FieldsOK, Deadline
  <1>2. /\ u \in Task /\ u.pc = t.pc /\ Asked(u) = Asked(t) /\ u.open = t.open /\ ~ u.timely
        /\ u.queued = t.queued /\ u.delivered = t.delivered /\ u.round = t.round
    BY <1>1 DEF Task, Asked
  <1>3. task' = [task EXCEPT ![f] = u]
    BY <1>1 DEF Deadline, FieldsOK
  <1>4. spent' \in Counts /\ blind' \subseteq Frames
    BY <1>1, UpsetTypes DEF Deadline
  <1>5. held' = Held(held, f, t) /\ UNCHANGED << peerVars, gone, hint, cache, got, dropped, wasted, steady >>
    BY DEF Deadline
  <1> HIDE DEF u
  <1>6. CallsOK(u)
    BY <1>1, <1>2 DEF CallsOK
  <1>7. QED
    BY <1>1, <1>2, <1>3, <1>4, <1>5, <1>6, HeldKeeps

LEMMA ConcludeKeeps ==
    ASSUME FedInv, NEW f \in Frames, Conclude(f)
    PROVE  FedInv'
  <1> DEFINE t == task[f]
             over == [t EXCEPT !.pc = "over"]
  <1>1. FieldsOK /\ CallsOK(t) /\ FrameOK(f) /\ t \in Task /\ t.pc = "asking" /\ t.open = {}
    BY DEF FedInv, FieldsOK, Conclude
  <1>2. UNCHANGED << peerVars, got, dropped, wasted, blind, steady, spent >>
    BY DEF Conclude
  <1>3. /\ over \in Task /\ over.pc = "over" /\ Asked(over) = Asked(t) /\ over.open = t.open
        /\ over.queued = t.queued /\ over.delivered = t.delivered /\ over.timely = t.timely
    BY <1>1, TaskOver
  <1>4. task' = [task EXCEPT ![f].pc = "over"] => task' = [task EXCEPT ![f] = over]
    BY <1>1 DEF FieldsOK
  <1> HIDE DEF over
  <1>5. CallsOK(over)
    BY <1>1, <1>3 DEF CallsOK
  <1>6. CASE t.delivered # {} \/ t.queued # {}
    <2>1. Accounted(f)
      BY <1>1, <1>6, HomeIsOne DEF FrameOK, Accounted
    <2>2. /\ task' = [task EXCEPT ![f] = over] /\ UNCHANGED << cache, held >>
          /\ hint' \in Others \cup {None} /\ gone' \in BOOLEAN
      <3>1. \A r \in t.delivered : r \in Others
        <4>1. t.delivered \subseteq Others
          BY <1>1 DEF CallsOK
        <4>2. QED
          BY <4>1
      <3>2. QED
        BY <1>1, <1>4, <1>6, <3>1 DEF Conclude, Remember, FieldsOK
    <2>3. QED
      BY <1>1, <1>2, <1>3, <1>5, <2>1, <2>2, PlainKeeps DEF FieldsOK
  <1>7. CASE t.delivered = {} /\ t.queued = {} /\ Refreshes(t)
    <2> DEFINE n == [t EXCEPT !.attempted = Attempted(t), !.round = {}, !.refreshed = TRUE]
               u == Begins(n)
    <2>1. cache' = NoCache /\ task' = [task EXCEPT ![f] = u] /\ UNCHANGED << gone, hint, held >>
      BY <1>7 DEF Conclude
    <2>2. /\ n \in Task /\ n.pc = "asking" /\ n.attempted = Asked(t) /\ n.round = {} /\ n.open = {}
          /\ n.delivered = {} /\ n.timely = t.timely
      <3>1. Attempted(t) \in SUBSET Relays
        BY <1>1 DEF Attempted, Task
      <3>2. QED
        BY <1>1, <1>7, <3>1 DEF Task, Asked, Attempted
    <2>3. hint \in Others \cup {None}
      BY <1>1 DEF FieldsOK
    <2> HIDE DEF n
    <2>4. /\ u \in Task /\ u.round = {} /\ u.queued = {} /\ u.delivered = {} /\ u.timely = t.timely
          /\ u.pc \in {"lookup", "hinted"}
          /\ u.pc = "lookup" => u.attempted = Asked(t) /\ u.open = {}
          /\ u.pc = "hinted" => \E h \in Others \ Asked(t) : u.attempted = Asked(t) \cup {h} /\ u.open = {h}
      <3>1. LET b == Begins(n) IN
           /\ b \in Task /\ b.round = n.round /\ b.queued = {} /\ b.delivered = n.delivered
           /\ b.timely = n.timely /\ b.refreshed = n.refreshed
           /\ \/ b.pc = "lookup" /\ b.attempted = n.attempted /\ b.open = n.open
              \/ \E h \in Others \ n.attempted :
                    b.pc = "hinted" /\ b.attempted = n.attempted \cup {h} /\ b.open = {h}
        BY <2>2, <2>3, BeginsIs
      <3>2. QED
        BY <2>2, <3>1
    <2> HIDE DEF u
    <2>5. CallsOK(u) /\ Asked(t) \ t.open \subseteq Asked(u) \ u.open
      <3>1. Asked(t) \subseteq Others
        BY <1>1 DEF CallsOK
      <3>2. CASE u.pc = "lookup"
        BY <1>1, <2>4, <3>1, <3>2 DEF CallsOK, Asked
      <3>3. CASE u.pc = "hinted"
        BY <1>1, <2>4, <3>1, <3>3 DEF CallsOK, Asked
      <3>4. QED
        BY <2>4, <3>2, <3>3
    <2>6. cache' \in Caches /\ hint' \in Others \cup {None} /\ gone' \in BOOLEAN
      BY <1>1, <2>1 DEF FieldsOK, Caches, NoCache
    <2>7. QED
      BY <1>1, <1>2, <2>1, <2>4, <2>5, <2>6, PlainKeeps
  <1>8. CASE t.delivered = {} /\ t.queued = {} /\ ~ Refreshes(t)
    <2>1. task' = [task EXCEPT ![f] = over] /\ held' = Held(held, f, t) /\ UNCHANGED << gone, hint, cache >>
      BY <1>4, <1>8 DEF Conclude, Ends
    <2>2. spent' \in Counts /\ blind' \subseteq Frames
      BY <1>1, <1>2 DEF FieldsOK
    <2>3. QED
      BY <1>1, <1>2, <1>3, <1>5, <2>1, <2>2, HeldKeeps
  <1>9. QED
    BY <1>6, <1>7, <1>8

LEMMA FedInit == Init => FedInv
  <1> SUFFICES ASSUME Init PROVE FedInv
    OBVIOUS
  <1> DEFINE new == [pc |-> "new", attempted |-> {}, open |-> {}, round |-> {}, queued |-> {},
                     delivered |-> {}, refreshed |-> FALSE, timely |-> TRUE]
  <1>1. new \in Task
    BY DEF Task
  <1>2. \A f \in Frames : task[f] = new /\ got[f] = << >> /\ \A r \in Relays : held[r] = {}
    BY DEF Init
  <1>3. FieldsOK
    <2>1. [moves |-> 0, upsets |-> 0] \in Counts /\ NoCache \in Caches /\ 0 \in 0 .. MaxMoves
      BY DEF Counts, Caches, NoCache
    <2>2. serves \subseteq Relays
      BY DEF Init, Others
    <2>3. got \in [Frames -> Seq(Relays)]
      BY NothingHanded DEF Init
    <2>4. task \in [Frames -> Task]
      BY <1>1 DEF Init
    <2> HIDE DEF new
    <2>5. QED
      BY <2>1, <2>2, <2>3, <2>4 DEF Init, FieldsOK
  <1>4. OneSocket
    BY DEF Init, OneSocket
  <1>5. ASSUME NEW f \in Frames PROVE CallsOK(task[f]) /\ FrameOK(f)
    <2>1. CallsOK(task[f])
      BY <1>2 DEF CallsOK, Asked
    <2>2. FrameOK(f)
      BY <1>2, NothingHanded DEF FrameOK, Took, Accounted
    <2>3. QED
      BY <2>1, <2>2
  <1>6. QED
    BY <1>3, <1>4, <1>5 DEF FedInv

LEMMA FedNext == FedInv /\ [Next]_vars => FedInv'
  <1> SUFFICES ASSUME FedInv, [Next]_vars PROVE FedInv'
    OBVIOUS
  <1>1. CASE World
    BY <1>1, WorldFields, WorldKeeps
  <1>2. ASSUME NEW r \in Relays, Collect(r) PROVE FedInv'
    BY <1>2, CollectKeeps
  <1>3. ASSUME NEW f \in Frames,
               \/ Start(f) \/ Lookup(f) \/ LookupFails(f) \/ Conclude(f) \/ Deadline(f)
               \/ \E r \in Others : Answer(f, r)
        PROVE  FedInv'
    BY <1>3, StartKeeps, LookupKeeps, LookupFailsKeeps, ConcludeKeeps, DeadlineKeeps, AnswerKeeps, Zenon
  <1>4. CASE UNCHANGED vars
    <2>1. FieldsOK' /\ OneSocket'
      BY <1>4 DEF FedInv, FieldsOK, OneSocket, vars, peerVars
    <2>2. QED
      BY <1>4, <2>1, WorldKeeps DEF vars
  <1>5. QED
    <2>1. CASE Next
      <3>1. World \/ (\E r \in Relays : Collect(r))
               \/ \E f \in Frames :
                     \/ Start(f) \/ Lookup(f) \/ LookupFails(f) \/ Conclude(f) \/ Deadline(f)
                     \/ \E r \in Others : Answer(f, r)
        BY <2>1, Zenon DEF Next, World
      <3>2. QED
        BY <1>1, <1>2, <1>3, <3>1, Zenon
    <2>2. QED
      BY <1>4, <2>1

\* The relays, what they remember and the tasks stay within their types, and a peer
\* has one socket that works.
THEOREM FederationTypeCorrect == Spec => []TypeOK
  <1>1. FedInv => TypeOK
    BY FieldsAre DEF FedInv
  <1>2. QED
    BY FedInit, FedNext, <1>1, PTL DEF Spec

\* Whatever is lost, late, repeated or asked again, no relay hands a frame to the peer
\* twice, and no task ends with its frame neither handed over nor queued, dropped for
\* a goodbye or sent on a dead socket.
THEOREM FramesKept == Spec => []FramesAreKept
  <1>1. FedInv => NoRelayDeliversTwice
    BY DEF FedInv, FrameOK, NoRelayDeliversTwice
  <1>2. FedInv => NothingForgotten
    BY DEF FedInv, FrameOK, Accounted, NothingForgotten
  <1>3. FedInv => FramesAreKept
    BY <1>1, <1>2 DEF FramesAreKept
  <1>4. QED
    BY FedInit, FedNext, <1>3, PTL DEF Spec

-----------------------------------------------------------------------------
(* A live route *)

\* Unless a socket ends, or a task begins, what tasks count on is as it was.
SocketKept ==
    /\ steady' = steady
    /\ \A o \in Relays : peer[o] = "live" => peer'[o] = "live"
    /\ serves \subseteq serves'

\* A lookup is repeated, ages, is forgotten or stays as it was.
CacheKept ==
    \/ cache' = cache
    \/ cache'.age = "none"
    \/ cache'.at = cache.at /\ cache.age # "none"
    \/ cache.age = "none" /\ cache'.at = serves

LEMMA SteadyWorld ==
    ASSUME FedInv, World, NEW f \in Frames, SteadyOK(f)
    PROVE  SteadyOK(f)'
  <1>1. FieldsOK /\ UNCHANGED << task, got >>
    BY WorldFields DEF FedInv
  <1>2. ASSUME SocketKept, cache' = cache PROVE SteadyOK(f)'
    BY <1>1, <1>2, HomeIsOne DEF SteadyOK, SocketKept, Asked
  <1>3. ASSUME SocketKept, CacheKept PROVE SteadyOK(f)'
    BY <1>1, <1>3, HomeIsOne DEF SteadyOK, SocketKept, CacheKept, Asked, peerVars
  <1>4. ASSUME NEW r \in Relays, Unsteady(r), UNCHANGED << serves, cache >>,
               \A o \in Relays \ {r} : peer'[o] = peer[o]
        PROVE  SteadyOK(f)'
    <2>1. steady'[f] # None => steady'[f] = steady[f] /\ steady[f] # r
      BY <1>4 DEF Unsteady
    <2>2. QED
      BY <1>1, <1>4, <2>1, HomeIsOne DEF SteadyOK, Asked
  <1>5. ASSUME NEW r \in Relays,
               \/ Arrive(r) \/ Publish(r) \/ Forgets(r) \/ Unlist(r) \/ FrameFrom(r)
        PROVE  SteadyOK(f)'
    <2>1. cache' = cache /\ steady' = steady /\ serves \subseteq serves'
      BY <1>5 DEF Arrive, Publish, Forgets, Unlist, FrameFrom, Remember, peerVars
    <2>2. \A o \in Relays : peer[o] = "live" => peer'[o] = "live"
      BY <1>1, <1>5 DEF Arrive, Publish, Forgets, Unlist, FrameFrom, Remember, peerVars, FieldsOK
    <2>3. QED
      BY <1>2, <2>1, <2>2 DEF SocketKept
  <1>6. ASSUME NEW r \in Relays, Cut(r) \/ \E as \in {"goodbye", "resting", "closed"} : Depart(r, as)
        PROVE  SteadyOK(f)'
    <2>1. Unsteady(r) /\ UNCHANGED << serves, cache >> /\ \A o \in Relays \ {r} : peer'[o] = peer[o]
      BY <1>1, <1>6 DEF Cut, Depart, FieldsOK
    <2>2. QED
      BY <1>4, <2>1
  <1>7. ASSUME Discover PROVE SteadyOK(f)'
    <2>1. UNCHANGED << peerVars, cache, taskVars, steady, spent >>
      BY <1>7, Zenon DEF Discover
    <2>2. QED
      BY <1>2, <2>1 DEF SocketKept, peerVars
  <1>8. ASSUME OtherLookup PROVE SteadyOK(f)'
    <2>1. SocketKept /\ CacheKept
      BY <1>8 DEF OtherLookup, SocketKept, CacheKept, peerVars
    <2>2. QED
      BY <1>3, <2>1
  <1>9. ASSUME Lapses PROVE SteadyOK(f)'
    <2>1. cache' = cache \/ (cache.age # "none" /\ (cache' = NoCache \/ cache' = [cache EXCEPT !.age = "old"]))
      BY <1>9 DEF Lapses
    <2>2. CacheKept
      BY <1>1, <2>1 DEF CacheKept, NoCache, FieldsOK, Caches
    <2>3. SocketKept
      BY <1>9 DEF Lapses, SocketKept, peerVars
    <2>4. QED
      BY <1>3, <2>2, <2>3
  <1>10. QED
    BY <1>5, <1>6, <1>7, <1>8, <1>9, Zenon DEF World

\* The task of another frame, which may repeat a lookup or forget it.
LEMMA SteadyOther ==
    ASSUME FedInv, NEW f \in Frames, CacheKept, steady'[f] = steady[f], UNCHANGED peerVars,
           SteadyOK(f), task'[f] = task[f], got[f] # << >> => got'[f] # << >>
    PROVE  SteadyOK(f)'
  <1>1. FieldsOK
    BY DEF FedInv
  <1>2. QED
    BY <1>1, HomeIsOne DEF SteadyOK, SocketKept, CacheKept, Asked, peerVars

LEMMA SteadyStart ==
    ASSUME FedInv, NEW f \in Frames, Start(f)
    PROVE  SteadyOK(f)'
  <1> DEFINE t == task[f]
  <1>1. FieldsOK /\ OneSocket /\ CallsOK(t) /\ t \in Task /\ t.pc = "new"
    BY DEF FedInv, FieldsOK, Start
  <1>2. Asked(t) = {} /\ t.open = {} /\ ~ t.refreshed
    BY <1>1 DEF CallsOK
  <1>3. UNCHANGED peerVars
    BY DEF Start
  <1>4. steady'[f] # None => steady'[f] \in Others /\ peer[steady'[f]] = "live" /\ steady'[f] \in serves
    <2>1. steady'[f] = IF \E r \in Others \cap serves : peer[r] = "live"
                         THEN CHOOSE r \in Others : peer[r] = "live" ELSE None
      BY <1>1 DEF Start, FieldsOK
    <2>2. CASE \E r \in Others \cap serves : peer[r] = "live"
      <3>1. PICK r \in Others \cap serves : peer[r] = "live"
        BY <2>2
      <3>2. (CHOOSE o \in Others : peer[o] = "live") = r
        BY <1>1, <3>1, HomeIsOne DEF OneSocket
      <3>3. QED
        BY <2>1, <2>2, <3>1, <3>2
    <2>3. QED
      BY <2>1, <2>2
  <1>5. t'.pc # "new" /\ Asked(t') \ t'.open = {} /\ ~ t'.refreshed
    <2>1. CASE t' = [t EXCEPT !.pc = "over"]
      BY <1>1, <1>2, <2>1, TaskOver
    <2>2. CASE t' = Begins(t)
      <3>1. hint \in Others \cup {None}
        BY <1>1 DEF FieldsOK
      <3>2. LET b == Begins(t) IN
           /\ b \in Task /\ b.round = t.round /\ b.queued = {} /\ b.delivered = t.delivered
           /\ b.timely = t.timely /\ b.refreshed = t.refreshed
           /\ \/ b.pc = "lookup" /\ b.attempted = t.attempted /\ b.open = t.open
              \/ \E h \in Others \ t.attempted :
                    b.pc = "hinted" /\ b.attempted = t.attempted \cup {h} /\ b.open = {h}
        BY <1>1, <3>1, BeginsIs
      <3>3. QED
        BY <1>2, <2>2, <3>2 DEF Asked
    <2>3. t' = [t EXCEPT !.pc = "over"] \/ t' = Begins(t)
      <3>1. task' = [task EXCEPT ![f].pc = "over"] \/ task' = [task EXCEPT ![f] = Begins(@)]
        BY DEF Start
      <3>2. QED
        BY <1>1, <3>1 DEF FieldsOK
    <2>4. QED
      BY <2>1, <2>2, <2>3
  <1> HIDE DEF t
  <1>6. QED
    BY <1>3, <1>4, <1>5 DEF SteadyOK, peerVars, t

\* A step of a task that neither hands the frame over nor asks a relay, with a second
\* round begun only when no lookup is remembered.
LEMMA SteadyPlain ==
    ASSUME FedInv, NEW f \in Frames, SteadyOK(f), NEW u \in Task, task' = [task EXCEPT ![f] = u],
           steady' = steady, UNCHANGED << peerVars, got >>, CacheKept,
           u.pc # "new", Asked(u) \ u.open \subseteq Asked(task[f]) \ task[f].open,
           u.refreshed => task[f].refreshed \/ cache'.age = "none",
           u.refreshed /\ u.pc = "asking" => task[f].refreshed /\ task[f].pc = "asking" /\ Asked(task[f]) \subseteq Asked(u)
    PROVE  SteadyOK(f)'
  <1>1. task'[f] = u
    BY DEF FedInv, FieldsOK
  <1>2. QED
    BY <1>1, HomeIsOne DEF SteadyOK, CacheKept, peerVars

LEMMA SteadyAnswer ==
    ASSUME FedInv, NEW f \in Frames, NEW r \in Others, Answer(f, r), SteadyOK(f)
    PROVE  SteadyOK(f)'
  <1> DEFINE t == task[f]
  <1>1. FieldsOK /\ CallsOK(t) /\ t \in Task /\ r \in t.open
    BY DEF FedInv, FieldsOK, Answer
  <1>2. /\ Asked(t') = Asked(t) /\ t'.open = t.open \ {r} /\ t'.refreshed = t.refreshed
        /\ t'.pc = t.pc \/ (t.pc = "hinted" /\ t'.pc \in {"over", "lookup"})
    <2>1. PICK result \in {Outcome(r), "failed"} : task' = [task EXCEPT ![f] =
                 [t EXCEPT !.open = @ \ {r},
                           !.queued = IF result = "queued" THEN @ \cup {r} ELSE @,
                           !.delivered = IF result = "delivered" THEN @ \cup {r} ELSE @,
                           !.pc = IF @ # "hinted" THEN @ ELSE IF result = "delivered" THEN "over" ELSE "lookup"]]
      BY DEF Answer
    <2>2. t' = [t EXCEPT !.open = @ \ {r},
                           !.queued = IF result = "queued" THEN @ \cup {r} ELSE @,
                           !.delivered = IF result = "delivered" THEN @ \cup {r} ELSE @,
                           !.pc = IF @ # "hinted" THEN @ ELSE IF result = "delivered" THEN "over" ELSE "lookup"]
      BY <1>1, <2>1 DEF FieldsOK
    <2>3. QED
      BY <1>1, <2>2 DEF Task, Asked
  <1>3. /\ UNCHANGED << peerVars, cache, steady >>
        /\ got[f] # << >> => got'[f] # << >>
        /\ peer[r] = "live" => got'[f] # << >>
    <2>1. peer[r] = "live" => got' = [got EXCEPT ![f] = Append(@, r)]
      BY DEF Answer
    <2>2. peer[r] # "live" => got' = got
      BY DEF Answer
    <2>3. got[f] \in Seq(Relays) /\ r \in Relays
      BY <1>1, HomeIsOne DEF FieldsOK
    <2>4. Append(got[f], r) # << >>
      BY <2>3, HandedOnce
    <2>5. QED
      BY <1>1, <2>1, <2>2, <2>4 DEF Answer, FieldsOK
  <1> HIDE DEF t
  <1>4. QED
    BY <1>1, <1>2, <1>3 DEF SteadyOK, peerVars, t

LEMMA SteadyUpset ==
    ASSUME FedInv, NEW f \in Frames, LookupFails(f) \/ Deadline(f), SteadyOK(f)
    PROVE  SteadyOK(f)'
  <1> DEFINE t == task[f]
             o == [t EXCEPT !.pc = "over"]
             l == [t EXCEPT !.timely = FALSE]
  <1>1. FieldsOK /\ t \in Task
    BY DEF FedInv, FieldsOK
  <1>2. /\ \/ task' = [task EXCEPT ![f] = o]
           \/ task' = [task EXCEPT ![f] = l] /\ t.pc # "new"
        /\ UNCHANGED << peerVars, cache, got, steady >>
    BY <1>1 DEF LookupFails, Deadline, FieldsOK
  <1>3. /\ o \in Task /\ o.pc = "over" /\ Asked(o) = Asked(t) /\ o.open = t.open /\ o.refreshed = t.refreshed
        /\ l \in Task /\ l.pc = t.pc /\ Asked(l) = Asked(t) /\ l.open = t.open /\ l.refreshed = t.refreshed
    BY <1>1 DEF Task, Asked
  <1>4. CacheKept
    BY <1>2 DEF CacheKept
  <1> HIDE DEF o, l
  <1>5. QED
    BY <1>2, <1>3, <1>4, SteadyPlain

LEMMA SteadyLookup ==
    ASSUME FedInv, NEW f \in Frames, Lookup(f), SteadyOK(f),
           IsFiniteSet(Others), Cardinality(Others) <= ForwardLimit
    PROVE  SteadyOK(f)'
  <1> DEFINE t == task[f]
             o == [t EXCEPT !.pc = "over"]
             able == (Providers \ {Home}) \ t.attempted
  <1>1. FieldsOK /\ t \in Task /\ CallsOK(t) /\ t.pc = "lookup"
    BY DEF FedInv, FieldsOK, Lookup
  <1>2. UNCHANGED << peerVars, got, steady >> /\ CacheKept
    BY DEF Lookup, CacheKept
  <1>3. CASE task' = [task EXCEPT ![f].pc = "over"]
    <2>1. task' = [task EXCEPT ![f] = o]
      BY <1>1, <1>3 DEF FieldsOK
    <2>2. o \in Task /\ o.pc = "over" /\ Asked(o) = Asked(t) /\ o.open = t.open /\ o.refreshed = t.refreshed
      BY <1>1, TaskOver
    <2> HIDE DEF o
    <2>3. QED
      BY <1>2, <2>1, <2>2, SteadyPlain
  <1>4. ASSUME NEW S \in SUBSET able, S = able \/ Cardinality(S) = ForwardLimit,
               task' = [task EXCEPT ![f] = [t EXCEPT !.pc = "asking", !.open = S, !.round = S, !.queued = {}]]
        PROVE  SteadyOK(f)'
    <2>1. /\ t'.pc = "asking" /\ t'.open = S /\ t'.round = S /\ t'.attempted = t.attempted
          /\ t'.refreshed = t.refreshed
      <3>1. t' = [t EXCEPT !.pc = "asking", !.open = S, !.round = S, !.queued = {}]
        BY <1>1, <1>4 DEF FieldsOK
      <3>2. QED
        BY <1>1, <3>1 DEF Task
    <2>2. S = able
      <3>1. able \subseteq Others
        BY <1>1 DEF Providers, FieldsOK, Caches, Others
      <3>2. CASE Cardinality(S) = ForwardLimit
        <4>1. S \subseteq Others /\ IsFiniteSet(S) /\ Cardinality(S) \in Nat /\ Cardinality(Others) \in Nat
          BY <3>1, FS_Subset, FS_CardinalityType
        <4>2. Cardinality(S) <= Cardinality(Others)
          BY <4>1, FS_Subset
        <4>3. Cardinality(S) = Cardinality(Others)
          BY <3>2, <4>1, <4>2
        <4>4. S = Others
          BY <4>1, <4>3, FS_Subset
        <4>5. QED
          BY <3>1, <4>4
      <3>3. QED
        BY <1>4, <3>2
    <2>3. t.open = {} /\ t.round = {}
      BY <1>1 DEF CallsOK
    <2>4. Asked(t') = t.attempted \cup able /\ Asked(t') \ t'.open = t.attempted /\ Asked(t) = t.attempted
      BY <2>1, <2>2, <2>3 DEF Asked
    <2>5. steady[f] # None /\ t.refreshed => steady[f] \in Asked(t')
      <3>1. steady[f] # None /\ t.refreshed => steady[f] \in Providers \ {Home}
        BY <1>1, HomeIsOne DEF SteadyOK, Providers
      <3>2. QED
        BY <2>4, <3>1
    <2> HIDE DEF t, able
    <2>6. QED
      BY <1>2, <2>1, <2>3, <2>4, <2>5, HomeIsOne DEF SteadyOK, CacheKept, peerVars, t
  <1>5. QED
    <2>1. CASE t.queued \cap Providers # {}
      BY <1>3, <2>1 DEF Lookup
    <2>2. CASE ~ (t.queued \cap Providers # {})
      BY <1>4, <2>2, Zenon DEF Lookup
    <2>3. QED
      BY <2>1, <2>2

LEMMA SteadyConclude ==
    ASSUME FedInv, NEW f \in Frames, Conclude(f), SteadyOK(f)
    PROVE  SteadyOK(f)'
  <1> DEFINE t == task[f]
             o == [t EXCEPT !.pc = "over"]
             n == [t EXCEPT !.attempted = Attempted(t), !.round = {}, !.refreshed = TRUE]
  <1>1. FieldsOK /\ t \in Task /\ t.pc = "asking" /\ t.open = {}
    BY DEF FedInv, FieldsOK, Conclude
  <1>2. UNCHANGED << peerVars, got, steady >>
    BY DEF Conclude
  <1>3. CASE task' = [task EXCEPT ![f].pc = "over"] /\ cache' = cache
    <2>1. task' = [task EXCEPT ![f] = o]
      BY <1>1, <1>3 DEF FieldsOK
    <2>2. o \in Task /\ o.pc = "over" /\ Asked(o) = Asked(t) /\ o.open = t.open /\ o.refreshed = t.refreshed
      BY <1>1, TaskOver
    <2>3. CacheKept
      BY <1>3 DEF CacheKept
    <2> HIDE DEF o
    <2>4. QED
      BY <1>2, <2>1, <2>2, <2>3, SteadyPlain
  <1>4. CASE task' = [task EXCEPT ![f] = Begins(n)] /\ cache' = NoCache
    <2> DEFINE u == Begins(n)
    <2>1. task' = [task EXCEPT ![f] = u] /\ cache'.age = "none"
      BY <1>4 DEF NoCache
    <2>2. n \in Task /\ n.pc = "asking" /\ n.attempted = Asked(t) /\ n.round = {} /\ n.open = {}
      <3>1. Attempted(t) \in SUBSET Relays
        BY <1>1 DEF Attempted, Task
      <3>2. QED
        BY <1>1, <3>1 DEF Task, Asked, Attempted
    <2> HIDE DEF n
    <2>3. /\ u \in Task /\ u.pc \in {"lookup", "hinted"} /\ Asked(u) \ u.open \subseteq Asked(t) \ t.open
      <3>1. hint \in Others \cup {None}
        BY <1>1 DEF FieldsOK
      <3>2. LET b == Begins(n) IN
           /\ b \in Task /\ b.round = n.round /\ b.queued = {} /\ b.delivered = n.delivered
           /\ b.timely = n.timely /\ b.refreshed = n.refreshed
           /\ \/ b.pc = "lookup" /\ b.attempted = n.attempted /\ b.open = n.open
              \/ \E h \in Others \ n.attempted :
                    b.pc = "hinted" /\ b.attempted = n.attempted \cup {h} /\ b.open = {h}
        BY <2>2, <3>1, BeginsIs
      <3>3. QED
        BY <1>1, <2>2, <3>2 DEF Asked
    <2> HIDE DEF u
    <2>4. CacheKept
      BY <2>1 DEF CacheKept
    <2>5. QED
      BY <1>2, <2>1, <2>3, <2>4, SteadyPlain
  <1>5. QED
    BY <1>3, <1>4 DEF Conclude, Ends

\* A step of the task of f.
TaskStep(f) ==
    \/ Start(f) \/ Lookup(f) \/ LookupFails(f) \/ Conclude(f) \/ Deadline(f)
    \/ \E r \in Others : Answer(f, r)

\* It leaves the tasks of other frames alone, and what is known of the peer.
LEMMA OneTask ==
    ASSUME FieldsOK, NEW f \in Frames, TaskStep(f)
    PROVE  /\ \A g \in Frames \ {f} : task'[g] = task[g]
           /\ \A g \in Frames \ {f} : steady'[g] = steady[g] /\ got'[g] = got[g]
           /\ UNCHANGED peerVars /\ CacheKept
  <1>1. CASE Start(f)
    <2>1. \E u : task' = [task EXCEPT ![f] = u]
      BY <1>1 DEF Start, FieldsOK
    <2>2. \A g \in Frames \ {f} : steady'[g] = steady[g] /\ got'[g] = got[g]
      BY <1>1 DEF Start, FieldsOK
    <2>3. UNCHANGED peerVars /\ CacheKept
      BY <1>1 DEF Start, CacheKept
    <2>4. QED
      BY <2>1, <2>2, <2>3 DEF FieldsOK
  <1>2. CASE Lookup(f)
    <2>1. \E u : task' = [task EXCEPT ![f] = u]
      BY <1>2 DEF Lookup, FieldsOK
    <2>2. UNCHANGED << peerVars, steady, got >> /\ CacheKept
      BY <1>2 DEF Lookup, CacheKept
    <2>3. QED
      BY <2>1, <2>2 DEF FieldsOK
  <1>3. CASE LookupFails(f) \/ Deadline(f)
    <2>1. \E u : task' = [task EXCEPT ![f] = u]
      BY <1>3 DEF LookupFails, Deadline, FieldsOK
    <2>2. UNCHANGED << peerVars, steady, got >> /\ CacheKept
      BY <1>3 DEF LookupFails, Deadline, CacheKept
    <2>3. QED
      BY <2>1, <2>2 DEF FieldsOK
  <1>4. CASE Conclude(f)
    <2>1. \E u : task' = [task EXCEPT ![f] = u]
      BY <1>4 DEF Conclude, Ends, FieldsOK
    <2>2. UNCHANGED << peerVars, steady, got >> /\ CacheKept
      BY <1>4 DEF Conclude, Ends, CacheKept, NoCache
    <2>3. QED
      BY <2>1, <2>2 DEF FieldsOK
  <1>5. ASSUME NEW r \in Others, Answer(f, r)
        PROVE  /\ \A g \in Frames \ {f} : task'[g] = task[g]
               /\ \A g \in Frames \ {f} : steady'[g] = steady[g] /\ got'[g] = got[g]
               /\ UNCHANGED peerVars /\ CacheKept
    <2>1. \E u : task' = [task EXCEPT ![f] = u]
      BY <1>5, Zenon DEF Answer
    <2>2. \A g \in Frames \ {f} : got'[g] = got[g]
      BY <1>5 DEF Answer, FieldsOK
    <2>3. UNCHANGED << peerVars, steady >> /\ CacheKept
      BY <1>5 DEF Answer, CacheKept
    <2>4. QED
      BY <2>1, <2>2, <2>3 DEF FieldsOK
  <1>6. QED
    BY <1>1, <1>2, <1>3, <1>4, <1>5, Zenon DEF TaskStep

LEMMA SteadyElsewhere ==
    ASSUME FedInv, NEW f \in Frames, TaskStep(f), NEW g \in Frames \ {f}, SteadyOK(g)
    PROVE  SteadyOK(g)'
  <1>1. FieldsOK
    BY DEF FedInv
  <1>2. task'[g] = task[g] /\ steady'[g] = steady[g] /\ got'[g] = got[g] /\ UNCHANGED peerVars /\ CacheKept
    BY <1>1, OneTask
  <1>3. QED
    BY <1>2, SteadyOther

LEMMA SteadyNext ==
    ASSUME FedInv, [Next]_vars, \A f \in Frames : SteadyOK(f),
           IsFiniteSet(Others), Cardinality(Others) <= ForwardLimit
    PROVE  \A f \in Frames : SteadyOK(f)'
  <1>1. CASE World
    BY <1>1, SteadyWorld
  <1>2. ASSUME NEW r \in Relays, Collect(r) PROVE \A f \in Frames : SteadyOK(f)'
    <2>1. UNCHANGED << peerVars, task, cache, steady >>
      BY <1>2 DEF Collect
    <2>2. ASSUME NEW f \in Frames PROVE got[f] # << >> => got'[f] # << >>
      <3>1. got'[f] = IF f \in held[r] THEN Append(got[f], r) ELSE got[f]
        BY <1>2, <2>2 DEF Collect
      <3>2. got[f] \in Seq(Relays)
        BY DEF FedInv, FieldsOK
      <3>3. QED
        BY <3>1, <3>2, HandedOnce
    <2>3. CacheKept
      BY <2>1 DEF CacheKept
    <2>4. QED
      BY <2>1, <2>2, <2>3, SteadyOther
  <1>3. ASSUME NEW f \in Frames, TaskStep(f) PROVE \A g \in Frames : SteadyOK(g)'
    <2>1. SteadyOK(f)'
      BY <1>3, SteadyStart, SteadyLookup, SteadyUpset, SteadyConclude, SteadyAnswer, Zenon DEF TaskStep
    <2>2. QED
      BY <1>3, <2>1, SteadyElsewhere
  <1>4. CASE UNCHANGED vars
    BY <1>4 DEF vars, peerVars, SteadyOK
  <1>5. QED
    <2>1. CASE Next
      <3>1. World \/ (\E r \in Relays : Collect(r)) \/ \E f \in Frames : TaskStep(f)
        BY <2>1, Zenon DEF Next, World, TaskStep
      <3>2. QED
        BY <1>1, <1>2, <1>3, <3>1, Zenon
    <2>2. QED
      BY <1>4, <2>1

LEMMA MissedIsExcused ==
    ASSUME FedInv, FedInv', Next, NEW f \in Frames, SteadyOK(f), Missed(f)
    PROVE  \/ \E r \in Others : f \in held'[r]
           \/ f \in wasted'
           \/ cache.age # "old"
  <1> DEFINE t == task[f]
  <1>1. FieldsOK /\ CallsOK(t) /\ FrameOK(f) /\ FrameOK(f)' /\ t \in Task
    BY DEF FedInv, FieldsOK
  <1>2. t.pc # "over" /\ t'.pc = "over" /\ steady[f] # None /\ f \notin blind' /\ got'[f] = << >>
    BY DEF Missed
  <1>3. CASE World
    BY <1>2, <1>3, WorldFields
  <1>4. ASSUME NEW r \in Relays, Collect(r) PROVE FALSE
    BY <1>2, <1>4 DEF Collect
  <1>5. ASSUME NEW g \in Frames \ {f}, TaskStep(g) PROVE FALSE
    <2>1. task'[f] = task[f]
      BY <1>1, <1>5, OneTask
    <2>2. QED
      BY <1>2, <2>1
  <1>6. CASE TaskStep(f)
    <2>1. CASE Start(f)
      BY <1>2, <2>1 DEF Start, SteadyOK
    <2>2. CASE LookupFails(f) \/ Deadline(f)
      BY <1>2, <2>2 DEF LookupFails, Deadline, Upset
    <2>3. CASE Lookup(f)
      <3>1. UNCHANGED << got, held >>
        BY <2>3 DEF Lookup
      <3>2. t.queued # {}
        <4>1. ASSUME NEW S, task' = [task EXCEPT ![f] = [t EXCEPT !.pc = "asking", !.open = S, !.round = S, !.queued = {}]]
              PROVE  FALSE
          <5>1. t' = [t EXCEPT !.pc = "asking", !.open = S, !.round = S, !.queued = {}]
            BY <1>1, <4>1 DEF FieldsOK
          <5>2. QED
            BY <1>1, <1>2, <5>1 DEF Task
        <4>2. CASE t.queued \cap Providers # {}
          BY <4>2
        <4>3. CASE ~ (t.queued \cap Providers # {})
          BY <2>3, <4>1, <4>3, Zenon DEF Lookup
        <4>4. QED
          BY <4>2, <4>3
      <3>3. QED
        BY <1>1, <1>2, <3>1, <3>2 DEF FrameOK
    <2>4. ASSUME NEW r \in Others, Answer(f, r) PROVE f \in wasted'
      <3>1. t'.delivered # {}
        BY <1>1, <1>2, <2>4 DEF Answer, FieldsOK, Task
      <3>2. QED
        BY <1>1, <1>2, <3>1 DEF FrameOK
    <2>5. CASE Conclude(f)
      <3>1. UNCHANGED << got, wasted >> /\ t.open = {} /\ t.pc = "asking"
        BY <2>5 DEF Conclude
      <3>2. CASE t.delivered # {}
        BY <1>1, <1>2, <3>1, <3>2 DEF FrameOK
      <3>3. CASE t.delivered = {} /\ t.queued # {}
        <4>1. held' = held
          BY <2>5, <3>3 DEF Conclude
        <4>2. QED
          BY <1>1, <1>2, <3>1, <3>3, <4>1 DEF FrameOK
      <3>4. CASE t.delivered = {} /\ t.queued = {} /\ Refreshes(t)
        <4> DEFINE n == [t EXCEPT !.attempted = Attempted(t), !.round = {}, !.refreshed = TRUE]
        <4>1. n \in Task
          <5>1. Attempted(t) \in SUBSET Relays
            BY <1>1 DEF Attempted, Task
          <5>2. QED
            BY <1>1, <5>1 DEF Task
        <4>2. task' = [task EXCEPT ![f] = Begins(n)]
          BY <2>5, <3>4 DEF Conclude
        <4> HIDE DEF n
        <4>3. Begins(n).pc # "over"
          BY <4>1 DEF Begins, Task
        <4>4. QED
          BY <1>1, <1>2, <4>2, <4>3 DEF FieldsOK
      <3>5. CASE t.delivered = {} /\ t.queued = {} /\ ~ Refreshes(t)
        <4>1. CASE t.refreshed
          <5>1. steady[f] \in Asked(t) \ t.open
            BY <1>2, <3>1, <4>1 DEF SteadyOK
          <5>2. QED
            BY <1>2, <3>1, <5>1 DEF SteadyOK
        <4>2. CASE ~ t.refreshed
          BY <3>5, <4>2 DEF Refreshes
        <4>3. QED
          BY <4>1, <4>2
      <3>6. QED
        BY <3>2, <3>3, <3>4, <3>5
    <2>6. QED
      BY <1>6, <2>1, <2>2, <2>3, <2>4, <2>5 DEF TaskStep
  <1>7. QED
    <2>1. World \/ (\E r \in Relays : Collect(r)) \/ \E g \in Frames : TaskStep(g)
      BY Zenon DEF Next, World, TaskStep
    <2>2. QED
      BY <1>3, <1>4, <1>5, <1>6, <2>1, Zenon

\* FedInv, and what tasks count on, of relays that are not too many to be asked at once.
RouteInv == FedInv /\ \A f \in Frames : SteadyOK(f)

\* A frame misses a live route only if another relay took it, it went to a dead
\* socket, or the lookup it used was not an old one; provided that a lookup asks all
\* the other relays there are (KADEMLIA_FORWARD_LIMIT of them).
THEOREM FindsLiveRoute ==
    ASSUME IsFiniteSet(Others), Cardinality(Others) <= ForwardLimit
    PROVE  Spec => LiveRouteIsFound
  <1>1. Init => RouteInv
    BY FedInit DEF RouteInv, Init, SteadyOK
  <1>2. RouteInv /\ [Next]_vars => RouteInv'
    BY FedNext, SteadyNext DEF RouteInv
  <1>3. RouteInv /\ RouteInv' /\ [Next]_vars =>
           [\A f \in Frames : Missed(f) =>
              \/ \E r \in Others : f \in held'[r]
              \/ f \in wasted'
              \/ cache.age # "old"]_vars
    BY MissedIsExcused DEF RouteInv
  <1>4. QED
    BY <1>1, <1>2, <1>3, PTL DEF Spec, LiveRouteIsFound
=============================================================================
