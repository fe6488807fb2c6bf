-------------------------- MODULE RelayLinksProofs --------------------------
(***************************************************************************)
(* Proofs about RelayLinks, for any links and any number of requests and   *)
(* handshakes given up: every sealed frame opens, nothing stalls, and a    *)
(* relay has one open link to another.                                     *)
(*                                                                         *)
(* The two ends of a link are the same, so a step is looked at from the    *)
(* end x that takes it: y is the other end, w the frames on their way to   *)
(* x, v those to y, and r the number of requests so far.  Lemmas about     *)
(* these values come first, and the steps of the specification after them. *)
(***************************************************************************)
EXTENDS MCRelays, FiniteSetTheorems, SequenceTheorems, WellFoundedInduction, TLAPS

USE RelayLinksAssumption

-----------------------------------------------------------------------------

\* A set of numbers has a smallest one.
LEMMA Smallest ==
    ASSUME NEW S \in SUBSET Nat, S # {}
    PROVE  \E m \in S : \A i \in S : m <= i
  <1>1. \E m \in S : \A i \in S : << i, m >> \notin OpToRel(<, Nat)
    BY WFMin, NatLessThanWellFounded
  <1>2. PICK m \in S : \A i \in S : << i, m >> \notin OpToRel(<, Nat)
    BY <1>1
  <1>3. \A i \in S : ~ (i < m)
    BY <1>2 DEF OpToRel
  <1>4. QED
    BY <1>3
-----------------------------------------------------------------------------
(* Links: the frames under way *)

PlainFrame == [t : {"challenge", "hello", "key"}]
SealedFrame == [t : {"req", "res"}, n : Nat \ {0}]
LinkFrame == PlainFrame \cup SealedFrame

\* How many frames of type t are in s.
Count(s, t) == Cardinality({i \in DOMAIN s : s[i].t = t})

SealedAt(s) == {i \in DOMAIN s : s[i] \in SealedFrame}

\* The numbers of the sealed frames in s.
Numbers(s) == {s[i].n : i \in SealedAt(s)}

Ascends(s) == \A i \in SealedAt(s) : \A j \in SealedAt(s) : i < j => s[i].n < s[j].n

\* The sealed frames in s are those numbered from a + 1 to b, in order.
Spans(s, a, b) == a <= b /\ Ascends(s) /\ Numbers(s) = a + 1 .. b

-----------------------------------------------------------------------------
(* The invariant of one link *)

EndRecord ==
    [attached : BOOLEAN, closing : BOOLEAN, closed : BOOLEAN, peer : BOOLEAN,
     answered : BOOLEAN, hello : {"none", "verifying", "verified"}, signing : BOOLEAN,
     encrypting : BOOLEAN, keyFrame : BOOLEAN, finishing : 0 .. 1, finished : BOOLEAN,
     channel : BOOLEAN, sent : Nat, received : Nat, early : Seq(LinkFrame), pending : Nat,
     bad : BOOLEAN]

\* An end takes the steps of the handshake one after the other, and has a channel only
\* at their end; r requests have been made so far.
EndSound(x, r) ==
    /\ x \in EndRecord /\ x.pending <= r /\ ~ x.bad
    /\ x.closed => x.closing /\ x.pending = 0 /\ x.early = << >>
    /\ x.answered \/ x.hello # "none" \/ x.keyFrame \/ x.closed => x.attached
    /\ x.signing => x.answered
    /\ x.encrypting => x.hello = "verified"
    /\ x.hello = "verified" /\ x.keyFrame => x.encrypting \/ x.finished
    /\ x.finished => x.hello = "verified" /\ x.keyFrame
    /\ x.finished <=> x.finishing = 1 \/ x.channel
    /\ x.channel => x.finishing = 0 /\ x.early = << >> /\ (x.peer \/ x.closing)
    /\ ~ x.channel => ~ x.peer /\ x.sent = 0 /\ x.received = 0
    /\ ~ x.peer => x.pending = 0
    /\ Len(x.early) <= MaxEarly

\* End x hears the frames w of end y: every step of x is one that y has caused, and
\* nothing that y has done is lost on x, unless one of them closes.
Heard(x, y, w) ==
    /\ w \in Seq(LinkFrame)
    /\ w # << >> \/ x.answered => y.attached
    /\ Count(w, "hello") <= 1
    /\ Count(w, "hello") = 1 => y.answered /\ ~ y.signing /\ x.hello = "none"
    /\ y.signing => x.hello = "none"
    /\ x.hello # "none" => y.answered
    /\ Count(w, "key") # 0 \/ x.keyFrame => y.hello = "verified"
    /\ ~ x.closing /\ ~ y.closing =>
          /\ y.answered => y.signing \/ Count(w, "hello") = 1 \/ x.hello # "none"
          /\ y.hello = "verified" => y.encrypting \/ Count(w, "key") # 0 \/ x.keyFrame

\* The sealed frames on their way to x are the next ones of y, after those held.
Numbered(x, y, w, r) ==
    /\ \A i \in DOMAIN x.early : x.early[i] = [t |-> "req", n |-> i]
    /\ ~ x.closed => Spans(w, x.received + Len(x.early), y.sent)
    /\ ~ x.channel => y.sent <= r /\ Count(w, "res") = 0

\* What x waits for is under way: a request, held or not, or an answer.
Waits(x, y, w, v) ==
    ~ x.closing /\ ~ y.closing =>
       x.pending <= Count(v, "req") + Len(y.early) + Count(w, "res")

\* Both ends of a link: w are the frames to x, v those to y.
LinkSound(x, y, w, v, r) ==
    /\ EndSound(x, r) /\ EndSound(y, r)
    /\ Heard(x, y, w) /\ Heard(y, x, v)
    /\ Numbered(x, y, w, r) /\ Numbered(y, x, v, r)
    /\ Waits(x, y, w, v) /\ Waits(y, x, v, w)

LinkAt(l, e) ==
    LinkSound(ends[l][e], ends[l][Far(e)], wire[l][e], wire[l][Far(e)], spent.requests)

LinksInv ==
    /\ ends \in [Links -> [Ends -> EndRecord]]
    /\ wire \in [Links -> [Ends -> Seq(LinkFrame)]]
    /\ linked \in [Ends -> Links \cup {NoLink}]
    /\ spent \in [requests : 0 .. MaxLinkRequests, timeouts : 0 .. MaxTimeouts]
    /\ \A l \in Links : \A e \in Ends : LinkAt(l, e)
    /\ OneLinkAtATime

-----------------------------------------------------------------------------
(* Counting and numbering frames *)

\* The positions of t in s are as many as those k further on.
LEMMA Shifted ==
    ASSUME NEW n \in Nat, NEW S \in SUBSET (1 .. n), NEW k \in Nat
    PROVE  LET T == {i + k : i \in S}
           IN  IsFiniteSet(S) /\ IsFiniteSet(T) /\ Cardinality(T) = Cardinality(S)
  <1> DEFINE T == {i + k : i \in S}
             f == [i \in S |-> i + k]
  <1>1. IsFiniteSet(S)
    <2>1. IsFiniteSet(1 .. n)
      BY FS_Interval
    <2>2. QED
      BY <2>1, FS_Subset
  <1>2. f \in Bijection(S, T)
    BY DEF Bijection, Injection, Surjection, IsInjective
  <1>3. ExistsBijection(S, T)
    BY <1>2 DEF ExistsBijection
  <1>4. QED
    BY <1>1, <1>3, FS_Bijection

LEMMA CountIsNat ==
    ASSUME NEW s \in Seq(LinkFrame), NEW t
    PROVE  Count(s, t) \in Nat
  <1>1. {i \in DOMAIN s : s[i].t = t} \in SUBSET (1 .. Len(s)) /\ Len(s) \in Nat
    OBVIOUS
  <1>2. IsFiniteSet({i \in DOMAIN s : s[i].t = t})
    BY <1>1, Shifted
  <1>3. QED
    BY <1>2, FS_CardinalityType DEF Count

LEMMA Joined ==
    ASSUME NEW s \in Seq(LinkFrame), NEW u \in Seq(LinkFrame)
    PROVE  /\ s \o u \in Seq(LinkFrame)
           /\ DOMAIN (s \o u) = 1 .. Len(s) + Len(u)
           /\ \A i \in 1 .. Len(s) : (s \o u)[i] = s[i]
           /\ \A i \in 1 .. Len(u) : (s \o u)[Len(s) + i] = u[i]
           /\ DOMAIN s = 1 .. Len(s) /\ DOMAIN u = 1 .. Len(u) /\ Len(s) \in Nat /\ Len(u) \in Nat
  OBVIOUS

LEMMA CountJoined ==
    ASSUME NEW s \in Seq(LinkFrame), NEW u \in Seq(LinkFrame), NEW t
    PROVE  Count(s \o u, t) = Count(s, t) + Count(u, t)
  <1> DEFINE S == {i \in DOMAIN s : s[i].t = t}
             U == {i \in DOMAIN u : u[i].t = t}
             V == {i + Len(s) : i \in U}
             W == {i \in DOMAIN (s \o u) : (s \o u)[i].t = t}
  <1>1. S \in SUBSET (1 .. Len(s)) /\ U \in SUBSET (1 .. Len(u)) /\ Len(s) \in Nat /\ Len(u) \in Nat
    OBVIOUS
  <1>2. IsFiniteSet(S) /\ IsFiniteSet(U) /\ IsFiniteSet(V) /\ Cardinality(V) = Cardinality(U)
    <2>1. IsFiniteSet(U) /\ IsFiniteSet(V) /\ Cardinality(V) = Cardinality(U)
      BY <1>1, Shifted
    <2>2. IsFiniteSet(S)
      BY <1>1, Shifted
    <2>3. QED
      BY <2>1, <2>2
  <1>3. W = S \cup V
    <2>1. \A i \in W : i \in S \cup V
      <3>1. SUFFICES ASSUME NEW i \in W PROVE i \in S \cup V
        OBVIOUS
      <3>2. CASE i <= Len(s)
        BY <1>1, <3>1, <3>2, Joined
      <3>3. CASE i > Len(s)
        <4> DEFINE j == i - Len(s)
        <4>1. j \in 1 .. Len(u) /\ i = j + Len(s) /\ (s \o u)[i] = u[j]
          BY <1>1, <3>3, Joined
        <4>2. j \in U
          BY <4>1, Joined
        <4>3. QED
          BY <4>1, <4>2
      <3>4. QED
        BY <1>1, <3>2, <3>3, Joined
    <2>2. \A i \in S : i \in W
      BY <1>1, Joined
    <2>3. \A i \in U : i + Len(s) \in W
      BY <1>1, Joined
    <2>4. QED
      BY <2>1, <2>2, <2>3
  <1>4. S \cap V = {}
    BY <1>1
  <1> HIDE DEF S, U, V, W
  <1>5. Cardinality(W) = Cardinality(S) + Cardinality(V) - Cardinality({})
    <2>1. Cardinality(S \cup V) = Cardinality(S) + Cardinality(V) - Cardinality(S \cap V)
      BY <1>2, FS_Union
    <2>2. QED
      BY <1>3, <1>4, <2>1
  <1>6. Cardinality(S) \in Nat /\ Cardinality(V) \in Nat /\ Cardinality({}) = 0
    BY <1>2, FS_CardinalityType, FS_EmptySet
  <1>7. Cardinality(W) = Cardinality(S) + Cardinality(U)
    BY <1>2, <1>5, <1>6
  <1>8. QED
    BY <1>7 DEF Count, S, U, W

LEMMA CountOne ==
    ASSUME NEW f, NEW t
    PROVE  Count(<< f >>, t) = IF f.t = t THEN 1 ELSE 0
  <1>1. {i \in DOMAIN << f >> : << f >>[i].t = t} = IF f.t = t THEN {1} ELSE {}
    OBVIOUS
  <1>2. QED
    BY <1>1, FS_Singleton, FS_EmptySet DEF Count

LEMMA CountNone ==
    ASSUME NEW t
    PROVE  Count(<< >>, t) = 0
  <1>1. {i \in DOMAIN << >> : << >>[i].t = t} = {}
    OBVIOUS
  <1>2. QED
    BY <1>1, FS_EmptySet DEF Count

LEMMA HeadAndTail ==
    ASSUME NEW w \in Seq(LinkFrame), w # << >>
    PROVE  /\ Head(w) \in LinkFrame /\ Tail(w) \in Seq(LinkFrame) /\ << Head(w) >> \in Seq(LinkFrame)
           /\ w = << Head(w) >> \o Tail(w)
  OBVIOUS

LEMMA SealedIs ==
    /\ \A f \in SealedFrame : f.n \in Nat \ {0} /\ f.t \in {"req", "res"} /\ f \notin PlainFrame
    /\ \A f \in LinkFrame : f \in SealedFrame <=> f.t \in {"req", "res"}
  BY DEF SealedFrame, PlainFrame, LinkFrame

LEMMA NumbersJoined ==
    ASSUME NEW s \in Seq(LinkFrame), NEW u \in Seq(LinkFrame)
    PROVE  /\ Numbers(s \o u) = Numbers(s) \cup Numbers(u)
           /\ Ascends(s \o u) <=>
                 Ascends(s) /\ Ascends(u) /\ \A a \in Numbers(s) : \A b \in Numbers(u) : a < b
  <1> DEFINE k == Len(s)
  <1>1. \A i \in SealedAt(s) : i \in SealedAt(s \o u) /\ (s \o u)[i] = s[i] /\ i \in 1 .. k
    BY Joined DEF SealedAt
  <1>2. \A i \in SealedAt(u) : k + i \in SealedAt(s \o u) /\ (s \o u)[k + i] = u[i] /\ i \in 1 .. Len(u)
    BY Joined DEF SealedAt
  <1>3. ASSUME NEW i \in SealedAt(s \o u)
        PROVE  \/ i \in SealedAt(s) /\ i <= k
               \/ i > k /\ i - k \in SealedAt(u) /\ u[i - k] = (s \o u)[i]
    <2>1. i \in 1 .. k + Len(u) /\ (s \o u)[i] \in SealedFrame
      BY Joined DEF SealedAt
    <2>2. CASE i <= k
      BY <2>1, <2>2, Joined DEF SealedAt
    <2>3. CASE i > k
      <3>1. i - k \in 1 .. Len(u) /\ i = k + (i - k)
        BY <2>1, <2>3, Joined
      <3>2. (s \o u)[i] = u[i - k]
        BY <3>1, Joined
      <3>3. QED
        BY <2>1, <2>3, <3>1, <3>2, Joined DEF SealedAt
    <2>4. QED
      BY <2>1, <2>2, <2>3, Joined
  <1>4. k \in Nat
    OBVIOUS
  <1> HIDE DEF k
  <1>5. Numbers(s \o u) = Numbers(s) \cup Numbers(u)
    <2>1. \A i \in SealedAt(s \o u) : (s \o u)[i].n \in Numbers(s) \cup Numbers(u)
      BY <1>1, <1>3 DEF Numbers
    <2>2. \A i \in SealedAt(s) : s[i].n \in Numbers(s \o u)
      <3>1. SUFFICES ASSUME NEW i \in SealedAt(s) PROVE s[i].n \in Numbers(s \o u)
        OBVIOUS
      <3>2. i \in SealedAt(s \o u) /\ s[i].n = (s \o u)[i].n
        BY <1>1
      <3>3. QED
        BY <3>2 DEF Numbers
    <2>3. \A i \in SealedAt(u) : u[i].n \in Numbers(s \o u)
      <3>1. SUFFICES ASSUME NEW i \in SealedAt(u) PROVE u[i].n \in Numbers(s \o u)
        OBVIOUS
      <3>2. k + i \in SealedAt(s \o u) /\ u[i].n = (s \o u)[k + i].n
        BY <1>2
      <3>3. QED
        BY <3>2 DEF Numbers
    <2>4. QED
      BY <2>1, <2>2, <2>3 DEF Numbers
  <1>6. ASSUME Ascends(s \o u)
        PROVE  Ascends(s) /\ Ascends(u) /\ \A a \in Numbers(s) : \A b \in Numbers(u) : a < b
    <2>1. Ascends(s)
      BY <1>1, <1>6 DEF Ascends
    <2>2. Ascends(u)
      <3>1. SUFFICES ASSUME NEW i \in SealedAt(u), NEW j \in SealedAt(u), i < j
                     PROVE  u[i].n < u[j].n
        BY DEF Ascends
      <3>2. k + i < k + j
        BY <1>2, <1>4, <3>1, Joined
      <3>3. QED
        BY <1>2, <1>6, <3>2 DEF Ascends
    <2>3. ASSUME NEW i \in SealedAt(s), NEW j \in SealedAt(u)
          PROVE  s[i].n < u[j].n
      <3>1. i < k + j
        BY <1>1, <1>2, <1>4, Joined
      <3>2. (s \o u)[i].n < (s \o u)[k + j].n
        BY <1>1, <1>2, <1>6, <3>1 DEF Ascends
      <3>3. QED
        BY <1>1, <1>2, <3>2
    <2>4. QED
      BY <2>1, <2>2, <2>3 DEF Numbers
  <1>7. ASSUME Ascends(s), Ascends(u), \A a \in Numbers(s) : \A b \in Numbers(u) : a < b
        PROVE  Ascends(s \o u)
    <2>1. SUFFICES ASSUME NEW i \in SealedAt(s \o u), NEW j \in SealedAt(s \o u), i < j
                   PROVE  (s \o u)[i].n < (s \o u)[j].n
      BY DEF Ascends
    <2>2. i \in Nat /\ j \in Nat
      BY Joined DEF SealedAt
    <2>3. CASE i \in SealedAt(s) /\ j \in SealedAt(s)
      BY <1>1, <1>7, <2>1, <2>3 DEF Ascends
    <2>4. CASE i > k /\ i - k \in SealedAt(u) /\ j > k /\ j - k \in SealedAt(u)
      <3>1. i - k < j - k
        BY <1>4, <2>1, <2>2
      <3>2. u[i - k].n < u[j - k].n
        BY <1>7, <2>4, <3>1 DEF Ascends
      <3>3. (s \o u)[i] = u[i - k] /\ (s \o u)[j] = u[j - k]
        <4>1. /\ (s \o u)[k + (i - k)] = u[i - k]
              /\ (s \o u)[k + (j - k)] = u[j - k]
          BY <1>2, <2>4
        <4>2. k + (i - k) = i /\ k + (j - k) = j
          BY <1>4, <2>2
        <4>3. QED
          BY <4>1, <4>2
      <3>4. QED
        BY <3>2, <3>3
    <2>5. CASE i \in SealedAt(s) /\ j > k /\ j - k \in SealedAt(u)
      <3>1. (s \o u)[j] = u[j - k]
        <4>1. (s \o u)[k + (j - k)] = u[j - k]
          BY <1>2, <2>5
        <4>2. k + (j - k) = j
          BY <1>4, <2>2
        <4>3. QED
          BY <4>1, <4>2
      <3>2. s[i].n \in Numbers(s) /\ u[j - k].n \in Numbers(u)
        BY <2>5 DEF Numbers
      <3>3. QED
        BY <1>1, <1>7, <2>5, <3>1, <3>2
    <2>6. i \in SealedAt(s) => j \in SealedAt(s) \/ (j > k /\ j - k \in SealedAt(u))
      BY <1>3
    <2>7. i \notin SealedAt(s) => i > k /\ i - k \in SealedAt(u) /\ j > k /\ j - k \in SealedAt(u)
      <3>1. SUFFICES ASSUME i \notin SealedAt(s)
                     PROVE  i > k /\ i - k \in SealedAt(u) /\ j > k /\ j - k \in SealedAt(u)
        OBVIOUS
      <3>2. i > k /\ i - k \in SealedAt(u)
        BY <1>3, <3>1
      <3>3. j > k
        BY <1>4, <2>1, <2>2, <3>2
      <3>4. ~ (j <= k)
        BY <1>4, <2>2, <3>3
      <3>5. QED
        BY <1>3, <3>2, <3>3, <3>4
    <2>8. QED
      BY <2>3, <2>4, <2>5, <2>6, <2>7
  <1>8. QED
    BY <1>5, <1>6, <1>7

LEMMA NumbersOne ==
    ASSUME NEW f
    PROVE  /\ Numbers(<< f >>) = IF f \in SealedFrame THEN {f.n} ELSE {}
           /\ Ascends(<< f >>)
  <1>1. SealedAt(<< f >>) = IF f \in SealedFrame THEN {1} ELSE {}
    BY DEF SealedAt
  <1>2. << f >>[1] = f
    OBVIOUS
  <1>3. QED
    BY <1>1, <1>2 DEF Numbers, Ascends

\* Frame f comes first, and the frames are the next ones.
LEMMA SpanHead ==
    ASSUME NEW w \in Seq(LinkFrame), w # << >>, NEW a \in Nat, NEW b \in Nat, Spans(w, a, b)
    PROVE  /\ Head(w) \notin SealedFrame => Spans(Tail(w), a, b)
           /\ Head(w) \in SealedFrame => Head(w).n = a + 1 /\ Spans(Tail(w), a + 1, b)
  <1> DEFINE f == Head(w)
  <1>1. f \in LinkFrame /\ Tail(w) \in Seq(LinkFrame) /\ w = << f >> \o Tail(w) /\ << f >> \in Seq(LinkFrame)
    BY HeadAndTail
  <1>2. a <= b /\ Numbers(w) = a + 1 .. b /\ Ascends(w)
    BY DEF Spans
  <1>3. /\ Numbers(w) = Numbers(<< f >>) \cup Numbers(Tail(w))
        /\ Ascends(Tail(w))
        /\ \A n \in Numbers(<< f >>) : \A m \in Numbers(Tail(w)) : n < m
    <2> DEFINE s == << f >>
               u == Tail(w)
    <2>1. w = s \o u /\ s \in Seq(LinkFrame) /\ u \in Seq(LinkFrame) /\ Ascends(w)
      BY <1>1, <1>2
    <2> HIDE DEF s, u, f
    <2>2. /\ Numbers(s \o u) = Numbers(s) \cup Numbers(u)
          /\ Ascends(s \o u) => Ascends(u) /\ \A n \in Numbers(s) : \A m \in Numbers(u) : n < m
      BY <2>1, NumbersJoined
    <2>3. /\ Numbers(w) = Numbers(s) \cup Numbers(u)
          /\ Ascends(u) /\ \A n \in Numbers(s) : \A m \in Numbers(u) : n < m
      BY <2>1, <2>2
    <2>4. QED
      BY <2>3 DEF s, u
  <1>4. CASE f \notin SealedFrame
    <2>1. Numbers(<< f >>) = {}
      BY <1>4, NumbersOne
    <2>2. Numbers(Tail(w)) = a + 1 .. b
      BY <1>2, <1>3, <2>1
    <2>3. QED
      BY <1>2, <1>3, <1>4, <2>2 DEF Spans
  <1>5. CASE f \in SealedFrame
    <2>1. Numbers(<< f >>) = {f.n}
      BY <1>5, NumbersOne
    <2>2. \A n \in a + 1 .. b : n = f.n \/ f.n < n
      BY <1>2, <1>3, <2>1
    <2>3. f.n \in a + 1 .. b
      BY <1>2, <1>3, <2>1
    <2>4. f.n = a + 1
      BY <2>2, <2>3
    <2>5. Numbers(Tail(w)) = a + 2 .. b
      <3>1. \A n \in Numbers(Tail(w)) : n \in a + 1 .. b /\ a + 1 < n
        BY <1>2, <1>3, <2>1, <2>4
      <3>2. \A n \in a + 2 .. b : n \in Numbers(Tail(w))
        <4>1. SUFFICES ASSUME NEW n \in a + 2 .. b PROVE n \in Numbers(Tail(w))
          OBVIOUS
        <4>2. n \in a + 1 .. b /\ n # a + 1
          OBVIOUS
        <4>3. QED
          BY <1>2, <1>3, <2>1, <2>4, <4>2
      <3>3. \A n \in Numbers(Tail(w)) : n \in a + 2 .. b
        BY <3>1
      <3>4. QED
        BY <3>2, <3>3
    <2>6. a + 1 <= b /\ (a + 1) + 1 .. b = a + 2 .. b
      BY <2>3, <2>4
    <2>7. QED
      BY <1>3, <1>5, <2>4, <2>5, <2>6 DEF Spans
  <1>6. QED
    BY <1>4, <1>5

LEMMA SpanJoined ==
    ASSUME NEW w \in Seq(LinkFrame), NEW u \in Seq(LinkFrame),
           NEW a \in Nat, NEW b \in Nat, NEW c \in Nat, Spans(w, a, b), Spans(u, b, c)
    PROVE  Spans(w \o u, a, c)
  <1>1. /\ a <= b /\ Numbers(w) = a + 1 .. b /\ Ascends(w)
        /\ b <= c /\ Numbers(u) = b + 1 .. c /\ Ascends(u)
    BY DEF Spans
  <1>2. Numbers(w \o u) = a + 1 .. c
    <2>1. Numbers(w \o u) = (a + 1 .. b) \cup (b + 1 .. c)
      BY <1>1, NumbersJoined
    <2>2. (a + 1 .. b) \cup (b + 1 .. c) = a + 1 .. c
      BY <1>1
    <2>3. QED
      BY <2>1, <2>2
  <1>3. Ascends(w \o u)
    BY <1>1, NumbersJoined
  <1>4. a <= c
    BY <1>1
  <1>5. QED
    BY <1>2, <1>3, <1>4 DEF Spans

LEMMA SpanOne ==
    ASSUME NEW f \in LinkFrame, NEW a \in Nat
    PROVE  /\ f \notin SealedFrame => Spans(<< f >>, a, a)
           /\ f \in SealedFrame /\ f.n = a + 1 => Spans(<< f >>, a, a + 1)
  <1>1. a <= a /\ a <= a + 1 /\ a + 1 .. a = {} /\ a + 1 .. a + 1 = {a + 1}
    OBVIOUS
  <1>2. QED
    BY <1>1, NumbersOne DEF Spans

LEMMA SpanNone ==
    ASSUME NEW a \in Nat
    PROVE  Spans(<< >>, a, a) /\ \A b \in Nat : Spans(<< >>, a, b) => b = a
  <1>1. SealedAt(<< >>) = {}
    BY DEF SealedAt
  <1>2. Numbers(<< >>) = {} /\ Ascends(<< >>)
    BY <1>1 DEF Numbers, Ascends
  <1>3. a + 1 .. a = {} /\ \A b \in Nat : a <= b /\ a + 1 .. b = {} => b = a
    <2>1. ASSUME NEW b \in Nat, a <= b, a + 1 .. b = {}  PROVE b = a
      <3>1. ~ (a + 1 <= b)
        BY <2>1
      <3>2. QED
        BY <2>1, <3>1
    <2>2. QED
      BY <2>1
  <1>4. Spans(<< >>, a, a)
    <2>1. a <= a /\ a + 1 .. a = {}
      BY <1>3
    <2>2. QED
      BY <1>2, <2>1 DEF Spans
  <1>5. ASSUME NEW b \in Nat, Spans(<< >>, a, b)  PROVE b = a
    <2>1. a <= b /\ Numbers(<< >>) = a + 1 .. b
      BY <1>5 DEF Spans
    <2>2. QED
      BY <1>2, <1>3, <2>1
  <1>6. QED
    BY <1>4, <1>5

-----------------------------------------------------------------------------
(* What a frame that is sent, or that arrives, does to the frames under way *)

Types == {"challenge", "hello", "key", "req", "res"}

LEMMA FrameType == \A f \in LinkFrame : f.t \in Types
  BY DEF LinkFrame, PlainFrame, SealedFrame, Types

LEMMA FrameSent ==
    ASSUME NEW w \in Seq(LinkFrame), NEW f \in LinkFrame
    PROVE  /\ Append(w, f) \in Seq(LinkFrame) /\ Append(w, f) # << >>
           /\ Append(w, f) = w \o << f >> /\ << f >> \in Seq(LinkFrame)
           /\ \A t \in Types : /\ Count(w, t) \in Nat
                               /\ Count(Append(w, f), t) = Count(w, t) + (IF f.t = t THEN 1 ELSE 0)
           /\ \A a, b \in Nat : Spans(w, a, b) =>
                 /\ f \notin SealedFrame => Spans(Append(w, f), a, b)
                 /\ f \in SealedFrame /\ f.n = b + 1 => Spans(Append(w, f), a, b + 1)
  <1>1. /\ Append(w, f) \in Seq(LinkFrame) /\ Append(w, f) # << >>
        /\ Append(w, f) = w \o << f >> /\ << f >> \in Seq(LinkFrame)
    OBVIOUS
  <1>2. \A t \in Types : /\ Count(w, t) \in Nat
                         /\ Count(Append(w, f), t) = Count(w, t) + (IF f.t = t THEN 1 ELSE 0)
    <2>1. ASSUME NEW t \in Types
          PROVE  /\ Count(w, t) \in Nat
                 /\ Count(w \o << f >>, t) = Count(w, t) + (IF f.t = t THEN 1 ELSE 0)
      <3>1. Count(w \o << f >>, t) = Count(w, t) + Count(<< f >>, t)
        BY <1>1, CountJoined
      <3>2. Count(<< f >>, t) = IF f.t = t THEN 1 ELSE 0
        BY CountOne
      <3>3. QED
        BY <3>1, <3>2, CountIsNat
    <2>2. QED
      BY <1>1, <2>1
  <1>3. ASSUME NEW a \in Nat, NEW b \in Nat, Spans(w, a, b), f \notin SealedFrame
        PROVE  Spans(Append(w, f), a, b)
    BY <1>1, <1>3, SpanOne, SpanJoined
  <1>4. ASSUME NEW a \in Nat, NEW b \in Nat, Spans(w, a, b), f \in SealedFrame, f.n = b + 1
        PROVE  Spans(Append(w, f), a, b + 1)
    <2>1. Spans(<< f >>, b, b + 1)
      BY <1>4, SpanOne
    <2>2. b + 1 \in Nat
      OBVIOUS
    <2>3. Spans(w \o << f >>, a, b + 1)
      BY <1>1, <1>4, <2>1, <2>2, SpanJoined
    <2>4. QED
      BY <1>1, <2>3
  <1>5. QED
    BY <1>1, <1>2, <1>3, <1>4

LEMMA FrameTaken ==
    ASSUME NEW w \in Seq(LinkFrame), w # << >>
    PROVE  /\ Head(w) \in LinkFrame /\ Tail(w) \in Seq(LinkFrame)
           /\ \A t \in Types : /\ Count(Tail(w), t) \in Nat
                               /\ Count(w, t) = Count(Tail(w), t) + (IF Head(w).t = t THEN 1 ELSE 0)
           /\ \A a, b \in Nat : Spans(w, a, b) =>
                 /\ Head(w) \notin SealedFrame => Spans(Tail(w), a, b)
                 /\ Head(w) \in SealedFrame =>
                       Head(w).n = a + 1 /\ a + 1 <= b /\ Spans(Tail(w), a + 1, b)
  <1>1. /\ Head(w) \in LinkFrame /\ Tail(w) \in Seq(LinkFrame) /\ << Head(w) >> \in Seq(LinkFrame)
        /\ w = << Head(w) >> \o Tail(w)
    BY HeadAndTail
  <1>2. ASSUME NEW t \in Types
        PROVE  /\ Count(Tail(w), t) \in Nat
               /\ Count(w, t) = Count(Tail(w), t) + (IF Head(w).t = t THEN 1 ELSE 0)
    <2>1. Count(<< Head(w) >> \o Tail(w), t) = Count(<< Head(w) >>, t) + Count(Tail(w), t)
      BY <1>1, CountJoined
    <2>2. Count(<< Head(w) >>, t) = IF Head(w).t = t THEN 1 ELSE 0
      BY CountOne
    <2>3. Count(Tail(w), t) \in Nat
      BY <1>1, CountIsNat
    <2>4. Count(w, t) = Count(<< Head(w) >>, t) + Count(Tail(w), t)
      BY <1>1, <2>1
    <2>5. QED
      BY <2>2, <2>3, <2>4
  <1>3. \A a, b \in Nat : Spans(Tail(w), a + 1, b) => a + 1 <= b
    BY DEF Spans
  <1>4. ASSUME NEW a \in Nat, NEW b \in Nat, Spans(w, a, b)
        PROVE  /\ Head(w) \notin SealedFrame => Spans(Tail(w), a, b)
               /\ Head(w) \in SealedFrame =>
                     Head(w).n = a + 1 /\ a + 1 <= b /\ Spans(Tail(w), a + 1, b)
    <2>1. /\ Head(w) \notin SealedFrame => Spans(Tail(w), a, b)
          /\ Head(w) \in SealedFrame => Head(w).n = a + 1 /\ Spans(Tail(w), a + 1, b)
      BY <1>4, SpanHead
    <2>2. QED
      BY <1>3, <2>1
  <1>5. QED
    BY <1>1, <1>2, <1>4

LEMMA Plain ==
    /\ \A t \in {"challenge", "hello", "key"} :
          [t |-> t] \in LinkFrame /\ [t |-> t] \notin SealedFrame /\ [t |-> t].t = t
    /\ \A f \in LinkFrame : f.t \in {"challenge", "hello", "key"} => f \notin SealedFrame
    /\ \A f \in LinkFrame : f.t \in {"req", "res"} => f \in SealedFrame
    /\ \A t \in {"req", "res"}, n \in Nat \ {0} :
          [t |-> t, n |-> n] \in LinkFrame /\ [t |-> t, n |-> n] \in SealedFrame
    /\ \A f \in SealedFrame : f.n \in Nat \ {0} /\ f = [t |-> f.t, n |-> f.n]
  BY DEF LinkFrame, SealedFrame, PlainFrame

LEMMA PlainSent ==
    ASSUME NEW w \in Seq(LinkFrame), NEW k \in {"challenge", "hello", "key"}
    PROVE  LET u == Append(w, [t |-> k])
           IN  /\ u \in Seq(LinkFrame) /\ u # << >>
               /\ \A t \in Types : /\ Count(w, t) \in Nat
                                   /\ Count(u, t) = IF k = t THEN Count(w, t) + 1 ELSE Count(w, t)
               /\ \A a, b \in Nat : Spans(w, a, b) => Spans(u, a, b)
  <1> DEFINE f == [t |-> k]
  <1>1. f \in LinkFrame /\ f \notin SealedFrame /\ f.t = k
    BY Plain
  <1> HIDE DEF f
  <1>2. /\ Append(w, f) \in Seq(LinkFrame) /\ Append(w, f) # << >>
        /\ \A t \in Types : /\ Count(w, t) \in Nat
                            /\ Count(Append(w, f), t) = Count(w, t) + (IF f.t = t THEN 1 ELSE 0)
        /\ \A a, b \in Nat : Spans(w, a, b) => Spans(Append(w, f), a, b)
    BY <1>1, FrameSent
  <1>3. \A t \in Types : Count(Append(w, f), t) = IF k = t THEN Count(w, t) + 1 ELSE Count(w, t)
    BY <1>1, <1>2
  <1>4. QED
    BY <1>2, <1>3 DEF f

LEMMA SealedSent ==
    ASSUME NEW w \in Seq(LinkFrame), NEW k \in {"req", "res"}, NEW a \in Nat, NEW b \in Nat
    PROVE  LET u == Append(w, [t |-> k, n |-> b + 1])
           IN  /\ u \in Seq(LinkFrame) /\ u # << >>
               /\ \A t \in Types : /\ Count(w, t) \in Nat
                                   /\ Count(u, t) = IF k = t THEN Count(w, t) + 1 ELSE Count(w, t)
               /\ Spans(w, a, b) => Spans(u, a, b + 1)
  <1> DEFINE f == [t |-> k, n |-> b + 1]
  <1>1. f \in LinkFrame /\ f \in SealedFrame /\ f.t = k /\ f.n = b + 1
    BY Plain
  <1> HIDE DEF f
  <1>2. /\ Append(w, f) \in Seq(LinkFrame) /\ Append(w, f) # << >>
        /\ \A t \in Types : /\ Count(w, t) \in Nat
                            /\ Count(Append(w, f), t) = Count(w, t) + (IF f.t = t THEN 1 ELSE 0)
        /\ Spans(w, a, b) => Spans(Append(w, f), a, b + 1)
    BY <1>1, FrameSent
  <1>3. \A t \in Types : Count(Append(w, f), t) = IF k = t THEN Count(w, t) + 1 ELSE Count(w, t)
    BY <1>1, <1>2
  <1>4. QED
    BY <1>2, <1>3 DEF f

\* What is left of each type once the first frame is taken.
LEMMA TakenCounts ==
    ASSUME NEW w \in Seq(LinkFrame), w # << >>
    PROVE  /\ Tail(w) \in Seq(LinkFrame) /\ Head(w).t \in Types
           /\ \A t \in Types :
                 /\ Count(w, t) \in Nat /\ Count(Tail(w), t) \in Nat
                 /\ Count(Tail(w), t) = IF Head(w).t = t THEN Count(w, t) - 1 ELSE Count(w, t)
  <1>1. /\ Tail(w) \in Seq(LinkFrame) /\ Head(w) \in LinkFrame
        /\ \A t \in Types : /\ Count(Tail(w), t) \in Nat
                            /\ Count(w, t) = Count(Tail(w), t) + (IF Head(w).t = t THEN 1 ELSE 0)
    BY FrameTaken
  <1>2. \A t \in Types :
           /\ Count(w, t) \in Nat
           /\ Count(Tail(w), t) = IF Head(w).t = t THEN Count(w, t) - 1 ELSE Count(w, t)
    BY <1>1
  <1>3. QED
    BY <1>1, <1>2, FrameType

-----------------------------------------------------------------------------
(* The steps of one end *)

LEMMA LinkIsSymmetric ==
    ASSUME NEW x, NEW y, NEW w, NEW v, NEW r, LinkSound(x, y, w, v, r)
    PROVE  LinkSound(y, x, v, w, r)
  BY DEF LinkSound

\* The values in an end.
LEMMA EndTypes ==
    ASSUME NEW r \in Nat, NEW x, EndSound(x, r)
    PROVE  /\ x \in EndRecord /\ Len(x.early) \in Nat /\ x.early \in Seq(LinkFrame)
           /\ x.sent \in Nat /\ x.received \in Nat /\ x.pending \in Nat
  BY DEF EndSound, EndRecord

LEMMA Attached ==
    ASSUME NEW r \in Nat, NEW x, NEW y, NEW w, NEW v, LinkSound(x, y, w, v, r)
    PROVE  LinkSound([x EXCEPT !.attached = TRUE], y, w, v, r)
  <1> DEFINE z == [x EXCEPT !.attached = TRUE]
  <1> USE DEF LinkSound
  <1>1. EndSound(z, r)
    BY DEF EndSound, EndRecord
  <1>2. Heard(z, y, w) /\ Heard(y, z, v)
    BY DEF Heard, EndSound, EndRecord
  <1>3. Numbered(z, y, w, r) /\ Numbered(y, z, v, r)
    BY DEF Numbered, EndSound, EndRecord
  <1>4. Waits(z, y, w, v) /\ Waits(y, z, v, w)
    BY DEF Waits, EndSound, EndRecord
  <1>5. QED
    BY <1>1, <1>2, <1>3, <1>4

LEMMA ChallengeSent ==
    ASSUME NEW r \in Nat, NEW x, NEW y, NEW w, NEW v, LinkSound(x, y, w, v, r), x.attached
    PROVE  LinkSound(x, y, w, Append(v, [t |-> "challenge"]), r)
  <1> DEFINE u == Append(v, [t |-> "challenge"])
  <1>1. v \in Seq(LinkFrame)
    BY DEF LinkSound, Heard
  <1>2. /\ u \in Seq(LinkFrame) /\ u # << >>
        /\ \A t \in {"hello", "key", "req", "res"} : Count(u, t) = Count(v, t)
        /\ \A a, b \in Nat : Spans(v, a, b) => Spans(u, a, b)
    BY <1>1, PlainSent DEF Types
  <1> HIDE DEF u
  <1> USE DEF LinkSound
  <1>3. Heard(y, x, u)
    BY <1>2 DEF Heard
  <1>4. Numbered(y, x, u, r)
    <2>1. Len(y.early) + y.received \in Nat /\ y.received + Len(y.early) \in Nat /\ x.sent \in Nat
      BY EndTypes
    <2>2. QED
      BY <1>2, <2>1 DEF Numbered
  <1>5. Waits(x, y, w, u) /\ Waits(y, x, u, w)
    BY <1>2 DEF Waits
  <1>6. QED
    BY <1>3, <1>4, <1>5 DEF u

\* A frame that nobody hears: a challenge too early, or any after the close.
LEMMA FrameUnheard ==
    ASSUME NEW r \in Nat, NEW x, NEW y, NEW w, NEW v, LinkSound(x, y, w, v, r), w # << >>,
           ~ x.attached \/ x.closed
    PROVE  LinkSound(x, y, Tail(w), v, r)
  <1> USE DEF LinkSound
  <1>1. w \in Seq(LinkFrame) /\ Head(w).t \in Types
    BY FrameTaken, FrameType DEF Heard
  <1>2. /\ Tail(w) \in Seq(LinkFrame)
        /\ \A t \in Types : /\ Count(Tail(w), t) \in Nat
                            /\ Count(w, t) = Count(Tail(w), t) + (IF Head(w).t = t THEN 1 ELSE 0)
    BY <1>1, FrameTaken
  <1>3. y.attached
    BY DEF Heard
  <1>4. CASE x.closed
    <2>1. x.closing /\ x.pending = 0 /\ x.early = << >>
      BY <1>4 DEF EndSound
    <2>2. Heard(x, y, Tail(w))
      BY <1>2, <1>3, <2>1, SMTT(20) DEF Heard, Types
    <2>3. Numbered(x, y, Tail(w), r)
      BY <1>2, <1>4 DEF Numbered, Types
    <2>4. Waits(x, y, Tail(w), v) /\ Waits(y, x, v, Tail(w))
      BY <2>1 DEF Waits
    <2>5. QED
      BY <2>2, <2>3, <2>4
  <1>5. CASE ~ x.attached /\ ~ x.closed
    <2>1. x.hello = "none" /\ ~ x.answered /\ ~ y.answered /\ ~ y.channel
      BY <1>5 DEF EndSound, Heard, EndRecord
    <2>2. Spans(w, x.received + Len(x.early), y.sent) /\ y.sent = 0 /\ x.received + Len(x.early) \in Nat
      BY <1>5, <2>1, EndTypes DEF Numbered, EndSound
    <2>3. Head(w) \notin SealedFrame /\ Spans(Tail(w), x.received + Len(x.early), y.sent)
      <3>1. Head(w) \in SealedFrame => x.received + Len(x.early) + 1 <= y.sent
        BY <1>1, <2>2, FrameTaken
      <3>2. Head(w) \notin SealedFrame
        BY <2>2, <3>1
      <3>3. QED
        BY <1>1, <2>2, <3>2, FrameTaken
    <2>4. Head(w).t = "challenge"
      <3>1. Head(w).t # "hello"
        BY <1>2, <2>1 DEF Heard, Types
      <3>2. Head(w).t # "key"
        BY <1>2, <2>1, SMTT(20) DEF Heard, Types, EndSound
      <3>3. Head(w).t \notin {"req", "res"}
        BY <1>1, <2>3, Plain, FrameTaken
      <3>4. QED
        BY <1>1, <3>1, <3>2, <3>3 DEF Types
    <2>5. \A t \in {"hello", "key", "req", "res"} : Count(Tail(w), t) = Count(w, t)
      BY <1>2, <2>4 DEF Types
    <2>6. Heard(x, y, Tail(w))
      BY <1>2, <1>3, <2>5 DEF Heard
    <2>7. Numbered(x, y, Tail(w), r)
      BY <2>3, <2>5 DEF Numbered
    <2>8. Waits(x, y, Tail(w), v) /\ Waits(y, x, v, Tail(w))
      BY <2>5 DEF Waits
    <2>9. QED
      BY <2>6, <2>7, <2>8
  <1>6. QED
    BY <1>4, <1>5

-----------------------------------------------------------------------------
(* Opening the sealed frames *)

\* The answers to the first k requests.
Answers(k) == [i \in 1 .. k |-> [t |-> "res", n |-> i]]

LEMMA AnswersAre ==
    ASSUME NEW k \in Nat
    PROVE  /\ Answers(k) \in Seq(LinkFrame) /\ Len(Answers(k)) = k
           /\ Count(Answers(k), "res") = k
           /\ \A t \in Types \ {"res"} : Count(Answers(k), t) = 0
           /\ Spans(Answers(k), 0, k)
  <1> DEFINE s == Answers(k)
  <1>1. ASSUME NEW i \in 1 .. k
        PROVE  s[i] \in SealedFrame /\ s[i] \in LinkFrame /\ s[i].t = "res" /\ s[i].n = i
    <2>1. s[i] = [t |-> "res", n |-> i] /\ i \in Nat \ {0}
      BY DEF Answers
    <2>2. QED
      BY <2>1, Plain
  <1>2. DOMAIN s = 1 .. k
    BY DEF Answers
  <1>3. s \in Seq(LinkFrame) /\ Len(s) = k
    <2>1. s = [i \in 1 .. k |-> s[i]]
      BY DEF Answers
    <2>2. \A i \in 1 .. k : s[i] \in LinkFrame
      BY <1>1
    <2> HIDE DEF s
    <2>3. s \in [1 .. k -> LinkFrame]
      BY <2>1, <2>2
    <2>4. QED
      BY <2>3
  <1> HIDE DEF s
  <1>4. Count(s, "res") = k
    <2>1. {i \in DOMAIN s : s[i].t = "res"} = 1 .. k
      BY <1>1, <1>2
    <2>2. Cardinality(1 .. k) = k
      BY FS_Interval
    <2>3. QED
      BY <2>1, <2>2 DEF Count
  <1>5. ASSUME NEW t \in Types \ {"res"}
        PROVE  Count(s, t) = 0
    <2>1. {i \in DOMAIN s : s[i].t = t} = {}
      BY <1>1, <1>2
    <2>2. QED
      BY <2>1, FS_EmptySet DEF Count
  <1>6. Spans(s, 0, k)
    <2>1. SealedAt(s) = 1 .. k
      BY <1>1, <1>2 DEF SealedAt
    <2>2. Numbers(s) = 1 .. k
      BY <1>1, <2>1 DEF Numbers
    <2>3. Ascends(s)
      BY <1>1, <2>1 DEF Ascends
    <2>4. 0 <= k /\ 0 + 1 .. k = 1 .. k
      OBVIOUS
    <2>5. QED
      BY <2>2, <2>3, <2>4 DEF Spans
  <1>7. QED
    BY <1>3, <1>4, <1>5, <1>6 DEF s

LEMMA OneMoreAnswer ==
    ASSUME NEW k \in Nat
    PROVE  Answers(k) \o << [t |-> "res", n |-> k + 1] >> = Answers(k + 1)
  <1> DEFINE f == [t |-> "res", n |-> k + 1]
  <1>1. Answers(k) \in Seq(LinkFrame) /\ Len(Answers(k)) = k
        /\ Answers(k + 1) \in Seq(LinkFrame) /\ Len(Answers(k + 1)) = k + 1
    BY AnswersAre
  <1>2. f \in LinkFrame
    BY Plain
  <1>3. \A i \in 1 .. k : Answers(k)[i] = Answers(k + 1)[i]
    BY DEF Answers
  <1>4. Answers(k + 1)[k + 1] = f
    BY DEF Answers
  <1> HIDE DEF f
  <1> DEFINE s == Answers(k) \o << f >>
  <1>5. s \in Seq(LinkFrame) /\ Len(s) = k + 1 /\ s[k + 1] = f /\ \A i \in 1 .. k : s[i] = Answers(k)[i]
    BY <1>1, <1>2
  <1>6. \A i \in 1 .. k + 1 : s[i] = Answers(k + 1)[i]
    <2>1. SUFFICES ASSUME NEW i \in 1 .. k + 1 PROVE s[i] = Answers(k + 1)[i]
      OBVIOUS
    <2>2. CASE i = k + 1
      BY <1>4, <1>5, <2>2
    <2>3. CASE i # k + 1
      BY <1>3, <1>5, <2>3
    <2>4. QED
      BY <2>2, <2>3
  <1> HIDE DEF s
  <1>7. s = Answers(k + 1)
    BY <1>1, <1>5, <1>6
  <1>8. QED
    BY <1>7 DEF s, f

\* An end that still answers.
Answering(x) == ~ x.closing /\ ~ x.closed

LEMMA RequestTaken ==
    ASSUME NEW x \in EndRecord, ~ x.bad, NEW f, f = [t |-> "req", n |-> x.received + 1]
    PROVE  /\ TakeSealed(x, f).end =
                 IF Answering(x) THEN [x EXCEPT !.received = x.received + 1, !.sent = x.sent + 1]
                 ELSE [x EXCEPT !.received = x.received + 1]
           /\ TakeSealed(x, f).out =
                 IF Answering(x) THEN << [t |-> "res", n |-> x.sent + 1] >> ELSE << >>
  <1> DEFINE z == [x EXCEPT !.received = x.received + 1]
  <1>1. f.t = "req" /\ f.n = x.received + 1
    OBVIOUS
  <1>2. Handled(Opens(x, f.n), f) = z
    BY <1>1 DEF Handled, Opens
  <1>3. ~ z.bad /\ z.sent = x.sent
    BY DEF EndRecord
  <1>4. [z EXCEPT !.sent = @ + 1] = [x EXCEPT !.received = x.received + 1, !.sent = x.sent + 1]
    BY DEF EndRecord
  <1> HIDE DEF z
  <1>5. QED
    BY <1>1, <1>2, <1>3, <1>4 DEF TakeSealed, Answering, z

\* Requests held, all of them: as many are received, and answered if the end still answers.
LEMMA HeldTaken ==
    ASSUME NEW x \in EndRecord, ~ x.bad, x.received = 0, x.sent = 0,
           NEW held \in Seq(LinkFrame),
           \A i \in DOMAIN held : held[i] = [t |-> "req", n |-> i]
    PROVE  /\ TakeHeld(x, held).end =
                 IF Answering(x) THEN [x EXCEPT !.received = Len(held), !.sent = Len(held)]
                 ELSE [x EXCEPT !.received = Len(held)]
           /\ TakeHeld(x, held).out = IF Answering(x) THEN Answers(Len(held)) ELSE << >>
  <1> DEFINE n == Len(held)
             E(i) == IF Answering(x) THEN [x EXCEPT !.received = i, !.sent = i] ELSE [x EXCEPT !.received = i]
             O(i) == IF Answering(x) THEN Answers(i) ELSE << >>
             G == [i \in 0 .. n |-> [end |-> E(i), out |-> O(i)]]
             F(T) == [i \in 0 .. n |->
                        IF i = 0 THEN [end |-> x, out |-> << >>]
                        ELSE LET r == TakeSealed(T[i - 1].end, held[i])
                             IN  [end |-> r.end, out |-> T[i - 1].out \o r.out]]
             Taken == CHOOSE T : T = F(T)
  <1>1. n \in Nat /\ DOMAIN held = 1 .. n
    OBVIOUS
  <1>2. E(0) = x /\ O(0) = << >>
    <2>1. [x EXCEPT !.received = 0] = x /\ [x EXCEPT !.received = 0, !.sent = 0] = x
      BY DEF EndRecord
    <2>2. Answers(0) = << >>
      BY AnswersAre
    <2>3. QED
      BY <2>1, <2>2
  <1>3. ASSUME NEW i \in 1 .. n
        PROVE  /\ TakeSealed(E(i - 1), held[i]).end = E(i)
               /\ O(i - 1) \o TakeSealed(E(i - 1), held[i]).out = O(i)
    <2> DEFINE z == E(i - 1)
    <2>1. /\ z \in EndRecord /\ ~ z.bad /\ z.received = i - 1
          /\ Answering(z) <=> Answering(x)
          /\ Answering(x) => z.sent = i - 1
      <3>1. i - 1 \in Nat
        OBVIOUS
      <3>2. CASE Answering(x)
        <4>1. z = [x EXCEPT !.received = i - 1, !.sent = i - 1]
          BY <3>2
        <4> HIDE DEF z
        <4>2. QED
          BY <3>1, <3>2, <4>1 DEF EndRecord, Answering
      <3>3. CASE ~ Answering(x)
        <4>1. z = [x EXCEPT !.received = i - 1]
          BY <3>3
        <4> HIDE DEF z
        <4>2. QED
          BY <3>1, <3>3, <4>1 DEF EndRecord, Answering
      <3>4. QED
        BY <3>2, <3>3
    <2>2. held[i] = [t |-> "req", n |-> z.received + 1]
      <3>1. z.received + 1 = i
        BY <2>1
      <3>2. QED
        BY <1>1, <3>1
    <2>3. CASE Answering(x)
      <3>1. z = [x EXCEPT !.received = i - 1, !.sent = i - 1]
        BY <2>3
      <3>2. [z EXCEPT !.received = i, !.sent = i] = [x EXCEPT !.received = i, !.sent = i]
        BY <3>1 DEF EndRecord
      <3> HIDE DEF z
      <3>3. /\ TakeSealed(z, held[i]).end = [z EXCEPT !.received = z.received + 1, !.sent = z.sent + 1]
            /\ TakeSealed(z, held[i]).out = << [t |-> "res", n |-> z.sent + 1] >>
        BY <2>1, <2>2, <2>3, RequestTaken
      <3>4. z.received + 1 = i /\ z.sent + 1 = i
        BY <2>1, <2>3
      <3>5. /\ TakeSealed(z, held[i]).end = [z EXCEPT !.received = i, !.sent = i]
            /\ TakeSealed(z, held[i]).out = << [t |-> "res", n |-> i] >>
        BY <3>3, <3>4
      <3>6. Answers(i - 1) \o << [t |-> "res", n |-> i] >> = Answers(i)
        <4>1. i - 1 \in Nat /\ (i - 1) + 1 = i
          OBVIOUS
        <4>2. QED
          BY <4>1, OneMoreAnswer
      <3>7. QED
        BY <2>3, <3>2, <3>5, <3>6 DEF z
    <2>4. CASE ~ Answering(x)
      <3>1. z = [x EXCEPT !.received = i - 1]
        BY <2>4
      <3>2. [z EXCEPT !.received = i] = [x EXCEPT !.received = i]
        BY <3>1 DEF EndRecord
      <3> HIDE DEF z
      <3>3. /\ TakeSealed(z, held[i]).end = [z EXCEPT !.received = z.received + 1]
            /\ TakeSealed(z, held[i]).out = << >>
        BY <2>1, <2>2, <2>4, RequestTaken
      <3>4. z.received + 1 = i
        BY <2>1
      <3>5. << >> \o << >> = << >>
        OBVIOUS
      <3>6. QED
        BY <2>4, <3>2, <3>3, <3>4, <3>5 DEF z
    <2>5. QED
      BY <2>3, <2>4
  <1> HIDE DEF E, O
  <1>4. G = F(G)
    <2>1. ASSUME NEW i \in 1 .. n
          PROVE  i - 1 \in 0 .. n /\ G[i - 1].end = E(i - 1) /\ G[i - 1].out = O(i - 1)
      OBVIOUS
    <2>2. ASSUME NEW i \in 0 .. n
          PROVE  G[i] = F(G)[i]
      <3>1. CASE i = 0
        BY <1>1, <1>2, <3>1, SMTT(20)
      <3>2. CASE i # 0
        <4>1. i \in 1 .. n
          BY <1>1, <3>2
        <4>2. /\ F(G)[i].end = TakeSealed(E(i - 1), held[i]).end
              /\ F(G)[i].out = O(i - 1) \o TakeSealed(E(i - 1), held[i]).out
              /\ F(G)[i] = [end |-> F(G)[i].end, out |-> F(G)[i].out]
          BY <2>1, <3>2, <4>1
        <4>3. QED
          BY <1>3, <4>1, <4>2
      <3>3. QED
        BY <3>1, <3>2
    <2>3. QED
      BY <2>2
  <1>5. Taken = F(Taken)
    BY <1>4, Zenon
  <1>6. TakeHeld(x, held) = Taken[n]
    BY DEF TakeHeld
  <1> HIDE DEF Taken
  <1>7. \A i \in 0 .. n : Taken[i].end = E(i) /\ Taken[i].out = O(i)
    <2> DEFINE Bad == {i \in 0 .. n : ~ (Taken[i].end = E(i) /\ Taken[i].out = O(i))}
    <2>1. SUFFICES ASSUME Bad # {} PROVE FALSE
      OBVIOUS
    <2>2. Bad \in SUBSET Nat
      BY <1>1, SMTT(20)
    <2>3. PICK m \in Bad : \A i \in Bad : m <= i
      BY <2>1, <2>2, Smallest, Zenon
    <2>4. m # 0
      <3>1. F(Taken)[0] = [end |-> x, out |-> << >>]
        BY <1>1
      <3>2. Taken[0] = [end |-> x, out |-> << >>]
        BY <1>5, <3>1, Zenon
      <3>3. 0 \notin Bad
        BY <1>2, <3>2
      <3>4. QED
        BY <2>3, <3>3
    <2>5. m \in 1 .. n /\ m - 1 \in 0 .. n /\ m - 1 \notin Bad
      BY <1>1, <2>3, <2>4
    <2>6. Taken[m - 1].end = E(m - 1) /\ Taken[m - 1].out = O(m - 1)
      BY <2>5
    <2>7. /\ Taken[m].end = TakeSealed(E(m - 1), held[m]).end
          /\ Taken[m].out = O(m - 1) \o TakeSealed(E(m - 1), held[m]).out
      <3> DEFINE P == TakeSealed(Taken[m - 1].end, held[m]).end
                 Q == Taken[m - 1].out \o TakeSealed(Taken[m - 1].end, held[m]).out
      <3>1. F(Taken)[m] = [end |-> P, out |-> Q]
        BY <2>4, <2>5, SMTT(30)
      <3>2. P = TakeSealed(E(m - 1), held[m]).end /\ Q = O(m - 1) \o TakeSealed(E(m - 1), held[m]).out
        BY <2>6, ZenonT(40)
      <3> HIDE DEF P, Q
      <3>3. Taken[m] = [end |-> P, out |-> Q]
        BY <1>5, <3>1, Zenon
      <3>4. Taken[m].end = P /\ Taken[m].out = Q
        BY <3>3
      <3>5. QED
        BY <3>2, <3>4
    <2>8. QED
      BY <1>3, <2>3, <2>5, <2>7
  <1>8. TakeHeld(x, held).end = E(n) /\ TakeHeld(x, held).out = O(n)
    BY <1>1, <1>6, <1>7
  <1>9. QED
    BY <1>8 DEF E, O

-----------------------------------------------------------------------------
(* What an end hears *)

\* The sealed frames to x, as far as the steps need to know.
LEMMA Held ==
    ASSUME NEW r \in Nat, NEW x, NEW y, NEW w, NEW v, LinkSound(x, y, w, v, r)
    PROVE  /\ w \in Seq(LinkFrame) /\ v \in Seq(LinkFrame)
           /\ x \in EndRecord /\ y \in EndRecord
           /\ x.received + Len(x.early) \in Nat /\ x.sent \in Nat /\ y.sent \in Nat
           /\ y.received + Len(y.early) \in Nat /\ Len(x.early) \in Nat /\ Len(y.early) \in Nat
  <1>1. w \in Seq(LinkFrame) /\ v \in Seq(LinkFrame) /\ EndSound(x, r) /\ EndSound(y, r)
    BY DEF LinkSound, Heard
  <1>2. /\ x \in EndRecord /\ x.received \in Nat /\ Len(x.early) \in Nat /\ x.sent \in Nat
        /\ y \in EndRecord /\ y.received \in Nat /\ Len(y.early) \in Nat /\ y.sent \in Nat
    BY <1>1, EndTypes
  <1>3. x.received + Len(x.early) \in Nat /\ y.received + Len(y.early) \in Nat
    <2>1. \A a, b \in Nat : a + b \in Nat
      OBVIOUS
    <2>2. QED
      BY <1>2, <2>1, Zenon
  <1>4. QED
    BY <1>1, <1>2, <1>3

LEMMA ChallengeHeard ==
    ASSUME NEW r \in Nat, NEW x, NEW y, NEW w, NEW v, LinkSound(x, y, w, v, r), w # << >>,
           Head(w).t = "challenge", x.attached, ~ x.closed,
           NEW z, z = IF x.answered THEN x ELSE [x EXCEPT !.answered = TRUE, !.signing = TRUE]
    PROVE  LinkSound(z, y, Tail(w), v, r)
  <1>1. w \in Seq(LinkFrame) /\ x \in EndRecord /\ x.received + Len(x.early) \in Nat /\ y.sent \in Nat
    BY Held
  <1>2. /\ Tail(w) \in Seq(LinkFrame)
        /\ \A t \in {"hello", "key", "req", "res"} : Count(Tail(w), t) = Count(w, t)
    BY <1>1, TakenCounts DEF Types
  <1>3. Head(w) \notin SealedFrame /\ \A a, b \in Nat : Spans(w, a, b) => Spans(Tail(w), a, b)
    BY <1>1, FrameTaken, Plain
  <1> USE DEF LinkSound
  <1>4. y.attached
    BY DEF Heard
  <1>5. LinkSound(x, y, Tail(w), v, r)
    <2>1. Heard(x, y, Tail(w))
      BY <1>2, <1>4 DEF Heard
    <2>2. Numbered(x, y, Tail(w), r)
      BY <1>1, <1>2, <1>3 DEF Numbered
    <2>3. Waits(x, y, Tail(w), v) /\ Waits(y, x, v, Tail(w))
      BY <1>2 DEF Waits
    <2>4. QED
      BY <2>1, <2>2, <2>3
  <1>6. CASE ~ x.answered
    <2>1. z = [x EXCEPT !.answered = TRUE, !.signing = TRUE]
      BY <1>6
    <2>2. /\ z \in EndRecord
          /\ z.attached = x.attached /\ z.answered /\ z.signing
          /\ z.hello = x.hello /\ z.closing = x.closing /\ z.closed = x.closed
          /\ z.encrypting = x.encrypting /\ z.keyFrame = x.keyFrame /\ z.channel = x.channel
          /\ z.peer = x.peer /\ z.finished = x.finished /\ z.finishing = x.finishing
          /\ z.bad = x.bad /\ z.pending = x.pending
          /\ z.early = x.early /\ z.sent = x.sent /\ z.received = x.received
      BY <1>1, <2>1 DEF EndRecord
    <2>3. EndSound(z, r)
      BY <2>2 DEF EndSound
    <2>4. Heard(z, y, Tail(w))
      BY <1>4, <1>5, <2>2 DEF Heard
    <2>5. Heard(y, z, v)
      BY <1>5, <1>6, <2>2 DEF Heard
    <2>6. Numbered(z, y, Tail(w), r)
      BY <1>5, <2>2 DEF Numbered
    <2>7. Numbered(y, z, v, r)
      BY <2>2 DEF Numbered
    <2>8. Waits(z, y, Tail(w), v) /\ Waits(y, z, v, Tail(w))
      BY <1>5, <2>2 DEF Waits
    <2>9. QED
      BY <1>5, <2>3, <2>4, <2>5, <2>6, <2>7, <2>8
  <1>7. QED
    BY <1>5, <1>6

LEMMA HelloHeard ==
    ASSUME NEW r \in Nat, NEW x, NEW y, NEW w, NEW v, LinkSound(x, y, w, v, r), w # << >>,
           Head(w).t = "hello", x.attached, ~ x.closed,
           NEW z, z = IF x.peer THEN x ELSE [x EXCEPT !.hello = "verifying"]
    PROVE  LinkSound(z, y, Tail(w), v, r)
  <1>1. w \in Seq(LinkFrame) /\ x \in EndRecord /\ x.received + Len(x.early) \in Nat /\ y.sent \in Nat
    BY Held
  <1>2. /\ Tail(w) \in Seq(LinkFrame)
        /\ \A t \in {"key", "req", "res"} : Count(Tail(w), t) = Count(w, t)
        /\ Count(w, "hello") \in Nat /\ Count(Tail(w), "hello") \in Nat
        /\ Count(Tail(w), "hello") = Count(w, "hello") - 1
    BY <1>1, TakenCounts DEF Types
  <1>3. Head(w) \notin SealedFrame /\ \A a, b \in Nat : Spans(w, a, b) => Spans(Tail(w), a, b)
    BY <1>1, FrameTaken, Plain
  <1> USE DEF LinkSound
  <1>4. /\ y.attached /\ y.answered /\ ~ y.signing /\ x.hello = "none"
        /\ Count(w, "hello") = 1 /\ Count(Tail(w), "hello") = 0
    BY <1>2 DEF Heard
  <1>5. ~ x.peer /\ ~ x.finished /\ ~ x.encrypting /\ ~ x.channel
    BY <1>1, <1>4 DEF EndSound, EndRecord
  <1>6. z = [x EXCEPT !.hello = "verifying"]
    BY <1>5
  <1>7. /\ z \in EndRecord
        /\ z.attached = x.attached /\ z.answered = x.answered /\ z.signing = x.signing
        /\ z.hello = "verifying" /\ z.closing = x.closing /\ z.closed = x.closed
        /\ z.encrypting = x.encrypting /\ z.keyFrame = x.keyFrame /\ z.channel = x.channel
        /\ z.peer = x.peer /\ z.finished = x.finished /\ z.finishing = x.finishing
        /\ z.bad = x.bad /\ z.pending = x.pending
        /\ z.early = x.early /\ z.sent = x.sent /\ z.received = x.received
    BY <1>1, <1>6 DEF EndRecord
  <1>8. EndSound(z, r)
    BY <1>5, <1>7 DEF EndSound
  <1>9. Heard(z, y, Tail(w))
    BY <1>2, <1>4, <1>7 DEF Heard
  <1>10. Heard(y, z, v)
    BY <1>4, <1>7 DEF Heard
  <1>11. Numbered(z, y, Tail(w), r)
    BY <1>1, <1>2, <1>3, <1>7 DEF Numbered
  <1>12. Numbered(y, z, v, r)
    BY <1>7 DEF Numbered
  <1>13. Waits(z, y, Tail(w), v) /\ Waits(y, z, v, Tail(w))
    BY <1>2, <1>7 DEF Waits
  <1>14. QED
    BY <1>8, <1>9, <1>10, <1>11, <1>12, <1>13

\* End z is x, but that it has the other end's key.
SameButKey(x, z) ==
    /\ z.attached = x.attached /\ z.answered = x.answered /\ z.signing = x.signing
    /\ z.hello = x.hello /\ z.closing = x.closing /\ z.closed = x.closed
    /\ z.encrypting = x.encrypting /\ z.keyFrame /\ z.channel = x.channel
    /\ z.peer = x.peer /\ z.bad = x.bad /\ z.pending = x.pending
    /\ z.early = x.early /\ z.sent = x.sent /\ z.received = x.received

LEMMA KeyHeard ==
    ASSUME NEW r \in Nat, NEW x, NEW y, NEW w, NEW v, LinkSound(x, y, w, v, r), w # << >>,
           Head(w).t = "key", x.attached, ~ x.closed,
           NEW z, z = IF x.channel \/ x.keyFrame THEN x ELSE Finishes([x EXCEPT !.keyFrame = TRUE])
    PROVE  LinkSound(z, y, Tail(w), v, r)
  <1>1. w \in Seq(LinkFrame) /\ x \in EndRecord /\ x.received + Len(x.early) \in Nat /\ y.sent \in Nat
    BY Held
  <1>2. /\ Tail(w) \in Seq(LinkFrame)
        /\ \A t \in {"hello", "req", "res"} : Count(Tail(w), t) = Count(w, t)
        /\ Count(w, "key") \in Nat /\ Count(Tail(w), "key") \in Nat
        /\ Count(Tail(w), "key") = Count(w, "key") - 1
    BY <1>1, TakenCounts DEF Types
  <1>3. Head(w) \notin SealedFrame /\ \A a, b \in Nat : Spans(w, a, b) => Spans(Tail(w), a, b)
    BY <1>1, FrameTaken, Plain
  <1> USE DEF LinkSound
  <1>4. y.attached /\ y.hello = "verified"
    BY <1>2 DEF Heard
  <1>5. CASE x.channel \/ x.keyFrame
    <2>1. z = x /\ x.keyFrame
      BY <1>1, <1>5 DEF EndSound, EndRecord
    <2>2. Heard(x, y, Tail(w))
      BY <1>2, <1>4, <2>1 DEF Heard
    <2>3. Numbered(x, y, Tail(w), r)
      BY <1>1, <1>2, <1>3 DEF Numbered
    <2>4. Waits(x, y, Tail(w), v) /\ Waits(y, x, v, Tail(w))
      BY <1>2 DEF Waits
    <2>5. QED
      BY <2>1, <2>2, <2>3, <2>4
  <1>6. CASE ~ x.channel /\ ~ x.keyFrame
    <2>1. ~ x.finished /\ x.finishing = 0
      BY <1>1, <1>6 DEF EndSound, EndRecord
    <2> DEFINE u == [x EXCEPT !.keyFrame = TRUE]
    <2>2. /\ u \in EndRecord /\ SameButKey(x, u) /\ ~ u.finished /\ u.finishing = 0
          /\ z = Finishes(u)
      BY <1>1, <1>6, <2>1 DEF EndRecord, SameButKey
    <2> HIDE DEF u
    <2>3. /\ z \in EndRecord /\ SameButKey(x, z)
          /\ z.hello # "verified" => ~ z.finished /\ z.finishing = 0
          /\ z.hello = "verified" => z.finished /\ z.finishing = 1
      <3>1. CASE u.hello # "verified"
        <4>1. z = u
          BY <2>2, <3>1 DEF Finishes
        <4>2. QED
          BY <2>2, <3>1, <4>1
      <3>2. CASE u.hello = "verified"
        <4>1. z = [u EXCEPT !.finishing = 1, !.finished = TRUE]
          <5>1. z = [u EXCEPT !.finishing = u.finishing + 1, !.finished = TRUE]
            BY <1>6, <2>2, <3>2 DEF Finishes, SameButKey
          <5>2. u.finishing + 1 = 1
            BY <2>2
          <5>3. QED
            BY <5>1, <5>2
        <4>2. z.finishing = 1 /\ z.finished
          BY <2>2, <4>1 DEF EndRecord
        <4>3. z \in EndRecord
          <5>1. 1 \in 0 .. 1
            OBVIOUS
          <5>2. QED
            BY <2>2, <4>1, <5>1 DEF EndRecord
        <4>4. z.hello = "verified" /\ SameButKey(u, z)
          BY <2>2, <3>2, <4>1 DEF EndRecord, SameButKey
        <4>5. SameButKey(x, z)
          BY <2>2, <4>4 DEF SameButKey
        <4>6. QED
          BY <4>2, <4>3, <4>4, <4>5
      <3>3. QED
        BY <3>1, <3>2
    <2>4. EndSound(z, r) /\ SameButKey(x, z)
      BY <1>6, <2>1, <2>3 DEF EndSound, SameButKey
    <2>5. Heard(z, y, Tail(w))
      BY <1>2, <1>4, <2>4 DEF Heard, SameButKey
    <2>6. Heard(y, z, v)
      BY <2>4 DEF Heard, SameButKey
    <2>7. Numbered(z, y, Tail(w), r)
      <3>1. Numbered(x, y, Tail(w), r)
        BY <1>1, <1>2, <1>3 DEF Numbered
      <3>2. QED
        BY <2>4, <3>1 DEF Numbered, SameButKey
    <2>8. Numbered(y, z, v, r)
      BY <2>4 DEF Numbered, SameButKey
    <2>9. Waits(z, y, Tail(w), v) /\ Waits(y, z, v, Tail(w))
      BY <1>2, <2>4 DEF Waits, SameButKey
    <2>10. QED
      BY <2>4, <2>5, <2>6, <2>7, <2>8, <2>9
  <1>7. QED
    BY <1>5, <1>6

\* A sealed frame that comes before the channel has a place among those held.
LEMMA SealedHeld ==
    ASSUME NEW r \in Nat, NEW x, NEW y, NEW w, NEW v, LinkSound(x, y, w, v, r), w # << >>,
           Head(w).t \in {"req", "res"}, x.attached, ~ x.closed, ~ x.channel, r <= MaxEarly,
           NEW z, z = IF Len(x.early) < MaxEarly THEN [x EXCEPT !.early = Append(@, Head(w))] ELSE x
    PROVE  LinkSound(z, y, Tail(w), v, r)
  <1> DEFINE k == Len(x.early)
             f == Head(w)
  <1>1. /\ w \in Seq(LinkFrame) /\ x \in EndRecord /\ y.sent \in Nat /\ k \in Nat
        /\ Len(y.early) \in Nat
    BY Held
  <1>2. /\ Tail(w) \in Seq(LinkFrame) /\ f \in LinkFrame /\ f \in SealedFrame
        /\ \A a, b \in Nat : Spans(w, a, b) =>
              f.n = a + 1 /\ a + 1 <= b /\ Spans(Tail(w), a + 1, b)
    BY <1>1, FrameTaken, Plain
  <1>3. /\ \A t \in {"hello", "key"} : Count(Tail(w), t) = Count(w, t)
        /\ \A t \in {"req", "res"} : /\ Count(w, t) \in Nat /\ Count(Tail(w), t) \in Nat
                                     /\ Count(Tail(w), t) = IF f.t = t THEN Count(w, t) - 1 ELSE Count(w, t)
    BY <1>1, TakenCounts DEF Types
  <1> USE DEF LinkSound
  <1>4. x.received = 0 /\ x.sent = 0 /\ y.sent <= r /\ Count(w, "res") = 0 /\ Spans(w, k, y.sent)
    <2>1. x.received = 0 /\ x.sent = 0
      BY DEF EndSound
    <2>2. x.received + k = k
      BY <1>1, <2>1
    <2>3. QED
      BY <2>1, <2>2 DEF Numbered
  <1>5. f.t = "req" /\ f.n = k + 1 /\ k + 1 <= y.sent /\ Spans(Tail(w), k + 1, y.sent)
    <2>1. f.t # "res"
      BY <1>3, <1>4
    <2>2. QED
      BY <1>1, <1>2, <1>4, <2>1
  <1>6. f = [t |-> "req", n |-> k + 1]
    BY <1>2, <1>5, Plain
  <1>7. k < MaxEarly
    BY <1>1, <1>4, <1>5
  <1>8. y.attached
    BY DEF Heard
  <1> DEFINE held == Append(x.early, f)
  <1>9. /\ held \in Seq(LinkFrame) /\ Len(held) = k + 1 /\ held[k + 1] = f
        /\ \A i \in 1 .. k : held[i] = x.early[i]
        /\ DOMAIN held = 1 .. k + 1 /\ DOMAIN x.early = 1 .. k
    BY <1>1, <1>2 DEF EndRecord
  <1>10. z = [x EXCEPT !.early = held]
    BY <1>7
  <1> HIDE DEF held
  <1>11. \A i \in DOMAIN held : held[i] = [t |-> "req", n |-> i]
    <2>1. SUFFICES ASSUME NEW i \in 1 .. k + 1 PROVE held[i] = [t |-> "req", n |-> i]
      BY <1>9
    <2>2. CASE i = k + 1
      BY <1>6, <1>9, <2>2
    <2>3. CASE i # k + 1
      <3>1. i \in 1 .. k
        <4>1. \A n \in Nat : \A j \in 1 .. n + 1 : j # n + 1 => j \in 1 .. n
          OBVIOUS
        <4> HIDE DEF k
        <4>2. QED
          BY <1>1, <2>1, <2>3, <4>1
      <3>2. QED
        BY <1>9, <3>1 DEF Numbered
    <2>4. QED
      BY <2>2, <2>3
  <1>12. k + 1 <= MaxEarly
    BY <1>1, <1>7
  <1> HIDE DEF k, f
  <1>13. /\ z \in EndRecord
         /\ z.attached = x.attached /\ z.answered = x.answered /\ z.signing = x.signing
         /\ z.hello = x.hello /\ z.closing = x.closing /\ z.closed = x.closed
         /\ z.encrypting = x.encrypting /\ z.keyFrame = x.keyFrame /\ z.channel = x.channel
         /\ z.peer = x.peer /\ z.finished = x.finished /\ z.finishing = x.finishing
         /\ z.bad = x.bad /\ z.pending = x.pending
         /\ z.early = held /\ z.sent = x.sent /\ z.received = x.received
    BY <1>1, <1>9, <1>10 DEF EndRecord
  <1>14. EndSound(z, r)
    BY <1>9, <1>12, <1>13 DEF EndSound
  <1>15. Heard(z, y, Tail(w))
    BY <1>2, <1>3, <1>8, <1>13 DEF Heard
  <1>16. Heard(y, z, v)
    BY <1>13 DEF Heard
  <1>17. Numbered(z, y, Tail(w), r)
    <2>1. z.received + Len(z.early) = k + 1
      BY <1>1, <1>4, <1>9, <1>13
    <2>2. Count(Tail(w), "res") = 0
      BY <1>3, <1>4, <1>5
    <2>3. QED
      BY <1>4, <1>5, <1>11, <1>13, <2>1, <2>2 DEF Numbered
  <1>18. Numbered(y, z, v, r)
    BY <1>13 DEF Numbered
  <1>19. Waits(z, y, Tail(w), v)
    BY <1>3, <1>5, <1>13 DEF Waits
  <1>20. Waits(y, z, v, Tail(w))
    BY <1>1, <1>3, <1>5, <1>9, <1>13 DEF Waits, k
  <1>21. QED
    BY <1>14, <1>15, <1>16, <1>17, <1>18, <1>19, <1>20

\* End z is x, but for the sealed frames it has had and sent.
SameButFrames(x, z) ==
    /\ z.attached = x.attached /\ z.answered = x.answered /\ z.signing = x.signing
    /\ z.hello = x.hello /\ z.closing = x.closing /\ z.closed = x.closed
    /\ z.encrypting = x.encrypting /\ z.keyFrame = x.keyFrame /\ z.channel = x.channel
    /\ z.peer = x.peer /\ z.finished = x.finished /\ z.finishing = x.finishing
    /\ z.bad = x.bad /\ z.early = x.early

FramesSet(x, a, b, c) == [x EXCEPT !.received = a, !.sent = b, !.pending = c]

\* Its numbers alone change.
LEMMA FramesSetIs ==
    ASSUME NEW x \in EndRecord, NEW a \in Nat, NEW b \in Nat, NEW c \in Nat
    PROVE  FramesSet(x, a, b, c) \in EndRecord /\ SameButFrames(x, FramesSet(x, a, b, c))
  <1>1. FramesSet(x, a, b, c) \in EndRecord
    BY DEF EndRecord, FramesSet
  <1>2. SameButFrames(x, FramesSet(x, a, b, c))
    BY DEF EndRecord, FramesSet, SameButFrames
  <1>3. QED
    BY <1>1, <1>2

LEMMA AnswerTaken ==
    ASSUME NEW x \in EndRecord, ~ x.bad, NEW f, f = [t |-> "res", n |-> x.received + 1]
    PROVE  /\ TakeSealed(x, f).end = [x EXCEPT !.received = x.received + 1,
                                               !.pending = IF x.pending > 0 THEN x.pending - 1 ELSE 0]
           /\ TakeSealed(x, f).out = << >>
  <1> DEFINE u == [x EXCEPT !.received = x.received + 1]
  <1>1. f.t = "res" /\ f.n = x.received + 1
    OBVIOUS
  <1>2. Opens(x, f.n) = u
    BY <1>1 DEF Opens
  <1>3. u.pending = x.pending
    BY DEF EndRecord
  <1>4. Handled(u, f) = [u EXCEPT !.pending = IF u.pending > 0 THEN u.pending - 1 ELSE 0]
    BY <1>1 DEF Handled
  <1>5. Handled(u, f) = [x EXCEPT !.received = x.received + 1,
                                  !.pending = IF x.pending > 0 THEN x.pending - 1 ELSE 0]
    BY <1>3, <1>4 DEF EndRecord
  <1> HIDE DEF u
  <1>6. QED
    BY <1>1, <1>2, <1>5 DEF TakeSealed

\* What it does to the end, and to the frames it has sent.
LEMMA SealedOpened ==
    ASSUME NEW x \in EndRecord, ~ x.bad, NEW f \in SealedFrame, f.n = x.received + 1
    PROVE  LET z == TakeSealed(x, f).end
               out == TakeSealed(x, f).out
           IN  /\ z \in EndRecord /\ SameButFrames(x, z) /\ z.received = x.received + 1
               /\ z.pending <= x.pending
               /\ f.t = "req" => z.pending = x.pending
               /\ f.t = "res" => z.pending = IF x.pending > 0 THEN x.pending - 1 ELSE 0
               /\ f.t = "req" /\ Answering(x) => /\ z.sent = x.sent + 1
                                                 /\ out = << [t |-> "res", n |-> x.sent + 1] >>
               /\ ~ (f.t = "req" /\ Answering(x)) => z.sent = x.sent /\ out = << >>
  <1> DEFINE z == TakeSealed(x, f).end
             out == TakeSealed(x, f).out
  <1>0. x.received \in Nat /\ x.sent \in Nat /\ x.pending \in Nat
    BY DEF EndRecord
  <1>1. f.t \in {"req", "res"} /\ f = [t |-> f.t, n |-> x.received + 1]
    BY Plain, SealedIs
  <1>2. x.received + 1 \in Nat /\ x.sent \in Nat /\ x.sent + 1 \in Nat /\ x.pending \in Nat
    BY <1>0
  <1>3. CASE f.t = "res"
    <2> DEFINE c == IF x.pending > 0 THEN x.pending - 1 ELSE 0
    <2>1. c \in Nat /\ c <= x.pending
      BY <1>0
    <2>2. f = [t |-> "res", n |-> x.received + 1]
      BY <1>1, <1>3
    <2>3. z = [x EXCEPT !.received = x.received + 1, !.pending = c] /\ out = << >>
      BY <2>2, AnswerTaken
    <2> HIDE DEF c
    <2>4. z = FramesSet(x, x.received + 1, x.sent, c)
      BY <2>3 DEF FramesSet, EndRecord
    <2>5. /\ z \in EndRecord /\ SameButFrames(x, z) /\ z.received = x.received + 1
          /\ z.sent = x.sent /\ z.pending = c
      <3> DEFINE a == x.received + 1
                 b == x.sent
      <3>1. x \in EndRecord /\ a \in Nat /\ b \in Nat /\ c \in Nat /\ z = FramesSet(x, a, b, c)
        BY <1>2, <2>1, <2>4
      <3> HIDE DEF a, b, z
      <3>2. z \in EndRecord /\ SameButFrames(x, z)
        BY <3>1, FramesSetIs
      <3>3. z.received = a /\ z.sent = b /\ z.pending = c
        BY <3>1 DEF EndRecord, FramesSet
      <3>4. QED
        BY <3>2, <3>3 DEF a, b
    <2>6. QED
      BY <1>3, <2>1, <2>3, <2>5 DEF c
  <1>4. CASE f.t = "req" /\ Answering(x)
    <2>1. f = [t |-> "req", n |-> x.received + 1]
      BY <1>1, <1>4
    <2>2. /\ TakeSealed(x, f).end = [x EXCEPT !.received = x.received + 1, !.sent = x.sent + 1]
          /\ TakeSealed(x, f).out = << [t |-> "res", n |-> x.sent + 1] >>
      BY <1>4, <2>1, RequestTaken
    <2>3. out = << [t |-> "res", n |-> x.sent + 1] >>
      BY <2>2
    <2>4. z = FramesSet(x, x.received + 1, x.sent + 1, x.pending)
      BY <2>2 DEF FramesSet, EndRecord
    <2>5. /\ z \in EndRecord /\ SameButFrames(x, z) /\ z.received = x.received + 1
          /\ z.sent = x.sent + 1 /\ z.pending = x.pending
      <3> DEFINE a == x.received + 1
                 b == x.sent + 1
      <3>1. x \in EndRecord /\ a \in Nat /\ b \in Nat /\ x.pending \in Nat /\ z = FramesSet(x, a, b, x.pending)
        BY <1>2, <2>4
      <3> HIDE DEF a, b, z
      <3>2. z \in EndRecord /\ SameButFrames(x, z)
        BY <3>1, FramesSetIs
      <3>3. z.received = a /\ z.sent = b /\ z.pending = x.pending
        BY <3>1 DEF EndRecord, FramesSet
      <3>4. QED
        BY <3>2, <3>3 DEF a, b
    <2>6. z.pending <= x.pending
      BY <1>0, <2>5
    <2>7. QED
      BY <1>4, <2>3, <2>5, <2>6
  <1>5. CASE f.t = "req" /\ ~ Answering(x)
    <2>1. f = [t |-> "req", n |-> x.received + 1]
      BY <1>1, <1>5
    <2>2. /\ TakeSealed(x, f).end = [x EXCEPT !.received = x.received + 1]
          /\ TakeSealed(x, f).out = << >>
      BY <1>5, <2>1, RequestTaken
    <2>3. z = FramesSet(x, x.received + 1, x.sent, x.pending)
      BY <2>2 DEF FramesSet, EndRecord
    <2>4. /\ z \in EndRecord /\ SameButFrames(x, z) /\ z.received = x.received + 1
          /\ z.sent = x.sent /\ z.pending = x.pending
      <3> DEFINE a == x.received + 1
                 b == x.sent
      <3>1. x \in EndRecord /\ a \in Nat /\ b \in Nat /\ x.pending \in Nat /\ z = FramesSet(x, a, b, x.pending)
        BY <1>2, <2>3
      <3> HIDE DEF a, b, z
      <3>2. z \in EndRecord /\ SameButFrames(x, z)
        BY <3>1, FramesSetIs
      <3>3. z.received = a /\ z.sent = b /\ z.pending = x.pending
        BY <3>1 DEF EndRecord, FramesSet
      <3>4. QED
        BY <3>2, <3>3 DEF a, b
    <2>5. z.pending <= x.pending
      BY <1>0, <2>4
    <2>6. out = << >>
      BY <2>2
    <2>7. QED
      BY <1>5, <2>4, <2>5, <2>6
  <1>6. QED
    BY <1>1, <1>3, <1>4, <1>5

\* A sealed frame is the next one; a request is answered, if the end still answers.
LEMMA SealedTaken ==
    ASSUME NEW r \in Nat, NEW x, NEW y, NEW w, NEW v, LinkSound(x, y, w, v, r), w # << >>,
           Head(w).t \in {"req", "res"}, x.attached, ~ x.closed, x.channel,
           NEW z, z = TakeSealed(x, Head(w)).end,
           NEW u, u = v \o TakeSealed(x, Head(w)).out
    PROVE  LinkSound(z, y, Tail(w), u, r)
  <1> DEFINE f == Head(w)
  <1>1. /\ w \in Seq(LinkFrame) /\ v \in Seq(LinkFrame) /\ x \in EndRecord /\ y \in EndRecord
        /\ x.received + Len(x.early) \in Nat /\ x.sent \in Nat /\ y.sent \in Nat
        /\ y.received + Len(y.early) \in Nat /\ Len(y.early) \in Nat
    BY Held
  <1>2. /\ Tail(w) \in Seq(LinkFrame) /\ f \in LinkFrame /\ f \in SealedFrame
        /\ \A a, b \in Nat : Spans(w, a, b) =>
              f.n = a + 1 /\ a + 1 <= b /\ Spans(Tail(w), a + 1, b)
    BY <1>1, FrameTaken, Plain
  <1>3. /\ \A t \in {"hello", "key"} : Count(Tail(w), t) = Count(w, t)
        /\ \A t \in {"req", "res"} : /\ Count(w, t) \in Nat /\ Count(Tail(w), t) \in Nat
                                     /\ Count(Tail(w), t) = IF f.t = t THEN Count(w, t) - 1 ELSE Count(w, t)
    BY <1>1, TakenCounts DEF Types
  <1> USE DEF LinkSound
  <1>4. x.early = << >> /\ Len(x.early) = 0 /\ ~ x.bad /\ x.received \in Nat /\ x.pending \in Nat
    BY <1>1 DEF EndSound, EndRecord
  <1>5. Spans(w, x.received, y.sent)
    <2>1. x.received + Len(x.early) = x.received
      BY <1>4
    <2>2. QED
      BY <2>1 DEF Numbered
  <1>6. f.n = x.received + 1 /\ x.received + 1 <= y.sent /\ Spans(Tail(w), x.received + 1, y.sent)
    BY <1>1, <1>2, <1>4, <1>5
  <1>7. f = [t |-> f.t, n |-> x.received + 1]
    BY <1>2, <1>6, Plain
  <1>8. y.attached
    BY DEF Heard
  <1>9. y.channel
    BY <1>1, <1>4, <1>6 DEF EndSound, EndRecord
  <1>10. /\ z \in EndRecord /\ SameButFrames(x, z) /\ z.received = x.received + 1
         /\ z.pending <= x.pending
         /\ f.t = "req" => z.pending = x.pending
         /\ f.t = "res" => z.pending = IF x.pending > 0 THEN x.pending - 1 ELSE 0
         /\ f.t = "req" /\ Answering(x) => /\ z.sent = x.sent + 1
                                           /\ u = Append(v, [t |-> "res", n |-> x.sent + 1])
         /\ ~ (f.t = "req" /\ Answering(x)) => z.sent = x.sent /\ u = v
    <2>1. z = TakeSealed(x, f).end /\ u = v \o TakeSealed(x, f).out
      OBVIOUS
    <2>2. v \o << >> = v /\ \A g : v \o << g >> = Append(v, g)
      BY <1>1
    <2> HIDE DEF f
    <2> DEFINE out == TakeSealed(x, f).out
    <2>3. x \in EndRecord /\ ~ x.bad /\ f \in SealedFrame /\ f.n = x.received + 1
      BY <1>1, <1>2, <1>4, <1>6
    <2>4. /\ z \in EndRecord /\ SameButFrames(x, z) /\ z.received = x.received + 1
          /\ z.pending <= x.pending
          /\ f.t = "req" => z.pending = x.pending
          /\ f.t = "res" => z.pending = IF x.pending > 0 THEN x.pending - 1 ELSE 0
          /\ f.t = "req" /\ Answering(x) => /\ z.sent = x.sent + 1
                                            /\ out = << [t |-> "res", n |-> x.sent + 1] >>
          /\ ~ (f.t = "req" /\ Answering(x)) => z.sent = x.sent /\ out = << >>
      <3>1. LET t == TakeSealed(x, f).end
            IN  /\ t \in EndRecord /\ SameButFrames(x, t) /\ t.received = x.received + 1
                /\ t.pending <= x.pending
                /\ f.t = "req" => t.pending = x.pending
                /\ f.t = "res" => t.pending = IF x.pending > 0 THEN x.pending - 1 ELSE 0
                /\ f.t = "req" /\ Answering(x) => /\ t.sent = x.sent + 1
                                                  /\ out = << [t |-> "res", n |-> x.sent + 1] >>
                /\ ~ (f.t = "req" /\ Answering(x)) => t.sent = x.sent /\ out = << >>
        BY <2>3, SealedOpened
      <3>2. QED
        BY <2>1, <3>1
    <2>5. f.t = "req" /\ Answering(x) => u = Append(v, [t |-> "res", n |-> x.sent + 1])
      BY <2>1, <2>2, <2>4
    <2>6. ~ (f.t = "req" /\ Answering(x)) => u = v
      BY <2>1, <2>2, <2>4
    <2>7. QED
      BY <2>4, <2>5, <2>6
  <1>11. /\ u \in Seq(LinkFrame)
         /\ \A t \in {"hello", "key", "req"} : Count(u, t) = Count(v, t)
         /\ Count(v, "res") \in Nat
         /\ Count(u, "res") = IF f.t = "req" /\ Answering(x) THEN Count(v, "res") + 1 ELSE Count(v, "res")
         /\ \A a \in Nat : Spans(v, a, x.sent) => Spans(u, a, z.sent)
         /\ u # << >> => v # << >> \/ x.attached
    <2>1. CASE f.t = "req" /\ Answering(x)
      <3>1. u = Append(v, [t |-> "res", n |-> x.sent + 1]) /\ z.sent = x.sent + 1
        BY <1>10, <2>1
      <3>2. /\ u \in Seq(LinkFrame)
            /\ \A t \in Types : /\ Count(v, t) \in Nat
                                /\ Count(u, t) = IF "res" = t THEN Count(v, t) + 1 ELSE Count(v, t)
            /\ \A a \in Nat : Spans(v, a, x.sent) => Spans(u, a, x.sent + 1)
        <4> DEFINE g == [t |-> "res", n |-> x.sent + 1]
        <4>1. g \in LinkFrame /\ g \in SealedFrame /\ g.t = "res" /\ g.n = x.sent + 1
          <5>1. x.sent + 1 \in Nat \ {0}
            <6>1. \A n \in Nat : n + 1 \in Nat \ {0}
              OBVIOUS
            <6>2. QED
              BY <1>1, <6>1, Zenon
          <5>2. QED
            BY <5>1, Plain
        <4>2. u = Append(v, g)
          BY <3>1
        <4> HIDE DEF g
        <4>3. /\ u \in Seq(LinkFrame)
              /\ \A t \in Types : /\ Count(v, t) \in Nat
                                  /\ Count(u, t) = Count(v, t) + (IF g.t = t THEN 1 ELSE 0)
          <5>1. /\ Append(v, g) \in Seq(LinkFrame)
                /\ \A t \in Types : /\ Count(v, t) \in Nat
                                    /\ Count(Append(v, g), t) = Count(v, t) + (IF g.t = t THEN 1 ELSE 0)
            BY <1>1, <4>1, FrameSent
          <5>2. QED
            BY <4>2, <5>1
        <4>4. ASSUME NEW a \in Nat, Spans(v, a, x.sent)
              PROVE  Spans(u, a, x.sent + 1)
          <5>1. \A b \in Nat : Spans(v, a, b) /\ g.n = b + 1 => Spans(Append(v, g), a, b + 1)
            BY <1>1, <4>1, FrameSent
          <5>2. QED
            BY <1>1, <4>1, <4>2, <4>4, <5>1
        <4>5. QED
          BY <4>1, <4>3, <4>4
      <3>3. QED
        BY <2>1, <3>1, <3>2 DEF Types
    <2>2. CASE ~ (f.t = "req" /\ Answering(x))
      <3>1. u = v /\ z.sent = x.sent /\ Count(v, "res") \in Nat
        BY <1>1, <1>10, <2>2, CountIsNat
      <3>2. QED
        BY <1>1, <2>2, <3>1
    <2>3. QED
      BY <2>1, <2>2
  <1> HIDE DEF f
  <1>12. EndSound(z, r)
    <2>1. z.pending \in Nat /\ z.pending <= x.pending /\ x.pending <= r
      BY <1>10 DEF EndSound, EndRecord
    <2>2. z.pending <= r /\ (x.pending = 0 => z.pending = 0)
      BY <1>4, <2>1
    <2>3. QED
      BY <1>10, <2>2, ZenonT(40) DEF EndSound, SameButFrames
  <1>13. Heard(z, y, Tail(w))
    BY <1>2, <1>3, <1>8, <1>10, SMTT(20) DEF Heard, SameButFrames
  <1>14. Heard(y, z, u)
    <2>1. /\ Heard(y, x, v)
          /\ z.attached = x.attached /\ z.answered = x.answered /\ z.signing = x.signing
          /\ z.hello = x.hello /\ z.channel = x.channel /\ z.encrypting = x.encrypting
          /\ z.peer = x.peer /\ z.closing = x.closing /\ z.closed = x.closed
          /\ z.finished = x.finished /\ z.finishing = x.finishing /\ z.keyFrame = x.keyFrame
      BY <1>10 DEF SameButFrames
    <2>2. u \in Seq(LinkFrame) /\ Count(u, "hello") = Count(v, "hello") /\ Count(u, "key") = Count(v, "key")
      BY <1>11
    <2>3. QED
      BY <1>11, <2>1, <2>2 DEF Heard
  <1>15. Numbered(z, y, Tail(w), r)
    <2>1. z.early = << >> /\ z.received + Len(z.early) = x.received + 1
      BY <1>4, <1>10 DEF SameButFrames
    <2>2. z.channel
      BY <1>10 DEF SameButFrames
    <2>3. \A i \in DOMAIN z.early : z.early[i] = [t |-> "req", n |-> i]
      BY <2>1
    <2>4. Spans(Tail(w), z.received + Len(z.early), y.sent)
      BY <1>6, <2>1
    <2>5. QED
      BY <2>2, <2>3, <2>4 DEF Numbered
  <1>16. Numbered(y, z, u, r)
    BY <1>1, <1>9, <1>11 DEF Numbered
  <1>17. Waits(z, y, Tail(w), u)
    <2>1. SUFFICES ASSUME ~ x.closing, ~ y.closing
                   PROVE  z.pending <= Count(u, "req") + Len(y.early) + Count(Tail(w), "res")
      BY <1>10 DEF Waits, SameButFrames
    <2>2. /\ x.pending <= Count(v, "req") + Len(y.early) + Count(w, "res")
          /\ Count(u, "req") = Count(v, "req") /\ Count(v, "req") \in Nat
      BY <1>1, <1>11, <2>1, CountIsNat DEF Waits
    <2>3. CASE f.t = "req"
      BY <1>3, <1>10, <2>2, <2>3
    <2>4. CASE f.t = "res"
      <3>1. /\ Count(Tail(w), "res") = Count(w, "res") - 1 /\ Count(Tail(w), "res") \in Nat
            /\ Count(w, "res") \in Nat
        BY <1>3, <2>4
      <3>2. z.pending = IF x.pending > 0 THEN x.pending - 1 ELSE 0
        BY <1>10, <2>4
      <3>3. y.early \in Seq(LinkFrame) /\ Len(y.early) \in Nat /\ Count(v, "req") \in Nat
        BY <1>1, <2>2 DEF EndRecord
      <3>4. x.pending <= Count(v, "req") + Len(y.early) + Count(w, "res")
        BY <2>2
      <3>5. x.pending \in Nat
        BY <1>4
      <3>6. z.pending <= Count(v, "req") + Len(y.early) + (Count(w, "res") - 1)
        <4>1. \A a, b, c, d \in Nat :
                 a <= b + c + d /\ d - 1 \in Nat =>
                    (IF a > 0 THEN a - 1 ELSE 0) <= b + c + (d - 1)
          OBVIOUS
        <4>2. Count(w, "res") - 1 \in Nat
          BY <3>1
        <4> DEFINE p == x.pending
                   b == Count(v, "req")
                   k == Len(y.early)
                   d == Count(w, "res")
        <4>3. p \in Nat /\ b \in Nat /\ k \in Nat /\ d \in Nat /\ d - 1 \in Nat /\ p <= b + k + d
          BY <3>1, <3>3, <3>4, <3>5, <4>2
        <4>4. z.pending = IF p > 0 THEN p - 1 ELSE 0
          BY <3>2
        <4> HIDE DEF p, b, k, d
        <4>5. (IF p > 0 THEN p - 1 ELSE 0) <= b + k + (d - 1)
          BY <4>1, <4>3
        <4>6. QED
          BY <4>4, <4>5 DEF b, k, d
      <3>7. QED
        BY <2>2, <3>1, <3>6
    <2>5. QED
      BY <2>3, <2>4 DEF f
  <1>18. Waits(y, z, u, Tail(w))
    <2>1. SUFFICES ASSUME ~ x.closing, ~ y.closing
                   PROVE  y.pending <= Count(Tail(w), "req") + Len(z.early) + Count(u, "res")
      BY <1>10 DEF Waits, SameButFrames
    <2>2. /\ y.pending <= Count(w, "req") + Len(x.early) + Count(v, "res")
          /\ y.pending \in Nat /\ Len(z.early) = 0
      BY <1>1, <1>4, <1>10, <2>1 DEF Waits, SameButFrames, EndRecord
    <2>3. CASE f.t = "req"
      <3>1. Answering(x)
        BY <2>1 DEF Answering, EndSound
      <3>2. /\ Count(Tail(w), "req") = Count(w, "req") - 1 /\ Count(w, "req") \in Nat
            /\ Count(u, "res") = Count(v, "res") + 1 /\ Count(v, "res") \in Nat
        BY <1>3, <1>11, <2>3, <3>1
      <3>3. QED
        BY <1>4, <2>2, <3>2
    <2>4. CASE f.t = "res"
      BY <1>3, <1>4, <1>11, <2>2, <2>4
    <2>5. QED
      BY <2>3, <2>4 DEF f
  <1>19. QED
    BY <1>12, <1>13, <1>14, <1>15, <1>16, <1>17, <1>18

-----------------------------------------------------------------------------
(* What an end does on its own *)

LEMMA HelloSent ==
    ASSUME NEW r \in Nat, NEW x, NEW y, NEW w, NEW v, LinkSound(x, y, w, v, r), x.signing,
           NEW z, z = [x EXCEPT !.signing = FALSE],
           NEW u, u = IF x.closing \/ x.closed THEN v ELSE Append(v, [t |-> "hello"])
    PROVE  LinkSound(z, y, w, u, r)
  <1>1. /\ v \in Seq(LinkFrame) /\ x \in EndRecord /\ x.sent \in Nat
        /\ y.received + Len(y.early) \in Nat
    BY Held
  <1> USE DEF LinkSound
  <1>2. x.answered /\ x.attached /\ y.hello = "none" /\ Count(v, "hello") \in Nat /\ Count(v, "hello") = 0
    <2>1. x.answered /\ x.attached /\ y.hello = "none"
      BY DEF EndSound, Heard
    <2>2. Count(v, "hello") \in Nat /\ Count(v, "hello") <= 1 /\ Count(v, "hello") # 1
      BY <1>1, CountIsNat DEF Heard
    <2>3. QED
      BY <2>1, <2>2
  <1>3. /\ z \in EndRecord
        /\ z.attached = x.attached /\ z.answered = x.answered /\ ~ z.signing
        /\ z.hello = x.hello /\ z.closing = x.closing /\ z.closed = x.closed
        /\ z.encrypting = x.encrypting /\ z.keyFrame = x.keyFrame /\ z.channel = x.channel
        /\ z.peer = x.peer /\ z.finished = x.finished /\ z.finishing = x.finishing
        /\ z.bad = x.bad /\ z.pending = x.pending
        /\ z.early = x.early /\ z.sent = x.sent /\ z.received = x.received
    BY <1>1 DEF EndRecord
  <1>4. EndSound(z, r)
    BY <1>3 DEF EndSound
  <1>5. Heard(z, y, w) /\ Numbered(z, y, w, r)
    BY <1>3 DEF Heard, Numbered
  <1>6. /\ u \in Seq(LinkFrame)
        /\ \A t \in {"key", "req", "res"} : Count(u, t) = Count(v, t)
        /\ \A a, b \in Nat : Spans(v, a, b) => Spans(u, a, b)
        /\ Count(u, "hello") = IF x.closing \/ x.closed THEN 0 ELSE 1
    <2>1. CASE x.closing \/ x.closed
      BY <1>1, <1>2, <2>1
    <2>2. CASE ~ (x.closing \/ x.closed)
      <3>1. u = Append(v, [t |-> "hello"])
        BY <2>2
      <3>2. /\ u \in Seq(LinkFrame)
            /\ \A t \in Types : Count(u, t) = IF "hello" = t THEN Count(v, t) + 1 ELSE Count(v, t)
            /\ \A a, b \in Nat : Spans(v, a, b) => Spans(u, a, b)
        BY <1>1, <3>1, PlainSent
      <3>3. QED
        BY <1>2, <2>2, <3>2 DEF Types
    <2>3. QED
      BY <2>1, <2>2
  <1>7. x.closed => x.closing
    BY DEF EndSound
  <1>8. Heard(y, z, u)
    BY <1>2, <1>3, <1>6, <1>7 DEF Heard
  <1>9. Numbered(y, z, u, r)
    BY <1>1, <1>3, <1>6 DEF Numbered
  <1>10. Waits(z, y, w, u) /\ Waits(y, z, u, w)
    BY <1>3, <1>6 DEF Waits
  <1>11. QED
    BY <1>4, <1>5, <1>8, <1>9, <1>10

LEMMA HelloIsVerified ==
    ASSUME NEW r \in Nat, NEW x, NEW y, NEW w, NEW v, LinkSound(x, y, w, v, r),
           x.hello = "verifying",
           NEW z, z = [x EXCEPT !.hello = "verified", !.encrypting = TRUE]
    PROVE  LinkSound(z, y, w, v, r)
  <1>1. x \in EndRecord
    BY Held
  <1> USE DEF LinkSound
  <1>2. /\ z \in EndRecord
        /\ z.attached = x.attached /\ z.answered = x.answered /\ z.signing = x.signing
        /\ z.hello = "verified" /\ z.closing = x.closing /\ z.closed = x.closed
        /\ z.encrypting /\ z.keyFrame = x.keyFrame /\ z.channel = x.channel
        /\ z.peer = x.peer /\ z.finished = x.finished /\ z.finishing = x.finishing
        /\ z.bad = x.bad /\ z.pending = x.pending
        /\ z.early = x.early /\ z.sent = x.sent /\ z.received = x.received
    BY <1>1 DEF EndRecord
  <1>3. EndSound(z, r)
    BY <1>2 DEF EndSound
  <1>4. Heard(z, y, w) /\ Heard(y, z, v)
    BY <1>2 DEF Heard
  <1>5. Numbered(z, y, w, r) /\ Numbered(y, z, v, r)
    BY <1>2 DEF Numbered
  <1>6. Waits(z, y, w, v) /\ Waits(y, z, v, w)
    BY <1>2 DEF Waits
  <1>7. QED
    BY <1>3, <1>4, <1>5, <1>6

\* End z is x, but that it has sent its key.
SameButKeySent(x, z) ==
    /\ z.attached = x.attached /\ z.answered = x.answered /\ z.signing = x.signing
    /\ z.hello = x.hello /\ z.closing = x.closing /\ z.closed = x.closed
    /\ ~ z.encrypting /\ z.keyFrame = x.keyFrame /\ z.channel = x.channel
    /\ z.peer = x.peer /\ z.bad = x.bad /\ z.pending = x.pending
    /\ z.early = x.early /\ z.sent = x.sent /\ z.received = x.received

LEMMA KeySent ==
    ASSUME NEW r \in Nat, NEW x, NEW y, NEW w, NEW v, LinkSound(x, y, w, v, r), x.encrypting,
           NEW z, z = Finishes([x EXCEPT !.encrypting = FALSE]),
           NEW u, u = IF x.closing \/ x.closed THEN v ELSE Append(v, [t |-> "key"])
    PROVE  LinkSound(z, y, w, u, r)
  <1>1. /\ v \in Seq(LinkFrame) /\ x \in EndRecord /\ x.sent \in Nat
        /\ y.received + Len(y.early) \in Nat
    BY Held
  <1> DEFINE q == [x EXCEPT !.encrypting = FALSE]
  <1>2. q \in EndRecord /\ SameButKeySent(x, q) /\ q.finished = x.finished /\ q.finishing = x.finishing /\ z = Finishes(q)
    BY <1>1 DEF EndRecord, SameButKeySent
  <1> HIDE DEF q
  <1>3. x.hello = "verified" /\ x.attached /\ (x.finished <=> x.finishing = 1 \/ x.channel)
        /\ x.finishing \in 0 .. 1
    BY <1>1 DEF LinkSound, EndSound, EndRecord
  <1>4. /\ z \in EndRecord /\ SameButKeySent(x, z)
        /\ IF ~ x.channel /\ x.keyFrame THEN z.finished /\ z.finishing = 1
           ELSE z.finished = x.finished /\ z.finishing = x.finishing
    <2>1. CASE ~ x.channel /\ x.keyFrame /\ ~ x.finished
      <3>1. q.finishing + 1 = 1
        BY <1>2, <1>3, <2>1
      <3>2. z = [q EXCEPT !.finishing = q.finishing + 1, !.finished = TRUE]
        BY <1>2, <1>3, <2>1 DEF Finishes, SameButKeySent
      <3>3. z = [q EXCEPT !.finishing = 1, !.finished = TRUE]
        BY <3>1, <3>2
      <3>4. z.finished /\ z.finishing = 1
        BY <1>2, <3>3 DEF EndRecord
      <3>5. z \in EndRecord
        <4>1. 1 \in 0 .. 1
          OBVIOUS
        <4>2. QED
          BY <1>2, <3>3, <4>1 DEF EndRecord
      <3>6. SameButKeySent(x, z)
        <4>1. SameButKeySent(q, z)
          BY <1>2, <3>3, ZenonT(40) DEF EndRecord, SameButKeySent
        <4>2. QED
          BY <1>2, <4>1 DEF SameButKeySent
      <3>7. QED
        BY <2>1, <3>4, <3>5, <3>6
    <2>2. CASE ~ (~ x.channel /\ x.keyFrame /\ ~ x.finished)
      <3>1. z = q
        BY <1>2, <1>3, <2>2 DEF Finishes, SameButKeySent
      <3>2. ~ x.channel /\ x.keyFrame => x.finished /\ x.finishing = 1
        BY <1>3, <2>2
      <3>3. QED
        BY <1>2, <3>1, <3>2
    <2>3. QED
      BY <2>1, <2>2
  <1>5. EndSound(z, r)
    <2>1. EndSound(x, r)
      BY DEF LinkSound
    <2>2. QED
      BY <1>1, <1>3, <1>4, <2>1 DEF EndSound, SameButKeySent
  <1> USE DEF LinkSound
  <1>6. Heard(z, y, w)
    BY <1>4 DEF Heard, SameButKeySent
  <1>7. Numbered(z, y, w, r)
    BY <1>4 DEF Numbered, SameButKeySent
  <1>8. /\ u \in Seq(LinkFrame)
        /\ \A t \in {"hello", "req", "res"} : Count(u, t) = Count(v, t)
        /\ \A a, b \in Nat : Spans(v, a, b) => Spans(u, a, b)
        /\ ~ (x.closing \/ x.closed) => Count(u, "key") # 0
    <2>1. CASE x.closing \/ x.closed
      BY <1>1, <2>1
    <2>2. CASE ~ (x.closing \/ x.closed)
      <3>1. u = Append(v, [t |-> "key"])
        BY <2>2
      <3>2. /\ u \in Seq(LinkFrame)
            /\ \A t \in Types : /\ Count(v, t) \in Nat
                                /\ Count(u, t) = IF "key" = t THEN Count(v, t) + 1 ELSE Count(v, t)
            /\ \A a, b \in Nat : Spans(v, a, b) => Spans(u, a, b)
        BY <1>1, <3>1, PlainSent
      <3>3. QED
        BY <3>2 DEF Types
    <2>3. QED
      BY <2>1, <2>2
  <1>9. x.closed => x.closing
    BY DEF EndSound
  <1>10. Heard(y, z, u)
    BY <1>3, <1>4, <1>8, <1>9 DEF Heard, SameButKeySent
  <1>11. Numbered(y, z, u, r)
    BY <1>1, <1>4, <1>8 DEF Numbered, SameButKeySent
  <1>12. Waits(z, y, w, u) /\ Waits(y, z, u, w)
    BY <1>4, <1>8 DEF Waits, SameButKeySent
  <1>13. QED
    BY <1>5, <1>6, <1>7, <1>10, <1>11, <1>12

LEMMA RequestSent ==
    ASSUME NEW r \in Nat, NEW x, NEW y, NEW w, NEW v, LinkSound(x, y, w, v, r),
           x.peer, ~ x.closed, ~ x.closing,
           NEW z, z = FramesSet(x, x.received, x.sent + 1, x.pending + 1),
           NEW u, u = Append(v, [t |-> "req", n |-> x.sent + 1])
    PROVE  LinkSound(z, y, w, u, r + 1)
  <1>1. /\ v \in Seq(LinkFrame) /\ w \in Seq(LinkFrame) /\ x \in EndRecord /\ y \in EndRecord
        /\ x.sent \in Nat /\ y.sent \in Nat /\ y.received + Len(y.early) \in Nat
        /\ x.received \in Nat /\ x.pending \in Nat /\ y.pending \in Nat /\ Len(y.early) \in Nat
        /\ Len(x.early) \in Nat
        /\ x.sent + 1 \in Nat \ {0} /\ x.pending + 1 \in Nat
    <2>1. x \in EndRecord /\ y \in EndRecord
      BY Held
    <2>2. x.received \in Nat /\ x.pending \in Nat /\ y.pending \in Nat
      BY <2>1 DEF EndRecord
    <2>3. /\ v \in Seq(LinkFrame) /\ w \in Seq(LinkFrame)
          /\ x.sent \in Nat /\ y.sent \in Nat /\ y.received + Len(y.early) \in Nat
          /\ Len(y.early) \in Nat /\ Len(x.early) \in Nat
      BY Held
    <2>4. x.sent + 1 \in Nat \ {0} /\ x.pending + 1 \in Nat
      <3>1. x.sent \in Nat /\ x.pending \in Nat
        BY <2>2, <2>3
      <3>2. \A n \in Nat : n + 1 \in Nat \ {0}
        OBVIOUS
      <3>3. QED
        BY <3>1, <3>2
    <2>5. QED
      BY <2>1, <2>2, <2>3, <2>4
  <1>2. /\ z \in EndRecord /\ SameButFrames(x, z)
        /\ z.received = x.received /\ z.sent = x.sent + 1 /\ z.pending = x.pending + 1
    <2> DEFINE a == x.received
               b == x.sent + 1
               c == x.pending + 1
    <2>1. x \in EndRecord /\ a \in Nat /\ b \in Nat /\ c \in Nat /\ z = FramesSet(x, a, b, c)
      BY <1>1
    <2> HIDE DEF a, b, c
    <2>2. z \in EndRecord /\ SameButFrames(x, z)
      BY <2>1, FramesSetIs
    <2>3. z.received = a /\ z.sent = b /\ z.pending = c
      BY <2>1 DEF EndRecord, FramesSet
    <2>4. QED
      BY <2>2, <2>3 DEF a, b, c
  <1>3. /\ EndSound(x, r) /\ EndSound(y, r)
        /\ Heard(x, y, w) /\ Heard(y, x, v)
        /\ Numbered(x, y, w, r) /\ Numbered(y, x, v, r)
        /\ Waits(x, y, w, v) /\ Waits(y, x, v, w)
    BY DEF LinkSound
  <1>4. x.channel /\ x.attached
    BY <1>3 DEF EndSound
  <1>5. /\ u \in Seq(LinkFrame)
        /\ \A t \in {"hello", "key", "res"} : Count(u, t) = Count(v, t)
        /\ Count(v, "req") \in Nat /\ Count(u, "req") = Count(v, "req") + 1
        /\ \A a \in Nat : Spans(v, a, x.sent) => Spans(u, a, z.sent)
    <2> DEFINE g == [t |-> "req", n |-> x.sent + 1]
    <2>1. g \in LinkFrame /\ g \in SealedFrame /\ g.t = "req" /\ g.n = x.sent + 1
      BY <1>1, Plain
    <2>2. u = Append(v, g)
      OBVIOUS
    <2> HIDE DEF g
    <2>3. /\ Append(v, g) \in Seq(LinkFrame)
          /\ \A t \in Types : /\ Count(v, t) \in Nat
                              /\ Count(Append(v, g), t) = Count(v, t) + (IF g.t = t THEN 1 ELSE 0)
      BY <1>1, <2>1, FrameSent
    <2>4. \A t \in Types : /\ Count(v, t) \in Nat
                           /\ Count(u, t) = IF "req" = t THEN Count(v, t) + 1 ELSE Count(v, t)
      BY <2>1, <2>2, <2>3
    <2>5. ASSUME NEW a \in Nat, Spans(v, a, x.sent)
          PROVE  Spans(u, a, x.sent + 1)
      <3>1. \A b \in Nat : Spans(v, a, b) /\ g.n = b + 1 => Spans(Append(v, g), a, b + 1)
        BY <1>1, <2>1, FrameSent
      <3>2. QED
        BY <1>1, <2>1, <2>2, <2>5, <3>1
    <2>6. QED
      BY <1>2, <2>2, <2>3, <2>4, <2>5 DEF Types
  <1>6. EndSound(z, r + 1) /\ EndSound(y, r + 1)
    <2>1. x.pending <= r /\ y.pending <= r
      BY <1>3 DEF EndSound
    <2>2. z.pending <= r + 1 /\ y.pending <= r + 1
      <3>1. z.pending = x.pending + 1 /\ x.pending \in Nat /\ y.pending \in Nat
        BY <1>1, <1>2
      <3>2. QED
        BY <2>1, <3>1
    <2>3. EndSound(z, r + 1)
      <3>1. z.peer /\ ~ z.closed
        BY <1>2 DEF SameButFrames
      <3>2. QED
        BY <1>2, <1>3, <1>4, <2>2, <3>1 DEF EndSound, SameButFrames
    <2>4. QED
      BY <1>3, <2>2, <2>3 DEF EndSound
  <1>7. Heard(z, y, w)
    BY <1>2, <1>3 DEF Heard, SameButFrames
  <1>8. Heard(y, z, u)
    <2>1. /\ Heard(y, x, v)
          /\ z.attached = x.attached /\ z.answered = x.answered /\ z.signing = x.signing
          /\ z.hello = x.hello /\ z.channel = x.channel /\ z.encrypting = x.encrypting
          /\ z.peer = x.peer /\ z.closing = x.closing /\ z.closed = x.closed
          /\ z.finished = x.finished /\ z.finishing = x.finishing /\ z.keyFrame = x.keyFrame
      BY <1>2, <1>3 DEF SameButFrames
    <2>2. u \in Seq(LinkFrame) /\ Count(u, "hello") = Count(v, "hello") /\ Count(u, "key") = Count(v, "key")
      BY <1>5
    <2>3. QED
      BY <1>4, <2>1, <2>2 DEF Heard
  <1>9. Numbered(z, y, w, r + 1)
    <2>1. z.channel /\ z.early = x.early /\ z.received = x.received
      BY <1>2, <1>4 DEF SameButFrames
    <2>2. /\ \A i \in DOMAIN x.early : x.early[i] = [t |-> "req", n |-> i]
          /\ Spans(w, x.received + Len(x.early), y.sent)
      BY <1>3 DEF Numbered
    <2>3. QED
      BY <2>1, <2>2 DEF Numbered
  <1>10. Numbered(y, z, u, r + 1)
    <2>1. ~ y.channel => z.sent <= r + 1 /\ Count(u, "res") = 0
      <3>1. ~ y.channel => x.sent <= r /\ Count(v, "res") = 0
        BY <1>3 DEF Numbered
      <3>2. QED
        BY <1>1, <1>2, <1>5, <3>1, SMTT(20)
    <2>2. QED
      BY <1>1, <1>3, <1>5, <2>1 DEF Numbered
  <1>11. Waits(z, y, w, u)
    <2>1. SUFFICES ASSUME ~ x.closing, ~ y.closing
                   PROVE  x.pending + 1 <= Count(u, "req") + Len(y.early) + Count(w, "res")
      BY <1>2 DEF Waits, SameButFrames
    <2>2. x.pending <= Count(v, "req") + Len(y.early) + Count(w, "res") /\ Count(w, "res") \in Nat
      BY <1>1, <1>3, <2>1, CountIsNat DEF Waits
    <2>3. /\ x.pending \in Nat /\ Len(y.early) \in Nat
          /\ Count(v, "req") \in Nat /\ Count(u, "req") = Count(v, "req") + 1
      BY <1>1, <1>5
    <2>4. \A a, b, c, d \in Nat : a <= b + c + d => a + 1 <= (b + 1) + c + d
      OBVIOUS
    <2>5. QED
      BY <2>2, <2>3, <2>4
  <1>12. Waits(y, z, u, w)
    BY <1>2, <1>3, <1>5 DEF Waits, SameButFrames
  <1>13. QED
    BY <1>6, <1>7, <1>8, <1>9, <1>10, <1>11, <1>12 DEF LinkSound

LEMMA GivenUp ==
    ASSUME NEW r \in Nat, NEW x, NEW y, NEW w, NEW v, LinkSound(x, y, w, v, r),
           NEW z, z = [x EXCEPT !.closing = TRUE]
    PROVE  LinkSound(z, y, w, v, r)
  <1>1. x \in EndRecord
    BY Held
  <1> USE DEF LinkSound
  <1>2. /\ z \in EndRecord
        /\ z.attached = x.attached /\ z.answered = x.answered /\ z.signing = x.signing
        /\ z.hello = x.hello /\ z.closing /\ z.closed = x.closed
        /\ z.encrypting = x.encrypting /\ z.keyFrame = x.keyFrame /\ z.channel = x.channel
        /\ z.peer = x.peer /\ z.finished = x.finished /\ z.finishing = x.finishing
        /\ z.bad = x.bad /\ z.pending = x.pending
        /\ z.early = x.early /\ z.sent = x.sent /\ z.received = x.received
    BY <1>1 DEF EndRecord
  <1>3. EndSound(z, r)
    BY <1>2 DEF EndSound
  <1>4. Heard(z, y, w) /\ Heard(y, z, v)
    BY <1>2 DEF Heard
  <1>5. Numbered(z, y, w, r) /\ Numbered(y, z, v, r)
    BY <1>2 DEF Numbered
  <1>6. Waits(z, y, w, v) /\ Waits(y, z, v, w)
    BY <1>2 DEF Waits
  <1>7. QED
    BY <1>3, <1>4, <1>5, <1>6

LEMMA EndClosed ==
    ASSUME NEW r \in Nat, NEW x, NEW y, NEW w, NEW v, LinkSound(x, y, w, v, r), x.attached,
           NEW z, z = [x EXCEPT !.closed = TRUE, !.closing = TRUE, !.pending = 0, !.early = << >>]
    PROVE  LinkSound(z, y, << >>, v, r)
  <1>1. x \in EndRecord
    BY Held
  <1> USE DEF LinkSound
  <1>2. /\ z \in EndRecord
        /\ z.attached = x.attached /\ z.answered = x.answered /\ z.signing = x.signing
        /\ z.hello = x.hello /\ z.closing /\ z.closed
        /\ z.encrypting = x.encrypting /\ z.keyFrame = x.keyFrame /\ z.channel = x.channel
        /\ z.peer = x.peer /\ z.finished = x.finished /\ z.finishing = x.finishing
        /\ z.bad = x.bad /\ z.pending = 0
        /\ z.early = << >> /\ z.sent = x.sent /\ z.received = x.received
    <2>1. << >> \in Seq(LinkFrame)
      OBVIOUS
    <2>2. QED
      BY <1>1, <2>1 DEF EndRecord
  <1>3. EndSound(z, r)
    <2>1. Len(z.early) <= MaxEarly /\ z.pending <= r
      BY <1>2 DEF RelayLinksAssumption
    <2>2. QED
      BY <1>2, <2>1 DEF EndSound
  <1>4. \A t : Count(<< >>, t) = 0
    BY CountNone
  <1>5. << >> \in Seq(LinkFrame) /\ 0 <= 1 /\ 0 # 1
    OBVIOUS
  <1>6. Heard(z, y, << >>)
    BY <1>2, <1>4, <1>5 DEF Heard
  <1>7. Heard(y, z, v)
    BY <1>2 DEF Heard
  <1>8. Numbered(z, y, << >>, r)
    BY <1>2, <1>4 DEF Numbered
  <1>9. Numbered(y, z, v, r)
    BY <1>2 DEF Numbered
  <1>10. Waits(z, y, << >>, v) /\ Waits(y, z, v, << >>)
    BY <1>2 DEF Waits
  <1>11. QED
    BY <1>3, <1>6, <1>7, <1>8, <1>9, <1>10

\* End z is x with the channel made, and what came early taken.
SameButChannel(x, z) ==
    /\ z.attached = x.attached /\ z.answered = x.answered /\ z.signing = x.signing
    /\ z.hello = x.hello /\ z.closed = x.closed
    /\ z.encrypting = x.encrypting /\ z.keyFrame = x.keyFrame /\ z.channel
    /\ z.finished = x.finished /\ z.finishing = 0
    /\ z.bad = x.bad /\ z.early = << >> /\ z.pending = x.pending

\* The end as the channel is made: it is linked, or it closes.
Channelled(x, links) ==
    LET c == [x EXCEPT !.finishing = @ - 1, !.channel = TRUE,
                       !.sent = 0, !.received = 0, !.early = << >>]
    IN  IF c.peer \/ c.closed THEN c
        ELSE IF links THEN [c EXCEPT !.peer = TRUE] ELSE [c EXCEPT !.closing = TRUE]

LEMMA ChannelMade ==
    ASSUME NEW x \in EndRecord, x.finishing = 1, ~ x.peer, NEW links \in BOOLEAN
    PROVE  LET c == Channelled(x, links)
           IN  /\ c \in EndRecord /\ SameButChannel(x, c)
               /\ c.sent = 0 /\ c.received = 0
               /\ c.peer = (links /\ ~ x.closed)
               /\ c.closing = (x.closing \/ (~ links /\ ~ x.closed))
  <1> DEFINE b == [x EXCEPT !.finishing = 0, !.channel = TRUE,
                            !.sent = 0, !.received = 0, !.early = << >>]
  <1>1. x.finishing - 1 = 0
    OBVIOUS
  <1>2. b = [x EXCEPT !.finishing = @ - 1, !.channel = TRUE,
                      !.sent = 0, !.received = 0, !.early = << >>]
    BY <1>1
  <1>3. Channelled(x, links) =
           IF b.peer \/ b.closed THEN b
           ELSE IF links THEN [b EXCEPT !.peer = TRUE] ELSE [b EXCEPT !.closing = TRUE]
    BY <1>2 DEF Channelled
  <1>4. 0 \in 0 .. 1 /\ 0 \in Nat /\ << >> \in Seq(LinkFrame)
    OBVIOUS
  <1>5. b \in EndRecord
    BY <1>4 DEF EndRecord
  <1>6. SameButChannel(x, b)
    BY DEF SameButChannel, EndRecord
  <1>7. b.sent = 0 /\ b.received = 0 /\ b.peer = x.peer /\ b.closing = x.closing
    BY DEF EndRecord
  <1> HIDE DEF b
  <1>8. CASE x.closed
    <2>1. Channelled(x, links) = b
      BY <1>3, <1>6, <1>8 DEF SameButChannel
    <2>2. b.peer = (links /\ ~ x.closed) /\ b.closing = (x.closing \/ (~ links /\ ~ x.closed))
      BY <1>5, <1>7, <1>8 DEF EndRecord
    <2>3. QED
      BY <1>5, <1>6, <1>7, <2>1, <2>2
  <1>9. CASE ~ x.closed /\ links
    <2> DEFINE c == [b EXCEPT !.peer = TRUE]
    <2>1. Channelled(x, links) = c
      BY <1>3, <1>6, <1>7, <1>9 DEF SameButChannel
    <2>2. c \in EndRecord /\ c.sent = 0 /\ c.received = 0 /\ c.peer /\ c.closing = x.closing
      BY <1>5, <1>7 DEF EndRecord
    <2>3. SameButChannel(x, c)
      BY <1>5, <1>6 DEF SameButChannel, EndRecord
    <2> HIDE DEF c
    <2>4. c.peer = (links /\ ~ x.closed) /\ c.closing = (x.closing \/ (~ links /\ ~ x.closed))
      BY <1>9, <2>2 DEF EndRecord
    <2>5. QED
      BY <2>1, <2>2, <2>3, <2>4
  <1>10. CASE ~ x.closed /\ ~ links
    <2> DEFINE c == [b EXCEPT !.closing = TRUE]
    <2>1. Channelled(x, links) = c
      BY <1>3, <1>6, <1>7, <1>10 DEF SameButChannel
    <2>2. c \in EndRecord /\ c.sent = 0 /\ c.received = 0 /\ ~ c.peer /\ c.closing
      BY <1>5, <1>7 DEF EndRecord
    <2>3. SameButChannel(x, c)
      BY <1>5, <1>6 DEF SameButChannel, EndRecord
    <2> HIDE DEF c
    <2>4. c.peer = (links /\ ~ x.closed) /\ c.closing = (x.closing \/ (~ links /\ ~ x.closed))
      BY <1>10, <2>2 DEF EndRecord
    <2>5. QED
      BY <2>1, <2>2, <2>3, <2>4
  <1>11. QED
    BY <1>8, <1>9, <1>10

\* The end when what came early is taken, and the answers.
Finished(x, links) == TakeHeld(Channelled(x, links), x.early)

\* The last step of the handshake: every request that came early is received, in order,
\* and answered if the end still answers.
LEMMA HandshakeFinished ==
    ASSUME NEW r \in Nat, NEW x, NEW y, NEW w, NEW v, LinkSound(x, y, w, v, r),
           x.finishing > 0, NEW links \in BOOLEAN
    PROVE  LET z == Finished(x, links).end
               u == v \o Finished(x, links).out
           IN  /\ LinkSound(z, y, w, u, r)
               /\ z.closed = x.closed /\ z.peer = (links /\ ~ x.closed) /\ ~ x.peer
  <1> DEFINE c == Channelled(x, links)
             n == Len(x.early)
             z == Finished(x, links).end
             u == v \o Finished(x, links).out
  <1>1. /\ v \in Seq(LinkFrame) /\ w \in Seq(LinkFrame) /\ x \in EndRecord /\ y \in EndRecord
        /\ x.sent \in Nat /\ y.sent \in Nat /\ y.received + Len(y.early) \in Nat /\ n \in Nat
        /\ x.early \in Seq(LinkFrame) /\ x.finishing \in 0 .. 1
    <2>1. x \in EndRecord
      BY Held
    <2>2. x.early \in Seq(LinkFrame) /\ x.finishing \in 0 .. 1
      BY <2>1 DEF EndRecord
    <2>3. QED
      BY <2>2, Held
  <1>2. /\ EndSound(x, r) /\ EndSound(y, r)
        /\ Heard(x, y, w) /\ Heard(y, x, v)
        /\ Numbered(x, y, w, r) /\ Numbered(y, x, v, r)
        /\ Waits(x, y, w, v) /\ Waits(y, x, v, w)
    BY DEF LinkSound
  <1>3. x.finishing = 1
    BY <1>1
  <1>4. /\ x.finished /\ ~ x.channel /\ ~ x.peer /\ x.sent = 0 /\ x.received = 0 /\ x.attached
        /\ ~ x.bad /\ x.pending = 0 /\ (x.closed => x.closing /\ x.early = << >>)
        /\ x.hello = "verified" /\ x.keyFrame
    BY <1>2, <1>3 DEF EndSound
  <1>5. /\ c \in EndRecord /\ SameButChannel(x, c)
        /\ c.sent = 0 /\ c.received = 0
        /\ c.peer = (links /\ ~ x.closed)
        /\ c.closing = (x.closing \/ (~ links /\ ~ x.closed))
    BY <1>1, <1>3, <1>4, ChannelMade
  <1>6. \A i \in DOMAIN x.early : x.early[i] = [t |-> "req", n |-> i]
    BY <1>2 DEF Numbered
  <1>7. z = TakeHeld(c, x.early).end /\ u = v \o TakeHeld(c, x.early).out
    BY DEF Finished
  <1> HIDE DEF c, z, u
  <1>8. /\ z = IF Answering(c) THEN [c EXCEPT !.received = n, !.sent = n] ELSE [c EXCEPT !.received = n]
        /\ u = IF Answering(c) THEN v \o Answers(n) ELSE v \o << >>
    <2>1. ~ c.bad
      BY <1>4, <1>5 DEF SameButChannel
    <2>2. /\ TakeHeld(c, x.early).end =
                 IF Answering(c) THEN [c EXCEPT !.received = n, !.sent = n] ELSE [c EXCEPT !.received = n]
          /\ TakeHeld(c, x.early).out = IF Answering(c) THEN Answers(n) ELSE << >>
      BY <1>1, <1>5, <1>6, <2>1, HeldTaken
    <2>3. QED
      BY <1>7, <2>2
  <1> HIDE DEF n
  <1>9. /\ z \in EndRecord /\ SameButChannel(x, z)
        /\ z.received = n /\ z.sent = (IF Answering(c) THEN n ELSE 0)
        /\ z.peer = c.peer /\ z.closing = c.closing
    <2>1. CASE Answering(c)
      <3>1. z = [c EXCEPT !.received = n, !.sent = n]
        BY <1>8, <2>1
      <3>2. z \in EndRecord
        BY <1>1, <1>5, <3>1 DEF EndRecord
      <3>3. SameButChannel(x, z)
        BY <1>5, <3>1 DEF EndRecord, SameButChannel
      <3>4. z.received = n /\ z.sent = n /\ z.peer = c.peer /\ z.closing = c.closing
        BY <1>5, <3>1 DEF EndRecord
      <3>5. QED
        BY <2>1, <3>2, <3>3, <3>4
    <2>2. CASE ~ Answering(c)
      <3>1. z = [c EXCEPT !.received = n]
        BY <1>8, <2>2
      <3>2. z \in EndRecord
        BY <1>1, <1>5, <3>1 DEF EndRecord
      <3>3. SameButChannel(x, z)
        BY <1>5, <3>1 DEF EndRecord, SameButChannel
      <3>4. z.received = n /\ z.sent = 0 /\ z.peer = c.peer /\ z.closing = c.closing
        BY <1>5, <3>1 DEF EndRecord
      <3>5. QED
        BY <2>2, <3>2, <3>3, <3>4
    <2>3. QED
      BY <2>1, <2>2
  <1>10. /\ z.peer = (links /\ ~ x.closed) /\ z.closed = x.closed
         /\ z.closing = (x.closing \/ (~ links /\ ~ x.closed))
         /\ Answering(c) <=> ~ z.closing
         /\ z.closed => z.closing
    BY <1>4, <1>5, <1>9 DEF SameButChannel, Answering
  <1>11. /\ u \in Seq(LinkFrame)
         /\ \A t \in {"hello", "key", "req"} : Count(u, t) = Count(v, t)
         /\ Count(v, "res") \in Nat
         /\ Count(u, "res") = IF Answering(c) THEN Count(v, "res") + n ELSE Count(v, "res")
         /\ \A a \in Nat : Spans(v, a, 0) => Spans(u, a, z.sent)
    <2>1. CASE Answering(c)
      <3>1. /\ Answers(n) \in Seq(LinkFrame)
            /\ Count(Answers(n), "res") = n
            /\ \A t \in Types \ {"res"} : Count(Answers(n), t) = 0
            /\ Spans(Answers(n), 0, n)
        BY <1>1, AnswersAre
      <3>2. u = v \o Answers(n) /\ u \in Seq(LinkFrame)
        BY <1>1, <1>8, <2>1, <3>1, SMTT(20)
      <3>3. \A t \in Types : /\ Count(v, t) \in Nat
                             /\ Count(v \o Answers(n), t) = Count(v, t) + Count(Answers(n), t)
        BY <1>1, <3>1, CountJoined, CountIsNat
      <3>4. \A t \in {"hello", "key", "req"} : Count(u, t) = Count(v, t)
        BY <3>1, <3>2, <3>3 DEF Types
      <3>5. Count(v, "res") \in Nat /\ Count(u, "res") = Count(v, "res") + n
        BY <3>1, <3>2, <3>3 DEF Types
      <3>6. ASSUME NEW a \in Nat, Spans(v, a, 0)
            PROVE  Spans(u, a, n)
        BY <1>1, <3>1, <3>2, <3>6, SpanJoined
      <3>7. QED
        BY <1>9, <2>1, <3>2, <3>4, <3>5, <3>6
    <2>2. CASE ~ Answering(c)
      <3>1. u = v
        BY <1>1, <1>8, <2>2
      <3>2. Count(v, "res") \in Nat
        BY <1>1, CountIsNat
      <3>3. QED
        BY <1>1, <1>9, <2>2, <3>1, <3>2
    <2>3. QED
      BY <2>1, <2>2
  <1>12. \/ n <= y.sent /\ y.sent <= r /\ Spans(w, n, y.sent)
         \/ x.closed /\ n = 0
    <2>1. CASE x.closed
      <3>1. n = 0
        BY <1>4, <2>1 DEF n
      <3>2. QED
        BY <2>1, <3>1
    <2>2. CASE ~ x.closed
      <3>1. x.received + Len(x.early) = n
        BY <1>1, <1>4 DEF n
      <3>2. Spans(w, n, y.sent) /\ y.sent <= r
        BY <1>2, <1>4, <2>2, <3>1 DEF Numbered
      <3>3. QED
        BY <3>2 DEF Spans
    <2>3. QED
      BY <2>1, <2>2
  <1>13. Count(w, "res") = 0 /\ y.sent <= r /\ (~ y.channel => n = 0)
    <2>1. Count(w, "res") = 0 /\ y.sent <= r
      BY <1>2, <1>4 DEF Numbered
    <2>2. ~ y.channel => y.sent = 0
      BY <1>2 DEF EndSound
    <2>3. QED
      BY <1>1, <1>12, <2>1, <2>2
  <1>14. EndSound(z, r)
    <2>1. Len(z.early) <= MaxEarly
      BY <1>9 DEF SameButChannel, RelayLinksAssumption
    <2>2. z.finished /\ z.hello = "verified" /\ z.keyFrame /\ z.attached /\ ~ z.bad /\ z.pending = 0
      BY <1>4, <1>9 DEF SameButChannel
    <2>3. z.channel /\ z.finishing = 0 /\ z.early = << >> /\ (z.peer \/ z.closing)
      BY <1>10, <1>4, <1>9 DEF SameButChannel
    <2>4. z.signing => z.answered
      BY <1>2, <1>9 DEF SameButChannel, EndSound
    <2>5. z.pending <= r
      BY <2>2
    <2>6. QED
      BY <1>9, <1>10, <2>1, <2>2, <2>3, <2>4, <2>5 DEF EndSound
  <1>15. Heard(z, y, w)
    BY <1>2, <1>9, <1>10 DEF Heard, SameButChannel
  <1>16. Heard(y, z, u)
    BY <1>2, <1>4, <1>9, <1>10, <1>11 DEF Heard, SameButChannel
  <1>17. Numbered(z, y, w, r)
    <2>1. z.early = << >> /\ z.channel /\ z.closed = x.closed
      BY <1>9 DEF SameButChannel
    <2>2. z.received + Len(z.early) = n
      BY <1>1, <1>9, <2>1
    <2>3. QED
      BY <1>12, <2>1, <2>2 DEF Numbered
  <1>18. Numbered(y, z, u, r)
    <2>1. ~ y.closed => Spans(u, y.received + Len(y.early), z.sent)
      BY <1>1, <1>2, <1>4, <1>11 DEF Numbered
    <2>2. ~ y.channel => z.sent <= r /\ Count(u, "res") = 0
      <3>1. ~ y.channel => z.sent = 0 /\ Count(v, "res") = 0
        BY <1>2, <1>9, <1>13 DEF Numbered
      <3>2. QED
        BY <1>11, <1>13, <3>1
    <2>3. QED
      BY <1>2, <2>1, <2>2 DEF Numbered
  <1>19. Waits(z, y, w, u)
    <2>1. z.pending = 0 /\ Count(u, "req") = Count(v, "req") /\ Len(y.early) \in Nat
      BY <1>1, <1>4, <1>9, <1>11, Held DEF SameButChannel
    <2>2. Count(v, "req") \in Nat /\ Count(w, "res") \in Nat
      BY <1>1, CountIsNat
    <2>3. QED
      BY <2>1, <2>2 DEF Waits
  <1>20. Waits(y, z, u, w)
    <2>1. SUFFICES ASSUME ~ z.closing, ~ y.closing
                   PROVE  y.pending <= Count(w, "req") + Len(z.early) + Count(u, "res")
      BY DEF Waits
    <2>2. ~ x.closing
      BY <1>10, <2>1
    <2>3. y.pending <= Count(w, "req") + n + Count(v, "res")
      BY <1>2, <2>1, <2>2 DEF Waits, n
    <2>4. Len(z.early) = 0
      BY <1>9 DEF SameButChannel
    <2>5. Count(u, "res") = Count(v, "res") + n /\ Count(v, "res") \in Nat
      BY <1>10, <1>11, <2>1
    <2>6. Count(w, "req") \in Nat /\ y.pending \in Nat
      BY <1>1, CountIsNat DEF EndRecord
    <2>7. QED
      BY <1>1, <2>3, <2>4, <2>5, <2>6
  <1>21. LinkSound(z, y, w, u, r)
    BY <1>2, <1>14, <1>15, <1>16, <1>17, <1>18, <1>19, <1>20 DEF LinkSound
  <1>22. QED
    BY <1>4, <1>10, <1>21 DEF z, u

-----------------------------------------------------------------------------
(* A step of one end, and the links *)

LEMMA RequestsGrow ==
    ASSUME NEW r \in Nat, NEW q \in Nat, r <= q,
           NEW x, NEW y, NEW w, NEW v, LinkSound(x, y, w, v, r)
    PROVE  LinkSound(x, y, w, v, q)
  <1>1. /\ x \in EndRecord /\ y \in EndRecord /\ x.sent \in Nat /\ y.sent \in Nat
        /\ x.pending \in Nat /\ y.pending \in Nat
    <2>1. x \in EndRecord /\ y \in EndRecord /\ x.sent \in Nat /\ y.sent \in Nat
      BY Held
    <2>2. QED
      BY <2>1 DEF EndRecord
  <1>2. \A n \in Nat : n <= r => n <= q
    OBVIOUS
  <1> USE DEF LinkSound
  <1>3. EndSound(x, q) /\ EndSound(y, q)
    BY <1>1, <1>2 DEF EndSound
  <1>4. Numbered(x, y, w, q) /\ Numbered(y, x, v, q)
    BY <1>1, <1>2 DEF Numbered
  <1>5. QED
    BY <1>3, <1>4

FarLemma == \A e \in Ends : Far(e) \in Ends /\ Far(e) # e /\ Far(Far(e)) = e
               /\ \A d \in Ends : d # e => d = Far(e)

LEMMA FarEnd == FarLemma
  BY DEF FarLemma, Far, Ends

\* End e of link l becomes z, and the rest stays.
EndIs(l, e, z) ==
    /\ ends' \in [Links -> [Ends -> EndRecord]]
    /\ ends'[l][e] = z /\ ends'[l][Far(e)] = ends[l][Far(e)]
    /\ \A m \in Links : m # l => ends'[m] = ends[m]

\* The frames to end e of link l become w, those from it v, and the rest stays.
FramesAre(l, e, w, v) ==
    /\ wire' \in [Links -> [Ends -> Seq(LinkFrame)]]
    /\ wire'[l][e] = w /\ wire'[l][Far(e)] = v
    /\ \A m \in Links : m # l => wire'[m] = wire[m]

LEMMA LinksStayLinked ==
    ASSUME LinksInv, NEW l \in Links, NEW e \in Ends, NEW z, NEW w, NEW v,
           EndIs(l, e, z), FramesAre(l, e, w, v),
           spent' \in [requests : 0 .. MaxLinkRequests, timeouts : 0 .. MaxTimeouts],
           spent.requests <= spent'.requests,
           LinkSound(z, ends[l][Far(e)], w, v, spent'.requests)
    PROVE  \A m \in Links : \A d \in Ends : LinkAt(m, d)'
  <1>1. spent.requests \in Nat /\ spent'.requests \in Nat
    BY DEF LinksInv, RelayLinksAssumption
  <1>2. SUFFICES ASSUME NEW m \in Links, NEW d \in Ends
                 PROVE  LinkSound(ends'[m][d], ends'[m][Far(d)], wire'[m][d], wire'[m][Far(d)],
                                  spent'.requests)
    BY DEF LinkAt
  <1>3. CASE m # l
    <2>1. LinkSound(ends[m][d], ends[m][Far(d)], wire[m][d], wire[m][Far(d)], spent.requests)
      BY DEF LinksInv, LinkAt
    <2>2. ends'[m] = ends[m] /\ wire'[m] = wire[m]
      BY <1>3 DEF EndIs, FramesAre
    <2>3. LinkSound(ends'[m][d], ends'[m][Far(d)], wire'[m][d], wire'[m][Far(d)], spent.requests)
      BY <2>1, <2>2
    <2>4. QED
      BY <1>1, <2>3, RequestsGrow
  <1>4. CASE m = l /\ d = e
    BY <1>4 DEF EndIs, FramesAre
  <1>5. CASE m = l /\ d # e
    <2>1. d = Far(e) /\ Far(d) = e
      BY <1>5, FarEnd DEF FarLemma
    <2>2. LinkSound(ends[l][Far(e)], z, v, w, spent'.requests)
      BY LinkIsSymmetric
    <2>3. QED
      BY <1>5, <2>1, <2>2 DEF EndIs, FramesAre
  <1>6. QED
    BY <1>3, <1>4, <1>5

\* A step that links nothing and closes nothing keeps the table true.
LEMMA EndSteps ==
    ASSUME LinksInv, NEW l \in Links, NEW e \in Ends, NEW z, NEW w, NEW v,
           EndIs(l, e, z), FramesAre(l, e, w, v),
           spent' \in [requests : 0 .. MaxLinkRequests, timeouts : 0 .. MaxTimeouts],
           spent.requests <= spent'.requests,
           LinkSound(z, ends[l][Far(e)], w, v, spent'.requests),
           z.peer = ends[l][e].peer, z.closed = ends[l][e].closed, linked' = linked
    PROVE  LinksInv'
  <1>1. \A m \in Links : \A d \in Ends : LinkAt(m, d)'
    BY LinksStayLinked
  <1>2. OneLinkAtATime'
    <2>1. SUFFICES ASSUME NEW m \in Links, NEW d \in Ends, LinkOpen(m, d)'
                   PROVE  linked'[d] = m
      BY DEF OneLinkAtATime
    <2>2. LinkOpen(m, d)
      <3>1. ends'[m][d].peer /\ ~ ends'[m][d].closed
        BY <2>1 DEF LinkOpen
      <3>2. CASE m # l
        BY <3>1, <3>2 DEF EndIs, LinkOpen
      <3>3. CASE m = l /\ d = e
        BY <3>1, <3>3 DEF EndIs, LinkOpen
      <3>4. CASE m = l /\ d # e
        BY <3>1, <3>4, FarEnd DEF EndIs, LinkOpen, FarLemma
      <3>5. QED
        BY <3>2, <3>3, <3>4
    <2>3. QED
      BY <2>2 DEF LinksInv, OneLinkAtATime
  <1>3. QED
    BY <1>1, <1>2 DEF LinksInv, EndIs, FramesAre

\* What the invariant says of one end.
LEMMA AnEnd ==
    ASSUME LinksInv, NEW l \in Links, NEW e \in Ends
    PROVE  /\ LinkSound(ends[l][e], ends[l][Far(e)], wire[l][e], wire[l][Far(e)], spent.requests)
           /\ ends[l][e] \in EndRecord /\ ends[l][Far(e)] \in EndRecord
           /\ wire[l][e] \in Seq(LinkFrame) /\ wire[l][Far(e)] \in Seq(LinkFrame)
           /\ spent.requests \in Nat /\ Far(e) \in Ends /\ Far(e) # e
  <1>1. Far(e) \in Ends /\ Far(e) # e
    BY FarEnd DEF FarLemma
  <1>2. LinkSound(ends[l][e], ends[l][Far(e)], wire[l][e], wire[l][Far(e)], spent.requests)
    BY DEF LinksInv, LinkAt
  <1>3. QED
    BY <1>1, <1>2 DEF LinksInv, RelayLinksAssumption

LEMMA AttachStep ==
    ASSUME LinksInv, NEW l \in Links, NEW e \in Ends,
           ends' = [ends EXCEPT ![l][e].attached = TRUE], UNCHANGED << wire, linked, spent >>
    PROVE  LinksInv'
  <1> DEFINE x == ends[l][e]
             z == [x EXCEPT !.attached = TRUE]
  <1>1. /\ LinkSound(x, ends[l][Far(e)], wire[l][e], wire[l][Far(e)], spent.requests)
        /\ x \in EndRecord /\ spent.requests \in Nat /\ Far(e) \in Ends /\ Far(e) # e
    BY AnEnd
  <1>2. z \in EndRecord /\ z.peer = x.peer /\ z.closed = x.closed
    BY <1>1 DEF EndRecord
  <1>3. LinkSound(z, ends[l][Far(e)], wire[l][e], wire[l][Far(e)], spent'.requests)
    BY <1>1, Attached
  <1>4. EndIs(l, e, z)
    BY <1>1, <1>2 DEF EndIs, LinksInv
  <1>5. FramesAre(l, e, wire[l][e], wire[l][Far(e)])
    BY DEF FramesAre, LinksInv
  <1>6. spent' = spent /\ spent.requests <= spent'.requests
        /\ spent \in [requests : 0 .. MaxLinkRequests, timeouts : 0 .. MaxTimeouts]
    BY <1>1 DEF LinksInv
  <1> HIDE DEF z
  <1>7. QED
    BY <1>2, <1>3, <1>4, <1>5, <1>6, EndSteps

\* Sends, as the frames from end e.
LEMMA SentFrames ==
    ASSUME LinksInv, NEW l \in Links, NEW e \in Ends, NEW f \in LinkFrame,
           wire' = Sends(l, e, f),
           NEW u, u = IF ends[l][e].closing \/ ends[l][e].closed THEN wire[l][Far(e)]
                      ELSE Append(wire[l][Far(e)], f)
    PROVE  FramesAre(l, e, wire[l][e], u)
  <1>1. wire \in [Links -> [Ends -> Seq(LinkFrame)]] /\ Far(e) \in Ends /\ Far(e) # e
    BY AnEnd DEF LinksInv
  <1>2. Append(wire[l][Far(e)], f) \in Seq(LinkFrame)
    BY <1>1
  <1>3. CASE ends[l][e].closing \/ ends[l][e].closed
    BY <1>1, <1>3 DEF FramesAre, Sends
  <1>4. CASE ~ (ends[l][e].closing \/ ends[l][e].closed)
    <2>1. wire' = [wire EXCEPT ![l][Far(e)] = Append(@, f)] /\ u = Append(wire[l][Far(e)], f)
      BY <1>4 DEF Sends
    <2>2. u \in Seq(LinkFrame)
      BY <1>2, <2>1
    <2>3. wire' = [wire EXCEPT ![l][Far(e)] = u]
      BY <2>1
    <2> HIDE DEF Sends
    <2>4. wire' \in [Links -> [Ends -> Seq(LinkFrame)]]
      BY <1>1, <2>2, <2>3
    <2>5. wire'[l][e] = wire[l][e] /\ wire'[l][Far(e)] = u
      BY <1>1, <2>3
    <2>6. \A m \in Links : m # l => wire'[m] = wire[m]
      BY <1>1, <2>3
    <2>7. QED
      BY <2>4, <2>5, <2>6 DEF FramesAre
  <1>5. QED
    BY <1>3, <1>4

\* End e of link l becomes z.
LEMMA EndSet ==
    ASSUME LinksInv, NEW l \in Links, NEW e \in Ends, NEW z \in EndRecord,
           ends' = [ends EXCEPT ![l][e] = z]
    PROVE  EndIs(l, e, z)
  <1>1. ends \in [Links -> [Ends -> EndRecord]] /\ Far(e) \in Ends /\ Far(e) # e
    BY AnEnd DEF LinksInv
  <1>2. QED
    BY <1>1 DEF EndIs

LEMMA NoRequests ==
    ASSUME LinksInv, spent' = spent
    PROVE  /\ spent' \in [requests : 0 .. MaxLinkRequests, timeouts : 0 .. MaxTimeouts]
           /\ spent.requests <= spent'.requests
  BY DEF LinksInv, RelayLinksAssumption

LEMMA ChallengeStep ==
    ASSUME LinksInv, NEW l \in Links, NEW e \in Ends, Challenge(l, e)
    PROVE  LinksInv'
  <1> DEFINE x == ends[l][e]
             u == Append(wire[l][Far(e)], [t |-> "challenge"])
  <1>1. /\ LinkSound(x, ends[l][Far(e)], wire[l][e], wire[l][Far(e)], spent.requests)
        /\ x \in EndRecord /\ spent.requests \in Nat
    BY AnEnd
  <1>2. x.attached /\ ~ x.closing /\ ~ x.closed /\ wire' = Sends(l, e, [t |-> "challenge"])
        /\ ends' = ends /\ linked' = linked /\ spent' = spent
    BY DEF Challenge
  <1>3. FramesAre(l, e, wire[l][e], u)
    <2>1. [t |-> "challenge"] \in LinkFrame
      BY Plain
    <2>2. QED
      BY <1>2, <2>1, SentFrames
  <1>4. LinkSound(x, ends[l][Far(e)], wire[l][e], u, spent'.requests)
    BY <1>1, <1>2, ChallengeSent
  <1>5. EndIs(l, e, x)
    BY <1>2 DEF EndIs, LinksInv
  <1> HIDE DEF u
  <1>6. QED
    BY <1>2, <1>3, <1>4, <1>5, NoRequests, EndSteps

LEMMA SendHelloStep ==
    ASSUME LinksInv, NEW l \in Links, NEW e \in Ends, SendHello(l, e)
    PROVE  LinksInv'
  <1> DEFINE x == ends[l][e]
             z == [x EXCEPT !.signing = FALSE]
             u == IF x.closing \/ x.closed THEN wire[l][Far(e)]
                  ELSE Append(wire[l][Far(e)], [t |-> "hello"])
  <1>1. /\ LinkSound(x, ends[l][Far(e)], wire[l][e], wire[l][Far(e)], spent.requests)
        /\ x \in EndRecord /\ spent.requests \in Nat
    BY AnEnd
  <1>2. /\ x.signing /\ wire' = Sends(l, e, [t |-> "hello"])
        /\ ends' = [ends EXCEPT ![l][e] = z] /\ linked' = linked /\ spent' = spent
    BY DEF SendHello
  <1>3. z \in EndRecord /\ z.peer = x.peer /\ z.closed = x.closed
    BY <1>1 DEF EndRecord
  <1>4. FramesAre(l, e, wire[l][e], u)
    <2>1. [t |-> "hello"] \in LinkFrame
      BY Plain
    <2>2. QED
      BY <1>2, <2>1, SentFrames
  <1>5. LinkSound(z, ends[l][Far(e)], wire[l][e], u, spent'.requests)
    BY <1>1, <1>2, HelloSent
  <1> HIDE DEF u, z
  <1>6. EndIs(l, e, z)
    BY <1>2, <1>3, EndSet
  <1>7. QED
    BY <1>2, <1>3, <1>4, <1>5, <1>6, NoRequests, EndSteps

LEMMA HelloVerifiedStep ==
    ASSUME LinksInv, NEW l \in Links, NEW e \in Ends, HelloVerified(l, e)
    PROVE  LinksInv'
  <1> DEFINE x == ends[l][e]
             z == [x EXCEPT !.hello = "verified", !.encrypting = TRUE]
  <1>1. /\ LinkSound(x, ends[l][Far(e)], wire[l][e], wire[l][Far(e)], spent.requests)
        /\ x \in EndRecord /\ spent.requests \in Nat
    BY AnEnd
  <1>2. /\ x.hello = "verifying" /\ wire' = wire /\ linked' = linked /\ spent' = spent
        /\ ends' = [ends EXCEPT ![l][e] = z]
    <2>1. ends' = [ends EXCEPT ![l][e].hello = "verified", ![l][e].encrypting = TRUE]
      BY DEF HelloVerified
    <2>2. [ends EXCEPT ![l][e].hello = "verified", ![l][e].encrypting = TRUE] = [ends EXCEPT ![l][e] = z]
      BY AnEnd DEF LinksInv
    <2>3. QED
      BY <2>1, <2>2 DEF HelloVerified
  <1>3. z \in EndRecord /\ z.peer = x.peer /\ z.closed = x.closed
    BY <1>1 DEF EndRecord
  <1>4. FramesAre(l, e, wire[l][e], wire[l][Far(e)])
    BY <1>2 DEF FramesAre, LinksInv
  <1>5. LinkSound(z, ends[l][Far(e)], wire[l][e], wire[l][Far(e)], spent'.requests)
    BY <1>1, <1>2, HelloIsVerified
  <1> HIDE DEF z
  <1>6. EndIs(l, e, z)
    BY <1>2, <1>3, EndSet
  <1>7. QED
    BY <1>2, <1>3, <1>4, <1>5, <1>6, NoRequests, EndSteps

LEMMA SendKeyStep ==
    ASSUME LinksInv, NEW l \in Links, NEW e \in Ends, SendKey(l, e)
    PROVE  LinksInv'
  <1> DEFINE x == ends[l][e]
             z == Finishes([x EXCEPT !.encrypting = FALSE])
             u == IF x.closing \/ x.closed THEN wire[l][Far(e)]
                  ELSE Append(wire[l][Far(e)], [t |-> "key"])
  <1>1. /\ LinkSound(x, ends[l][Far(e)], wire[l][e], wire[l][Far(e)], spent.requests)
        /\ x \in EndRecord /\ spent.requests \in Nat
    BY AnEnd
  <1>2. /\ x.encrypting /\ wire' = Sends(l, e, [t |-> "key"])
        /\ ends' = [ends EXCEPT ![l][e] = z] /\ linked' = linked /\ spent' = spent
    BY DEF SendKey
  <1>3. z.peer = x.peer /\ z.closed = x.closed
    BY <1>1 DEF EndRecord, Finishes
  <1>4. FramesAre(l, e, wire[l][e], u)
    <2>1. [t |-> "key"] \in LinkFrame
      BY Plain
    <2>2. QED
      BY <1>2, <2>1, SentFrames
  <1>5. LinkSound(z, ends[l][Far(e)], wire[l][e], u, spent'.requests)
    BY <1>1, <1>2, KeySent
  <1> HIDE DEF u, z
  <1>6. EndIs(l, e, z)
    <2>1. z \in EndRecord
      BY <1>1, <1>2, <1>5, Held
    <2>2. QED
      BY <1>2, <2>1, EndSet
  <1>7. QED
    BY <1>2, <1>3, <1>4, <1>5, <1>6, NoRequests, EndSteps

LEMMA RequestStep ==
    ASSUME LinksInv, NEW l \in Links, NEW e \in Ends, RequestOver(l, e)
    PROVE  LinksInv'
  <1> DEFINE x == ends[l][e]
             z == FramesSet(x, x.received, x.sent + 1, x.pending + 1)
             u == Append(wire[l][Far(e)], [t |-> "req", n |-> x.sent + 1])
  <1>1. /\ LinkSound(x, ends[l][Far(e)], wire[l][e], wire[l][Far(e)], spent.requests)
        /\ x \in EndRecord /\ spent.requests \in Nat
    BY AnEnd
  <1>2. /\ x.peer /\ ~ x.closed /\ ~ x.closing
        /\ spent.requests < MaxLinkRequests /\ spent' = [spent EXCEPT !.requests = @ + 1]
        /\ wire' = Sends(l, e, [t |-> "req", n |-> x.sent + 1]) /\ linked' = linked
        /\ ends' = [ends EXCEPT ![l][e].pending = @ + 1, ![l][e].sent = @ + 1]
    BY DEF RequestOver, LinkOpen
  <1>3. ends' = [ends EXCEPT ![l][e] = z]
    <2> DEFINE a == x.sent + 1
               b == x.pending + 1
               q == [x EXCEPT !.pending = b, !.sent = a]
    <2>1. ends' = [ends EXCEPT ![l][e].pending = b, ![l][e].sent = a]
      BY <1>1, <1>2 DEF LinksInv, EndRecord
    <2> HIDE DEF a, b
    <2>2. [ends EXCEPT ![l][e].pending = b, ![l][e].sent = a] = [ends EXCEPT ![l][e] = q]
      BY AnEnd DEF LinksInv
    <2>3. q = FramesSet(x, x.received, a, b)
      BY <1>1 DEF FramesSet, EndRecord
    <2> HIDE DEF q
    <2>4. QED
      BY <2>1, <2>2, <2>3 DEF a, b
  <1>4. z.peer = x.peer /\ z.closed = x.closed
    BY <1>1 DEF EndRecord, FramesSet
  <1>5. FramesAre(l, e, wire[l][e], u)
    <2>1. [t |-> "req", n |-> x.sent + 1] \in LinkFrame
      <3>1. x.sent + 1 \in Nat \ {0}
        <4>1. x.sent \in Nat
          BY <1>1 DEF EndRecord
        <4>2. QED
          BY <4>1
      <3>2. QED
        BY <3>1, Plain
    <2> DEFINE f == [t |-> "req", n |-> x.sent + 1]
    <2>2. f \in LinkFrame /\ wire' = Sends(l, e, f)
      BY <1>2, <2>1
    <2>3. u = Append(wire[l][Far(e)], f)
      OBVIOUS
    <2> HIDE DEF f, u
    <2>4. QED
      BY <1>2, <2>2, <2>3, SentFrames
  <1>6. /\ spent'.requests = spent.requests + 1 /\ spent.requests <= spent'.requests
        /\ spent' \in [requests : 0 .. MaxLinkRequests, timeouts : 0 .. MaxTimeouts]
    <2> DEFINE n == spent.requests + 1
    <2>1. /\ spent \in [requests : 0 .. MaxLinkRequests, timeouts : 0 .. MaxTimeouts]
          /\ MaxLinkRequests \in Nat /\ MaxTimeouts \in Nat
      BY DEF LinksInv, RelayLinksAssumption
    <2>2. spent' = [spent EXCEPT !.requests = n]
      BY <1>2
    <2>3. spent.requests \in 0 .. MaxLinkRequests /\ spent.requests < MaxLinkRequests /\ MaxLinkRequests \in Nat
      BY <1>2, <2>1
    <2>4. n \in 0 .. MaxLinkRequests /\ spent.requests <= n
      BY <2>3
    <2> HIDE DEF n
    <2>5. spent' \in [requests : 0 .. MaxLinkRequests, timeouts : 0 .. MaxTimeouts]
      BY <2>1, <2>2, <2>4
    <2>6. spent'.requests = n
      BY <2>1, <2>2
    <2>7. QED
      BY <2>4, <2>5, <2>6 DEF n
  <1>7. LinkSound(z, ends[l][Far(e)], wire[l][e], u, spent.requests + 1)
    BY <1>1, <1>2, RequestSent
  <1>8. LinkSound(z, ends[l][Far(e)], wire[l][e], u, spent'.requests)
    BY <1>6, <1>7
  <1> HIDE DEF u, z
  <1>9. EndIs(l, e, z)
    <2>1. z \in EndRecord
      BY <1>6, <1>8 DEF LinkSound, EndSound
    <2>2. QED
      BY <1>3, <2>1, EndSet
  <1>10. QED
    BY <1>2, <1>4, <1>5, <1>6, <1>8, <1>9, EndSteps

LEMMA TimeoutStep ==
    ASSUME LinksInv, NEW l \in Links, NEW e \in Ends, HelloTimeout(l, e)
    PROVE  LinksInv'
  <1> DEFINE x == ends[l][e]
             z == [x EXCEPT !.closing = TRUE]
  <1>1. /\ LinkSound(x, ends[l][Far(e)], wire[l][e], wire[l][Far(e)], spent.requests)
        /\ x \in EndRecord /\ spent.requests \in Nat
    BY AnEnd
  <1>2. /\ wire' = wire /\ linked' = linked /\ ends' = [ends EXCEPT ![l][e] = z]
        /\ spent.timeouts < MaxTimeouts /\ spent' = [spent EXCEPT !.timeouts = @ + 1]
    BY DEF HelloTimeout
  <1>3. z \in EndRecord /\ z.peer = x.peer /\ z.closed = x.closed
    BY <1>1 DEF EndRecord
  <1>4. FramesAre(l, e, wire[l][e], wire[l][Far(e)])
    BY <1>2 DEF FramesAre, LinksInv
  <1>5. /\ spent'.requests = spent.requests /\ spent.requests <= spent'.requests
        /\ spent' \in [requests : 0 .. MaxLinkRequests, timeouts : 0 .. MaxTimeouts]
    <2> DEFINE n == spent.timeouts + 1
    <2>1. /\ spent \in [requests : 0 .. MaxLinkRequests, timeouts : 0 .. MaxTimeouts]
          /\ MaxLinkRequests \in Nat /\ MaxTimeouts \in Nat
      BY DEF LinksInv, RelayLinksAssumption
    <2>2. spent' = [spent EXCEPT !.timeouts = n]
      BY <1>2
    <2>3. spent.timeouts \in 0 .. MaxTimeouts /\ spent.timeouts < MaxTimeouts /\ MaxTimeouts \in Nat
      BY <1>2, <2>1
    <2>4. n \in 0 .. MaxTimeouts /\ spent.timeouts <= n
      BY <2>3
    <2> HIDE DEF n
    <2>5. spent' \in [requests : 0 .. MaxLinkRequests, timeouts : 0 .. MaxTimeouts]
      BY <2>1, <2>2, <2>4
    <2>6. spent'.requests = spent.requests
      BY <2>1, <2>2
    <2>7. QED
      BY <1>1, <2>5, <2>6 DEF n
  <1>6. LinkSound(z, ends[l][Far(e)], wire[l][e], wire[l][Far(e)], spent'.requests)
    BY <1>1, <1>5, GivenUp
  <1> HIDE DEF z
  <1>7. EndIs(l, e, z)
    BY <1>2, <1>3, EndSet
  <1>8. QED
    BY <1>2, <1>3, <1>4, <1>5, <1>6, <1>7, EndSteps

LEMMA CloseStep ==
    ASSUME LinksInv, NEW l \in Links, NEW e \in Ends, CloseEventOf(l, e)
    PROVE  LinksInv'
  <1> DEFINE x == ends[l][e]
             z == [x EXCEPT !.closed = TRUE, !.closing = TRUE, !.pending = 0, !.early = << >>]
  <1>1. /\ LinkSound(x, ends[l][Far(e)], wire[l][e], wire[l][Far(e)], spent.requests)
        /\ x \in EndRecord /\ spent.requests \in Nat
        /\ Far(e) \in Ends /\ Far(e) # e
    BY AnEnd
  <1>2. /\ x.attached /\ wire' = [wire EXCEPT ![l][e] = << >>] /\ spent' = spent
        /\ linked' = IF linked[e] = l THEN [linked EXCEPT ![e] = NoLink] ELSE linked
    BY DEF CloseEventOf
  <1>3. ends' = [ends EXCEPT ![l][e] = z]
    <2>1. ends' = [ends EXCEPT ![l][e].closed = TRUE, ![l][e].closing = TRUE, ![l][e].pending = 0,
                               ![l][e].early = << >>]
      BY DEF CloseEventOf
    <2>2. QED
      BY <2>1 DEF LinksInv
  <1>4. z \in EndRecord /\ z.closed
    <2>1. << >> \in Seq(LinkFrame)
      OBVIOUS
    <2>2. QED
      BY <1>1, <2>1 DEF EndRecord
  <1>5. FramesAre(l, e, << >>, wire[l][Far(e)])
    <2>1. << >> \in Seq(LinkFrame)
      OBVIOUS
    <2>2. QED
      BY <1>1, <1>2, <2>1 DEF FramesAre, LinksInv
  <1>6. LinkSound(z, ends[l][Far(e)], << >>, wire[l][Far(e)], spent'.requests)
    BY <1>1, <1>2, EndClosed
  <1> HIDE DEF z
  <1>7. EndIs(l, e, z)
    BY <1>3, <1>4, EndSet
  <1>8. \A m \in Links : \A d \in Ends : LinkAt(m, d)'
    BY <1>2, <1>5, <1>6, <1>7, NoRequests, LinksStayLinked
  <1>9. linked' \in [Ends -> Links \cup {NoLink}]
    BY <1>2 DEF LinksInv
  <1>10. OneLinkAtATime'
    <2>1. SUFFICES ASSUME NEW m \in Links, NEW d \in Ends, LinkOpen(m, d)'
                   PROVE  linked'[d] = m
      BY DEF OneLinkAtATime
    <2>2. ends'[m][d].peer /\ ~ ends'[m][d].closed
      BY <2>1 DEF LinkOpen
    <2>3. ~ (m = l /\ d = e)
      BY <1>4, <1>7, <2>2 DEF EndIs
    <2>4. LinkOpen(m, d)
      <3>1. CASE m # l
        BY <2>2, <3>1, <1>7 DEF EndIs, LinkOpen
      <3>2. CASE m = l
        <4>1. d = Far(e)
          BY <2>3, <3>2, FarEnd DEF FarLemma
        <4>2. QED
          BY <2>2, <3>2, <4>1, <1>7 DEF EndIs, LinkOpen
      <3>3. QED
        BY <3>1, <3>2
    <2>5. linked[d] = m
      BY <2>4 DEF LinksInv, OneLinkAtATime
    <2>6. QED
      BY <1>2, <2>3, <2>5 DEF LinksInv
  <1>11. QED
    BY <1>5, <1>7, <1>8, <1>9, <1>10, <1>2, NoRequests DEF LinksInv, EndIs, FramesAre

LEMMA FinishStep ==
    ASSUME LinksInv, NEW l \in Links, NEW e \in Ends, FinishSecure(l, e)
    PROVE  LinksInv'
  <1>2. PICK links \in BOOLEAN : links = MayLink(e)
    BY DEF MayLink
  <1> DEFINE x == ends[l][e]
             c == Channelled(x, links)
             all == TakeHeld(c, x.early)
             z == all.end
             u == wire[l][Far(e)] \o all.out
  <1>1. /\ LinkSound(x, ends[l][Far(e)], wire[l][e], wire[l][Far(e)], spent.requests)
        /\ x \in EndRecord /\ spent.requests \in Nat
        /\ Far(e) \in Ends /\ Far(e) # e
    BY AnEnd
  <1>3. x.finishing > 0
    BY DEF FinishSecure
  <1>4. /\ LinkSound(z, ends[l][Far(e)], wire[l][e], u, spent.requests)
        /\ z.closed = x.closed /\ z.peer = (links /\ ~ x.closed) /\ ~ x.peer
    <2>1. /\ LinkSound(Finished(x, links).end, ends[l][Far(e)], wire[l][e],
                       wire[l][Far(e)] \o Finished(x, links).out, spent.requests)
          /\ Finished(x, links).end.closed = x.closed /\ ~ x.peer
          /\ Finished(x, links).end.peer = (links /\ ~ x.closed)
      <3> HIDE DEF x
      <3>1. QED
        BY <1>1, <1>2, <1>3, HandshakeFinished
    <2>2. Finished(x, links) = all
      BY DEF Finished
    <2>3. QED
      BY <2>1, <2>2
  <1>5. x.finishing = 1
    BY <1>1, <1>3 DEF EndRecord
  <1>6. c.peer = (links /\ ~ x.closed)
    BY <1>1, <1>4, <1>5, ChannelMade
  <1>7. /\ ends' = [ends EXCEPT ![l][e] = z] /\ spent' = spent
        /\ wire' = [wire EXCEPT ![l][Far(e)] = u]
        /\ linked' = IF c.peer THEN [linked EXCEPT ![e] = l] ELSE linked
    <2> DEFINE b == [x EXCEPT !.finishing = @ - 1, !.channel = TRUE,
                              !.sent = 0, !.received = 0, !.early = << >>]
    <2>1. c = IF b.peer \/ b.closed THEN b
              ELSE IF links THEN [b EXCEPT !.peer = TRUE] ELSE [b EXCEPT !.closing = TRUE]
      BY ZenonT(30) DEF Channelled
    <2>2. /\ ends' = [ends EXCEPT ![l][e] = all.end] /\ spent' = spent
          /\ linked' = IF c.peer /\ ~ b.peer THEN [linked EXCEPT ![e] = l] ELSE linked
          /\ wire' = [wire EXCEPT ![l][Far(e)] = @ \o all.out]
      BY <1>2, <2>1, ZenonT(30) DEF FinishSecure, HeldFrames
    <2>3. ~ b.peer
      BY <1>1, <1>4 DEF EndRecord
    <2> HIDE DEF b, c
    <2>4. wire' = [wire EXCEPT ![l][Far(e)] = u]
      BY <2>2
    <2>5. QED
      BY <2>2, <2>3, <2>4
  <1> HIDE DEF c, all
  <1>8. z \in EndRecord /\ u \in Seq(LinkFrame)
    BY <1>1, <1>4, Held
  <1> HIDE DEF z, u
  <1>9. FramesAre(l, e, wire[l][e], u)
    BY <1>1, <1>7, <1>8 DEF FramesAre, LinksInv
  <1>10. EndIs(l, e, z)
    BY <1>7, <1>8, EndSet
  <1>11. LinkSound(z, ends[l][Far(e)], wire[l][e], u, spent'.requests)
    BY <1>4, <1>7
  <1>12. \A m \in Links : \A d \in Ends : LinkAt(m, d)'
    BY <1>7, <1>9, <1>10, <1>11, NoRequests, LinksStayLinked
  <1>13. linked' \in [Ends -> Links \cup {NoLink}]
    BY <1>7 DEF LinksInv
  <1>14. OneLinkAtATime'
    <2>1. SUFFICES ASSUME NEW m \in Links, NEW d \in Ends, LinkOpen(m, d)'
                   PROVE  linked'[d] = m
      BY DEF OneLinkAtATime
    <2>2. ends'[m][d].peer /\ ~ ends'[m][d].closed
      BY <2>1 DEF LinkOpen
    <2>3. CASE m = l /\ d = e
      <3>1. z.peer /\ c.peer
        BY <1>4, <1>6, <1>10, <2>2, <2>3 DEF EndIs
      <3>2. QED
        BY <1>7, <2>3, <3>1 DEF LinksInv
    <2>4. CASE ~ (m = l /\ d = e)
      <3>1. LinkOpen(m, d)
        <4>1. CASE m # l
          BY <2>2, <4>1, <1>10 DEF EndIs, LinkOpen
        <4>2. CASE m = l
          <5>1. d = Far(e)
            BY <2>4, <4>2, FarEnd DEF FarLemma
          <5>2. QED
            BY <2>2, <4>2, <5>1, <1>10 DEF EndIs, LinkOpen
        <4>3. QED
          BY <4>1, <4>2
      <3>2. linked[d] = m
        BY <3>1 DEF LinksInv, OneLinkAtATime
      <3>3. d = e => ~ c.peer
        BY <1>2, <1>6, <3>1, <3>2 DEF MayLink
      <3>4. QED
        BY <1>7, <3>2, <3>3 DEF LinksInv
    <2>5. QED
      BY <2>3, <2>4
  <1>15. QED
    BY <1>7, <1>9, <1>10, <1>12, <1>13, <1>14, NoRequests DEF LinksInv, EndIs, FramesAre

\* The frames to one end of one link become s.
FramesWith(g, l, e, s) == [g EXCEPT ![l][e] = s]

Frames == Seq(LinkFrame)
Wires == [Links -> [Ends -> Frames]]

LEMMA FramesSetTo ==
    ASSUME NEW g \in Wires, NEW l \in Links, NEW e \in Ends, NEW s \in Frames
    PROVE  LET h == FramesWith(g, l, e, s)
           IN  /\ h \in Wires
               /\ h[l][e] = s /\ \A d \in Ends : d # e => h[l][d] = g[l][d]
               /\ \A m \in Links : m # l => h[m] = g[m]
  BY DEF FramesWith, Wires

\* What the frames become when one is taken and an answer may be sent.
LEMMA TakenFrames ==
    ASSUME LinksInv, NEW l \in Links, NEW e \in Ends, wire[l][e] # << >>,
           NEW u \in Frames,
           NEW rest, rest = FramesWith(wire, l, e, Tail(wire[l][e])),
           wire' = FramesWith(rest, l, Far(e), u)
    PROVE  FramesAre(l, e, Tail(wire[l][e]), u)
  <1> DEFINE tail == Tail(wire[l][e])
  <1>1. wire[l][e] \in Frames /\ Far(e) \in Ends /\ Far(e) # e
    BY AnEnd DEF Frames
  <1>2. wire \in Wires
    BY DEF LinksInv, Wires, Frames
  <1>3. tail \in Frames /\ rest = FramesWith(wire, l, e, tail)
    BY <1>1, HeadAndTail DEF Frames
  <1> HIDE DEF tail
  <1>4. /\ rest \in Wires /\ rest[l][e] = tail /\ \A m \in Links : m # l => rest[m] = wire[m]
    BY <1>2, <1>3, FramesSetTo
  <1>5. /\ wire' \in Wires /\ wire'[l][Far(e)] = u /\ wire'[l][e] = rest[l][e]
        /\ \A m \in Links : m # l => wire'[m] = rest[m]
    BY <1>1, <1>4, FramesSetTo
  <1>6. wire' \in [Links -> [Ends -> Seq(LinkFrame)]]
    BY <1>5 DEF Wires, Frames
  <1>7. FramesAre(l, e, tail, u)
    BY <1>4, <1>5, <1>6 DEF FramesAre
  <1>8. QED
    BY <1>7 DEF tail

LEMMA TakenOnly ==
    ASSUME LinksInv, NEW l \in Links, NEW e \in Ends, wire[l][e] # << >>,
           wire' = [wire EXCEPT ![l][e] = Tail(@)]
    PROVE  FramesAre(l, e, Tail(wire[l][e]), wire[l][Far(e)])
  <1> DEFINE tail == Tail(wire[l][e])
  <1>1. wire \in [Links -> [Ends -> Seq(LinkFrame)]] /\ Far(e) \in Ends /\ Far(e) # e
    BY AnEnd DEF LinksInv
  <1>2. tail \in Seq(LinkFrame)
    BY <1>1, HeadAndTail
  <1>3. wire' = [wire EXCEPT ![l][e] = tail]
    OBVIOUS
  <1> HIDE DEF tail
  <1>4. FramesAre(l, e, tail, wire[l][Far(e)])
    BY <1>1, <1>2, <1>3 DEF FramesAre
  <1>5. QED
    BY <1>4 DEF tail

LEMMA DeliverStep ==
    ASSUME LinksInv, NEW l \in Links, NEW e \in Ends, Deliver(l, e), MaxLinkRequests <= MaxEarly
    PROVE  LinksInv'
  <1> DEFINE x == ends[l][e]
             y == ends[l][Far(e)]
             w == wire[l][e]
             v == wire[l][Far(e)]
             f == Head(w)
             r == spent.requests
  <1>1. /\ LinkSound(x, y, w, v, r)
        /\ x \in EndRecord /\ r \in Nat /\ w \in Seq(LinkFrame) /\ v \in Seq(LinkFrame)
        /\ Far(e) \in Ends /\ Far(e) # e
    BY AnEnd, SMTT(20)
  <1>2. w # << >> /\ linked' = linked /\ spent' = spent
    BY DEF Deliver
  <1>3. r <= MaxEarly
    BY DEF LinksInv, RelayLinksAssumption
  <1>4. ASSUME NEW z, NEW u, LinkSound(z, y, Tail(w), u, r), EndIs(l, e, z),
               FramesAre(l, e, Tail(w), u), z.peer = x.peer, z.closed = x.closed
        PROVE  LinksInv'
    BY <1>2, <1>4, NoRequests, EndSteps
  <1>5. ends' = ends => EndIs(l, e, x)
    BY DEF EndIs, LinksInv
  <1>6. CASE ~ x.attached \/ x.closed
    <2>1. wire' = [wire EXCEPT ![l][e] = Tail(@)] /\ ends' = ends
      BY <1>6 DEF Deliver
    <2>2. LinkSound(x, y, Tail(w), v, r)
      BY <1>1, <1>2, <1>6, FrameUnheard
    <2>3. FramesAre(l, e, Tail(w), v)
      BY <1>2, <2>1, TakenOnly
    <2>4. QED
      BY <1>4, <1>5, <2>1, <2>2, <2>3, SMTT(20)
  <1>7. CASE x.attached /\ ~ x.closed /\ f.t = "challenge"
    <2> DEFINE z == IF x.answered THEN x ELSE [x EXCEPT !.answered = TRUE, !.signing = TRUE]
    <2>1. /\ wire' = [wire EXCEPT ![l][e] = Tail(@)]
          /\ ends' = IF x.answered THEN ends
                     ELSE [ends EXCEPT ![l][e].answered = TRUE, ![l][e].signing = TRUE]
      BY <1>7 DEF Deliver
    <2>2. LinkSound(z, y, Tail(w), v, r)
      BY <1>1, <1>2, <1>7, ChallengeHeard
    <2>3. FramesAre(l, e, Tail(w), v)
      BY <1>2, <2>1, TakenOnly
    <2>4. z \in EndRecord /\ z.peer = x.peer /\ z.closed = x.closed
      <3>1. CASE x.answered
        BY <1>1, <3>1
      <3>2. CASE ~ x.answered
        BY <1>1, <3>2 DEF EndRecord
      <3>3. QED
        BY <3>1, <3>2
    <2>5. EndIs(l, e, z)
      <3>1. CASE x.answered
        BY <1>5, <2>1, <3>1
      <3>2. CASE ~ x.answered
        <4>1. ends' = [ends EXCEPT ![l][e] = z]
          BY <2>1, <3>2 DEF LinksInv
        <4>2. QED
          BY <2>4, <4>1, EndSet
      <3>3. QED
        BY <3>1, <3>2
    <2> HIDE DEF z
    <2>6. QED
      BY <1>4, <2>2, <2>3, <2>4, <2>5
  <1>8. CASE x.attached /\ ~ x.closed /\ f.t = "hello"
    <2> DEFINE z == IF x.peer THEN x ELSE [x EXCEPT !.hello = "verifying"]
    <2>1. /\ wire' = [wire EXCEPT ![l][e] = Tail(@)]
          /\ ends' = IF x.peer THEN ends ELSE [ends EXCEPT ![l][e].hello = "verifying"]
      BY <1>8 DEF Deliver
    <2>2. LinkSound(z, y, Tail(w), v, r)
      BY <1>1, <1>2, <1>8, HelloHeard
    <2>3. FramesAre(l, e, Tail(w), v)
      BY <1>2, <2>1, TakenOnly
    <2>4. z \in EndRecord /\ z.peer = x.peer /\ z.closed = x.closed
      <3>1. CASE x.peer
        BY <1>1, <3>1
      <3>2. CASE ~ x.peer
        BY <1>1, <3>2 DEF EndRecord
      <3>3. QED
        BY <3>1, <3>2
    <2>5. EndIs(l, e, z)
      <3>1. CASE x.peer
        BY <1>5, <2>1, <3>1
      <3>2. CASE ~ x.peer
        <4>1. ends' = [ends EXCEPT ![l][e] = z]
          BY <2>1, <3>2 DEF LinksInv
        <4>2. QED
          BY <2>4, <4>1, EndSet
      <3>3. QED
        BY <3>1, <3>2
    <2> HIDE DEF z
    <2>6. QED
      BY <1>4, <2>2, <2>3, <2>4, <2>5
  <1>9. CASE x.attached /\ ~ x.closed /\ f.t = "key"
    <2> DEFINE z == IF x.channel \/ x.keyFrame THEN x ELSE Finishes([x EXCEPT !.keyFrame = TRUE])
    <2>1. /\ wire' = [wire EXCEPT ![l][e] = Tail(@)]
          /\ ends' = IF x.channel \/ x.keyFrame THEN ends
                     ELSE [ends EXCEPT ![l][e] = Finishes([@ EXCEPT !.keyFrame = TRUE])]
      BY <1>9 DEF Deliver
    <2>2. LinkSound(z, y, Tail(w), v, r)
      BY <1>1, <1>2, <1>9, KeyHeard
    <2>3. FramesAre(l, e, Tail(w), v)
      BY <1>2, <2>1, TakenOnly
    <2>4. z.peer = x.peer /\ z.closed = x.closed
      BY <1>1, Zenon DEF EndRecord, Finishes
    <2>5. z \in EndRecord
      BY <2>2 DEF LinkSound, EndSound
    <2>6. EndIs(l, e, z)
      <3>1. CASE x.channel \/ x.keyFrame
        BY <1>5, <2>1, <3>1
      <3>2. CASE ~ (x.channel \/ x.keyFrame)
        <4>1. ends' = [ends EXCEPT ![l][e] = z]
          BY <2>1, <3>2
        <4> HIDE DEF z
        <4>2. QED
          BY <2>5, <4>1, EndSet
      <3>3. QED
        BY <3>1, <3>2
    <2> HIDE DEF z
    <2>7. QED
      BY <1>4, <2>2, <2>3, <2>4, <2>6
  <1>10. CASE x.attached /\ ~ x.closed /\ f.t \in {"req", "res"} /\ ~ x.channel
    <2> DEFINE z == IF Len(x.early) < MaxEarly THEN [x EXCEPT !.early = Append(@, f)] ELSE x
    <2>1. /\ wire' = [wire EXCEPT ![l][e] = Tail(@)]
          /\ ends' = IF Len(x.early) < MaxEarly
                     THEN [ends EXCEPT ![l][e].early = Append(@, f)] ELSE ends
      BY <1>10 DEF Deliver
    <2>2. LinkSound(z, y, Tail(w), v, r)
      BY <1>1, <1>2, <1>3, <1>10, SealedHeld
    <2>3. FramesAre(l, e, Tail(w), v)
      BY <1>2, <2>1, TakenOnly
    <2>4. z.peer = x.peer /\ z.closed = x.closed
      BY <1>1 DEF EndRecord
    <2>5. z \in EndRecord
      BY <2>2 DEF LinkSound, EndSound
    <2>6. EndIs(l, e, z)
      <3>1. CASE ~ (Len(x.early) < MaxEarly)
        BY <1>5, <2>1, <3>1
      <3>2. CASE Len(x.early) < MaxEarly
        <4>1. ends' = [ends EXCEPT ![l][e] = z]
          BY <2>1, <3>2
        <4> HIDE DEF z
        <4>2. QED
          BY <2>5, <4>1, EndSet
      <3>3. QED
        BY <3>1, <3>2
    <2> HIDE DEF z
    <2>7. QED
      BY <1>4, <2>2, <2>3, <2>4, <2>6
  <1>11. CASE x.attached /\ ~ x.closed /\ f.t \in {"req", "res"} /\ x.channel
    <2> DEFINE t == TakeSealed(x, f)
               z == t.end
               u == v \o t.out
    <2>1. /\ wire' = [[wire EXCEPT ![l][e] = Tail(@)] EXCEPT ![l][Far(e)] = @ \o t.out]
          /\ ends' = [ends EXCEPT ![l][e] = z]
      BY <1>11 DEF Deliver
    <2>2. LinkSound(z, y, Tail(w), u, r)
      <3>1. z = TakeSealed(x, Head(w)).end /\ u = v \o TakeSealed(x, Head(w)).out
        OBVIOUS
      <3> HIDE DEF z, u
      <3>2. QED
        BY <1>1, <1>2, <1>11, <3>1, SealedTaken
    <2>3. z \in EndRecord /\ u \in Seq(LinkFrame)
      <3> HIDE DEF z, u
      <3>1. QED
        BY <1>1, <2>2, Held
    <2>4. FramesAre(l, e, Tail(w), u)
      <3> DEFINE rest == [wire EXCEPT ![l][e] = Tail(@)]
      <3>1. rest[l][Far(e)] = v
        BY <1>1, SMTT(30) DEF LinksInv
      <3>2. wire' = FramesWith(rest, l, Far(e), u) /\ rest = FramesWith(wire, l, e, Tail(w))
        BY <2>1, <3>1 DEF FramesWith
      <3>3. u \in Frames
        BY <2>3 DEF Frames
      <3> HIDE DEF u, rest
      <3>4. QED
        BY <1>2, <3>2, <3>3, TakenFrames
    <2>5. z.peer = x.peer /\ z.closed = x.closed
      BY <1>1 DEF EndRecord, TakeSealed, Handled, Opens
    <2> HIDE DEF z, u
    <2>6. EndIs(l, e, z)
      BY <2>1, <2>3, EndSet
    <2>7. QED
      BY <1>4, <2>2, <2>4, <2>5, <2>6, SMTT(20)
  <1>12. f.t \in {"challenge", "hello", "key", "req", "res"}
    BY <1>1, <1>2, FrameTaken, FrameType DEF Types
  <1>13. QED
    BY <1>6, <1>7, <1>8, <1>9, <1>10, <1>11, <1>12

LEMMA LinksStep ==
    ASSUME LinksInv, [LinksNext]_linkVars, MaxLinkRequests <= MaxEarly
    PROVE  LinksInv'
  <1>1. CASE UNCHANGED linkVars
    BY <1>1 DEF LinksInv, LinkAt, OneLinkAtATime, LinkOpen, linkVars
  <1>2. ASSUME NEW l \in Links, DialLink(l)
        PROVE  LinksInv'
    <2>1. PICK e \in Ends : ends' = [ends EXCEPT ![l][e].attached = TRUE]
      BY <1>2 DEF DialLink
    <2>2. UNCHANGED << wire, linked, spent >>
      BY <1>2 DEF DialLink
    <2>3. QED
      BY <2>1, <2>2, AttachStep
  <1>3. ASSUME NEW l \in Links, NEW e \in Ends, Attach(l, e)
        PROVE  LinksInv'
    BY <1>3, AttachStep DEF Attach
  <1>4. CASE LinksNext
    <2>1. PICK l \in Links :
             \/ DialLink(l)
             \/ \E e \in Ends :
                   \/ Attach(l, e) \/ Challenge(l, e) \/ Deliver(l, e)
                   \/ SendHello(l, e) \/ HelloVerified(l, e) \/ SendKey(l, e) \/ FinishSecure(l, e)
                   \/ RequestOver(l, e) \/ HelloTimeout(l, e) \/ CloseEventOf(l, e)
      BY <1>4 DEF LinksNext
    <2>2. CASE DialLink(l)
      BY <1>2, <2>2
    <2>3. ASSUME NEW e \in Ends,
                 \/ Attach(l, e) \/ Challenge(l, e) \/ Deliver(l, e)
                 \/ SendHello(l, e) \/ HelloVerified(l, e) \/ SendKey(l, e) \/ FinishSecure(l, e)
                 \/ RequestOver(l, e) \/ HelloTimeout(l, e) \/ CloseEventOf(l, e)
          PROVE  LinksInv'
      <3>1. CASE Attach(l, e)
        BY <1>3, <3>1
      <3>2. CASE Challenge(l, e)
        BY <3>2, ChallengeStep
      <3>3. CASE Deliver(l, e)
        BY <3>3, DeliverStep
      <3>4. CASE SendHello(l, e)
        BY <3>4, SendHelloStep
      <3>5. CASE HelloVerified(l, e)
        BY <3>5, HelloVerifiedStep
      <3>6. CASE SendKey(l, e)
        BY <3>6, SendKeyStep
      <3>7. CASE FinishSecure(l, e)
        BY <3>7, FinishStep
      <3>8. CASE RequestOver(l, e)
        BY <3>8, RequestStep
      <3>9. CASE HelloTimeout(l, e)
        BY <3>9, TimeoutStep
      <3>10. CASE CloseEventOf(l, e)
        BY <3>10, CloseStep
      <3>11. QED
        BY <2>3, <3>1, <3>2, <3>3, <3>4, <3>5, <3>6, <3>7, <3>8, <3>9, <3>10
    <2>4. QED
      BY <2>1, <2>2, <2>3
  <1>5. QED
    BY <1>1, <1>4

LEMMA LinksStart ==
    ASSUME LinksInit
    PROVE  LinksInv
  <1> DEFINE x == FreshEnd
  <1>1. /\ ends = [l \in Links |-> [e \in Ends |-> x]]
        /\ wire = [l \in Links |-> [e \in Ends |-> << >>]]
        /\ linked = [e \in Ends |-> NoLink]
        /\ spent = [requests |-> 0, timeouts |-> 0]
    BY DEF LinksInit
  <1>2. << >> \in Seq(LinkFrame) /\ 0 \in 0 .. 1 /\ 0 \in Nat /\ 0 <= 0
    OBVIOUS
  <1>3. /\ x \in EndRecord /\ ~ x.attached /\ ~ x.closing /\ ~ x.closed /\ ~ x.peer /\ ~ x.answered
        /\ x.hello = "none" /\ ~ x.signing /\ ~ x.encrypting /\ ~ x.keyFrame /\ x.finishing = 0
        /\ ~ x.finished /\ ~ x.channel /\ x.sent = 0 /\ x.received = 0 /\ x.early = << >>
        /\ x.pending = 0 /\ ~ x.bad
    BY <1>2 DEF FreshEnd, EndRecord
  <1> HIDE DEF x
  <1>4. EndSound(x, 0)
    <2>1. Len(x.early) <= MaxEarly
      BY <1>3 DEF RelayLinksAssumption
    <2>2. QED
      BY <1>2, <1>3, <2>1 DEF EndSound
  <1>5. \A t : Count(<< >>, t) = 0
    BY CountNone
  <1>6. Heard(x, x, << >>)
    <2>1. 0 <= 1 /\ 0 # 1
      OBVIOUS
    <2>2. QED
      BY <1>2, <1>3, <1>5, <2>1 DEF Heard
  <1>7. Numbered(x, x, << >>, 0)
    <2>1. Spans(<< >>, 0, 0)
      BY SpanNone
    <2>2. x.received + Len(x.early) = 0
      BY <1>3
    <2>3. QED
      BY <1>2, <1>3, <1>5, <2>1, <2>2 DEF Numbered
  <1>8. Waits(x, x, << >>, << >>)
    <2>1. Len(x.early) = 0 /\ 0 <= 0 + 0 + 0
      BY <1>3
    <2>2. QED
      BY <1>3, <1>5, <2>1 DEF Waits
  <1>9. LinkSound(x, x, << >>, << >>, 0)
    BY <1>4, <1>6, <1>7, <1>8 DEF LinkSound
  <1>10. \A l \in Links : \A e \in Ends : LinkAt(l, e)
    <2>1. SUFFICES ASSUME NEW l \in Links, NEW e \in Ends PROVE LinkAt(l, e)
      OBVIOUS
    <2>2. Far(e) \in Ends
      BY FarEnd DEF FarLemma
    <2>3. ends[l][e] = x /\ ends[l][Far(e)] = x /\ wire[l][e] = << >> /\ wire[l][Far(e)] = << >>
          /\ spent.requests = 0
      BY <1>1, <2>2
    <2>4. QED
      BY <1>9, <2>3 DEF LinkAt
  <1>11. ends \in [Links -> [Ends -> EndRecord]] /\ wire \in [Links -> [Ends -> Seq(LinkFrame)]]
    BY <1>1, <1>2, <1>3
  <1>12. /\ linked \in [Ends -> Links \cup {NoLink}]
         /\ spent \in [requests : 0 .. MaxLinkRequests, timeouts : 0 .. MaxTimeouts]
    BY <1>1 DEF RelayLinksAssumption
  <1>13. OneLinkAtATime
    BY <1>1, <1>3 DEF OneLinkAtATime, LinkOpen
  <1>14. QED
    BY <1>10, <1>11, <1>12, <1>13 DEF LinksInv

\* What the invariant says that the run checks.
LEMMA SoundLinks ==
    ASSUME LinksInv
    PROVE  LinksAreSound
  <1>1. LinksTypeOK
    <2>1. ASSUME NEW l \in Links, NEW e \in Ends
          PROVE  LET x == ends[l][e]
                 IN  /\ x.hello \in {"none", "verifying", "verified"}
                     /\ x.finishing \in 0 .. 1
                     /\ x.pending \in 0 .. spent.requests
                     /\ Len(x.early) <= MaxEarly
                     /\ x.peer => x.channel /\ x.attached
                     /\ x.closed => x.pending = 0
                     /\ x.early # << >> => ~ x.channel
      <3> DEFINE x == ends[l][e]
      <3>1. EndSound(x, spent.requests) /\ x \in EndRecord /\ spent.requests \in Nat
        BY AnEnd DEF LinkSound
      <3> HIDE DEF x
      <3>2. x.hello \in {"none", "verifying", "verified"} /\ x.finishing \in 0 .. 1 /\ x.pending \in Nat
        BY <3>1 DEF EndRecord
      <3>3. x.pending <= spent.requests
        BY <3>1 DEF EndSound
      <3>4. x.pending \in 0 .. spent.requests
        BY <3>1, <3>2, <3>3
      <3>5. /\ Len(x.early) <= MaxEarly
            /\ x.peer => x.channel /\ x.attached
            /\ x.closed => x.pending = 0
            /\ x.early # << >> => ~ x.channel
        BY <3>1 DEF EndSound
      <3>6. QED
        BY <3>2, <3>4, <3>5 DEF x
    <2>2. QED
      BY <2>1 DEF LinksTypeOK, LinksInv
  <1>2. SealedFramesOpen
    <2>1. SUFFICES ASSUME NEW l \in Links, NEW e \in Ends PROVE ~ ends[l][e].bad
      BY DEF SealedFramesOpen
    <2>2. EndSound(ends[l][e], spent.requests)
      BY AnEnd DEF LinkSound
    <2>3. QED
      BY <2>2 DEF EndSound
  <1>3. NothingStalls
    <2>1. SUFFICES ASSUME NEW l \in Links, \A e \in Ends : AtRest(l, e), NEW e \in Ends
                   PROVE  ends[l][e].peer /\ ends[l][e].pending = 0
      BY DEF NothingStalls
    <2> DEFINE x == ends[l][e]
               y == ends[l][Far(e)]
    <2>2. /\ LinkSound(x, y, wire[l][e], wire[l][Far(e)], spent.requests)
          /\ x \in EndRecord /\ y \in EndRecord /\ Far(e) \in Ends
      BY AnEnd
    <2>3. AtRest(l, e) /\ AtRest(l, Far(e))
      BY <2>1, <2>2
    <2>4. /\ x.attached /\ x.answered /\ ~ x.closing /\ ~ x.closed
          /\ ~ x.signing /\ x.hello # "verifying" /\ ~ x.encrypting /\ x.finishing = 0
          /\ y.attached /\ y.answered /\ ~ y.closing /\ ~ y.closed
          /\ ~ y.signing /\ y.hello # "verifying" /\ ~ y.encrypting /\ y.finishing = 0
          /\ wire[l][e] = << >> /\ wire[l][Far(e)] = << >>
      BY <2>3 DEF AtRest
    <2>5. LinkSound(x, y, << >>, << >>, spent.requests)
      BY <2>2, <2>4
    <2> HIDE DEF x, y
    <2>6. \A t : Count(<< >>, t) = 0
      BY CountNone
    <2>7. /\ EndSound(x, spent.requests) /\ EndSound(y, spent.requests)
          /\ Heard(x, y, << >>) /\ Heard(y, x, << >>) /\ Waits(x, y, << >>, << >>)
      BY <2>5 DEF LinkSound
    <2>8. x.hello = "verified" /\ y.hello = "verified"
      <3>1. x.hello # "none" /\ y.hello # "none"
        BY <2>4, <2>6, <2>7 DEF Heard
      <3>2. QED
        BY <2>2, <2>4, <3>1 DEF EndRecord
    <2>9. x.keyFrame /\ y.keyFrame
      BY <2>4, <2>6, <2>7, <2>8 DEF Heard
    <2>10. x.channel /\ y.channel
      BY <2>4, <2>7, <2>8, <2>9 DEF EndSound
    <2>11. x.peer /\ y.early = << >>
      BY <2>4, <2>7, <2>10 DEF EndSound
    <2>12. x.pending <= 0 + Len(y.early) + 0
      BY <2>4, <2>6, <2>7 DEF Waits
    <2>13. x.pending \in Nat
      BY <2>2 DEF EndRecord
    <2>14. x.pending = 0
      BY <2>11, <2>12, <2>13
    <2>15. QED
      BY <2>11, <2>14 DEF x
  <1>4. EndsAgree
    BY <1>3 DEF EndsAgree, NothingStalls, AtRest, LinksInv, OneLinkAtATime, LinkOpen
  <1>5. QED
    BY <1>1, <1>2, <1>3, <1>4 DEF LinksAreSound, LinksInv

\* An end that can hold as many frames as there are requests loses none of them: every
\* sealed frame opens, and once nothing is under way both ends are linked and neither
\* waits; and a relay has one open link to another, which is the one of both when
\* nothing of it is under way (relay-links.js: attach, onFrame, open, finishSecureOnce,
\* the request map and the close event).
THEOREM LinksStaySound ==
    ASSUME MaxLinkRequests <= MaxEarly
    PROVE  LinksSpec => []LinksAreSound
  <1>1. LinksInit => LinksInv
    BY LinksStart
  <1>2. LinksInv /\ [LinksNext]_linkVars => LinksInv'
    BY LinksStep
  <1>3. LinksInv => LinksAreSound
    BY SoundLinks
  <1>4. QED
    BY <1>1, <1>2, <1>3, PTL DEF LinksSpec
=============================================================================
