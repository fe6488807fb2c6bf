------------------------- MODULE DeferredWorkProofs -------------------------
(***************************************************************************)
(* Proofs about what a relay puts off.  About DeferredQueue, for any kinds *)
(* of task, any bounds on the window, the batch and the queue, and any     *)
(* budgets: the queue is sound, the urgent go first, and a discover that   *)
(* is dropped is superseded.  About RoomDiscovery, for any peers and       *)
(* relays, and as much as may fail: no two peers of a room are both left   *)
(* alone.                                                                  *)
(***************************************************************************)
EXTENDS DeferredQueue, RoomDiscovery, FiniteSetTheorems, WellFoundedInduction, TLAPS

USE DeferredQueueAssumption

-----------------------------------------------------------------------------
(* Finite sets of positions *)

LEMMA Smallest ==
    ASSUME NEW S \in SUBSET Nat, S # {}
    PROVE  \E m \in S : \A i \in S : m <= i
  <1>1. \E m \in S : \A i \in S : << i, m >> \notin OpToRel(<, Nat)
    BY WFMin, NatLessThanWellFounded
  <1>2. PICK m \in S : \A i \in S : << i, m >> \notin OpToRel(<, Nat)
    BY <1>1
  <1>3. \A i \in S : ~ (i < m)
    BY <1>2 DEF OpToRel
  <1>4. QED
    BY <1>3

LEMMA Greatest ==
    ASSUME NEW n \in Nat, NEW S \in SUBSET (1 .. n), S # {}
    PROVE  \E m \in S : \A i \in S : i <= m
  <1> DEFINE T == {n - i : i \in S}
  <1>1. T \in SUBSET Nat /\ T # {}
    <2>1. \A i \in S : i \in 1 .. n
      OBVIOUS
    <2>2. PICK i \in S : TRUE
      OBVIOUS
    <2>3. n - i \in T
      OBVIOUS
    <2>4. T \in SUBSET Nat
      BY <2>1
    <2>5. QED
      BY <2>3, <2>4
  <1>2. PICK t \in T : \A u \in T : t <= u
    BY <1>1, Smallest
  <1>3. PICK m \in S : t = n - m
    BY <1>2
  <1>4. \A i \in S : n - m <= n - i
    BY <1>2, <1>3
  <1>5. QED
    BY <1>4

LEMMA PositionsFinite ==
    ASSUME NEW n \in Nat, NEW S \in SUBSET (1 .. n)
    PROVE  IsFiniteSet(S) /\ Cardinality(S) \in Nat /\ Cardinality(S) <= n
  <1>1. IsFiniteSet(1 .. n) /\ Cardinality(1 .. n) = n
    BY FS_Interval
  <1>2. IsFiniteSet(S) /\ Cardinality(S) <= Cardinality(1 .. n)
    BY <1>1, FS_Subset
  <1>3. QED
    BY <1>1, <1>2, FS_CardinalityType

Below(S, i) == {j \in S : j < i}

\* What is below the greatest of S, and below one that is below another.
LEMMA BelowGreatest ==
    ASSUME NEW n \in Nat, NEW S \in SUBSET (1 .. n), NEW m \in S, \A i \in S : i <= m
    PROVE  Below(S, m) = S \ {m}
  <1>1. \A k \in S : k \in Int
    OBVIOUS
  <1>2. \A k \in S : k < m <=> k # m
    BY <1>1
  <1>3. QED
    BY <1>2, Zenon DEF Below

LEMMA BelowBelow ==
    ASSUME NEW n \in Nat, NEW S \in SUBSET (1 .. n), NEW j \in S, NEW i \in Below(S, j)
    PROVE  Below(Below(S, j), i) = Below(S, i)
  <1>1. i \in S /\ i < j /\ \A k \in S : k \in Int
    BY DEF Below
  <1>2. \A k \in S : k < i => k < j
    BY <1>1
  <1>3. QED
    BY <1>2, Zenon DEF Below

LEMMA BelowFinite ==
    ASSUME NEW n \in Nat, NEW S \in SUBSET (1 .. n), NEW i \in S
    PROVE  /\ IsFiniteSet(S) /\ Cardinality(S) \in Nat
           /\ IsFiniteSet(Below(S, i)) /\ Cardinality(Below(S, i)) \in Nat
           /\ Cardinality(Below(S, i)) < Cardinality(S)
  <1>1. IsFiniteSet(S) /\ Cardinality(S) \in Nat
    BY PositionsFinite
  <1>2. Below(S, i) \in SUBSET S /\ Below(S, i) # S
    BY DEF Below
  <1>3. IsFiniteSet(Below(S, i)) /\ Cardinality(Below(S, i)) \in Nat
    BY <1>1, <1>2, FS_Subset, FS_CardinalityType
  <1>4. Cardinality(Below(S, i)) <= Cardinality(S) /\ Cardinality(Below(S, i)) # Cardinality(S)
    BY <1>1, <1>2, FS_Subset
  <1>5. QED
    BY <1>1, <1>3, <1>4

\* Of two positions the later has more below it.
LEMMA BelowGrows ==
    ASSUME NEW n \in Nat, NEW S \in SUBSET (1 .. n), NEW i \in S, NEW j \in S, i < j
    PROVE  Cardinality(Below(S, i)) < Cardinality(Below(S, j))
  <1>1. Below(S, j) \in SUBSET (1 .. n) /\ i \in Below(S, j)
    BY DEF Below
  <1>2. Below(Below(S, j), i) = Below(S, i)
    BY <1>1, BelowBelow
  <1>3. QED
    BY <1>1, <1>2, BelowFinite

\* As many as there are positions, there is a k-th of them.
LEMMA NthIsThere ==
    ASSUME NEW n \in Nat, NEW S \in SUBSET (1 .. n), NEW k \in 1 .. Cardinality(S)
    PROVE  Nth(S, k) \in S /\ Cardinality(Below(S, Nth(S, k))) = k - 1
  <1> DEFINE T == {i \in S : Cardinality(Below(S, i)) >= k - 1}
  <1>1. IsFiniteSet(S) /\ Cardinality(S) \in Nat
    BY PositionsFinite
  <1>2. S # {}
    BY <1>1, FS_EmptySet
  <1>3. T # {}
    <2>1. PICK m \in S : \A i \in S : i <= m
      BY <1>2, Greatest
    <2>2. Below(S, m) = S \ {m}
      BY <2>1, BelowGreatest
    <2>3. Cardinality(Below(S, m)) = Cardinality(S) - 1
      BY <1>1, <2>2, FS_RemoveElement
    <2>4. QED
      BY <1>1, <2>3
  <1>4. PICK m \in T : \A i \in T : m <= i
    <2>1. T \in SUBSET Nat
      <3>1. \A i \in S : i \in Nat
        OBVIOUS
      <3>2. QED
        BY <3>1
    <2>2. QED
      BY <1>3, <2>1, Smallest
  <1>5. m \in S /\ Cardinality(Below(S, m)) \in Nat /\ IsFiniteSet(Below(S, m))
    BY BelowFinite
  <1>6. Cardinality(Below(S, m)) = k - 1
    <2>1. SUFFICES ASSUME Cardinality(Below(S, m)) > k - 1
                   PROVE  FALSE
      BY <1>5
    <2>2. Below(S, m) # {}
      BY <1>5, <2>1, FS_EmptySet
    <2>3. Below(S, m) \in SUBSET (1 .. n)
      BY DEF Below
    <2>4. PICK j \in Below(S, m) : \A i \in Below(S, m) : i <= j
      BY <2>2, <2>3, Greatest
    <2>5. Below(S, j) = Below(S, m) \ {j}
      <3>1. Below(Below(S, m), j) = Below(S, j)
        BY <1>5, <2>4, BelowBelow
      <3>2. QED
        BY <2>3, <2>4, <3>1, BelowGreatest
    <2>6. Cardinality(Below(S, j)) = Cardinality(Below(S, m)) - 1
      <3>1. j \in Below(S, m) /\ IsFiniteSet(Below(S, m))
        BY <1>5, <2>4
      <3>2. Cardinality(Below(S, m) \ {j}) = Cardinality(Below(S, m)) - 1
        BY <3>1, FS_RemoveElement
      <3>3. QED
        BY <2>5, <3>2
    <2>7. j \in T /\ j < m
      BY <1>5, <2>1, <2>4, <2>6 DEF Below
    <2>8. QED
      BY <1>4, <2>7
  <1>7. \E i \in S : Cardinality({j \in S : j < i}) = k - 1
    BY <1>5, <1>6 DEF Below
  <1>8. QED
    BY <1>7 DEF Nth, Below
\* Every position is the one of its number, and different numbers are of different ones.
LEMMA NthIsAll ==
    ASSUME NEW n \in Nat, NEW S \in SUBSET (1 .. n)
    PROVE  /\ \A i \in S : \E k \in 1 .. Cardinality(S) : Nth(S, k) = i
           /\ \A k, l \in 1 .. Cardinality(S) : Nth(S, k) = Nth(S, l) => k = l
  <1>1. Cardinality(S) \in Nat
    BY PositionsFinite
  <1>2. ASSUME NEW i \in S
        PROVE  \E k \in 1 .. Cardinality(S) : Nth(S, k) = i
    <2> DEFINE c == Cardinality(Below(S, i))
               k == c + 1
               m == Nth(S, k)
    <2>1. c \in Nat /\ c < Cardinality(S)
      BY BelowFinite
    <2> HIDE DEF c
    <2>2. k \in 1 .. Cardinality(S)
      BY <1>1, <2>1
    <2>3. m \in S /\ Cardinality(Below(S, m)) = k - 1
      BY <2>2, NthIsThere
    <2>4. Cardinality(Below(S, m)) = c
      BY <2>1, <2>3
    <2> HIDE DEF m
    <2>5. i \in Int /\ m \in Int
      <3>1. i \in 1 .. n /\ m \in 1 .. n
        BY <2>3
      <3>2. QED
        BY <3>1
    <2>6. ~ (i < m) /\ ~ (m < i)
      <3>1. i < m => c < c
        BY <2>3, <2>4, BelowGrows DEF c
      <3>2. m < i => c < c
        BY <2>3, <2>4, BelowGrows DEF c
      <3>3. QED
        BY <2>1, <3>1, <3>2
    <2>7. m = i
      BY <2>5, <2>6
    <2>8. QED
      BY <2>2, <2>7 DEF m
  <1>3. ASSUME NEW k \in 1 .. Cardinality(S), NEW l \in 1 .. Cardinality(S), Nth(S, k) = Nth(S, l)
        PROVE  k = l
    <2>1. k - 1 = l - 1
      BY <1>3, NthIsThere
    <2>2. QED
      BY <1>1, <2>1
  <1>4. QED
    BY <1>2, <1>3

-----------------------------------------------------------------------------
(* A queue without some of its tasks *)

Started(q) == {i \in DOMAIN q : q[i].started}

LEMMA WithoutIs ==
    ASSUME NEW n \in Nat, NEW q, DOMAIN q = 1 .. n, NEW S
    PROVE  LET still == DOMAIN q \ S
           IN  /\ still \in SUBSET (1 .. n)
               /\ Cardinality(still) \in 0 .. n
               /\ DOMAIN Without(q, S) = 1 .. Cardinality(still)
               /\ \A k \in 1 .. Cardinality(still) :
                     Nth(still, k) \in still /\ Without(q, S)[k] = q[Nth(still, k)]
  <1> DEFINE still == DOMAIN q \ S
  <1>1. still \in SUBSET (1 .. n)
    OBVIOUS
  <1>2. Cardinality(still) \in 0 .. n
    BY <1>1, PositionsFinite
  <1>3. \A k \in 1 .. Cardinality(still) : Nth(still, k) \in still
    BY <1>1, NthIsThere
  <1>4. Without(q, S) = [k \in 1 .. Cardinality(still) |-> q[Nth(still, k)]]
    BY DEF Without
  <1> HIDE DEF still
  <1>5. DOMAIN Without(q, S) = 1 .. Cardinality(still)
    BY <1>4
  <1>6. \A k \in 1 .. Cardinality(still) : Without(q, S)[k] = q[Nth(still, k)]
    BY <1>4
  <1>7. QED
    BY <1>1, <1>2, <1>3, <1>5, <1>6 DEF still

LEMMA WithoutType ==
    ASSUME NEW q \in Seq(Task), NEW S
    PROVE  Without(q, S) \in Seq(Task) /\ Len(Without(q, S)) <= Len(q)
  <1> DEFINE still == DOMAIN q \ S
             w == Without(q, S)
  <1>1. Len(q) \in Nat /\ DOMAIN q = 1 .. Len(q)
    OBVIOUS
  <1>2. /\ still \in SUBSET (1 .. Len(q))
        /\ Cardinality(still) \in 0 .. Len(q)
        /\ DOMAIN w = 1 .. Cardinality(still)
        /\ \A k \in 1 .. Cardinality(still) : Nth(still, k) \in still /\ w[k] = q[Nth(still, k)]
    BY <1>1, WithoutIs
  <1>3. w = [k \in 1 .. Cardinality(still) |-> q[Nth(still, k)]]
    BY DEF Without
  <1> HIDE DEF still, w
  <1>4. \A k \in 1 .. Cardinality(still) : q[Nth(still, k)] \in Task
    <2>1. \A i \in still : i \in 1 .. Len(q)
      BY <1>2
    <2>2. \A i \in 1 .. Len(q) : q[i] \in Task
      OBVIOUS
    <2>3. QED
      BY <1>2, <2>1, <2>2
  <1>5. w \in [1 .. Cardinality(still) -> Task]
    BY <1>3, <1>4
  <1>6. Cardinality(still) \in Nat /\ Cardinality(still) <= Len(q)
    BY <1>1, <1>2
  <1>7. w \in Seq(Task) /\ Len(w) = Cardinality(still)
    BY <1>5, <1>6
  <1>8. QED
    BY <1>6, <1>7 DEF w

\* Of the tasks that run, those that are not taken out go on.
LEMMA WithoutStarted ==
    ASSUME NEW n \in Nat, NEW q, DOMAIN q = 1 .. n, NEW S
    PROVE  /\ Cardinality(Started(Without(q, S))) <= Cardinality(Started(q) \ S)
           /\ Started(Without(q, S)) = {} <=> Started(q) \ S = {}
  <1> DEFINE still == DOMAIN q \ S
             w == Without(q, S)
             A == Started(w)
             B == Started(q) \ S
  <1>1. /\ still \in SUBSET (1 .. n)
        /\ Cardinality(still) \in 0 .. n
        /\ DOMAIN w = 1 .. Cardinality(still)
        /\ \A k \in 1 .. Cardinality(still) : Nth(still, k) \in still /\ w[k] = q[Nth(still, k)]
    BY WithoutIs
  <1>2. /\ \A i \in still : \E k \in 1 .. Cardinality(still) : Nth(still, k) = i
        /\ \A k, l \in 1 .. Cardinality(still) : Nth(still, k) = Nth(still, l) => k = l
    BY <1>1, NthIsAll
  <1>3. B = {i \in still : q[i].started}
    BY Zenon DEF Started
  <1>4. A = {k \in 1 .. Cardinality(still) : w[k].started}
    BY <1>1, Zenon DEF Started
  <1> HIDE DEF still, w, A, B
  <1> DEFINE f == [k \in A |-> Nth(still, k)]
  <1>5. \A k \in A : k \in 1 .. Cardinality(still) /\ f[k] \in B
    BY <1>1, <1>3, <1>4
  <1>6. \A k, l \in A : f[k] = f[l] => k = l
    BY <1>2, <1>5
  <1>7. f \in Injection(A, B)
    BY <1>5, <1>6 DEF Injection, IsInjective
  <1>8. IsFiniteSet(B)
    <2>1. B \in SUBSET (1 .. n)
      BY <1>1, <1>3
    <2>2. QED
      BY <2>1, PositionsFinite
  <1>9. Cardinality(A) <= Cardinality(B)
    BY <1>7, <1>8, FS_Injection
  <1>10. \A i \in B : \E k \in A : TRUE
    BY <1>1, <1>2, <1>3, <1>4
  <1>11. A = {} <=> B = {}
    BY <1>5, <1>10
  <1>12. QED
    BY <1>9, <1>11 DEF A, B, w
-----------------------------------------------------------------------------
(* The first of an order: R holds the pairs << i, j >>, i before j *)

Pred(S, R, i) == {j \in S : << j, i >> \in R}

Orders(R, S) ==
    /\ \A i \in S : << i, i >> \notin R
    /\ \A i, j, k \in S : << i, j >> \in R /\ << j, k >> \in R => << i, k >> \in R

Total(R, S) == \A i, j \in S : i = j \/ << i, j >> \in R \/ << j, i >> \in R

\* The first n.
Foremost(S, R, n) == {i \in S : Cardinality(Pred(S, R, i)) < n}

\* What comes before has fewer before it.
LEMMA PredGrows ==
    ASSUME NEW n \in Nat, NEW S \in SUBSET (1 .. n), NEW R, Orders(R, S),
           NEW i \in S, NEW j \in S, << i, j >> \in R
    PROVE  /\ Cardinality(Pred(S, R, i)) \in Nat /\ Cardinality(Pred(S, R, j)) \in Nat
           /\ Cardinality(Pred(S, R, i)) < Cardinality(Pred(S, R, j))
  <1> DEFINE A == Pred(S, R, i)
             B == Pred(S, R, j)
  <1>1. A \in SUBSET (1 .. n) /\ B \in SUBSET (1 .. n)
    BY DEF Pred
  <1>2. /\ IsFiniteSet(A) /\ Cardinality(A) \in Nat
        /\ IsFiniteSet(B) /\ Cardinality(B) \in Nat
    BY <1>1, PositionsFinite
  <1>3. A \in SUBSET B /\ i \in B /\ i \notin A
    BY Zenon DEF Orders, Pred
  <1> HIDE DEF A, B
  <1>4. Cardinality(A) <= Cardinality(B) /\ (Cardinality(B) = Cardinality(A) => B = A)
    BY <1>2, <1>3, FS_Subset
  <1>5. Cardinality(A) < Cardinality(B)
    BY <1>2, <1>3, <1>4
  <1>6. QED
    BY <1>2, <1>5 DEF A, B

\* The first n of a total order are n at most.
LEMMA FirstAreFew ==
    ASSUME NEW m \in Nat, NEW n \in Nat, NEW S \in SUBSET (1 .. m), NEW R,
           Orders(R, S), Total(R, S)
    PROVE  Cardinality(Foremost(S, R, n)) <= n
  <1> DEFINE F == {i \in S : Cardinality(Pred(S, R, i)) < n}
             N == 0 .. n - 1
             f == [i \in F |-> Cardinality(Pred(S, R, i))]
  <1>1. \A i \in F : i \in S /\ f[i] < n
    OBVIOUS
  <1>2. \A i \in S : Cardinality(Pred(S, R, i)) \in Nat
    <2>1. \A i \in S : Pred(S, R, i) \in SUBSET (1 .. m)
      BY DEF Pred
    <2>2. QED
      BY <2>1, PositionsFinite
  <1>3. \A i \in F : f[i] \in N
    BY <1>1, <1>2
  <1>4. \A i, j \in F : f[i] = f[j] => i = j
    <2>1. SUFFICES ASSUME NEW i \in F, NEW j \in F, f[i] = f[j], i # j
                   PROVE  FALSE
      OBVIOUS
    <2>2. Cardinality(Pred(S, R, i)) = Cardinality(Pred(S, R, j)) /\ i \in S /\ j \in S
      BY <2>1
    <2>3. << i, j >> \in R \/ << j, i >> \in R
      BY <2>1, <2>2 DEF Total
    <2>4. ASSUME << i, j >> \in R PROVE FALSE
      <3>1. j \in S /\ i \in S
        BY <2>2
      <3>2. Cardinality(Pred(S, R, i)) < Cardinality(Pred(S, R, j))
        BY <2>4, <3>1, PredGrows
      <3>3. QED
        BY <1>2, <2>2, <3>2
    <2>5. ASSUME << j, i >> \in R PROVE FALSE
      <3>1. j \in S /\ i \in S
        BY <2>2
      <3>2. Cardinality(Pred(S, R, j)) < Cardinality(Pred(S, R, i))
        BY <2>5, <3>1, PredGrows
      <3>3. QED
        BY <1>2, <2>2, <3>2
    <2>6. QED
      BY <2>3, <2>4, <2>5
  <1>5. IsFiniteSet(N) /\ Cardinality(N) = n
    BY FS_Interval
  <1> HIDE DEF F, N
  <1>6. f \in Injection(F, N)
    BY <1>3, <1>4 DEF Injection, IsInjective
  <1>7. Cardinality(F) <= n
    BY <1>5, <1>6, FS_Injection
  <1>8. QED
    BY <1>7 DEF F, Foremost

LEMMA RankType == \A kind : Rank(kind) \in 0 .. 5
  BY DEF Rank

-----------------------------------------------------------------------------
(* The order of the keys, and that of a batch *)

LeadingOf(q, S, k) == CHOOSE f \in SameAs(q, S, k) : \A g \in SameAs(q, S, k) : f <= g
PlaceOf(q, S, k) == IF Coalescable(q[k]) THEN Len(q) + LeadingOf(q, S, k) ELSE k

LEMMA RunsBeforeIs ==
    ASSUME NEW q, NEW S, NEW i, NEW j
    PROVE  RunsBefore(q, S, i, j) <=>
              \/ Rank(q[i].kind) < Rank(q[j].kind)
              \/ Rank(q[i].kind) = Rank(q[j].kind) /\ PlaceOf(q, S, i) < PlaceOf(q, S, j)
  BY DEF RunsBefore, PlaceOf, LeadingOf

LEMMA LeadingIs ==
    ASSUME NEW q \in Seq(Task), NEW S \in SUBSET (1 .. Len(q)), NEW k \in S
    PROVE  LeadingOf(q, S, k) \in SameAs(q, S, k) /\ LeadingOf(q, S, k) \in 1 .. Len(q)
  <1>1. SameAs(q, S, k) \in SUBSET (1 .. Len(q)) /\ k \in SameAs(q, S, k)
    BY DEF SameAs
  <1>2. SameAs(q, S, k) \in SUBSET Nat
    <2>1. \A i \in 1 .. Len(q) : i \in Nat
      OBVIOUS
    <2>2. QED
      BY <1>1, <2>1
  <1>3. \E f \in SameAs(q, S, k) : \A g \in SameAs(q, S, k) : f <= g
    BY <1>1, <1>2, Smallest
  <1>4. LeadingOf(q, S, k) \in SameAs(q, S, k)
    BY <1>3, Zenon DEF LeadingOf
  <1>5. QED
    BY <1>1, <1>4

LEMMA PlaceType ==
    ASSUME NEW q \in Seq(Task), NEW S \in SUBSET (1 .. Len(q)), NEW k \in S
    PROVE  PlaceOf(q, S, k) \in Nat
  <1>1. LeadingOf(q, S, k) \in 1 .. Len(q) /\ k \in 1 .. Len(q) /\ Len(q) \in Nat
    BY LeadingIs
  <1>2. QED
    BY <1>1 DEF PlaceOf

\* No two tasks of a batch have one place.
LEMMA PlacesDiffer ==
    ASSUME NEW q \in Seq(Task), NEW S \in SUBSET (1 .. Len(q)),
           NEW i \in S \ Redundant(q, S), NEW j \in S \ Redundant(q, S),
           PlaceOf(q, S, i) = PlaceOf(q, S, j)
    PROVE  i = j
  <1>1. /\ i \in 1 .. Len(q) /\ j \in 1 .. Len(q) /\ Len(q) \in Nat
        /\ LeadingOf(q, S, i) \in SameAs(q, S, i) /\ LeadingOf(q, S, i) \in 1 .. Len(q)
        /\ LeadingOf(q, S, j) \in SameAs(q, S, j) /\ LeadingOf(q, S, j) \in 1 .. Len(q)
    BY LeadingIs
  <1>2. CASE Coalescable(q[i]) /\ Coalescable(q[j])
    <2>1. LeadingOf(q, S, i) = LeadingOf(q, S, j)
      BY <1>1, <1>2 DEF PlaceOf
    <2>2. q[i].kind = q[j].kind /\ q[i].peer = q[j].peer
      BY <1>1, <2>1, Zenon DEF SameAs
    <2>3. i \in SameAs(q, S, j) /\ j \in SameAs(q, S, i)
      BY <1>2, <2>2, Zenon DEF SameAs
    <2>4. ~ (i < j) /\ ~ (j < i)
      BY <2>3, Zenon DEF Redundant
    <2>5. QED
      BY <1>1, <2>4
  <1>3. CASE ~ Coalescable(q[i]) \/ ~ Coalescable(q[j])
    BY <1>1, <1>3 DEF PlaceOf
  <1>4. QED
    BY <1>2, <1>3
KeyOrder(q, S) == {p \in S \X S : KeyBefore(q, p[1], p[2])}
RunOrder(q, S) == {p \in S \X S : RunsBefore(q, S, p[1], p[2])}

LEMMA KeyOrderIs ==
    ASSUME NEW q \in Seq(Task)
    PROVE  /\ Orders(KeyOrder(q, DOMAIN q), DOMAIN q)
           /\ Window(q) = Foremost(DOMAIN q, KeyOrder(q, DOMAIN q), ScanLimit)
  <1>1. ASSUME NEW i \in DOMAIN q, NEW j \in DOMAIN q
        PROVE  << i, j >> \in KeyOrder(q, DOMAIN q) <=> KeyBefore(q, i, j)
    <2>1. \A S : \A k, l \in S : << k, l >> \in KeyOrder(q, S) <=> KeyBefore(q, k, l)
      BY DEF KeyOrder
    <2>2. QED
      BY <2>1
  <1>2. \A i, j \in DOMAIN q :
           KeyBefore(q, i, j) <=> \/ Rank(q[i].kind) < Rank(q[j].kind)
                                  \/ (Rank(q[i].kind) = Rank(q[j].kind) /\ i < j)
    BY DEF KeyBefore
  <1>3. \A i \in DOMAIN q : i \in Nat /\ Rank(q[i].kind) \in Nat
    BY RankType
  <1> DEFINE D == DOMAIN q
             r(i) == Rank(q[i].kind)
  <1>4. \A i \in D : << i, i >> \notin KeyOrder(q, DOMAIN q)
    BY <1>1, <1>2, <1>3
  <1>5. ASSUME NEW i \in D, NEW j \in D, NEW k \in D,
               << i, j >> \in KeyOrder(q, DOMAIN q), << j, k >> \in KeyOrder(q, DOMAIN q)
        PROVE  << i, k >> \in KeyOrder(q, DOMAIN q)
    BY <1>1, <1>2, <1>3, <1>5
  <1>6. Orders(KeyOrder(q, DOMAIN q), DOMAIN q)
    BY <1>4, <1>5, Zenon DEF Orders
  <1>7. \A i \in DOMAIN q : Pred(DOMAIN q, KeyOrder(q, DOMAIN q), i) = {j \in DOMAIN q : KeyBefore(q, j, i)}
    BY <1>1, Zenon DEF Pred
  <1>8. Window(q) = {i \in DOMAIN q : Cardinality({j \in DOMAIN q : KeyBefore(q, j, i)}) < ScanLimit}
    BY DEF Window, FirstOf
  <1>9. QED
    BY <1>6, <1>7, <1>8 DEF Foremost

\* What an alarm may run.
Candidates(q) == Live(q) \ Redundant(q, Live(q))

LEMMA WindowIn ==
    ASSUME NEW q \in Seq(Task)
    PROVE  /\ Window(q) \in SUBSET (1 .. Len(q)) /\ Live(q) \in SUBSET Window(q)
           /\ Candidates(q) \in SUBSET (1 .. Len(q))
  <1>1. DOMAIN q = 1 .. Len(q)
    OBVIOUS
  <1>2. Window(q) \in SUBSET (1 .. Len(q))
    BY <1>1, KeyOrderIs DEF Foremost
  <1>3. Live(q) \in SUBSET Window(q)
    BY DEF Live
  <1>4. QED
    BY <1>2, <1>3 DEF Candidates

LEMMA RunOrderIs ==
    ASSUME NEW q \in Seq(Task)
    PROVE  LET R == RunOrder(q, Live(q))
           IN  /\ Orders(R, Candidates(q))
               /\ Total(R, Candidates(q))
               /\ \A i, j \in Candidates(q) :
                     Rank(q[i].kind) < Rank(q[j].kind) => << i, j >> \in R
               /\ Batch(q) = Foremost(Candidates(q), R, MaxBatch)
  <1> DEFINE S == Live(q)
             C == Candidates(q)
             R == RunOrder(q, S)
             r(i) == Rank(q[i].kind)
             p(i) == PlaceOf(q, S, i)
  <1>1. S \in SUBSET (1 .. Len(q)) /\ C \in SUBSET S
    BY WindowIn DEF Candidates
  <1>2. \A i, j \in C : << i, j >> \in R <=> RunsBefore(q, S, i, j)
    BY <1>1 DEF RunOrder
  <1>3. \A i, j \in C : << i, j >> \in R <=> (r(i) < r(j) \/ (r(i) = r(j) /\ p(i) < p(j)))
    BY <1>2, RunsBeforeIs
  <1>4. \A i \in C : r(i) \in Nat /\ p(i) \in Nat
    BY <1>1, RankType, PlaceType
  <1>5. \A i, j \in C : p(i) = p(j) => i = j
    BY <1>1, PlacesDiffer DEF Candidates
  <1>6. Batch(q) = {i \in C : Cardinality({j \in C : RunsBefore(q, S, j, i)}) < MaxBatch}
    BY DEF Batch, FirstOf, Candidates
  <1> HIDE DEF S, C, R, r, p
  <1>7. \A i \in C : Pred(C, R, i) = {j \in C : RunsBefore(q, S, j, i)}
    BY <1>2, Zenon DEF Pred
  <1>8. Batch(q) = Foremost(C, R, MaxBatch)
    BY <1>6, <1>7 DEF Foremost
  <1>9. \A i \in C : << i, i >> \notin R
    BY <1>3, <1>4
  <1>10. ASSUME NEW i \in C, NEW j \in C, NEW k \in C, << i, j >> \in R, << j, k >> \in R
         PROVE  << i, k >> \in R
    BY <1>3, <1>4, <1>10
  <1>11. Orders(R, C)
    BY <1>9, <1>10, Zenon DEF Orders
  <1>12. ASSUME NEW i \in C, NEW j \in C, i # j
         PROVE  << i, j >> \in R \/ << j, i >> \in R
    <2>1. p(i) # p(j)
      BY <1>5, <1>12
    <2>2. p(i) \in Nat /\ p(j) \in Nat /\ r(i) \in Nat /\ r(j) \in Nat
      BY <1>4
    <2>3. r(i) < r(j) \/ r(j) < r(i) \/ (r(i) = r(j) /\ (p(i) < p(j) \/ p(j) < p(i)))
      BY <2>1, <2>2
    <2>4. QED
      BY <1>3, <2>3
  <1>13. \A i, j \in C : r(i) < r(j) => << i, j >> \in R
    BY <1>3
  <1>14. Total(R, C)
    BY <1>12, Zenon DEF Total
  <1>15. QED
    BY <1>8, <1>11, <1>13, <1>14 DEF S, C, R, r

LEMMA BatchIs ==
    ASSUME NEW q \in Seq(Task)
    PROVE  /\ Batch(q) \in SUBSET (DOMAIN q \ Discarded(q))
           /\ Cardinality(Batch(q)) <= MaxBatch
  <1>1. Batch(q) \in SUBSET Candidates(q)
    BY RunOrderIs DEF Foremost
  <1>2. Candidates(q) \in SUBSET (DOMAIN q \ Discarded(q))
    <2>1. DOMAIN q = 1 .. Len(q)
      OBVIOUS
    <2>2. QED
      BY <2>1, WindowIn DEF Candidates, Discarded
  <1>3. Cardinality(Batch(q)) <= MaxBatch
    <2> DEFINE C == Candidates(q)
               R == RunOrder(q, Live(q))
    <2>1. Len(q) \in Nat /\ MaxBatch \in Nat
      OBVIOUS
    <2>2. C \in SUBSET (1 .. Len(q))
      BY WindowIn
    <2>3. Orders(R, C) /\ Total(R, C) /\ Batch(q) = Foremost(C, R, MaxBatch)
      BY RunOrderIs
    <2> HIDE DEF C, R
    <2>4. QED
      BY <2>1, <2>2, <2>3, FirstAreFew
  <1>4. QED
    BY <1>1, <1>2, <1>3
-----------------------------------------------------------------------------
(* The queue is sound *)

\* The soundness of queue q with alarm a, d when it is drained.
AlarmType == [at : {"none", "later", "now"}, overdue : 0 .. StuckAfter + 1, stuck : BOOLEAN]

Sound(q, a, d) ==
    /\ q \in Seq(Task) /\ Len(q) <= MaxQueue
    /\ a \in AlarmType
    /\ d = (Started(q) # {})
    /\ Cardinality(Started(q)) <= MaxBatch
    /\ q # << >> => a.at # "none" \/ d

LEMMA SomeStarted == \A q : (\E i \in DOMAIN q : q[i].started) = (Started(q) # {})
  BY DEF Started

LEMMA SoundIs ==
    /\ QueueIsSound <=> Sound(queue, alarm, draining)
    /\ QueueIsSound' <=> Sound(queue', alarm', draining')
  <1>1. \A q : (\E i \in DOMAIN q : q[i].started) = (Started(q) # {})
    BY SomeStarted
  <1>2. \A q : {i \in DOMAIN q : q[i].started} = Started(q)
    BY DEF Started
  <1>3. TypeOK <=> /\ queue \in Seq(Task) /\ Len(queue) <= MaxQueue /\ alarm \in AlarmType
                   /\ draining = (Started(queue) # {})
    BY <1>1, Zenon DEF TypeOK, AlarmType
  <1>4. TypeOK' <=> /\ queue' \in Seq(Task) /\ Len(queue') <= MaxQueue /\ alarm' \in AlarmType
                    /\ draining' = (Started(queue') # {})
    BY <1>1, Zenon DEF TypeOK, AlarmType
  <1>5. QueueIsSound <=> Sound(queue, alarm, draining)
    BY <1>2, <1>3, Zenon DEF QueueIsSound, OneBatchAtATime, NoStrandedTask, Sound
  <1>6. QueueIsSound' <=> Sound(queue', alarm', draining')
    BY <1>2, <1>4, Zenon DEF QueueIsSound, OneBatchAtATime, NoStrandedTask, Sound
  <1>7. QED
    BY <1>5, <1>6

LEMMA TaskIs ==
    ASSUME NEW t \in Task
    PROVE  /\ t.started \in BOOLEAN /\ t.age \in 0 .. MaxAge
           /\ \A b \in BOOLEAN : [t EXCEPT !.started = b] \in Task /\ [t EXCEPT !.started = b].started = b
           /\ \A n \in 0 .. MaxAge : [t EXCEPT !.age = n] \in Task
                                     /\ [t EXCEPT !.age = n].started = t.started
  BY DEF Task

LEMMA AlarmIs ==
    /\ Unset \in AlarmType
    /\ Due \in AlarmType /\ Due.at = "now"
    /\ Backoff \in AlarmType /\ Backoff.at = "later"
    /\ \A a \in AlarmType :
          /\ a.overdue \in 0 .. StuckAfter + 1
          /\ [a EXCEPT !.stuck = TRUE] \in AlarmType /\ [a EXCEPT !.stuck = TRUE].at = a.at
          /\ \A n \in 0 .. StuckAfter + 1 :
                [a EXCEPT !.overdue = n] \in AlarmType /\ [a EXCEPT !.overdue = n].at = a.at
  <1>1. 0 \in 0 .. StuckAfter + 1
    BY StuckAfter \in Nat
  <1> DEFINE overdues == 0 .. StuckAfter + 1
  <1>2. AlarmType = [at : {"none", "later", "now"}, overdue : overdues, stuck : BOOLEAN]
    BY DEF AlarmType
  <1> HIDE DEF overdues
  <1>3. 0 \in overdues
    BY <1>1 DEF overdues
  <1>4. /\ Unset \in AlarmType
        /\ Due \in AlarmType /\ Due.at = "now"
        /\ Backoff \in AlarmType /\ Backoff.at = "later"
    BY <1>2, <1>3 DEF Unset, Due, Backoff
  <1>5. ASSUME NEW a \in AlarmType
        PROVE  /\ a.overdue \in overdues
               /\ [a EXCEPT !.stuck = TRUE] \in AlarmType /\ [a EXCEPT !.stuck = TRUE].at = a.at
               /\ \A n \in overdues :
                     [a EXCEPT !.overdue = n] \in AlarmType /\ [a EXCEPT !.overdue = n].at = a.at
    BY <1>2, <1>5
  <1>6. QED
    BY <1>4, <1>5 DEF overdues

LEMMA InitSound == Init => QueueIsSound
  <1> SUFFICES ASSUME Init PROVE QueueIsSound
    OBVIOUS
  <1>1. queue = << >> /\ DOMAIN queue = {} /\ Len(queue) = 0 /\ queue \in Seq(Task)
    BY DEF Init
  <1>2. Started(queue) = {}
    BY <1>1 DEF Started
  <1>3. alarm \in AlarmType
    BY StuckAfter \in Nat DEF Init, Unset, AlarmType
  <1>4. Cardinality(Started(queue)) = 0
    BY <1>2, FS_EmptySet
  <1>5. draining = (Started(queue) # {})
    BY <1>2 DEF Init
  <1>6. Sound(queue, alarm, draining)
    BY <1>1, <1>3, <1>4, <1>5 DEF Sound
  <1>7. QED
    BY <1>6, SoundIs

LEMMA DeferWorkSound ==
    ASSUME QueueIsSound, NEW kind \in Kinds, NEW p \in Peers, DeferWork(kind, p)
    PROVE  QueueIsSound'
  <1> DEFINE t == [kind |-> kind, peer |-> p, age |-> 0, started |-> FALSE]
  <1>1. Sound(queue, alarm, draining)
    BY SoundIs
  <1>2. alarm' \in AlarmType /\ alarm'.at # "none"
    BY <1>1, StuckAfter \in Nat DEF DeferWork, Rearmed, Due, AlarmType, Sound
  <1>3. CASE Len(queue) < MaxQueue
    <2>1. t \in Task /\ ~ t.started
      BY Budget \in Nat DEF Task, MaxAge
    <2>2. queue' = Append(queue, t)
      BY <1>3 DEF DeferWork
    <2> HIDE DEF t
    <2>3. queue' \in Seq(Task) /\ Len(queue') <= MaxQueue
      BY <1>1, <1>3, <2>1, <2>2 DEF Sound
    <2>4. Started(queue') = Started(queue)
      <3>1. /\ DOMAIN queue = 1 .. Len(queue) /\ Len(queue) \in Nat
            /\ DOMAIN queue' = 1 .. Len(queue) + 1
            /\ \A i \in 1 .. Len(queue) : queue'[i] = queue[i]
            /\ queue'[Len(queue) + 1] = t
        BY <1>1, <2>1, <2>2 DEF Sound
      <3>2. \A i : i \in DOMAIN queue' /\ queue'[i].started <=> i \in DOMAIN queue /\ queue[i].started
        BY <2>1, <3>1
      <3>3. QED
        BY <3>2, Zenon DEF Started
    <2>5. QED
      BY <1>1, <1>2, <2>3, <2>4, SoundIs DEF Sound, DeferWork
  <1>4. CASE ~ (Len(queue) < MaxQueue)
    BY <1>1, <1>2, <1>4, SoundIs DEF Sound, DeferWork
  <1>5. QED
    BY <1>3, <1>4
LEMMA DrainSound ==
    ASSUME QueueIsSound, Drain
    PROVE  QueueIsSound'
  <1> DEFINE batch == Batch(queue)
             gone == Discarded(queue)
             q == [i \in DOMAIN queue |-> [queue[i] EXCEPT !.started = @ \/ i \in batch]]
  <1>1. Sound(queue, alarm, draining)
    BY SoundIs
  <1>2. /\ ~ draining
        /\ queue' = Without(q, gone)
        /\ draining' = (batch # {})
        /\ alarm' = IF batch = {} /\ queue' # << >> THEN Due ELSE Unset
    BY DEF Drain
  <1>3. queue \in Seq(Task) /\ DOMAIN queue = 1 .. Len(queue) /\ Len(queue) \in Nat
    BY <1>1 DEF Sound
  <1>4. \A i \in DOMAIN queue : queue[i] \in Task /\ ~ queue[i].started
    <2>1. Started(queue) = {}
      BY <1>1, <1>2 DEF Sound
    <2>2. QED
      BY <1>3, <2>1 DEF Started
  <1>5. batch \in SUBSET (DOMAIN queue \ gone) /\ Cardinality(batch) <= MaxBatch
    BY <1>3, BatchIs
  <1> HIDE DEF batch, gone
  <1>6. /\ DOMAIN q = 1 .. Len(queue)
        /\ \A i \in DOMAIN queue : q[i] \in Task /\ (q[i].started <=> i \in batch)
    <2>1. ASSUME NEW i \in DOMAIN queue
          PROVE  q[i] \in Task /\ (q[i].started <=> i \in batch)
      <3> DEFINE b == queue[i].started \/ i \in batch
      <3>1. b \in BOOLEAN /\ (b <=> i \in batch)
        BY <1>4
      <3>2. q[i] = [queue[i] EXCEPT !.started = b]
        OBVIOUS
      <3> HIDE DEF b, q
      <3>3. q[i] \in Task /\ q[i].started = b
        BY <1>4, <3>1, <3>2, TaskIs
      <3>4. QED
        BY <3>1, <3>3
    <2>2. QED
      BY <1>3, <2>1
  <1> HIDE DEF q
  <1>7. q \in Seq(Task) /\ Len(q) = Len(queue)
    <2>1. q \in [1 .. Len(queue) -> Task]
      <3>1. q = [i \in 1 .. Len(queue) |-> q[i]]
        BY <1>3 DEF q
      <3>2. QED
        BY <1>3, <1>6, <3>1
    <2>2. QED
      BY <1>3, <2>1
  <1>8. queue' \in Seq(Task) /\ Len(queue') <= MaxQueue
    <2>1. Without(q, gone) \in Seq(Task) /\ Len(Without(q, gone)) <= Len(q)
      BY <1>7, WithoutType
    <2>2. QED
      BY <1>1, <1>2, <1>7, <2>1 DEF Sound
  <1>9. Started(q) \ gone = batch
    BY <1>3, <1>5, <1>6 DEF Started
  <1>10. /\ Cardinality(Started(queue')) <= Cardinality(batch)
         /\ Started(queue') = {} <=> batch = {}
    BY <1>2, <1>3, <1>6, <1>9, WithoutStarted
  <1>11. Cardinality(Started(queue')) <= MaxBatch
    <2>1. Started(queue') \in SUBSET (1 .. Len(queue'))
      BY <1>8 DEF Started
    <2>2. Cardinality(Started(queue')) \in Nat /\ Cardinality(batch) \in Nat
      BY <1>3, <1>5, <1>8, <2>1, PositionsFinite
    <2>3. QED
      BY <1>5, <1>10, <2>2
  <1>12. alarm' \in AlarmType
    BY <1>2, StuckAfter \in Nat DEF Due, Unset, AlarmType
  <1>13. queue' # << >> => alarm'.at # "none" \/ draining'
    BY <1>2 DEF Due
  <1>14. QED
    BY <1>2, <1>8, <1>10, <1>11, <1>12, <1>13, SoundIs DEF Sound

LEMMA TaskOverSound ==
    ASSUME QueueIsSound, NEW i \in 1 .. MaxQueue, TaskOver(i)
    PROVE  QueueIsSound'
  <1>1. Sound(queue, alarm, draining)
    BY SoundIs
  <1>2. queue' = Without(queue, {i})
    BY DEF TaskOver
  <1>3. queue \in Seq(Task) /\ DOMAIN queue = 1 .. Len(queue) /\ Len(queue) \in Nat
    BY <1>1 DEF Sound
  <1>4. queue' \in Seq(Task) /\ Len(queue') <= Len(queue) /\ Len(queue') \in Nat
    BY <1>2, <1>3, WithoutType
  <1>5. Cardinality(Started(queue')) <= Cardinality(Started(queue) \ {i})
    BY <1>2, <1>3, WithoutStarted
  <1>6. Cardinality(Started(queue')) <= MaxBatch
    <2>1. /\ Started(queue) \in SUBSET (1 .. Len(queue))
          /\ Started(queue') \in SUBSET (1 .. Len(queue'))
      BY <1>3, <1>4 DEF Started
    <2>2. IsFiniteSet(Started(queue)) /\ Cardinality(Started(queue)) \in Nat
      BY <1>3, <2>1, PositionsFinite
    <2>3. Cardinality(Started(queue')) \in Nat
      BY <1>4, <2>1, PositionsFinite
    <2>4. /\ Cardinality(Started(queue) \ {i}) <= Cardinality(Started(queue))
          /\ Cardinality(Started(queue) \ {i}) \in Nat
      BY <2>2, FS_Subset, FS_CardinalityType
    <2>5. QED
      BY <1>1, <1>5, <2>2, <2>3, <2>4 DEF Sound
  <1>7. draining' = (Started(queue') # {})
    BY SomeStarted, Zenon DEF TaskOver
  <1>8. alarm' \in AlarmType /\ (queue' # << >> => alarm'.at # "none" \/ draining')
    <2>1. alarm' = IF ~ draining' /\ queue' # << >> THEN Due ELSE alarm
      BY DEF TaskOver
    <2>2. \E j \in DOMAIN queue : queue[j].started
      BY DEF TaskOver
    <2>3. QED
      BY <1>1, <2>1, AlarmIs DEF Sound
  <1>9. Len(queue') <= MaxQueue
    BY <1>1, <1>3, <1>4 DEF Sound
  <1>10. QED
    BY <1>4, <1>6, <1>7, <1>8, <1>9, SoundIs DEF Sound

\* The tasks of a queue that are changed in place stay tasks.
LEMMA InPlaceType ==
    ASSUME NEW q \in Seq(Task), NEW r, DOMAIN r = DOMAIN q, r = [i \in DOMAIN q |-> r[i]],
           \A i \in DOMAIN q : r[i] \in Task
    PROVE  r \in Seq(Task) /\ Len(r) = Len(q)
  <1>1. DOMAIN q = 1 .. Len(q) /\ Len(q) \in Nat
    OBVIOUS
  <1>2. r \in [1 .. Len(q) -> Task]
    BY <1>1
  <1>3. QED
    BY <1>1, <1>2

LEMMA TickSound ==
    ASSUME QueueIsSound, Tick
    PROVE  QueueIsSound'
  <1>1. Sound(queue, alarm, draining)
    BY SoundIs
  <1>2. queue \in Seq(Task) /\ DOMAIN queue = 1 .. Len(queue) /\ Len(queue) \in Nat
    BY <1>1 DEF Sound
  <1>3. queue' = [i \in DOMAIN queue |-> [queue[i] EXCEPT !.age = Older(@, MaxAge)]]
    BY DEF Tick
  <1>4. ASSUME NEW i \in DOMAIN queue
        PROVE  queue'[i] \in Task /\ queue'[i].started = queue[i].started
    <2> DEFINE a == Older(queue[i].age, MaxAge)
    <2>1. queue[i] \in Task
      BY <1>2
    <2>2. a \in 0 .. MaxAge
      BY <2>1, TaskIs, Budget \in Nat DEF Older, MaxAge
    <2>3. queue'[i] = [queue[i] EXCEPT !.age = a]
      BY <1>3
    <2> HIDE DEF a
    <2>4. QED
      BY <2>1, <2>2, <2>3, TaskIs
  <1>5. DOMAIN queue' = DOMAIN queue /\ queue' = [i \in DOMAIN queue |-> queue'[i]]
    BY <1>3
  <1>6. queue' \in Seq(Task) /\ Len(queue') = Len(queue)
    BY <1>2, <1>4, <1>5, InPlaceType
  <1>7. Started(queue') = Started(queue)
    BY <1>4, <1>5, Zenon DEF Started
  <1>8. alarm' \in AlarmType /\ alarm'.at = alarm.at
    <2> DEFINE n == Older(alarm.overdue, StuckAfter + 1)
    <2>1. alarm \in AlarmType /\ n \in 0 .. StuckAfter + 1
      <3>1. alarm \in AlarmType
        BY <1>1 DEF Sound
      <3>2. alarm.overdue \in 0 .. StuckAfter + 1
        BY <3>1, AlarmIs
      <3>3. \A k \in 0 .. StuckAfter + 1 : Older(k, StuckAfter + 1) \in 0 .. StuckAfter + 1
        BY StuckAfter \in Nat DEF Older
      <3>4. QED
        BY <3>1, <3>2, <3>3
    <2>2. alarm' = IF alarm.at = "now" THEN [alarm EXCEPT !.overdue = n] ELSE alarm
      BY DEF Tick
    <2> HIDE DEF n
    <2>3. QED
      BY <2>1, <2>2, AlarmIs
  <1>9. queue' # << >> => queue # << >>
    BY <1>2, <1>6
  <1>10. QED
    BY <1>1, <1>6, <1>7, <1>8, <1>9, SoundIs DEF Sound, Tick

LEMMA RestartSound ==
    ASSUME QueueIsSound, Restart
    PROVE  QueueIsSound'
  <1>1. Sound(queue, alarm, draining)
    BY SoundIs
  <1>2. queue \in Seq(Task) /\ DOMAIN queue = 1 .. Len(queue) /\ Len(queue) \in Nat
    BY <1>1 DEF Sound
  <1>3. queue' = [i \in DOMAIN queue |-> [queue[i] EXCEPT !.started = FALSE]]
    BY DEF Restart
  <1>4. ASSUME NEW i \in DOMAIN queue
        PROVE  queue'[i] \in Task /\ ~ queue'[i].started
    <2>1. queue[i] \in Task /\ queue'[i] = [queue[i] EXCEPT !.started = FALSE]
      BY <1>2, <1>3
    <2>2. \A t \in Task :
             [t EXCEPT !.started = FALSE] \in Task /\ ~ [t EXCEPT !.started = FALSE].started
      BY DEF Task
    <2>3. QED
      BY <2>1, <2>2
  <1>5. DOMAIN queue' = DOMAIN queue /\ queue' = [i \in DOMAIN queue |-> queue'[i]]
    BY <1>3
  <1>6. queue' \in Seq(Task) /\ Len(queue') = Len(queue)
    BY <1>2, <1>4, <1>5, InPlaceType
  <1>7. Started(queue') = {} /\ Cardinality(Started(queue')) = 0
    BY <1>4, <1>5, FS_EmptySet DEF Started
  <1>8. alarm' \in AlarmType /\ (queue # << >> => alarm'.at # "none")
    <2>1. alarm' = IF queue # << >> /\ alarm.at = "none" THEN Due ELSE alarm
      BY DEF Restart
    <2>2. QED
      BY <1>1, <2>1, AlarmIs DEF Sound
  <1>9. queue' # << >> => queue # << >>
    BY <1>2, <1>6
  <1>10. QED
    <2>1. draining' = FALSE /\ (Started(queue') # {}) = FALSE
      BY <1>7 DEF Restart
    <2>2. draining' = (Started(queue') # {})
      BY <2>1
    <2>3. Cardinality(Started(queue')) <= MaxBatch
      BY <1>7
    <2>4. Sound(queue', alarm', draining')
      BY <1>1, <1>6, <1>8, <1>9, <2>2, <2>3 DEF Sound
    <2>5. QED
      BY <2>4, SoundIs

\* What the platform does to the alarm leaves one that is set.
LEMMA PlatformSound ==
    ASSUME QueueIsSound, AlarmFails \/ BackoffOver \/ AlarmSticks \/ UNCHANGED vars
    PROVE  QueueIsSound'
  <1>1. Sound(queue, alarm, draining)
    BY SoundIs
  <1>2. queue' = queue /\ draining' = draining
    BY DEF AlarmFails, BackoffOver, AlarmSticks, vars
  <1>3. alarm' \in AlarmType /\ (alarm.at # "none" => alarm'.at # "none")
    BY <1>1, AlarmIs DEF Sound, AlarmFails, BackoffOver, AlarmSticks, vars
  <1>4. QED
    BY <1>1, <1>2, <1>3, SoundIs DEF Sound

LEMMA NextSound ==
    ASSUME QueueIsSound, [Next]_vars
    PROVE  QueueIsSound'
  <1>1. CASE \E kind \in Kinds, p \in Peers : DeferWork(kind, p)
    BY <1>1, DeferWorkSound
  <1>2. CASE Drain
    BY <1>2, DrainSound
  <1>3. CASE \E i \in 1 .. MaxQueue : TaskOver(i)
    BY <1>3, TaskOverSound
  <1>4. CASE AlarmFails \/ BackoffOver \/ AlarmSticks \/ UNCHANGED vars
    BY <1>4, PlatformSound
  <1>5. CASE Tick
    BY <1>5, TickSound
  <1>6. CASE Restart
    BY <1>6, RestartSound
  <1>7. QED
    BY <1>1, <1>2, <1>3, <1>4, <1>5, <1>6 DEF Next

\* The queue of deferred work stays sound: its tasks keep their types, one batch
\* runs at a time, and no task is left without an alarm, whatever arrives, fails,
\* sticks or restarts (deferWork, drainDeferredTasks).
THEOREM DeferredWorkStaysSound == Spec => []QueueIsSound
  <1>1. Init => QueueIsSound
    BY InitSound
  <1>2. QueueIsSound /\ [Next]_vars => QueueIsSound'
    BY NextSound
  <1>3. QED
    BY <1>1, <1>2, PTL DEF Spec
-----------------------------------------------------------------------------
(* The urgent go first *)

LEMMA UrgentIsRun ==
    ASSUME NEW q \in Seq(Task), NEW i \in Batch(q),
           NEW j \in DOMAIN q \ (Batch(q) \cup Discarded(q))
    PROVE  Rank(q[i].kind) <= Rank(q[j].kind)
  <1> DEFINE W == Window(q)
             C == Candidates(q)
             R == RunOrder(q, Live(q))
             D == DOMAIN q
             K == KeyOrder(q, D)
             n == Len(q)
  <1>1. /\ Rank(q[i].kind) \in Nat /\ Rank(q[j].kind) \in Nat
        /\ n \in Nat /\ D = 1 .. n /\ ScanLimit \in Nat /\ MaxBatch \in Nat
    BY RankType
  <1>2. /\ D \in SUBSET (1 .. n) /\ C \in SUBSET (1 .. n)
        /\ W \in SUBSET D /\ C \in SUBSET W /\ Batch(q) \in SUBSET C
    <2>1. D \in SUBSET (1 .. n) /\ C \in SUBSET (1 .. n) /\ W \in SUBSET (1 .. n)
      BY WindowIn
    <2>2. C \in SUBSET W
      BY WindowIn DEF Candidates
    <2>3. Batch(q) \in SUBSET C
      BY RunOrderIs DEF Foremost
    <2>4. QED
      BY <1>1, <2>1, <2>2, <2>3
  <1>3. i \in D /\ j \in D /\ i \in W /\ i \in C
    BY <1>2
  <1>4. SUFFICES ASSUME Rank(q[j].kind) < Rank(q[i].kind) PROVE FALSE
    BY <1>1
  <1>5. CASE j \notin W
    <2>1. Orders(K, D) /\ W = Foremost(D, K, ScanLimit)
      BY KeyOrderIs
    <2>2. << j, i >> \in K
      <3>1. KeyBefore(q, j, i)
        BY <1>4 DEF KeyBefore
      <3>2. \A S : \A k, l \in S : << k, l >> \in KeyOrder(q, S) <=> KeyBefore(q, k, l)
        BY DEF KeyOrder
      <3>3. QED
        BY <1>3, <3>1, <3>2
    <2> HIDE DEF W, D, K, n
    <2>3. /\ Cardinality(Pred(D, K, j)) \in Nat /\ Cardinality(Pred(D, K, i)) \in Nat
          /\ Cardinality(Pred(D, K, j)) < Cardinality(Pred(D, K, i))
      BY <1>1, <1>2, <1>3, <2>1, <2>2, PredGrows
    <2>4. Cardinality(Pred(D, K, i)) < ScanLimit
      BY <1>3, <2>1 DEF Foremost
    <2>5. Cardinality(Pred(D, K, j)) < ScanLimit
      BY <1>1, <2>3, <2>4
    <2>6. QED
      BY <1>3, <1>5, <2>1, <2>5 DEF Foremost
  <1>6. CASE j \in W
    <2>1. j \in C
      BY <1>6 DEF Candidates, Discarded
    <2>2. Orders(R, C) /\ << j, i >> \in R /\ Batch(q) = Foremost(C, R, MaxBatch)
      BY <1>3, <1>4, <2>1, RunOrderIs
    <2> HIDE DEF C, R, n
    <2>3. /\ Cardinality(Pred(C, R, j)) \in Nat /\ Cardinality(Pred(C, R, i)) \in Nat
          /\ Cardinality(Pred(C, R, j)) < Cardinality(Pred(C, R, i))
      BY <1>1, <1>2, <1>3, <2>1, <2>2, PredGrows
    <2>4. Cardinality(Pred(C, R, i)) < MaxBatch
      BY <2>2 DEF Foremost
    <2>5. Cardinality(Pred(C, R, j)) < MaxBatch
      BY <1>1, <2>3, <2>4
    <2>6. QED
      BY <2>1, <2>2, <2>5 DEF Foremost
  <1>7. QED
    BY <1>5, <1>6

\* No task is run while a more urgent one, that is not stale, waits in storage: not
\* by the order of the keys the alarm reads, nor by that of its batch
\* (DEFERRED_TASK_PRIORITY, coalesceDeferredTasks).
THEOREM UrgentGoFirst == Spec => UrgentFirst
  <1> DEFINE A == Drain => LET batch == Batch(queue)
                              waiting == DOMAIN queue \ (batch \cup Discarded(queue))
                          IN  \A i \in batch, j \in waiting :
                                 Rank(queue[i].kind) <= Rank(queue[j].kind)
  <1>1. QueueIsSound /\ [Next]_vars => [A]_vars
    <2>1. SUFFICES ASSUME QueueIsSound PROVE A
      OBVIOUS
    <2>2. queue \in Seq(Task)
      BY <2>1 DEF QueueIsSound, TypeOK
    <2>3. QED
      BY <2>2, UrgentIsRun, Zenon
  <1>2. QED
    BY <1>1, DeferredWorkStaysSound, PTL DEF Spec, UrgentFirst

-----------------------------------------------------------------------------
(* A discover is answered *)

LEMMA DiscoverIsSuperseded ==
    ASSUME NEW q \in Seq(Task), NEW i \in Discarded(q), q[i].kind = "discover"
    PROVE  \E j \in DOMAIN q \ Discarded(q) :
              j > i /\ q[j].kind = "discover" /\ q[j].peer = q[i].peer
  <1> DEFINE L == Live(q)
             T == SameAs(q, L, i)
             n == Len(q)
  <1>1. n \in Nat /\ DOMAIN q = 1 .. n /\ L \in SUBSET (1 .. n) /\ L \in SUBSET Window(q)
    BY WindowIn
  <1>2. i \in Redundant(q, L)
    <2>1. ~ IsStale(q[i])
      BY DEF IsStale
    <2>2. QED
      BY <2>1 DEF Discarded, Live
  <1>3. PICK k \in T : k > i
    BY <1>2 DEF Redundant
  <1>4. T \in SUBSET (1 .. n) /\ T \in SUBSET L /\ i \in T
    BY <1>1, <1>2 DEF SameAs, Redundant
  <1>5. PICK m \in T : \A l \in T : l <= m
    BY <1>1, <1>3, <1>4, Greatest
  <1>6. m \in 1 .. n /\ k \in 1 .. n /\ i \in 1 .. n /\ k <= m
    BY <1>3, <1>4, <1>5
  <1>7. m > i
    BY <1>1, <1>3, <1>6
  <1>8. m \in L /\ q[m].kind = "discover" /\ q[m].peer = q[i].peer
    BY <1>4, <1>5 DEF SameAs
  <1>9. m \notin Redundant(q, L)
    <2>1. SUFFICES ASSUME NEW l \in SameAs(q, L, m), l > m PROVE FALSE
      BY DEF Redundant
    <2>2. l \in T
      BY <1>7, <1>8, <2>1 DEF SameAs, Coalescable
    <2>3. l \in 1 .. n /\ l <= m
      BY <1>4, <1>5, <2>2
    <2>4. QED
      BY <1>1, <1>6, <2>1, <2>3
  <1>10. m \in DOMAIN q \ Discarded(q)
    BY <1>1, <1>6, <1>8, <1>9 DEF Discarded
  <1>11. QED
    BY <1>7, <1>8, <1>10

\* A discover that an alarm drops is superseded by a newer one of the same peer,
\* that is not dropped: however many are queued, the peer is answered
\* (coalesceDeferredTasks, deferredTaskIsStale).
THEOREM DiscoverIsAnswered == Spec => DiscoverAnswered
  <1> DEFINE A == Drain => LET discarded == Discarded(queue)
                              still == DOMAIN queue \ discarded
                          IN  \A i \in discarded : queue[i].kind = "discover" =>
                                 \E j \in still : j > i /\ queue[j].kind = "discover"
                                                /\ queue[j].peer = queue[i].peer
  <1>1. QueueIsSound /\ [Next]_vars => [A]_vars
    BY DiscoverIsSuperseded DEF QueueIsSound, TypeOK
  <1>2. QED
    BY <1>1, DeferredWorkStaysSound, PTL DEF Spec, DiscoverAnswered
-----------------------------------------------------------------------------
(* How peers find each other *)

USE RoomDiscoveryAssumption

\* The task of g has read which relays the nearest know.
HasRead(g) ==
    \/ stage[g] \in {"second", "in", "discover"}
    \/ stage[g] \in {"eager", "await", "close"} /\ pub[g].pc \in {"place", "done"}

\* What g has been told of, or is going to be: o among them.
Sees(g, o) ==
    \/ told[g] # {}
    \/ stage[g] \in {"eager", "await"} /\ pub[g].pc \in {"place", "done"} /\ HostOf[o] \in pub[g].got
    \/ stage[g] = "second" /\ seek[g].pc \in {"ready", "ask"} /\ HostOf[o] \in seek[g].at
    \/ stage[g] = "second" /\ seek[g].pc = "found" /\ o \in seek[g].have

\* A peer that joins, or has joined, is listed.
IsListed(g) == stage[g] \notin {"out", "away"} => g \in rows

\* A task that met no failure and leans on no other's has its own walk, round and
\* publication; once it has told nobody it still waits to look again.
OnItsOwn(g) ==
    /\ stage[g] \in {"eager", "await", "close"} => pub[g].pc \in {"start", "read", "place", "done"}
    /\ stage[g] \in {"eager", "await", "close"} /\ pub[g].pc # "start" => HostOf[g] \in kept
    /\ stage[g] \in {"second", "in", "discover"} => HostOf[g] \in kept
    /\ stage[g] = "eager" => seek[g].pc \in {"walk", "ready", "ask"}
    /\ stage[g] = "second" => seek[g].pc \in {"ready", "ask", "found"}
    /\ stage[g] \in {"eager", "second"} /\ seek[g].pc \in {"walk", "ask"} => seek[g].on = g
    /\ stage[g] = "close" => told[g] # {}

\* Each of the relays of g and o asks the other.
Reached(g, o) ==
    HostOf[g] # HostOf[o] /\ HostOf[o] \in reaches[HostOf[g]] /\ HostOf[g] \in reaches[HostOf[o]]

\* Of two that have read, the later has read of the earlier.
OneSees(g, o) ==
    Reached(g, o) /\ g \notin leant /\ o \notin leant /\ HasRead(g) /\ HasRead(o) => Sees(g, o) \/ Sees(o, g)

RoomInv ==
    /\ RoomTypeOK
    /\ \A g \in Guests : IsListed(g) /\ (g \notin leant => OnItsOwn(g))
    /\ \A g, o \in Guests : OneSees(g, o)


-----------------------------------------------------------------------------
(* Types *)

SeekRecord == [pc : {"no", "walk", "retry", "ready", "ask", "found", "failed"},
               on : Guests \cup {Nobody}, have : SUBSET Guests, at : SUBSET Hosts]
PubRecord == [pc : {"no", "start", "read", "place", "done", "throttled", "failed"}, got : SUBSET Hosts]
Stages == Beginning \cup {"in", "discover", "away"}
Walks == [Hosts -> Promises(Hosts)]
Rounds == [Hosts -> [SUBSET Hosts -> Promises(Guests)]]

LEMMA RoomTypes ==
    RoomTypeOK <=>
       /\ reaches \in [Hosts -> SUBSET Hosts]
       /\ rows \subseteq Guests /\ leant \subseteq Guests
       /\ kept \subseteq Hosts /\ placed \subseteq Hosts /\ marked \subseteq Hosts /\ placed \subseteq kept
       /\ lookup \in Walks /\ round \in Rounds
       /\ stage \in [Guests -> Stages]
       /\ seek \in [Guests -> SeekRecord]
       /\ pub \in [Guests -> PubRecord]
       /\ told \in [Guests -> SUBSET Guests]
       /\ slips \in 0 .. MaxSlips
  BY DEF RoomTypeOK, Stages, SeekRecord, PubRecord, Walks, Rounds

LEMMA FirstRecords ==
    /\ NoSeek \in SeekRecord /\ NoPub \in PubRecord
    /\ \A S : NoPromise \in Promises(S)
  BY DEF NoSeek, NoPub, NoPromise, SeekRecord, PubRecord, Promises

\* What the steps make of the records.
LEMMA SeeksMade ==
    /\ \A on \in Guests \cup {Nobody}, have \in SUBSET Guests, at \in SUBSET Hosts :
          \A pc \in {"walk", "ready"} : [pc |-> pc, on |-> on, have |-> have, at |-> at] \in SeekRecord
    /\ \A s \in SeekRecord, at \in SUBSET Hosts :
          [s EXCEPT !.pc = "ready", !.on = Nobody, !.at = at] \in SeekRecord
    /\ \A s \in SeekRecord : \A pc \in {"failed", "retry"} :
          [s EXCEPT !.pc = pc, !.on = Nobody] \in SeekRecord
    /\ \A s \in SeekRecord, on \in Guests \cup {Nobody} :
          [s EXCEPT !.pc = "ask", !.on = on] \in SeekRecord
    /\ \A have \in SUBSET Guests : [NoSeek EXCEPT !.pc = "found", !.have = have] \in SeekRecord
    /\ \A have \in SUBSET Guests, at \in SUBSET Hosts :
          [NoSeek EXCEPT !.pc = "ready", !.have = have, !.at = at] \in SeekRecord
  BY DEF SeekRecord, NoSeek

LEMMA PubsMade ==
    /\ \A p \in PubRecord : \A pc \in {"start", "throttled", "read", "done"} :
          [p EXCEPT !.pc = pc] \in PubRecord
    /\ \A got \in SUBSET Hosts : [pc |-> "place", got |-> got] \in PubRecord
    /\ [NoPub EXCEPT !.pc = "failed"] \in PubRecord
  BY DEF PubRecord, NoPub

LEMMA PromisesMade ==
    ASSUME NEW S
    PROVE  /\ \A g \in Guests :
                 [state |-> "pending", by |-> g, got |-> {}, fresh |-> TRUE] \in Promises(S)
           /\ \A p \in Promises(S) : Aged(p) \in Promises(S)
           /\ \A p \in Promises(S), got \in SUBSET S :
                 [p EXCEPT !.state = "done", !.by = Nobody, !.got = got] \in Promises(S)
           /\ \A p \in Promises(S) : p.by \in Guests \cup {Nobody} /\ p.got \subseteq S
  <1>1. \A g \in Guests :
           [state |-> "pending", by |-> g, got |-> {}, fresh |-> TRUE] \in Promises(S)
    BY DEF Promises
  <1>2. \A p \in Promises(S) : Aged(p) \in Promises(S)
    BY DEF Promises, Aged, NoPromise
  <1>3. \A p \in Promises(S), got \in SUBSET S :
           [p EXCEPT !.state = "done", !.by = Nobody, !.got = got] \in Promises(S)
    BY DEF Promises
  <1>4. \A p \in Promises(S) : p.by \in Guests \cup {Nobody} /\ p.got \subseteq S
    BY DEF Promises
  <1>5. QED
    BY <1>1, <1>2, <1>3, <1>4

LEMMA HostsAndPeers ==
    ASSUME RoomTypeOK
    PROVE  /\ \A g \in Guests : HostOf[g] \in Hosts
           /\ \A h : Listed(h) \in SUBSET Guests
           /\ \A h \in Hosts : Records(h) \in SUBSET Hosts
           /\ \A g \in Guests : /\ stage[g] \in Stages /\ seek[g] \in SeekRecord /\ pub[g] \in PubRecord
                                /\ seek[g].have \in SUBSET Guests /\ seek[g].at \in SUBSET Hosts
                                /\ pub[g].got \in SUBSET Hosts
  BY RoomTypes DEF Listed, Records, SeekRecord, PubRecord

-----------------------------------------------------------------------------
(* A step, peer by peer *)

Grows == reaches' = reaches /\ rows \subseteq rows' /\ kept \subseteq kept' /\ leant \subseteq leant'

\* The publication of g reads which relays the nearest know.
NewlyRead(g) ==
    /\ stage'[g] \in {"eager", "await", "close"} /\ pub'[g].pc = "place"
    /\ pub'[g].got = Records(HostOf[g]) /\ kept' = kept

\* What the step does to w keeps what there is to keep.
Keeps(w) ==
    /\ IsListed(w)'
    /\ w \notin leant' =>
         /\ OnItsOwn(w)'
         /\ HasRead(w)' => HasRead(w) \/ NewlyRead(w)
         /\ \A o \in rows : HostOf[o] # HostOf[w] /\ Sees(w, o) => Sees(w, o)'

\* The step is not one of the task of w, or its task is done.
Bystander(w) ==
    /\ told[w] \subseteq told'[w]
    /\ \/ {stage[w], stage'[w]} \subseteq {"in", "discover"}
       \/ /\ stage'[w] = stage[w]
          /\ stage[w] \in {"eager", "await", "close"} => pub'[w] = pub[w]
          /\ stage[w] \in {"eager", "second"} => seek'[w] = seek[w]

LEMMA StepKeepsRoomInv ==
    ASSUME RoomInv, RoomTypeOK', Grows, \A w \in Guests : Keeps(w)
    PROVE  RoomInv'
  <1>1. \A g \in Guests : IsListed(g)' /\ (g \notin leant' => OnItsOwn(g)')
    BY DEF Keeps
  <1>2. ASSUME NEW g \in Guests, NEW o \in Guests PROVE OneSees(g, o)'
    <2> SUFFICES ASSUME Reached(g, o), g \notin leant', o \notin leant', HasRead(g)', HasRead(o)'
                 PROVE  Sees(g, o)' \/ Sees(o, g)'
      BY DEF OneSees, Reached, Grows
    <2>1. \A w, v \in Guests :
             NewlyRead(w) /\ HasRead(v)' /\ v \notin leant' /\ w \notin leant' /\ Reached(w, v) => Sees(w, v)'
      <3> SUFFICES ASSUME NEW w \in Guests, NEW v \in Guests, NewlyRead(w), HasRead(v)',
                          v \notin leant', w \notin leant', Reached(w, v)
                   PROVE  Sees(w, v)'
        OBVIOUS
      <3>1. HostOf[v] \in kept'
        BY <1>1 DEF OnItsOwn, HasRead
      <3>2. HostOf[v] \in pub'[w].got
        BY <3>1 DEF NewlyRead, Records, Reached
      <3>3. stage'[w] = "close" => told'[w] # {}
        BY <1>1 DEF OnItsOwn
      <3>4. QED
        BY <3>2, <3>3 DEF NewlyRead, Sees
    <2>2. CASE NewlyRead(g)
      BY <2>1, <2>2
    <2>3. CASE NewlyRead(o)
      BY <2>1, <2>3 DEF Reached
    <2>4. CASE ~ NewlyRead(g) /\ ~ NewlyRead(o)
      <3>1. HasRead(g) /\ HasRead(o)
        BY <2>4 DEF Keeps
      <3>2. g \in rows /\ o \in rows
        BY <3>1 DEF RoomInv, IsListed, HasRead
      <3>3. Sees(g, o) \/ Sees(o, g)
        BY <3>1 DEF RoomInv, OneSees, Grows
      <3>4. HostOf[g] # HostOf[o]
        BY DEF Reached
      <3>5. QED
        BY <3>2, <3>3, <3>4 DEF Keeps
    <2>5. QED
      BY <2>2, <2>3, <2>4
  <1>3. QED
    BY <1>1, <1>2 DEF RoomInv

LEMMA BystanderKeeps ==
    ASSUME RoomInv, Grows, NEW w \in Guests, Bystander(w)
    PROVE  Keeps(w)
  <1>1. IsListed(w)'
    BY DEF RoomInv, IsListed, Bystander, Grows
  <1> SUFFICES ASSUME w \notin leant'
               PROVE  /\ OnItsOwn(w)'
                      /\ HasRead(w)' => HasRead(w)
                      /\ \A o \in rows : Sees(w, o) => Sees(w, o)'
    BY <1>1 DEF Keeps
  <1>2. OnItsOwn(w) /\ told[w] \subseteq told'[w] /\ kept \subseteq kept'
    BY DEF RoomInv, Grows, Bystander
  <1>3. CASE {stage[w], stage'[w]} \subseteq {"in", "discover"}
    BY <1>2, <1>3 DEF OnItsOwn, HasRead, Sees
  <1>4. CASE /\ stage'[w] = stage[w]
             /\ stage[w] \in {"eager", "await", "close"} => pub'[w] = pub[w]
             /\ stage[w] \in {"eager", "second"} => seek'[w] = seek[w]
    <2>1. OnItsOwn(w)'
      BY <1>2, <1>4 DEF OnItsOwn
    <2>2. HasRead(w)' => HasRead(w)
      BY <1>4 DEF HasRead
    <2>3. \A o \in rows : Sees(w, o) => Sees(w, o)'
      BY <1>2, <1>4 DEF Sees
    <2>4. QED
      BY <2>1, <2>2, <2>3
  <1>5. QED
    BY <1>3, <1>4 DEF Bystander

-----------------------------------------------------------------------------
(* The types, action by action *)

LEMMA RoomTypesNext ==
    RoomTypeOK' <=>
       /\ reaches' \in [Hosts -> SUBSET Hosts]
       /\ rows' \subseteq Guests /\ leant' \subseteq Guests
       /\ kept' \subseteq Hosts /\ placed' \subseteq Hosts /\ marked' \subseteq Hosts /\ placed' \subseteq kept'
       /\ lookup' \in Walks /\ round' \in Rounds
       /\ stage' \in [Guests -> Stages]
       /\ seek' \in [Guests -> SeekRecord]
       /\ pub' \in [Guests -> PubRecord]
       /\ told' \in [Guests -> SUBSET Guests]
       /\ slips' \in 0 .. MaxSlips
  BY DEF RoomTypeOK, Stages, SeekRecord, PubRecord, Walks, Rounds

LEMMA SlipTypes ==
    ASSUME RoomTypeOK
    PROVE  /\ Slip => slips' \in 0 .. MaxSlips
           /\ Meanwhile => slips' \in 0 .. MaxSlips
           /\ \A S \in SUBSET Guests : Leans(S) => leant' \subseteq Guests /\ leant \subseteq leant'
  BY RoomTypes DEF Slip, Meanwhile, Leans

LEMMA OwnLookupTypes ==
    ASSUME RoomTypeOK, NEW g \in Guests, NEW have \in SUBSET Guests, OwnLookup(g, have)
    PROVE  seek' \in [Guests -> SeekRecord] /\ lookup' \in Walks
  <1>1. seek' \in [Guests -> SeekRecord]
    BY RoomTypes, SeeksMade DEF OwnLookup
  <1>2. lookup' \in Walks
    <2>1. [state |-> "pending", by |-> g, got |-> {}, fresh |-> TRUE] \in Promises(Hosts)
      BY PromisesMade
    <2>2. QED
      BY <2>1, RoomTypes, HostsAndPeers DEF OwnLookup, Walks
  <1>3. QED
    BY <1>1, <1>2

LEMMA SeekTypes ==
    ASSUME RoomTypeOK, NEW g \in Guests, NEW have \in SUBSET Guests, Seek(g, have)
    PROVE  /\ seek' \in [Guests -> SeekRecord] /\ lookup' \in Walks
           /\ leant' \subseteq Guests /\ leant \subseteq leant'
  <1>1. CASE OwnLookup(g, have) /\ UNCHANGED leant
    BY <1>1, OwnLookupTypes, RoomTypes
  <1>2. CASE /\ seek' = [seek EXCEPT ![g] = IF lookup[HostOf[g]].state = "done"
                    THEN [pc |-> "ready", on |-> Nobody, have |-> have, at |-> lookup[HostOf[g]].got]
                    ELSE [pc |-> "walk", on |-> lookup[HostOf[g]].by, have |-> have, at |-> {}]]
             /\ Leans({g}) /\ UNCHANGED lookup
    <2>1. lookup[HostOf[g]] \in Promises(Hosts)
      BY RoomTypes DEF Walks
    <2>2. lookup[HostOf[g]].by \in Guests \cup {Nobody} /\ lookup[HostOf[g]].got \in SUBSET Hosts
      BY <2>1, PromisesMade
    <2>3. seek' \in [Guests -> SeekRecord]
      BY <1>2, <2>2, RoomTypes, SeeksMade
    <2>4. QED
      BY <1>2, <2>3, RoomTypes, SlipTypes
  <1>3. QED
    BY <1>1, <1>2 DEF Seek

LEMMA FoundTypes ==
    ASSUME RoomTypeOK, NEW S \in SUBSET Guests, NEW have \in [S -> SUBSET Guests], Found(S, have)
    PROVE  /\ told' \in [Guests -> SUBSET Guests]
           /\ stage' \in [Guests -> Stages]
           /\ seek' \in [Guests -> SeekRecord]
  <1>1. told' \in [Guests -> SUBSET Guests]
    BY RoomTypes DEF Found
  <1>2. stage' \in [Guests -> Stages]
    <2>1. {"in", "await", "close"} \subseteq Stages
      BY DEF Stages, Beginning
    <2>2. QED
      BY <2>1, RoomTypes DEF Found
  <1>3. seek' \in [Guests -> SeekRecord]
    BY RoomTypes, FirstRecords, SeeksMade DEF Found
  <1>4. QED
    BY <1>1, <1>2, <1>3

LEMMA RoundIs ==
    ASSUME RoomTypeOK, NEW h \in Hosts, NEW urls \in SUBSET Hosts
    PROVE  /\ round[h][urls] \in Promises(Guests)
           /\ round[h][urls].by \in Guests \cup {Nobody} /\ round[h][urls].got \subseteq Guests
  <1>1. round[h] \in [SUBSET Hosts -> Promises(Guests)]
    BY RoomTypes DEF Rounds
  <1>2. round[h][urls] \in Promises(Guests)
    BY <1>1
  <1>3. QED
    BY <1>2, PromisesMade

LEMMA RoundTypes ==
    ASSUME RoomTypeOK, NEW h \in Hosts, NEW urls \in SUBSET Hosts, NEW p \in Promises(Guests)
    PROVE  [round EXCEPT ![h][urls] = p] \in Rounds
  <1>1. round[h] \in [SUBSET Hosts -> Promises(Guests)]
    BY RoomTypes DEF Rounds
  <1>2. [round[h] EXCEPT ![urls] = p] \in [SUBSET Hosts -> Promises(Guests)]
    BY <1>1
  <1>3. QED
    BY <1>2, RoomTypes DEF Rounds

LEMMA JoinTypes ==
    ASSUME RoomTypeOK, NEW g \in Guests, Join(g)
    PROVE  RoomTypeOK' /\ Grows
  <1>1. /\ seek' \in [Guests -> SeekRecord] /\ lookup' \in Walks
        /\ leant' \subseteq Guests /\ leant \subseteq leant'
    BY SeekTypes, HostsAndPeers DEF Join
  <1>2. pub' \in [Guests -> PubRecord]
    BY RoomTypes, PubsMade DEF Join
  <1>3. stage' \in [Guests -> Stages]
    BY RoomTypes DEF Join, Stages, Beginning
  <1>4. QED
    BY <1>1, <1>2, <1>3, RoomTypes, RoomTypesNext DEF Join, Grows, records

LEMMA WalkEndsTypes ==
    ASSUME RoomTypeOK, NEW g \in Guests, WalkEnds(g)
    PROVE  RoomTypeOK' /\ Grows
  <1>1. Records(HostOf[g]) \in SUBSET Hosts
    BY HostsAndPeers
  <1>2. seek' \in [Guests -> SeekRecord]
    BY <1>1, RoomTypes, SeeksMade DEF WalkEnds
  <1>3. lookup' \in Walks
    <2>1. lookup[HostOf[g]] \in Promises(Hosts)
      BY RoomTypes DEF Walks
    <2>2. [lookup[HostOf[g]] EXCEPT !.state = "done", !.by = Nobody, !.got = Records(HostOf[g])]
             \in Promises(Hosts)
      BY <1>1, <2>1, PromisesMade
    <2>3. QED
      BY <2>2, RoomTypes DEF WalkEnds, Walks
  <1>4. QED
    BY <1>2, <1>3, RoomTypes, RoomTypesNext DEF WalkEnds, Grows, records

LEMMA WalkFailsTypes ==
    ASSUME RoomTypeOK, NEW g \in Guests, WalkFails(g)
    PROVE  RoomTypeOK' /\ Grows
  <1>1. seek' \in [Guests -> SeekRecord]
    BY RoomTypes, SeeksMade DEF WalkFails
  <1>2. lookup' \in Walks
    BY RoomTypes, FirstRecords DEF WalkFails, Walks
  <1>3. slips' \in 0 .. MaxSlips /\ leant' \subseteq Guests /\ leant \subseteq leant'
    BY SlipTypes DEF WalkFails, Waiting
  <1>4. QED
    BY <1>1, <1>2, <1>3, RoomTypes, RoomTypesNext DEF WalkFails, Grows, records

LEMMA RetryTypes ==
    ASSUME RoomTypeOK, NEW g \in Guests, Retry(g)
    PROVE  RoomTypeOK' /\ Grows
  <1>1. seek' \in [Guests -> SeekRecord] /\ lookup' \in Walks
    BY OwnLookupTypes, HostsAndPeers DEF Retry
  <1>2. QED
    BY <1>1, RoomTypes, RoomTypesNext DEF Retry, Grows, records

LEMMA AskTypes ==
    ASSUME RoomTypeOK, NEW g \in Guests, Ask(g)
    PROVE  RoomTypeOK' /\ Grows
  <1> DEFINE h == HostOf[g]
             urls == seek[g].at \ {h}
             shared == round[h][urls]
             have == [w \in {g} |-> seek[g].have \cup (shared.got \ {g})]
  <1>1. urls \in SUBSET Hosts /\ h \in Hosts
    BY HostsAndPeers
  <1>2. shared.by \in Guests \cup {Nobody} /\ shared.got \subseteq Guests
    BY <1>1, RoundIs
  <1>3. have \in [{g} -> SUBSET Guests]
    BY <1>2, HostsAndPeers
  <1>4. Found({g}, have) => /\ told' \in [Guests -> SUBSET Guests]
                            /\ stage' \in [Guests -> Stages]
                            /\ seek' \in [Guests -> SeekRecord]
    BY <1>3, FoundTypes
  <1>5. \A on \in Guests \cup {Nobody} : [seek EXCEPT ![g] = [@ EXCEPT !.pc = "ask", !.on = on]] \in [Guests -> SeekRecord]
    BY RoomTypes, SeeksMade
  <1>6. [round EXCEPT ![h][urls] = [state |-> "pending", by |-> g, got |-> {}, fresh |-> TRUE]] \in Rounds
    <2>1. [state |-> "pending", by |-> g, got |-> {}, fresh |-> TRUE] \in Promises(Guests)
      BY PromisesMade
    <2>2. QED
      BY <1>1, <2>1, RoundTypes
  <1>7. Leans({g}) => leant' \subseteq Guests /\ leant \subseteq leant'
    BY SlipTypes
  <1>8. \/ Found({g}, have) /\ UNCHANGED << round, leant >>
        \/ Found({g}, have) /\ Leans({g}) /\ UNCHANGED round
        \/ /\ seek' = [seek EXCEPT ![g] = [@ EXCEPT !.pc = "ask", !.on = shared.by]]
           /\ Leans({g}) /\ UNCHANGED << round, stage, told >>
        \/ /\ round' = [round EXCEPT ![h][urls] = [state |-> "pending", by |-> g, got |-> {}, fresh |-> TRUE]]
           /\ seek' = [seek EXCEPT ![g] = [@ EXCEPT !.pc = "ask", !.on = g]]
           /\ UNCHANGED << stage, told, leant >>
    BY ZenonT(30) DEF Ask
  <1>9. UNCHANGED << reaches, rows, records, lookup, pub, slips >>
    BY DEF Ask
  <1> HIDE DEF h, urls, shared, have
  <1>10. /\ told' \in [Guests -> SUBSET Guests]
         /\ stage' \in [Guests -> Stages]
         /\ seek' \in [Guests -> SeekRecord]
    <2>1. CASE Found({g}, have)
      BY <2>1, <1>4
    <2>2. CASE \E on \in Guests \cup {Nobody} : /\ seek' = [seek EXCEPT ![g] = [@ EXCEPT !.pc = "ask", !.on = on]]
                                                /\ UNCHANGED << stage, told >>
      <3>1. PICK on \in Guests \cup {Nobody} :
               seek' = [seek EXCEPT ![g] = [@ EXCEPT !.pc = "ask", !.on = on]] /\ stage' = stage /\ told' = told
        BY <2>2
      <3>2. seek' \in [Guests -> SeekRecord]
        BY <1>5, <3>1
      <3>3. QED
        BY <3>1, <3>2, RoomTypes
    <2>3. QED
      BY <1>2, <1>8, <2>1, <2>2
  <1>11. round' \in Rounds
    BY <1>6, <1>8, RoomTypes
  <1>12. leant' \subseteq Guests /\ leant \subseteq leant'
    BY <1>7, <1>8, RoomTypes
  <1>13. QED
    BY <1>9, <1>10, <1>11, <1>12, RoomTypes, RoomTypesNext DEF Grows, records

LEMMA RoundEndsTypes ==
    ASSUME RoomTypeOK, NEW g \in Guests, RoundEnds(g)
    PROVE  RoomTypeOK' /\ Grows
  <1> DEFINE h == HostOf[g]
             urls == seek[g].at \ {h}
             heirs == Waiting(g, "ask")
  <1>1. urls \in SUBSET Hosts /\ h \in Hosts /\ heirs \in SUBSET Guests
    BY HostsAndPeers DEF Waiting
  <1>2. PICK answering \in {urls} \cup {urls \ {o} : o \in urls} :
           LET got == UNION {Listed(o) : o \in answering} IN
           /\ IF answering = urls THEN UNCHANGED << slips, leant >> ELSE Slip /\ Leans(heirs)
           /\ Found(heirs, [w \in heirs |-> seek[w].have \cup (got \ {w})])
           /\ round' = IF round[h][urls].state = "pending" /\ round[h][urls].by = g
                          THEN [round EXCEPT ![h][urls] = [@ EXCEPT !.state = "done", !.by = Nobody, !.got = got]]
                          ELSE round
    BY DEF RoundEnds
  <1> DEFINE got == UNION {Listed(o) : o \in answering}
             have == [w \in heirs |-> seek[w].have \cup (got \ {w})]
  <1>3. got \in SUBSET Guests
    BY HostsAndPeers
  <1>4. have \in [heirs -> SUBSET Guests]
    BY <1>1, <1>3, HostsAndPeers
  <1>5. /\ told' \in [Guests -> SUBSET Guests]
        /\ stage' \in [Guests -> Stages]
        /\ seek' \in [Guests -> SeekRecord]
    BY <1>1, <1>2, <1>4, FoundTypes
  <1>6. round' \in Rounds
    <2>1. round[h][urls] \in Promises(Guests)
      BY <1>1, RoundIs
    <2>2. [round[h][urls] EXCEPT !.state = "done", !.by = Nobody, !.got = got] \in Promises(Guests)
      BY <1>3, <2>1, PromisesMade
    <2>3. [round EXCEPT ![h][urls] = [@ EXCEPT !.state = "done", !.by = Nobody, !.got = got]] \in Rounds
      BY <1>1, <2>2, RoundTypes
    <2>4. QED
      BY <1>2, <2>3, RoomTypes
  <1>7. slips' \in 0 .. MaxSlips /\ leant' \subseteq Guests /\ leant \subseteq leant'
    BY <1>1, <1>2, SlipTypes, RoomTypes
  <1>8. UNCHANGED << reaches, rows, records, lookup, pub >>
    BY DEF RoundEnds
  <1> HIDE DEF h, urls, heirs, got, have
  <1>9. QED
    BY <1>5, <1>6, <1>7, <1>8, RoomTypes, RoomTypesNext DEF Grows, records

LEMMA AgeTypes ==
    ASSUME RoomTypeOK, NEW h \in Hosts, AgeLookup(h) \/ AgeRound(h)
    PROVE  RoomTypeOK' /\ Grows
  <1>1. CASE AgeLookup(h)
    <2>1. Aged(lookup[h]) \in Promises(Hosts)
      BY RoomTypes, PromisesMade DEF Walks
    <2>2. lookup' \in Walks
      BY <1>1, <2>1, RoomTypes DEF AgeLookup, Walks
    <2>3. QED
      BY <1>1, <2>2, SlipTypes, RoomTypes, RoomTypesNext DEF AgeLookup, Grows, records
  <1>2. CASE AgeRound(h)
    <2>1. PICK urls \in SUBSET Hosts : round' = [round EXCEPT ![h][urls] = Aged(@)]
      BY <1>2 DEF AgeRound
    <2>2. Aged(round[h][urls]) \in Promises(Guests)
      <3>1. round[h][urls] \in Promises(Guests)
        BY RoundIs
      <3>2. QED
        BY <3>1, PromisesMade
    <2>3. round' \in Rounds
      BY <2>1, <2>2, RoundTypes
    <2>4. Meanwhile /\ UNCHANGED << reaches, rows, records, lookup, stage, seek, pub, told, leant >>
      BY <1>2 DEF AgeRound
    <2>5. QED
      BY <2>3, <2>4, SlipTypes, RoomTypes, RoomTypesNext DEF Grows, records
  <1>3. QED
    BY <1>1, <1>2

LEMMA PublicationTypes ==
    ASSUME RoomTypeOK, NEW g \in Guests
    PROVE  /\ Publish(g) => RoomTypeOK' /\ Grows
           /\ Reads(g) => RoomTypeOK' /\ Grows
           /\ Places(g) => RoomTypeOK' /\ Grows
           /\ PublishFails(g) => RoomTypeOK' /\ Grows
           /\ Beat(g) => RoomTypeOK' /\ Grows
           /\ Beaten(g) => RoomTypeOK' /\ Grows
           /\ \A h \in Hosts : Unmark(h) => RoomTypeOK' /\ Grows
  <1>1. \A pc \in {"start", "throttled", "read", "done"} : [pub EXCEPT ![g].pc = pc] \in [Guests -> PubRecord]
    BY RoomTypes, PubsMade
  <1>2. \A p \in PubRecord : [pub EXCEPT ![g] = p] \in [Guests -> PubRecord]
    BY RoomTypes
  <1>3. HostOf[g] \in Hosts /\ Records(HostOf[g]) \in SUBSET Hosts
    BY HostsAndPeers
  <1>4. Leans({g}) => leant' \subseteq Guests /\ leant \subseteq leant'
    BY SlipTypes
  <1>5. CASE Publish(g)
    <2>1. pub' \in [Guests -> PubRecord]
      BY <1>1, <1>5 DEF Publish
    <2>2. QED
      BY <1>3, <1>4, <1>5, <2>1, RoomTypes, RoomTypesNext DEF Publish, KeptFirst, Grows, shares
  <1>6. CASE Reads(g)
    <2>1. pub' \in [Guests -> PubRecord]
      BY <1>2, <1>3, <1>6, PubsMade DEF Reads
    <2>2. QED
      BY <1>6, <2>1, RoomTypes, RoomTypesNext DEF Reads, Grows, shares, records
  <1>7. CASE Places(g)
    <2>1. pub' \in [Guests -> PubRecord]
      BY <1>1, <1>7 DEF Places
    <2>2. QED
      BY <1>3, <1>7, <2>1, RoomTypes, RoomTypesNext DEF Places, Grows, shares
  <1>8. CASE PublishFails(g)
    <2>1. pub' \in [Guests -> PubRecord]
      BY <1>2, <1>8, PubsMade DEF PublishFails
    <2>2. QED
      BY <1>4, <1>8, <2>1, SlipTypes, RoomTypes, RoomTypesNext DEF PublishFails, Grows, shares, records
  <1>9. CASE Beat(g)
    <2>1. pub' \in [Guests -> PubRecord]
      BY <1>1, <1>9 DEF Beat
    <2>2. QED
      BY <1>9, <2>1, RoomTypes, RoomTypesNext DEF Beat, Grows, shares, records
  <1>10. CASE Beaten(g)
    <2>1. pub' \in [Guests -> PubRecord]
      BY <1>2, <1>10, FirstRecords DEF Beaten
    <2>2. QED
      BY <1>10, <2>1, RoomTypes, RoomTypesNext DEF Beaten, Grows, shares, records
  <1>11. ASSUME NEW h \in Hosts, Unmark(h) PROVE RoomTypeOK' /\ Grows
    BY <1>11, RoomTypes, RoomTypesNext DEF Unmark, Grows, shares
  <1>12. QED
    BY <1>5, <1>6, <1>7, <1>8, <1>9, <1>10, <1>11

LEMMA TaskTypes ==
    ASSUME RoomTypeOK, NEW g \in Guests
    PROVE  /\ LookAgain(g) => RoomTypeOK' /\ Grows
           /\ Joined(g) => RoomTypeOK' /\ Grows
           /\ JoinFails(g) => RoomTypeOK' /\ Grows
           /\ Discover(g) => RoomTypeOK' /\ Grows
           /\ RepliesLocal(g) => RoomTypeOK' /\ Grows
  <1>1. \A p \in PubRecord : [pub EXCEPT ![g] = p] \in [Guests -> PubRecord]
    BY RoomTypes
  <1>2. \A s \in SeekRecord : [seek EXCEPT ![g] = s] \in [Guests -> SeekRecord]
    BY RoomTypes
  <1>3. \A s \in {"second", "in", "discover"} : [stage EXCEPT ![g] = s] \in [Guests -> Stages]
    BY RoomTypes DEF Stages, Beginning
  <1>4. Listed(HostOf[g]) \in SUBSET Guests /\ Listed(HostOf[g]) \ {g} \in SUBSET Guests
    BY HostsAndPeers
  <1>5. Seek(g, Listed(HostOf[g]) \ {g}) => /\ seek' \in [Guests -> SeekRecord] /\ lookup' \in Walks
                                            /\ leant' \subseteq Guests /\ leant \subseteq leant'
    BY <1>4, SeekTypes
  <1>6. CASE LookAgain(g)
    <2>1. pub' \in [Guests -> PubRecord]
      BY <1>1, <1>6, FirstRecords DEF LookAgain
    <2>2. stage' \in [Guests -> Stages]
      BY <1>3, <1>6 DEF LookAgain
    <2>3. seek' \in [Guests -> SeekRecord] /\ lookup' \in Walks /\ leant' \subseteq Guests /\ leant \subseteq leant'
      <3>1. CASE pub[g].pc = "done"
        <4>1. seek' = [seek EXCEPT ![g] = [NoSeek EXCEPT !.pc = "ready", !.have = Listed(HostOf[g]) \ {g},
                                                         !.at = pub[g].got]]
              /\ UNCHANGED << lookup, leant >>
          BY <1>6, <3>1 DEF LookAgain
        <4>2. [NoSeek EXCEPT !.pc = "ready", !.have = Listed(HostOf[g]) \ {g}, !.at = pub[g].got] \in SeekRecord
          BY <1>4, SeeksMade, HostsAndPeers
        <4>3. QED
          BY <1>2, <4>1, <4>2, RoomTypes
      <3>2. CASE pub[g].pc # "done"
        BY <1>5, <1>6, <3>2 DEF LookAgain
      <3>3. QED
        BY <3>1, <3>2
    <2>4. QED
      BY <1>6, <2>1, <2>2, <2>3, RoomTypes, RoomTypesNext DEF LookAgain, Grows, records
  <1>7. CASE Joined(g) \/ JoinFails(g)
    <2>1. pub' \in [Guests -> PubRecord] /\ seek' \in [Guests -> SeekRecord]
      BY <1>1, <1>2, <1>7, FirstRecords DEF Joined, JoinFails
    <2>2. stage' \in [Guests -> Stages]
      BY <1>3, <1>7 DEF Joined, JoinFails
    <2>3. told' \in [Guests -> SUBSET Guests]
      <3>1. seek[g].have \in SUBSET Guests
        BY HostsAndPeers
      <3>2. Broadcast(g, seek[g].have) => told' \in [Guests -> SUBSET Guests]
        BY <1>4, <3>1, RoomTypes DEF Broadcast
      <3>3. QED
        BY <1>7, <3>2, RoomTypes DEF Joined, JoinFails
    <2>4. UNCHANGED << reaches, rows, records, shares, leant, slips >>
      BY <1>7 DEF Joined, JoinFails
    <2>5. QED
      BY <2>1, <2>2, <2>3, <2>4, RoomTypes, RoomTypesNext DEF Grows, records, shares
  <1>8. CASE Discover(g)
    <2>1. stage' \in [Guests -> Stages]
      BY <1>3, <1>8 DEF Discover
    <2>2. slips' \in 0 .. MaxSlips
      BY <1>8, SlipTypes DEF Discover
    <2>3. QED
      BY <1>5, <1>8, <2>1, <2>2, RoomTypes, RoomTypesNext DEF Discover, Grows, records
  <1>9. CASE RepliesLocal(g)
    <2>1. [w \in {g} |-> Listed(HostOf[g]) \ {g}] \in [{g} -> SUBSET Guests]
      BY <1>4
    <2>2. /\ told' \in [Guests -> SUBSET Guests]
          /\ stage' \in [Guests -> Stages]
          /\ seek' \in [Guests -> SeekRecord]
      BY <1>9, <2>1, FoundTypes DEF RepliesLocal
    <2>3. QED
      BY <1>9, <2>2, RoomTypes, RoomTypesNext DEF RepliesLocal, Grows, records, shares
  <1>10. QED
    BY <1>6, <1>7, <1>8, <1>9

-----------------------------------------------------------------------------
(* What each action keeps *)

\* A task that is joining, and does not lean, has its own walk and round.
LEMMA OwnTask ==
    ASSUME RoomInv, NEW w \in Guests, w \notin leant
    PROVE  OnItsOwn(w)
  BY DEF RoomInv

LEMMA WalkEndsKeeps ==
    ASSUME RoomInv, NEW g \in Guests, WalkEnds(g)
    PROVE  RoomInv'
  <1>1. RoomTypeOK' /\ Grows
    BY WalkEndsTypes DEF RoomInv
  <1>2. ASSUME NEW w \in Guests PROVE Keeps(w)
    <2>1. /\ stage' = stage /\ pub' = pub /\ told' = told /\ leant' = leant /\ rows' = rows /\ kept' = kept
          /\ seek'[w] = IF w \in Waiting(g, "walk")
                          THEN [seek[w] EXCEPT !.pc = "ready", !.on = Nobody, !.at = Records(HostOf[g])] ELSE seek[w]
      BY DEF WalkEnds, records
    <2>2. CASE w \in leant
      BY <2>1, <2>2 DEF Keeps, IsListed, RoomInv
    <2>3. CASE w \notin leant /\ w \in Waiting(g, "walk") /\ stage[w] \in {"eager", "second"}
      <3>1. OnItsOwn(w) /\ IsListed(w) /\ seek[w].pc = "walk" /\ w \notin leant'
        BY <2>1, <2>3, OwnTask DEF Waiting, RoomInv
      <3>2. seek'[w].pc = "ready" /\ stage[w] = "eager"
        BY <2>1, <2>3, <3>1, HostsAndPeers DEF OnItsOwn, SeekRecord, RoomInv
      <3>3. OnItsOwn(w)'
        BY <2>1, <3>1, <3>2 DEF OnItsOwn
      <3>4. HasRead(w)' => HasRead(w)
        BY <2>1 DEF HasRead
      <3>5. \A o \in rows : Sees(w, o) => Sees(w, o)'
        BY <2>1, <3>2 DEF Sees
      <3>6. QED
        BY <2>1, <3>1, <3>3, <3>4, <3>5 DEF Keeps, IsListed
    <2>4. CASE ~ (w \in Waiting(g, "walk") /\ stage[w] \in {"eager", "second"})
      BY <1>1, <2>1, <2>4, BystanderKeeps DEF Bystander
    <2>5. QED
      BY <2>2, <2>3, <2>4
  <1>3. QED
    BY <1>1, <1>2, StepKeepsRoomInv

LEMMA WalkFailsKeeps ==
    ASSUME RoomInv, NEW g \in Guests, WalkFails(g)
    PROVE  RoomInv'
  <1>1. RoomTypeOK' /\ Grows
    BY WalkFailsTypes DEF RoomInv
  <1>2. ASSUME NEW w \in Guests PROVE Keeps(w)
    <2>1. /\ stage' = stage /\ pub' = pub /\ told' = told /\ rows' = rows
          /\ w \notin Waiting(g, "walk") => seek'[w] = seek[w]
          /\ w \in Waiting(g, "walk") /\ stage[w] \in Beginning => w \in leant'
      BY DEF WalkFails, Leans
    <2>2. CASE w \in leant'
      BY <2>1, <2>2 DEF Keeps, IsListed, RoomInv
    <2>3. CASE w \notin leant'
      BY <1>1, <2>1, <2>3, BystanderKeeps DEF Bystander, Beginning
    <2>4. QED
      BY <2>2, <2>3
  <1>3. QED
    BY <1>1, <1>2, StepKeepsRoomInv

LEMMA RetryKeeps ==
    ASSUME RoomInv, NEW g \in Guests, Retry(g)
    PROVE  RoomInv'
  <1>1. RoomTypeOK' /\ Grows
    BY RetryTypes DEF RoomInv
  <1>2. ASSUME NEW w \in Guests PROVE Keeps(w)
    <2>1. /\ stage' = stage /\ pub' = pub /\ told' = told /\ rows' = rows /\ leant' = leant
          /\ w # g => seek'[w] = seek[w]
      BY RoomTypes DEF Retry, OwnLookup, RoomInv
    <2>2. CASE g \in leant
      BY <1>1, <2>1, <2>2, BystanderKeeps DEF Bystander, Keeps, IsListed, RoomInv
    <2>3. CASE g \notin leant
      <3>1. OnItsOwn(g) /\ seek[g].pc = "retry"
        BY <2>3, OwnTask DEF Retry
      <3>2. stage[g] \notin {"eager", "second"}
        BY <3>1 DEF OnItsOwn
      <3>3. QED
        BY <1>1, <2>1, <3>2, BystanderKeeps DEF Bystander
    <2>4. QED
      BY <2>2, <2>3
  <1>3. QED
    BY <1>1, <1>2, StepKeepsRoomInv

\* What others find changes nothing for w; what w finds, of a peer that it sees, it is told.
LEMMA FoundKeeps ==
    ASSUME RoomInv, Grows, NEW S \in SUBSET Guests, NEW have \in [S -> SUBSET Guests], Found(S, have),
           pub' = pub, NEW w \in Guests,
           w \in S /\ stage[w] = "eager" => w \in leant' \/ seek[w].pc \in {"ready", "ask"},
           w \in S /\ stage[w] = "second" =>
              \/ w \in leant'
              \/ /\ seek[w].pc \in {"ready", "ask"}
                 /\ \A o \in rows : HostOf[o] # HostOf[w] /\ HostOf[o] \in seek[w].at => o \in have[w]
    PROVE  Keeps(w)
  <1>1. /\ told'[w] = IF w \in S /\ stage[w] \in {"eager", "discover"} THEN told[w] \cup have[w] ELSE told[w]
        /\ stage'[w] = IF ~ (w \in S /\ stage[w] \in {"eager", "discover"}) THEN stage[w]
                       ELSE IF stage[w] = "discover" THEN "in"
                       ELSE IF have[w] = {} THEN "await" ELSE "close"
        /\ seek'[w] = IF w \notin S THEN seek[w]
                      ELSE IF stage[w] = "discover" THEN NoSeek ELSE [NoSeek EXCEPT !.pc = "found", !.have = have[w]]
    BY DEF Found
  <1>2. IsListed(w)'
    BY <1>1 DEF RoomInv, IsListed, Grows
  <1>3. CASE w \in leant'
    BY <1>2, <1>3 DEF Keeps
  <1>4. CASE w \notin leant' /\ w \in S /\ stage[w] = "eager"
    <2>1. OnItsOwn(w) /\ kept \subseteq kept' /\ seek[w].pc \in {"ready", "ask"}
      BY <1>4, OwnTask DEF Grows
    <2>2. stage'[w] \in {"await", "close"} /\ told'[w] = told[w] \cup have[w]
          /\ (stage'[w] = "close" => have[w] # {})
      BY <1>1, <1>4
    <2>3. OnItsOwn(w)'
      BY <1>4, <2>1, <2>2 DEF OnItsOwn
    <2>4. HasRead(w)' => HasRead(w)
      BY <1>4, <2>2 DEF HasRead
    <2>5. \A o \in rows : Sees(w, o) => Sees(w, o)'
      BY <1>4, <2>2 DEF Sees
    <2>6. QED
      BY <1>2, <2>3, <2>4, <2>5 DEF Keeps
  <1>5. CASE w \notin leant' /\ w \in S /\ stage[w] = "second"
    <2>1. OnItsOwn(w) /\ kept \subseteq kept' /\ seek[w].pc \in {"ready", "ask"}
      BY <1>5, OwnTask DEF Grows
    <2>2. /\ stage'[w] = "second" /\ told'[w] = told[w]
          /\ seek'[w].pc = "found" /\ seek'[w].have = have[w]
      BY <1>1, <1>5 DEF NoSeek
    <2>3. OnItsOwn(w)'
      BY <1>5, <2>1, <2>2 DEF OnItsOwn
    <2>4. HasRead(w)' => HasRead(w)
      BY <1>5 DEF HasRead
    <2>5. \A o \in rows : HostOf[o] # HostOf[w] /\ Sees(w, o) => Sees(w, o)'
      BY <1>5, <2>1, <2>2 DEF Sees
    <2>6. QED
      BY <1>2, <2>3, <2>4, <2>5 DEF Keeps
  <1>6. CASE ~ (w \in S /\ stage[w] \in {"eager", "second"})
    <2>1. Bystander(w)
      BY <1>1, <1>6 DEF Bystander
    <2>2. QED
      BY <2>1, BystanderKeeps
  <1>7. QED
    BY <1>3, <1>4, <1>5, <1>6

LEMMA AskKeeps ==
    ASSUME RoomInv, NEW g \in Guests, Ask(g)
    PROVE  RoomInv'
  <1> DEFINE h == HostOf[g]
             urls == seek[g].at \ {h}
             shared == round[h][urls]
             have == [w \in {g} |-> seek[g].have \cup (shared.got \ {g})]
  <1>1. RoomTypeOK /\ RoomTypeOK' /\ Grows
    BY AskTypes, Zenon DEF RoomInv
  <1>2. /\ UNCHANGED << reaches, rows, kept, pub >> /\ seek[g].pc = "ready"
        /\ stage[g] \in Beginning /\ Leans({g}) => g \in leant'
    BY DEF Ask, records, Leans
  <1>3. \/ Found({g}, have) /\ (urls = {} \/ Leans({g}))
        \/ /\ \E on \in Guests \cup {Nobody} :
                /\ seek' = [seek EXCEPT ![g] = [@ EXCEPT !.pc = "ask", !.on = on]]
                /\ on = g \/ Leans({g})
           /\ UNCHANGED << stage, told >>
    <2>1. urls \in SUBSET Hosts /\ h \in Hosts
      BY <1>1, HostsAndPeers
    <2>2. shared.by \in Guests \cup {Nobody}
      BY <1>1, <2>1, RoundIs
    <2>3. \/ Found({g}, have) /\ (urls = {} \/ Leans({g}))
          \/ /\ seek' = [seek EXCEPT ![g] = [@ EXCEPT !.pc = "ask", !.on = shared.by]]
             /\ Leans({g}) /\ UNCHANGED << stage, told >>
          \/ /\ seek' = [seek EXCEPT ![g] = [@ EXCEPT !.pc = "ask", !.on = g]]
             /\ UNCHANGED << stage, told >>
      BY ZenonT(30) DEF Ask
    <2> HIDE DEF urls, shared, have
    <2>4. QED
      BY <2>2, <2>3, Zenon
  <1>4. CASE Found({g}, have) /\ (urls = {} \/ Leans({g}))
    <2>1. have \in [{g} -> SUBSET Guests]
      <3>1. urls \in SUBSET Hosts /\ h \in Hosts
        BY <1>1, HostsAndPeers
      <3>2. shared.got \subseteq Guests
        BY <1>1, <3>1, RoundIs
      <3>3. QED
        BY <1>1, <3>2, HostsAndPeers
    <2>2. ASSUME NEW w \in Guests PROVE Keeps(w)
      <3>1. w \in {g} /\ stage[w] = "second" =>
               \/ w \in leant'
               \/ /\ seek[w].pc \in {"ready", "ask"}
                  /\ \A o \in rows : HostOf[o] # HostOf[w] /\ HostOf[o] \in seek[w].at => o \in have[w]
        BY <1>2, <1>4 DEF Beginning
      <3>2. w \in {g} /\ stage[w] = "eager" => seek[w].pc \in {"ready", "ask"}
        BY <1>2
      <3> HIDE DEF have
      <3>3. QED
        BY <1>1, <1>2, <1>4, <2>1, <3>1, <3>2, FoundKeeps
    <2>3. QED
      BY <1>1, <2>2, StepKeepsRoomInv
  <1> HIDE DEF h, urls, shared, have
  <1>5. ASSUME NEW on \in Guests \cup {Nobody},
               seek' = [seek EXCEPT ![g] = [@ EXCEPT !.pc = "ask", !.on = on]],
               on = g \/ Leans({g}),
               UNCHANGED << stage, told >>
        PROVE  RoomInv'
    <2>1. \A w \in Guests : w # g => Bystander(w)
      BY <1>1, <1>2, <1>5, RoomTypes DEF Bystander
    <2>2. Keeps(g)
      <3>1. /\ seek'[g].pc = "ask" /\ seek'[g].on = on /\ seek'[g].at = seek[g].at
            /\ stage' = stage /\ told' = told
        BY <1>1, <1>5, RoomTypes DEF SeekRecord
      <3>2. IsListed(g)'
        BY <1>2, <3>1 DEF RoomInv, IsListed
      <3>3. CASE g \in leant'
        BY <3>2, <3>3 DEF Keeps
      <3>4. CASE g \notin leant' /\ stage[g] \in Beginning
        <4>1. OnItsOwn(g) /\ on = g
          BY <1>1, <1>2, <1>5, <3>4, OwnTask DEF Grows
        <4>2. OnItsOwn(g)'
          BY <1>2, <3>1, <4>1 DEF OnItsOwn
        <4>3. HasRead(g)' => HasRead(g)
          BY <1>2, <3>1 DEF HasRead
        <4>4. \A o \in rows : Sees(g, o) => Sees(g, o)'
          BY <1>2, <3>1 DEF Sees
        <4>5. QED
          BY <3>2, <4>2, <4>3, <4>4 DEF Keeps
      <3>5. CASE stage[g] \notin Beginning
        <4>1. Bystander(g)
          BY <1>2, <3>1, <3>5 DEF Bystander, Beginning
        <4>2. QED
          BY <1>1, <4>1, BystanderKeeps
      <3>6. QED
        BY <3>3, <3>4, <3>5
    <2>3. QED
      BY <1>1, <2>1, <2>2, BystanderKeeps, StepKeepsRoomInv
  <1>6. QED
    BY <1>3, <1>4, <1>5

LEMMA RoundEndsKeeps ==
    ASSUME RoomInv, NEW g \in Guests, RoundEnds(g)
    PROVE  RoomInv'
  <1> DEFINE urls == seek[g].at \ {HostOf[g]}
             heirs == Waiting(g, "ask")
  <1>1. RoomTypeOK /\ RoomTypeOK' /\ Grows
    BY RoundEndsTypes DEF RoomInv
  <1>2. PICK answering \in {urls} \cup {urls \ {o} : o \in urls} :
           LET got == UNION {Listed(o) : o \in answering} IN
           /\ answering = urls \/ Leans(heirs)
           /\ Found(heirs, [w \in heirs |-> seek[w].have \cup (got \ {w})])
    BY ZenonT(30) DEF RoundEnds
  <1> DEFINE got == UNION {Listed(o) : o \in answering}
             have == [w \in heirs |-> seek[w].have \cup (got \ {w})]
  <1>3. heirs \in SUBSET Guests /\ have \in [heirs -> SUBSET Guests]
    <2>1. got \in SUBSET Guests
      BY <1>1, HostsAndPeers
    <2>2. QED
      BY <1>1, <2>1, HostsAndPeers DEF Waiting
  <1>4. UNCHANGED pub /\ rows \subseteq Guests
    BY <1>1, RoomTypes DEF RoundEnds
  <1>5. ASSUME NEW w \in Guests PROVE Keeps(w)
    <2>1. w \in heirs /\ stage[w] = "eager" => seek[w].pc \in {"ready", "ask"}
      BY DEF Waiting
    <2>2. ASSUME w \in heirs, stage[w] = "second", w \notin leant'
          PROVE  /\ seek[w].pc \in {"ready", "ask"}
                 /\ \A o \in rows : HostOf[o] # HostOf[w] /\ HostOf[o] \in seek[w].at => o \in have[w]
      <3>1. seek[w].pc = "ask" /\ seek[w].on = g
        BY <2>2 DEF Waiting
      <3>2. w = g
        <4>1. OnItsOwn(w)
          BY <1>1, <2>2, OwnTask DEF Grows
        <4>2. QED
          BY <2>2, <3>1, <4>1 DEF OnItsOwn
      <3>3. answering = urls
        BY <1>2, <2>2 DEF Leans, Beginning
      <3>4. ASSUME NEW o \in rows, HostOf[o] # HostOf[w], HostOf[o] \in seek[w].at PROVE o \in have[w]
        <4>1. HostOf[o] \in answering
          BY <3>2, <3>3, <3>4
        <4>2. o \in got
          BY <1>4, <4>1 DEF Listed
        <4>3. QED
          BY <2>2, <3>4, <4>2
      <3>5. QED
        BY <3>1, <3>4
    <2>3. Found(heirs, have)
      BY <1>2, Zenon
    <2> HIDE DEF heirs, have, urls, got
    <2>4. QED
      BY <1>1, <1>3, <1>4, <2>1, <2>2, <2>3, FoundKeeps
  <1>6. QED
    BY <1>1, <1>5, StepKeepsRoomInv

LEMMA RepliesLocalKeeps ==
    ASSUME RoomInv, NEW g \in Guests, RepliesLocal(g)
    PROVE  RoomInv'
  <1> DEFINE have == [w \in {g} |-> Listed(HostOf[g]) \ {g}]
  <1>1. RoomTypeOK' /\ Grows
    BY TaskTypes DEF RoomInv
  <1>2. have \in [{g} -> SUBSET Guests]
    BY HostsAndPeers DEF RoomInv
  <1>3. Found({g}, have) /\ pub' = pub /\ stage[g] = "discover"
    BY DEF RepliesLocal
  <1> HIDE DEF have
  <1>4. ASSUME NEW w \in Guests PROVE Keeps(w)
    BY <1>1, <1>2, <1>3, FoundKeeps
  <1>5. QED
    BY <1>1, <1>4, StepKeepsRoomInv

LEMMA JoinKeeps ==
    ASSUME RoomInv, NEW g \in Guests, Join(g)
    PROVE  RoomInv'
  <1>1. RoomTypeOK /\ RoomTypeOK' /\ Grows
    BY JoinTypes, Zenon DEF RoomInv
  <1>2. /\ stage[g] = "out" /\ rows' = rows \cup {g} /\ told' = told
        /\ stage' = [stage EXCEPT ![g] = "eager"] /\ pub' = [pub EXCEPT ![g].pc = "start"]
        /\ Seek(g, Listed(HostOf[g]))
    BY DEF Join
  <1>3. /\ stage'[g] = "eager" /\ pub'[g].pc = "start" /\ g \in rows'
        /\ \A w \in Guests \ {g} : stage'[w] = stage[w] /\ pub'[w] = pub[w]
    BY <1>1, <1>2, RoomTypes DEF PubRecord
  <1>4. /\ \A w \in Guests \ {g} : seek'[w] = seek[w]
        /\ g \notin leant' => seek'[g].pc = "walk" /\ seek'[g].on = g
    BY <1>1, <1>2, <1>3, RoomTypes DEF Seek, OwnLookup, Leans, Beginning
  <1>5. \A w \in Guests \ {g} : Keeps(w)
    BY <1>1, <1>2, <1>3, <1>4, BystanderKeeps DEF Bystander
  <1>6. Keeps(g)
    <2>1. IsListed(g)'
      BY <1>3 DEF IsListed
    <2>2. g \notin leant' => OnItsOwn(g)'
      BY <1>3, <1>4 DEF OnItsOwn
    <2>3. ~ HasRead(g)'
      BY <1>3 DEF HasRead
    <2>4. \A o \in rows : Sees(g, o) => Sees(g, o)'
      BY <1>2 DEF Sees
    <2>5. QED
      BY <2>1, <2>2, <2>3, <2>4 DEF Keeps
  <1>7. QED
    BY <1>1, <1>5, <1>6, StepKeepsRoomInv

LEMMA LookAgainKeeps ==
    ASSUME RoomInv, NEW g \in Guests, LookAgain(g)
    PROVE  RoomInv'
  <1>1. RoomTypeOK /\ RoomTypeOK' /\ Grows
    BY TaskTypes, Zenon DEF RoomInv
  <1>2. /\ stage[g] = "await" /\ pub[g].pc \in {"done", "throttled"} /\ told' = told /\ rows' = rows
        /\ stage' = [stage EXCEPT ![g] = "second"] /\ pub' = [pub EXCEPT ![g] = NoPub]
        /\ pub[g].pc = "done" =>
             seek' = [seek EXCEPT ![g] = [NoSeek EXCEPT !.pc = "ready", !.have = Listed(HostOf[g]) \ {g},
                                                        !.at = pub[g].got]]
        /\ pub[g].pc # "done" => Seek(g, Listed(HostOf[g]) \ {g})
    BY DEF LookAgain
  <1>3. /\ stage'[g] = "second"
        /\ \A w \in Guests \ {g} : stage'[w] = stage[w] /\ pub'[w] = pub[w]
    BY <1>1, <1>2, RoomTypes
  <1>4. /\ \A w \in Guests \ {g} : seek'[w] = seek[w]
        /\ pub[g].pc = "done" => seek'[g].pc = "ready" /\ seek'[g].at = pub[g].got
    <2>1. CASE pub[g].pc = "done"
      <3> DEFINE look == [NoSeek EXCEPT !.pc = "ready", !.have = Listed(HostOf[g]) \ {g}, !.at = pub[g].got]
      <3>1. look.pc = "ready" /\ look.at = pub[g].got
        BY DEF NoSeek
      <3>2. seek' = [seek EXCEPT ![g] = look]
        BY <1>2, <2>1
      <3> HIDE DEF look
      <3>3. QED
        BY <1>1, <3>1, <3>2, RoomTypes
    <2>2. CASE pub[g].pc # "done"
      BY <1>1, <1>2, <2>2, RoomTypes DEF Seek, OwnLookup
    <2>3. QED
      BY <2>1, <2>2
  <1>5. \A w \in Guests \ {g} : Keeps(w)
    BY <1>1, <1>2, <1>3, <1>4, BystanderKeeps DEF Bystander
  <1>6. Keeps(g)
    <2>1. IsListed(g)'
      BY <1>1, <1>2 DEF IsListed, RoomInv, Grows
    <2>2. CASE g \in leant'
      BY <2>1, <2>2 DEF Keeps
    <2>3. CASE g \notin leant'
      <3>1. OnItsOwn(g) /\ kept \subseteq kept'
        BY <1>1, <2>3, OwnTask DEF Grows
      <3>2. pub[g].pc = "done"
        BY <1>2, <3>1 DEF OnItsOwn
      <3>3. OnItsOwn(g)'
        BY <1>2, <1>3, <1>4, <3>1, <3>2 DEF OnItsOwn
      <3>4. HasRead(g)
        BY <1>2, <3>2 DEF HasRead
      <3>5. \A o \in rows : Sees(g, o) => Sees(g, o)'
        BY <1>2, <1>3, <1>4, <3>2 DEF Sees
      <3>6. QED
        BY <2>1, <3>3, <3>4, <3>5 DEF Keeps
    <2>4. QED
      BY <2>2, <2>3
  <1>7. QED
    BY <1>1, <1>5, <1>6, StepKeepsRoomInv

LEMMA JoinedKeeps ==
    ASSUME RoomInv, NEW g \in Guests, Joined(g)
    PROVE  RoomInv'
  <1>1. RoomTypeOK /\ RoomTypeOK' /\ Grows
    BY TaskTypes, Zenon DEF RoomInv
  <1>2. /\ rows' = rows /\ kept' = kept /\ leant' = leant
        /\ \/ stage[g] = "close" /\ pub[g].pc \in {"done", "throttled"}
           \/ stage[g] = "second" /\ seek[g].pc = "found"
        /\ Broadcast(g, seek[g].have)
        /\ stage' = [stage EXCEPT ![g] = "in"]
        /\ seek' = [seek EXCEPT ![g] = NoSeek] /\ pub' = [pub EXCEPT ![g] = NoPub]
    BY DEF Joined, records
  <1>3. /\ stage'[g] = "in"
        /\ \A w \in Guests \ {g} : stage'[w] = stage[w] /\ pub'[w] = pub[w] /\ seek'[w] = seek[w]
    BY <1>1, <1>2, RoomTypes
  <1>4. /\ \A w \in Guests : told[w] \subseteq told'[w]
        /\ seek[g].have \ {g} \subseteq told'[g]
    BY <1>1, <1>2, RoomTypes DEF Broadcast
  <1>5. \A w \in Guests \ {g} : Keeps(w)
    BY <1>1, <1>3, <1>4, BystanderKeeps DEF Bystander
  <1>6. Keeps(g)
    <2>1. IsListed(g)'
      BY <1>2 DEF IsListed, RoomInv
    <2>2. CASE g \in leant'
      BY <2>1, <2>2 DEF Keeps
    <2>3. CASE g \notin leant'
      <3>1. OnItsOwn(g)
        BY <1>2, <2>3, OwnTask
      <3>2. /\ stage[g] = "close" => pub[g].pc = "done" /\ told[g] # {}
            /\ HostOf[g] \in kept
        BY <1>2, <3>1 DEF OnItsOwn
      <3>3. OnItsOwn(g)'
        BY <1>2, <1>3, <3>2 DEF OnItsOwn
      <3>4. HasRead(g)
        BY <1>2, <3>2 DEF HasRead
      <3>5. \A o \in rows : HostOf[o] # HostOf[g] /\ Sees(g, o) => Sees(g, o)'
        <4> SUFFICES ASSUME NEW o \in rows, HostOf[o] # HostOf[g], Sees(g, o)
                     PROVE  told'[g] # {}
          BY DEF Sees
        <4>1. told[g] # {} \/ o \in seek[g].have \ {g}
          BY <1>2, <3>2 DEF Sees
        <4>2. QED
          BY <1>4, <4>1
      <3>6. QED
        BY <2>1, <3>3, <3>4, <3>5 DEF Keeps
    <2>4. QED
      BY <2>2, <2>3
  <1>7. QED
    BY <1>1, <1>5, <1>6, StepKeepsRoomInv

LEMMA JoinFailsKeeps ==
    ASSUME RoomInv, NEW g \in Guests, JoinFails(g)
    PROVE  RoomInv'
  <1>1. RoomTypeOK /\ RoomTypeOK' /\ Grows
    BY TaskTypes, Zenon DEF RoomInv
  <1>2. /\ rows' = rows /\ leant' = leant /\ told' = told
        /\ \/ stage[g] \in {"eager", "second"} /\ seek[g].pc = "failed"
           \/ stage[g] \in {"await", "close"} /\ pub[g].pc = "failed"
        /\ stage' = [stage EXCEPT ![g] = "in"]
        /\ seek' = [seek EXCEPT ![g] = NoSeek] /\ pub' = [pub EXCEPT ![g] = NoPub]
    BY DEF JoinFails
  <1>3. \A w \in Guests \ {g} : Keeps(w)
    BY <1>1, <1>2, BystanderKeeps, RoomTypes DEF Bystander
  <1>4. g \in leant
    <2> SUFFICES ASSUME g \notin leant PROVE FALSE
      OBVIOUS
    <2>1. OnItsOwn(g)
      BY OwnTask
    <2>2. QED
      BY <1>2, <2>1 DEF OnItsOwn
  <1>5. Keeps(g)
    BY <1>2, <1>4 DEF Keeps, IsListed, RoomInv
  <1>6. QED
    BY <1>1, <1>3, <1>5, StepKeepsRoomInv

LEMMA PublishKeeps ==
    ASSUME RoomInv, NEW g \in Guests, Publish(g)
    PROVE  RoomInv'
  <1>1. RoomTypeOK /\ RoomTypeOK' /\ Grows
    BY PublicationTypes, Zenon DEF RoomInv
  <1>2. /\ rows' = rows /\ stage' = stage /\ seek' = seek /\ told' = told /\ pub[g].pc = "start"
        /\ \/ pub' = [pub EXCEPT ![g].pc = "throttled"] /\ Leans({g})
           \/ pub' = [pub EXCEPT ![g].pc = "read"] /\ kept' = kept \cup {HostOf[g]}
    BY DEF Publish, KeptFirst
  <1>3. \A w \in Guests : w # g \/ stage[g] \notin {"eager", "await", "close"} => Keeps(w)
    BY <1>1, <1>2, BystanderKeeps, RoomTypes DEF Bystander
  <1>4. ASSUME stage[g] \in {"eager", "await", "close"} PROVE Keeps(g)
    <2>1. IsListed(g)'
      BY <1>2 DEF IsListed, RoomInv
    <2>2. CASE g \in leant'
      BY <2>1, <2>2 DEF Keeps
    <2>3. CASE g \notin leant'
      <3>1. OnItsOwn(g)
        BY <1>1, <2>3, OwnTask DEF Grows
      <3>2. pub'[g].pc = "read" /\ kept' = kept \cup {HostOf[g]}
        BY <1>1, <1>2, <1>4, <2>3, RoomTypes DEF Leans, Beginning, PubRecord
      <3>3. OnItsOwn(g)'
        BY <1>2, <1>4, <3>1, <3>2 DEF OnItsOwn
      <3>4. ~ HasRead(g)'
        BY <1>2, <1>4, <3>2 DEF HasRead
      <3>5. \A o \in rows : Sees(g, o) => Sees(g, o)'
        BY <1>2, <1>4 DEF Sees
      <3>6. QED
        BY <2>1, <3>3, <3>4, <3>5 DEF Keeps
    <2>4. QED
      BY <2>2, <2>3
  <1>5. QED
    BY <1>1, <1>3, <1>4, StepKeepsRoomInv

LEMMA ReadsKeeps ==
    ASSUME RoomInv, NEW g \in Guests, Reads(g)
    PROVE  RoomInv'
  <1>1. RoomTypeOK /\ RoomTypeOK' /\ Grows
    BY PublicationTypes, Zenon DEF RoomInv
  <1>2. /\ rows' = rows /\ stage' = stage /\ seek' = seek /\ told' = told /\ kept' = kept /\ leant' = leant
        /\ pub[g].pc = "read"
        /\ pub' = [pub EXCEPT ![g] = [pc |-> "place", got |-> Records(HostOf[g])]]
    BY DEF Reads, records
  <1>3. \A w \in Guests : w # g \/ stage[g] \notin {"eager", "await", "close"} => Keeps(w)
    BY <1>1, <1>2, BystanderKeeps, RoomTypes DEF Bystander
  <1>4. ASSUME stage[g] \in {"eager", "await", "close"} PROVE Keeps(g)
    <2>1. IsListed(g)'
      BY <1>2 DEF IsListed, RoomInv
    <2>2. CASE g \in leant'
      BY <2>1, <2>2 DEF Keeps
    <2>3. CASE g \notin leant'
      <3>1. OnItsOwn(g)
        BY <1>2, <2>3, OwnTask
      <3>2. pub'[g].pc = "place" /\ pub'[g].got = Records(HostOf[g])
        BY <1>1, <1>2, RoomTypes
      <3>3. OnItsOwn(g)'
        BY <1>2, <1>4, <3>1, <3>2 DEF OnItsOwn
      <3>4. NewlyRead(g)
        BY <1>2, <1>4, <3>2 DEF NewlyRead
      <3>5. \A o \in rows : Sees(g, o) => Sees(g, o)'
        BY <1>2, <1>4 DEF Sees
      <3>6. QED
        BY <2>1, <3>3, <3>4, <3>5 DEF Keeps
    <2>4. QED
      BY <2>2, <2>3
  <1>5. QED
    BY <1>1, <1>3, <1>4, StepKeepsRoomInv

LEMMA PlacesKeeps ==
    ASSUME RoomInv, NEW g \in Guests, Places(g)
    PROVE  RoomInv'
  <1>1. RoomTypeOK /\ RoomTypeOK' /\ Grows
    BY PublicationTypes, Zenon DEF RoomInv
  <1>2. /\ rows' = rows /\ stage' = stage /\ seek' = seek /\ told' = told /\ leant' = leant
        /\ kept' = kept \cup {HostOf[g]} /\ pub[g].pc = "place"
        /\ pub' = [pub EXCEPT ![g].pc = "done"]
    BY DEF Places
  <1>3. \A w \in Guests : w # g \/ stage[g] \notin {"eager", "await", "close"} => Keeps(w)
    BY <1>1, <1>2, BystanderKeeps, RoomTypes DEF Bystander
  <1>4. ASSUME stage[g] \in {"eager", "await", "close"} PROVE Keeps(g)
    <2>1. IsListed(g)'
      BY <1>2 DEF IsListed, RoomInv
    <2>2. CASE g \in leant'
      BY <2>1, <2>2 DEF Keeps
    <2>3. CASE g \notin leant'
      <3>1. OnItsOwn(g)
        BY <1>2, <2>3, OwnTask
      <3>2. pub'[g].pc = "done" /\ pub'[g].got = pub[g].got
        BY <1>1, <1>2, RoomTypes DEF PubRecord
      <3>3. OnItsOwn(g)'
        BY <1>2, <1>4, <3>1, <3>2 DEF OnItsOwn
      <3>4. HasRead(g)
        BY <1>2, <1>4 DEF HasRead
      <3>5. \A o \in rows : Sees(g, o) => Sees(g, o)'
        BY <1>2, <1>4, <3>2 DEF Sees
      <3>6. QED
        BY <2>1, <3>3, <3>4, <3>5 DEF Keeps
    <2>4. QED
      BY <2>2, <2>3
  <1>5. QED
    BY <1>1, <1>3, <1>4, StepKeepsRoomInv

LEMMA PublishFailsKeeps ==
    ASSUME RoomInv, NEW g \in Guests, PublishFails(g)
    PROVE  RoomInv'
  <1>1. RoomTypeOK /\ RoomTypeOK' /\ Grows
    BY PublicationTypes, Zenon DEF RoomInv
  <1>2. /\ rows' = rows /\ stage' = stage /\ seek' = seek /\ told' = told
        /\ pub' = [pub EXCEPT ![g] = [NoPub EXCEPT !.pc = "failed"]]
        /\ stage[g] \in Beginning => g \in leant'
    BY DEF PublishFails, Leans
  <1>3. \A w \in Guests : w # g \/ stage[g] \notin {"eager", "await", "close"} => Keeps(w)
    BY <1>1, <1>2, BystanderKeeps, RoomTypes DEF Bystander
  <1>4. stage[g] \in {"eager", "await", "close"} => Keeps(g)
    BY <1>2 DEF Keeps, IsListed, RoomInv, Beginning
  <1>5. QED
    BY <1>1, <1>3, <1>4, StepKeepsRoomInv

\* What is not part of a joining peer's task.
LEMMA OtherStepsKeep ==
    ASSUME RoomInv, NEW g \in Guests, NEW h \in Hosts,
           Beat(g) \/ Beaten(g) \/ Discover(g) \/ AgeLookup(h) \/ AgeRound(h) \/ Unmark(h)
    PROVE  RoomInv'
  <1>1. RoomTypeOK /\ RoomTypeOK' /\ Grows
    BY PublicationTypes, TaskTypes, AgeTypes, Zenon DEF RoomInv
  <1>2. ASSUME NEW w \in Guests PROVE Bystander(w)
    <2>1. CASE Beat(g) \/ Beaten(g)
      BY <1>1, <2>1, RoomTypes DEF Bystander, Beat, Beaten
    <2>2. CASE Discover(g)
      <3>1. \A v \in Guests \ {g} : stage'[v] = stage[v] /\ seek'[v] = seek[v]
        BY <1>1, <2>2, RoomTypes DEF Discover, Seek, OwnLookup
      <3>2. stage[g] = "in" /\ stage'[g] = "discover" /\ told' = told /\ pub' = pub
        BY <1>1, <2>2, RoomTypes DEF Discover
      <3>3. QED
        BY <3>1, <3>2 DEF Bystander
    <2>3. CASE AgeLookup(h) \/ AgeRound(h) \/ Unmark(h)
      BY <2>3 DEF Bystander, AgeLookup, AgeRound, Unmark
    <2>4. QED
      BY <2>1, <2>2, <2>3
  <1>3. QED
    BY <1>1, <1>2, BystanderKeeps, StepKeepsRoomInv

-----------------------------------------------------------------------------
(* The theorem *)

LEMMA RoomInitInv == RoomInit => RoomInv
  <1> SUFFICES ASSUME RoomInit PROVE RoomInv
    OBVIOUS
  <1>1. RoomTypeOK
    <2>1. lookup \in Walks
      BY FirstRecords DEF RoomInit, Walks
    <2>2. round \in Rounds
      BY FirstRecords DEF RoomInit, Rounds
    <2>3. stage \in [Guests -> Stages]
      BY DEF RoomInit, Stages, Beginning
    <2>4. seek \in [Guests -> SeekRecord] /\ pub \in [Guests -> PubRecord] /\ told \in [Guests -> SUBSET Guests]
      BY FirstRecords DEF RoomInit
    <2>5. kept \in SUBSET Hosts
      BY DEF RoomInit
    <2>6. QED
      BY <2>1, <2>2, <2>3, <2>4, <2>5, RoomTypes DEF RoomInit
  <1>2. \A g \in Guests : stage[g] \in {"out", "away"} \/ (stage[g] = "in" /\ g = First /\ First \in rows)
    BY DEF RoomInit
  <1>3. \A g \in Guests : IsListed(g) /\ OnItsOwn(g)
    BY <1>2 DEF RoomInit, IsListed, OnItsOwn
  <1>4. \A g, o \in Guests : OneSees(g, o)
    BY <1>2 DEF OneSees, Reached, HasRead
  <1>5. QED
    BY <1>1, <1>3, <1>4 DEF RoomInv

LEMMA RoomNextInv == RoomInv /\ [RoomNext]_roomVars => RoomInv'
  <1> SUFFICES ASSUME RoomInv, [RoomNext]_roomVars PROVE RoomInv'
    OBVIOUS
  <1>1. CASE UNCHANGED roomVars
    <2>1. RoomTypeOK /\ RoomTypeOK' /\ Grows
      BY <1>1, RoomTypes, RoomTypesNext DEF RoomInv, Grows, roomVars
    <2>2. \A w \in Guests : Bystander(w)
      BY <1>1 DEF Bystander, roomVars
    <2>3. QED
      BY <2>1, <2>2, BystanderKeeps, StepKeepsRoomInv
  <1>2. ASSUME NEW g \in Guests,
               Join(g) \/ Runs(g) \/ Publishes(g) \/ Discover(g) \/ Beat(g) \/ WalkFails(g) \/ PublishFails(g)
        PROVE  RoomInv'
    <2>1. CASE Runs(g)
      BY <2>1, WalkEndsKeeps, RetryKeeps, AskKeeps, RoundEndsKeeps, LookAgainKeeps, JoinedKeeps,
         JoinFailsKeeps, RepliesLocalKeeps DEF Runs
    <2>2. CASE Beaten(g) \/ Discover(g) \/ Beat(g)
      <3>1. HostOf[g] \in Hosts
        BY HostsAndPeers DEF RoomInv
      <3>2. QED
        BY <2>2, <3>1, OtherStepsKeep
    <2>3. CASE Join(g) \/ Publish(g) \/ Reads(g) \/ Places(g) \/ WalkFails(g) \/ PublishFails(g)
      BY <2>3, JoinKeeps, PublishKeeps, ReadsKeeps, PlacesKeeps, WalkFailsKeeps, PublishFailsKeeps
    <2>4. QED
      BY <1>2, <2>1, <2>2, <2>3 DEF Publishes
  <1>3. ASSUME NEW h \in Hosts, AgeLookup(h) \/ AgeRound(h) \/ Unmark(h) PROVE RoomInv'
    BY <1>3, OtherStepsKeep, RoomDiscoveryAssumption
  <1>4. QED
    BY <1>1, <1>2, <1>3 DEF RoomNext

\* Of two that have joined, one has been told of somebody.
LEMMA RoomInvMeans == RoomInv => RoomsAreSound
  <1> SUFFICES ASSUME RoomInv, NEW g \in Guests, NEW o \in Guests,
                      HostOf[g] # HostOf[o], {stage[g], stage[o]} \subseteq {"in", "discover"},
                      HostOf[o] \in reaches[HostOf[g]], HostOf[g] \in reaches[HostOf[o]],
                      {g, o} \cap leant = {}
               PROVE  told[g] \cup told[o] # {}
    BY DEF RoomsAreSound, NotBothAlone, RoomInv
  <1>1. OneSees(g, o) /\ Reached(g, o) /\ HasRead(g) /\ HasRead(o)
    BY DEF RoomInv, Reached, HasRead
  <1>2. Sees(g, o) \/ Sees(o, g)
    BY <1>1 DEF OneSees
  <1>3. QED
    BY <1>2 DEF Sees

\* Two peers that join one room at two relays are not both told of nobody.
THEOREM RoomsStaySound == RoomSpec => []RoomsAreSound
  <1>1. RoomSpec => []RoomInv
    BY RoomInitInv, RoomNextInv, PTL DEF RoomSpec
  <1>2. QED
    BY <1>1, RoomInvMeans, PTL
=============================================================================
