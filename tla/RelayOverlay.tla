----------------------------- MODULE RelayOverlay -----------------------------
(***************************************************************************)
(* The Kademlia overlay of relays (src/src/relay-overlay.js, kademlia.js): *)
(* a relay that serves a room stores a provider record at the relays whose *)
(* ids are nearest to the room's key, and a relay that has just joined     *)
(* finds it by asking relays ever nearer to that key.  Relays know a       *)
(* bounded number of others in each bucket, learn of each other from every *)
(* call, and may crash.                                                    *)
(*                                                                         *)
(* Ids have Bits bits.  The provider and the finder do one walk each.      *)
(* Signatures, and records that expire, are left out.                      *)
(***************************************************************************)
EXTENDS Integers, Sequences, SequencesExt, FiniteSetsExt, Bitwise

CONSTANTS
    Bits,           \* KADEMLIA_ID_BITS
    BucketSize,     \* DEFAULT_K_BUCKET_SIZE
    Alpha,          \* DEFAULT_LOOKUP_ALPHA
    Replication,    \* DEFAULT_REPLICATION_FACTOR
    MaxQueries,     \* MAX_LOOKUP_QUERIES
    Settled,        \* how many relays there are when the finder joins
    MaxCrashes      \* bound on the relays that crash

ASSUME RelayOverlayAssumption ==
    /\ {Bits, BucketSize, Alpha, Replication, MaxQueries, Settled} \subseteq Nat \ {0}
    /\ MaxCrashes \in Nat

Ids == 0 .. 2 ^ Bits - 1
\* Distances are the same from every id: the finder may as well be 0.
Finder == 0

VARIABLES
    up,         \* the relays that answer
    provider,   \* the relay that serves the room
    key,        \* scopeRoutingKey
    table,      \* psp_kad_nodes of each relay
    holders,    \* relays that store the provider's record (psp_kad_records)
    walk,       \* the walk of the provider and that of the finder
    crashes     \* how many have crashed

overlayVars == << up, provider, key, table, holders, walk, crashes >>

Walks == {"publish", "find"}
Who(w) == IF w = "publish" THEN provider ELSE Finder

-----------------------------------------------------------------------------
(* kademlia.js *)

\* xorDistanceHex
Distance == [a \in Ids, b \in Ids |-> a ^^ b]

\* bucketIndex
BucketIndex ==
    [a \in Ids, b \in Ids |->
        IF a = b THEN -1 ELSE CHOOSE i \in 0 .. Bits - 1 : Distance[a, b] \in 2 ^ i .. 2 ^ (i + 1) - 1]

\* The members of a set, in order.
Ascending(S) == [i \in 1 .. Cardinality(S) |-> CHOOSE x \in S : Cardinality({y \in S : y < x}) = i - 1]

Buckets == 0 .. Bits - 1
Bucket(n, i, S) == {c \in S : BucketIndex[n, c] = i}

\* selectClosestNodes
SelectClosest(S, target, n) ==
    {x \in S : Cardinality({y \in S : Distance[y, target] < Distance[x, target]}) < n}

-----------------------------------------------------------------------------
(* relay-overlay.js *)

\* listActiveNodeRecords
ContactsIn(t) == UNION {Range(t[i]) : i \in Buckets}
Contacts(n) == ContactsIn(table[n])

\* upsertNodeRecord: relays that are new are written, at one time, in front of the
\* rest of their bucket, whose oldest are dropped.  A contact already known is not
\* written again: a walk is shorter than half the life of a record.
Learned(n, heard) ==
    [i \in Buckets |->
        LET all == Ascending(Bucket(n, i, heard) \ Range(table[n][i])) \o table[n][i]
        IN  SubSeq(all, 1, IF Len(all) < BucketSize THEN Len(all) ELSE BucketSize)]

\* Those that were called learn of the caller, and the caller of those that its
\* answers name and it does not know yet (acceptLookupResponse): a contact that it
\* has called, and its table has dropped, is not learned again.
Meets(caller, called, new) ==
    table' = [n \in Ids |-> IF n = caller THEN Learned(n, new)
                            ELSE IF n \in called THEN Learned(n, {caller}) ELSE table[n]]

\* mutant: the relays nearest to the one that is asked
NamedNearSelf(m, caller, target) ==
    SelectClosest(ContactsIn(Learned(m, {caller})) \cup {m}, m, BucketSize)

\* /api/v1/kad/find: the relays it names.  The caller has been learned before, and
\* takes its place in the bucket, and among those named.
Named(m, caller, target) ==
    SelectClosest(ContactsIn(Learned(m, {caller})) \cup {m}, target, BucketSize)

\* Each of some relays knows one of them in every bucket where there is one.
Complete(alive) ==
    \A n \in alive : \A i \in Buckets :
       Bucket(n, i, alive) # {} => alive \cap Range(table[n][i]) # {}

Idle == [pc |-> "idle", known |-> {}, queried |-> {}, count |-> 0, found |-> FALSE]

OverlayTypeOK ==
    /\ up \subseteq Ids /\ provider \in Ids \ {Finder} /\ key \in Ids
    /\ \A n \in Ids : \A i \in Buckets : table[n][i] \in Seq(Ids)
    /\ holders \subseteq Ids
    /\ walk \in [Walks -> [pc : {"idle", "walking", "storing", "over"}, known : SUBSET Ids,
                           queried : SUBSET Ids, count : Nat, found : BOOLEAN]]
    /\ crashes \in 0 .. MaxCrashes
    \* a bucket holds no more than it may, and no contact twice
    /\ \A n \in Ids : \A i \in Buckets :
          Len(table[n][i]) <= BucketSize /\ IsInjective(table[n][i])

\* A bucket as full as it can be: of the relays with the lowest ids, or the highest.
Filled(n, i, R, low) ==
    LET all == IF low THEN Ascending(Bucket(n, i, R)) ELSE Reverse(Ascending(Bucket(n, i, R)))
    IN  SubSeq(all, 1, IF Len(all) < BucketSize THEN Len(all) ELSE BucketSize)

\* Relays R are up, and know each other as well as buckets of that size let them.
Starts(R, p, k, low) ==
    /\ up = R \cup {Finder}
    /\ provider = p
    /\ key = k
    /\ table = [n \in Ids |-> [i \in Buckets |->
                  IF n \notin R THEN << >> ELSE Filled(n, i, R, low)]]
    /\ holders = {}
    /\ walk = [w \in Walks |-> Idle]
    /\ crashes = 0

OverlayInit ==
    \E R \in kSubset(Settled, Ids \ {Finder}), k \in Ids, low \in BOOLEAN :
       \E p \in R : Starts(R, p, k, low)

-----------------------------------------------------------------------------
(* Walks *)

\* publishPeerProviderRecords: the record is stored here, and its walk begins
\* with the contacts of the table (iterativeLookup).
PublishRecord ==
    /\ walk["publish"].pc = "idle" /\ provider \in up
    /\ holders' = {provider}
    /\ walk' = [walk EXCEPT !["publish"] = [@ EXCEPT !.pc = "walking", !.known = Contacts(provider)]]
    /\ UNCHANGED << up, provider, key, table, crashes >>

\* joinBootstrap: the first seed that answers is enough; it names the relays
\* nearest to the one that joins.  Then lookupProviders.
Join ==
    /\ walk["find"].pc = "idle" /\ walk["publish"].pc = "over"
    /\ \E seed \in up \ {Finder} :
          LET named == {seed} \cup (Named(seed, Finder, Finder) \ {Finder})
          IN  /\ Meets(Finder, {seed}, named)
              /\ walk' = [walk EXCEPT !["find"] = [@ EXCEPT !.pc = "walking", !.known = ContactsIn(table'[Finder])]]
    /\ UNCHANGED << up, provider, key, holders, crashes >>

\* mutant: those that were asked are not crossed out
ShortlistAgain(w) == SelectClosest(walk[w].known, key, 2 * BucketSize)

\* The shortlist of a walk, and those of it that have not been asked.
Shortlist(w) == SelectClosest(walk[w].known, key, 2 * BucketSize) \ walk[w].queried

\* Who is asked next.
Batch(w) ==
    LET left == MaxQueries - walk[w].count
    IN  SelectClosest(Shortlist(w), key, IF left < Alpha THEN left ELSE Alpha)

\* A round of iterativeLookup: those that answer name relays nearer to the key,
\* and records.
Ask(w) ==
    /\ walk[w].pc = "walking" /\ Who(w) \in up
    /\ Batch(w) # {}
    /\ LET batch == Batch(w)
           answer == batch \cap up
           named == (UNION {Named(m, Who(w), key) : m \in answer}) \ {Who(w)}
       IN  /\ Meets(Who(w), answer, named \ walk[w].known)
           /\ walk' = [walk EXCEPT ![w] =
                 [@ EXCEPT !.known = @ \cup named, !.queried = @ \cup batch,
                           !.count = @ + Cardinality(batch),
                           !.found = @ \/ (w = "find" /\ answer \cap holders # {})]]
           /\ holders' = IF w = "find" /\ answer \cap holders # {} THEN holders \cup {Finder} ELSE holders
    /\ UNCHANGED << up, provider, key, crashes >>

WalkEnds(w) ==
    /\ walk[w].pc = "walking" /\ Who(w) \in up
    /\ Batch(w) = {}
    /\ walk' = [walk EXCEPT ![w].pc = IF w = "publish" THEN "storing" ELSE "over"]
    /\ UNCHANGED << up, provider, key, table, holders, crashes >>

\* mutant: the nearest to the provider
NearestToSelf == SelectClosest(walk["publish"].known, provider, Replication)

\* Where the record goes.
Nearest ==
    SelectClosest(SelectClosest(walk["publish"].known, key, BucketSize) \cup {provider}, key, Replication)

\* replicateProviderRecord, and /api/v1/kad/store at those that answer
Store ==
    /\ walk["publish"].pc = "storing" /\ provider \in up
    /\ LET stored == (Nearest \cap up) \ {provider}
       IN  /\ table' = [n \in Ids |-> IF n \in stored THEN Learned(n, {provider}) ELSE table[n]]
           /\ holders' = holders \cup stored
    /\ walk' = [walk EXCEPT !["publish"].pc = "over"]
    /\ UNCHANGED << up, provider, key, crashes >>

\* A relay crashes for good.  Those that go on are taken to have a live contact
\* in every bucket for which there is one.
Crash(n) ==
    /\ crashes < MaxCrashes /\ n \in up \ {Finder}
    /\ Complete(up \ {n, Finder})
    /\ up' = up \ {n}
    /\ crashes' = crashes + 1
    /\ UNCHANGED << provider, key, table, holders, walk >>

-----------------------------------------------------------------------------
OverlayNext ==
    \/ PublishRecord \/ Join \/ Store
    \/ \E w \in Walks : Ask(w) \/ WalkEnds(w)
    \/ \E n \in Ids : Crash(n)

OverlaySpec == OverlayInit /\ [][OverlayNext]_overlayVars

-----------------------------------------------------------------------------
(* Properties *)

\* A walk that is not cut short, by its bound or a crash, asks the relay nearest to
\* the key, although no relay knows more than a few of the others.
ReachesNearest ==
    [][\A w \in Walks :
          walk[w].pc = "walking" /\ walk'[w].pc # "walking" /\ walk[w].count < MaxQueries /\ crashes = 0 =>
             SelectClosest(up \ {Finder, Who(w)}, key, 1) \subseteq walk[w].queried]_overlayVars

\* A room that was published is found by a relay that knew nobody, from any seed,
\* although tables change under the walks and a relay crashes, unless none of those
\* asked to store the record is left.
RoomIsFound ==
    walk["find"].pc = "over" /\ provider \in up /\ up \cap (holders \ {Finder, provider}) # {} =>
       walk["find"].found

\* A walk ends, although the relays asked go on naming others: none is asked
\* twice, and no more than MAX_LOOKUP_QUERIES are.
WalkIsBounded ==
    \A w \in Walks : walk[w].count = Cardinality(walk[w].queried) /\ walk[w].count <= MaxQueries
=============================================================================
