----------------------------- MODULE AddressProofs -----------------------------
(***************************************************************************)
(* Proofs about the two ways a relay without a host name gets an address,  *)
(* for any homes, sockets, peers, requests, entries and requests under way *)
(* at once: no peer stays on a tunnel that goes nowhere, a late timeout    *)
(* spares the next tunnel, the address is the relay's own, and a relay has *)
(* a second entry in the directory only from first publishes that overlap. *)
(***************************************************************************)
EXTENDS MCAddresses, FiniteSetTheorems, WellFoundedInduction, TLAPS

USE TunnelAssumption, DirectoryAssumption

-----------------------------------------------------------------------------
(* The directory *)

Req == [kind : {"post", "delete"}, v : 1 .. MaxVersion, at : {"sent", "listed", "written"},
        mine : SUBSET EntryIds, first : EntryIds \cup {Nothing}, heard : BOOLEAN]

Process == [up : BOOLEAN, reach : BOOLEAN, nat : BOOLEAN, v : 0 .. MaxVersion,
            listed : BOOLEAN, withdrew : BOOLEAN]

DirectoryType ==
    /\ relay \in Process
    /\ reqs \in [Slots -> Req \cup {IdleReq}]
    \* nothing is asked for before the relay has a record
    /\ relay.v = 0 => ~ relay.up /\ \A i \in Slots : reqs[i] = IdleReq
    /\ entries \subseteq Entry
    /\ \A e, f \in entries : e.id = f.id => e = f
    /\ slips \in 0 .. MaxSlips

\* Each entry there is, or is to be added, has a slot.
EntriesHaveSlots ==
    /\ IsFiniteSet(entries)
    /\ Cardinality(entries) + Cardinality(FirstPublishes) <= Cardinality(Slots)

\* Until first publishes overlap, one of them at most is under way, and only while there
\* is no entry, and there is one entry at most.
OneUntilRaced ==
    /\ raced \in BOOLEAN
    /\ ~ raced =>
         /\ \A i, j \in FirstPublishes : i = j
         /\ FirstPublishes # {} => entries = {}
         /\ \A e, f \in entries : e = f

DirectoryInv == DirectoryType /\ EntriesHaveSlots /\ OneUntilRaced

-----------------------------------------------------------------------------
(* What the actions do to requests *)

LEMMA IdleIsNoRequest ==
    \A r \in Req \cup {IdleReq} : r.kind \in {"idle", "post", "delete"} /\ (r.kind # "idle" => r \in Req)
  BY DEF Req, IdleReq

LEMMA RequestType ==
    ASSUME NEW kind \in {"post", "delete"}, NEW v \in 1 .. MaxVersion
    PROVE  /\ Request(kind, v) \in Req
           /\ Request(kind, v).at = "sent"
  BY DEF Request, Req

LEMMA UnheardType ==
    ASSUME NEW r \in Req \cup {IdleReq}
    PROVE  /\ Unheard(r) \in Req \cup {IdleReq}
           /\ Unheard(r).kind = r.kind
           /\ r.kind = "idle" => Unheard(r) = r
           /\ r.kind # "idle" => Unheard(r).at = r.at /\ Unheard(r).first = r.first
  <1>1. CASE r.kind = "idle"
    BY <1>1 DEF Unheard
  <1>2. CASE r.kind # "idle"
    <2>1. r \in Req
      BY <1>2, IdleIsNoRequest
    <2>2. Unheard(r) = [r EXCEPT !.heard = FALSE]
      BY <1>2 DEF Unheard
    <2>3. QED
      BY <1>2, <2>1, <2>2 DEF Req
  <1>3. QED
    BY <1>1, <1>2

LEMMA ProcessUpdates ==
    \A d \in Process :
       /\ \A b \in BOOLEAN : LET u == [d EXCEPT !.up = b] IN u \in Process /\ u.v = d.v /\ u.up = b
       /\ \A b \in BOOLEAN : LET u == [d EXCEPT !.listed = b] IN u \in Process /\ u.v = d.v /\ u.up = d.up
       /\ \A b \in BOOLEAN : LET u == [d EXCEPT !.withdrew = b] IN u \in Process /\ u.v = d.v /\ u.up = d.up
       /\ \A b, c \in BOOLEAN :
             LET u == [d EXCEPT !.reach = b, !.withdrew = c] IN u \in Process /\ u.v = d.v /\ u.up = d.up
       /\ \A v \in 0 .. MaxVersion : LET u == [d EXCEPT !.v = v] IN u \in Process /\ u.v = v /\ u.up = d.up
  BY DEF Process

-----------------------------------------------------------------------------
(* Entries and their slots *)

\* An action that adds no entry and no request that will.
LEMMA NoMore ==
    ASSUME DirectoryInv, IsFiniteSet(entries'), Cardinality(entries') <= Cardinality(entries),
           FirstPublishes' \subseteq FirstPublishes
    PROVE  EntriesHaveSlots'
  <1>1. IsFiniteSet(FirstPublishes)
    BY FS_Subset DEF FirstPublishes
  <1>2. IsFiniteSet(FirstPublishes') /\ Cardinality(FirstPublishes') <= Cardinality(FirstPublishes)
    BY <1>1, FS_Subset
  <1>3. /\ Cardinality(entries) \in Nat /\ Cardinality(entries') \in Nat
        /\ Cardinality(FirstPublishes) \in Nat /\ Cardinality(FirstPublishes') \in Nat
        /\ Cardinality(Slots) \in Nat
    BY <1>1, <1>2, FS_CardinalityType DEF DirectoryInv, EntriesHaveSlots
  <1>4. QED
    BY <1>2, <1>3 DEF DirectoryInv, EntriesHaveSlots

\* One that takes entries away, or leaves them.
LEMMA FewerEntries ==
    ASSUME DirectoryInv, entries' \subseteq entries, FirstPublishes' \subseteq FirstPublishes,
           UNCHANGED raced
    PROVE  EntriesHaveSlots' /\ OneUntilRaced'
  <1>1. EntriesHaveSlots'
    BY NoMore, FS_Subset DEF DirectoryInv, EntriesHaveSlots
  <1>2. OneUntilRaced'
    BY DEF DirectoryInv, OneUntilRaced
  <1>3. QED
    BY <1>1, <1>2

\* One that puts an entry in the place of another.
LEMMA OneForAnother ==
    ASSUME DirectoryInv, NEW e \in entries, NEW f, entries' \subseteq (entries \ {e}) \cup {f},
           FirstPublishes' \subseteq FirstPublishes, UNCHANGED raced
    PROVE  EntriesHaveSlots' /\ OneUntilRaced'
  <1>1. IsFiniteSet(entries) /\ Cardinality(entries) \in Nat
    BY FS_CardinalityType DEF DirectoryInv, EntriesHaveSlots
  <1>2. IsFiniteSet(entries \ {e}) /\ Cardinality(entries \ {e}) = Cardinality(entries) - 1
    BY <1>1, FS_RemoveElement
  <1>3. /\ IsFiniteSet((entries \ {e}) \cup {f})
        /\ Cardinality((entries \ {e}) \cup {f}) <= Cardinality(entries)
    <2>1. Cardinality((entries \ {e}) \cup {f}) =
             IF f \in entries \ {e} THEN Cardinality(entries \ {e}) ELSE Cardinality(entries \ {e}) + 1
      BY <1>2, FS_AddElement
    <2>2. IsFiniteSet((entries \ {e}) \cup {f})
      BY <1>2, FS_AddElement
    <2>3. QED
      BY <1>1, <1>2, <2>1, <2>2
  <1>4. /\ IsFiniteSet(entries') /\ Cardinality(entries') <= Cardinality((entries \ {e}) \cup {f})
    BY <1>3, FS_Subset
  <1>5. Cardinality(entries') \in Nat /\ Cardinality((entries \ {e}) \cup {f}) \in Nat
    BY <1>3, <1>4, FS_CardinalityType
  <1>6. Cardinality(entries') <= Cardinality(entries)
    BY <1>1, <1>3, <1>4, <1>5
  <1>7. EntriesHaveSlots'
    BY <1>4, <1>6, NoMore
  <1>8. OneUntilRaced'
    <2>1. SUFFICES ASSUME ~ raced
                   PROVE  /\ FirstPublishes' = {}
                          /\ \A x, y \in entries' : x = y
      BY DEF DirectoryInv, OneUntilRaced
    <2>2. FirstPublishes = {} /\ \A x \in entries : x = e
      BY <2>1 DEF DirectoryInv, OneUntilRaced
    <2>3. entries' \subseteq {f}
      BY <2>2
    <2>4. QED
      BY <2>2, <2>3
  <1>9. QED
    BY <1>7, <1>8

\* A request that saw none adds one, and its slot is the entry's then.
LEMMA OneMore ==
    ASSUME DirectoryInv, NEW i \in FirstPublishes, NEW f, entries' = entries \cup {f},
           FirstPublishes' \subseteq FirstPublishes \ {i}, UNCHANGED raced
    PROVE  EntriesHaveSlots' /\ OneUntilRaced'
  <1>1. IsFiniteSet(FirstPublishes)
    BY FS_Subset DEF FirstPublishes
  <1>2. IsFiniteSet(FirstPublishes \ {i}) /\ Cardinality(FirstPublishes \ {i}) = Cardinality(FirstPublishes) - 1
    BY <1>1, FS_RemoveElement
  <1>3. IsFiniteSet(FirstPublishes') /\ Cardinality(FirstPublishes') <= Cardinality(FirstPublishes \ {i})
    BY <1>2, FS_Subset
  <1>4. IsFiniteSet(entries) /\ Cardinality(entries) \in Nat
    BY FS_CardinalityType DEF DirectoryInv, EntriesHaveSlots
  <1>5. IsFiniteSet(entries') /\ Cardinality(entries') <= Cardinality(entries) + 1
    <2>1. Cardinality(entries') = IF f \in entries THEN Cardinality(entries) ELSE Cardinality(entries) + 1
      BY <1>4, FS_AddElement
    <2>2. QED
      BY <1>4, <2>1, FS_AddElement
  <1>6. /\ Cardinality(entries') \in Nat /\ Cardinality(Slots) \in Nat
        /\ Cardinality(FirstPublishes) \in Nat /\ Cardinality(FirstPublishes') \in Nat
    BY <1>1, <1>3, <1>5, FS_CardinalityType
  <1>7. EntriesHaveSlots'
    BY <1>2, <1>3, <1>4, <1>5, <1>6 DEF DirectoryInv, EntriesHaveSlots
  <1>8. OneUntilRaced'
    <2>1. SUFFICES ASSUME ~ raced
                   PROVE  /\ FirstPublishes' = {}
                          /\ \A x, y \in entries' : x = y
      BY DEF DirectoryInv, OneUntilRaced
    <2>2. FirstPublishes \subseteq {i} /\ entries = {}
      BY <2>1 DEF DirectoryInv, OneUntilRaced
    <2>3. QED
      BY <2>2
  <1>9. QED
    BY <1>7, <1>8

\* With no entry there, as many requests as there are slots may add one.
LEMMA NoneYet ==
    ASSUME entries' = {}
    PROVE  EntriesHaveSlots'
  <1>1. IsFiniteSet(FirstPublishes') /\ Cardinality(FirstPublishes') <= Cardinality(Slots)
    BY FS_Subset DEF FirstPublishes
  <1>2. IsFiniteSet(entries') /\ Cardinality(entries') = 0
    BY FS_EmptySet
  <1>3. Cardinality(FirstPublishes') \in Nat /\ Cardinality(Slots) \in Nat
    BY <1>1, FS_CardinalityType
  <1>4. QED
    BY <1>1, <1>2, <1>3 DEF EntriesHaveSlots

-----------------------------------------------------------------------------
(* One action at a time *)

LEMMA OneRequest ==
    ASSUME DirectoryType, NEW i \in Slots, NEW r \in Req \cup {IdleReq},
           reqs' = [reqs EXCEPT ![i] = r],
           r.kind = "post" /\ r.at = "listed" => r.first # Nothing
    PROVE  /\ reqs' \in [Slots -> Req \cup {IdleReq}]
           /\ FirstPublishes' \subseteq FirstPublishes \ {i}
  BY DEF DirectoryType, FirstPublishes

\* Requests only lose their listener.
LEMMA AllUnheard ==
    ASSUME DirectoryType, NEW f \in [Slots -> Req \cup {IdleReq}],
           \A j \in Slots : f[j] = Unheard(reqs[j])
    PROVE  {j \in Slots : f[j].kind = "post" /\ f[j].at = "listed" /\ f[j].first = Nothing} \subseteq FirstPublishes
  <1> SUFFICES ASSUME NEW j \in Slots, f[j].kind = "post", f[j].at = "listed", f[j].first = Nothing
               PROVE  j \in FirstPublishes
    OBVIOUS
  <1>1. reqs[j] \in Req \cup {IdleReq}
    BY DEF DirectoryType
  <1>2. reqs[j].kind = "post" /\ reqs[j].at = "listed" /\ reqs[j].first = Nothing
    BY <1>1, UnheardType
  <1>3. QED
    BY <1>2 DEF FirstPublishes

LEMMA AskedByAProcess ==
    ASSUME DirectoryType, NEW i \in Slots, reqs[i].kind \in {"post", "delete"}
    PROVE  reqs[i] \in Req /\ relay.v # 0
  BY IdleIsNoRequest DEF DirectoryType, IdleReq

LEMMA IsOver ==
    ASSUME DirectoryType, NEW i \in Slots, NEW ok \in BOOLEAN, Over(i, ok), relay.v # 0
    PROVE  /\ relay' \in Process /\ relay'.v # 0
           /\ reqs' \in [Slots -> Req \cup {IdleReq}]
           /\ FirstPublishes' \subseteq FirstPublishes \ {i}
  <1>1. relay' \in Process /\ relay'.v # 0
    BY ProcessUpdates DEF Over, DirectoryType
  <1>2. IdleReq \in Req \cup {IdleReq} /\ IdleReq.kind # "post"
    BY DEF IdleReq
  <1>3. QED
    BY <1>1, <1>2, OneRequest DEF Over

LEMMA StartStep ==
    ASSUME DirectoryInv, NEW reach \in BOOLEAN, NEW nat \in BOOLEAN, StartDirect(reach, nat)
    PROVE  DirectoryInv'
  <1>1. relay' \in Process /\ relay'.v # 0
    BY DEF StartDirect, DirectoryInv, DirectoryType, Process
  <1>2. DirectoryType'
    BY <1>1 DEF StartDirect, DirectoryInv, DirectoryType
  <1>3. FirstPublishes' = FirstPublishes
    BY DEF StartDirect, FirstPublishes
  <1>4. QED
    BY <1>2, <1>3, FewerEntries DEF StartDirect, DirectoryInv

LEMMA ChangeStep ==
    ASSUME DirectoryInv, RecordChanges
    PROVE  DirectoryInv'
  <1>1. relay.v + 1 \in 0 .. MaxVersion /\ relay.v + 1 # 0
    BY DEF RecordChanges, DirectoryInv, DirectoryType, Process
  <1>2. relay' \in Process /\ relay'.v # 0
    BY <1>1 DEF RecordChanges, DirectoryInv, DirectoryType, Process
  <1>3. DirectoryType'
    BY <1>2 DEF RecordChanges, DirectoryInv, DirectoryType
  <1>4. FirstPublishes' = FirstPublishes
    BY DEF RecordChanges, FirstPublishes
  <1>5. QED
    BY <1>3, <1>4, FewerEntries DEF RecordChanges, DirectoryInv

LEMMA PublishStep ==
    ASSUME DirectoryInv, NEW i \in Slots, PublishDirect(i)
    PROVE  DirectoryInv'
  <1> DEFINE kind == IF relay.reach THEN "post" ELSE "delete"
  <1>1. relay \in Process /\ relay.v \in 1 .. MaxVersion  /\ relay.v # 0
    BY DEF PublishDirect, DirectoryInv, DirectoryType, Process
  <1>2. Request(kind, relay.v) \in Req /\ Request(kind, relay.v).at = "sent"
    BY <1>1, RequestType
  <1>3. relay' \in Process /\ relay'.v # 0
    BY <1>1, ProcessUpdates DEF PublishDirect
  <1>4. /\ reqs' \in [Slots -> Req \cup {IdleReq}]
        /\ FirstPublishes' \subseteq FirstPublishes \ {i}
    BY <1>2, OneRequest DEF PublishDirect, DirectoryInv
  <1>5. DirectoryType'
    BY <1>3, <1>4 DEF PublishDirect, DirectoryInv, DirectoryType
  <1>6. QED
    BY <1>4, <1>5, FewerEntries DEF PublishDirect, DirectoryInv

\* The relay is gone, and hears no answer any more.
LEMMA NobodyListens ==
    ASSUME DirectoryType
    PROVE  /\ [j \in Slots |-> Unheard(reqs[j])] \in [Slots -> Req \cup {IdleReq}]
           /\ relay.v = 0 => \A j \in Slots : Unheard(reqs[j]) = IdleReq
  <1>1. \A j \in Slots : Unheard(reqs[j]) \in Req \cup {IdleReq}
    BY UnheardType DEF DirectoryType
  <1>2. IdleReq.kind = "idle"
    BY DEF IdleReq
  <1>3. QED
    BY <1>1, <1>2 DEF DirectoryType, Unheard

LEMMA StopStep ==
    ASSUME DirectoryInv, StopDirect
    PROVE  DirectoryInv'
  <1> DEFINE rest == [j \in Slots |-> Unheard(reqs[j])]
  <1>1. relay \in Process /\ relay.v \in 1 .. MaxVersion /\ DirectoryType  /\ relay.v # 0
    BY DEF StopDirect, DirectoryInv, DirectoryType, Process
  <1>2. relay' \in Process /\ relay'.v # 0
    BY <1>1, ProcessUpdates DEF StopDirect
  <1>3. rest \in [Slots -> Req \cup {IdleReq}]
    BY <1>1, NobodyListens
  <1>4. {j \in Slots : rest[j].kind = "post" /\ rest[j].at = "listed" /\ rest[j].first = Nothing} \subseteq FirstPublishes
    BY <1>1, <1>3, AllUnheard
  <1>5. /\ reqs' \in [Slots -> Req \cup {IdleReq}]
        /\ FirstPublishes' \subseteq FirstPublishes
    <2>1. CASE relay.listed
      <3>1. PICK i \in Slots : reqs' = [rest EXCEPT ![i] = Unheard(Request("delete", relay.v))]
        BY <2>1 DEF StopDirect
      <3> DEFINE r == Unheard(Request("delete", relay.v))
      <3>2. r \in Req \cup {IdleReq} /\ r.kind = "delete"
        <4>1. Request("delete", relay.v) \in Req /\ Request("delete", relay.v).kind = "delete"
          BY <1>1, RequestType DEF Request
        <4>2. QED
          BY <4>1, UnheardType
      <3> HIDE DEF rest, r
      <3>3. reqs' \in [Slots -> Req \cup {IdleReq}]
        BY <1>3, <3>1, <3>2 DEF r
      <3>4. \A j \in Slots : reqs'[j] = IF j = i THEN r ELSE rest[j]
        BY <1>3, <3>1 DEF r
      <3>5. QED
        BY <1>4, <3>2, <3>3, <3>4 DEF FirstPublishes
    <2>2. CASE ~ relay.listed
      BY <1>3, <1>4, <2>2 DEF StopDirect, FirstPublishes
    <2>3. QED
      BY <2>1, <2>2
  <1>6. DirectoryType'
    BY <1>2, <1>5 DEF StopDirect, DirectoryInv, DirectoryType
  <1>7. QED
    BY <1>5, <1>6, FewerEntries DEF StopDirect, DirectoryInv

LEMMA CrashStep ==
    ASSUME DirectoryInv, CrashDirect
    PROVE  DirectoryInv'
  <1>1. relay \in Process /\ relay.v # 0 /\ DirectoryType
    BY DEF CrashDirect, DirectoryInv, DirectoryType
  <1>2. relay' \in Process /\ relay'.v # 0
    BY <1>1, ProcessUpdates DEF CrashDirect
  <1>3. reqs' \in [Slots -> Req \cup {IdleReq}]
    BY <1>1, NobodyListens DEF CrashDirect
  <1>4. FirstPublishes' \subseteq FirstPublishes
    BY <1>1, <1>3, AllUnheard DEF CrashDirect, FirstPublishes
  <1>5. slips' \in 0 .. MaxSlips
    BY DEF CrashDirect, Slip, DirectoryInv, DirectoryType
  <1>6. DirectoryType'
    BY <1>2, <1>3, <1>5 DEF CrashDirect, DirectoryInv, DirectoryType
  <1>7. QED
    BY <1>4, <1>6, FewerEntries DEF CrashDirect, DirectoryInv

LEMMA FailStep ==
    ASSUME DirectoryInv, NEW i \in Slots, RequestFails(i)
    PROVE  DirectoryInv'
  <1>1. DirectoryType /\ reqs[i].kind \in {"post", "delete"}
    BY IdleIsNoRequest DEF RequestFails, DirectoryInv, DirectoryType
  <1>2. reqs[i] \in Req /\ relay.v # 0
    BY <1>1, AskedByAProcess
  <1>3. relay' \in Process /\ relay'.v # 0
    BY <1>1, <1>2, ProcessUpdates DEF RequestFails, DirectoryType
  <1>4. /\ reqs' \in [Slots -> Req \cup {IdleReq}]
        /\ FirstPublishes' \subseteq FirstPublishes
    <2>1. CASE reqs' = [reqs EXCEPT ![i] = IdleReq]
      <3>1. IdleReq \in Req \cup {IdleReq} /\ IdleReq.kind # "post"
        BY DEF IdleReq
      <3>2. QED
        BY <1>1, <2>1, <3>1, OneRequest
    <2>2. CASE reqs' = [reqs EXCEPT ![i] = Unheard(@)]
      <3> DEFINE r == Unheard(reqs[i])
      <3>1. r \in Req \cup {IdleReq} /\ r.kind = reqs[i].kind /\ r.at = reqs[i].at /\ r.first = reqs[i].first
        BY <1>1, <1>2, UnheardType
      <3> HIDE DEF r
      <3>2. reqs' = [reqs EXCEPT ![i] = r]
        BY <2>2 DEF r
      <3>3. reqs' \in [Slots -> Req \cup {IdleReq}]
        BY <1>1, <3>1, <3>2 DEF DirectoryType
      <3>4. \A j \in Slots : reqs'[j] = IF j = i THEN r ELSE reqs[j]
        BY <1>1, <3>2 DEF DirectoryType
      <3>5. QED
        BY <3>1, <3>3, <3>4 DEF FirstPublishes
    <2>3. QED
      BY <2>1, <2>2 DEF RequestFails
  <1>5. slips' \in 0 .. MaxSlips
    BY <1>1 DEF RequestFails, Slip, DirectoryType
  <1>6. DirectoryType'
    BY <1>1, <1>3, <1>4, <1>5 DEF RequestFails, DirectoryType
  <1>7. QED
    BY <1>4, <1>6, FewerEntries DEF RequestFails, DirectoryInv

LEMMA RefusedStep ==
    ASSUME DirectoryInv, NEW i \in Slots, RefusedBehindNat(i)
    PROVE  DirectoryInv'
  <1>1. DirectoryType /\ reqs[i].kind \in {"post", "delete"}
    BY DEF RefusedBehindNat, DirectoryInv
  <1>2. reqs[i] \in Req /\ relay.v # 0
    BY <1>1, AskedByAProcess
  <1>3. relay' \in Process /\ relay'.v = relay.v
    BY <1>1, ProcessUpdates DEF RefusedBehindNat, DirectoryType
  <1>4. relay.v \in 1 .. MaxVersion
    BY <1>1, <1>2 DEF DirectoryType, Process
  <1> DEFINE r == IF relay.withdrew THEN IdleReq ELSE Request("delete", relay'.v)
  <1>5. r \in Req \cup {IdleReq} /\ r.kind # "post"
    <2>1. Request("delete", relay.v) \in Req /\ Request("delete", relay.v).kind = "delete"
      BY <1>4, RequestType DEF Request
    <2>2. QED
      BY <1>3, <2>1 DEF IdleReq
  <1>6. reqs' = [reqs EXCEPT ![i] = r]
    BY DEF RefusedBehindNat
  <1> HIDE DEF r
  <1>7. /\ reqs' \in [Slots -> Req \cup {IdleReq}]
        /\ FirstPublishes' \subseteq FirstPublishes \ {i}
    BY <1>1, <1>5, <1>6, OneRequest
  <1>8. DirectoryType'
    BY <1>1, <1>2, <1>3, <1>7 DEF RefusedBehindNat, DirectoryType
  <1>9. QED
    BY <1>7, <1>8, FewerEntries DEF RefusedBehindNat, DirectoryInv

LEMMA IdsType ==
    ASSUME DirectoryType
    PROVE  Ids \in SUBSET EntryIds
  BY DEF DirectoryType, Ids, Entry

LEMMA RacesNotHere ==
    ASSUME NEW i \in Slots, ListForPost(i), entries # {}, DirectoryInv
    PROVE  UNCHANGED raced
  BY DEF ListForPost, DirectoryInv, OneUntilRaced

LEMMA ListStep ==
    ASSUME DirectoryInv, NEW i \in Slots, ListForPost(i)
    PROVE  DirectoryInv'
  <1>1. DirectoryType /\ reqs[i].kind \in {"post", "delete"}
    BY DEF ListForPost, DirectoryInv
  <1>2. reqs[i] \in Req /\ relay.v # 0
    BY <1>1, AskedByAProcess
  <1>3. CASE entries = {}
    <2> DEFINE r == [reqs[i] EXCEPT !.at = "listed"]
    <2>1. r \in Req
      BY <1>2 DEF Req
    <2>2. reqs' = [reqs EXCEPT ![i] = r]
      BY <1>1, <1>3 DEF ListForPost, DirectoryType
    <2>3. reqs' \in [Slots -> Req \cup {IdleReq}]
      BY <1>1, <2>1, <2>2 DEF DirectoryType
    <2>4. DirectoryType'
      BY <1>1, <1>2, <1>3, <2>3 DEF ListForPost, DirectoryType
    <2>5. entries' = {}
      BY <1>3 DEF ListForPost
    <2>6. OneUntilRaced'
      <3>1. raced' = (raced \/ FirstPublishes # {})
        BY <1>3 DEF ListForPost
      <3>2. FirstPublishes' \subseteq FirstPublishes \cup {i}
        BY <1>1, <2>2 DEF FirstPublishes, DirectoryType
      <3>3. raced' \in BOOLEAN
        BY <3>1
      <3>4. ~ raced' => FirstPublishes = {}
        BY <3>1
      <3>5. ~ raced' => \A j \in FirstPublishes' : j = i
        BY <3>2, <3>4
      <3>6. QED
        BY <2>5, <3>3, <3>5 DEF OneUntilRaced
    <2>7. QED
      BY <2>4, <2>5, <2>6, NoneYet DEF DirectoryInv
  <1>4. CASE entries # {} /\ \E ok \in BOOLEAN : Over(i, ok)
    <2>1. /\ relay' \in Process /\ relay'.v # 0
          /\ reqs' \in [Slots -> Req \cup {IdleReq}]
          /\ FirstPublishes' \subseteq FirstPublishes \ {i}
      BY <1>1, <1>2, <1>4, IsOver
    <2>2. DirectoryType'
      BY <1>1, <2>1 DEF ListForPost, DirectoryType
    <2>3. QED
      BY <1>4, <2>1, <2>2, RacesNotHere, FewerEntries DEF ListForPost, DirectoryInv
  <1>5. CASE \E e \in entries :
                /\ reqs' = [reqs EXCEPT ![i].at = "listed", ![i].first = e.id, ![i].mine = Ids]
                /\ UNCHANGED relay
    <2>1. PICK e \in entries : reqs' = [reqs EXCEPT ![i].at = "listed", ![i].first = e.id, ![i].mine = Ids]
      BY <1>5
    <2> DEFINE r == [reqs[i] EXCEPT !.at = "listed", !.first = e.id, !.mine = Ids]
    <2>2. e.id \in EntryIds /\ e.id # Nothing
      BY <1>1 DEF DirectoryType, Entry
    <2>3. r \in Req /\ r.first # Nothing
      <3>1. Ids \in SUBSET EntryIds /\ "listed" \in {"sent", "listed", "written"}
        BY <1>1, IdsType
      <3>2. QED
        BY <1>2, <2>2, <3>1 DEF Req
    <2>4. reqs' = [reqs EXCEPT ![i] = r]
      BY <1>1, <2>1 DEF DirectoryType
    <2> HIDE DEF r
    <2>5. /\ reqs' \in [Slots -> Req \cup {IdleReq}]
          /\ FirstPublishes' \subseteq FirstPublishes \ {i}
      BY <1>1, <2>3, <2>4, OneRequest
    <2>6. DirectoryType'
      BY <1>1, <1>2, <1>5, <2>5 DEF ListForPost, DirectoryType
    <2>7. QED
      BY <1>5, <2>5, <2>6, RacesNotHere, FewerEntries DEF ListForPost, DirectoryInv
  <1>6. QED
    <2>1. CASE entries # {}
      <3>1. PICK e \in entries :
               IF Unchanged(e, reqs[i]) THEN Over(i, TRUE)
               ELSE IF e.v # reqs[i].v /\ e.age = Recent THEN Over(i, FALSE)
               ELSE /\ reqs' = [reqs EXCEPT ![i].at = "listed", ![i].first = e.id, ![i].mine = Ids]
                    /\ UNCHANGED relay
        BY <2>1 DEF ListForPost
      <3>2. \/ \E ok \in BOOLEAN : Over(i, ok)
            \/ /\ reqs' = [reqs EXCEPT ![i].at = "listed", ![i].first = e.id, ![i].mine = Ids]
               /\ UNCHANGED relay
        BY <3>1
      <3>3. QED
        BY <1>4, <1>5, <2>1, <3>2
    <2>2. QED
      BY <1>3, <2>1

LEMMA WriteStep ==
    ASSUME DirectoryInv, NEW i \in Slots, WriteEntry(i)
    PROVE  DirectoryInv'
  <1>1. DirectoryType /\ reqs[i].kind \in {"post", "delete"}
    BY DEF WriteEntry, DirectoryInv
  <1>2. reqs[i] \in Req /\ relay.v # 0
    BY <1>1, AskedByAProcess
  <1> DEFINE r == [reqs[i] EXCEPT !.at = "written"]
             fresh(k) == [id |-> k, v |-> reqs[i].v, age |-> Recent]
  <1>3. \A k \in EntryIds : fresh(k) \in Entry /\ fresh(k).id = k
    BY <1>2 DEF Req, Entry, Recent, Expired
  <1>4. r \in Req /\ r.at = "written"
    BY <1>2 DEF Req
  <1>5. CASE /\ reqs[i].first = Nothing \/ reqs[i].first \in Ids
             /\ reqs' = [reqs EXCEPT ![i].at = "written"] /\ UNCHANGED relay /\ Write(reqs[i])
    <2>1. reqs' = [reqs EXCEPT ![i] = r]
      BY <1>1, <1>5 DEF DirectoryType
    <2> HIDE DEF r
    <2>2. /\ reqs' \in [Slots -> Req \cup {IdleReq}]
          /\ FirstPublishes' \subseteq FirstPublishes \ {i}
      BY <1>1, <1>4, <2>1, OneRequest
    <2>3. relay' \in Process /\ relay'.v # 0 /\ slips' \in 0 .. MaxSlips
      BY <1>1, <1>2, <1>5 DEF WriteEntry, DirectoryType
    <2>4. CASE reqs[i].first = Nothing
      <3>1. i \in FirstPublishes
        BY <2>4 DEF WriteEntry, FirstPublishes
      <3>2. NewId \in FreeIds
        BY <2>4 DEF WriteEntry, NewId
      <3>3. NewId \in EntryIds /\ \A e \in entries : e.id # NewId
        BY <3>2 DEF FreeIds, Ids
      <3>4. entries' = entries \cup {fresh(NewId)}
        BY <1>5, <2>4 DEF Write
      <3>5. fresh(NewId) \in Entry /\ fresh(NewId).id = NewId
        BY <1>3, <3>3
      <3> HIDE DEF fresh
      <3>6. entries' \subseteq Entry
        BY <1>1, <3>4, <3>5 DEF DirectoryType
      <3>7. \A e, f \in entries' : e.id = f.id => e = f
        BY <1>1, <3>3, <3>4, <3>5 DEF DirectoryType
      <3>8. DirectoryType'
        BY <2>2, <2>3, <3>6, <3>7 DEF DirectoryType
      <3>9. QED
        BY <2>2, <3>1, <3>4, <3>8, OneMore DEF WriteEntry, DirectoryInv
    <2>5. CASE reqs[i].first # Nothing /\ reqs[i].first \in Ids
      <3> DEFINE k == reqs[i].first
      <3>1. PICK e \in entries : e.id = k
        BY <2>5 DEF Ids
      <3>2. k \in EntryIds
        BY <1>1, <2>5, IdsType
      <3>3. fresh(k) \in Entry /\ fresh(k).id = k
        BY <1>3, <3>2
      <3>4. entries' = {x \in entries : x.id # k} \cup {fresh(k)}
        BY <1>5, <2>5 DEF Write
      <3> HIDE DEF fresh, k
      <3>5. entries' \subseteq Entry
        BY <1>1, <3>3, <3>4 DEF DirectoryType
      <3>6. \A x, y \in entries' : x.id = y.id => x = y
        BY <1>1, <3>3, <3>4 DEF DirectoryType
      <3>7. entries' \subseteq (entries \ {e}) \cup {fresh(k)}
        BY <3>1, <3>4
      <3>8. DirectoryType'
        BY <2>2, <2>3, <3>5, <3>6 DEF DirectoryType
      <3>9. QED
        BY <2>2, <3>7, <3>8, OneForAnother DEF WriteEntry, DirectoryInv
    <2>6. QED
      BY <1>5, <2>4, <2>5
  <1>6. CASE Over(i, FALSE) /\ UNCHANGED entries
    <2>1. /\ relay' \in Process /\ relay'.v # 0
          /\ reqs' \in [Slots -> Req \cup {IdleReq}]
          /\ FirstPublishes' \subseteq FirstPublishes \ {i}
      BY <1>1, <1>2, <1>6, IsOver
    <2>2. DirectoryType'
      BY <1>1, <1>6, <2>1 DEF WriteEntry, DirectoryType
    <2>3. QED
      BY <1>6, <2>1, <2>2, FewerEntries DEF WriteEntry, DirectoryInv
  <1>7. QED
    BY <1>5, <1>6 DEF WriteEntry

LEMMA TidyStep ==
    ASSUME DirectoryInv, NEW i \in Slots, TidyEntries(i)
    PROVE  DirectoryInv'
  <1>1. DirectoryType /\ reqs[i].kind \in {"post", "delete"}
    BY DEF TidyEntries, DirectoryInv
  <1>2. reqs[i] \in Req /\ relay.v # 0
    BY <1>1, AskedByAProcess
  <1>3. /\ relay' \in Process /\ relay'.v # 0
        /\ reqs' \in [Slots -> Req \cup {IdleReq}]
        /\ FirstPublishes' \subseteq FirstPublishes \ {i}
    BY <1>1, <1>2, IsOver DEF TidyEntries
  <1> DEFINE others == reqs[i].mine \ {reqs[i].first}
  <1>4. PICK gone \in SUBSET others :
           /\ gone # others => slips < MaxSlips
           /\ slips' = IF gone = others THEN slips ELSE slips + 1
           /\ entries' = {e \in entries : e.id \notin gone}
           /\ raced' = (raced /\ ~ (gone = others /\ Ids \subseteq reqs[i].mine /\ FirstPublishes = {}))
    BY DEF TidyEntries
  <1>5. entries' \subseteq entries /\ slips' \in 0 .. MaxSlips
    BY <1>1, <1>4 DEF DirectoryType
  <1>6. DirectoryType'
    BY <1>1, <1>3, <1>5 DEF DirectoryType
  <1>7. EntriesHaveSlots'
    BY <1>3, <1>5, NoMore, FS_Subset DEF DirectoryInv, EntriesHaveSlots
  <1>8. OneUntilRaced'
    <2>1. CASE raced' = raced
      BY <1>3, <1>5, <2>1, FewerEntries
    <2>2. CASE gone = others /\ Ids \subseteq reqs[i].mine /\ FirstPublishes = {}
      <3>1. \A e \in entries' : e \in entries /\ e.id = reqs[i].first
        BY <1>4, <2>2 DEF Ids
      <3>2. \A e, f \in entries' : e = f
        BY <1>1, <3>1 DEF DirectoryType
      <3>3. raced' \in BOOLEAN
        BY <1>4
      <3>4. QED
        BY <1>3, <2>2, <3>2, <3>3 DEF OneUntilRaced
    <2>3. QED
      BY <1>4, <2>1, <2>2 DEF DirectoryInv, OneUntilRaced
  <1>9. QED
    BY <1>6, <1>7, <1>8 DEF DirectoryInv

LEMMA ListForDeleteStep ==
    ASSUME DirectoryInv, NEW i \in Slots, ListForDelete(i)
    PROVE  DirectoryInv'
  <1>1. DirectoryType /\ reqs[i].kind = "delete"
    BY DEF ListForDelete, DirectoryInv
  <1>2. reqs[i] \in Req /\ relay.v # 0
    BY <1>1, AskedByAProcess
  <1> DEFINE r == [reqs[i] EXCEPT !.at = "listed", !.mine = Ids]
  <1>3. r \in Req
    BY <1>1, <1>2, IdsType DEF Req
  <1>4. r.kind = "delete"
    BY <1>1, <1>2 DEF Req
  <1>5. reqs' = [reqs EXCEPT ![i] = r]
    BY <1>1 DEF ListForDelete, DirectoryType
  <1> HIDE DEF r
  <1>6. /\ reqs' \in [Slots -> Req \cup {IdleReq}]
        /\ FirstPublishes' \subseteq FirstPublishes \ {i}
    BY <1>1, <1>3, <1>4, <1>5, OneRequest
  <1>7. DirectoryType'
    BY <1>1, <1>2, <1>6 DEF ListForDelete, DirectoryType
  <1>8. QED
    BY <1>6, <1>7, FewerEntries DEF ListForDelete, DirectoryInv

LEMMA DeleteStep ==
    ASSUME DirectoryInv, NEW i \in Slots, DeleteEntry(i)
    PROVE  DirectoryInv'
  <1>1. DirectoryType /\ reqs[i].kind = "delete" /\ slips' \in 0 .. MaxSlips
    BY DEF DeleteEntry, DirectoryInv, DirectoryType
  <1>2. reqs[i] \in Req /\ relay.v # 0
    BY <1>1, AskedByAProcess
  <1>3. CASE (\E ok \in BOOLEAN : Over(i, ok)) /\ UNCHANGED entries
    <2>1. /\ relay' \in Process /\ relay'.v # 0
          /\ reqs' \in [Slots -> Req \cup {IdleReq}]
          /\ FirstPublishes' \subseteq FirstPublishes \ {i}
      BY <1>1, <1>2, <1>3, IsOver
    <2>2. DirectoryType'
      BY <1>1, <1>3, <2>1 DEF DirectoryType
    <2>3. QED
      BY <1>3, <2>1, <2>2, FewerEntries DEF DeleteEntry, DirectoryInv
  <1>4. ASSUME NEW k \in reqs[i].mine,
               /\ entries' = {e \in entries : e.id # k}
               /\ reqs' = [reqs EXCEPT ![i].mine = @ \ {k}]
               /\ UNCHANGED relay
        PROVE  DirectoryInv'
    <2> DEFINE r == [reqs[i] EXCEPT !.mine = @ \ {k}]
    <2>1. r \in Req
      BY <1>2 DEF Req
    <2>2. r.kind = "delete"
      BY <1>1, <1>2 DEF Req
    <2>3. reqs' = [reqs EXCEPT ![i] = r]
      BY <1>1, <1>4 DEF DirectoryType
    <2> HIDE DEF r
    <2>4. /\ reqs' \in [Slots -> Req \cup {IdleReq}]
          /\ FirstPublishes' \subseteq FirstPublishes \ {i}
      BY <1>1, <2>1, <2>2, <2>3, OneRequest
    <2>5. DirectoryType'
      BY <1>1, <1>2, <1>4, <2>4 DEF DirectoryType
    <2>6. entries' \subseteq entries
      BY <1>4
    <2>7. QED
      BY <2>4, <2>5, <2>6, FewerEntries DEF DeleteEntry, DirectoryInv
  <1>5. QED
    BY <1>3, <1>4 DEF DeleteEntry

LEMMA CleanStep ==
    ASSUME DirectoryInv, NEW e \in entries, CleanedUp(e) \/ EntryAges(e)
    PROVE  DirectoryInv'
  <1>1. DirectoryType /\ FirstPublishes' = FirstPublishes
    BY DEF CleanedUp, EntryAges, DirectoryInv, FirstPublishes
  <1>2. CASE CleanedUp(e)
    <2>1. slips' \in 0 .. MaxSlips
      BY <1>1, <1>2 DEF CleanedUp, Slip, DirectoryType
    <2>2. DirectoryType'
      BY <1>1, <1>2, <2>1 DEF CleanedUp, DirectoryType
    <2>3. QED
      BY <1>1, <1>2, <2>2, FewerEntries DEF CleanedUp, DirectoryInv
  <1>3. CASE EntryAges(e)
    <2> DEFINE f == [e EXCEPT !.age = @ + 1]
    <2>1. f \in Entry
      BY <1>1, <1>3 DEF EntryAges, DirectoryType, Entry, Recent, Expired
    <2>2. f.id = e.id
      BY <1>1 DEF DirectoryType, Entry
    <2>3. entries' = (entries \ {e}) \cup {f}
      BY <1>3 DEF EntryAges
    <2> HIDE DEF f
    <2>4. DirectoryType'
      BY <1>1, <1>3, <2>1, <2>2, <2>3 DEF EntryAges, DirectoryType
    <2>5. QED
      BY <1>1, <1>3, <2>3, <2>4, OneForAnother DEF EntryAges, DirectoryInv
  <1>4. QED
    BY <1>2, <1>3

LEMMA DirectoryStart == DirectoryInit => DirectoryInv
  <1> SUFFICES ASSUME DirectoryInit
               PROVE  DirectoryInv
    OBVIOUS
  <1>1. relay \in Process /\ slips \in 0 .. MaxSlips
    BY DEF DirectoryInit, Process
  <1>2. DirectoryType
    BY <1>1 DEF DirectoryInit, DirectoryType
  <1>3. FirstPublishes = {}
    BY DEF DirectoryInit, FirstPublishes, IdleReq
  <1>4. IsFiniteSet({}) /\ Cardinality({}) = 0 /\ Cardinality(Slots) \in Nat
    BY FS_EmptySet, FS_CardinalityType
  <1>5. OneUntilRaced
    BY <1>3 DEF DirectoryInit, OneUntilRaced
  <1>6. QED
    BY <1>2, <1>3, <1>4, <1>5 DEF DirectoryInit, DirectoryInv, EntriesHaveSlots

LEMMA DirectoryStep == DirectoryInv /\ [DirectoryNext]_dirVars => DirectoryInv'
  <1> SUFFICES ASSUME DirectoryInv, [DirectoryNext]_dirVars
               PROVE  DirectoryInv'
    OBVIOUS
  <1>1. CASE UNCHANGED dirVars
    BY <1>1 DEF dirVars, DirectoryInv, DirectoryType, EntriesHaveSlots, OneUntilRaced, FirstPublishes
  <1>2. CASE \E reach, nat \in BOOLEAN : StartDirect(reach, nat)
    BY <1>2, StartStep
  <1>3. CASE RecordChanges \/ StopDirect \/ CrashDirect
    BY <1>3, ChangeStep, StopStep, CrashStep
  <1>4. ASSUME NEW i \in Slots, PublishDirect(i) \/ RequestFails(i) \/ RefusedBehindNat(i) \/ ListForPost(i)
        PROVE  DirectoryInv'
    BY <1>4, PublishStep, FailStep, RefusedStep, ListStep
  <1>5. ASSUME NEW i \in Slots, WriteEntry(i) \/ TidyEntries(i) \/ ListForDelete(i) \/ DeleteEntry(i)
        PROVE  DirectoryInv'
    BY <1>5, WriteStep, TidyStep, ListForDeleteStep, DeleteStep
  <1>6. CASE \E e \in entries : CleanedUp(e) \/ EntryAges(e)
    BY <1>6, CleanStep
  <1>7. QED
    BY <1>1, <1>2, <1>3, <1>4, <1>5, <1>6 DEF DirectoryNext, Serve, Ages

LEMMA DirectoryIsSound == DirectoryInv => DirectoryTypeOK /\ EntriesStayFew /\ OneEntry
  <1> SUFFICES ASSUME DirectoryInv
               PROVE  DirectoryTypeOK /\ EntriesStayFew /\ OneEntry
    OBVIOUS
  <1>1. \A i \in Slots : reqs[i].kind \in {"idle", "post", "delete"}
    BY IdleIsNoRequest DEF DirectoryInv, DirectoryType
  <1>2. DirectoryTypeOK
    BY <1>1 DEF DirectoryInv, DirectoryType, DirectoryTypeOK, OneUntilRaced, Process
  <1>3. IsFiniteSet(FirstPublishes)
    BY FS_Subset DEF FirstPublishes
  <1>4. Cardinality(entries) \in Nat /\ Cardinality(FirstPublishes) \in Nat /\ Cardinality(Slots) \in Nat
    BY <1>3, FS_CardinalityType DEF DirectoryInv, EntriesHaveSlots
  <1>5. EntriesStayFew
    BY <1>4 DEF DirectoryInv, EntriesHaveSlots, EntriesStayFew
  <1>6. OneEntry
    BY DEF DirectoryInv, OneUntilRaced, OneEntry
  <1>7. QED
    BY <1>2, <1>5, <1>6

-----------------------------------------------------------------------------
(* The tunnel *)

UpFrame == [t : {"hello"}] \cup [t : {"res"}, q : Requests] \cup [t : {"end"}, p : Peers]
DownFrame == [t : {"ready"}] \cup [t : {"req"}, q : Requests] \cup [t : {"open", "end"}, p : Peers]

Socket == [home : 0 .. Homes, cut : BOOLEAN, r : {"open", "closed"}, h : {"open", "closing", "closed"},
           authed : BOOLEAN, nonce : BOOLEAN, verifying : BOOLEAN, ready : BOOLEAN, since : Nat,
           up : Seq(UpFrame), down : Seq(DownFrame)]

PeerSocket == [state : {"none", "open", "closing", "over"}, gen : 0 .. MaxSockets]
Exchange == [state : {"none", "pending", "answered", "silent"}, via : 0 .. MaxSockets]
Client == [current : 0 .. MaxSockets, index : HomeIds, failures : 0 .. 1, url : 0 .. Homes]

TunnelType ==
    /\ sock \in [Sockets -> Socket]
    /\ peer \in [Peers -> PeerSocket]
    /\ request \in [Requests -> Exchange]
    /\ stream \in [Peers -> 0 .. MaxSockets]
    /\ client \in Client
    /\ refused \subseteq HomeIds
    /\ opened \in 0 .. MaxSockets
    /\ upsets \in 0 .. MaxUpsets

\* The relay's own socket is at the home it is at, which is not one left alone, and
\* its streams are on it.
RelayEnd ==
    /\ \A s \in Sockets : sock[s].r = "open" <=> client.current = s
    /\ \A s \in Sockets : sock[s].r = "open" => sock[s].home = client.index
    /\ client.current # 0 => client.index \notin refused
    /\ \A p \in Peers : stream[p] \in {0, client.current}

\* Of the sockets a home lists one is signed in, and none that is still to be opened
\* is listed.
HomeEnd ==
    /\ \A s \in Sockets : sock[s].authed => ~ sock[s].nonce /\ ~ sock[s].verifying
    /\ \A s \in Sockets : Listed(s) => s <= opened
    /\ \A s, x \in Sockets :
          Listed(s) /\ Listed(x) /\ sock[s].authed /\ sock[x].authed /\ sock[s].home = sock[x].home => s = x

\* Peers are on a tunnel that is listed and signed in.
PeersHaveTunnels ==
    \A p \in Peers : peer[p].state = "open" =>
       peer[p].gen \in Sockets /\ Listed(peer[p].gen) /\ sock[peer[p].gen].authed

TunnelInv == TunnelType /\ RelayEnd /\ HomeEnd /\ PeersHaveTunnels /\ AddressIsOwned

-----------------------------------------------------------------------------
(* One socket *)

\* A socket of which the two ends stay as they are, but that the home may begin to close.
Alike(b, c) ==
    /\ c \in Socket
    /\ c.home = b.home /\ c.r = b.r /\ c.authed = b.authed
    /\ c.nonce = b.nonce /\ c.verifying = b.verifying
    /\ c.h \in {"open", "closing"} <=> b.h \in {"open", "closing"}

LEMMA SocketUpdates ==
    ASSUME NEW b \in Socket
    PROVE  /\ \A up \in Seq(UpFrame) : Alike(b, [b EXCEPT !.up = up])
           /\ \A down \in Seq(DownFrame) : Alike(b, [b EXCEPT !.down = down])
           /\ Alike(b, [b EXCEPT !.ready = TRUE])
           /\ Alike(b, [b EXCEPT !.ready = FALSE])
           /\ Alike(b, [b EXCEPT !.cut = TRUE])
  BY DEF Socket, Alike

LEMMA AlikeTwice ==
    ASSUME NEW b, NEW c, NEW d, Alike(b, c), Alike(c, d)
    PROVE  Alike(b, d)
  BY DEF Alike

LEMMA AlikeItself ==
    ASSUME NEW b \in Socket
    PROVE  Alike(b, b)
  BY DEF Alike

LEMMA DownUp ==
    ASSUME NEW b \in Socket
    PROVE  /\ \A f \in DownFrame : Alike(b, Down(b, f))
           /\ \A f \in UpFrame : Alike(b, Up(b, f))
  <1>1. b.up \in Seq(UpFrame) /\ b.down \in Seq(DownFrame)
    BY DEF Socket
  <1>2. ASSUME NEW f \in DownFrame
        PROVE  Alike(b, Down(b, f))
    <2>1. Append(b.down, f) \in Seq(DownFrame)
      BY <1>1
    <2>2. QED
      BY <2>1, SocketUpdates, AlikeItself DEF Down
  <1>3. ASSUME NEW f \in UpFrame
        PROVE  Alike(b, Up(b, f))
    <2>1. Append(b.up, f) \in Seq(UpFrame)
      BY <1>1
    <2>2. QED
      BY <2>1, SocketUpdates, AlikeItself DEF Up
  <1>4. QED
    BY <1>2, <1>3

LEMMA Tails ==
    ASSUME NEW b \in Socket
    PROVE  /\ b.up # << >> => Alike(b, [b EXCEPT !.up = Tail(@)])
           /\ b.down # << >> => Alike(b, [b EXCEPT !.down = Tail(@)])
  <1>1. b.up \in Seq(UpFrame) /\ b.down \in Seq(DownFrame)
    BY DEF Socket
  <1>2. b.up # << >> => Tail(b.up) \in Seq(UpFrame)
    BY <1>1
  <1>3. b.down # << >> => Tail(b.down) \in Seq(DownFrame)
    BY <1>1
  <1>4. QED
    BY <1>2, <1>3, SocketUpdates

LEMMA Closes ==
    ASSUME NEW b \in Socket
    PROVE  Alike(b, Closing(b))
  BY DEF Socket, Closing, Alike

\* A socket that is signed out: the home may begin to close it.
LEMMA SignsOut ==
    ASSUME NEW b \in Socket
    PROVE  LET c == SignedOut(b)
           IN  /\ c \in Socket /\ ~ c.authed
               /\ c.home = b.home /\ c.r = b.r
               /\ c.h \in {"open", "closing"} <=> b.h \in {"open", "closing"}
  <1>1. Alike(b, Closing(b))
    BY Closes
  <1>2. \A c \in Socket :
           LET d == [c EXCEPT !.authed = FALSE]
           IN  d \in Socket /\ ~ d.authed /\ d.home = c.home /\ d.r = c.r /\ d.h = c.h
    BY DEF Socket
  <1>3. QED
    BY <1>1, <1>2 DEF SignedOut, Alike

LEMMA GoneType == Gone \in Socket
  <1>1. << >> \in Seq(UpFrame) /\ << >> \in Seq(DownFrame)
    OBVIOUS
  <1>2. QED
    BY <1>1 DEF Gone, Socket

\* A socket is forgotten only once its two ends are over.
LEMMA KeptOr ==
    ASSUME NEW b \in Socket
    PROVE  \/ Kept(b) = b
           \/ Kept(b) = Gone /\ b.r = "closed" /\ b.h = "closed"
  BY DEF Kept

LEMMA SignsIn ==
    ASSUME NEW b \in Socket, NEW n \in Nat
    PROVE  LET c == SignedIn(b, n)
           IN  /\ c \in Socket /\ c.authed /\ ~ c.nonce /\ ~ c.verifying
               /\ c.home = b.home /\ c.r = b.r
               /\ c.h \in {"open", "closing"} <=> b.h \in {"open", "closing"}
  <1> DEFINE in == [b EXCEPT !.verifying = FALSE, !.nonce = FALSE, !.authed = TRUE, !.since = n]
  <1>1. in \in Socket /\ in.authed /\ ~ in.nonce /\ ~ in.verifying
    BY DEF Socket
  <1>2. in.home = b.home /\ in.r = b.r /\ in.h = b.h
    BY DEF Socket
  <1> HIDE DEF in
  <1>3. [t |-> "ready"] \in DownFrame
    BY DEF DownFrame
  <1>4. Alike(in, Down(in, [t |-> "ready"]))
    BY <1>1, <1>3, DownUp
  <1>5. SignedIn(b, n) = IF b.h = "open" THEN Down(in, [t |-> "ready"]) ELSE in
    BY DEF SignedIn, in
  <1>6. QED
    BY <1>1, <1>2, <1>4, <1>5 DEF Alike

-----------------------------------------------------------------------------
(* The choices *)

LEMMA Smallest ==
    ASSUME NEW S \in SUBSET Nat, S # {}
    PROVE  \E m \in S : \A i \in S : m <= i
  <1>1. \E m \in S : \A i \in S : << i, m >> \notin OpToRel(<, Nat)
    BY WFMin, NatLessThanWellFounded
  <1>2. PICK m \in S : \A i \in S : << i, m >> \notin OpToRel(<, Nat)
    BY <1>1
  <1>3. \A i \in S : ~ (i < m)
    BY <1>2 DEF OpToRel
  <1>4. QED
    BY <1>3

\* Of the first n sockets, one is as late as any.
LEMMA LatestOf ==
    ASSUME NEW f \in [Sockets -> Nat]
    PROVE  \E m \in Sockets : \A s \in Sockets : f[s] <= f[m]
  <1> DEFINE Has(n) == \E m \in 1 .. n : \A s \in 1 .. n : f[s] <= f[m]
             Bad == {n \in Nat \ {0} : n <= MaxSockets /\ ~ Has(n)}
  <1>1. MaxSockets \in Nat \ {0} /\ \A s \in 1 .. MaxSockets : f[s] \in Nat
    BY DEF Sockets
  <1>2. SUFFICES ASSUME Bad # {}
                 PROVE  FALSE
    <2>1. CASE Bad # {}
      BY <2>1
    <2>2. CASE Bad = {}
      <3>1. MaxSockets \notin Bad
        BY <2>2
      <3>2. Has(MaxSockets)
        BY <1>1, <3>1
      <3>3. QED
        BY <3>2 DEF Sockets
    <2>3. QED
      BY <2>1, <2>2
  <1>3. Bad \in SUBSET Nat
    OBVIOUS
  <1> HIDE DEF Bad
  <1>4. PICK n \in Bad : \A k \in Bad : n <= k
    BY <1>2, <1>3, Smallest
  <1>5. n \in Nat \ {0} /\ n <= MaxSockets /\ ~ Has(n)
    BY <1>4 DEF Bad
  <1>6. n # 1
    <2>1. ASSUME n = 1
          PROVE  Has(n)
      <3>1. 1 \in 1 .. n /\ \A s \in 1 .. n : s = 1
        BY <2>1
      <3>2. f[1] \in Nat
        BY <1>1
      <3>3. QED
        BY <3>1, <3>2
    <2>2. QED
      BY <1>5, <2>1
  <1>7. n - 1 \in Nat \ {0} /\ n - 1 <= MaxSockets /\ n - 1 \notin Bad
    BY <1>1, <1>4, <1>5, <1>6
  <1>8. Has(n - 1)
    BY <1>7 DEF Bad
  <1>9. PICK m \in 1 .. (n - 1) : \A s \in 1 .. (n - 1) : f[s] <= f[m]
    BY <1>8
  <1>10. /\ \A s \in 1 .. n : s \in 1 .. (n - 1) \/ s = n
         /\ m \in 1 .. n /\ n \in 1 .. n
         /\ \A s \in 1 .. n : f[s] \in Nat
    BY <1>1, <1>5
  <1>11. CASE f[n] <= f[m]
    BY <1>5, <1>9, <1>10, <1>11
  <1>12. CASE f[m] <= f[n]
    <2>1. \A s \in 1 .. n : f[s] <= f[n]
      BY <1>9, <1>10, <1>12
    <2>2. QED
      BY <1>5, <1>10, <2>1
  <1>13. QED
    BY <1>10, <1>11, <1>12

LEMMA LatestType ==
    ASSUME sock \in [Sockets -> Socket]
    PROVE  Latest \in Nat
  <1> DEFINE f == [s \in Sockets |-> sock[s].since]
             S == {sock[x].since : x \in Sockets}
  <1>1. \A s \in Sockets : sock[s].since \in Nat
    BY DEF Socket
  <1>2. f \in [Sockets -> Nat]
    BY <1>1
  <1>3. PICK m \in Sockets : \A s \in Sockets : f[s] <= f[m]
    BY <1>2, LatestOf
  <1>4. \A s \in Sockets : sock[m].since >= sock[s].since
    BY <1>1, <1>3
  <1>5. \E x \in S : \A y \in S : x >= y
    BY <1>4
  <1>6. Max(S) \in S
    BY <1>5 DEF Max
  <1>7. S \subseteq Nat
    BY <1>1
  <1>8. Max(S) \in Nat
    BY <1>6, <1>7
  <1>9. QED
    BY <1>8 DEF Latest

\* The tunnel of a home is one that is open and signed in.
LEMMA TunnelIsThere ==
    ASSUME TunnelInv, NEW h, TunnelSocket(h) # 0
    PROVE  LET s == TunnelSocket(h)
           IN  s \in Sockets /\ sock[s].home = h /\ sock[s].authed /\ sock[s].h = "open"
  <1> DEFINE here == {s \in Sockets : sock[s].home = h /\ sock[s].authed /\ sock[s].h = "open"}
  <1>1. here # {} /\ TunnelSocket(h) = CHOOSE s \in here : \A x \in here : sock[x].since <= sock[s].since
    BY DEF TunnelSocket
  <1>2. PICK s \in here : TRUE
    BY <1>1
  <1>3. \A x \in here : x = s
    BY DEF TunnelInv, HomeEnd, Listed
  <1>4. sock[s].since \in Nat
    BY DEF TunnelInv, TunnelType, Socket
  <1>5. \A x \in here : sock[x].since <= sock[s].since
    BY <1>3, <1>4
  <1>6. TunnelSocket(h) \in here
    BY <1>1, <1>5
  <1>7. QED
    BY <1>6

LEMMA HomeToTryType ==
    ASSUME TunnelType, HomeIds \ refused # {}
    PROVE  /\ HomeToTry \in HomeIds \ refused
           /\ client.index \notin refused => HomeToTry = client.index
  <1>1. client.index \in HomeIds /\ Homes \in Nat
    BY DEF TunnelType, Client
  <1>2. CASE client.index \notin refused
    BY <1>1, <1>2 DEF HomeToTry
  <1>3. CASE client.index \in refused
    <2>1. PICK h \in HomeIds \ refused : TRUE
      OBVIOUS
    <2>2. \E n \in 0 .. Homes : h = client.index + n \/ h = client.index + n - Homes
      <3>1. CASE h >= client.index
        <4>1. h - client.index \in 0 .. Homes /\ h = client.index + (h - client.index)
          BY <1>1, <2>1, <3>1 DEF HomeIds
        <4>2. QED
          BY <4>1
      <3>2. CASE h < client.index
        <4> DEFINE n == h - client.index + Homes
        <4>1. n \in 0 .. Homes /\ h = client.index + n - Homes
          BY <1>1, <2>1, <3>2 DEF HomeIds
        <4>2. QED
          BY <4>1
      <3>3. QED
        BY <1>1, <2>1, <3>1, <3>2 DEF HomeIds
    <2>3. QED
      BY <1>3, <2>1, <2>2 DEF HomeToTry
  <1>4. QED
    BY <1>2, <1>3

LEMMA NextHomeType ==
    ASSUME NEW h \in HomeIds
    PROVE  NextHome(h) \in HomeIds
  <1>1. h \in Nat /\ Homes \in Nat \ {0}
    BY DEF HomeIds
  <1>2. h % Homes \in 0 .. (Homes - 1)
    BY <1>1
  <1>3. \A r \in 0 .. (Homes - 1) : r + 1 \in 1 .. Homes
    BY <1>1
  <1>4. QED
    BY <1>2, <1>3 DEF NextHome, HomeIds

-----------------------------------------------------------------------------
(* What steps have in common *)

LEMMA OneSocket ==
    ASSUME sock \in [Sockets -> Socket], NEW s \in Sockets, NEW c, Alike(sock[s], c),
           sock' = [sock EXCEPT ![s] = c]
    PROVE  /\ sock' \in [Sockets -> Socket]
           /\ \A x \in Sockets : Alike(sock[x], sock'[x])
  <1>1. c \in Socket
    BY DEF Alike
  <1>2. \A x \in Sockets : sock'[x] = IF x = s THEN c ELSE sock[x]
    OBVIOUS
  <1>3. QED
    BY <1>1, <1>2, AlikeItself

LEMMA NoSocket ==
    ASSUME sock \in [Sockets -> Socket], UNCHANGED sock
    PROVE  /\ sock' \in [Sockets -> Socket]
           /\ \A x \in Sockets : Alike(sock[x], sock'[x])
  BY AlikeItself

\* No home lists or signs in another socket.
LEMMA HomeStays ==
    ASSUME HomeEnd, opened' = opened,
           \A s \in Sockets : sock'[s].authed => ~ sock'[s].nonce /\ ~ sock'[s].verifying,
           \A s \in Sockets : Listed(s)' => Listed(s) /\ sock'[s].home = sock[s].home,
           \A s \in Sockets : Listed(s)' /\ sock'[s].authed => sock[s].authed
    PROVE  HomeEnd'
  BY DEF HomeEnd

LEMMA RelayStays ==
    ASSUME RelayEnd, client'.current = client.current, client'.index = client.index,
           refused' \subseteq refused,
           \A s \in Sockets : sock'[s].r = sock[s].r,
           \A s \in Sockets : sock[s].r = "open" => sock'[s].home = sock[s].home,
           \A p \in Peers : stream'[p] \in {0, client.current}
    PROVE  RelayEnd'
  BY DEF RelayEnd

\* Frames come and go, peers and requests with them.
LEMMA QuietStep ==
    ASSUME TunnelInv,
           sock' \in [Sockets -> Socket], \A s \in Sockets : Alike(sock[s], sock'[s]),
           peer' \in [Peers -> PeerSocket], request' \in [Requests -> Exchange],
           stream' \in [Peers -> 0 .. MaxSockets], \A p \in Peers : stream'[p] \in {0, client.current},
           client' \in Client, client'.current = client.current, client'.index = client.index,
           refused' \subseteq refused, opened' = opened, upsets' \in 0 .. MaxUpsets,
           \A p \in Peers : peer'[p].state = "open" =>
              peer'[p].gen \in Sockets /\ Listed(peer'[p].gen) /\ sock[peer'[p].gen].authed,
           AddressIsOwned'
    PROVE  TunnelInv'
  <1>1. TunnelType'
    BY DEF TunnelInv, TunnelType
  <1>2. \A s \in Sockets : /\ sock'[s].home = sock[s].home /\ sock'[s].r = sock[s].r
                           /\ sock'[s].authed = sock[s].authed /\ sock'[s].nonce = sock[s].nonce
                           /\ sock'[s].verifying = sock[s].verifying
                           /\ Listed(s)' <=> Listed(s)
    BY DEF Alike, Listed
  <1>3. HomeEnd'
    BY <1>2, HomeStays DEF TunnelInv, HomeEnd
  <1>4. RelayEnd'
    BY <1>2, RelayStays DEF TunnelInv
  <1>5. PeersHaveTunnels'
    BY <1>2 DEF PeersHaveTunnels
  <1>6. QED
    BY <1>1, <1>3, <1>4, <1>5 DEF TunnelInv

LEMMA PeersWithoutType ==
    ASSUME peer \in [Peers -> PeerSocket], NEW gens
    PROVE  /\ PeersWithout(gens) \in [Peers -> PeerSocket]
           /\ \A p \in Peers : PeersWithout(gens)[p].state = "open" =>
                 /\ peer[p].state = "open" /\ peer[p].gen \notin gens
                 /\ PeersWithout(gens)[p] = peer[p]
  <1>1. \A p \in Peers : LET c == [peer[p] EXCEPT !.state = "closing"]
                         IN  c \in PeerSocket /\ c.state # "open"
    BY DEF PeerSocket
  <1>2. QED
    BY <1>1 DEF PeersWithout

LEMMA InvParts ==
    TunnelInv => /\ sock \in [Sockets -> Socket]
                 /\ peer \in [Peers -> PeerSocket]
                 /\ request \in [Requests -> Exchange]
                 /\ stream \in [Peers -> 0 .. MaxSockets]
                 /\ \A p \in Peers : stream[p] \in {0, client.current}
                 /\ client \in Client
                 /\ refused \subseteq HomeIds
                 /\ opened \in 0 .. MaxSockets
                 /\ upsets \in 0 .. MaxUpsets
                 /\ \A p \in Peers : peer[p].state = "open" =>
                       peer[p].gen \in Sockets /\ Listed(peer[p].gen) /\ sock[peer[p].gen].authed
  BY DEF TunnelInv, TunnelType, RelayEnd, PeersHaveTunnels

LEMMA AddressStays ==
    ASSUME AddressIsOwned, UNCHANGED << client, refused >>
    PROVE  AddressIsOwned'
  BY DEF AddressIsOwned

LEMMA FrameTypes ==
    /\ \A p \in Peers : [t |-> "open", p |-> p] \in DownFrame /\ [t |-> "end", p |-> p] \in DownFrame
    /\ \A q \in Requests : [t |-> "req", q |-> q] \in DownFrame
    /\ \A p \in Peers : [t |-> "end", p |-> p] \in UpFrame
    /\ \A q \in Requests : [t |-> "res", q |-> q] \in UpFrame
    /\ [t |-> "hello"] \in UpFrame
  BY DEF DownFrame, UpFrame

LEMMA FrameFields ==
    /\ \A f \in DownFrame : f.t = "req" => f.q \in Requests
    /\ \A f \in DownFrame : f.t \in {"open", "end"} => f.p \in Peers
    /\ \A f \in UpFrame : f.t = "res" => f.q \in Requests
    /\ \A f \in UpFrame : f.t = "end" => f.p \in Peers
  <1>1. \A f \in DownFrame : f.t = "req" => f.q \in Requests
    BY DEF DownFrame
  <1>2. \A f \in DownFrame : f.t \in {"open", "end"} => f.p \in Peers
    BY DEF DownFrame
  <1>3. \A f \in UpFrame : f.t = "res" => f.q \in Requests
    BY DEF UpFrame
  <1>4. \A f \in UpFrame : f.t = "end" => f.p \in Peers
    BY DEF UpFrame
  <1>5. QED
    BY <1>1, <1>2, <1>3, <1>4

-----------------------------------------------------------------------------
(* The home's actions *)

LEMMA HelloStep ==
    ASSUME TunnelInv, NEW s \in Sockets, HelloArrives(s)
    PROVE  TunnelInv'
  <1> DEFINE c == [sock[s] EXCEPT !.up = Tail(@), !.verifying = TRUE]
  <1>1. sock[s] \in Socket /\ sock[s].up # << >> /\ ~ sock[s].authed
    BY InvParts DEF HelloArrives
  <1>2. /\ c \in Socket
        /\ c.home = sock[s].home /\ c.r = sock[s].r /\ c.h = sock[s].h /\ ~ c.authed
    <2>1. Tail(sock[s].up) \in Seq(UpFrame)
      BY <1>1 DEF Socket
    <2>2. QED
      BY <1>1, <2>1 DEF Socket
  <1>3. sock' = [sock EXCEPT ![s] = c]
    BY DEF HelloArrives
  <1> HIDE DEF c
  <1>4. /\ sock' \in [Sockets -> Socket]
        /\ \A x \in Sockets : sock'[x] = IF x = s THEN c ELSE sock[x]
    BY <1>2, <1>3, InvParts
  <1>5. TunnelType'
    BY <1>4 DEF HelloArrives, relayVars, TunnelInv, TunnelType
  <1>6. /\ \A x \in Sockets : Listed(x)' <=> Listed(x)
        /\ \A x \in Sockets : /\ sock'[x].r = sock[x].r /\ sock'[x].home = sock[x].home
                              /\ sock'[x].authed <=> sock[x].authed
    BY <1>1, <1>2, <1>4 DEF Listed
  <1>7. \A x \in Sockets : sock'[x].authed => ~ sock'[x].nonce /\ ~ sock'[x].verifying
    BY <1>2, <1>4 DEF TunnelInv, HomeEnd
  <1>8. HomeEnd'
    BY <1>6, <1>7, HomeStays DEF HelloArrives, relayVars, TunnelInv
  <1>9. RelayEnd'
    BY <1>6, RelayStays, InvParts DEF HelloArrives, relayVars, TunnelInv
  <1>10. PeersHaveTunnels'
    BY <1>6, InvParts DEF HelloArrives, PeersHaveTunnels
  <1>11. AddressIsOwned'
    BY AddressStays DEF HelloArrives, relayVars, TunnelInv
  <1>12. QED
    BY <1>5, <1>8, <1>9, <1>10, <1>11 DEF TunnelInv

LEMMA SignInStep ==
    ASSUME TunnelInv, NEW s \in Sockets, SignIn(s)
    PROVE  TunnelInv'
  <1> DEFINE in == SignedIn(sock[s], Latest)
             Away(x) == x \in Others(s)
  <1>1. /\ sock \in [Sockets -> Socket]
        /\ \A x \in Sockets : Away(x) <=> x # s /\ Listed(x) /\ sock[x].home = sock[s].home
        /\ ~ sock[s].authed
    BY InvParts DEF SignIn, Others, TunnelInv, HomeEnd
  <1>2. /\ in \in Socket /\ in.authed /\ ~ in.nonce /\ ~ in.verifying
        /\ in.home = sock[s].home /\ in.r = sock[s].r
        /\ in.h \in {"open", "closing"} <=> Listed(s)
    <2>1. Latest \in Nat
      BY <1>1, LatestType
    <2>2. QED
      BY <1>1, <2>1, SignsIn DEF Listed
  <1>3. sock' = [x \in Sockets |->
          IF x = s THEN Kept(in) ELSE IF Away(x) THEN SignedOut(sock[x]) ELSE sock[x]]
    BY DEF SignIn
  <1>4. peer' = PeersWithout(Others(s))
    BY DEF SignIn
  <1> HIDE DEF in
  <1>5. /\ sock'[s] \in Socket /\ sock'[s].r = sock[s].r
        /\ Listed(s)' <=> Listed(s)
        /\ Listed(s) \/ sock[s].r = "open" => sock'[s].home = sock[s].home
        /\ sock'[s].authed => ~ sock'[s].nonce /\ ~ sock'[s].verifying
    <2>1. sock'[s] = Kept(in)
      BY <1>3
    <2>2. CASE Kept(in) = in
      BY <1>2, <2>1, <2>2 DEF Listed
    <2>3. CASE Kept(in) = Gone /\ in.r = "closed" /\ in.h = "closed"
      <3>1. Gone \in Socket /\ Gone.r = "closed" /\ Gone.h = "closed" /\ ~ Gone.authed
        BY GoneType DEF Gone
      <3>2. QED
        BY <1>2, <2>1, <2>3, <3>1 DEF Listed
    <2>4. QED
      BY <1>2, <2>2, <2>3, KeptOr
  <1>6. ASSUME NEW x \in Sockets, x # s
        PROVE  /\ sock'[x] \in Socket /\ sock'[x].r = sock[x].r /\ sock'[x].home = sock[x].home
               /\ Listed(x)' <=> Listed(x)
               /\ sock'[x].authed => sock[x].authed /\ ~ Away(x) /\ sock'[x] = sock[x]
    <2>1. sock[x] \in Socket
      BY <1>1
    <2>2. CASE Away(x)
      <3>1. sock'[x] = SignedOut(sock[x])
        BY <1>3, <1>6, <2>2
      <3>2. QED
        BY <2>1, <3>1, SignsOut DEF Listed
    <2>3. CASE ~ Away(x)
      <3>1. sock'[x] = sock[x]
        BY <1>3, <1>6, <2>3
      <3>2. QED
        BY <2>1, <2>3, <3>1 DEF Listed
    <2>4. QED
      BY <2>2, <2>3
  <1>7. sock' \in [Sockets -> Socket]
    <2>1. \A x \in Sockets : sock'[x] \in Socket
      BY <1>5, <1>6
    <2>2. sock' = [x \in Sockets |-> sock'[x]]
      BY <1>3
    <2>3. QED
      BY <2>1, <2>2
  <1>8. /\ peer' \in [Peers -> PeerSocket]
        /\ \A p \in Peers : peer'[p].state = "open" =>
              /\ peer[p].state = "open" /\ ~ Away(peer[p].gen) /\ peer'[p] = peer[p]
    BY <1>4, InvParts, PeersWithoutType
  <1> HIDE DEF Away
  <1>9. TunnelType'
    BY <1>7, <1>8 DEF SignIn, relayVars, TunnelInv, TunnelType
  <1>10. RelayEnd'
    <2>1. \A x \in Sockets : sock'[x].r = sock[x].r
      BY <1>5, <1>6
    <2>2. \A x \in Sockets : sock[x].r = "open" => sock'[x].home = sock[x].home
      BY <1>5, <1>6
    <2>3. QED
      BY <2>1, <2>2, RelayStays, InvParts DEF SignIn, relayVars, TunnelInv
  <1>11. HomeEnd'
    <2>1. \A x \in Sockets : sock'[x].authed => ~ sock'[x].nonce /\ ~ sock'[x].verifying
      BY <1>5, <1>6 DEF TunnelInv, HomeEnd
    <2>2. \A x \in Sockets : Listed(x)' => x <= opened'
      BY <1>5, <1>6 DEF TunnelInv, HomeEnd, SignIn, relayVars
    <2>3. ASSUME NEW x \in Sockets, NEW y \in Sockets, Listed(x)', Listed(y)',
                 sock'[x].authed, sock'[y].authed, sock'[x].home = sock'[y].home
          PROVE  x = y
      <3>1. Listed(x) /\ Listed(y) /\ sock[x].home = sock[y].home
        BY <1>5, <1>6, <2>3
      <3>2. CASE x = s \/ y = s
        BY <1>1, <1>6, <2>3, <3>1, <3>2
      <3>3. CASE x # s /\ y # s
        BY <1>6, <2>3, <3>1, <3>3 DEF TunnelInv, HomeEnd
      <3>4. QED
        BY <3>2, <3>3
    <2>4. QED
      BY <2>1, <2>2, <2>3 DEF HomeEnd
  <1>12. PeersHaveTunnels'
    <2> SUFFICES ASSUME NEW p \in Peers, peer'[p].state = "open"
                 PROVE  (peer[p].gen \in Sockets /\ Listed(peer[p].gen) /\ sock[peer[p].gen].authed)'
      BY DEF PeersHaveTunnels
    <2>1. PICK x \in Sockets : Listed(x) /\ sock[x].authed /\ ~ Away(x) /\ peer'[p].gen = x
      BY <1>8, InvParts
    <2>2. x # s
      BY <1>1, <2>1
    <2>3. sock'[x] = sock[x]
      BY <1>3, <2>1, <2>2
    <2>4. QED
      BY <2>1, <2>3 DEF Listed
  <1>13. AddressIsOwned'
    BY AddressStays DEF SignIn, relayVars, TunnelInv
  <1>14. QED
    BY <1>9, <1>10, <1>11, <1>12, <1>13 DEF TunnelInv

LEMMA ConnectsStep ==
    ASSUME TunnelInv, NEW p \in Peers, PeerConnects(p)
    PROVE  TunnelInv'
  <1>1. PICK h \in HomeIds :
           /\ TunnelSocket(h) # 0
           /\ sock' = [sock EXCEPT ![TunnelSocket(h)] = Down(@, [t |-> "open", p |-> p])]
           /\ peer' = [peer EXCEPT ![p] = [state |-> "open", gen |-> TunnelSocket(h)]]
    BY DEF PeerConnects
  <1>2. PICK s \in Sockets : s = TunnelSocket(h) /\ sock[s].authed /\ Listed(s)
    BY <1>1, TunnelIsThere DEF Listed
  <1>3. Alike(sock[s], Down(sock[s], [t |-> "open", p |-> p]))
    BY InvParts, DownUp, FrameTypes
  <1>4. /\ sock' \in [Sockets -> Socket]
        /\ \A x \in Sockets : Alike(sock[x], sock'[x])
    BY <1>1, <1>2, <1>3, InvParts, OneSocket
  <1>5. /\ peer' \in [Peers -> PeerSocket]
        /\ \A x \in Peers : peer'[x].state = "open" =>
              peer'[x].gen \in Sockets /\ Listed(peer'[x].gen) /\ sock[peer'[x].gen].authed
    <2>1. LET r == [state |-> "open", gen |-> s] IN r \in PeerSocket /\ r.gen = s
      BY DEF PeerSocket, Sockets
    <2>2. QED
      BY <1>1, <1>2, <2>1, InvParts
  <1>6. AddressIsOwned'
    BY AddressStays DEF PeerConnects, relayVars, TunnelInv
  <1>7. QED
    BY <1>4, <1>5, <1>6, InvParts, QuietStep DEF PeerConnects, relayVars

\* A peer's socket that is over, or about to be.
LEMMA PeerEnds ==
    ASSUME TunnelInv, NEW p \in Peers, NEW state \in {"closing", "over"},
           peer' = [peer EXCEPT ![p].state = state]
    PROVE  /\ peer' \in [Peers -> PeerSocket]
           /\ \A x \in Peers : peer'[x].state = "open" =>
                 peer'[x].gen \in Sockets /\ Listed(peer'[x].gen) /\ sock[peer'[x].gen].authed
  <1> DEFINE r == [peer[p] EXCEPT !.state = state]
  <1>1. r \in PeerSocket /\ r.state # "open"
    BY InvParts DEF PeerSocket
  <1>2. peer' = [peer EXCEPT ![p] = r]
    BY InvParts
  <1> HIDE DEF r
  <1>3. QED
    BY <1>1, <1>2, InvParts

LEMMA SpeaksStep ==
    ASSUME TunnelInv, NEW p \in Peers, PeerSpeaks(p)
    PROVE  TunnelInv'
  <1>1. /\ peer' \in [Peers -> PeerSocket]
        /\ \A x \in Peers : peer'[x].state = "open" =>
              peer'[x].gen \in Sockets /\ Listed(peer'[x].gen) /\ sock[peer'[x].gen].authed
    BY PeerEnds DEF PeerSpeaks
  <1>2. /\ sock' \in [Sockets -> Socket]
        /\ \A x \in Sockets : Alike(sock[x], sock'[x])
    BY InvParts, NoSocket DEF PeerSpeaks
  <1>3. AddressIsOwned'
    BY AddressStays DEF PeerSpeaks, relayVars, TunnelInv
  <1>4. QED
    BY <1>1, <1>2, <1>3, InvParts, QuietStep DEF PeerSpeaks, relayVars

LEMMA PeerClosesStep ==
    ASSUME TunnelInv, NEW p \in Peers, PeerCloses(p)
    PROVE  TunnelInv'
  <1>1. /\ peer' \in [Peers -> PeerSocket]
        /\ \A x \in Peers : peer'[x].state = "open" =>
              peer'[x].gen \in Sockets /\ Listed(peer'[x].gen) /\ sock[peer'[x].gen].authed
    BY PeerEnds DEF PeerCloses
  <1>2. /\ sock' \in [Sockets -> Socket]
        /\ \A x \in Sockets : Alike(sock[x], sock'[x])
    <2> DEFINE s == peer[p].gen
               c == Down(sock[s], [t |-> "end", p |-> p])
    <2>1. CASE sock' = sock
      BY <2>1, InvParts, NoSocket
    <2>2. CASE s \in Sockets /\ sock' = [sock EXCEPT ![s] = Down(@, [t |-> "end", p |-> p])]
      <3>1. Alike(sock[s], c)
        BY <2>2, InvParts, DownUp, FrameTypes
      <3>2. sock' = [sock EXCEPT ![s] = c]
        BY <2>2, InvParts
      <3> HIDE DEF c, s
      <3>3. QED
        BY <2>2, <3>1, <3>2, InvParts, OneSocket
    <2>3. CASE s \notin Sockets /\ sock' = [sock EXCEPT ![s] = Down(@, [t |-> "end", p |-> p])]
      <3>1. sock' = sock
        BY <2>3, InvParts
      <3>2. QED
        BY <2>1, <3>1
    <2>4. QED
      BY <2>1, <2>2, <2>3 DEF PeerCloses
  <1>3. AddressIsOwned'
    BY AddressStays DEF PeerCloses, relayVars, TunnelInv
  <1>4. QED
    BY <1>1, <1>2, <1>3, InvParts, QuietStep DEF PeerCloses, relayVars

LEMMA RequestStep ==
    ASSUME TunnelInv, NEW q \in Requests, RequestArrives(q)
    PROVE  TunnelInv'
  <1>1. PICK h \in HomeIds :
           /\ TunnelSocket(h) # 0
           /\ sock' = [sock EXCEPT ![TunnelSocket(h)] = Down(@, [t |-> "req", q |-> q])]
           /\ request' = [request EXCEPT ![q] = [state |-> "pending", via |-> TunnelSocket(h)]]
    BY DEF RequestArrives
  <1>2. PICK s \in Sockets : s = TunnelSocket(h)
    BY <1>1, TunnelIsThere
  <1>3. Alike(sock[s], Down(sock[s], [t |-> "req", q |-> q]))
    BY InvParts, DownUp, FrameTypes
  <1>4. /\ sock' \in [Sockets -> Socket]
        /\ \A x \in Sockets : Alike(sock[x], sock'[x])
    BY <1>1, <1>2, <1>3, InvParts, OneSocket
  <1>5. request' \in [Requests -> Exchange]
    <2>1. [state |-> "pending", via |-> s] \in Exchange
      BY DEF Exchange, Sockets
    <2>2. QED
      BY <1>1, <1>2, <2>1, InvParts
  <1>6. AddressIsOwned'
    BY AddressStays DEF RequestArrives, relayVars, TunnelInv
  <1>7. QED
    BY <1>4, <1>5, <1>6, InvParts, QuietStep DEF RequestArrives, relayVars

\* Sockets that are signed out or over at the home, and their peers with them.
LEMMA TunnelGoes ==
    ASSUME TunnelInv, NEW s, peer' = PeersWithout({s}), UNCHANGED << relayVars, upsets >>,
           request' \in [Requests -> Exchange], sock' \in [Sockets -> Socket],
           \A x \in Sockets : x # s => sock'[x] = sock[x],
           s \in Sockets => /\ sock'[s].r = sock[s].r
                            /\ sock'[s].authed => sock[s].authed
                            /\ sock[s].r = "open" => sock'[s].home = sock[s].home
                            /\ Listed(s)' => Listed(s) /\ sock'[s].home = sock[s].home
                            /\ sock'[s].authed => sock'[s].nonce = sock[s].nonce
                                                  /\ sock'[s].verifying = sock[s].verifying
    PROVE  TunnelInv'
  <1>1. /\ peer' \in [Peers -> PeerSocket]
        /\ \A p \in Peers : peer'[p].state = "open" =>
              peer[p].state = "open" /\ peer[p].gen # s /\ peer'[p] = peer[p]
    BY InvParts, PeersWithoutType
  <1>2. TunnelType'
    BY <1>1 DEF TunnelInv, TunnelType, relayVars
  <1>3. \A x \in Sockets :
           /\ sock'[x].r = sock[x].r
           /\ sock'[x].authed => sock[x].authed
           /\ sock[x].r = "open" => sock'[x].home = sock[x].home
           /\ Listed(x)' => Listed(x) /\ sock'[x].home = sock[x].home
           /\ sock'[x].authed => sock'[x].nonce = sock[x].nonce /\ sock'[x].verifying = sock[x].verifying
    BY DEF Listed
  <1>4. HomeEnd'
    BY <1>3, HomeStays DEF TunnelInv, HomeEnd, relayVars
  <1>5. RelayEnd'
    BY <1>3, RelayStays, InvParts DEF TunnelInv, relayVars
  <1>6. PeersHaveTunnels'
    <2> SUFFICES ASSUME NEW p \in Peers, peer'[p].state = "open"
                 PROVE  (peer[p].gen \in Sockets /\ Listed(peer[p].gen) /\ sock[peer[p].gen].authed)'
      BY DEF PeersHaveTunnels
    <2>1. PICK x \in Sockets : Listed(x) /\ sock[x].authed /\ x # s /\ peer'[p].gen = x
      BY <1>1, InvParts
    <2>2. sock'[x] = sock[x]
      BY <2>1
    <2>3. QED
      BY <2>1, <2>2 DEF Listed
  <1>7. AddressIsOwned'
    BY AddressStays DEF relayVars, TunnelInv
  <1>8. QED
    BY <1>2, <1>4, <1>5, <1>6, <1>7 DEF TunnelInv

LEMMA TimeoutStep ==
    ASSUME TunnelInv, NEW q \in Requests, RequestTimesOut(q)
    PROVE  TunnelInv'
  <1>1. PICK s : /\ sock' = [x \in Sockets |-> IF x = s THEN SignedOut(sock[x]) ELSE sock[x]]
                 /\ peer' = PeersWithout({s})
    BY DEF RequestTimesOut
  <1>2. \A x \in Sockets : sock[x] \in Socket
    BY InvParts
  <1>3. \A x \in Sockets : SignedOut(sock[x]) \in Socket
    BY <1>2, SignsOut
  <1>4. sock' \in [Sockets -> Socket]
    BY <1>1, <1>2, <1>3
  <1>5. request' \in [Requests -> Exchange]
    <2>1. [request[q] EXCEPT !.state = "silent"] \in Exchange
      BY InvParts DEF Exchange
    <2>2. QED
      BY <2>1, InvParts DEF RequestTimesOut
  <1>6. s \in Sockets => /\ ~ sock'[s].authed /\ sock'[s].r = sock[s].r /\ sock'[s].home = sock[s].home
                         /\ Listed(s)' <=> Listed(s)
    BY <1>1, <1>2, SignsOut DEF Listed
  <1>7. QED
    BY <1>1, <1>4, <1>5, <1>6, TunnelGoes DEF RequestTimesOut

LEMMA HomeClosesStep ==
    ASSUME TunnelInv, NEW s \in Sockets, HomeCloses(s)
    PROVE  TunnelInv'
  <1> DEFINE c == [sock[s] EXCEPT !.h = "closed"]
  <1>1. /\ c \in Socket /\ c.h = "closed" /\ c.r = sock[s].r /\ c.home = sock[s].home
        /\ c.authed = sock[s].authed /\ c.nonce = sock[s].nonce /\ c.verifying = sock[s].verifying
    <2>1. sock[s] \in Socket
      BY InvParts
    <2>2. QED
      BY <2>1 DEF Socket
  <1>2. sock' = [sock EXCEPT ![s] = Kept(c)]
    BY InvParts DEF HomeCloses
  <1> HIDE DEF c
  <1>3. /\ Kept(c) \in Socket /\ Kept(c).h = "closed" /\ Kept(c).r = sock[s].r
        /\ Kept(c).authed => Kept(c) = c
        /\ sock[s].r = "open" => Kept(c) = c
    <2>1. CASE Kept(c) = c
      BY <1>1, <2>1
    <2>2. CASE Kept(c) = Gone /\ c.r = "closed"
      BY <1>1, <2>2, GoneType DEF Gone
    <2>3. QED
      BY <1>1, <2>1, <2>2, KeptOr
  <1>4. /\ sock' \in [Sockets -> Socket]
        /\ \A x \in Sockets : x # s => sock'[x] = sock[x]
        /\ sock'[s] = Kept(c)
    BY <1>2, <1>3, InvParts
  <1>5. ~ Listed(s)'
    BY <1>3, <1>4 DEF Listed
  <1>6. QED
    BY <1>1, <1>3, <1>4, <1>5, TunnelGoes, InvParts DEF HomeCloses

LEMMA CloseArrivesStep ==
    ASSUME TunnelInv, NEW s \in Sockets, CloseArrives(s)
    PROVE  TunnelInv'
  <1>1. Alike(sock[s], Closing(sock[s]))
    BY InvParts, Closes
  <1>2. /\ sock' \in [Sockets -> Socket]
        /\ \A x \in Sockets : Alike(sock[x], sock'[x])
    BY <1>1, InvParts, OneSocket DEF CloseArrives
  <1>3. AddressIsOwned'
    BY AddressStays DEF CloseArrives, relayVars, TunnelInv
  <1>4. QED
    BY <1>2, <1>3, InvParts, QuietStep DEF CloseArrives, relayVars

LEMMA FrameStep ==
    ASSUME TunnelInv, NEW s \in Sockets, FrameArrives(s)
    PROVE  TunnelInv'
  <1> DEFINE f == Head(sock[s].up)
             b == [sock[s] EXCEPT !.up = Tail(@)]
             c == IF sock[s].authed THEN b ELSE Closing(b)
  <1>1. sock[s] \in Socket /\ sock[s].up # << >> /\ f \in UpFrame
    <2>1. sock[s] \in Socket /\ sock[s].up # << >>
      BY InvParts DEF FrameArrives
    <2>2. sock[s].up \in Seq(UpFrame)
      BY <2>1 DEF Socket
    <2>3. QED
      BY <2>1, <2>2
  <1>2. Alike(sock[s], c)
    <2>1. Alike(sock[s], b)
      BY <1>1, Tails
    <2>2. Alike(b, Closing(b))
      BY <2>1, Closes DEF Alike
    <2>3. QED
      BY <2>1, <2>2, AlikeTwice
  <1>3. sock' = [sock EXCEPT ![s] = c]
    <2>1. sock \in [Sockets -> Socket]
      BY InvParts
    <2>2. CASE sock[s].authed
      BY <2>1, <2>2 DEF FrameArrives
    <2>3. CASE ~ sock[s].authed
      <3>1. sock' = [[sock EXCEPT ![s].up = Tail(@)] EXCEPT ![s] = Closing(@)]
        BY <2>3 DEF FrameArrives
      <3>2. [sock EXCEPT ![s].up = Tail(@)] = [sock EXCEPT ![s] = b]
        BY <2>1
      <3> HIDE DEF b
      <3>3. QED
        BY <2>1, <2>3, <3>1, <3>2
    <2>4. QED
      BY <2>2, <2>3
  <1>4. peer' = peer \/ (f.p \in Peers /\ peer' = [peer EXCEPT ![f.p].state = "closing"])
    BY <1>1, FrameFields DEF FrameArrives
  <1>5. request' = request \/ (f.q \in Requests /\ request' = [request EXCEPT ![f.q].state = "answered"])
    BY <1>1, FrameFields DEF FrameArrives
  <1> HIDE DEF c, f
  <1>6. /\ sock' \in [Sockets -> Socket]
        /\ \A x \in Sockets : Alike(sock[x], sock'[x])
    BY <1>2, <1>3, InvParts, OneSocket
  <1>7. /\ peer' \in [Peers -> PeerSocket]
        /\ \A x \in Peers : peer'[x].state = "open" =>
              peer'[x].gen \in Sockets /\ Listed(peer'[x].gen) /\ sock[peer'[x].gen].authed
    BY <1>4, InvParts, PeerEnds
  <1>8. request' \in [Requests -> Exchange]
    <2>1. CASE request' = request
      BY <2>1, InvParts
    <2>2. CASE f.q \in Requests /\ request' = [request EXCEPT ![f.q].state = "answered"]
      <3>1. [request[f.q] EXCEPT !.state = "answered"] \in Exchange
        BY <2>2, InvParts DEF Exchange
      <3>2. QED
        BY <2>2, <3>1, InvParts
    <2>3. QED
      BY <1>5, <2>1, <2>2
  <1>9. AddressIsOwned'
    BY AddressStays DEF FrameArrives, relayVars, TunnelInv
  <1>10. QED
    BY <1>6, <1>7, <1>8, <1>9, InvParts, QuietStep DEF FrameArrives, relayVars

-----------------------------------------------------------------------------
(* The relay's actions *)

LEMMA OpensAt ==
    ASSUME NEW h \in HomeIds
    PROVE  LET c == [Gone EXCEPT !.home = h, !.r = "open", !.h = "open", !.nonce = TRUE,
                                 !.up = << [t |-> "hello"] >>]
           IN  /\ c \in Socket /\ c.home = h /\ c.r = "open" /\ c.h = "open"
               /\ ~ c.authed
  <1>1. << [t |-> "hello"] >> \in Seq(UpFrame)
    BY FrameTypes
  <1>2. << >> \in Seq(DownFrame)
    OBVIOUS
  <1>3. h \in 0 .. Homes
    BY DEF HomeIds
  <1>4. QED
    BY <1>1, <1>2, <1>3 DEF Gone, Socket

LEMMA ConnectStep ==
    ASSUME TunnelInv, Connect
    PROVE  TunnelInv'
  <1> DEFINE h == HomeToTry
             n == opened + 1
             c == [Gone EXCEPT !.home = h, !.r = "open", !.h = "open", !.nonce = TRUE,
                               !.up = << [t |-> "hello"] >>]
  <1>1. h \in HomeIds \ refused /\ (client.index \notin refused => h = client.index)
    BY HomeToTryType DEF Connect, TunnelInv
  <1>2. opened \in Nat /\ n \in Sockets /\ n > opened
    BY InvParts DEF Connect, Sockets
  <1>3. c \in Socket /\ c.home = h /\ c.r = "open" /\ c.h = "open" /\ ~ c.authed
    BY <1>1, OpensAt
  <1>4. sock' = [sock EXCEPT ![n] = c] /\ opened' = n
    BY DEF Connect
  <1>5. client' = [client EXCEPT !.current = n, !.index = h] /\ client.current = 0
    BY DEF Connect
  <1> HIDE DEF c, h
  <1>6. /\ sock' \in [Sockets -> Socket]
        /\ \A x \in Sockets : sock'[x] = IF x = n THEN c ELSE sock[x]
    BY <1>2, <1>3, <1>4, InvParts
  <1>7. client' \in Client /\ client'.current = n /\ client'.index = h /\ client'.url = client.url
    <2>1. n \in 0 .. MaxSockets
      BY <1>2 DEF Sockets
    <2>2. QED
      BY <1>1, <1>5, <2>1, InvParts DEF Client
  <1>8. opened' \in 0 .. MaxSockets
    BY <1>2, <1>4 DEF Sockets
  <1>9. TunnelType'
    BY <1>6, <1>7, <1>8 DEF Connect, TunnelInv, TunnelType
  <1>10. RelayEnd'
    <2>1. \A x \in Sockets : sock[x].r # "open"
      BY <1>5 DEF TunnelInv, RelayEnd, Sockets
    <2>2. \A x \in Sockets : sock'[x].r = "open" <=> client'.current = x
      BY <1>3, <1>6, <1>7, <2>1
    <2>3. \A x \in Sockets : sock'[x].r = "open" => sock'[x].home = client'.index
      BY <1>3, <1>6, <1>7, <2>1
    <2>4. \A p \in Peers : stream'[p] \in {0, client'.current}
      BY <1>5, InvParts DEF Connect
    <2>5. client'.index \notin refused'
      BY <1>1, <1>7 DEF Connect
    <2>6. QED
      BY <2>2, <2>3, <2>4, <2>5 DEF RelayEnd
  <1>11. ~ Listed(n)
    BY <1>2 DEF TunnelInv, HomeEnd
  <1>12. \A x \in Sockets : x # n => (Listed(x)' <=> Listed(x)) /\ sock'[x] = sock[x]
    BY <1>6 DEF Listed
  <1>13. HomeEnd'
    <2>1. \A x \in Sockets : sock'[x].authed => sock'[x] = sock[x] /\ x # n
      BY <1>3, <1>6
    <2>2. \A x \in Sockets : Listed(x)' => x <= opened'
      BY <1>2, <1>4, <1>12 DEF TunnelInv, HomeEnd, Sockets
    <2>3. QED
      BY <1>12, <2>1, <2>2 DEF TunnelInv, HomeEnd
  <1>14. PeersHaveTunnels'
    <2> SUFFICES ASSUME NEW p \in Peers, peer'[p].state = "open"
                 PROVE  (peer[p].gen \in Sockets /\ Listed(peer[p].gen) /\ sock[peer[p].gen].authed)'
      BY DEF PeersHaveTunnels
    <2>1. PICK x \in Sockets : Listed(x) /\ sock[x].authed /\ peer'[p].gen = x
      BY InvParts DEF Connect
    <2>2. sock'[x] = sock[x]
      BY <1>11, <1>12, <2>1
    <2>3. QED
      BY <2>1, <2>2 DEF Listed
  <1>15. AddressIsOwned'
    BY <1>1, <1>7 DEF Connect, TunnelInv, AddressIsOwned
  <1>16. QED
    BY <1>9, <1>10, <1>13, <1>14, <1>15 DEF TunnelInv

LEMMA ClientUpdates ==
    ASSUME NEW c \in Client, NEW i \in HomeIds
    PROVE  /\ LET d == [c EXCEPT !.current = 0, !.index = i, !.failures = 0, !.url = 0]
              IN  d \in Client /\ d.current = 0 /\ d.url = 0
           /\ LET d == [c EXCEPT !.current = 0, !.index = i, !.failures = 1]
              IN  d \in Client /\ d.current = 0 /\ d.url = c.url /\ d.index = i
           /\ LET d == [c EXCEPT !.current = 0, !.failures = 1]
              IN  d \in Client /\ d.current = 0 /\ d.url = c.url /\ d.index = c.index
           /\ \A url \in 0 .. Homes :
              LET d == [c EXCEPT !.failures = 0, !.url = url]
              IN  d \in Client /\ d.current = c.current /\ d.url = url /\ d.index = c.index
  <1>1. Homes \in Nat /\ MaxSockets \in Nat
    OBVIOUS
  <1>2. 0 \in 0 .. Homes /\ 0 \in 0 .. MaxSockets /\ 0 \in 0 .. 1 /\ 1 \in 0 .. 1
    BY <1>1
  <1>3. QED
    BY <1>2 DEF Client

LEMMA LeavesType ==
    ASSUME TunnelType, HomeToTry \in HomeIds
    PROVE  LeavesHome \in Client /\ LeavesHome.current = 0 /\ LeavesHome.url = 0
  <1>1. PICK n \in HomeIds : n = NextHome(HomeToTry)
    BY NextHomeType
  <1> DEFINE d == [client EXCEPT !.current = 0, !.index = n, !.failures = 0, !.url = 0]
  <1>2. client \in Client
    BY DEF TunnelType
  <1>3. d \in Client /\ d.current = 0 /\ d.url = 0
    BY <1>2, ClientUpdates
  <1>4. LeavesHome = d
    BY <1>1 DEF LeavesHome
  <1> HIDE DEF d
  <1>5. QED
    BY <1>3, <1>4

LEMMA InVainType ==
    ASSUME TunnelType, HomeToTry \in HomeIds
    PROVE  /\ TriedInVain \in Client /\ TriedInVain.current = 0
           /\ TriedInVain.url = 0 \/ (TriedInVain.url = client.url /\ TriedInVain.index = HomeToTry)
  <1>1. CASE client.failures = 1
    BY <1>1, LeavesType DEF TriedInVain
  <1>2. CASE client.failures # 1
    <2>1. PICK h \in HomeIds : h = HomeToTry
      OBVIOUS
    <2> DEFINE d == [client EXCEPT !.current = 0, !.index = h, !.failures = 1]
    <2>2. client \in Client
      BY DEF TunnelType
    <2>3. d \in Client /\ d.current = 0 /\ d.url = client.url /\ d.index = h
      BY <2>2, ClientUpdates
    <2>4. TriedInVain = d
      BY <1>2, <2>1 DEF TriedInVain
    <2> HIDE DEF d
    <2>5. QED
      BY <2>1, <2>3, <2>4
  <1>3. QED
    BY <1>1, <1>2

LEMMA FailsStep ==
    ASSUME TunnelInv, ConnectFails
    PROVE  TunnelInv'
  <1>1. HomeToTry \in HomeIds /\ (client.index \notin refused => HomeToTry = client.index) /\ TunnelType
    BY HomeToTryType DEF ConnectFails, TunnelInv
  <1>2. client' \in Client /\ client'.current = 0
    BY <1>1, LeavesType, InVainType DEF ConnectFails
  <1>3. upsets' \in 0 .. MaxUpsets
    BY <1>1 DEF ConnectFails, Upset, TunnelType
  <1>4. refused' \subseteq HomeIds
    BY <1>1 DEF ConnectFails, TunnelType
  <1>5. TunnelType'
    BY <1>1, <1>2, <1>3, <1>4 DEF ConnectFails, TunnelType
  <1>6. RelayEnd'
    <2>1. \A x \in Sockets : sock[x].r # "open"
      BY DEF ConnectFails, TunnelInv, RelayEnd, Sockets
    <2>2. \A x \in Sockets : client'.current # x
      BY <1>2 DEF Sockets
    <2>3. QED
      BY <1>2, <2>1, <2>2 DEF ConnectFails, TunnelInv, RelayEnd
  <1>7. HomeEnd' /\ PeersHaveTunnels'
    BY DEF ConnectFails, TunnelInv, HomeEnd, PeersHaveTunnels, Listed
  <1>8. AddressIsOwned'
    <2>1. CASE client' = LeavesHome
      BY <1>1, <2>1, LeavesType DEF AddressIsOwned
    <2>2. CASE refused' = refused /\ client' = TriedInVain
      BY <1>1, <2>2, InVainType DEF AddressIsOwned, TunnelInv
    <2>3. QED
      BY <2>1, <2>2 DEF ConnectFails
  <1>9. QED
    BY <1>5, <1>6, <1>7, <1>8 DEF TunnelInv

LEMMA LapsesStep ==
    ASSUME TunnelInv, NEW h \in HomeIds, RefusalLapses(h)
    PROVE  TunnelInv'
  <1>1. AddressIsOwned'
    BY DEF RefusalLapses, TunnelInv, AddressIsOwned
  <1>2. /\ sock' \in [Sockets -> Socket]
        /\ \A x \in Sockets : Alike(sock[x], sock'[x])
    BY InvParts, NoSocket DEF RefusalLapses
  <1>3. QED
    BY <1>1, <1>2, InvParts, QuietStep DEF RefusalLapses

LEMMA RelayClosesStep ==
    ASSUME TunnelInv, NEW s \in Sockets, sock[s].r = "open", RelayCloses(s), upsets' \in 0 .. MaxUpsets
    PROVE  TunnelInv'
  <1> DEFINE c == [sock[s] EXCEPT !.r = "closed", !.down = << >>, !.ready = FALSE]
  <1>1. /\ c \in Socket /\ c.r = "closed" /\ c.h = sock[s].h /\ c.home = sock[s].home
        /\ c.authed = sock[s].authed /\ c.nonce = sock[s].nonce /\ c.verifying = sock[s].verifying
    <2>1. sock[s] \in Socket
      BY InvParts
    <2>2. << >> \in Seq(DownFrame)
      OBVIOUS
    <2>3. QED
      BY <2>1, <2>2 DEF Socket
  <1>2. sock' = [sock EXCEPT ![s] = Kept(c)]
    BY InvParts DEF RelayCloses
  <1> HIDE DEF c
  <1>3. /\ Kept(c) \in Socket /\ Kept(c).r = "closed"
        /\ Kept(c).authed => Kept(c) = c
        /\ Kept(c).h \in {"open", "closing"} => Kept(c) = c
        /\ c.h \in {"open", "closing"} => Kept(c) = c
    <2>1. CASE Kept(c) = c
      BY <1>1, <2>1
    <2>2. CASE Kept(c) = Gone /\ c.r = "closed" /\ c.h = "closed"
      BY <1>1, <2>2, GoneType DEF Gone
    <2>3. QED
      BY <1>1, <2>1, <2>2, KeptOr
  <1>4. /\ sock' \in [Sockets -> Socket]
        /\ \A x \in Sockets : x # s => sock'[x] = sock[x]
        /\ sock'[s] = Kept(c)
    BY <1>2, <1>3, InvParts
  <1>5. \A x \in Sockets :
           /\ sock'[x].authed => ~ sock'[x].nonce /\ ~ sock'[x].verifying
           /\ Listed(x)' => Listed(x) /\ sock'[x].home = sock[x].home
           /\ sock'[x].authed => sock[x].authed
           /\ Listed(x) /\ sock[x].authed => Listed(x)' /\ sock'[x].authed
    BY <1>1, <1>3, <1>4 DEF Listed, TunnelInv, HomeEnd
  <1>6. client.current = s /\ client.index = sock[s].home
    BY DEF TunnelInv, RelayEnd
  <1>7. client.index \in HomeIds \ refused /\ HomeToTry = client.index
    <2>1. client.index \in HomeIds /\ client.index \notin refused
      BY <1>6, InvParts DEF Client, TunnelInv, RelayEnd, Sockets
    <2>2. QED
      BY <2>1 DEF HomeToTry
  <1>8. /\ client' \in Client /\ client'.current = 0
        /\ client'.url = 0 \/ (client'.url = client.url /\ client'.index = client.index)
    <2>1. CASE sock[s].ready
      BY <1>7, <2>1, InvParts, ClientUpdates DEF RelayCloses
    <2>2. CASE ~ sock[s].ready
      BY <1>7, <2>2, InVainType DEF RelayCloses, TunnelInv
    <2>3. QED
      BY <2>1, <2>2
  <1>9. stream' \in [Peers -> 0 .. MaxSockets] /\ \A p \in Peers : stream'[p] = 0
    BY <1>6, InvParts DEF RelayCloses, StreamsWithout
  <1>10. TunnelType'
    BY <1>4, <1>8, <1>9, InvParts DEF RelayCloses, TunnelType
  <1>11. RelayEnd'
    <2>1. \A x \in Sockets : sock'[x].r # "open"
      BY <1>3, <1>4, <1>6 DEF TunnelInv, RelayEnd
    <2>2. \A x \in Sockets : client'.current # x
      BY <1>8 DEF Sockets
    <2>3. QED
      BY <1>8, <1>9, <2>1, <2>2 DEF RelayEnd
  <1>12. HomeEnd'
    BY <1>5, HomeStays DEF RelayCloses, TunnelInv
  <1>13. PeersHaveTunnels'
    BY <1>5, InvParts DEF RelayCloses, PeersHaveTunnels
  <1>14. AddressIsOwned'
    BY <1>8 DEF RelayCloses, TunnelInv, AddressIsOwned
  <1>15. QED
    BY <1>10, <1>11, <1>12, <1>13, <1>14 DEF TunnelInv

LEMMA ReceiveStep ==
    ASSUME TunnelInv, NEW s \in Sockets, Receive(s)
    PROVE  TunnelInv'
  <1> DEFINE f == Head(sock[s].down)
             b == [sock[s] EXCEPT !.down = Tail(@)]
  <1>1. sock[s] \in Socket /\ sock[s].down # << >> /\ f \in DownFrame
    <2>1. sock[s] \in Socket /\ sock[s].down # << >>
      BY InvParts DEF Receive
    <2>2. sock[s].down \in Seq(DownFrame)
      BY <2>1 DEF Socket
    <2>3. QED
      BY <2>1, <2>2
  <1>2. client.current = s /\ client.index = sock[s].home
    BY DEF Receive, TunnelInv, RelayEnd
  <1>3. Alike(sock[s], b) /\ b \in Socket
    BY <1>1, Tails DEF Alike
  <1>4. [sock EXCEPT ![s].down = Tail(@)] = [sock EXCEPT ![s] = b]
    BY InvParts
  <1>5. CASE f.t = "ready"
    <2> DEFINE c == [b EXCEPT !.ready = TRUE]
    <2>1. Alike(sock[s], c)
      <3>1. Alike(b, c)
        BY <1>3, SocketUpdates
      <3>2. QED
        BY <1>3, <3>1, AlikeTwice
    <2>2. sock' = [[sock EXCEPT ![s] = b] EXCEPT ![s].ready = TRUE]
      BY <1>4, <1>5 DEF Receive
    <2> HIDE DEF b
    <2>3. sock' = [sock EXCEPT ![s] = c]
      BY <2>2, InvParts
    <2>4. /\ sock' \in [Sockets -> Socket]
          /\ \A x \in Sockets : Alike(sock[x], sock'[x])
      BY <2>1, <2>3, InvParts, OneSocket
    <2>5. /\ client' \in Client /\ client'.current = client.current
          /\ client'.index = client.index /\ client'.url = client.index
      <3>1. client' = [client EXCEPT !.failures = 0, !.url = sock[s].home]
        BY <1>5 DEF Receive
      <3>2. sock[s].home \in 0 .. Homes
        BY <1>1 DEF Socket
      <3>3. PICK url \in 0 .. Homes : url = sock[s].home
        BY <3>2
      <3> DEFINE d == [client EXCEPT !.failures = 0, !.url = url]
      <3>4. client \in Client /\ client.index \in HomeIds
        BY InvParts DEF Client
      <3>5. d \in Client /\ d.current = client.current /\ d.url = url /\ d.index = client.index
        BY <3>4, ClientUpdates
      <3>6. client' = d
        BY <3>1, <3>3
      <3> HIDE DEF d
      <3>7. QED
        BY <1>2, <3>3, <3>5, <3>6
    <2>6. refused' = refused \ {client.index} /\ stream' = stream
      BY <1>2, <1>5 DEF Receive
    <2>7. AddressIsOwned'
      BY <2>5, <2>6 DEF AddressIsOwned
    <2>8. QED
      BY <2>4, <2>5, <2>6, <2>7, InvParts, QuietStep DEF Receive
  <1>6. CASE f.t = "req"
    <2> DEFINE g == [t |-> "res", q |-> f.q]
    <2>1. g \in UpFrame
      BY <1>1, <1>6, FrameFields, FrameTypes
    <2>2. PICK c \in {b, Up(b, g)} : sock' = [sock EXCEPT ![s] = c]
      <3>1. sock' = [sock EXCEPT ![s] = b] \/ sock' = [[sock EXCEPT ![s] = b] EXCEPT ![s] = Up(@, g)]
        BY <1>4, <1>6 DEF Receive
      <3> HIDE DEF b, g
      <3>2. [[sock EXCEPT ![s] = b] EXCEPT ![s] = Up(@, g)] = [sock EXCEPT ![s] = Up(b, g)]
        BY InvParts
      <3>3. QED
        BY <3>1, <3>2
    <2> HIDE DEF b, g
    <2>3. Alike(sock[s], c)
      <3>1. Alike(b, Up(b, g))
        BY <1>3, <2>1, DownUp
      <3>2. QED
        BY <1>3, <2>2, <3>1, AlikeTwice
    <2>4. /\ sock' \in [Sockets -> Socket]
          /\ \A x \in Sockets : Alike(sock[x], sock'[x])
      BY <2>2, <2>3, InvParts, OneSocket
    <2>5. UNCHANGED << stream, client, refused >>
      BY <1>6 DEF Receive
    <2>6. AddressIsOwned'
      BY <2>5, AddressStays DEF TunnelInv
    <2>7. QED
      BY <2>4, <2>5, <2>6, InvParts, QuietStep DEF Receive
  <1>7. CASE f.t \in {"open", "end"}
    <2>1. sock' = [sock EXCEPT ![s] = b]
      BY <1>4, <1>7 DEF Receive
    <2>2. stream' = [stream EXCEPT ![f.p] = IF f.t = "open" THEN s ELSE 0] /\ UNCHANGED << client, refused >>
      BY <1>7 DEF Receive
    <2>3. f.p \in Peers
      BY <1>1, <1>7, FrameFields
    <2> HIDE DEF b, f
    <2>4. /\ sock' \in [Sockets -> Socket]
          /\ \A x \in Sockets : Alike(sock[x], sock'[x])
      BY <1>3, <2>1, InvParts, OneSocket
    <2>5. stream' \in [Peers -> 0 .. MaxSockets] /\ \A p \in Peers : stream'[p] \in {0, client.current}
      <3>1. {0, s} \subseteq 0 .. MaxSockets
        BY DEF Sockets
      <3>2. QED
        BY <1>2, <2>2, <2>3, <3>1, InvParts
    <2>6. AddressIsOwned'
      BY <2>2, AddressStays DEF TunnelInv
    <2>7. QED
      BY <2>2, <2>4, <2>5, <2>6, InvParts, QuietStep DEF Receive
  <1>8. QED
    BY <1>5, <1>6, <1>7 DEF Receive

LEMMA StreamStep ==
    ASSUME TunnelInv, NEW p \in Peers, StreamCloses(p)
    PROVE  TunnelInv'
  <1>1. PICK s \in Sockets : s = stream[p]
    BY InvParts DEF StreamCloses, Sockets
  <1>2. Alike(sock[s], Up(sock[s], [t |-> "end", p |-> p]))
    BY InvParts, DownUp, FrameTypes
  <1>3. sock' = [sock EXCEPT ![s] = Up(sock[s], [t |-> "end", p |-> p])]
    BY <1>1, InvParts DEF StreamCloses
  <1>4. /\ sock' \in [Sockets -> Socket]
        /\ \A x \in Sockets : Alike(sock[x], sock'[x])
    BY <1>2, <1>3, InvParts, OneSocket
  <1>5. stream' \in [Peers -> 0 .. MaxSockets] /\ \A x \in Peers : stream'[x] \in {0, client.current}
    BY InvParts DEF StreamCloses
  <1>6. AddressIsOwned'
    BY AddressStays DEF StreamCloses, TunnelInv
  <1>7. QED
    BY <1>4, <1>5, <1>6, InvParts, QuietStep DEF StreamCloses

LEMMA CutStep ==
    ASSUME TunnelInv, NEW s \in Sockets, Cut(s)
    PROVE  TunnelInv'
  <1> DEFINE c == [sock[s] EXCEPT !.cut = TRUE, !.up = << >>, !.down = << >>]
  <1>1. Alike(sock[s], c)
    <2>1. sock[s] \in Socket
      BY InvParts
    <2>2. << >> \in Seq(UpFrame) /\ << >> \in Seq(DownFrame)
      OBVIOUS
    <2>3. QED
      BY <2>1, <2>2 DEF Alike, Socket
  <1>2. sock' = [sock EXCEPT ![s] = c]
    BY InvParts DEF Cut
  <1> HIDE DEF c
  <1>3. /\ sock' \in [Sockets -> Socket]
        /\ \A x \in Sockets : Alike(sock[x], sock'[x])
    BY <1>1, <1>2, InvParts, OneSocket
  <1>4. upsets' \in 0 .. MaxUpsets
    BY InvParts DEF Cut, Upset
  <1>5. AddressIsOwned'
    BY AddressStays DEF Cut, relayVars, TunnelInv
  <1>6. QED
    BY <1>3, <1>4, <1>5, InvParts, QuietStep DEF Cut, relayVars

-----------------------------------------------------------------------------
(* The tunnel as a whole *)

LEMMA TunnelStart == Init => TunnelInv
  <1> SUFFICES ASSUME Init
               PROVE  TunnelInv
    OBVIOUS
  <1>1. Homes \in Nat \ {0} /\ MaxSockets \in Nat \ {0} /\ MaxUpsets \in Nat
    BY DEF TunnelAssumption
  <1>2. 0 \in 0 .. MaxSockets /\ 0 \in 0 .. MaxUpsets /\ 0 \in 0 .. Homes /\ 1 \in HomeIds /\ 0 \in 0 .. 1
    BY <1>1 DEF HomeIds
  <1>3. client \in Client
    BY <1>2 DEF Init, Client
  <1>4. TunnelType
    <2>1. [state |-> "none", gen |-> 0] \in PeerSocket
      BY <1>2 DEF PeerSocket
    <2>2. [state |-> "none", via |-> 0] \in Exchange
      BY <1>2 DEF Exchange
    <2>3. QED
      BY <1>2, <1>3, <2>1, <2>2, GoneType DEF Init, TunnelType
  <1>5. \A s \in Sockets : sock[s].r = "closed" /\ ~ sock[s].authed /\ ~ Listed(s) /\ s # 0
    BY DEF Init, Gone, Listed, Sockets
  <1>6. RelayEnd
    BY <1>5 DEF Init, RelayEnd
  <1>7. HomeEnd
    BY <1>5 DEF HomeEnd
  <1>8. PeersHaveTunnels /\ AddressIsOwned
    BY DEF Init, PeersHaveTunnels, AddressIsOwned
  <1>9. QED
    BY <1>4, <1>6, <1>7, <1>8 DEF TunnelInv

LEMMA TunnelStep == TunnelInv /\ [Next]_vars => TunnelInv'
  <1> SUFFICES ASSUME TunnelInv, [Next]_vars
               PROVE  TunnelInv'
    OBVIOUS
  <1>1. CASE UNCHANGED vars
    <2>1. /\ sock' \in [Sockets -> Socket]
          /\ \A x \in Sockets : Alike(sock[x], sock'[x])
      BY <1>1, InvParts, NoSocket DEF vars
    <2>2. AddressIsOwned'
      BY <1>1, AddressStays DEF vars, TunnelInv
    <2>3. QED
      BY <1>1, <2>1, <2>2, InvParts, QuietStep DEF vars
  <1>2. ASSUME NEW s \in Sockets, Travels(s) \/ HomeCloses(s)
        PROVE  TunnelInv'
    BY <1>2, HelloStep, SignInStep, FrameStep, CloseArrivesStep, ReceiveStep, HomeClosesStep DEF Travels
  <1>3. ASSUME NEW s \in Sockets, CloseComes(s) \/ FoundDead(s) \/ TooSlow(s)
        PROVE  TunnelInv'
    <2>1. sock[s].r = "open" /\ RelayCloses(s)
      BY <1>3 DEF CloseComes, FoundDead, TooSlow
    <2>2. upsets' \in 0 .. MaxUpsets
      BY <1>3, InvParts DEF CloseComes, FoundDead, TooSlow, Upset
    <2>3. QED
      BY <2>1, <2>2, RelayClosesStep
  <1>4. ASSUME NEW s \in Sockets, Cut(s)
        PROVE  TunnelInv'
    BY <1>4, CutStep
  <1>5. ASSUME NEW p \in Peers, PeerConnects(p) \/ PeerSpeaks(p) \/ PeerCloses(p) \/ StreamCloses(p)
        PROVE  TunnelInv'
    BY <1>5, ConnectsStep, SpeaksStep, PeerClosesStep, StreamStep
  <1>6. ASSUME NEW q \in Requests, RequestArrives(q) \/ RequestTimesOut(q)
        PROVE  TunnelInv'
    BY <1>6, RequestStep, TimeoutStep
  <1>7. CASE Connect \/ ConnectFails
    BY <1>7, ConnectStep, FailsStep
  <1>8. CASE \E h \in HomeIds : RefusalLapses(h)
    BY <1>8, LapsesStep
  <1>9. QED
    BY <1>1, <1>2, <1>3, <1>4, <1>5, <1>6, <1>7, <1>8 DEF Next

LEMMA TunnelIsSound == TunnelInv => TypeOK /\ PeersGoWithTheirTunnel /\ AddressIsOwned
  <1> SUFFICES ASSUME TunnelInv
               PROVE  TypeOK /\ PeersGoWithTheirTunnel /\ AddressIsOwned
    OBVIOUS
  <1>1. \A s \in Sockets :
          /\ sock[s].home \in 0 .. Homes
          /\ sock[s].r \in {"open", "closed"}
          /\ sock[s].h \in {"open", "closing", "closed"}
          /\ sock[s].since \in Nat
          /\ sock[s].authed => ~ sock[s].nonce /\ ~ sock[s].verifying
    BY DEF TunnelInv, TunnelType, HomeEnd, Socket
  <1>2. \A p \in Peers : peer[p].state \in {"none", "open", "closing", "over"} /\ peer[p].gen \in 0 .. MaxSockets
    BY InvParts DEF PeerSocket
  <1>3. \A q \in Requests :
          request[q].state \in {"none", "pending", "answered", "silent"} /\ request[q].via \in 0 .. MaxSockets
    BY InvParts DEF Exchange
  <1>4. TypeOK
    BY <1>1, <1>2, <1>3, InvParts DEF TypeOK, TunnelInv, RelayEnd, Client
  <1>5. PeersGoWithTheirTunnel
    <2> SUFFICES ASSUME NEW p \in Peers, peer[p].state = "open"
                 PROVE  /\ Listed(peer[p].gen) /\ sock[peer[p].gen].authed
                        /\ \A x \in Others(peer[p].gen) : ~ sock[x].authed
      BY DEF PeersGoWithTheirTunnel
    <2>1. PICK s \in Sockets : s = peer[p].gen /\ Listed(s) /\ sock[s].authed
      BY InvParts
    <2>2. \A x \in Others(s) : ~ sock[x].authed
      BY <2>1 DEF Others, TunnelInv, HomeEnd
    <2>3. QED
      BY <2>1, <2>2
  <1>6. QED
    BY <1>4, <1>5 DEF TunnelInv

\* The requests that a step gives up on: only a timeout gives up on one, and it touches
\* the socket that it went down.
LEMMA OnlyItsTunnel ==
    TunnelInv /\ [Next]_vars =>
       \A q \in Requests : request'[q].state = "silent" /\ request[q].state = "pending" =>
          \A s \in Sockets \ {request[q].via} : sock'[s] = sock[s]
  <1> SUFFICES ASSUME TunnelInv, [Next]_vars, NEW q \in Requests,
                      request'[q].state = "silent", request[q].state = "pending",
                      NEW s \in Sockets, s # request[q].via
               PROVE  sock'[s] = sock[s]
    OBVIOUS
  <1>1. request' # request
    OBVIOUS
  <1>2. ASSUME NEW r \in Requests, RequestTimesOut(r)
        PROVE  sock'[s] = sock[s]
    <2>1. r = q
      BY <1>2, InvParts DEF RequestTimesOut
    <2>2. Dropped(request[q].via) # s
      BY DEF Dropped, Sockets
    <2>3. QED
      BY <1>2, <2>1, <2>2 DEF RequestTimesOut
  <1>3. ASSUME NEW r \in Requests, RequestArrives(r)
        PROVE  FALSE
    <2>1. PICK n : request' = [request EXCEPT ![r] = [state |-> "pending", via |-> n]]
      BY <1>3 DEF RequestArrives
    <2>2. request'[q].state = "pending"
      BY <2>1, InvParts
    <2>3. QED
      BY <2>2
  <1>4. ASSUME NEW x \in Sockets, FrameArrives(x)
        PROVE  FALSE
    <2>1. PICK r : request' = [request EXCEPT ![r].state = "answered"]
      BY <1>1, <1>4 DEF FrameArrives
    <2>2. request'[q] = request[q] \/ request'[q] = [request[q] EXCEPT !.state = "answered"]
      BY <2>1, InvParts
    <2>3. request[q] \in Exchange
      BY InvParts
    <2>4. [request[q] EXCEPT !.state = "answered"].state = "answered"
      BY <2>3 DEF Exchange
    <2>5. QED
      BY <2>2, <2>4
  <1>5. ASSUME NEW x \in Sockets, ~ FrameArrives(x), Travels(x) \/ HomeCloses(x) \/ CloseComes(x)
                                                     \/ FoundDead(x) \/ TooSlow(x) \/ Cut(x)
        PROVE  FALSE
    BY <1>1, <1>5 DEF Travels, HelloArrives, SignIn, CloseArrives, Receive, HomeCloses, CloseComes,
                      FoundDead, TooSlow, RelayCloses, Cut
  <1>6. ASSUME NEW p \in Peers, PeerConnects(p) \/ PeerSpeaks(p) \/ PeerCloses(p) \/ StreamCloses(p)
        PROVE  FALSE
    BY <1>1, <1>6 DEF PeerConnects, PeerSpeaks, PeerCloses, StreamCloses
  <1>7. CASE Connect \/ ConnectFails \/ (\E h \in HomeIds : RefusalLapses(h)) \/ UNCHANGED vars
    BY <1>1, <1>7 DEF Connect, ConnectFails, RefusalLapses, vars
  <1>8. QED
    BY <1>2, <1>3, <1>4, <1>5, <1>6, <1>7 DEF Next, Travels

-----------------------------------------------------------------------------
(* The two parts *)

LEMMA AddressStart == AddressInit => TunnelInv /\ DirectoryInv
  BY TunnelStart, DirectoryStart DEF AddressInit

LEMMA AddressStep == TunnelInv /\ DirectoryInv /\ [AddressNext]_addressVars => TunnelInv' /\ DirectoryInv'
  <1>1. [AddressNext]_addressVars => [Next]_vars /\ [DirectoryNext]_dirVars
    BY DEF AddressNext, addressVars
  <1>2. QED
    BY <1>1, TunnelStep, DirectoryStep

LEMMA AddressInvariant == AddressSpec => [](TunnelInv /\ DirectoryInv)
  BY AddressStart, AddressStep, PTL DEF AddressSpec

\* However many homes, sockets, peers, requests and entries there are: a peer that is open
\* at a home is on the one tunnel signed in there, the address that is published is at a
\* home that the relay has not left, and a relay has one entry in the directory unless two
\* first publishes overlapped, and then no more than it had requests under way at once.
THEOREM AddressesStaySound == AddressSpec => []AddressesAreSound
  <1>1. TunnelInv /\ DirectoryInv => AddressesAreSound
    BY TunnelIsSound, DirectoryIsSound DEF AddressesAreSound
  <1>2. QED
    BY <1>1, AddressInvariant, PTL

\* A request that times out costs the tunnel that it went down, never one that has replaced
\* it while the request was waited for.
THEOREM TimeoutSparesTheNext == AddressSpec => TimeoutSparesSuccessor
  <1>1. TunnelInv /\ [AddressNext]_addressVars =>
           [\A q \in Requests : request'[q].state = "silent" /\ request[q].state = "pending" =>
               \A s \in Sockets \ {request[q].via} : sock'[s] = sock[s]]_vars
    <2>1. [AddressNext]_addressVars => [Next]_vars
      BY DEF AddressNext, addressVars
    <2>2. QED
      BY <2>1, OnlyItsTunnel
  <1>2. QED
    BY <1>1, AddressInvariant, PTL DEF AddressSpec, TimeoutSparesSuccessor
====
