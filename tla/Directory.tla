------------------------------ MODULE Directory ------------------------------
(***************************************************************************)
(* The entry of a relay in the DNS directory: the relay publishes it, again *)
(* and again, and withdraws it (direct/node-relay-direct.js); the Worker    *)
(* lists what is there and then writes (direct/directory.js), while other   *)
(* requests of the relay, some of an earlier run, do the same.              *)
(*                                                                          *)
(* What a record says is a version; one issued later has a higher one.      *)
(* Signatures and the pinned key are left out: the relay has one key.       *)
(***************************************************************************)
EXTENDS Integers, FiniteSets

CONSTANTS
    Slots,          \* requests under way at once
    EntryIds,       \* ids the DNS gives to TXT records, a bound on those in use
    MaxVersion,     \* bound on starts and changes of what the record says
    MaxSlips        \* bound on failed requests and probes

VARIABLES
    relay,      \* the process: what startDirectRelay() keeps
    reqs,       \* requests under way
    entries,    \* the TXT records with this relay's comment
    slips,      \* failures so far
    raced       \* of the properties: first publishes have overlapped, and what they left is not tidied

dirVars == << relay, reqs, entries, slips, raced >>

IdleReq == [kind |-> "idle"]
Nothing == 0

ASSUME DirectoryAssumption ==
    /\ IsFiniteSet(Slots) /\ Nothing \notin EntryIds
    /\ MaxVersion \in Nat /\ MaxSlips \in Nat

\* How old a record is: younger than MIN_PUBLISH_INTERVAL_MS; an hour or less
\* from its expiry (REFRESH_BEFORE_EXPIRY_MS); expired.
Recent == 0
Refreshable == 2
Expired == 3

Entry == [id : EntryIds, v : 1 .. MaxVersion, age : Recent .. Expired]

DirectoryTypeOK ==
    /\ relay \in [up : BOOLEAN, reach : BOOLEAN, nat : BOOLEAN, v : 0 .. MaxVersion,
                  listed : BOOLEAN, withdrew : BOOLEAN]
    /\ \A i \in Slots : reqs[i].kind \in {"idle", "post", "delete"}
    /\ entries \subseteq Entry
    /\ \A e, f \in entries : e.id = f.id => e = f
    /\ slips \in 0 .. MaxSlips
    /\ raced \in BOOLEAN

DirectoryInit ==
    /\ relay = [up |-> FALSE, reach |-> FALSE, nat |-> FALSE, v |-> 0, listed |-> FALSE, withdrew |-> FALSE]
    /\ reqs = [i \in Slots |-> IdleReq]
    /\ entries = {}
    /\ slips = 0
    /\ raced = FALSE

Request(kind, v) == [kind |-> kind, v |-> v, at |-> "sent", mine |-> {}, first |-> Nothing, heard |-> TRUE]
Unheard(r) == IF r.kind = "idle" THEN r ELSE [r EXCEPT !.heard = FALSE]
Slip == slips < MaxSlips /\ slips' = slips + 1

-----------------------------------------------------------------------------
(* The relay *)

\* A new run: whether it has a public address, and whether it is behind a second NAT.
StartDirect(reach, nat) ==
    /\ ~ relay.up /\ relay.v < MaxVersion
    /\ relay' = [up |-> TRUE, reach |-> reach, nat |-> nat, v |-> relay.v + 1,
                 listed |-> FALSE, withdrew |-> FALSE]
    /\ UNCHANGED << reqs, entries, slips, raced >>

\* The tunnel's address, the wss name or the router's forward changes.
RecordChanges ==
    /\ relay.up /\ relay.v < MaxVersion
    /\ relay' = [relay EXCEPT !.v = @ + 1]
    /\ UNCHANGED << reqs, entries, slips, raced >>

\* publish, from the timer, a change or the retry of a 429; withdrawStale.
PublishDirect(i) ==
    /\ relay.up /\ reqs[i] = IdleReq
    /\ relay.reach \/ ~ relay.withdrew
    /\ reqs' = [reqs EXCEPT ![i] = Request(IF relay.reach THEN "post" ELSE "delete", relay.v)]
    /\ relay' = IF relay.reach THEN relay ELSE [relay EXCEPT !.withdrew = TRUE]
    /\ UNCHANGED << entries, slips, raced >>

\* stop(): a relay that has been listed withdraws.  Its other requests go on.
StopDirect ==
    /\ relay.up
    /\ relay' = [relay EXCEPT !.up = FALSE]
    /\ IF relay.listed
         THEN \E i \in Slots :
                 /\ reqs[i] = IdleReq
                 /\ reqs' = [[j \in Slots |-> Unheard(reqs[j])]
                                EXCEPT ![i] = Unheard(Request("delete", relay.v))]
         ELSE reqs' = [j \in Slots |-> Unheard(reqs[j])]
    /\ UNCHANGED << entries, slips, raced >>

CrashDirect ==
    /\ Slip
    /\ relay.up
    /\ relay' = [relay EXCEPT !.up = FALSE]
    /\ reqs' = [j \in Slots |-> Unheard(reqs[j])]
    /\ UNCHANGED << entries, raced >>

\* A request fails for the relay; the Worker may have got it.
RequestFails(i) ==
    /\ Slip
    /\ reqs[i].kind # "idle" /\ reqs[i].heard
    /\ reqs' \in {[reqs EXCEPT ![i] = IdleReq], [reqs EXCEPT ![i] = Unheard(@)]}
    /\ relay' = IF reqs[i].kind = "delete" THEN [relay EXCEPT !.withdrew = FALSE] ELSE relay
    /\ UNCHANGED << entries, raced >>

-----------------------------------------------------------------------------
(* The Worker *)

Ids == {e.id : e \in entries}

\* Ids are not used again while a request still knows them.
FreeIds == {k \in EntryIds \ Ids : \A i \in Slots : reqs[i].kind # "idle" => k \notin reqs[i].mine}
NewId == CHOOSE k \in FreeIds : TRUE

\* The request is over; the relay hears that it is listed.
Over(i, ok) ==
    /\ reqs' = [reqs EXCEPT ![i] = IdleReq]
    /\ relay' = IF ok /\ reqs[i].heard /\ reqs[i].kind = "post" THEN [relay EXCEPT !.listed = TRUE] ELSE relay

\* An entry that says the same is rewritten as it nears expiry.
Unchanged(e, r) == e.v = r.v /\ e.age < Refreshable

\* Refused: the directory sees another address than the router says.
RefusedBehindNat(i) ==
    /\ reqs[i].kind = "post" /\ reqs[i].at = "sent"
    /\ relay.nat /\ reqs[i].heard
    /\ LET r == [relay EXCEPT !.reach = FALSE, !.withdrew = TRUE]
       IN  /\ relay' = r
           /\ reqs' = [reqs EXCEPT ![i] = IF relay.withdrew THEN IdleReq ELSE Request("delete", r.v)]
    /\ UNCHANGED << entries, slips, raced >>

\* Publishes that have found no entry and are about to add one.
FirstPublishes == {i \in Slots : reqs[i].kind = "post" /\ reqs[i].at = "listed" /\ reqs[i].first = Nothing}

\* handleDirectoryRequest, POST: listDirectory, and what it decides by the
\* first of the relay's entries.
ListForPost(i) ==
    /\ reqs[i].kind = "post" /\ reqs[i].at = "sent"
    /\ relay.nat => ~ reqs[i].heard
    /\ IF entries = {}
         THEN reqs' = [reqs EXCEPT ![i].at = "listed"] /\ UNCHANGED relay
         ELSE \E e \in entries :
                 IF Unchanged(e, reqs[i]) THEN Over(i, TRUE)
                 ELSE IF e.v # reqs[i].v /\ e.age = Recent THEN Over(i, FALSE)
                 ELSE /\ reqs' = [reqs EXCEPT ![i].at = "listed", ![i].first = e.id, ![i].mine = Ids]
                      /\ UNCHANGED relay
    /\ raced' = (raced \/ (entries = {} /\ FirstPublishes # {}))
    /\ UNCHANGED << entries, slips >>

\* mutant: whether there is an entry is not looked at: each write adds one
WriteAnother(r) ==
    entries' = entries \cup {[id |-> NewId, v |-> r.v, age |-> Recent]}

\* PUT over the first entry, or POST of a new one.
Write(r) ==
    IF r.first = Nothing
    THEN entries' = entries \cup {[id |-> NewId, v |-> r.v, age |-> Recent]}
    ELSE entries' = {e \in entries : e.id # r.first} \cup {[id |-> r.first, v |-> r.v, age |-> Recent]}

\* A PUT over an entry that is gone fails, and the request with it.
WriteEntry(i) ==
    /\ reqs[i].kind = "post" /\ reqs[i].at = "listed"
    /\ reqs[i].first = Nothing => FreeIds # {}
    /\ IF reqs[i].first # Nothing /\ reqs[i].first \notin Ids
         THEN Over(i, FALSE) /\ UNCHANGED entries
         ELSE /\ Write(reqs[i])
              /\ reqs' = [reqs EXCEPT ![i].at = "written"]
              /\ UNCHANGED relay
    /\ UNCHANGED << slips, raced >>

\* The relay's other entries go, and the answer does not tell if they have not.
TidyEntries(i) ==
    /\ reqs[i].kind = "post" /\ reqs[i].at = "written"
    /\ LET others == reqs[i].mine \ {reqs[i].first}
       IN  \E gone \in SUBSET others :
              /\ gone # others => slips < MaxSlips
              /\ slips' = IF gone = others THEN slips ELSE slips + 1
              /\ entries' = {e \in entries : e.id \notin gone}
              /\ raced' = (raced /\ ~ (gone = others /\ Ids \subseteq reqs[i].mine /\ FirstPublishes = {}))
    /\ Over(i, TRUE)

\* DELETE: the relay's entries are listed and removed one by one; one that is
\* gone already ends the request.
ListForDelete(i) ==
    /\ reqs[i].kind = "delete" /\ reqs[i].at = "sent"
    /\ reqs' = [reqs EXCEPT ![i].at = "listed", ![i].mine = Ids]
    /\ UNCHANGED << relay, entries, slips, raced >>

DeleteEntry(i) ==
    /\ reqs[i].kind = "delete" /\ reqs[i].at = "listed"
    /\ \/ /\ reqs[i].mine \subseteq {}
          /\ Over(i, TRUE)
          /\ UNCHANGED entries
       \/ \E k \in reqs[i].mine :
             IF k \in Ids
             THEN /\ entries' = {e \in entries : e.id # k}
                  /\ reqs' = [reqs EXCEPT ![i].mine = @ \ {k}]
                  /\ UNCHANGED relay
             ELSE Over(i, FALSE) /\ UNCHANGED entries
    /\ UNCHANGED << slips, raced >>

\* Another relay publishes: cleanup() removes what has expired and what does not
\* answer its probe, which may fail for a relay that is there.
CleanedUp(e) ==
    /\ e \in entries
    /\ \/ (e.age = Expired \/ ~ relay.up \/ ~ relay.reach) /\ UNCHANGED slips
       \/ Slip
    /\ entries' = entries \ {e}
    /\ UNCHANGED << relay, reqs, raced >>

EntryAges(e) ==
    /\ e \in entries /\ e.age < Expired
    /\ entries' = (entries \ {e}) \cup {[e EXCEPT !.age = @ + 1]}
    /\ UNCHANGED << relay, reqs, slips, raced >>

-----------------------------------------------------------------------------
Serve(i) ==
    \/ RefusedBehindNat(i) \/ ListForPost(i) \/ WriteEntry(i) \/ TidyEntries(i)
    \/ ListForDelete(i) \/ DeleteEntry(i)

Ages == \E e \in entries : EntryAges(e)

DirectoryNext ==
    \/ \E reach, nat \in BOOLEAN : StartDirect(reach, nat)
    \/ RecordChanges \/ StopDirect \/ CrashDirect \/ Ages
    \/ \E i \in Slots : PublishDirect(i) \/ RequestFails(i) \/ Serve(i)
    \/ \E e \in entries : CleanedUp(e)

DirectorySpec == DirectoryInit /\ [][DirectoryNext]_dirVars

\* A relay that runs goes on publishing, the directory answers, and time passes.
DirectoryFairness ==
    /\ WF_dirVars(\E i \in Slots : PublishDirect(i))
    /\ WF_dirVars(Ages)
    /\ \A i \in Slots : WF_dirVars(Serve(i))

FairDirectorySpec == DirectorySpec /\ DirectoryFairness

-----------------------------------------------------------------------------
(* Properties *)

\* However often the relay publishes, and whichever of its requests see none of
\* its entries, it has no more of them than it had requests under way at once.
EntriesStayFew == Cardinality(entries) <= Cardinality(Slots)

\* A relay has one entry ("Each relay has one TXT record", directory.js:7), except from
\* when two of its publishes have both found none, before either wrote, until one that
\* knows of every entry has rewritten its own and removed the rest.  No restart, failed
\* request, withdrawal or clean-up in the middle leaves a second one.
OneEntry == raced \/ \A e, f \in entries : e = f

\* lookupDirectRelays: the newest record that has not expired.
LookedUp == {e \in entries : e.age < Expired /\ \A f \in entries : f.age < Expired => f.v <= e.v}

Reachable == relay.up /\ relay.reach /\ ~ relay.nat

\* A relay that stays up and reachable is found again and again as it is,
\* although a late withdrawal of its last run, a late publication that says
\* something older, a refusal or a clean-up takes its entry away.
ListedInTheEnd == <>[]Reachable => []<>(\E e \in LookedUp : e.v = relay.v)
=============================================================================
