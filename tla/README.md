# FreeRTC, specified

TLA+ modules of the relays, the client library and the demo page of this
repository, checked with TLC on small instances and, where a theorem is given,
proved with TLAPS for all values of the constants.

FreeRTC lets peers meet over WebRTC. A *client* (`src/src/client.js`) announces
itself to a *relay* over a WebSocket, or over a data channel that stands for one;
relays (`src/src/index.js`, on Cloudflare with a Durable Object and D1, or under
Node) list the announced peers of a room, pass negotiation frames between them,
store frames for peers that are away, and ask each other for peers they do not
hold themselves. Paths below are relative to `src/src` unless they start with
`src/`.

Contents: [inventory](#inventory) · [modules](#modules) · [runs](#runs) ·
[bounds](#bounds) · [fairness](#fairness) · [refinements](#refinements) ·
[proofs](#proofs) · [what the checks found](#what-the-checks-found) ·
[seen while modelling](#seen-while-modelling) · [not modelled](#not-modelled) ·
[plan](#plan)

## Inventory

### Relay (`index.js`)

| Part | State | Operations | Correct when | Module |
| --- | --- | --- | --- | --- |
| Live peers | `livePeers`, socket generations, `absentPeerUntilMs`, `relayIdlePeerUntilMs`; in memory | every frame claims its sender's route; `withdraw`, `bye`, close release it | a route leads to an open socket of that peer; a replaced socket can neither take it back nor remove it | `LivePeers` |
| Registry | `psp_announcements` in D1 | announce and leave tasks, expiry | who is connected is listed, who has left is not, whatever order the writes take | `RelayRegistry` |
| Deferred work | tasks in the coordinator's storage, one alarm | `deferWork`, `drainDeferredTasks` | no task without an alarm, one batch at a time, urgent tasks first, what is dropped is superseded or stale | `DeferredQueue` |
| Forwarding | `psp_relay` in D1, forward tasks | RELAY_TYPES, `handleRelayForward`, `deliverQueuedRelayMessages` | a frame is sent, stored or dropped for the right reason, and deleted only once handed over | `RelayForwarding` |
| Federation | relay hints, cached lookups | `forwardFederatedMessage` | no relay delivers a frame twice, none is forgotten, a live route is found | `RelayFederation` |
| Room discovery | provider marks, shared lookups and rounds | `discoverJoiningPeer`, `findFederatedPeers`, publications | two peers that join are not both told of nobody | `RoomDiscovery` |

Socket handlers of one isolate do not interleave while they wait for storage
(input gates): a handler is atomic up to its last await, which only queues work.
The tasks of one alarm run concurrently and await D1 and other relays; socket
events come in between. Nothing cancels a task that timed out. Everything but
storage and D1 is lost when the isolate is evicted.

### Between relays

| Part | State | Correct when | Module |
| --- | --- | --- | --- |
| Kademlia overlay (`relay-overlay.js`, `kademlia.js`) | buckets, provider records, walks | a room is found although buckets are full and contacts dead; walks are bounded and reach the nearest | `RelayOverlay` |
| Tunnel (`tunnel/`) | sockets to homes, the home's peers and requests | the newest tunnel wins; a peer's stream ends with it; a relay names only an address that is its own | `Tunnel` |
| Relay links (`node/relay-links.js`) | handshakes, sealed frames, pending requests | sealed frames open, nothing stalls; each end keeps one link to the other, and one that stays is that of both | `RelayLinks` |
| Hole punching (`punch/`) | mailboxes, polled; pending answers | descriptions and candidates are used although messages overtake each other; the count of pending answers comes back | `Punch` |
| Name directory (`direct/`) | TXT records, publish and withdraw requests | a relay has one entry, but for first publishes that overlap; a reachable relay is listed in the end | `Directory` |

### Client (`client.js`) and demo page (`src/public/app.js`)

| Part | State | Correct when | Module |
| --- | --- | --- | --- |
| Relay session | `ws`, `registered`, timers, relay on demand | one socket at a time; a discovery asked for is sent; a peer that is cut off gets its relay back | `RelaySession` |
| Relay socket | direct channel, tunnel socket, one facade (`direct/dial.js`) | whoever holds it sees one WebSocket | `RelaySocket` |
| Announcing | heartbeat against the lease (`upsertAnnouncement`) | the lease is renewed before it lapses | `AnnouncementLease` |
| Negotiation | `mesh.connections`, queues of offers, retries, answers | no connection is leaked, glare ends with one channel, a working link is kept, a dial is not refused for ever | `Negotiation` |
| Data channel | pings, proofs, parked ends, backlog | a healthy channel is kept, one dead in one direction is given up at both ends | `DataChannel` |
| Relayed links | `relayedLinks`, asks, failures | both ends are linked or neither; a pair that goes on asking is linked in the end | `RelayedLinks` |
| Mesh of the demo page | `meshLinks`, cooldowns, redial loop | two pages are connected in the end; a channel in use is not displaced | `DemoMesh` |
| Relay of the demo page | `socket`, `relayIdle`, watch, reconnection | a page that needs its relay gets it | `DemoRelay` |

What is hard in this code: sockets of one identity overlapping; writes reordered
in D1; state read before an await and used after; restarts with tasks half done;
timers and close events of sockets that were replaced; frames that are late or
belong to an earlier negotiation; lookups that are shared with others; times that
were tuned apart. `PROJECT.json` lists each at its line, with the properties that
would catch it going wrong.

## Modules

### Relay

`LivePeers` — a socket is `open`, `closing` (the relay has closed it, its close
event has not run: frames still arrive, sends throw), `left` (it has withdrawn)
or `closed`. `Announce`, `Withdraw`, `Bye`, `OtherFrame` are the branches of
`handleClientMessage` after a successful claim, `RefuseFrame` the failing claim,
`SocketClosed` the close or error event (`cleanupPeerState`), `Restart` an
eviction. The marks of a goodbye and of relay_idle lapse at any time.

`RelayRegistry` — extends `LivePeers`: the same handlers, each with the task it
queues; the alarm (`Drain`), whose tasks then write and finish one by one in any
order, fail, or time out and leave an orphaned write; leases that lapse; restarts
that run unfinished tasks again. Staleness is one choice per alarm.

`RelayForwarding` — extends `LivePeers`: a frame's way from `SendFrame` through
its forward task (`RunForward`, `FederationAnswers`, `StoreFrame`) to a drain
(`StartDrain`, `FetchRows`, `SendRows`, `DeleteRows`: one action between two
awaits). `FederatedFrame` is a frame posted by another relay. `got`, `dropped`
and `gone` are history variables. `Mailbox` is the abstract promise about frames.

`DeferredQueue` — the queue by itself, with key order, window, staleness,
coalescing and batch as in the code, and an alarm that the platform may retry
late, or not run at all. What tasks do is left out.

`RelayFederation` — a frame's way through hint, cached lookup and fresh lookup,
each relay asked delivering, queueing or refusing, while the peer moves between
relays and answers get lost; a deadline, after which calls are still under way.

`RoomDiscovery` — joining peers at several relays: each relay keeps and publishes
its record, looks for others and asks them, sharing lookups and rounds of
questions that others of its peers began. Relays that are linked or listed in the
directory, whom it would ask without a lookup, are left out.

### Between relays

`RelayOverlay` — tables, walks and provider records over ids of `Bits` bits with the
XOR distance; one provider publishes, one finder joins and looks, and each relay asked
learns its caller before it answers, in a bucket that may drop another. `Tunnel` —
both ends of every connection with their own view, frames and closes on their way,
cuts that neither end is told of. `RelayLinks` — two links, of which the lower relay
may dial the second while the first is being made, each handshake split at its awaits
(signing, verifying, decrypting). `Punch` — posts that take their own time, bounded
mailboxes, polling, and the offers answered in one request. `Directory` — the Worker's
list-then-write, several requests under way, records that age, crashes and restarts of
the relay; the history variable `raced` is set when two publishes find no entry at
once, until what they left is tidied.

### Client and demo page

`RelaySession` — `OpenSocket` is `openSocket` in any of its callers' states;
`CloseEvent` runs the handler of a socket that may have been replaced; an
evaluation is two actions, before and after its await. Delays of reconnections
are left open, except that `settleMs` is no shorter than any of them.

`RelaySocket` — the facade with what is behind it: a channel that is dialled,
opens late, falls back to a tunnel; the failures remembered by kind. `PlainSocket`
is the contract of a WebSocket that it keeps.

`Negotiation` — a connection is named by the ICE credentials of its descriptions. The
queues of each end run one operation at a time, each split at its awaits; what one
asks of the browser on a connection waits for what the other asked before (`Busy`);
offers are retried and answers sent in bursts; byes, closes and transports that fail
come in between. Trickled candidates, the retry after a remapped RTP header and the
relayed branch of a dial are left out, a queue that was detached runs serially with
its successor, and a session id stands for the room.

`DataChannel` — both ends of the keepalive; clocks count the ticks since an event,
and events long ago are alike. A hidden page freezes at any moment and may stay
frozen; the history variable `caught` holds the ends whose freeze the other end did
not have parked, or no longer. `RelayedLinks` — two ends that may both ask, the
keepalive, and the relay between that loses frames. `AnnouncementLease` — clock,
lease and announcements of one peer, in ticks.

`DemoMesh` — two pages with an entry for each other. Offers, answers and
candidates are awaited, so the code after the await may meet a link that was
closed or made anew; the loop redials, times out and cools down. `DemoRelay` — the
page's socket, whose close event does not ask whether it is still the page's.

### Composites for TLC

`MCClient`, `MCSession`, `MCDiscovery`, `MCRelays`, `MCAddresses` and
`MCDeferredWork` check parts that share no state in one run: a variable `part`
picks one at the start and the others stay as they are, so the run has the union
of their behaviours, not the product. A liveness property is stated for its part
under that part's fairness. The compositions that do interact are `RelayRegistry`
and `RelayForwarding` (with `LivePeers`), `AnnouncementLease` (client and relay),
and `RelaySession` with `RelaySocket` through `PlainSocket`.

## Runs

| Run | Module | Shows |
| --- | --- | --- |
| `registry` | `RelayRegistry` | a connected peer is listed again and again, a departed one is unlisted for good |
| `forwarding` | `RelayForwarding` | routes usable, superseded sockets powerless, only a goodbye drops frames, implements `Mailbox` |
| `drains` | `RelayForwarding` | nothing is deleted that was not sent; what is stored is collected |
| `deferred` | `MCDeferredWork` | the queue is sound, served and urgent first, a discover is answered; joining peers find each other |
| `session` | `MCSession` | one socket, discoveries pursued, a cut-off client woken; connections sound, links kept, dials not refused |
| `client` | `MCClient` | healthy channels kept and half-dead ones given up, relayed links agreed by both ends, the relay socket, the lease, the demo page's mesh and relay |
| `discovery` | `MCDiscovery` | frames kept, delivered once, live routes found; the room found, walks bounded and near |
| `relays` | `MCRelays` | handshakes and links sound; candidates used, pending answers given back |
| `addresses` | `MCAddresses` | addresses sound, one directory entry but for overlapping first publishes, a late timeout spares the next tunnel, relays reached and listed in the end |
| `registry_lease`, `session_keeps`, `demo_stays` | | violations, see [below](#what-the-checks-found) |

Several invariants of one part are checked as one named conjunction (`ConnsAreSound`,
`LinksAreSound`, `PunchingIsSound`, `AddressesAreSound`, `DiscoveryTypeOK`,
`FramesAreKept`, `QueueIsSound`, `RoomsAreSound`, `ClientTypeOK`); each conjunct has
its own comment in its module. `CHECK_DEADLOCK FALSE` is set where a bound on sockets,
dials or mishaps brings the model to a halt, or where a part comes to its natural end
(a walk, an introduction, a joined room).

## Bounds

Relay. Every part of its state is keyed by peer, so one peer is enough where peers
do nothing to each other; `forwarding` has two. `MaxGeneration` 2 lets the older
of two sockets be replaced, send late frames and close late; a restart starts
over. In `registry` a batch of two tasks and an orphaned write reorder any two of
a leave, an announcement and a heartbeat. In `drains` the limit of one row leaves
a second behind, and two drains hold different sockets. In `deferred` the backlog
(4) exceeds the window (3) and the window the batch (2), and one tick exceeds
every budget, since only "stale or not" is told apart; rooms have two peers at one
relay, so that lookups are shared, and a third at another, with one slip.

Relays. `discovery`: a home and two others, two moves of the peer and one upset;
an overlay of seven relays with 3-bit ids, buckets of 3, replication 2, one crash:
the farthest bucket overflows. `relays`: two links, one dialled while the other is made;
two candidates per side, so that one overtakes the other, mailboxes of 2; two
offers for one place. `addresses`: two homes, six tunnel sockets and one upset (cut,
slow or refused); two requests to the directory at once, five record ids in use
(a write needs a free one), two versions, one slip.

Client. `session`: two sockets can be closing while a third is in use; two names of
connections per peer, a retry, a burst of two answers, queues of 2, two dials, one
trouble (a frame lost or sent again, an edge closed, a transport failed); a name is
used again once nothing refers to it. `client`: the times of the channel are ticks in
the order of the code's (an unanswered ping is asked again, then convicts; a proof
lasts longer, and so does parking), a clock stops at the bound it is compared with,
one direction dies and one end is upset (hidden, frozen, flickering, backlogged), and
frames arrive within the tick; two asks and two woes of a relayed link, which either
end asks for or both, once what it had sent on an earlier link has arrived
(`EarlierIsOver`: the host dials seconds after); two sockets that open at once; the
lease in ticks of 5 s with its three times as in the code and 20 s of delay, so that
one lost beat is within the promise after a rewrite and none after a skipped one (a
second is lost too, where nothing is promised); two pages with three names of
connections and two slips (three slips also hold: 259,000 states); three WebSockets of
a page and two mishaps. A *slip* of the demo mesh is a lost frame, a cut connection, a
timer of ten seconds or more that fires while frames or candidates are under way, a
dial that overlaps one still gathering, a mesh that is full, a list that leaves the
page out, a dropped relay, a suspension, a tab made visible, a hang-up or a reset.

## Fairness

Liveness is checked under these, and no others; none makes sockets open, ACKs
arrive or links come up unless said.

- `RelayRegistry`: a registered client announces again and again (its heartbeat
  timer); alarms run, not every time too late for heartbeats; a started task ends
  (it is raced with a timeout); D1 does not fail an announcement every time; a
  lease that nobody renews lapses; a socket the relay has closed gets its event.
- `RelayForwarding`: the same heartbeats; an announce task goes on (D1 answers);
  close events as above.
- `DeferredQueue`: peers go on sending frames, time passes, a started batch ends,
  an alarm that is set again and again runs once. Nothing makes a stuck alarm run:
  only `deferWork` does, by re-arming it.
- `RelayFederation`: `LiveRouteIsFound` is an action property and needs none.
- `RoomDiscovery`: tasks run and end, heartbeats publish, caches age; for a room of
  two (`OfTwo`).
- `RelaySession`: the relay watch is an interval, an evaluation ends, a closing
  socket closes. `Negotiation`: queues go on, retry and flush timers fire, frames
  that are not lost arrive, connections whose ends have each other's descriptions
  connect, hopeless ones fail (ICE's timeout), the keepalive closes dead ones.
- `DataChannel`: time passes and intervals tick (those of a frozen tab do not, and it
  may stay frozen), frames arrive, buffers that the network drains drain.
  `RelayedLinks`: timers, keepalive and frames of both ends, and one host or the other
  that goes on dialling. When both ask, each ends the other's link, and two hosts in
  lock-step may go on so for ever: `AsksPartInTheEnd`, the premise of
  `RelayedIsLinkedInTheEnd`, says that they do not. Nothing in the code makes sure of
  it; an ask must meet the other within one way through the relay, each time, for it
  to fail. `Tunnel`: what was sent travels unless the connection is cut, a dead one is
  found dead by its ping, the relay dials, refusals lapse. `Directory`: the relay
  publishes on its interval, time passes, requests end.
- `DemoMesh`: frames arrive, awaited candidates end (within 4 s by a timeout in
  the code), the loop runs, cooldowns lapse, relays send their list again, the
  page reconnects. `DemoRelay`: a socket that is dialled opens unless it has
  failed, close events come, the watch runs, a reconnection timer fires.

## Refinements

- `RelayForwarding` implements `Mailbox` (`IsMailbox`, checked and proved): with
  tasks, rows, drains and answers under way read as *held*, a relay never loses a
  frame it holds but by handing it over, a goodbye or expiry, and says of none that
  was not sent to it that it was handed over.
- `RelaySocket` implements `PlainSocket` (`IsPlainSocket`, checked and proved), and
  `RelaySession` asks no more of its sockets than `PlainSocket` (proved,
  `PlainSocketsSuffice`): so what holds of the session holds on any of the three
  transports.
- `RelayForwarding` and `RelayRegistry` change the live peers only as `LivePeers`
  does (for forwarding: `ForwardingKeepsLivePeers`, proved), so that the theorems
  about `LivePeers` hold while frames are forwarded.

## Proofs

All theorems hold for every value of the constants that satisfies the modules'
assumptions (sockets, peers, frames, drains, times in any number).

- `RelayForwardingProofs`, first of `LivePeers` on its own: `TypeCorrect`;
  `RouteCorrect` (`RouteIsUsable`), inductive together with the types and the fact
  that bound sockets are not closed; `LateFrameHarmless` (`SupersededIsPowerless`)
  and `NewerSocketWins`, whose steps need the invariant: only a socket bound to a
  peer acts for it. Then `ForwardingKeepsLivePeers` maps each step to one of
  `LivePeers`; `ForwardingTypeCorrect`; `HandoverComesFirst`
  (`HandoverBeforeDelete`), `GoodbyeComesFirst` (`OnlyGoodbyeDrops`) and
  `MailboxKept` (`IsMailbox`). The invariant `FInv` joins the types, the invariant
  of `LivePeers`, and what a drain has: the rows it is about to delete it has sent,
  rows and tasks are of frames that were sent, a peer marked absent said goodbye.
- `SessionProofs`, of the two parts of `MCSession`. The session at a relay:
  `SessionTypeCorrect`, `OneSocketOnly` (`OneSocket`),
  `DiscoveryKept` (`DiscoveryIsPursued`), inductive with the fact that a released
  relay has no current socket: every way of opening one goes through `OpenSocket`,
  and whoever gives one up closes it. `WokenIsNotReleased`: only an evaluation that
  finds the relay not held releases it. `PlainSocketsSuffice`: above.
  The negotiation: `NegotiationTypeCorrect` and `NoConnLeaks` (`NoLeakedConn`). The
  invariant `NInv` adds to them that an operation under way knows its connection and
  a burst its own (`Typed`), that an entry's connection is of its own peer and not
  about to be closed (`EntriesOwn`), and that a channel is open only on a connection
  with a remote description (`OpenHasRemote`, without which a bye on a channel
  would name no one). Steps that make no connection keep all of it alike
  (`QuietStep`); the one that replaces a connection is `FreshConnKeeps`.
  On it rests `ConnsStaySound` (`ConnsAreSound`), which adds
  `GlareLeavesOneChannel`. Which channel survives depends on what both peers did
  before, and `LinkInv` is what that leaves behind: a description under way or set is
  the other peer's (`Owned`); only the first operation of a queue is under way on the
  entry's connection (`LaterIdle`); until its transport starts, a peer's edge has one
  dial past its start and one offer to set, and its channel waits, and from then on
  no other description is set (`EdgeInv`); an offer of the impolite peer under way has
  its channel, and of two peers that negotiate one has (`OfferMeansChan`,
  `OneHasChan`); of joined connections one channel is kept (`Channels`); and a
  connection that was joined, even one that is closing, has as its other end one that
  names it and keeps to it (`EntriesTied`, `ClosingTied`). Most steps change one
  peer's edge (`LinkStep`) and are proved for either peer; `Connects` changes two.
- `ClientProofs`, of the parts that `MCClient` puts side by side:
  - the lease: `LeaseTypeCorrect` and `LeaseHolds` (`ListedOnceBeaten`): a renewed
    peer stays listed while the lease spans the beats lost since, the next one and its
    delay, if its last beat had the row rewritten, and half of the lease if that was
    skipped. With the code's 120 s and 40 s that allows one lost beat and less than 40
    s of delay in the first case, none and 20 s in the second. The invariant adds that
    a beat is timed (`BeatTimed`) and that the lease is what that beat left, rewritten
    or not, less its age (`LeaseUsed`).
  - relay sockets: `PlainSocketKept` (`IsPlainSocket`), `EventsHeardOnce`,
    `NothingIsLeftOpen`, from `SafeInv`, which says of each socket what is behind it
    and what was heard of it; each step changes one socket, as a WebSocket may.
  - relayed links: `PairAgrees` (`LinkedAtBothOrNeither`), whoever asks, both ends at
    once included. The invariant (`PairInv`) says that, as long as nothing is lost and
    no host closes a link, a pair is in one of a few phases (`MadeInSteps`): one end
    has asked, its acceptance is under way, both are linked, both have asked and their
    asks cross, one has heard so, or the links are ending, a close under way to each
    end that still has one.
  - the demo page's mesh: `WorkingChannelIsSpared` (`ChannelIsSpared`), an action
    property: no late frame of a negotiation displaces a channel that works.
    `MeshInv` ties a link's phase to its connection, its awaited steps and the frames
    under way: offers come only from the page that dials, answers only from the
    other.
  - `ClientTypesHold` (`ClientTypeOK`): the types of all five parts at once.
- `DeferredWorkProofs`, of the parts that `MCDeferredWork` puts side by side:
  - the queue: lemmas on taking the tasks of a window out of it (positions, order,
    what stays), then `DeferredWorkStaysSound` (`QueueIsSound`: tasks where they
    belong, no two batches at once, none left without an alarm), `UrgentGoFirst`
    (`UrgentFirst`) and `DiscoverIsAnswered` (`DiscoverAnswered`);
  - rooms: `RoomsStaySound` (`RoomsAreSound`): two peers that join at two relays are
    not both told of nobody. That is said of two tasks that have ended, and is not
    inductive. `RoomInv` says it of two that have read which relays the nearest know
    (`HasRead`), wherever they stand since: the later to read has read of the earlier
    (`OneSees`), whose relay kept its record before it read (`OnItsOwn`), and what it
    has read of is among what it is told of, is to ask, or has found (`Sees`). Each
    action is shown to keep this peer by peer (`Keeps`); for most peers it is none of
    their task's (`Bystander`).
- `RelayFederationProofs`: `FederationTypeCorrect`, `FramesKept` (`FramesAreKept`:
  `NoRelayDeliversTwice` and `NothingForgotten`) and `FindsLiveRoute`
  (`LiveRouteIsFound`). That no relay hands a frame over twice is not inductive: a
  frame queued at a relay may be handed over there later, and one queued at home by
  the deadline while calls are under way. `FedInv` says of each task that a relay has
  its frame only if it was asked and has done it, or is Home and the task is over or
  late (`FrameOK`), and that it asks each relay once (`CallsOK`). `FindsLiveRoute`
  adds what a task can count on (`SteadyOK`): a relay that has the peer and serves the
  room is in every lookup made since the second round began. Its hypothesis is that
  a lookup asks all the other relays there are, at most `KADEMLIA_FORWARD_LIMIT` (8):
  of more, the eight asked may leave the right one out.
- `PunchProofs`: `PunchingStaysSound` (`PunchingIsSound`), from `PunchInv`: the types;
  nothing is kept back from a side that has its description, and the dialer drops
  nothing (`HeldForLater`); unless something was lost, what a side has sent is on its
  way or has come, to be applied, kept, or dropped by a listener that has no offer yet
  (`NothingIsLost`); an offer that is answered is not settled before (`SettledOnce`),
  and its place comes back (`PendingComesBack`). That ICE then finds a path is not
  claimed.
- `RelayLinksProofs`: `LinksStaySound` (`LinksAreSound`), under the hypothesis
  `MaxLinkRequests <= MaxEarly`: an end that has not made its channel yet has room for
  what the other end sends it. The code holds 64 frames and drops the next without a
  word, after which the numbers no longer match and the link closes, so the claim is
  about fewer requests than that. A sealed frame bears the number of its seal and
  opens only as the next one. `LinksInv` says of each end how far its handshake is
  (`EndSound`), and of each direction which frames of the handshake are under way or
  have been heard (`Heard`), that the sealed frames held and under way bear the next
  numbers, in order and without a gap (`Numbered`), and that what an end waits for is
  a request or an answer that exists (`Waits`). No part is inductive alone: that the
  held frames open when the channel is made needs `Numbered`, that nobody waits for
  nothing needs `Waits` with it, and neither survives a step without `Heard`. The two
  ends are alike, so each step is proved once, from the end that takes it. That both
  ends hold a link with nothing under way (`EndsAgree`) follows from the rest; which
  of two links stays, or whether one does, is not claimed.
- `AddressProofs`: `AddressesStaySound` (`AddressesAreSound`) and
  `TimeoutSparesTheNext` (`TimeoutSparesSuccessor`). `DirectoryInv` adds that each
  entry of the directory has a slot that the requests under way may fill
  (`EntriesHaveSlots`), and that until first publishes overlap there is one entry, or
  one publish that finds none, at most (`OneUntilRaced`); `TunnelInv`
  that a home has one signed-in socket, the one it lists, with its peers on it, and
  that the relay's own socket leads to its home.

Only model-checked: all liveness (beyond the prover), with `HealthyIsKept`, which
does not hold of every number of upsets: the ends' buffers can be filled again each
time they drain, so that a pong waits behind them for as long as one likes. So is the
registry; of the negotiation, `LinkIsKept`; the overlay, whose distance is bitwise;
of the tunnel, the directory, the remove queue, punching and the relayed links only
what is listed above is proved.

## What the checks found

The violation runs show where the code does not do what a comment or the README
says. Each is quoted in `PROJECT.json`.

- `registry_lease`: a socket closes and its leave is queued; the peer's next socket,
  open, takes the route and announces, and both tasks run in one batch: the
  announcement is written, and the leave then deletes the row. It heals with the next
  heartbeat.
- `session_keeps`: `resetRecoveryBackoffs()` cancels a pending reconnection and
  starts none.
- `demo_stays`: a demo page resumed from a suspension while its relay was released,
  whose first attempt to reach it fails, takes the failure for the end of a
  released socket, and never tries again.

## Seen while modelling

Behaviours the models have, or that were met while reading, without a run.

Relay and registry. A `bye` through the relay is not forwarded, it only takes its
sender from the routes (index.js:1856; the client sends it to tell the other peer,
client.js:2573). The lease asked for on joining (30 s) is shorter than the way to the
first beat (40 s), and one lost beat lets a row lapse, as rewrites are skipped while
more than half is left (index.js:1483; client.js:157 counts on "room for two lost
beats", and one is all there is after a rewrite). A frame can be stored for a peer
that has meanwhile connected, until its next heartbeat; a goodbye does not clear an
earlier relay_idle mark; negotiation forwards are dropped when stale, although
index.js:171 says forwards always run.

Finding peers. A provider mark is set before publishing succeeds, and holds for 20
minutes (relay-overlay.js:673 says "at most once a minute"). A joining peer whose
first look finds anybody does not look again, and shared lookups and rounds do the
same: two peers can miss each other at their join, and are told later. The second
round of a forward is not made when another frame has just dropped the cached lookup.
A dead contact in a bucket of two can hide a room. A full bucket drops its oldest
contact, though it still answers, for each newcomer, a caller that asks for the first
time included, and a walk does not learn it again (relay-overlay.js:224, 395, 828).

Between relays. A request slower than 10 s drops a healthy tunnel with its peers; a
hello verified late unseats the newer tunnel until the relay dials again. Of two links
made at once (a LAN sighting dials while a punch is under way, `node/relay-links.js`
~360) the ends may keep different ones: each closes what the other keeps, and both are
gone until the next dial, minutes later. One half-dead link makes an end close every
newly dialled one (`node/relay-links.js` ~239). A listener drops a candidate that
reaches it before its offer (punch/transport.js:183-184; the comment at 107-110 says
that it waits until the description lands), a failed `dialPunched` closes no
connection, `MAX_PENDING` is checked before the body is read. Two first publishes that
overlap make two directory entries ("Each relay has one TXT record",
direct/directory.js:7), and only a publish that rewrites the entry removes the second,
an unchanged one does not; a publish under way at a stop leaves an entry; an older PUT
may land after a newer.

Client. When both ends ask for a relayed link at once, each accepts the other's and
closes its own, and each close ends the link accepted at the other end (client.js:881,
954–958): both are without a link until the next ask, which may cross again. Answers
are not tied to the offer they answer; a late `bye` through the relay closes a newer
connection. A page that freezes while its pong or another frame is under way has
announced that it will be silent, but that frame un-parks it (client.js:1801): the
other end then convicts a channel that works (contrary to client.js:64–69). The
keepalive looks only at registered sessions (client.js:1230). The late close of a
replaced socket reopens a released relay (client.js:2863). A tab made visible while
the relay is released closes all links (client.js:3045). A chunked transfer slower
than its limit is dropped, and its later chunks start one that never completes
(client.js:1774).

Demo page. An answer writes "connected-pending" after awaiting its candidates, over
"connected": if the channel is then closed nothing redials (the model's `LeftPending`,
excluded by `MeshIsMade`, as is a page locked by a hang-up). Only announced peers are
timed out (app.js ~1790), so an answered link without a connection, or an offered link
of an unannounced peer, keeps its slot. Offers and answers are not tied to the dial.
`ws.onclose` clears the page's socket without asking whose it is: a wake while the
released one is closing loses track of the new socket (`HasLostTrack`): the page is
"connected" and every send fails (app.js:1110 promises to "send it once it is back").
A tab made visible takes a released relay for a lost one. An overwritten reconnection
timer may fire after a disconnect. A reconnection's `beginRtc` undoes a manual
hang-up. The glare branch of `onOffer` is dead code.

Node host. If TLS comes up before the open port is confirmed, `openPublicPort`
sets an address without its fallback (src/scripts/node-relay.mjs ~868); a tunnel
closed by `moveOffCloud` still handles a late "ready".

## Not modelled

Message formats, signatures, SQL, logging, statistics, rate limits and envelope
validation, which refuse a frame before any state changes. Of `index.js`: the
claim of the federation heartbeat and HTTP endpoints that only read. Chunked
transfers, trickled candidates and media. Certificates, keys and replay windows
(computation over one message), port mapping and probing (I/O), the address
choice of `node-relay.mjs` and the Node runtime's files: under Node without a
coordinator tasks run at once, the behaviours of a queue whose alarm is immediate.
The Rust core, which neither relay nor client uses. The demo's user interface,
chat and preferences, `useP2p.js`, which wraps the client, and the deployment
scripts. Relays are honest in every model, and peers run this client.

## Plan

Done: all of the modules above, in the order relay, client, between relays, demo
page; refinements `Mailbox` and `PlainSocket`; proofs of the modules named.

Left: proofs of `LinkIsKept` (`Negotiation`) and for `RelayRegistry`; the
heartbeat's claim; chunked transfers; the address choice of `node-relay.mjs`;
`RoomDiscovery` shown to implement an abstract room. Violation runs for what is listed
under [seen](#seen-while-modelling): the listener's dropped candidates, the second
directory entry, the channel given up after a freeze.
