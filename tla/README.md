# AnonNetCore: a TLA+ verification of the core

AnonNetCore is an asyncio peer-to-peer core. Physical nodes talk over encrypted
*physical sessions*; a *virtual node* is reached over a *route* through several
physical nodes; records in a distributed table tell where nodes, routes and
contents are. This directory models the parts of the core whose correctness
depends on interleavings, lost or late messages, timeouts and restarts, checks
them with TLC on small instances, and proves the central safety properties with
TLAPS for all instances.

All code below is under `src/app/`. Handlers run on one event loop, so the code
between two `await`s is one atomic step of the models. Where a handler awaits,
the model has one action up to the await and others for its possible returns.

## The system's parts

| part | code | module |
|---|---|---|
| reliable ordered delivery over a session | `sessions/reliable.py`, `core/protocols/virtual/session.py`, `core/protocol_clients/virtual/session.py`, `core/runtime/session_runtime.py` | `ReliableDelivery`, abstract `ReliableChannel` |
| physical session handshake, endpoint fallback | `core/protocol_clients/physical/physical_session.py`, `core/protocols/physical/session.py` | `SessionHandshake` |
| keepalive, expiry, CLOSE | `core/runtime/session_runtime.py`, `sessions/manager.py`, `core/engine.py` | `SessionKeepalive` |
| route build, random walk with TTL | `core/routing_strategies/random_walk_ttl.py`, `route/service.py`, `core/protocol_clients/physical/route_build.py` | `RouteBuild` |
| route maintenance | `core/runtime/virtual_route_maintenance.py` | `RouteBuild` |
| route execution (ROUTE_DATA), engine forwarding | `core/protocols/physical/route_execute.py`, `core/protocol_clients/physical/route_execute.py`, `core/engine.py` | `RouteExecute` |
| virtual session handshake over entry points | `core/protocol_clients/virtual/session.py`, `core/protocols/virtual/session.py` | `VirtualSession` |
| content: store, serve, download, announce | `content/service.py`, `core/protocols/virtual/content.py`, `api/service.py` | `ContentTransfer`, which composes routes, sessions and downloads |
| DHT: publication, query, forwarding | `core/protocols/physical/dht.py`, `core/protocol_clients/physical/dht.py`, `dht/service.py` | `Dht` |
| DHT record merge | `dht/merge.py` | `DhtMerge` |
| DHT maintenance | `core/runtime/dht_maintenance.py` | not modelled, see below |
| UDP fragmentation, TCP connections, relay | `transport/` | not modelled |
| node info, ping, validation, identities, bootstrap, API servers, crypto, storage, log, debug, tooling | | not modelled |

How they interact: the API and the runtimes call the protocol clients. The
clients send through the engine, which opens physical sessions (handshake),
encrypts, and hands packets to a transport. Inbound packets are decrypted by the
engine, touch the session (keepalive) and reach a protocol handler through the
router. Route build uses physical sessions hop by hop and the DHT to publish its
result. Virtual sessions run over routes and carry the reliable delivery.
`PROJECT.json` lists every part with its status, the hazards at their lines, and
the source lines of every definition.

## Modules and their correspondence to the code

### ReliableDelivery (refines ReliableChannel)

One direction of a session: a sender with `outbound` entries and attempts, the
resend scan of the session runtime, and a receiver with the next expected
number, buffer and delivered ids, whose handler tasks dispatch what is released.
`send_message`, `Transmit`, `send_returns` and `send_raises` are the three parts
of an awaited send; `list_due_reliable_messages`, `resend_due_message`,
`resend_returns` and `resend_raises` those of a scan; `handle_reliable_data`,
`dispatch_next`, `send_reliable_ack` and `dispatch_raises` those of a handler,
which releases a run of messages at once and dispatches them one await at a
time. Packets are a set that is never emptied, so loss, delay, duplication and
reordering are implicit. With one handler task packets are handled one after the
other, as behind a TCP connection; with two, concurrently, as behind UDP.

`ReliableChannel` says what a session promises: the receiver takes each message
once, accepts exactly the longest prefix without a gap, and a message counts as
acknowledged only after the receiver has taken it.

### SessionHandshake

Concurrent calls of `start_session` at one node towards another, each trying the
endpoints in turn with a new session; the handlers of INIT, INIT_OK, KEY_CONFIRM
and READY; CLOSE and the expiry of sessions. A secret is known by the key that
decapsulates it and the encapsulation that made it, so that a wrong key gives
another secret, as the KEM does. `Duplicating` is FALSE for TCP and for UDP
without duplicates, TRUE where a packet may come again. Calls for a node without a
usable descriptor raise before any state changes, and endpoints without an adapter
are skipped; neither is in the model, whose endpoints are the usable ones.

### SessionKeepalive

An established session in discrete time: scans, awaited keepalives, their
acknowledgments, traffic, expiry and CLOSE. The link is *healthy*, *disturbed*,
or *cut*: then packets vanish and, where `setup.failing` says so, sends raise,
which closes the session for the engine's forwards and replies (`app_send_fails`)
and not for the clients' requests. `setup.observed` is the sides that know only
the observed endpoint of their peer and therefore send neither keepalives nor
CLOSE.

A single keepalive is sent per activity. So one lost packet may end a session,
and so may an answer that overtakes the return of the send it answers: the
keepalive is then marked as sent after the activity, and its side is *mute*, it
sends no other until something else touches the session. A link counts as
disturbed after a loss, or when every side that sends keepalives is mute at once;
`KeptAlive` covers everything before that.

### RouteBuild

All builds of one virtual node: `_run_once` handles the virtual nodes of a
physical node one after the other, and the model has one. `hops[b]` holds the hop rows of build `b` at all
nodes together, numbered by the path id each generated; path ids are unique, so
a lookup at a node finds only that node's rows. A handler of
`random_walk_ttl.py` is two definitions, as in the code: `handle_route_create_x`
forwards by a row, `_handle_local_route_create_x` acts at an end. The two awaits
inside handlers are `publishing` (between PONG and OK or FAIL) and `polling`
(between OK and the activation). The maintenance loop (`runtime`) awaits the
health of a route and the first send of a build. The route table is external:
entries appear when a publication ends, also when it was reported as failed, and
expire. `age` counts build timeouts; a build in its final validation has two.
Restarts lose the awaits and clocks and keep the rows, which are in a database.

### DhtMerge and Dht

`DhtMerge` has the merges of the five namespaces as operators on records
[head, ref, items]; a merge that raises returns the empty set. `Dht` is one key:
`publish` and `query` are the client's loop over candidate nodes,
`_send_and_wait_result_timeout` and `complete_result` the two ends of its await;
`_handle_publish` and `_handle_query` are whole handlers, from the check of the
ttl over the local merge (`_upsert_local_record`) to the choice of the next
responsible node (`_select_next_session`); `_pop_pending_forward` passes a result
back and `_cleanup_pending_forwards` forgets where it would have gone. A message
may be handled at any later time or never. Each node has its own view of the
others (`setup.knows`), so nodes may disagree on who is responsible; time passes
(`Tick`) and items expire. A restart loses pending forwards and calls and keeps
the records, which are in a database.

One simplification: `_select_closest_known_session` goes through the candidates
from the nearest on and marks one as attempted when `start_session` raises. In the
rare case that `start_session` returns a session that is no longer active, the code
skips the candidate without marking it; the model marks it here too. The marks
only decide which nodes the later attempts of the call may ask, and following all
their combinations put the run out of reach.

### RouteExecute, VirtualSession, ContentTransfer

Three layers, each extending the one below. `RouteExecute` resolves a path id at
a node to the next hop as `_resolve_route_data_path` does, with the entry point's
memory of where each session came from (`ingress`), and the way back of a reply
(`_resolve_local_reply_context`). A random walk may visit a node again, the host
included, and each visit makes a row of its own: `rows` holds the valid `<<r, i>>`,
the row of hop `i` of route `r`. `VirtualSession` has the calls of
`start_session_to_virtual_node`, the handlers of the seven session messages and
the API's close, which sends first and closes locally after the await.
`ContentTransfer` has the download with its shared `.part` file, the handlers of
the content messages, the publication of the provider record, and the complete
system: `handle(p)` forwards a packet or delivers it, and the delivery decrypts,
dispatches, applies the handler's changes and sends its reply, in one step.
Faults are counted in `faults` and bounded per scenario: lost packets, packets
handled twice (the engine's retry of a forward that had arrived), restarts of
relays, which lose `ingress`, and routes given up by their host. A scenario may
also let a caller ask again for a download it asked for (`repeating`); `again`
holds the callers that did.

The handlers do not look at the state of a session, and the model keeps that: a
late INIT_OK or READY reopens a session whose attempt timed out. Such a session
has agreeing keys (`VirtualKeysAgree`), unless a packet was handled twice: a
repeated INIT replaces the key here as in the physical handshake.

## Runs

| run | question | result |
|---|---|---|
| ReliableOneTask | in order, settled unless resends raise for ever, refinement of the channel | holds |
| ReliableTwoTasks | at most once, bounded attempts, genuine replies | holds |
| ReliableGap | is everything acknowledged released? | violated |
| HandshakeFallback | keys agree, no fall back to pending, calls end | holds |
| HandshakeDuplicates | do keys agree when UDP duplicates? | violated |
| Keepalive | neither side expires a session over a healthy link; a side that sends nothing else expires one that is cut silently; a session closed at one side ends at the other, also when CLOSE is lost | holds |
| KeepaliveFailing | does a session expire when sends raise? | violated |
| RouteMaintained | routes connected, walks end, builds settle | holds |
| RouteAbandoned | are the hops of an abandoned build released? | violated |
| DhtReplicas | what is stored is held and read again, replicas agree, requests do not loop | holds |
| DhtStored | is `stored` true when publishers describe a content differently? | violated |
| VirtualTransfer | packets leave a route towards the right node, keys agree, downloads are exact, fail only when disturbed (packets handled twice, asked for again, a shared file), and settle; calls end; a close reaches both sides | holds |

### Findings

* **A given-up message blocks its session** (ReliableGap). After `max_attempts`
  the sender goes on; the receiver keeps waiting for that number, acknowledges
  all later messages and releases none.
* **Duplicated INIT** (HandshakeDuplicates). Each INIT replaces the responder's
  key, each INIT_OK makes a new secret; both sides can be active with different
  secrets.
* **Failing sends keep a session alive** (KeepaliveFailing). The engine touches
  the session before it sends; if the send raises, the keepalive is not marked as
  sent, so half an interval later another one touches the session again.
* **Hop rows are never released** (RouteAbandoned). They have no expiry, and a
  build given up by timeout sends no FAIL.
* **`stored` without storing** (DhtStored). A replica whose merge raises, for
  example because another publisher gave the content another title, keeps its
  record, logs, and adds itself to `stored_by`.

Seen while modelling, and not the subject of a run because no document promises
otherwise: with nodes that disagree on who is responsible a forwarded request
can return to a node that waits for its answer, until its ttl ends it
(`NoRequestLoops` asks for one view); a `dpnt` record is whatever arrived last;
a download whose content is not found, or one of whose packets is lost, is never
reported as failed (`DownloadSettles` names these exceptions); a session that a
responder created for an abandoned handshake stays pending, since only active
sessions are scanned. Further:

* A message whose resends raise every time is never given up, as the scan counts
  only resends that return (`EverySendSettles` excepts it).
* The 10 s exchange of node infos (`core/config.py:117`) touches a session before
  it sends, so a session over which a node goes on exchanging never expires on a
  silent cut. `SilentInterruptionExpires` and `SessionEndsAtBoth` are about sides
  that send no messages of their own any more.
* With one side that sends keepalives, one answer that overtakes the return of its
  keepalive's send can end a healthy session.
* Asking again for a download in progress asks for the outstanding range a second
  time, and the second response fails the download; a failed download is not
  started again for its session.
* Two `dpt` versions with one `last_modified` leave replicas apart, each with the
  version it stored first; a `ddt` record keeps the metadata it saw first.

### Bounds

* ReliableOneTask: 2 messages, 2 attempts, any number of failing sends, 1 change
  of the session state. Two messages give reordering, a gap and a released run of two.
  ReliableTwoTasks adds a second task (symmetric) and a second state change, so
  a session can leave the active state and return.
* HandshakeFallback: 2 callers, a TCP and a UDP endpoint, the second answered by
  another node, at most 2 keys per session (one is used without duplication).
  Calls end, so the run has no deadlock check.
* Keepalive: the interval is 8 units, the scan period 2 and delays up to 1, the
  tightest values under which a keepalive sent at the first scan after half an
  interval is answered in time (two scan periods and four delays make an
  interval); the configuration, with 20 s and 1 s, leaves more. KeepaliveFailing
  has 4, 1 and 1: it needs no room for answers.
* RouteMaintained: 4 nodes that know one or two others, so the walk returns to
  the previous node both with and without a known round trip and passes the
  initiator itself; TTL 3, 2 builds, 1 restart. `MaxFresh` is above the TTL and
  is not what ends a walk. One wanted route: with two builds the second starts
  while the first is active, lost or given up.
* DhtReplicas: 4 nodes of which the 3 nearest are responsible, so that requests
  come from outside and from inside the set. The scenarios are two publishers
  with overlapping items, a query among two publications whose items expire on the
  way so that merges raise, two versions modified at one time, a query during and
  after a publication to nodes that hold different records, retries with a restart
  and a ttl that ends on the way, partial views, and a node alone. Two
  attempts are enough for a late result to meet a retry. Calls end, so there is
  no deadlock check.
* VirtualTransfer: a route that goes over a relay, back over the host and on to its
  entry point, and a direct one; two callers, three ranges, one fault of each kind a scenario allows. A scenario has the faults
  that belong to its question; `MCContentTransfer` lists the eleven. Three ranges are
  a first, a middle and a last one. Callers may simply stop, so there is no
  deadlock check.

### Fairness

* Periodic runtimes run on: `core/runtime/base.py` catches every exception of an
  iteration. Awaited sends and queries end, since transports and clients have
  timeouts. Both are weak fairness of the loop's actions.
* `EverySendSettles` assumes only this, of the sender: an awaited send or resend
  ends one way or the other (weak fairness of `SendEnds` and `ResendEnds`), and a
  message that is due again and again is taken up by the scan, which goes through
  all due messages (strong fairness for each message). ReliableGap also assumes
  that a message sent again and again arrives (strong fairness) and that handler
  tasks go on, so its counterexample is not a lost message.
* The keepalive's liveness assumes scans, ends of sends, the arrival or loss of
  packets and the passing of time, which waits for what is due. That a side stops
  sending messages of its own is a premise of the properties, not of the fairness.
* In VirtualTransfer packets that are not lost are handled, and coroutines go on.
  Nothing obliges a caller to start, use or close a session. Packets are sent
  over physical sessions, so one that is never handled is one that was lost,
  which is a fault of its own. `StartEnds` needs only the coroutines: the wait for
  an activation has a deadline.
* `StartSessionTerminates` and `PendingSettles` assume nothing of the network.
* RouteAbandoned assumes even that every message arrives, so its counterexample
  is not a lost FAIL.

## Proofs

`ReliableDeliveryProofs` (any number of messages, handlers, attempts):

* `TypeCorrect`, `AtMostOnce`, `InOrder` (one task), `AttemptsStayBounded`,
  `RepliesAreGenuine`, and `Refinement`: every behaviour is one of
  `ReliableChannel`.
* The inductive invariant `IInv` joins `NumberingInv` (what is buffered, expected
  and delivered), `AckInv` (an acknowledgment means received), `AttemptsInv`
  (sends under way are counted in advance), `DispatchInv` (a task owes exactly
  the rest of its run, and the runs of tasks do not overlap), `RepliesInv` and
  `OrderInv`. At-most-once is not inductive by itself: a task is between two
  dispatches, and only `DispatchInv` says that no other task owes the same
  message.

`SessionHandshakeProofs` (any callers and endpoints):

* `TypeCorrect` and `ActiveIsKeyed`, also with duplication; `KeysAgree` and
  `StaysEstablished` without duplication.
* `OnceInv` ties each session to at most one copy of one handshake message:
  `Untouched` sessions have nothing, `SessionOnce` relates states, keys and
  secrets of both sides, `PacketOnce` says what a packet on the way implies about
  them. Agreement alone is not inductive, as it says nothing of a secret still
  travelling in KEY_CONFIRM.

`SessionKeepaliveProofs` (any interval, packet delay, scan period and setups):

* `TypeCorrect`, and `StaysAlive`: `KeptAlive` whenever two scan periods and four
  packet delays fit into an interval and one side can send keepalives
  (`KeepalivesInTime`).
* That the sides are active says nothing of the time they have left. `ActivityInv`
  bounds how long a sender has been idle by the age of its packets; `HealthyInv`
  says that a side that can send asks at the first scan after half an interval
  (`AsksInTime`), and that its peer has heard it since or has a packet of it under
  way that arrives in time (`HearsInTime`).

`RouteBuildProofs` (any nodes, round trips, TTL, routes wanted and bounds):

* `TypeCorrect`, also with duplicated messages, with `PathsExist`: rows and
  publications use path ids that were generated.
* Without duplication `WalksEnd`, `ActiveRoutesWork`, `StatusesAdvance` and
  `PendingStaysBounded`. `OnceInv` says that a build has one message, or one
  publication or poll, at a time, and what each stage implies about all its rows
  (`Stage`, `Published`); a TTL on its way and the rows made add up to at most the
  initial TTL. `CountInv` adds that the number of pending builds the loop counted
  before its await is not too low after it. With `Duplicating = TRUE` these four
  do not hold, since a repeated ROUTE_CREATE makes a second walk.

`DhtProofs` (any nodes, views, replicas, calls, records, times and restarts):

* The laws of merging, for route entries with one entry per path:
  `MergeCommutes`, `MergeCovers` and `MergeIdempotent`. `DeduplicateIsBest` shows
  that the one pass of `_deduplicate_drt_route_entries` leaves
  `Best(old \cup new)`, the best entry of each path; the rest follows because
  "better" is total on a path, asymmetric and transitive.
* `TypeCorrect` and `ReplicasAgree`. `HeldInv` says that what a node holds is made
  up of what it started with and was given: it covers every such fragment, and has
  no unexpired item that no fragment brought. Two nodes with the same fragments
  therefore show the same, in whatever order merges, expiry and merges that raise
  came.
* `StoredAreHeld`, where the publishers of a ddt key agree on its metadata; without
  that, DhtStored has the counterexample. `CountInv`: every node counted in a
  message or at a call was given the fragment.
* `ReadsSee` and `RequestsDoNotLoop`, when all nodes agree on who is responsible.
  `ReadInv`: all responsible nodes were given what was stored before a query
  began, so any record it has read covers it. `LoopInv`: an attempt has one
  request under way, at a node it has not passed, and it has passed every node
  that waits for its answer.

`ContentTransferProofs` (any routes, callers, sessions, contents and numbers of
faults, in every behaviour of the complete system of routes, sessions and
downloads):

* `IngressIsRight`. Where packets go is not inductive by itself, since an entry
  point answers from its memory and a caller from its session. `IInv` says where
  each packet can be: inside a route, on the link its path id names and in its
  direction (`OnLink`), or with the final path id between the entry point and the
  caller's node (`Outside`). With it come what an entry point may remember
  (`IngressOK`), what a caller's session may be bound to (`SessInv`), which sessions
  callers can hold (`CallerInv`), and that only hosts give up rows (`RowsInv`).
  `EnterRoute`, `AlongRoute` and `ReplyGoesBack` are the three ways a packet moves;
  one lemma per action follows.
* `TypeCorrect`, from `TypeInv`, which adds what the messages under way carry: a
  range lies inside the content and its data has the range's length.
* `CompletedExactly`: only a file with the content's hash is moved to the storage,
  and what is reported or advertised was moved before.

`VirtualKeysProofs` and `DownloadProofs` extend it:

* `KeysAgree`: as long as no packet was handled twice. `KeysInv` has one handshake
  message of a session under way, whose type decides the keys and secrets of both
  sides (`SessionOnce`), and nothing of the sessions not tried yet (`Fresh`).
* `FailuresAreDisturbances`. `RangesInv` says of every download asked for once
  (`Patient`) that it has one request or response under way, for the bytes it
  expects next, and that what it wrote is the beginning of the content while no
  other download shares its file; ranges that follow each other then add up to the
  content (`BytesJoin`).

The assumptions are the named ASSUMEs of the modules, which TLC evaluates in the
runs: positive bounds, transports among the three that exist, distances that tell
nodes apart, records of the right form. Routes all start at the target's host and
may visit nodes again, the host included; no node passes a walk on to itself, and
the entry point is not the host, since a walk starts at a node other than its final
one and never picks the final node as an intermediary. Callers are on other nodes
than the target's host.

Only model-checked: liveness, which is out of the prover's reach (`EverySendSettles`,
`StartSessionTerminates`, `SilentInterruptionExpires`, `SessionEndsAtBoth`,
`PendingSettles`, `StartEnds`, `CloseReachesBoth`, `DownloadSettles`).

## Not modelled, and why

* Cryptography is a matter of values that agree or not; signatures and proof of
  work always verify.
* **DHT maintenance.** A round changes nothing. `_validate_local_records` looks for
  records not yet validated, and every record is inserted validated
  (`core/protocols/physical/dht.py:1164`). The repair of placements calls
  `_is_publishable`, which uses `asyncio` without importing it
  (`core/runtime/dht_maintenance.py:356`), so it raises before it publishes. The
  republication and transfer that `documentation/dht_doc.md:81` describes do not
  take place, and the DHT model has none.
* **Transports.** Fragments and connections are below the packets of the models; a
  datagram whose collection is discarded is a lost packet. Not covered: a TCP
  reader waits for the handler of each packet, so a handler that awaits an answer
  on its own connection runs into its timeout; and a forced new connection cancels
  a handler between two awaits.
* **Relay of private nodes, node info, ping, validation.** Periodic request and
  answer without a promise across nodes.
* **Virtual sessions** opened over a route of the caller, the choice among the DRT's
  entries (a scenario fixes the order in which they are tried), and the route-aware timeout of virtual sessions.
* The reliable delivery of the physical scope shares the bookkeeping modelled for
  the virtual scope. Virtual sessions of `ContentTransfer` carry content messages,
  which the code sends without the reliable layer.
* Restarts in `ContentTransfer` are of relays: callers and the target would lose
  their sessions and with them everything the properties are about.
* Bootstrap, configuration, logging, debug views, API servers and cluster tooling
  hold no protocol state. Identity rows are read and written in single
  transactions.

## Plan

**UDP reassembly** and the **relay** of private nodes; several virtual nodes in one
maintenance loop; virtual sessions over a route of the caller.
