----------------------------- MODULE RouteBuild -----------------------------
(***************************************************************************)
(* Building and maintaining the routes of one virtual node.  Each build    *)
(* walks at random from the initiator's physical node to a final node;     *)
(* every hop stores which path id it received and which it generated.  The *)
(* final node and the initiator then agree on a secret and a final path id *)
(* over those rows (KEM_INFO, VALIDATE, PING, PONG), the final node        *)
(* publishes the entry in the distributed route table and answers OK, and  *)
(* the initiator activates the route once it sees the entry.               *)
(*                                                                         *)
(* Path ids are the numbers of the hop rows that generated them, 0 for the *)
(* initiator's; a key is the number of the endpoint row that holds it.  An *)
(* offer is the key and the number of an encapsulation, and stands for the *)
(* secret and for the final path id made together with it.                 *)
(***************************************************************************)
EXTENDS Integers, Sequences, FiniteSets, FiniteSetsExt

CONSTANTS
    Nodes,        \* physical nodes
    Self,         \* the node of the initiator
    Rtt,          \* Rtt[n][m]: average round trip from n to a node m it knows
    FallbackRtt,  \* random_walk_previous_hop_fallback_rtt_ms
    InitialTtl,   \* remaining_ttl_ms of the first ROUTE_CREATE
    MinRoutes,    \* virtual_route_min_published_routes
    Duplicating,  \* TRUE when messages may arrive more than once
    MaxBuilds,    \* bound: builds started
    MaxFresh,     \* bound: hop rows, endpoint rows, offers and pings of a build
    MaxRestarts   \* bound: restarts of a node's core

ASSUME RouteAssumption ==
    /\ Self \in Nodes
    /\ DOMAIN Rtt = Nodes
    /\ \A n \in Nodes : /\ DOMAIN Rtt[n] \subseteq Nodes \ {n}
                        /\ \A m \in DOMAIN Rtt[n] : Rtt[n][m] \in Nat
    /\ \E first, final \in DOMAIN Rtt[Self] : first # final
    /\ FallbackRtt \in Nat \ {0}
    /\ InitialTtl \in Nat \ {0} /\ MinRoutes \in Nat \ {0}
    /\ MaxBuilds \in Nat /\ MaxFresh \in Nat /\ MaxRestarts \in Nat
    /\ Duplicating \in BOOLEAN

Builds == 1..MaxBuilds
NoOffer == [key |-> 0, enc |-> 0]
Idle == [pc |-> "idle", route |-> 0, final |-> 0, pending |-> 0]

VARIABLES
    rows,        \* initiator resolution of each build
    hops,        \* hop resolutions of each build, all nodes together
    endpoints,   \* endpoint resolutions of each build, at its final node
    offers,      \* encapsulations made for each build
    pings,       \* ping ids made for each build
    msgs,        \* messages on their way
    publishing,  \* publications of the route entry being awaited
    polling,     \* polls for the visibility of the route entry being awaited
    drt,         \* final path ids visible in the route table, external
    age,         \* build timeouts passed since each build started, up to 2
    runtime,     \* the maintenance loop
    restarts     \* restarts so far

vars == <<rows, hops, endpoints, offers, pings, msgs, publishing, polling, drt,
          age, runtime, restarts>>

Init ==
    /\ rows = [b \in Builds |-> [status |-> "none", first |-> Self, final |-> Self,
                                 offer |-> NoOffer, path |-> 0]]
    /\ hops = [b \in Builds |-> <<>>]
    /\ endpoints = [b \in Builds |-> <<>>]
    /\ offers = [b \in Builds |-> 0]
    /\ pings = [b \in Builds |-> 0]
    /\ msgs = {}
    /\ publishing = {} /\ polling = {} /\ drt = {}
    /\ age = [b \in Builds |-> 0]
    /\ runtime = Idle
    /\ restarts = 0

-----------------------------------------------------------------------------
(* Messages and the rows they are resolved with.                           *)

Msg(type, b, path) ==
    [type |-> type, b |-> b, path |-> path, ttl |-> 0, offer |-> NoOffer, ping |-> 0]

Consumed(m) == IF Duplicating THEN msgs ELSE msgs \ {m}
Answer(m, answers) == msgs' = Consumed(m) \cup answers

\* The two ends of the link that a path id names.
Sender(b, path) == IF path = 0 THEN Self ELSE hops[b][path].at
Receiver(b, path) == IF path = 0 THEN rows[b].first ELSE hops[b][path].to

IsValid(row) == row.status \notin {"none", "invalid"}

\* The latest valid row for a received path id, as a set of at most one.
_resolve_forward_path(b, path) ==
    LET found == {i \in DOMAIN hops[b] : hops[b][i].valid /\ hops[b][i].received = path}
    IN  {i \in found : \A j \in found : j <= i}

_resolve_reverse_path(b, path) == {i \in DOMAIN hops[b] : i = path /\ hops[b][i].valid}

get_endpoint_resolution_by_path_id(b, path) ==
    LET found == {e \in DOMAIN endpoints[b] :
                    IsValid(endpoints[b][e]) /\ endpoints[b][e].path = path}
    IN  {e \in found : \A f \in found : f <= e}

\* The message goes on to the next hop, or back to the previous one.
Onward(m) == {[m EXCEPT !.path = i] : i \in _resolve_forward_path(m.b, m.path)}
Back(m) == {[m EXCEPT !.path = hops[m.b][i].received] :
              i \in _resolve_reverse_path(m.b, m.path)}

\* Mutant: a route is made active without a look at is_valid.
mark_initiator_active_unchecked(b, path) ==
    [rows EXCEPT ![b].status = "active", ![b].path = path]

mark_initiator_resolution_active(b, path) ==
    IF IsValid(rows[b])
    THEN [rows EXCEPT ![b].status = "active", ![b].path = path]
    ELSE rows

invalidate_initiator_resolution(b) ==
    [rows EXCEPT ![b].status = IF @ = "none" THEN @ ELSE "invalid"]

invalidate_endpoint_resolution(b, path) ==
    [endpoints EXCEPT ![b] =
        [e \in DOMAIN @ |-> IF e \in get_endpoint_resolution_by_path_id(b, path)
                            THEN [@[e] EXCEPT !.status = "invalid"] ELSE @[e]]]

invalidate_hop_resolution(b, path) ==
    [hops EXCEPT ![b] =
        [i \in DOMAIN @ |-> IF i = path THEN [@[i] EXCEPT !.valid = FALSE] ELSE @[i]]]

-----------------------------------------------------------------------------
(* The random walk.                                                        *)

\* Round trips are halved to at least 1, so they are compared doubled.
TwiceOneWay(rtt) == IF rtt > 2 THEN rtt ELSE 2

\* Mutant: a hop may use up the whole time to live.
affordable_exactly(rtt, ttl) == TwiceOneWay(rtt) <= 2 * ttl

Affordable(rtt, ttl) == TwiceOneWay(rtt) < 2 * ttl

\* Mutant: the rest is not kept at 1 or more.
next_ttl_unclamped(ttl, rtt) == (2 * ttl - TwiceOneWay(rtt)) \div 2

next_remaining_ttl(ttl, rtt) ==
    LET rest == (2 * ttl - TwiceOneWay(rtt)) \div 2
    IN  IF rest > 1 THEN rest ELSE 1

\* Any affordable intermediary; else the final node if known, or if it is
\* where the message came from; else back to the previous node if that is
\* affordable; else the final node.
_select_next_candidate(n, final, previous, ttl) ==
    LET known == DOMAIN Rtt[n]
        eligible == {m \in known \ {final, previous} : Affordable(Rtt[n][m], ttl)}
    IN  IF eligible # {} THEN {[node |-> m, rtt |-> Rtt[n][m]] : m \in eligible}
        ELSE IF final \in known THEN {[node |-> final, rtt |-> Rtt[n][final]]}
        ELSE IF previous = final THEN {[node |-> final, rtt |-> 0]}
        ELSE IF previous \in known /\ Affordable(Rtt[n][previous], ttl)
             THEN {[node |-> previous, rtt |-> Rtt[n][previous]]}
        ELSE IF FallbackRtt < ttl THEN {[node |-> previous, rtt |-> FallbackRtt]}
        ELSE {[node |-> final, rtt |-> 0]}

_forward_route_create(m) ==
    LET n == Receiver(m.b, m.path)
        next == Len(hops[m.b]) + 1
    IN  /\ next <= MaxFresh
        /\ \E c \in _select_next_candidate(n, rows[m.b].final, Sender(m.b, m.path), m.ttl) :
             /\ hops' = [hops EXCEPT ![m.b] = Append(@,
                          [at |-> n, to |-> c.node, received |-> m.path, valid |-> TRUE])]
             /\ Answer(m, {[m EXCEPT !.path = next,
                                     !.ttl = next_remaining_ttl(m.ttl, c.rtt)]})
        /\ UNCHANGED endpoints

\* The final node makes a key for the route and offers it.  The database
\* refuses a second row for a path id, valid or not.
_handle_route_create_as_final_node(m) ==
    /\ IF \E e \in DOMAIN endpoints[m.b] : endpoints[m.b][e].path = m.path
       THEN Answer(m, {}) /\ UNCHANGED endpoints
       ELSE /\ Len(endpoints[m.b]) < MaxFresh
            /\ endpoints' = [endpoints EXCEPT ![m.b] = Append(@,
                 [path |-> m.path, status |-> "pending_validation",
                  offer |-> NoOffer, ping |-> 0])]
            /\ Answer(m, {[Msg("KEM_INFO", m.b, m.path) EXCEPT
                             !.offer = [key |-> Len(endpoints[m.b]) + 1, enc |-> 0]]})
    /\ UNCHANGED hops

handle_route_create(m) ==
    /\ m.type = "CREATE"
    /\ IF Receiver(m.b, m.path) = rows[m.b].final
       THEN _handle_route_create_as_final_node(m)
       ELSE _forward_route_create(m)
    /\ UNCHANGED <<rows, offers, pings, publishing, polling, drt, age, runtime, restarts>>

-----------------------------------------------------------------------------
(* The key exchange and the validation of the round trip.                  *)

\* The initiator, whatever its row's status, encapsulates a new secret, makes
\* a new final path id and goes back to the final validation.
_handle_local_route_create_kem_info(m) ==
    LET offer == [key |-> m.offer.key, enc |-> offers[m.b] + 1]
    IN  IF IsValid(rows[m.b])
        THEN /\ offer.enc <= MaxFresh
             /\ offers' = [offers EXCEPT ![m.b] = offer.enc]
             /\ rows' = [rows EXCEPT ![m.b].status = "pending_final_validation",
                                     ![m.b].offer = offer, ![m.b].path = offer.enc]
             /\ Answer(m, {[Msg("VALIDATE", m.b, 0) EXCEPT !.offer = offer]})
        ELSE Answer(m, {}) /\ UNCHANGED <<rows, offers>>

handle_route_create_kem_info(m) ==
    /\ m.type = "KEM_INFO"
    /\ IF m.path = 0
       THEN _handle_local_route_create_kem_info(m)
       ELSE Answer(m, Back(m)) /\ UNCHANGED <<rows, offers>>
    /\ UNCHANGED <<hops, endpoints, pings, publishing, polling, drt, age, runtime, restarts>>

\* The final node stores secret and final path id and sends a new ping id.  A
\* VALIDATE that meets no endpoint row, or one with another key, is dropped.
_handle_local_route_create_validate_and_publish(m) ==
    LET usable == {e \in get_endpoint_resolution_by_path_id(m.b, m.path) : e = m.offer.key}
    IN  IF usable = {}
        THEN Answer(m, {}) /\ UNCHANGED <<endpoints, pings>>
        ELSE /\ pings[m.b] < MaxFresh
             /\ pings' = [pings EXCEPT ![m.b] = @ + 1]
             /\ endpoints' = [endpoints EXCEPT ![m.b][m.offer.key] =
                  [@ EXCEPT !.status = "pending_ping_validation",
                            !.offer = m.offer, !.ping = pings[m.b] + 1]]
             /\ Answer(m, {[Msg("PING", m.b, m.path) EXCEPT !.ping = pings[m.b] + 1]})

handle_route_create_validate_and_publish(m) ==
    /\ m.type = "VALIDATE"
    /\ IF Onward(m) = {}
       THEN _handle_local_route_create_validate_and_publish(m)
       ELSE Answer(m, Onward(m)) /\ UNCHANGED <<endpoints, pings>>
    /\ UNCHANGED <<rows, hops, offers, publishing, polling, drt, age, runtime, restarts>>

_handle_local_route_create_ping(m) ==
    Answer(m, IF IsValid(rows[m.b]) THEN {[m EXCEPT !.type = "PONG"]} ELSE {})

handle_route_create_ping(m) ==
    /\ m.type = "PING"
    /\ IF m.path = 0 THEN _handle_local_route_create_ping(m) ELSE Answer(m, Back(m))
    /\ UNCHANGED <<rows, hops, endpoints, offers, pings, publishing, polling, drt,
                   age, runtime, restarts>>

\* An unexpected ping id or a round trip that took too long fails the route;
\* else the row becomes active and the publication of its entry is awaited.
_handle_local_route_create_pong(m) ==
    LET found == {e \in get_endpoint_resolution_by_path_id(m.b, m.path) :
                    endpoints[m.b][e].offer # NoOffer}
    IN  \/ /\ found = {}
           /\ Answer(m, {})
           /\ UNCHANGED <<endpoints, publishing>>
        \/ /\ found # {}
           /\ endpoints' = invalidate_endpoint_resolution(m.b, m.path)
           /\ Answer(m, {Msg("FAIL", m.b, m.path)})
           /\ UNCHANGED publishing
        \/ \E e \in found :
             /\ endpoints[m.b][e].ping = m.ping
             /\ endpoints' = [endpoints EXCEPT ![m.b][e].status = "active"]
             /\ publishing' = publishing \cup
                  {[b |-> m.b, path |-> m.path, offer |-> endpoints[m.b][e].offer]}
             /\ Answer(m, {})

handle_route_create_pong(m) ==
    /\ m.type = "PONG"
    /\ IF Onward(m) = {}
       THEN _handle_local_route_create_pong(m)
       ELSE Answer(m, Onward(m)) /\ UNCHANGED <<endpoints, publishing>>
    /\ UNCHANGED <<rows, hops, offers, pings, polling, drt, age, runtime, restarts>>

\* Mutant: OK is sent whatever the publication returned.
publish_result_ignored(p) ==
    /\ publishing' = publishing \ {p}
    /\ \/ /\ drt' = drt \cup {<<p.b, p.offer.enc>>}
          /\ UNCHANGED endpoints
       \/ /\ drt' \in {drt, drt \cup {<<p.b, p.offer.enc>>}}
          /\ endpoints' = invalidate_endpoint_resolution(p.b, p.path)
    /\ msgs' = msgs \cup {[Msg("OK", p.b, p.path) EXCEPT !.offer = p.offer]}
    /\ UNCHANGED <<rows, hops, offers, pings, polling, age, runtime, restarts>>

\* The publication ends as stored, and OK is sent with the row as it was
\* before the await; or it fails, though replicas may show the entry.
_publish_drt_route_after_pong(p) ==
    /\ publishing' = publishing \ {p}
    /\ \/ /\ drt' = drt \cup {<<p.b, p.offer.enc>>}
          /\ msgs' = msgs \cup {[Msg("OK", p.b, p.path) EXCEPT !.offer = p.offer]}
          /\ UNCHANGED endpoints
       \/ /\ drt' \in {drt, drt \cup {<<p.b, p.offer.enc>>}}
          /\ endpoints' = invalidate_endpoint_resolution(p.b, p.path)
          /\ msgs' = msgs \cup {Msg("FAIL", p.b, p.path)}
    /\ UNCHANGED <<rows, hops, offers, pings, polling, age, runtime, restarts>>

\* An OK under the current secret, for the current final path id, starts the
\* poll for the entry; any other is dropped.
_handle_local_route_create_ok(m) ==
    LET row == rows[m.b]
        accepted == /\ IsValid(row) /\ row.offer # NoOffer
                    /\ m.offer = row.offer /\ m.offer.enc = row.path
    IN  /\ polling' = polling \cup
             (IF accepted THEN {[b |-> m.b, path |-> m.offer.enc]} ELSE {})
        /\ Answer(m, {})

handle_route_create_ok(m) ==
    /\ m.type = "OK"
    /\ IF m.path = 0
       THEN _handle_local_route_create_ok(m)
       ELSE Answer(m, Back(m)) /\ UNCHANGED polling
    /\ UNCHANGED <<rows, hops, endpoints, offers, pings, publishing, drt,
                   age, runtime, restarts>>

\* The poll sees the entry and the row, if still valid, becomes active with
\* that final path id; or the poll gives up and the row is invalidated.
_is_route_visible_in_drt(p) ==
    /\ polling' = polling \ {p}
    /\ \/ /\ <<p.b, p.path>> \in drt
          /\ rows' = mark_initiator_resolution_active(p.b, p.path)
       \/ rows' = invalidate_initiator_resolution(p.b)
    /\ UNCHANGED <<hops, endpoints, offers, pings, msgs, publishing, drt,
                   age, runtime, restarts>>

\* Each hop passes FAIL on and gives its row up; the initiator's row is
\* invalidated, whatever its status.
handle_route_create_fail(m) ==
    /\ m.type = "FAIL"
    /\ Answer(m, Back(m))
    /\ IF m.path = 0
       THEN rows' = invalidate_initiator_resolution(m.b) /\ UNCHANGED hops
       ELSE hops' = invalidate_hop_resolution(m.b, m.path) /\ UNCHANGED rows
    /\ UNCHANGED <<endpoints, offers, pings, publishing, polling, drt, age, runtime, restarts>>

-----------------------------------------------------------------------------
(* The maintenance loop of the initiator's node.                           *)

Pending(rs) ==
    {b \in Builds : rs[b].status \in {"pending_kem_offer", "pending_final_validation"}}
Active(rs) == {b \in Builds : rs[b].status = "active"}
Started == Cardinality({b \in Builds : rows[b].status # "none"})

_pending_timeout_for_status(status) == IF status = "pending_final_validation" THEN 2 ELSE 1

\* Mutant: a build in its final validation never expires.
stale_offers_only == {b \in Pending(rows) : rows[b].status = "pending_kem_offer" /\ age[b] >= 1}

Stale == {b \in Pending(rows) : age[b] >= _pending_timeout_for_status(rows[b].status)}

\* Mutant: one build more than are missing.
one_pending_too_many(pending, missing) == pending > missing

EnoughPending(pending, missing) == pending >= missing

\* The first hop and the final node are two known nodes; the send of
\* ROUTE_CREATE is awaited.
_start_route_build(rs) ==
    LET b == Started + 1
    IN  IF b \in Builds
        THEN \E first, final \in DOMAIN Rtt[Self] :
               /\ first # final
               /\ rows' = [rs EXCEPT ![b] = [status |-> "pending_kem_offer", first |-> first,
                                             final |-> final, offer |-> NoOffer, path |-> 0]]
               /\ msgs' = msgs \cup {[Msg("CREATE", b, 0) EXCEPT !.ttl = InitialTtl]}
               /\ runtime' = [Idle EXCEPT !.pc = "sending", !.route = b]
        ELSE rows' = rs /\ runtime' = Idle /\ UNCHANGED msgs

\* Pending builds that timed out are invalidated.  Without an active route a
\* build is started unless enough are pending; with one, its health is read.
_run_once ==
    LET expired == [b \in Builds |->
                      IF b \in Stale THEN [rows[b] EXCEPT !.status = "invalid"] ELSE rows[b]]
        pending == Cardinality(Pending(expired))
    IN  /\ runtime.pc = "idle"
        /\ IF Active(expired) # {}
           THEN /\ rows' = expired
                /\ runtime' = [pc |-> "health", route |-> Max(Active(expired)),
                               final |-> rows[Max(Active(expired))].path, pending |-> pending]
                /\ UNCHANGED msgs
           ELSE IF EnoughPending(pending, MinRoutes)
           THEN rows' = expired /\ UNCHANGED <<msgs, runtime>>
           ELSE _start_route_build(expired)
        /\ UNCHANGED <<hops, endpoints, offers, pings, publishing, polling, drt, age, restarts>>

\* The query answers with the visible entries, with none, or not at all.  A
\* route that is not visible is invalidated unless a session is bound to it.
_read_drt_route_health(answer, bound) ==
    LET online == IF answer = "found" THEN Cardinality(drt) ELSE 0
        lost == \/ answer = "not_found"
                \/ answer = "found" /\ online >= MinRoutes
                   /\ <<runtime.route, runtime.final>> \notin drt
        kept == IF lost /\ ~ bound THEN invalidate_initiator_resolution(runtime.route) ELSE rows
        missing == IF online < MinRoutes THEN MinRoutes - online ELSE 0
    IN  /\ runtime.pc = "health"
        /\ IF answer # "no_answer" /\ ~ EnoughPending(runtime.pending, missing)
           THEN _start_route_build(kept)
           ELSE rows' = kept /\ runtime' = Idle /\ UNCHANGED msgs
        /\ UNCHANGED <<hops, endpoints, offers, pings, publishing, polling, drt, age, restarts>>

\* The awaited send of ROUTE_CREATE ends: sent or by an exception, and the
\* row stays; or reported as not sent, and the row is invalidated.
route_create_send_returns ==
    /\ runtime.pc = "sending"
    /\ runtime' = Idle
    /\ rows' \in {rows, invalidate_initiator_resolution(runtime.route)}
    /\ UNCHANGED <<hops, endpoints, offers, pings, msgs, publishing, polling, drt, age, restarts>>

\* Time passes for a pending build; the clocks of others are never read.
build_timeout_passes(b) ==
    /\ b \in Pending(rows) /\ age[b] < _pending_timeout_for_status(rows[b].status)
    /\ age' = [age EXCEPT ![b] = @ + 1]
    /\ UNCHANGED <<rows, hops, endpoints, offers, pings, msgs, publishing, polling, drt,
                   runtime, restarts>>

\* An entry of the route table expires or is lost with its replicas.
drt_entry_expires(e) ==
    /\ e \in drt
    /\ drt' = drt \ {e}
    /\ UNCHANGED <<rows, hops, endpoints, offers, pings, msgs, publishing, polling,
                   age, runtime, restarts>>

\* The core of a node restarts: rows are in its database, awaits are gone.  A
\* node that awaits nothing loses nothing.
core_restarts(n) ==
    /\ restarts < MaxRestarts
    /\ \/ n = Self /\ (polling # {} \/ runtime # Idle \/ \E b \in Builds : age[b] > 0)
       \/ \E p \in publishing : rows[p.b].final = n
    /\ restarts' = restarts + 1
    /\ publishing' = {p \in publishing : rows[p.b].final # n}
    /\ IF n = Self
       THEN /\ polling' = {} /\ runtime' = Idle
            /\ age' = [b \in Builds |-> 0]
       ELSE UNCHANGED <<polling, age, runtime>>
    /\ UNCHANGED <<rows, hops, endpoints, offers, pings, msgs, drt>>

-----------------------------------------------------------------------------
Receive(m) ==
    \/ handle_route_create(m) \/ handle_route_create_kem_info(m)
    \/ handle_route_create_validate_and_publish(m)
    \/ handle_route_create_ping(m) \/ handle_route_create_pong(m)
    \/ handle_route_create_ok(m) \/ handle_route_create_fail(m)

\* One step of the maintenance loop: runtime.pc enables exactly one kind of them.
Maintenance ==
    \/ _run_once
    \/ \E answer \in {"found", "not_found", "no_answer"}, bound \in BOOLEAN :
         _read_drt_route_health(answer, bound)
    \/ route_create_send_returns

Next ==
    \/ \E m \in msgs : Receive(m)
    \/ \E p \in publishing : _publish_drt_route_after_pong(p)
    \/ \E p \in polling : _is_route_visible_in_drt(p)
    \/ Maintenance
    \/ \E b \in Builds : build_timeout_passes(b)
    \/ \E e \in drt : drt_entry_expires(e)
    \/ \E n \in Nodes : core_restarts(n)

Spec == Init /\ [][Next]_vars

\* The loop runs on, its queries and sends end, and time passes.  Nothing is
\* assumed of the network, of publications and of polls.
FairSpec ==
    /\ Spec
    /\ WF_vars(Maintenance)
    /\ \A b \in Builds : WF_vars(build_timeout_passes(b))

\* Moreover every message arrives, and publications and polls end.
FairNetworkSpec ==
    /\ FairSpec
    /\ WF_vars(\E m \in msgs : Receive(m))
    /\ WF_vars(\E p \in publishing : _publish_drt_route_after_pong(p))
    /\ WF_vars(\E p \in polling : _is_route_visible_in_drt(p))

-----------------------------------------------------------------------------
Offers == [key : Nat, enc : Nat]
InitiatorRows == [status : {"none", "pending_kem_offer", "pending_final_validation",
                            "active", "invalid"},
                  first : Nodes, final : Nodes, offer : Offers, path : Nat]
HopRows == [at : Nodes, to : Nodes, received : Nat, valid : BOOLEAN]
EndpointRows == [path : Nat, status : {"pending_validation", "pending_ping_validation",
                                       "active", "invalid"},
                 offer : Offers, ping : Nat]
Messages == [type : {"CREATE", "KEM_INFO", "VALIDATE", "PING", "PONG", "OK", "FAIL"},
             b : Builds, path : Nat, ttl : Nat, offer : Offers, ping : Nat]

\* Rows and messages have the fields and states of the code, every path id a
\* message carries was generated, and a message that is still walking has
\* time to live left.
TypeOK ==
    /\ rows \in [Builds -> InitiatorRows]
    /\ hops \in [Builds -> Seq(HopRows)]
    /\ endpoints \in [Builds -> Seq(EndpointRows)]
    /\ offers \in [Builds -> Nat] /\ pings \in [Builds -> Nat]
    /\ msgs \subseteq Messages
    /\ \A m \in msgs : m.path <= Len(hops[m.b]) /\ (m.type = "CREATE" => m.ttl >= 1)
    /\ publishing \subseteq [b : Builds, path : Nat, offer : Offers]
    /\ polling \subseteq [b : Builds, path : Nat]
    /\ drt \subseteq Builds \X Nat
    /\ age \in [Builds -> 0..2]
    /\ runtime \in [pc : {"idle", "health", "sending"}, route : 0..MaxBuilds,
                    final : Nat, pending : Nat]
    /\ restarts \in 0..MaxRestarts

\* Data for the final path id of a row reaches the initiator and back: the
\* final node serves that id, and from the path of its row valid hop rows
\* lead to the initial path, each found by the lookups in both directions.
Connected(b) ==
    \E e \in DOMAIN endpoints[b], links \in SUBSET (0..Len(hops[b])) :
        /\ endpoints[b][e].status = "active"
        /\ endpoints[b][e].offer.enc = rows[b].path
        /\ endpoints[b][e].path \in links
        /\ \A path \in links \ {0} :
             /\ _resolve_reverse_path(b, path) = {path}
             /\ hops[b][path].received \in links
             /\ _resolve_forward_path(b, hops[b][path].received) = {path}

\* Where messages arrive at most once, an active route is usable and agreed
\* on, whatever was lost, timed out, restarted or invalidated on the way.
ActiveRouteIsConnected ==
    \A b \in Active(rows) :
        /\ Connected(b)
        /\ \E e \in DOMAIN endpoints[b] :
             endpoints[b][e].status = "active" /\ endpoints[b][e].offer = rows[b].offer

\* Where messages arrive at most once, the random walk ends: each row it
\* creates costs at least one unit of the time to live, also when it goes
\* back and forth between two nodes.
WalkBounded == \A b \in Builds : Len(hops[b]) <= InitialTtl

\* Where messages arrive at most once, the maintenance never has more builds
\* pending than it wants routes, though it counts them before it awaits the
\* health of the active route.
PendingBounded == Cardinality(Pending(rows)) <= MinRoutes

Rank(status) ==
    CASE status = "none" -> 0 [] status = "pending_kem_offer" -> 1
      [] status = "pending_final_validation" -> 2 [] status = "active" -> 3
      [] OTHER -> 4

\* Where messages arrive at most once, the status of a route only advances:
\* late answers never revive a route that timed out or take an active one
\* back to its validation.
StatusAdvances ==
    [][\A b \in Builds : Rank(rows[b].status) <= Rank(rows'[b].status)]_vars

\* Every build is settled, active or given up, whatever the network does.
PendingSettles == \A b \in Builds : b \in Pending(rows) ~> b \notin Pending(rows)

\* "protocol artifacts such as route bindings [...] must remain valid only
\* for limited time intervals": the hops of a route that was given up are
\* released in the end.
HopsReleased ==
    \A b \in Builds :
        rows[b].status = "invalid" ~> \A i \in DOMAIN hops[b] : ~ hops[b][i].valid
=============================================================================
