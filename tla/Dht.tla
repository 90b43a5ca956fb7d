-------------------------------- MODULE Dht ---------------------------------
(***************************************************************************)
(* Publishing and querying the record of one DHT key.                      *)
(*                                                                         *)
(* A client asks one physical node; DHT_PUBLISH and DHT_QUERY then travel  *)
(* from responsible node to responsible node, each node remembering where  *)
(* a forwarded request came from (its pending forwards), and one           *)
(* DHT_RESULT goes back along that path.  A publication collects the nodes *)
(* that stored the record (stored_by), a query the merged record and a     *)
(* cursor, the distance of the last responsible node that answered.        *)
(*                                                                         *)
(* A message in msgs may be delivered at any later time or never: lost and *)
(* late messages need no action of their own.  A client attempt may time   *)
(* out whenever it waits.  A restart forgets the pending forwards and the  *)
(* calls of a node and keeps its records, which are in its database.       *)
(***************************************************************************)
EXTENDS DhtMerge, FiniteSets

CONSTANTS
    Nodes,            \* physical nodes
    Dist,             \* Dist[n]: XOR distance of node n to the key
    K,                \* dht_replication_factor
    Scenarios,        \* what a behaviour may start from, see setup
    NoNode            \* no session to send a request over

ASSUME DistAssumption ==
    /\ IsFiniteSet(Nodes)
    /\ Dist \in [Nodes -> Nat]
    /\ \A m, n \in Nodes : Dist[m] = Dist[n] => m = n

ASSUME BoundsAssumption ==
    /\ K \in Nat \ {0}
    /\ NoNode \notin Nodes
    /\ \A s \in Scenarios : /\ {s.ttl, s.MaxTime, s.MaxRestarts} \subseteq Nat
                           /\ s.attempts \in [{"publish", "query"} -> Nat \ {0}]

\* The records of a scenario: those held at the start and those published.
RecordsOf(s) ==
    (UNION {s.store[n] : n \in Nodes})
    \cup {s.calls[c].frag : c \in {d \in DOMAIN s.calls : s.calls[d].kind = "publish"}}

\* The records agree on what does not accumulate.
OneHead(s) == \A x, y \in RecordsOf(s) : x.head = y.head

\* A node holds at most one record of the key.  The key of a drt record is
\* the virtual node's, and a dtt record is nothing but its entries.
ASSUME ScenarioAssumption ==
    \A s \in Scenarios :
        /\ s.ns \in Namespaces
        /\ s.knows \in [Nodes -> SUBSET Nodes]
        /\ s.store \in [Nodes -> SUBSET Records(s.ns)]
        /\ \A n \in Nodes : \A x, y \in s.store[n] : x = y
        /\ \A c \in DOMAIN s.calls : /\ s.calls[c].kind \in {"publish", "query"}
                                     /\ s.calls[c].at \in Nodes
                                     /\ s.calls[c].frag \in Records(s.ns)
        /\ s.ns \in {"drt", "dtt"} => OneHead(s)

VARIABLES
    setup,     \* never changes: ns, the namespace of the key; knows, the
               \* nodes each node knows; calls, each call's [kind, at, frag];
               \* attempts, dht_publish_attempt_count and dht_query_attempt_count;
               \* ttl, dht_request_max_forward_hops;
               \* store, the records held at the start; MaxTime and MaxRestarts,
               \* bounds on the clock and on restarts
    now,       \* the clock that expires items
    store,     \* store[n]: the validated record of the key at n, if any
    pending,   \* _pending_forwards[n]: [id, prev, prev_id]
    msgs,      \* messages sent and not yet handled
    call,      \* the client's side of each call
    given,     \* given[n]: calls whose fragment node n was given to store
    restarts   \* restarts so far

vars == <<setup, now, store, pending, msgs, call, given, restarts>>

Kind(c) == setup.calls[c].kind
At(c) == setup.calls[c].at
Fragment(c) == setup.calls[c].frag
Active == DOMAIN setup.calls
----------------------------------------------------------------------------
\* The K nodes closest to the key among those n knows, n itself included.
select_k_closest_nodes(n) ==
    {m \in setup.knows[n] :
        Cardinality({x \in setup.knows[n] : Dist[x] < Dist[m]}) < K}

IsResponsible(n) == n \in select_k_closest_nodes(n)

\* Mutant: a node that already has the record keeps it as it is.
upsert_once(n, c) == IF store[n] = {} THEN {Fragment(c)} ELSE store[n]

\* Mutant: a fragment replaces the record.
upsert_replaces(n, c) == {Fragment(c)}

\* What n holds after it was given the fragment of call c: a merge that
\* raises leaves the record alone, and the caller is not told.
_upsert_local_record(n, c) ==
    IF store[n] = {} THEN {Fragment(c)}
    ELSE LET merged == UNION {validate_and_merge(setup.ns, r, Fragment(c), now) :
                                r \in store[n]}
         IN  IF merged = {} THEN store[n] ELSE merged

\* The record a query carries on: a merge that raises keeps the local one.
_merge_query_record_json(accumulated, local) ==
    IF accumulated = {} THEN local
    ELSE LET merged == UNION {validate_and_merge(setup.ns, a, l, now) :
                                a \in accumulated, l \in local}
         IN  IF merged = {} THEN local ELSE merged

_select_failed_publish_status(kind, stored_by, fallback) ==
    IF kind = "publish" /\ stored_by # {} THEN "partially_stored" ELSE fallback

Result(m, status, stored_by, rec, responsible) ==
    [kind |-> "result", id |-> m.id, from |-> m.to, to |-> m.from,
     status |-> status, stored_by |-> stored_by, rec |-> rec,
     responsible |-> responsible]

\* Mutant: a query may go back to a node nearer than the cursor.
next_session_anywhere(m, responsible, stored_by, cursor) ==
    responsible \ ({m.to, m.from} \cup stored_by)

\* Mutant: only the node the request came from is skipped.
next_session_skips_previous(m, responsible, stored_by, cursor) ==
    responsible \ {m.from}

\* Any eligible responsible node may turn out to be the next one, when no
\* session can be started to the nearer ones.
_select_next_session(m, responsible, stored_by, cursor) ==
    {n \in responsible \ ({m.to, m.from} \cup stored_by) :
        m.kind = "query" => Dist[n] > cursor}

\* Node m.to passes the request on or answers it.  Nobody reads the
\* responsible nodes of a result "found" or "stored".
_forward_or_return_failure(m, failure, stored_by, cursor, rec) ==
    LET n == m.to
        responsible == select_k_closest_nodes(n)
        answer(status) ==
            /\ msgs' = (msgs \ {m}) \cup {Result(m,
                 _select_failed_publish_status(m.kind, stored_by, status),
                 stored_by, rec, responsible)}
            /\ UNCHANGED pending
        id == [m.id EXCEPT !.hop = @ + 1]
    IN  \/ m.ttl = 0 /\ answer("ttl_expired")
        \/ m.ttl > 0 /\ answer(failure)
        \/ /\ m.ttl > 0
           /\ \E next \in _select_next_session(m, responsible, stored_by, cursor) :
                msgs' = (msgs \ {m}) \cup
                  {[m EXCEPT !.id = id, !.from = n, !.to = next, !.ttl = @ - 1,
                             !.stored_by = stored_by, !.cursor = cursor, !.rec = rec]}
           /\ pending' = [pending EXCEPT ![n] = @ \cup
                {[id |-> id, prev |-> m.from, prev_id |-> m.id]}]
----------------------------------------------------------------------------
(* Handlers of a physical node.                                            *)

_handle_publish(m) ==
    LET n == m.to
        c == m.id.call
        stored_by == m.stored_by \cup {n}
    IN  /\ m.kind = "publish"
        /\ \/ /\ ~IsResponsible(n)
              /\ _forward_or_return_failure(m, "not_routable", m.stored_by, m.cursor, {})
              /\ UNCHANGED <<store, given>>
           \/ /\ IsResponsible(n)
              /\ store' = IF n \in m.stored_by THEN store
                          ELSE [store EXCEPT ![n] = _upsert_local_record(n, c)]
              /\ given' = IF n \in m.stored_by THEN given
                          ELSE [given EXCEPT ![n] = @ \cup {c}]
              /\ IF Cardinality(stored_by) < m.required
                 THEN _forward_or_return_failure(m, "partially_stored", stored_by, m.cursor, {})
                 ELSE /\ msgs' = (msgs \ {m}) \cup {Result(m, "stored", stored_by, {}, {})}
                      /\ UNCHANGED pending
        /\ UNCHANGED <<setup, now, call, restarts>>

_handle_query(m) ==
    LET n == m.to
        merged == _merge_query_record_json(m.rec, store[n])
    IN  /\ m.kind = "query"
        /\ \/ /\ ~IsResponsible(n)
              /\ _forward_or_return_failure(m, "not_routable", {}, m.cursor, m.rec)
           \/ /\ IsResponsible(n) /\ store[n] = {}
              /\ _forward_or_return_failure(m,
                   IF m.rec # {} THEN "found" ELSE "not_found", {}, Dist[n], m.rec)
           \/ /\ IsResponsible(n) /\ store[n] # {}
              /\ _forward_or_return_failure(m, "found", {}, Dist[n], merged)
        /\ UNCHANGED <<setup, now, store, call, given, restarts>>

\* A result of a forwarded request goes back to where the request came from.
_pop_pending_forward(m) ==
    /\ m.kind = "result"
    /\ \E p \in pending[m.to] :
        /\ p.id = m.id
        /\ pending' = [pending EXCEPT ![m.to] = @ \ {p}]
        /\ msgs' = (msgs \ {m}) \cup
             {[m EXCEPT !.id = p.prev_id, !.from = m.to, !.to = p.prev]}
    /\ UNCHANGED <<setup, now, store, call, given, restarts>>

\* A pending forward outlives every attempt of the request it belongs to.
_cleanup_pending_forwards(n) ==
    /\ \E p \in pending[n] :
        /\ LET k == call[p.id.call] IN k.pc # "waiting" \/ k.attempt # p.id.attempt
        /\ pending' = [pending EXCEPT ![n] = @ \ {p}]
    /\ UNCHANGED <<setup, now, store, msgs, call, given, restarts>>
----------------------------------------------------------------------------
(* The client of a call.                                                   *)

\* Every session start that fails raises and marks its node as attempted.  The
\* result is the set of [to, attempted] the selection may end with.
_select_closest_known_session(n, attempted) ==
    LET candidates == select_k_closest_nodes(n) \ ({n} \cup attempted)
        closer(t) == {x \in candidates : Dist[x] < Dist[t]}
    IN  {[to |-> t, attempted |-> attempted \cup closer(t)] : t \in candidates}
        \cup {[to |-> NoNode, attempted |-> attempted \cup candidates]}

_select_random_initial_session(n, attempted) ==
    {[to |-> t, attempted |-> attempted] :
        t \in (setup.knows[n] \ ({n} \cup attempted)) \cup {NoNode}}

_select_initial_query_session(n, attempted) ==
    UNION {IF s.to # NoNode THEN {s}
           ELSE _select_random_initial_session(n, s.attempted) :
             s \in _select_closest_known_session(n, attempted)}

\* The attempt is sent over session s, next to the messages in rest.
RequestOnce(c, k, s, rest) ==
    /\ call' = [call EXCEPT ![c] =
         [k EXCEPT !.pc = "waiting", !.attempt = @ + 1,
                   !.attempted = s.attempted \cup {s.to}]]
    /\ msgs' = rest \cup
         {[kind |-> Kind(c), id |-> [call |-> c, attempt |-> k.attempt + 1, hop |-> 0],
           from |-> At(c), to |-> s.to, ttl |-> setup.ttl, stored_by |-> k.stored_by,
           required |-> k.required, cursor |-> -1, rec |-> {}]}

Return(c, k, status, rec, rest) ==
    /\ call' = [call EXCEPT ![c] = [k EXCEPT !.pc = "done", !.status = status, !.rec = rec]]
    /\ msgs' = rest

\* The calls that have already reported their record as stored.
StoredCalls == {c \in Active : call[c].pc = "done" /\ call[c].status = "stored"}

_read_required_stored_count(n) == Cardinality(select_k_closest_nodes(n))

publish(c) ==
    LET n == At(c)
        local == IF IsResponsible(n) THEN {n} ELSE {}
        k == [call[c] EXCEPT !.stored_by = local,
                             !.required = _read_required_stored_count(n)]
    IN  /\ Kind(c) = "publish" /\ call[c].pc = "idle"
        /\ store' = IF local = {} THEN store
                    ELSE [store EXCEPT ![n] = _upsert_local_record(n, c)]
        /\ given' = IF local = {} THEN given ELSE [given EXCEPT ![n] = @ \cup {c}]
        /\ IF local # {} /\ k.required <= 1
           THEN Return(c, k, "stored", {}, msgs)
           ELSE \E s \in _select_initial_query_session(n, {}) :
                  IF s.to = NoNode
                  THEN Return(c, k, IF local = {} THEN "not_routable"
                                    ELSE "partially_stored", {}, msgs)
                  ELSE RequestOnce(c, k, s, msgs)
        /\ UNCHANGED <<setup, now, pending, restarts>>

\* The loop of publish after an attempt: stored_by accumulates.
PublishAttemptEnds(c, status, stored_by, rest) ==
    LET k == [call[c] EXCEPT !.stored_by = @ \cup stored_by]
        enough == Cardinality(k.stored_by) >= k.required
        normalized == IF enough THEN "stored"
                      ELSE IF status = "stored" THEN "partially_stored" ELSE status
    IN  IF enough \/ k.attempt = setup.attempts["publish"]
        THEN Return(c, k, normalized, {}, rest)
        ELSE \E s \in _select_random_initial_session(At(c), k.attempted) :
               IF s.to = NoNode THEN Return(c, k, normalized, {}, rest)
               ELSE RequestOnce(c, k, s, rest)

query(c) ==
    LET n == At(c)
        k == [call[c] EXCEPT !.after = StoredCalls]
    IN  /\ Kind(c) = "query" /\ call[c].pc = "idle"
        /\ IF IsResponsible(n) /\ store[n] # {}
           THEN Return(c, k, "found", store[n], msgs)
           ELSE \E s \in _select_initial_query_session(n, {}) :
                  IF s.to = NoNode
                  THEN Return(c, k, IF IsResponsible(n) THEN "not_found"
                                    ELSE "not_routable", {}, msgs)
                  ELSE RequestOnce(c, k, s, msgs)
        /\ UNCHANGED <<setup, now, store, pending, given, restarts>>

\* The loop of query after an attempt: the nodes reported as responsible are
\* not asked again.
QueryAttemptEnds(c, status, rec, responsible, rest) ==
    LET k == [call[c] EXCEPT !.attempted = @ \cup responsible]
    IN  IF status = "found" \/ k.attempt = setup.attempts["query"]
        THEN Return(c, k, status, rec, rest)
        ELSE \E s \in _select_initial_query_session(At(c), k.attempted) :
               IF s.to = NoNode THEN Return(c, k, status, rec, rest)
               ELSE RequestOnce(c, k, s, rest)

\* A result that no forward waits for resolves the client's future; when the
\* attempt is over, or the forward was forgotten, the result is dropped.
complete_result(m) ==
    LET c == m.id.call
        awaited == /\ m.id.hop = 0 /\ call[c].pc = "waiting"
                   /\ call[c].attempt = m.id.attempt
        rest == msgs \ {m}
    IN  /\ m.kind = "result"
        /\ \A p \in pending[m.to] : p.id # m.id
        /\ IF ~awaited THEN msgs' = rest /\ UNCHANGED call
           ELSE IF Kind(c) = "publish"
           THEN PublishAttemptEnds(c, m.status, m.stored_by, rest)
           ELSE QueryAttemptEnds(c, m.status, m.rec, m.responsible, rest)
        /\ UNCHANGED <<setup, now, store, pending, given, restarts>>

\* The attempt's wait_for runs out, or its send raises ("send_failed", which
\* the loops treat alike).
_send_and_wait_result_timeout(c) ==
    /\ call[c].pc = "waiting"
    /\ IF Kind(c) = "publish" THEN PublishAttemptEnds(c, "timeout", {}, msgs)
       ELSE QueryAttemptEnds(c, "timeout", {}, {}, msgs)
    /\ UNCHANGED <<setup, now, store, pending, given, restarts>>
----------------------------------------------------------------------------
(* The environment.                                                        *)

Restart(n) ==
    /\ restarts < setup.MaxRestarts
    /\ restarts' = restarts + 1
    /\ pending' = [pending EXCEPT ![n] = {}]
    /\ call' = [c \in Active |-> IF At(c) = n /\ call[c].pc = "waiting"
                                 THEN [call[c] EXCEPT !.pc = "lost"] ELSE call[c]]
    /\ msgs' = {m \in msgs : m.to # n}
    /\ UNCHANGED <<setup, now, store, given>>

Tick ==
    /\ now < setup.MaxTime
    /\ now' = now + 1
    /\ UNCHANGED <<setup, store, pending, msgs, call, given, restarts>>

IdleCall == [pc |-> "idle", attempt |-> 0, stored_by |-> {}, required |-> 0,
             attempted |-> {}, status |-> "none", rec |-> {}, after |-> {}]

Init ==
    /\ setup \in Scenarios
    /\ now = 0
    /\ store = setup.store
    /\ pending = [n \in Nodes |-> {}]
    /\ msgs = {}
    /\ call = [c \in Active |-> IdleCall]
    /\ given = [n \in Nodes |-> {}]
    /\ restarts = 0

Next ==
    \/ \E m \in msgs : \/ _handle_publish(m) \/ _handle_query(m)
                       \/ _pop_pending_forward(m) \/ complete_result(m)
    \/ \E n \in Nodes : _cleanup_pending_forwards(n) \/ Restart(n)
    \/ \E c \in Active : publish(c) \/ query(c) \/ _send_and_wait_result_timeout(c)
    \/ Tick

Spec == Init /\ [][Next]_vars
----------------------------------------------------------------------------
(* Properties.                                                             *)

Statuses == {"none", "stored", "partially_stored", "not_routable", "ttl_expired",
             "timeout", "found", "not_found"}

\* Type invariant: a node holds at most one record of the key, as
\* _delete_older_records_for_key keeps it, and a request's ttl never grows.
TypeOK ==
    /\ now \in 0..setup.MaxTime /\ restarts \in 0..setup.MaxRestarts
    /\ \A n \in Nodes : Cardinality(store[n]) <= 1 /\ given[n] \subseteq Active
    /\ \A n \in Nodes : \A p \in pending[n] : p.prev \in Nodes /\ p.id.hop > 0
    /\ \A m \in msgs : /\ {m.from, m.to} \subseteq Nodes /\ m.from # m.to
                       /\ m.stored_by \subseteq Nodes
                       /\ m.kind # "result" => m.ttl = setup.ttl - m.id.hop /\ m.ttl >= 0
    /\ \A c \in Active : /\ call[c].pc \in {"idle", "waiting", "done", "lost"}
                         /\ call[c].status \in Statuses
                         /\ call[c].attempted \subseteq Nodes

\* Record r has every unexpired item of fragment f, or a better entry for the
\* same path, or (dpt) a version at least as new.  A dpnt record is whatever
\* came last.
Covers(r, f) ==
    CASE setup.ns = "dpnt" -> TRUE
      [] setup.ns = "dpt" -> r.head >= f.head
      [] setup.ns = "drt" -> \A e \in Unexpired(f.items, now) : \E x \in r.items :
            x.path = e.path /\ ~_is_better_drt_route_entry(e, x)
      [] OTHER -> Unexpired(f.items, now) \subseteq r.items

\* A publication that ended "stored" is held by at least as many nodes as the
\* publisher knew to be responsible (publish, _handle_publish): no matter how
\* attempts, late results, forwards, restarts and other publications of the
\* key interleave, the replicas counted in stored_by have the record.
StoredIsHeld ==
    \A c \in StoredCalls :
        Cardinality({n \in Nodes : \E r \in store[n] : Covers(r, Fragment(c))})
            >= Cardinality(select_k_closest_nodes(At(c)))

\* All nodes agree on who is responsible.
SameView == Cardinality({select_k_closest_nodes(n) : n \in Nodes}) = 1

\* Publishers of one content give it the same title, type and tags.
OneDescription == setup.ns = "ddt" => OneHead(setup)

\* No two versions of a dpt record have the same last_modified.
NoTies ==
    setup.ns = "dpt" => \A x, y \in RecordsOf(setup) : x.head = y.head => x = y

\* A query that began after a publication was reported stored and that ends
\* "found" returns what was published, whichever replicas it visits, whatever
\* other publications bring them meanwhile and whichever merges raise, of
\* fragments that expired on their way among others (_handle_query,
\* _upsert_local_record, _merge_query_record_json).  Nodes have to agree on
\* who is responsible, and publishers of ddt on the metadata: a replica keeps
\* the metadata it saw first, and a merge with others raises.
ReadsSeeStored ==
    \A q \in Active : (call[q].status = "found" /\ SameView /\ OneDescription) =>
        \A c \in call[q].after : \E r \in call[q].rec : Covers(r, Fragment(c))

\* What a reader of node n can use.
Visible(n) ==
    {[head |-> r.head, ref |-> r.ref, items |-> Unexpired(r.items, now)] : r \in store[n]}

\* Two nodes that started alike and were given the same fragments show the
\* same, in whatever order the fragments arrived and whichever expired on
\* their way (_upsert_local_record, validate_and_merge).  Not so where the
\* order decides: the last dpnt fragment replaces the record, the first ddt
\* fragment fixes the metadata for good, and of two dpt versions with the
\* same last_modified the first stays.
ReplicasConverge ==
    \A m, n \in Nodes :
        ( /\ setup.ns # "dpnt" /\ OneDescription /\ NoTies
          /\ setup.store[m] = setup.store[n] /\ given[m] = given[n] )
        => Visible(m) = Visible(n)

\* When all nodes agree on who is responsible, a forwarded request never
\* comes back to a node that waits for its answer: stored_by, the cursor and
\* the node it came from rule it out (_select_next_session).
NoRequestLoops ==
    SameView => \A m \in msgs : m.kind # "result" =>
        \A p \in pending[m.to] :
            <<p.id.call, p.id.attempt>> # <<m.id.call, m.id.attempt>>
=============================================================================
