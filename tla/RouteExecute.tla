---------------------------- MODULE RouteExecute ----------------------------
(***************************************************************************)
(* ROUTE_DATA over built routes.                                           *)
(*                                                                         *)
(* A route r was built from its virtual node's host Hops[r][1] to the      *)
(* entry point Hops[r][Len(Hops[r])].  Link i of the route, between hop i  *)
(* and hop i+1, has the path id <<r, i>>; outsiders address the entry      *)
(* point with the final path id <<r, 0>>.  Each hop has a row of its own:  *)
(* the host an initiator resolution, the entry point an endpoint           *)
(* resolution, the others a hop mapping.  A walk may come back to a node,  *)
(* the host included, which then has several hops of the route.            *)
(*                                                                         *)
(* A packet is a ROUTE_DATA message on its way to node "at"; body is the   *)
(* virtual envelope and key the secret it is encrypted with, or NoKey.     *)
(* The entry point remembers, in memory only, which outside node a virtual *)
(* session came from (ingress).                                            *)
(***************************************************************************)
EXTENDS Integers, Sequences, FiniteSets, Functions

CONSTANTS
    Nodes,     \* physical nodes
    Hops,      \* Hops[r]: the nodes of route r
    Sids,      \* virtual session ids
    NoNode,    \* no node
    NoKey      \* no secret: plaintext

Routes == DOMAIN Hops

\* No node passes a walk on to itself, and the entry point is another node
\* than the host.
ASSUME HopsAssumption ==
    /\ \A r \in Routes : /\ Hops[r] \in Seq(Nodes) /\ Len(Hops[r]) >= 2
                         /\ \A i \in 2..Len(Hops[r]) : Hops[r][i] # Hops[r][i - 1]
                         /\ Hops[r][1] # Hops[r][Len(Hops[r])]
    /\ NoNode \notin Nodes

VARIABLES
    rows,      \* the <<r, i>> for which the row of hop i of route r is valid
    ingress,   \* ingress[r][s]: _external_ingress_by_route_session at the entry
               \* point of r, or NoNode
    packets    \* packets sent and not yet handled

Host(r) == Hops[r][1]
EntryPoint(r) == Hops[r][Len(Hops[r])]
\* The node before the entry point, and the path id that leads to it.
Previous(r) == Hops[r][Len(Hops[r]) - 1]
RoutePath(r) == <<r, Len(Hops[r]) - 1>>
FinalPath(r) == <<r, 0>>
EndpointRow(r) == <<r, Len(Hops[r])>>
AllRows == UNION {{<<r, i>> : i \in 1..Len(Hops[r])} : r \in Routes}

\* Rows of node n found by a path id; at most one route in each set.
get_initiator_resolution_by_initial_path_id(n, path) ==
    {r \in Routes : Host(r) = n /\ path = <<r, 1>> /\ <<r, 1>> \in rows}
get_endpoint_resolution_by_path_id(n, path) ==
    {r \in Routes : EntryPoint(r) = n /\ path = RoutePath(r) /\ EndpointRow(r) \in rows}
get_endpoint_resolution_by_final_path_id(n, path) ==
    {r \in Routes : EntryPoint(r) = n /\ path = FinalPath(r) /\ EndpointRow(r) \in rows}
\* Hop mappings are the indices i of n inside the route.
HopRows(n, r) == {i \in 2..(Len(Hops[r]) - 1) : Hops[r][i] = n /\ <<r, i>> \in rows}
get_resolution_by_received_path_id(n, path) ==
    {[path |-> <<path[1], i>>, to |-> Hops[path[1]][i + 1]] :
        i \in {j \in HopRows(n, path[1]) : path[2] = j - 1}}
get_resolution_by_generated_path_id(n, path) ==
    {[path |-> <<path[1], i - 1>>, to |-> Hops[path[1]][i - 1]] :
        i \in {j \in HopRows(n, path[1]) : path[2] = j}}

\* Mutant: sessions that share an entry point share its memory of where
\* packets came from.
ingress_by_route(r, sid) == CHOOSE s \in Sids : TRUE

\* The key under which the entry point of r remembers session sid.
_build_endpoint_ingress_key(r, sid) == sid

\* Where a packet goes from node p.at: a set of at most one
\* [path, to, ingress]; empty when it is delivered locally.
_resolve_route_data_path(p) ==
    LET n == p.at
        endpoint == get_endpoint_resolution_by_path_id(n, p.path) \cup
                    get_endpoint_resolution_by_final_path_id(n, p.path)
        toVn(r) == {[path |-> RoutePath(r), to |-> Previous(r),
                     ingress |-> [ingress EXCEPT ![r][_build_endpoint_ingress_key(r, p.sid)] = p.from]]}
        known(r) == ingress[r][_build_endpoint_ingress_key(r, p.sid)]
        byHop == {[path |-> h.path, to |-> h.to, ingress |-> ingress] :
                    h \in IF p.dir = "vn_to_pn"
                          THEN get_resolution_by_received_path_id(n, p.path)
                          ELSE get_resolution_by_generated_path_id(n, p.path)}
        atEndpoint(r) ==
            IF p.dir = "pn_to_vn" \/ p.from # Previous(r) THEN toVn(r)
            ELSE IF known(r) # NoNode
            THEN {[path |-> FinalPath(r), to |-> known(r), ingress |-> ingress]}
            ELSE byHop
    IN  IF endpoint = {} THEN byHop ELSE UNION {atEndpoint(r) : r \in endpoint}

\* Where node n sends the answer to a packet it was given locally; bound is
\* the bound_route_id of its session and entry the session's entry point.
_resolve_local_reply_context(n, path, bound, entry) ==
    LET initiator == get_initiator_resolution_by_initial_path_id(n, path)
        endpoint == get_endpoint_resolution_by_path_id(n, path)
    IN  IF initiator # {} THEN {[path |-> path, to |-> Hops[r][2]] : r \in initiator}
        ELSE IF endpoint # {} THEN {[path |-> path, to |-> Previous(r)] : r \in endpoint}
        ELSE IF bound = path /\ entry # NoNode THEN {[path |-> path, to |-> entry]}
        ELSE {}

_opposite_route_direction(dir) == IF dir = "vn_to_pn" THEN "pn_to_vn" ELSE "vn_to_pn"

RouteData(from, hop, dir, sid, key, body) ==
    [at |-> hop.to, from |-> from, path |-> hop.path, dir |-> dir, sid |-> sid,
     key |-> key, body |-> body]

\* Where the host of a virtual node sends a packet of a session bound to the
\* path id of one of its own routes; empty when the call raises.
send_from_local_route(n, path) == _resolve_local_reply_context(n, path, <<>>, NoNode)

\* Where an outside node sends a packet of a session bound to the final path
\* id of r.  A node that is itself the entry point skips the lookup of
\* ingress and sends straight into the route.
send_to_entry_point(n, r) ==
    IF n = EntryPoint(r) /\ EndpointRow(r) \in rows
    THEN [path |-> RoutePath(r), to |-> Previous(r)]
    ELSE [path |-> FinalPath(r), to |-> EntryPoint(r)]

\* A node on the way passes a packet on.
forward_message(p, rest) ==
    \E hop \in _resolve_route_data_path(p) :
        /\ packets' = rest \cup {RouteData(p.at, hop, p.dir, p.sid, p.key, p.body)}
        /\ ingress' = hop.ingress
        /\ UNCHANGED rows

IsLocal(p) == _resolve_route_data_path(p) = {}

\* The process of node n restarts: what it remembered of ingress is gone, and
\* so are its physical sessions with the packets sent to it over them.
RestartNode(n) ==
    /\ ingress' = [r \in Routes |-> IF EntryPoint(r) = n THEN [s \in Sids |-> NoNode]
                                    ELSE ingress[r]]
    /\ packets' = {p \in packets : p.at # n}
    /\ UNCHANGED rows

\* The route maintenance of the host gives up route r.
InvalidateRoute(r) ==
    /\ <<r, 1>> \in rows
    /\ rows' = rows \ {<<r, 1>>}
    /\ UNCHANGED <<ingress, packets>>
=============================================================================
