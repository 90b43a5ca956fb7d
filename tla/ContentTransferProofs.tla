------------------------ MODULE ContentTransferProofs -----------------------
(***************************************************************************)
(* Proofs about routes, virtual sessions and downloads for any routes,     *)
(* callers, scenarios and contents, whatever is lost, handled twice or     *)
(* restarted: packets leave a route towards the right node, the types, and *)
(* what is stored as the content is the content.                           *)
(***************************************************************************)
EXTENDS ContentTransfer, TLAPS

-----------------------------------------------------------------------------
(* Where packets are.                                                      *)

\* A packet inside a route goes up or down the link its path id names.
OnLink(p) ==
    \E r \in Routes : \E i \in 1..(Len(Hops[r]) - 1) :
        /\ p.path = <<r, i>>
        /\ \/ p.dir = "vn_to_pn" /\ p.from = Hops[r][i] /\ p.at = Hops[r][i + 1]
           \/ p.dir = "pn_to_vn" /\ p.from = Hops[r][i + 1] /\ p.at = Hops[r][i]

\* A packet with a final path id is between the entry point and the node that
\* opened its session, which is another node.
Outside(p) ==
    \E r \in Routes :
        /\ p.path = FinalPath(r) /\ Node(p.sid) # EntryPoint(r)
        /\ \/ p.dir = "vn_to_pn" /\ p.from = EntryPoint(r) /\ p.at = Node(p.sid)
           \/ p.dir = "pn_to_vn" /\ p.from = Node(p.sid) /\ p.at = EntryPoint(r)

PacketInv(p) == p.sid \in Sessions /\ (OnLink(p) \/ Outside(p))

\* An entry point remembers the node of the caller, or nothing.
IngressOK(g) ==
    /\ g \in [Routes -> [Sids -> Nodes \cup {NoNode}]]
    /\ \A r \in Routes : \A s \in Sessions : g[r][s] \in {NoNode, Node(s)} \ {EntryPoint(r)}

\* Only hosts give up their rows.
RowsInv == \A r \in Routes : \A i \in 2..Len(Hops[r]) : <<r, i>> \in rows

CallerInv ==
    /\ DOMAIN caller = Callers
    /\ \A v \in Callers :
         /\ caller[v].pc = "trying" => caller[v].attempt \in Nat \ {0}
         /\ caller[v].pc \in {"waiting", "returned", "closing"} => caller[v].sid \in Sessions

SideOK(side, s) ==
    /\ DOMAIN side = {"state", "secret", "eph", "bound"}
    /\ s \in Sessions => side.bound \in {<<>>, FinalPath(RouteOf(s))}

\* A caller's session is bound to the final path id of its route.
SessInv ==
    /\ DOMAIN sess = Sids
    /\ \A s \in Sids : DOMAIN sess[s] = {"c", "t"} /\ SideOK(sess[s]["c"], s)

IInv ==
    /\ setup \in Scenarios
    /\ RowsInv /\ IngressOK(ingress) /\ CallerInv /\ SessInv
    /\ \A p \in packets : PacketInv(p)
----------------------------------------------------------------------------
\* The two ends of a route and its links.
LEMMA RouteFacts ==
    ASSUME NEW r \in Routes
    PROVE  /\ Len(Hops[r]) \in Nat /\ Len(Hops[r]) >= 2
           /\ \A i \in 1..Len(Hops[r]) : Hops[r][i] \in Nodes
           /\ \A i \in 1..(Len(Hops[r]) - 1) : Hops[r][i] # Hops[r][i + 1]
           /\ Host(r) = Hops[r][1] /\ Host(r) = Target
           /\ EntryPoint(r) = Hops[r][Len(Hops[r])]
           /\ EntryPoint(r) \in Nodes /\ EntryPoint(r) # NoNode /\ EntryPoint(r) # Target
<1>1. Hops[r] \in Seq(Nodes) /\ Len(Hops[r]) >= 2
  BY HopsAssumption, Zenon
<1>2. DOMAIN Hops[r] = 1..Len(Hops[r]) /\ Len(Hops[r]) \in Nat
  BY <1>1
<1>3. \A i \in 1..Len(Hops[r]) : Hops[r][i] \in Nodes
  BY <1>1
<1>4. \A i \in 1..(Len(Hops[r]) - 1) : Hops[r][i] # Hops[r][i + 1]
  <2>1. TAKE i \in 1..(Len(Hops[r]) - 1)
  <2>2. i + 1 \in 2..Len(Hops[r]) /\ (i + 1) - 1 = i
    BY <1>2
  <2>3. Hops[r][i + 1] # Hops[r][(i + 1) - 1]
    BY <2>2, HopsAssumption, Zenon
  <2> QED
    BY <2>2, <2>3
<1>5. Host(r) = Hops[r][1] /\ Host(r) = Target /\ EntryPoint(r) = Hops[r][Len(Hops[r])]
  BY TargetAssumption, Zenon DEF Host, EntryPoint
<1>6. Len(Hops[r]) \in 1..Len(Hops[r])
  <2>1. Len(Hops[r]) \in Nat
    BY <1>2, Zenon
  <2>2. Len(Hops[r]) >= 2
    BY <1>1, Zenon
  <2>3. \A n \in Nat : n >= 2 => n \in 1..n
    OBVIOUS
  <2> QED
    BY <2>1, <2>2, <2>3, Zenon
<1>7. EntryPoint(r) \in Nodes /\ EntryPoint(r) # Target
  BY <1>3, <1>5, <1>6, HopsAssumption, Zenon
<1>8. EntryPoint(r) # NoNode
  BY <1>7, HopsAssumption, Zenon
<1> QED
  BY <1>1, <1>2, <1>3, <1>4, <1>5, <1>7, <1>8, Zenon

\* A hop mapping of a node is at a hop of the node inside the route.
LEMMA HopMappings ==
    ASSUME NEW n, NEW r, NEW i \in HopRows(n, r)
    PROVE  i \in 2..(Len(Hops[r]) - 1) /\ Hops[r][i] = n
BY Zenon DEF HopRows

\* Sessions have a caller on a node other than the target, and a route.
LEMMA SessionFacts ==
    ASSUME setup \in Scenarios, NEW s \in Sessions
    PROVE  /\ s \in Sids /\ Node(s) \in Nodes /\ Node(s) # Target /\ Node(s) # NoNode
           /\ RouteOf(s) \in Routes
<1>1. s \in Sids /\ s[1] \in Callers /\ s[2] \in 1..Len(Entries(s[1]))
  BY Zenon DEF Sessions
<1>2. Node(s) \in Nodes \ {Target} /\ Entries(s[1]) \in Seq(Routes)
  BY <1>1, ScenariosAssumption, Zenon DEF Callers, Node, Entries
<1>3. RouteOf(s) \in Routes
  BY <1>1, <1>2 DEF RouteOf
<1> QED
  BY <1>1, <1>2, <1>3, HopsAssumption, Zenon

----------------------------------------------------------------------------
(* Sessions and callers.                                                   *)

\* The handlers of content messages leave the session as it is.
LEMMA ContentKeepsSide ==
    ASSUME NEW s, NEW p, NEW d, NEW o \in HandleContentMessage(s, p, d)
    PROVE  o.side = s
<1>1. \A reply, e, publish : \A x \in ContentOutcome(s, reply, e, publish) : x.side = s
  BY DEF ContentOutcome
<1>2. s.state = "active"
  BY Zenon DEF HandleContentMessage
<1>3. \/ o \in _handle_content_info_request(s, p, d)
      \/ o \in _handle_content_info_response(s, p, d)
      \/ o \in _handle_content_range_request(s, p, d)
      \/ o \in _handle_content_range_response(s, p, d)
      \/ o \in _handle_content_error_message(s, p, d)
  BY <1>2, Zenon DEF HandleContentMessage
<1>4. CASE o \in _handle_content_info_request(s, p, d)
  BY <1>1, <1>4, Zenon DEF _handle_content_info_request
<1>5. CASE o \in _handle_content_info_response(s, p, d)
  BY <1>1, <1>5, Zenon DEF _handle_content_info_response
<1>6. CASE o \in _handle_content_range_request(s, p, d)
  BY <1>1, <1>6, Zenon DEF _handle_content_range_request
<1>7. CASE o \in _handle_content_range_response(s, p, d)
  BY <1>7 DEF _handle_content_range_response, ContentOutcome
<1>8. CASE o \in _handle_content_error_message(s, p, d)
  BY <1>1, <1>8, Zenon DEF _handle_content_error_message
<1> QED
  BY <1>3, <1>4, <1>5, <1>6, <1>7, <1>8, Zenon

\* The attempt over an entry point of the list is one of the sessions.
LEMMA AttemptIsSession ==
    ASSUME setup \in Scenarios, NEW v \in Callers, NEW k \in Nat \ {0}, k <= Len(Entries(v))
    PROVE  <<v, k>> \in Sessions
<1>1. Entries(v) \in Seq(Routes)
  BY ScenariosAssumption, Zenon DEF Callers, Entries
<1>2. k \in 1..Len(Entries(v))
  BY <1>1
<1>3. <<v, k>> \in Sids
  BY <1>2, ScenariosAssumption, Zenon DEF Callers, Entries
<1> QED
  BY <1>2, <1>3, Zenon DEF Sessions

----------------------------------------------------------------------------
(* The steps.                                                              *)

----------------------------------------------------------------------------
LEMMA Initially ==
    ASSUME Init
    PROVE  IInv
<1>1. setup \in Scenarios /\ packets = {}
  BY Zenon DEF Init
<1>2. RowsInv
  <2>1. SUFFICES ASSUME NEW r \in Routes, NEW i \in 2..Len(Hops[r])
                 PROVE  <<r, i>> \in rows
    BY Zenon DEF RowsInv
  <2>2. i \in 1..Len(Hops[r])
    BY RouteFacts
  <2> QED
    BY <2>2 DEF Init, AllRows
<1>3. \A s \in setup.established : s \in Sessions /\ s = <<s[1], 1>>
  <2>1. TAKE s \in setup.established
  <2>2. PICK v \in Callers : s = <<v, 1>> /\ Entries(v) # <<>>
    BY <1>1, ScenariosAssumption, Zenon DEF Callers, Entries
  <2>3. Entries(v) \in Seq(Routes)
    BY <1>1, ScenariosAssumption, Zenon DEF Callers, Entries
  <2>4. 1 <= Len(Entries(v))
    BY <2>2, <2>3
  <2> QED
    BY <1>1, <2>2, <2>4, AttemptIsSession
<1>4. IngressOK(ingress)
  <2>1. \A r \in Routes : \A s \in Sids :
          ingress[r][s] = IF s \in setup.established /\ RouteOf(s) = r /\ Node(s) # EntryPoint(r)
                          THEN Node(s) ELSE NoNode
    BY Zenon DEF Init
  <2>2. \A s \in setup.established : Node(s) \in Nodes
    BY <1>1, <1>3, SessionFacts, Zenon
  <2>3. ingress \in [Routes -> [Sids -> Nodes \cup {NoNode}]]
    BY <2>2, Zenon DEF Init
  <2>4. Sessions \subseteq Sids
    BY Zenon DEF Sessions
  <2>5. \A r \in Routes : EntryPoint(r) # NoNode
    BY RouteFacts, Zenon
  <2> QED
    BY <2>1, <2>3, <2>4, <2>5, Zenon DEF IngressOK
<1>5. CallerInv
  <2>1. \A v \in Callers :
          \/ caller[v] = [pc |-> "idle", attempt |-> 0, sid |-> <<>>]
          \/ /\ caller[v] = [pc |-> "returned", attempt |-> 1, sid |-> <<v, 1>>]
             /\ \E s \in setup.established : s[1] = v
    BY Zenon DEF Init
  <2>2. \A v \in Callers : (\E s \in setup.established : s[1] = v) => <<v, 1>> \in Sessions
    BY <1>3, Zenon
  <2>3. DOMAIN caller = Callers
    BY Zenon DEF Init
  <2> QED
    BY <2>1, <2>2, <2>3 DEF CallerInv
<1>6. SessInv
  <2>1. \A s \in Sids : sess[s] = IF s \in setup.established THEN Established(s)
                                  ELSE [c |-> NoSide, t |-> NoSide]
    BY Zenon DEF Init
  <2>2. ASSUME NEW s \in Sids PROVE DOMAIN sess[s] = {"c", "t"} /\ SideOK(sess[s]["c"], s)
    <3>1. CASE s \in setup.established
      <4>1. sess[s] = Established(s)
        BY <2>1, <3>1, Zenon
      <4> QED
        BY <4>1 DEF Established, SideOK
    <3>2. CASE s \notin setup.established
      <4>1. sess[s] = [c |-> NoSide, t |-> NoSide]
        BY <2>1, <3>2, Zenon
      <4> QED
        BY <4>1 DEF NoSide, SideOK
    <3> QED
      BY <3>1, <3>2, Zenon
  <2>3. DOMAIN sess = Sids
    BY Zenon DEF Init
  <2> QED
    BY <2>2, <2>3, Zenon DEF SessInv
<1> QED
  BY <1>1, <1>2, <1>4, <1>5, <1>6, Zenon DEF IInv

LEMMA Stepwise ==
    ASSUME IInv, [Next]_vars
    PROVE  IInv'
\* A packet a caller sends for its session s.
<1>CallerSends. ASSUME NEW s \in Sessions, NEW key, NEW body
    PROVE  PacketInv(RouteData(Node(s), send_to_entry_point(Node(s), RouteOf(s)),
                               "pn_to_vn", s, key, body))
  <2> DEFINE r == RouteOf(s)
             n == Len(Hops[r])
             q == RouteData(Node(s), send_to_entry_point(Node(s), r), "pn_to_vn", s, key, body)
  <2>1. r \in Routes
    BY SessionFacts, Zenon DEF IInv
  <2>2. q.sid = s /\ q.dir = "pn_to_vn" /\ q.from = Node(s)
        /\ q.path = send_to_entry_point(Node(s), r).path /\ q.at = send_to_entry_point(Node(s), r).to
    BY Zenon DEF RouteData
  <2>3. CASE Node(s) = EntryPoint(r)
    <3>1. EndpointRow(r) \in rows
      BY <2>1, RouteFacts DEF IInv, RowsInv, EndpointRow
    <3>2. q.path = <<r, n - 1>> /\ q.at = Hops[r][n - 1]
      BY <2>2, <2>3, <3>1, Zenon DEF send_to_entry_point, RoutePath, Previous
    <3>3. n - 1 \in 1..(n - 1) /\ q.from = Hops[r][(n - 1) + 1]
      BY <2>1, <2>2, <2>3, RouteFacts
    <3>4. OnLink(q)
      BY <2>1, <2>2, <3>2, <3>3, Zenon DEF OnLink
    <3> QED
      BY <2>2, <3>4, Zenon DEF PacketInv
  <2>4. CASE Node(s) # EntryPoint(r)
    <3>1. q.path = FinalPath(r) /\ q.at = EntryPoint(r)
      BY <2>2, <2>4, Zenon DEF send_to_entry_point
    <3>2. Outside(q)
      BY <2>1, <2>2, <2>4, <3>1, Zenon DEF Outside
    <3> QED
      BY <2>2, <3>2, Zenon DEF PacketInv
  <2> QED
    BY <2>3, <2>4, Zenon
\* A packet the target sends for its session s: it enters one of its routes.
<1>TargetSends.
    ASSUME NEW s \in Sessions, NEW path, NEW key, NEW body,
           NEW h \in send_from_local_route(Target, path)
    PROVE  PacketInv(RouteData(Target, h, "vn_to_pn", s, key, body))
  <2> DEFINE q == RouteData(Target, h, "vn_to_pn", s, key, body)
  <2>1. get_endpoint_resolution_by_path_id(Target, path) = {}
    BY RouteFacts, Zenon DEF get_endpoint_resolution_by_path_id
  <2>2. PICK r \in Routes : /\ Host(r) = Target /\ path = <<r, 1>>
                            /\ h = [path |-> path, to |-> Hops[r][2]]
    BY <2>1, Zenon DEF send_from_local_route, _resolve_local_reply_context,
       get_initiator_resolution_by_initial_path_id
  <2>3. q.sid = s /\ q.dir = "vn_to_pn" /\ q.from = Hops[r][1]
        /\ q.path = <<r, 1>> /\ q.at = Hops[r][1 + 1]
    BY <2>2, RouteFacts DEF RouteData
  <2>4. 1 \in 1..(Len(Hops[r]) - 1)
    BY <2>2, RouteFacts
  <2> QED
    BY <2>3, <2>4, Zenon DEF PacketInv, OnLink
\* A packet with a final path id at the entry point is remembered and enters
\* the route.
<1>EnterRoute. ASSUME NEW p \in packets, Outside(p), NEW hop \in _resolve_route_data_path(p)
    PROVE  /\ PacketInv(RouteData(p.at, hop, p.dir, p.sid, p.key, p.body))
           /\ IngressOK(hop.ingress)
  <2> USE <1>EnterRoute
  <2> DEFINE q == RouteData(p.at, hop, p.dir, p.sid, p.key, p.body)
  <2>1. p.sid \in Sessions
    BY Zenon DEF IInv, PacketInv
  <2>2. PICK r \in Routes :
          /\ p.path = <<r, 0>> /\ Node(p.sid) # EntryPoint(r)
          /\ \/ p.dir = "vn_to_pn" /\ p.from = EntryPoint(r) /\ p.at = Node(p.sid)
             \/ p.dir = "pn_to_vn" /\ p.from = Node(p.sid) /\ p.at = EntryPoint(r)
    BY Zenon DEF Outside, FinalPath
  <2> DEFINE n == Len(Hops[r])
  <2>3. n \in Nat /\ n >= 2 /\ EntryPoint(r) = Hops[r][n] /\ EntryPoint(r) # NoNode
    BY RouteFacts, Zenon
  <2>4. get_endpoint_resolution_by_path_id(p.at, p.path) = {}
    BY <2>2, RouteFacts DEF get_endpoint_resolution_by_path_id, RoutePath
  <2>5. /\ get_resolution_by_received_path_id(p.at, p.path) = {}
        /\ get_resolution_by_generated_path_id(p.at, p.path) = {}
    <3>1. p.path[2] = 0 /\ p.path[1] = r
      BY <2>2
    <3>2. \A j \in HopRows(p.at, r) : j \in 2..(n - 1)
      BY HopMappings, Zenon
    <3>3. \A j \in HopRows(p.at, r) : 0 # j /\ 0 # j - 1
      BY <2>3, <3>2
    <3> QED
      BY <3>1, <3>3, Zenon
         DEF get_resolution_by_received_path_id, get_resolution_by_generated_path_id
  <2>6. p.dir = "pn_to_vn" /\ p.from = Node(p.sid) /\ p.at = EntryPoint(r)
    <3>1. SUFFICES ASSUME p.at # EntryPoint(r) PROVE FALSE
      BY <2>2, Zenon
    <3>2. get_endpoint_resolution_by_final_path_id(p.at, p.path) = {}
      BY <2>2, <3>1 DEF get_endpoint_resolution_by_final_path_id, FinalPath
    <3> QED
      BY <2>4, <2>5, <3>2, Zenon DEF _resolve_route_data_path
  <2>7. get_endpoint_resolution_by_final_path_id(p.at, p.path) \subseteq {r}
    BY <2>2 DEF get_endpoint_resolution_by_final_path_id, FinalPath
  <2>8. hop = [path |-> RoutePath(r), to |-> Previous(r),
               ingress |-> [ingress EXCEPT ![r][p.sid] = p.from]]
    <3>1. PICK e \in get_endpoint_resolution_by_final_path_id(p.at, p.path) :
            hop = [path |-> RoutePath(e), to |-> Previous(e),
                   ingress |-> [ingress EXCEPT ![e][p.sid] = p.from]]
      BY <2>4, <2>5, <2>6, Zenon DEF _resolve_route_data_path, _build_endpoint_ingress_key
    <3> QED
      BY <2>7, <3>1, Zenon
  <2>9. q.sid = p.sid /\ q.dir = "pn_to_vn" /\ q.from = Hops[r][(n - 1) + 1]
        /\ q.path = <<r, n - 1>> /\ q.at = Hops[r][n - 1]
    BY <2>3, <2>6, <2>8 DEF RouteData, RoutePath, Previous
  <2>10. PacketInv(q)
    <3>1. n - 1 \in 1..(n - 1)
      BY <2>3
    <3> QED
      BY <2>1, <2>9, <3>1, Zenon DEF PacketInv, OnLink
  <2>11. IngressOK(hop.ingress)
    <3>1. hop.ingress = [ingress EXCEPT ![r][p.sid] = Node(p.sid)]
      BY <2>6, <2>8, Zenon
    <3>2. p.sid \in Sids /\ Node(p.sid) \in Nodes
      BY <2>1, SessionFacts, Zenon DEF IInv
    <3>3. IngressOK(ingress)
      BY Zenon DEF IInv
    <3>4. Sessions \subseteq Sids
      BY Zenon DEF Sessions
    <3> QED
      BY <2>2, <3>1, <3>2, <3>3, <3>4 DEF IngressOK
  <2> QED
    BY <2>10, <2>11, Zenon
\* A packet inside a route goes on along the route, leaves it towards the
\* node the entry point remembers, or is delivered.
<1>AlongRoute. ASSUME NEW p \in packets, OnLink(p), NEW hop \in _resolve_route_data_path(p)
    PROVE  /\ PacketInv(RouteData(p.at, hop, p.dir, p.sid, p.key, p.body))
           /\ IngressOK(hop.ingress)
  <2> USE <1>AlongRoute
  <2> DEFINE q == RouteData(p.at, hop, p.dir, p.sid, p.key, p.body)
  <2>1. p.sid \in Sessions /\ IngressOK(ingress)
    BY Zenon DEF IInv, PacketInv
  <2>0. PICK r \in Routes : \E i \in 1..(Len(Hops[r]) - 1) :
          /\ p.path = <<r, i>>
          /\ \/ p.dir = "vn_to_pn" /\ p.from = Hops[r][i] /\ p.at = Hops[r][i + 1]
             \/ p.dir = "pn_to_vn" /\ p.from = Hops[r][i + 1] /\ p.at = Hops[r][i]
    BY Zenon DEF OnLink
  <2>2. PICK i \in 1..(Len(Hops[r]) - 1) :
          /\ p.path = <<r, i>>
          /\ \/ p.dir = "vn_to_pn" /\ p.from = Hops[r][i] /\ p.at = Hops[r][i + 1]
             \/ p.dir = "pn_to_vn" /\ p.from = Hops[r][i + 1] /\ p.at = Hops[r][i]
    BY <2>0, Zenon
  <2> DEFINE n == Len(Hops[r])
  <2>3. n \in Nat /\ n >= 2 /\ EntryPoint(r) = Hops[r][n] /\ EntryPoint(r) # NoNode
    BY RouteFacts, Zenon
  <2>4. Hops[r][i] # Hops[r][i + 1]
    BY RouteFacts, Zenon
  <2>5. p.path[1] = r /\ p.path[2] = i /\ i \in Nat /\ i >= 1 /\ i <= n - 1
    BY <2>2, <2>3
  <2>6. q.sid = p.sid /\ q.dir = p.dir /\ q.from = p.at /\ q.path = hop.path /\ q.at = hop.to
    BY Zenon DEF RouteData
  <2>7. get_endpoint_resolution_by_final_path_id(p.at, p.path) = {}
    BY <2>2, <2>5 DEF get_endpoint_resolution_by_final_path_id, FinalPath
  <2>8. \A e \in get_endpoint_resolution_by_path_id(p.at, p.path) :
          /\ e = r /\ i = n - 1 /\ p.at = Hops[r][n]
          /\ p.dir = "vn_to_pn" /\ p.from = Previous(r)
    <3>1. TAKE e \in get_endpoint_resolution_by_path_id(p.at, p.path)
    <3>2. EntryPoint(e) = p.at /\ <<r, i>> = <<e, Len(Hops[e]) - 1>>
      BY <2>2, Zenon DEF get_endpoint_resolution_by_path_id, RoutePath
    <3>3. e = r /\ i = n - 1 /\ p.at = Hops[r][n]
      BY <2>3, <3>2, Zenon
    <3>4. p.at # Hops[r][i]
      BY <2>3, <2>4, <2>5, <3>3
    <3> QED
      BY <2>2, <3>3, <3>4, Zenon DEF Previous
  <2>9. CASE hop.path = FinalPath(r) /\ hop.to = ingress[r][p.sid] /\ hop.to # NoNode
             /\ hop.ingress = ingress /\ p.dir = "vn_to_pn" /\ p.at = EntryPoint(r)
    <3>1. hop.to = Node(p.sid) /\ hop.to # EntryPoint(r)
      BY <2>1, <2>9, Zenon DEF IngressOK
    <3>2. Outside(q)
      BY <2>6, <2>9, <3>1, Zenon DEF Outside
    <3> QED
      BY <2>1, <2>6, <2>9, <3>2, Zenon DEF PacketInv
  <2>10. CASE /\ hop.ingress = ingress /\ p.dir = "vn_to_pn"
              /\ \E h \in get_resolution_by_received_path_id(p.at, p.path) :
                   hop.path = h.path /\ hop.to = h.to
    <3>1. PICK j \in 2..(n - 1) : /\ Hops[r][j] = p.at /\ i = j - 1
                                  /\ hop.path = <<r, j>> /\ hop.to = Hops[r][j + 1]
      <4>1. PICK j \in HopRows(p.at, r) :
              /\ i = j - 1 /\ hop.path = [path |-> <<r, j>>, to |-> Hops[r][j + 1]].path
              /\ hop.to = [path |-> <<r, j>>, to |-> Hops[r][j + 1]].to
        BY <2>5, <2>10, Zenon DEF get_resolution_by_received_path_id
      <4>2. hop.path = <<r, j>> /\ hop.to = Hops[r][j + 1]
        BY <4>1, Zenon
      <4>3. j \in 2..(n - 1) /\ Hops[r][j] = p.at
        BY HopMappings, Zenon
      <4> QED
        BY <4>1, <4>2, <4>3, Zenon
    <3>2. j \in 1..(n - 1)
      BY <2>3, <3>1
    <3>3. OnLink(q)
      BY <2>6, <2>10, <3>1, <3>2, Zenon DEF OnLink
    <3> QED
      BY <2>1, <2>6, <2>10, <3>3, Zenon DEF PacketInv
  <2>11. CASE /\ hop.ingress = ingress /\ p.dir = "pn_to_vn"
              /\ \E h \in get_resolution_by_generated_path_id(p.at, p.path) :
                   hop.path = h.path /\ hop.to = h.to
    <3>1. PICK j \in 2..(n - 1) : /\ Hops[r][j] = p.at /\ i = j
                                  /\ hop.path = <<r, j - 1>> /\ hop.to = Hops[r][j - 1]
      <4>1. PICK j \in HopRows(p.at, r) :
              /\ i = j /\ hop.path = [path |-> <<r, j - 1>>, to |-> Hops[r][j - 1]].path
              /\ hop.to = [path |-> <<r, j - 1>>, to |-> Hops[r][j - 1]].to
        BY <2>5, <2>11, Zenon DEF get_resolution_by_generated_path_id
      <4>2. hop.path = <<r, j - 1>> /\ hop.to = Hops[r][j - 1]
        BY <4>1, Zenon
      <4>3. j \in 2..(n - 1) /\ Hops[r][j] = p.at
        BY HopMappings, Zenon
      <4> QED
        BY <4>1, <4>2, <4>3, Zenon
    <3>2. j - 1 \in 1..(n - 1) /\ (j - 1) + 1 = j
      BY <2>3, <3>1
    <3>3. OnLink(q)
      BY <2>6, <2>11, <3>1, <3>2, Zenon DEF OnLink
    <3> QED
      BY <2>1, <2>6, <2>11, <3>3, Zenon DEF PacketInv
  <2>12. p.dir \in {"vn_to_pn", "pn_to_vn"}
    BY <2>2, Zenon
  <2>13. CASE get_endpoint_resolution_by_path_id(p.at, p.path) = {}
    BY <2>7, <2>10, <2>11, <2>12, <2>13 DEF _resolve_route_data_path
  <2>14. CASE get_endpoint_resolution_by_path_id(p.at, p.path) # {}
    <3>1. get_endpoint_resolution_by_path_id(p.at, p.path) = {r} /\ p.at = EntryPoint(r)
          /\ p.dir = "vn_to_pn" /\ p.from = Previous(r)
      BY <2>3, <2>8, <2>14, Zenon
    <3> QED
      BY <2>7, <2>9, <2>10, <3>1 DEF _resolve_route_data_path, _build_endpoint_ingress_key
  <2> QED
    BY <2>13, <2>14, Zenon
\* The reply to a packet delivered at a node goes back the way it came.
<1>ReplyGoesBack.
    ASSUME NEW p \in packets, IsLocal(p), NEW bound, NEW entry, p.at = Target => entry = NoNode,
           p.at # Target => /\ bound \in {<<>>, FinalPath(RouteOf(p.sid))} /\ entry = EntryPoint(RouteOf(p.sid)),
           NEW c \in _resolve_local_reply_context(p.at, p.path, bound, entry), NEW key, NEW body
    PROVE  PacketInv(RouteData(p.at, c, _opposite_route_direction(p.dir), p.sid, key, body))
  <2> USE <1>ReplyGoesBack
  <2> DEFINE q == RouteData(p.at, c, _opposite_route_direction(p.dir), p.sid, key, body)
  <2>1. p.sid \in Sessions /\ (OnLink(p) \/ Outside(p))
    BY Zenon DEF IInv, PacketInv
  <2>2. q.sid = p.sid /\ q.from = p.at /\ q.path = c.path /\ q.at = c.to
        /\ q.dir = _opposite_route_direction(p.dir)
    BY Zenon DEF RouteData
  <2>3. CASE OnLink(p)
    <3>0. PICK r \in Routes : \E i \in 1..(Len(Hops[r]) - 1) :
            /\ p.path = <<r, i>>
            /\ \/ p.dir = "vn_to_pn" /\ p.from = Hops[r][i] /\ p.at = Hops[r][i + 1]
               \/ p.dir = "pn_to_vn" /\ p.from = Hops[r][i + 1] /\ p.at = Hops[r][i]
      BY <2>3, Zenon DEF OnLink
    <3>1. PICK i \in 1..(Len(Hops[r]) - 1) :
            /\ p.path = <<r, i>>
            /\ \/ p.dir = "vn_to_pn" /\ p.from = Hops[r][i] /\ p.at = Hops[r][i + 1]
               \/ p.dir = "pn_to_vn" /\ p.from = Hops[r][i + 1] /\ p.at = Hops[r][i]
      BY <3>0, Zenon
    <3> DEFINE n == Len(Hops[r])
    <3>2. n \in Nat /\ n >= 2 /\ EntryPoint(r) = Hops[r][n]
          /\ Hops[r][i] # Hops[r][i + 1]
      BY RouteFacts, Zenon
    <3>3. i \in Nat /\ i >= 1 /\ i <= n - 1 /\ i \in 1..n /\ i + 1 \in 1..n
      BY <3>2
    <3>4. CASE get_initiator_resolution_by_initial_path_id(p.at, p.path) # {}
      <4>1. i = 1 /\ p.at = Hops[r][1] /\ c = [path |-> p.path, to |-> Hops[r][2]]
        <5>1. \A e \in get_initiator_resolution_by_initial_path_id(p.at, p.path) :
                e = r /\ i = 1 /\ p.at = Hops[r][1]
          BY <3>1 DEF get_initiator_resolution_by_initial_path_id, Host
        <5> QED
          BY <3>4, <5>1, Zenon DEF _resolve_local_reply_context
      <4>2. p.dir = "pn_to_vn"
        <5>1. p.at # Hops[r][i + 1]
          BY <3>2, <4>1, Zenon
        <5> QED
          BY <3>1, <5>1, Zenon
      <4>3. q.dir = "vn_to_pn" /\ q.from = Hops[r][i] /\ q.at = Hops[r][i + 1] /\ q.path = <<r, i>>
        BY <2>2, <3>1, <4>1, <4>2 DEF _opposite_route_direction
      <4> QED
        BY <2>1, <2>2, <4>3, Zenon DEF PacketInv, OnLink
    <3>5. CASE /\ get_initiator_resolution_by_initial_path_id(p.at, p.path) = {}
               /\ get_endpoint_resolution_by_path_id(p.at, p.path) # {}
      <4>1. i = n - 1 /\ p.at = Hops[r][n] /\ c = [path |-> p.path, to |-> Hops[r][n - 1]]
        <5>1. \A e \in get_endpoint_resolution_by_path_id(p.at, p.path) :
                e = r /\ i = n - 1 /\ p.at = EntryPoint(r)
          BY <3>1 DEF get_endpoint_resolution_by_path_id, RoutePath
        <5> QED
          BY <3>2, <3>5, <5>1, Zenon DEF _resolve_local_reply_context, Previous
      <4>2. p.dir = "vn_to_pn"
        <5>1. i + 1 = n
          BY <3>2, <4>1
        <5>2. p.at # Hops[r][i]
          BY <3>2, <4>1, <5>1, Zenon
        <5> QED
          BY <3>1, <5>2, Zenon
      <4>3. q.dir = "pn_to_vn" /\ q.from = Hops[r][i + 1] /\ q.at = Hops[r][i] /\ q.path = <<r, i>>
        BY <2>2, <3>1, <3>2, <4>1, <4>2, Zenon DEF _opposite_route_direction
      <4> QED
        BY <2>1, <2>2, <4>3, Zenon DEF PacketInv, OnLink
    <3>6. CASE /\ get_initiator_resolution_by_initial_path_id(p.at, p.path) = {}
               /\ get_endpoint_resolution_by_path_id(p.at, p.path) = {}
      <4>1. bound = p.path /\ entry # NoNode
        BY <3>6, Zenon DEF _resolve_local_reply_context
      <4>2. p.path = FinalPath(RouteOf(p.sid))
        BY <3>1, <4>1
      <4> QED
        BY <3>1, <3>3, <4>2 DEF FinalPath
    <3> QED
      BY <3>4, <3>5, <3>6, Zenon
  <2>4. CASE Outside(p)
    <3>1. PICK r \in Routes :
            /\ p.path = <<r, 0>> /\ Node(p.sid) # EntryPoint(r)
            /\ \/ p.dir = "vn_to_pn" /\ p.from = EntryPoint(r) /\ p.at = Node(p.sid)
               \/ p.dir = "pn_to_vn" /\ p.from = Node(p.sid) /\ p.at = EntryPoint(r)
      BY <2>4, Zenon DEF Outside, FinalPath
    <3>2. get_initiator_resolution_by_initial_path_id(p.at, p.path) = {}
      BY <3>1 DEF get_initiator_resolution_by_initial_path_id
    <3>3. get_endpoint_resolution_by_path_id(p.at, p.path) = {}
      BY <3>1, RouteFacts DEF get_endpoint_resolution_by_path_id, RoutePath
    <3>4. bound = p.path /\ entry # NoNode /\ c = [path |-> p.path, to |-> entry]
      BY <3>2, <3>3, Zenon DEF _resolve_local_reply_context
    <3>5. RouteOf(p.sid) = r /\ entry = EntryPoint(r)
      <4>1. <<r, 0>> = FinalPath(RouteOf(p.sid)) /\ entry = EntryPoint(RouteOf(p.sid))
        BY <3>1, <3>4
      <4> QED
        BY <4>1, Zenon DEF FinalPath
    <3>6. p.dir = "vn_to_pn" /\ p.at = Node(p.sid)
      <4>1. SUFFICES ASSUME p.dir = "pn_to_vn", p.from = Node(p.sid), p.at = EntryPoint(r)
                     PROVE  FALSE
        BY <3>1, Zenon
      <4>2. EndpointRow(r) \in rows
        BY RouteFacts DEF IInv, RowsInv, EndpointRow
      <4>3. r \in get_endpoint_resolution_by_final_path_id(p.at, p.path)
        BY <3>1, <4>1, <4>2, Zenon DEF get_endpoint_resolution_by_final_path_id, FinalPath
      <4>4. [path |-> RoutePath(r), to |-> Previous(r),
             ingress |-> [ingress EXCEPT ![r][_build_endpoint_ingress_key(r, p.sid)] = p.from]]
              \in _resolve_route_data_path(p)
        BY <4>1, <4>3, Zenon DEF _resolve_route_data_path
      <4> QED
        BY <4>4, Zenon DEF IsLocal
    <3>7. q.dir = "pn_to_vn" /\ q.from = Node(q.sid) /\ q.at = EntryPoint(r)
          /\ q.path = FinalPath(r) /\ q.sid = p.sid
      BY <2>2, <3>1, <3>4, <3>5, <3>6, Zenon DEF _opposite_route_direction, FinalPath
    <3> QED
      BY <2>1, <3>1, <3>7, Zenon DEF PacketInv, Outside
  <2> QED
    BY <2>1, <2>3, <2>4, Zenon
\* A step that leaves routes and sessions alone.
<1>Quiet. ASSUME UNCHANGED <<routeVars, sessionVars>>
    PROVE  IInv'
  <2> USE <1>Quiet
  <2> USE DEF routeVars, sessionVars
  <2>1. setup' \in Scenarios /\ RowsInv'
    BY Zenon DEF IInv, RowsInv
  <2>2. (IngressOK(ingress))'
    BY Zenon DEF IInv, IngressOK, Sessions, Callers, Entries, Node
  <2>3. CallerInv' /\ SessInv'
    BY Zenon DEF IInv, CallerInv, SessInv, SideOK, Sessions, Callers, Entries, RouteOf
  <2>4. (\A p \in packets : PacketInv(p))'
    BY Zenon DEF IInv, PacketInv, OnLink, Outside, Sessions, Callers, Entries, Node
  <2> QED
    BY <2>1, <2>2, <2>3, <2>4, Zenon DEF IInv
\* A step that leaves the routes alone and sends packets.
<1>Sends.
    ASSUME UNCHANGED <<rows, ingress, setup>>, CallerInv', SessInv',
           \A q \in packets' : q \in packets \/ PacketInv(q)
    PROVE  IInv'
  <2> USE <1>Sends
  <2>1. setup' \in Scenarios /\ RowsInv'
    BY Zenon DEF IInv, RowsInv
  <2>2. (IngressOK(ingress))'
    BY Zenon DEF IInv, IngressOK, Sessions, Callers, Entries, Node
  <2>3. \A q \in packets' : PacketInv(q)
    BY Zenon DEF IInv
  <2>4. (\A p \in packets : PacketInv(p))'
    BY <2>3, Zenon DEF PacketInv, OnLink, Outside, Sessions, Callers, Entries, Node
  <2> QED
    BY <2>1, <2>2, <2>4, Zenon DEF IInv
<1>CallerKept. ASSUME CallerInv, UNCHANGED <<setup, caller>>
    PROVE  CallerInv'
  BY <1>CallerKept, Zenon DEF CallerInv, Sessions, Callers, Entries
<1>SessKept. ASSUME SessInv, UNCHANGED <<setup, sess>>
    PROVE  SessInv'
  BY <1>SessKept, Zenon DEF SessInv, SideOK, Sessions, Callers, Entries, RouteOf
\* One caller moves on.
<1>CallerMoves.
    ASSUME CallerInv, UNCHANGED setup, NEW v \in Callers, NEW pc, NEW attempt, NEW sid,
           SetCaller(v, pc, attempt, sid), pc = "trying" => attempt \in Nat \ {0},
           pc \in {"waiting", "returned", "closing"} => sid \in Sessions
    PROVE  CallerInv'
  BY <1>CallerMoves, Zenon DEF CallerInv, SetCaller, Sessions, Callers, Entries
\* The caller's side of one session changes, or the target's side.
<1>CallerSideSet.
    ASSUME SessInv, UNCHANGED setup, NEW s \in Sids, NEW x, SideOK(x, s),
           sess' = [sess EXCEPT ![s]["c"] = x]
    PROVE  SessInv'
  <2> USE <1>CallerSideSet
  <2>1. DOMAIN sess' = Sids /\ \A t \in Sids : DOMAIN sess'[t] = {"c", "t"}
    BY Zenon DEF SessInv
  <2>2. \A t \in Sids : sess'[t]["c"] = IF t = s THEN x ELSE sess[t]["c"]
    BY Zenon DEF SessInv
  <2>3. \A t \in Sids : SideOK(sess'[t]["c"], t)
    BY <2>2, Zenon DEF SessInv
  <2>4. Sessions' = Sessions /\ \A t : RouteOf(t)' = RouteOf(t)
    BY Zenon DEF Sessions, Callers, Entries, RouteOf
  <2> QED
    BY <2>1, <2>3, <2>4, Zenon DEF SessInv, SideOK
<1>TargetSideSet.
    ASSUME SessInv, UNCHANGED setup, NEW s \in Sids, NEW x, sess' = [sess EXCEPT ![s]["t"] = x]
    PROVE  SessInv'
  <2> USE <1>TargetSideSet
  <2>1. DOMAIN sess' = Sids /\ \A t \in Sids : DOMAIN sess'[t] = {"c", "t"}
    BY Zenon DEF SessInv
  <2>2. \A t \in Sids : sess'[t]["c"] = sess[t]["c"]
    BY Zenon DEF SessInv
  <2>3. \A t \in Sids : SideOK(sess'[t]["c"], t)
    BY <2>2, Zenon DEF SessInv
  <2>4. Sessions' = Sessions /\ \A t : RouteOf(t)' = RouteOf(t)
    BY Zenon DEF Sessions, Callers, Entries, RouteOf
  <2> QED
    BY <2>1, <2>3, <2>4, Zenon DEF SessInv, SideOK
\* A caller's session is closed.
<1>CallerSideClosed.
    ASSUME SessInv, UNCHANGED setup, NEW s \in Sids,
           sess' = [sess EXCEPT ![s]["c"].state = "closed"]
    PROVE  SessInv'
  <2> USE <1>CallerSideClosed
  <2> DEFINE x == [sess[s]["c"] EXCEPT !.state = "closed"]
  <2>1. SideOK(x, s)
    BY Zenon DEF SessInv, SideOK
  <2>2. sess' = [sess EXCEPT ![s]["c"] = x]
    BY Zenon
  <2>3. PICK y : SideOK(y, s) /\ sess' = [sess EXCEPT ![s]["c"] = y]
    BY <2>1, <2>2, Zenon
  <2> QED
    BY <2>3, <1>CallerSideSet, Zenon
\* Outside the target no handler changes what a session is bound to.
<1>HandlersKeepBound.
    ASSUME NEW n, n # Target, NEW s, NEW p, NEW sid, SideOK(s, sid),
           p.body.type \in SessionMessages, NEW o \in HandleSessionMessage(n, s, p)
    PROVE  SideOK(o.side, sid)
  <2> USE <1>HandlersKeepBound
  <2> USE DEF Outcome
  <2>1. CASE p.body.type = "INIT"
    BY <2>1, Zenon DEF HandleSessionMessage, _handle_virtual_session_init
  <2>2. CASE p.body.type = "INIT_OK"
    <3>1. o \in _handle_virtual_session_init_ok(s, p)
      BY <2>2, Zenon DEF HandleSessionMessage
    <3>2. o.side = [s EXCEPT !.secret = <<p.body.val[1], s.eph + 1>>, !.eph = s.eph + 1,
                             !.state = "pending"]
      BY <3>1 DEF _handle_virtual_session_init_ok
    <3> QED
      BY <3>2, Zenon DEF SideOK
  <2>3. CASE p.body.type = "KEY_CONFIRM"
    <3>1. o \in _handle_virtual_session_key_confirm(s, p)
      BY <2>3, Zenon DEF HandleSessionMessage
    <3> DEFINE secret == IF p.body.val[1] = s.eph THEN p.body.val
                         ELSE <<p.body.val[1], p.body.val[2], s.eph>>
    <3>2. o.side = [s EXCEPT !.secret = secret, !.state = "active"]
      BY <3>1 DEF _handle_virtual_session_key_confirm
    <3> HIDE DEF secret
    <3> QED
      BY <3>2, Zenon DEF SideOK
  <2>4. CASE p.body.type = "READY"
    BY <2>4 DEF HandleSessionMessage, _handle_virtual_session_ready, SideOK
  <2>5. CASE p.body.type = "KEEPALIVE"
    BY <2>5 DEF HandleSessionMessage, _handle_virtual_session_keepalive, SideOK
  <2>6. CASE p.body.type = "KEEPALIVE_ACK"
    BY <2>6 DEF HandleSessionMessage, _handle_virtual_session_keepalive_ack, SideOK
  <2>7. CASE p.body.type = "CLOSE"
    BY <2>7 DEF HandleSessionMessage, _handle_virtual_session_close, SideOK
  <2> QED
    BY <2>1, <2>2, <2>3, <2>4, <2>5, <2>6, <2>7, Zenon DEF SessionMessages
\* What the handler at p.at leaves is applied, and its reply sent back.
<1>Delivered.
    ASSUME NEW p \in packets, IsLocal(p), NEW rest, rest \subseteq packets, NEW o,
           p.at # Target => SideOK(o.side, p.sid), _deliver_local_route_data(p, o, rest)
    PROVE  IInv'
  <2> USE <1>Delivered
  <2> DEFINE entry == IF p.at = Target THEN NoNode ELSE EntryPoint(RouteOf(p.sid))
             contexts == _resolve_local_reply_context(p.at, p.path, o.side.bound, entry)
             key == IF p.key = NoKey THEN NoKey ELSE o.side.secret
             reply(c) == RouteData(p.at, c, _opposite_route_direction(p.dir), p.sid, key, o.reply)
  <2>1. p.sid \in Sessions /\ p.sid \in Sids
    BY Zenon DEF IInv, PacketInv, Sessions
  <2>2. \A q \in packets' : q \in packets \/ \E c \in contexts : q = reply(c)
    BY Zenon DEF _deliver_local_route_data
  <2>3. UNCHANGED <<rows, ingress, setup, caller>>
        /\ sess' = [sess EXCEPT ![p.sid][SideAt(p.at, p.sid)] = o.side]
    BY Zenon DEF _deliver_local_route_data
  <2>4. CallerInv'
    BY <2>3, <1>CallerKept, Zenon DEF IInv
  <2>5. SessInv'
    <3>1. PICK x : x = o.side
      BY Zenon
    <3>2. SessInv /\ UNCHANGED setup
      BY <2>3, Zenon DEF IInv
    <3>3. CASE p.at = Target
      <4>1. sess' = [sess EXCEPT ![p.sid]["t"] = x]
        BY <2>3, <3>1, <3>3, Zenon DEF SideAt
      <4> QED
        BY <2>1, <3>2, <4>1, <1>TargetSideSet, Zenon
    <3>4. CASE p.at # Target
      <4>1. sess' = [sess EXCEPT ![p.sid]["c"] = x] /\ SideOK(x, p.sid)
        BY <2>3, <3>1, <3>4, Zenon DEF SideAt
      <4> QED
        BY <2>1, <3>2, <4>1, <1>CallerSideSet, Zenon
    <3> QED
      BY <3>3, <3>4, Zenon
  <2>6. ASSUME NEW c \in contexts PROVE PacketInv(reply(c))
    <3>1. p.at = Target => entry = NoNode
      BY Zenon
    <3>2. p.at # Target => /\ o.side.bound \in {<<>>, FinalPath(RouteOf(p.sid))}
                           /\ entry = EntryPoint(RouteOf(p.sid))
      BY <2>1, Zenon DEF SideOK
    <3> HIDE DEF entry, key
    <3> QED
      BY <2>6, <3>1, <3>2, <1>ReplyGoesBack, Zenon
  <2>7. \A q \in packets' : q \in packets \/ PacketInv(q)
    BY <2>2, <2>6, Zenon
  <2> QED
    BY <2>3, <2>4, <2>5, <2>7, <1>Sends, Zenon
\* What a node knows of its session.
<1>SessionAtOK. ASSUME NEW n, n # Target, NEW s \in Sids
    PROVE  SideOK(SessionAt(n, s), s)
  <2> USE <1>SessionAtOK
  <2>1. SideOK(NoSide, s)
    BY Zenon DEF SideOK, NoSide
  <2>2. SideOK(sess[s]["c"], s)
    BY Zenon DEF IInv, SessInv
  <2> QED
    BY <2>1, <2>2, Zenon DEF SessionAt, SideAt
\* A message over an active session, from either side.
<1>EnvelopeSent.
    ASSUME NEW s \in Sessions, NEW n \in {Node(s), Target}, NEW type,
           NEW q \in _send_virtual_envelope(n, s, type, packets)
    PROVE  q \in packets \/ PacketInv(q)
  <2> DEFINE side == SessionAt(n, s)
  <2>1. CASE n = Target
    <3>1. q \in packets \/ \E h \in send_from_local_route(Target, side.bound) :
            q = RouteData(Target, h, "vn_to_pn", s, side.secret, Body(type, <<>>))
      BY <2>1, Zenon DEF _send_virtual_envelope
    <3> HIDE DEF side
    <3> QED
      BY <3>1, <1>TargetSends, Zenon
  <2>2. CASE n # Target
    <3>1. n = Node(s)
      BY <2>2, Zenon
    <3>2. q \in packets \/ q = RouteData(Node(s), send_to_entry_point(Node(s), RouteOf(s)),
                                         "pn_to_vn", s, side.secret, Body(type, <<>>))
      BY <2>2, <3>1, Zenon DEF _send_virtual_envelope
    <3> HIDE DEF side
    <3> QED
      BY <3>2, <1>CallerSends, Zenon
  <2> QED
    BY <2>1, <2>2, Zenon
\* The loop goes on with the entry point after that of session s.
<1>NextAttempt. ASSUME setup \in Scenarios, NEW s \in Sessions
    PROVE  s[2] + 1 \in Nat \ {0}
  <2> USE <1>NextAttempt
  <2>1. s[1] \in Callers /\ s[2] \in 1..Len(Entries(s[1]))
    BY Zenon DEF Sessions
  <2>2. Entries(s[1]) \in Seq(Routes)
    BY <2>1, ScenariosAssumption, Zenon DEF Callers, Entries
  <2>3. Len(Entries(s[1])) \in Nat
    BY <2>2
  <2> QED
    BY <2>1, <2>3
<1>HandleKeeps. ASSUME NEW p \in packets, handle(p)
    PROVE  IInv'
  <2> USE <1>HandleKeeps
  <2>1. PICK rest \in Rests(p) :
          \/ forward_message(p, rest) /\ UNCHANGED <<setup, sess, caller, sent, contentVars>>
          \/ DeliverLocal(p, rest)
    BY Zenon DEF handle
  <2>2. rest \subseteq packets
    BY Zenon DEF Rests
  <2>3. p.sid \in Sessions /\ p.sid \in Sids /\ (OnLink(p) \/ Outside(p))
    BY Zenon DEF IInv, PacketInv, Sessions
  <2>4. CASE forward_message(p, rest) /\ UNCHANGED <<setup, sess, caller, sent, contentVars>>
    <3>1. PICK hop \in _resolve_route_data_path(p) :
            /\ packets' = rest \cup {RouteData(p.at, hop, p.dir, p.sid, p.key, p.body)}
            /\ ingress' = hop.ingress
            /\ UNCHANGED rows
      BY <2>4, Zenon DEF forward_message
    <3>2. /\ PacketInv(RouteData(p.at, hop, p.dir, p.sid, p.key, p.body))
          /\ IngressOK(hop.ingress)
      BY <2>3, <1>EnterRoute, <1>AlongRoute, Zenon
    <3>3. setup' \in Scenarios /\ RowsInv'
      BY <2>4, <3>1, Zenon DEF IInv, RowsInv
    <3>4. CallerInv' /\ SessInv'
      BY <2>4, <1>CallerKept, <1>SessKept, Zenon DEF IInv
    <3>5. IngressOK(ingress')
      BY <3>1, <3>2, Zenon
    <3>6. (IngressOK(ingress))'
      BY <2>4, <3>5, Zenon DEF IngressOK, Sessions, Callers, Entries, Node
    <3>7. \A q \in packets' : PacketInv(q)
      BY <2>2, <3>1, <3>2, Zenon DEF IInv
    <3>8. (\A q \in packets : PacketInv(q))'
      BY <2>4, <3>7, Zenon DEF PacketInv, OnLink, Outside, Sessions, Callers, Entries, Node
    <3> QED
      BY <3>3, <3>4, <3>6, <3>8, Zenon DEF IInv
  <2>5. CASE DeliverLocal(p, rest)
    <3>1. IsLocal(p)
      BY <2>5, Zenon DEF DeliverLocal
    <3>2. CASE DispatchSession(p, rest)
      <4>1. PICK o \in HandleSessionMessage(p.at, SessionAt(p.at, p.sid), p) :
              _deliver_local_route_data(p, o, rest)
        BY <3>2, Zenon DEF DispatchSession
      <4>2. p.body.type \in SessionMessages
        BY <3>2, Zenon DEF DispatchSession
      <4>3. ASSUME p.at # Target PROVE SideOK(o.side, p.sid)
        <5>1. SideOK(SessionAt(p.at, p.sid), p.sid)
          BY <2>3, <4>3, <1>SessionAtOK, Zenon
        <5> QED
          BY <4>2, <4>3, <5>1, <1>HandlersKeepBound, Zenon
      <4> QED
        BY <2>2, <3>1, <4>1, <4>3, <1>Delivered, Zenon
    <3>3. CASE DispatchContent(p, rest)
      <4>1. PICK o \in HandleContentMessage(SessionAt(p.at, p.sid), p, Download(p.at, p.sid)) :
              _deliver_local_route_data(p, o, rest)
        BY <3>3, Zenon DEF DispatchContent
      <4>2. o.side = SessionAt(p.at, p.sid)
        BY ContentKeepsSide, Zenon
      <4>3. p.at # Target => SideOK(o.side, p.sid)
        BY <2>3, <4>2, <1>SessionAtOK, Zenon
      <4> QED
        BY <2>2, <3>1, <4>1, <4>3, <1>Delivered, Zenon
    <3>4. CASE packets' = rest /\ UNCHANGED <<rows, ingress, setup, sess, caller, sent, contentVars>>
      BY <2>2, <3>4, <1>CallerKept, <1>SessKept, <1>Sends, Zenon DEF IInv
    <3> QED
      BY <2>5, <3>2, <3>3, <3>4, Zenon DEF DeliverLocal
  <2> QED
    BY <2>1, <2>4, <2>5, Zenon
<1>LoseKeeps. ASSUME NEW p \in packets, Lose(p)
    PROVE  IInv'
  <2> USE <1>LoseKeeps
  <2>1. UNCHANGED <<rows, ingress, setup, sess, caller>> /\ packets' \subseteq packets
    BY Zenon DEF Lose
  <2> QED
    BY <2>1, <1>CallerKept, <1>SessKept, <1>Sends, Zenon DEF IInv
\* The steps of start_session_to_virtual_node at caller v.
<1>StartKeeps.
    ASSUME NEW v \in Callers,
           start_session_to_virtual_node(v) \/ _ensure_entry_point_physical_node(v)
    PROVE  IInv'
  <2> USE <1>StartKeeps
  <2>1. UNCHANGED <<rows, ingress, packets, setup, sess>>
    BY Zenon DEF start_session_to_virtual_node, _ensure_entry_point_physical_node, routeVars
  <2>2. CallerInv'
    <3>1. CASE start_session_to_virtual_node(v)
      <4>1. SetCaller(v, "trying", 1, <<>>) \/ SetCaller(v, "raised", 0, <<>>)
        BY <3>1, Zenon DEF start_session_to_virtual_node
      <4> QED
        BY <2>1, <4>1, <1>CallerMoves DEF IInv
    <3>2. CASE _ensure_entry_point_physical_node(v)
      <4>1. PICK k : k = caller[v].attempt
        BY Zenon
      <4>2. SetCaller(v, "trying", k + 1, <<>>) /\ caller[v].pc = "trying"
        BY <3>2, <4>1, Zenon DEF _ensure_entry_point_physical_node
      <4>3. k + 1 \in Nat \ {0}
        BY <4>1, <4>2 DEF IInv, CallerInv
      <4> QED
        BY <2>1, <4>2, <4>3, <1>CallerMoves, Zenon DEF IInv
    <3> QED
      BY <3>1, <3>2, Zenon
  <2> QED
    BY <2>1, <2>2, <1>SessKept, <1>Sends, Zenon DEF IInv
<1>OverEntryPointKeeps. ASSUME NEW v \in Callers, _start_session_over_entry_point(v)
    PROVE  IInv'
  <2> USE <1>OverEntryPointKeeps
  <2> DEFINE pending(s) == [NoSide EXCEPT !.state = "pending", !.bound = FinalPath(RouteOf(s))]
             init(s) == RouteData(Node(s), send_to_entry_point(Node(s), RouteOf(s)), "pn_to_vn",
                                  s, NoKey, Body("INIT", <<>>))
  <2>1. PICK k : k = caller[v].attempt
    BY Zenon
  <2>2. PICK s : s = <<v, k>>
    BY Zenon
  <2>3. /\ UNCHANGED <<rows, ingress, setup>> /\ caller[v].pc = "trying"
        /\ \/ /\ SetCaller(v, "raised", k, <<>>)
              /\ UNCHANGED <<sess, packets>>
           \/ /\ \E a \in _get_active_virtual_session(v) : SetCaller(v, "returned", k, a)
              /\ UNCHANGED <<sess, packets>>
           \/ /\ k <= Len(Entries(v))
              /\ SetCaller(v, "trying", k + 1, <<>>)
              /\ sess' = [sess EXCEPT ![s]["c"] = [pending(s) EXCEPT !.state = "closed"]]
              /\ UNCHANGED packets
           \/ /\ k <= Len(Entries(v))
              /\ SetCaller(v, "waiting", k, s)
              /\ sess' = [sess EXCEPT ![s]["c"] = pending(s)]
              /\ packets' = packets \cup {init(s)}
    BY <2>1, <2>2, Zenon DEF _start_session_over_entry_point
  <2>4. k \in Nat \ {0} /\ k + 1 \in Nat \ {0}
    BY <2>1, <2>3 DEF IInv, CallerInv
  <2>5. k <= Len(Entries(v)) => s \in Sessions /\ s \in Sids
    BY <2>2, <2>4, AttemptIsSession, Zenon DEF IInv, Sessions
  <2>6. CallerInv /\ SessInv /\ UNCHANGED setup
    BY <2>3, Zenon DEF IInv
  <2>7. CASE SetCaller(v, "raised", k, <<>>) /\ UNCHANGED <<sess, packets>>
    <3>1. CallerInv'
      BY <2>6, <2>7, <1>CallerMoves, Zenon
    <3> QED
      BY <2>3, <2>6, <2>7, <3>1, <1>SessKept, <1>Sends, Zenon
  <2>8. CASE /\ \E a \in _get_active_virtual_session(v) : SetCaller(v, "returned", k, a)
             /\ UNCHANGED <<sess, packets>>
    <3>1. PICK a \in Sessions : SetCaller(v, "returned", k, a)
      BY <2>8, Zenon DEF _get_active_virtual_session
    <3>2. CallerInv'
      BY <2>6, <3>1, <1>CallerMoves, Zenon
    <3> QED
      BY <2>3, <2>6, <2>8, <3>2, <1>SessKept, <1>Sends, Zenon
  <2>9. CASE /\ k <= Len(Entries(v))
             /\ SetCaller(v, "trying", k + 1, <<>>)
             /\ sess' = [sess EXCEPT ![s]["c"] = [pending(s) EXCEPT !.state = "closed"]]
             /\ UNCHANGED packets
    <3>1. CallerInv'
      BY <2>4, <2>6, <2>9, <1>CallerMoves, Zenon
    <3>2. PICK x : x = [pending(s) EXCEPT !.state = "closed"]
      BY Zenon
    <3>3. SideOK(x, s)
      BY <3>2, Zenon DEF SideOK, NoSide
    <3>4. sess' = [sess EXCEPT ![s]["c"] = x]
      BY <2>9, <3>2, Zenon
    <3>5. SessInv'
      BY <2>5, <2>6, <2>9, <3>3, <3>4, <1>CallerSideSet, Zenon
    <3> QED
      BY <2>3, <2>9, <3>1, <3>5, <1>Sends, Zenon
  <2>10. CASE /\ k <= Len(Entries(v))
              /\ SetCaller(v, "waiting", k, s)
              /\ sess' = [sess EXCEPT ![s]["c"] = pending(s)]
              /\ packets' = packets \cup {init(s)}
    <3>1. CallerInv'
      BY <2>5, <2>6, <2>10, <1>CallerMoves, Zenon
    <3>2. PICK x : x = pending(s)
      BY Zenon
    <3>3. SideOK(x, s)
      BY <3>2, Zenon DEF SideOK, NoSide
    <3>4. sess' = [sess EXCEPT ![s]["c"] = x]
      BY <2>10, <3>2, Zenon
    <3>5. SessInv'
      BY <2>5, <2>6, <2>10, <3>3, <3>4, <1>CallerSideSet, Zenon
    <3>6. PacketInv(init(s))
      BY <2>5, <2>10, <1>CallerSends, Zenon
    <3> HIDE DEF init
    <3> QED
      BY <2>3, <2>10, <3>1, <3>5, <3>6, <1>Sends, Zenon
  <2> HIDE DEF init, pending
  <2> QED
    BY <2>3, <2>7, <2>8, <2>9, <2>10, Zenon
<1>WaitKeeps. ASSUME NEW v \in Callers, _wait_for_activation(v)
    PROVE  IInv'
  <2> USE <1>WaitKeeps
  <2>1. PICK s : s = caller[v].sid
    BY Zenon
  <2>2. /\ caller[v].pc = "waiting" /\ UNCHANGED <<rows, ingress, packets, setup>>
        /\ \/ SetCaller(v, "returned", s[2], s) /\ UNCHANGED sess
           \/ /\ SetCaller(v, "trying", s[2] + 1, <<>>)
              /\ UNCHANGED sess \/ sess' = [sess EXCEPT ![s]["c"].state = "closed"]
    BY <2>1, Zenon DEF _wait_for_activation, routeVars
  <2>3. s \in Sessions /\ s \in Sids /\ s[2] + 1 \in Nat \ {0}
    BY <2>1, <2>2, <1>NextAttempt, Zenon DEF IInv, CallerInv, Sessions
  <2>4. CallerInv /\ SessInv /\ UNCHANGED setup
    BY <2>2, Zenon DEF IInv
  <2>5. CallerInv'
    BY <2>2, <2>3, <2>4, <1>CallerMoves, Zenon
  <2>6. SessInv'
    BY <2>2, <2>3, <2>4, <1>SessKept, <1>CallerSideClosed, Zenon
  <2> QED
    BY <2>2, <2>5, <2>6, <1>Sends, Zenon
\* The API of the caller closes its session in two steps.
<1>CloseKeeps. ASSUME NEW v \in Callers, close_session(v) \/ close_virtual_session(v)
    PROVE  IInv'
  <2> USE <1>CloseKeeps
  <2>1. PICK s : s = caller[v].sid
    BY Zenon
  <2>2. CallerInv /\ SessInv
    BY Zenon DEF IInv
  <2>3. CASE close_session(v)
    <3>1. /\ caller[v].pc = "returned" /\ UNCHANGED <<rows, ingress, setup, sess>>
          /\ SetCaller(v, "closing", s[2], s)
          /\ packets' = _send_virtual_envelope(Node(s), s, "CLOSE", packets)
      BY <2>1, <2>3, Zenon DEF close_session
    <3>2. s \in Sessions
      BY <2>1, <2>2, <3>1, Zenon DEF CallerInv
    <3>3. CallerInv'
      BY <2>2, <3>1, <3>2, <1>CallerMoves, Zenon
    <3>4. \A q \in packets' : q \in packets \/ PacketInv(q)
      BY <3>1, <3>2, <1>EnvelopeSent, Zenon
    <3> QED
      BY <2>2, <3>1, <3>3, <3>4, <1>SessKept, <1>Sends, Zenon
  <2>4. CASE close_virtual_session(v)
    <3>1. /\ caller[v].pc = "closing" /\ UNCHANGED <<rows, ingress, packets, setup>>
          /\ SetCaller(v, "closed", s[2], s)
          /\ sess' = [sess EXCEPT ![s]["c"].state = "closed"]
      BY <2>1, <2>4, Zenon DEF close_virtual_session, routeVars
    <3>2. s \in Sids
      BY <2>1, <2>2, <3>1, Zenon DEF CallerInv, Sessions
    <3>3. CallerInv'
      BY <2>2, <3>1, <1>CallerMoves, Zenon
    <3>4. SessInv'
      <4>1. UNCHANGED setup /\ sess' = [sess EXCEPT ![s]["c"].state = "closed"]
        BY <3>1, Zenon
      <4> QED
        BY <2>2, <3>2, <4>1, <1>CallerSideClosed, Zenon
    <3> QED
      BY <3>1, <3>3, <3>4, <1>Sends, Zenon
  <2> QED
    BY <2>3, <2>4, Zenon
\* Requests and keepalives over an active session.
<1>RequestKeeps. ASSUME NEW v \in Callers, start_content_download(v)
    PROVE  IInv'
  <2> USE <1>RequestKeeps
  <2>1. PICK s : s = caller[v].sid
    BY Zenon
  <2>2. /\ caller[v].pc = "returned" /\ UNCHANGED <<rows, ingress, setup, sess, caller>>
        /\ packets' = _send_virtual_envelope(Node(s), s, "INFO_REQUEST", packets)
    BY <2>1, Zenon DEF start_content_download, sessionVars
  <2>3. s \in Sessions
    BY <2>1, <2>2, Zenon DEF IInv, CallerInv
  <2>4. \A q \in packets' : q \in packets \/ PacketInv(q)
    BY <2>2, <2>3, <1>EnvelopeSent, Zenon
  <2> QED
    BY <2>2, <2>4, <1>CallerKept, <1>SessKept, <1>Sends, Zenon DEF IInv
<1>KeepaliveKeeps. ASSUME NEW s \in Sessions, NEW n \in {Node(s), Target}, send_keepalive(n, s)
    PROVE  IInv'
  <2> USE <1>KeepaliveKeeps
  <2>1. /\ UNCHANGED <<rows, ingress, setup, sess, caller>>
        /\ packets' = _send_virtual_envelope(n, s, "KEEPALIVE", packets)
    BY Zenon DEF send_keepalive
  <2>2. \A q \in packets' : q \in packets \/ PacketInv(q)
    BY <2>1, <1>EnvelopeSent, Zenon
  <2> QED
    BY <2>1, <2>2, <1>CallerKept, <1>SessKept, <1>Sends, Zenon DEF IInv
\* A restart forgets the ingress of every session at the node.
<1>RestartKeeps. ASSUME NEW n \in Nodes, Restart(n)
    PROVE  IInv'
  <2> USE <1>RestartKeeps
  <2>1. /\ ingress' = [r \in Routes |-> IF EntryPoint(r) = n THEN [s \in Sids |-> NoNode]
                                        ELSE ingress[r]]
        /\ packets' \subseteq packets
        /\ UNCHANGED <<rows, setup, sess, caller>>
    BY Zenon DEF Restart, RestartNode
  <2>2. Sessions \subseteq Sids
    BY Zenon DEF Sessions
  <2>3. IngressOK(ingress')
    BY <2>1, <2>2, RouteFacts, Zenon DEF IInv, IngressOK
  <2>4. (IngressOK(ingress))'
    BY <2>1, <2>3, Zenon DEF IngressOK, Sessions, Callers, Entries, Node
  <2>5. setup' \in Scenarios /\ RowsInv'
    BY <2>1, Zenon DEF IInv, RowsInv
  <2>6. CallerInv' /\ SessInv'
    BY <2>1, <1>CallerKept, <1>SessKept, Zenon DEF IInv
  <2>7. (\A p \in packets : PacketInv(p))'
    BY <2>1, Zenon DEF IInv, PacketInv, OnLink, Outside, Sessions, Callers, Entries, Node
  <2> QED
    BY <2>4, <2>5, <2>6, <2>7, Zenon DEF IInv
\* The host gives up the row of the first hop only; those of the others stay.
<1>InvalidateKeeps. ASSUME NEW r \in Routes, Invalidate(r)
    PROVE  IInv'
  <2> USE <1>InvalidateKeeps
  <2>1. rows' = rows \ {<<r, 1>>} /\ UNCHANGED <<ingress, packets, setup, sess, caller>>
    BY Zenon DEF Invalidate, InvalidateRoute
  <2>2. \A i \in 2..Len(Hops[r]) : i # 1
    BY RouteFacts
  <2>3. RowsInv'
    BY <2>1, <2>2, Zenon DEF IInv, RowsInv
  <2>4. (IngressOK(ingress))'
    BY <2>1, Zenon DEF IInv, IngressOK, Sessions, Callers, Entries, Node
  <2>5. setup' \in Scenarios /\ CallerInv' /\ SessInv'
    BY <2>1, <1>CallerKept, <1>SessKept, Zenon DEF IInv
  <2>6. (\A p \in packets : PacketInv(p))'
    BY <2>1, Zenon DEF IInv, PacketInv, OnLink, Outside, Sessions, Callers, Entries, Node
  <2> QED
    BY <2>3, <2>4, <2>5, <2>6, Zenon DEF IInv
<1>1. ASSUME NEW p \in packets, handle(p) PROVE IInv'
  BY <1>1, <1>HandleKeeps, Zenon
<1>2. ASSUME NEW p \in packets, Lose(p) PROVE IInv'
  BY <1>2, <1>LoseKeeps, Zenon
<1>3. ASSUME NEW v \in Callers,
             \/ start_session_to_virtual_node(v) \/ CallerSteps(v) \/ close_session(v)
             \/ start_content_download(v)
      PROVE  IInv'
  BY <1>3, <1>StartKeeps, <1>OverEntryPointKeeps, <1>WaitKeeps, <1>CloseKeeps, <1>RequestKeeps, Zenon DEF CallerSteps
<1>4. ASSUME NEW s \in Sessions, NEW n \in {Node(s), Target}, send_keepalive(n, s) PROVE IInv'
  BY <1>4, <1>KeepaliveKeeps, Zenon
<1>5. ASSUME NEW s, NEW i, _publish_download_provider_to_ddt(s, i) PROVE IInv'
  BY <1>5, <1>Quiet, Zenon DEF _publish_download_provider_to_ddt
<1>6. ASSUME NEW n, store_local_content(n) PROVE IInv'
  BY <1>6, <1>Quiet, Zenon DEF store_local_content
<1>7. ASSUME NEW v, publish_content_provider(v) PROVE IInv'
  BY <1>7, <1>Quiet, Zenon DEF publish_content_provider
<1>8. CASE UNCHANGED vars
  BY <1>8, <1>Quiet, Zenon DEF vars
<1>9. ASSUME NEW n \in Relays, Restart(n) PROVE IInv'
  BY <1>9, <1>RestartKeeps, Zenon DEF Relays
<1>10. ASSUME NEW r \in Routes, Invalidate(r) PROVE IInv'
  BY <1>10, <1>InvalidateKeeps, Zenon
<1> QED
  BY <1>1, <1>2, <1>3, <1>4, <1>5, <1>6, <1>7, <1>8, <1>9, <1>10, Zenon DEF Next

\* Whatever the routes, also ones that visit nodes again or come back to the
\* host, the callers on nodes other than the host, and the faults, a packet
\* that left a route is on its way to the node that opened its session: the
\* ingress an entry point remembers is always that of the session's caller
\* (_resolve_route_data_path).
THEOREM IngressIsRight == Spec => []RightIngress
<1>1. IInv => RightIngress
  <2>1. SUFFICES ASSUME IInv, NEW p \in packets, p.dir = "vn_to_pn", p.path[2] = 0
                 PROVE  p.at = Node(p.sid)
    BY Zenon DEF RightIngress
  <2>2. ~OnLink(p)
    BY <2>1, RouteFacts DEF OnLink
  <2>3. Outside(p)
    BY <2>1, <2>2, Zenon DEF IInv, PacketInv
  <2> QED
    BY <2>1, <2>3, Zenon DEF Outside
<1>2. Init => IInv
  BY Initially, Zenon
<1>3. IInv /\ [Next]_vars => IInv'
  BY Stepwise, Zenon
<1> QED
  BY <1>1, <1>2, <1>3, PTL DEF Spec
-----------------------------------------------------------------------------
(* Types.                                                                  *)

States == {"none", "pending", "active", "closed"}
Pcs == {"idle", "trying", "waiting", "returned", "raised", "closing", "closed"}
FaultKinds == {"lose", "dup", "restart", "invalidate", "close"}

IsSide(x) == DOMAIN x = {"state", "secret", "eph", "bound"} /\ x.state \in States

SidesInv == \A s \in Sids : IsSide(sess[s]["c"]) /\ IsSide(sess[s]["t"])

\* A caller that has a session has one of its own.
CallersInv ==
    \A v \in Callers :
        /\ caller[v].pc \in Pcs
        /\ IF caller[v].pc \in {"waiting", "returned", "closing", "closed"}
           THEN caller[v].sid \in Sessions /\ caller[v].sid[1] = v
           ELSE caller[v].sid = <<>>

FaultsInv ==
    /\ faults \in [FaultKinds -> Nat] /\ setup.faults \in [FaultKinds -> Nat]
    /\ \A f \in FaultKinds : faults[f] <= setup.faults[f]

Statuses == {"none", "downloading", "completed", "failed"}
Requests == {"INFO_REQUEST", "RANGE_REQUEST"}
Ranges == {"INFO_RESPONSE", "RANGE_RESPONSE"}
Responses == {"INFO_RESPONSE", "RANGE_RESPONSE", "NOT_FOUND", "RANGE_DENIED"}

\* Requests go up to the target and ask for bytes that exist, answers come
\* down from it.
ContentPacket(p) ==
    /\ p.body.type \in Requests => p.dir = "pn_to_vn"
    /\ p.body.type \in Responses => p.dir = "vn_to_pn"
    /\ p.body.type \in {"RANGE_REQUEST", "RANGE_RESPONSE"} => p.body.val[2] \in 1..Size

\* The content is stored under its hash only, and what was completed or is
\* being published is stored.
StoreInv ==
    /\ DOMAIN final = Nodes /\ DOMAIN part = Nodes
    /\ DOMAIN download = Sids /\ DOMAIN publishing = Sids
    /\ \A n \in Nodes : final[n] \in {<<>>, Content}
    /\ \A s \in Sids : download[s].status \in Statuses /\ download[s].next \in 0..Size
    /\ \A s \in Sessions : /\ download[s].status = "completed" => final[Node(s)] = Content
                           /\ publishing[s] # <<>> => final[Node(s)] = Content
    /\ \A v \in published : v \in Callers /\ final[setup.callers[v].node] = Content
    /\ \A p \in packets : ContentPacket(p)

AskedInv == again \subseteq requested /\ requested \subseteq Callers

TypeInv ==
    /\ rows \subseteq AllRows /\ AskedInv
    /\ SidesInv /\ CallersInv /\ FaultsInv /\ StoreInv

Bytes(start, end) == SubSeq(Content, start + 1, end)

-----------------------------------------------------------------------------
(* Packets.                                                                *)

\* Packets are between nodes.  The packets delivered at the target are the
\* delivered packets that go up: those that go down and pass the target again
\* find a hop mapping there.
LEMMA Ends ==
    ASSUME IInv, NEW p \in packets
    PROVE  /\ p.sid \in Sessions /\ p.sid \in Sids
           /\ p.at \in Nodes /\ p.from \in Nodes /\ p.dir \in {"vn_to_pn", "pn_to_vn"}
           /\ IsLocal(p) => (p.at = Target <=> p.dir = "pn_to_vn")
<1>1. p.sid \in Sessions /\ (OnLink(p) \/ Outside(p)) /\ RowsInv /\ setup \in Scenarios
  BY Zenon DEF IInv, PacketInv
<1>2. p.sid \in Sids /\ Node(p.sid) \in Nodes /\ Node(p.sid) # Target
  BY <1>1, SessionFacts, Zenon
<1>3. CASE OnLink(p)
  <2>1. PICK r \in Routes : \E i \in 1..(Len(Hops[r]) - 1) :
          /\ p.path = <<r, i>>
          /\ \/ p.dir = "vn_to_pn" /\ p.from = Hops[r][i] /\ p.at = Hops[r][i + 1]
             \/ p.dir = "pn_to_vn" /\ p.from = Hops[r][i + 1] /\ p.at = Hops[r][i]
    BY <1>3, Zenon DEF OnLink
  <2>2. PICK i \in 1..(Len(Hops[r]) - 1) :
          /\ p.path = <<r, i>>
          /\ \/ p.dir = "vn_to_pn" /\ p.from = Hops[r][i] /\ p.at = Hops[r][i + 1]
             \/ p.dir = "pn_to_vn" /\ p.from = Hops[r][i + 1] /\ p.at = Hops[r][i]
    BY <2>1, Zenon
  <2> DEFINE n == Len(Hops[r])
  <2>3. /\ n \in Nat /\ n >= 2 /\ Hops[r][1] = Target /\ EntryPoint(r) = Hops[r][n]
        /\ \A j \in 1..n : Hops[r][j] \in Nodes
        /\ Hops[r][i] # Hops[r][i + 1] /\ EntryPoint(r) # Target
    BY RouteFacts, Zenon
  <2>4. i \in 1..n /\ i + 1 \in 1..n /\ i \in Nat
    BY <2>3
  <2>5. p.at \in Nodes /\ p.from \in Nodes /\ p.dir \in {"vn_to_pn", "pn_to_vn"}
    BY <2>2, <2>3, <2>4, Zenon
  <2>6. ASSUME IsLocal(p), p.at = Target, p.dir # "pn_to_vn" PROVE FALSE
    <3>1. p.at = Hops[r][i + 1] /\ p.dir = "vn_to_pn"
      BY <2>2, <2>6, Zenon
    <3>2. i + 1 # n
      BY <2>3, <2>6, <3>1, Zenon
    <3>3. i + 1 \in 2..(n - 1) /\ i + 1 \in 2..n /\ i = (i + 1) - 1
      BY <2>3, <2>4, <3>2
    <3>4. <<r, i + 1>> \in rows
      BY <1>1, <3>3, Zenon DEF RowsInv
    <3>5. i + 1 \in HopRows(p.at, r)
      BY <3>1, <3>3, <3>4, Zenon DEF HopRows
    <3>6. get_resolution_by_received_path_id(p.at, p.path) # {}
      <4>1. p.path[1] = r /\ p.path[2] = i
        BY <2>2
      <4>2. i + 1 \in {j \in HopRows(p.at, p.path[1]) : p.path[2] = j - 1}
        BY <3>3, <3>5, <4>1, Zenon
      <4> QED
        BY <4>2, Zenon DEF get_resolution_by_received_path_id
    <3>7. /\ get_endpoint_resolution_by_path_id(p.at, p.path) = {}
          /\ get_endpoint_resolution_by_final_path_id(p.at, p.path) = {}
      BY <2>6, RouteFacts, Zenon
         DEF get_endpoint_resolution_by_path_id, get_endpoint_resolution_by_final_path_id
    <3> QED
      BY <2>6, <3>1, <3>6, <3>7, Zenon DEF IsLocal, _resolve_route_data_path
  <2>7. ASSUME IsLocal(p), p.dir = "pn_to_vn", i # 1 PROVE FALSE
    <3>1. p.at = Hops[r][i] /\ i \in 2..(n - 1) /\ i \in 2..n /\ n \in 1..n
      BY <2>2, <2>3, <2>4, <2>7
    <3>2. <<r, i>> \in rows
      BY <1>1, <3>1, Zenon DEF RowsInv
    <3>3. i \in HopRows(p.at, r)
      BY <3>1, <3>2, Zenon DEF HopRows
    <3>4. get_resolution_by_generated_path_id(p.at, p.path) # {}
      <4>1. p.path[1] = r /\ p.path[2] = i
        BY <2>2
      <4>2. i \in {j \in HopRows(p.at, p.path[1]) : p.path[2] = j}
        BY <3>3, <4>1, Zenon
      <4> QED
        BY <4>2, Zenon DEF get_resolution_by_generated_path_id
    <3>5. get_endpoint_resolution_by_path_id(p.at, p.path) = {}
      <4>1. \A e \in get_endpoint_resolution_by_path_id(p.at, p.path) :
              e = r /\ i = n - 1 /\ p.at = Hops[r][n]
        BY <2>2, <2>3 DEF get_endpoint_resolution_by_path_id, RoutePath
      <4> QED
        BY <2>3, <2>4, <3>1, <4>1
    <3>6. get_endpoint_resolution_by_final_path_id(p.at, p.path) = {}
      BY <2>2, <2>4 DEF get_endpoint_resolution_by_final_path_id, FinalPath
    <3> QED
      BY <2>7, <3>4, <3>5, <3>6, Zenon DEF IsLocal, _resolve_route_data_path
  <2> QED
    BY <1>1, <1>2, <2>2, <2>3, <2>5, <2>6, <2>7, Zenon
<1>4. CASE Outside(p)
  <2>1. PICK r \in Routes :
          /\ p.path = <<r, 0>> /\ Node(p.sid) # EntryPoint(r)
          /\ \/ p.dir = "vn_to_pn" /\ p.from = EntryPoint(r) /\ p.at = Node(p.sid)
             \/ p.dir = "pn_to_vn" /\ p.from = Node(p.sid) /\ p.at = EntryPoint(r)
    BY <1>4, Zenon DEF Outside, FinalPath
  <2>2. EntryPoint(r) \in Nodes /\ EntryPoint(r) # Target
    BY RouteFacts, Zenon
  <2>3. ASSUME IsLocal(p), p.dir = "pn_to_vn" PROVE FALSE
    <3>1. EndpointRow(r) \in rows
      BY <1>1, RouteFacts DEF RowsInv, EndpointRow
    <3>2. r \in get_endpoint_resolution_by_final_path_id(p.at, p.path)
      BY <2>1, <2>3, <3>1, Zenon DEF get_endpoint_resolution_by_final_path_id, FinalPath
    <3>3. [path |-> RoutePath(r), to |-> Previous(r),
           ingress |-> [ingress EXCEPT ![r][_build_endpoint_ingress_key(r, p.sid)] = p.from]]
            \in _resolve_route_data_path(p)
      BY <2>3, <3>2, Zenon DEF _resolve_route_data_path
    <3> QED
      BY <2>3, <3>3, Zenon DEF IsLocal
  <2> QED
    BY <1>1, <1>2, <2>1, <2>2, <2>3, Zenon
<1> QED
  BY <1>1, <1>3, <1>4, Zenon

\* A handler at the way back leaves at most one new packet, the reply.
LEMMA Replies ==
    ASSUME NEW p, NEW rest, NEW o, _deliver_local_route_data(p, o, rest)
    PROVE  /\ UNCHANGED <<rows, ingress, setup, caller, sent>>
           /\ sess' = [sess EXCEPT ![p.sid][SideAt(p.at, p.sid)] = o.side]
           /\ \A q \in packets' : q \in rest \/
                /\ q.sid = p.sid /\ q.dir = _opposite_route_direction(p.dir)
                /\ q.body = o.reply /\ o.reply # NoBody
           /\ \A q1, q2 \in packets' : q1 \in rest \/ q2 \in rest \/ q1 = q2
<1> DEFINE entry == IF p.at = Target THEN NoNode ELSE EntryPoint(RouteOf(p.sid))
           contexts == _resolve_local_reply_context(p.at, p.path, o.side.bound, entry)
           key == IF p.key = NoKey THEN NoKey ELSE o.side.secret
           reply(c) == RouteData(p.at, c, _opposite_route_direction(p.dir), p.sid, key, o.reply)
<1>1. UNCHANGED <<rows, ingress, setup, caller, sent>>
      /\ sess' = [sess EXCEPT ![p.sid][SideAt(p.at, p.sid)] = o.side]
  BY Zenon DEF _deliver_local_route_data
<1>2. \A q \in packets' : q \in rest \/ (o.reply # NoBody /\ \E c \in contexts : q = reply(c))
  BY Zenon DEF _deliver_local_route_data
<1>3. \A c : reply(c).sid = p.sid /\ reply(c).dir = _opposite_route_direction(p.dir)
             /\ reply(c).body = o.reply
  BY Zenon DEF RouteData
<1>4. \A c, d \in contexts : c = d
  <2>1. \A r, e \in get_initiator_resolution_by_initial_path_id(p.at, p.path) : r = e
    BY DEF get_initiator_resolution_by_initial_path_id
  <2>2. \A r, e \in get_endpoint_resolution_by_path_id(p.at, p.path) : r = e
    BY DEF get_endpoint_resolution_by_path_id, RoutePath
  <2> HIDE DEF entry
  <2> QED
    BY <2>1, <2>2, Zenon DEF _resolve_local_reply_context
<1> HIDE DEF contexts, reply
<1>5. \A q \in packets' : q \in rest \/
                /\ q.sid = p.sid /\ q.dir = _opposite_route_direction(p.dir)
                /\ q.body = o.reply /\ o.reply # NoBody
  BY <1>2, <1>3, Zenon
<1>6. \A q1, q2 \in packets' : q1 \in rest \/ q2 \in rest \/ q1 = q2
  BY <1>2, <1>4, Zenon
<1> QED
  BY <1>1, <1>5, <1>6, Zenon

\* A message sent over a session.
LEMMA Envelopes ==
    ASSUME NEW n, NEW s, NEW type, packets' = _send_virtual_envelope(n, s, type, packets)
    PROVE  /\ \A q \in packets' : q \in packets \/
                /\ q.sid = s /\ q.body.type = type
                /\ q.dir = IF n = Target THEN "vn_to_pn" ELSE "pn_to_vn"
           /\ \A q1, q2 \in packets' : q1 \in packets \/ q2 \in packets \/ q1 = q2
<1> DEFINE side == SessionAt(n, s)
           down(h) == RouteData(n, h, "vn_to_pn", s, side.secret, Body(type, <<>>))
           up == RouteData(n, send_to_entry_point(n, RouteOf(s)), "pn_to_vn", s, side.secret,
                           Body(type, <<>>))
<1>1. \A q \in packets' : q \in packets \/
        \/ n = Target /\ \E h \in send_from_local_route(n, side.bound) : q = down(h)
        \/ n # Target /\ q = up
  BY Zenon DEF _send_virtual_envelope
<1>2. \A h, g \in send_from_local_route(n, side.bound) : h = g
  <2>1. \A path : \A r, e \in get_initiator_resolution_by_initial_path_id(n, path) : r = e
    BY DEF get_initiator_resolution_by_initial_path_id
  <2>2. \A path : \A r, e \in get_endpoint_resolution_by_path_id(n, path) : r = e
    BY DEF get_endpoint_resolution_by_path_id, RoutePath
  <2> HIDE DEF side
  <2> QED
    BY <2>1, <2>2, Zenon DEF _resolve_local_reply_context, send_from_local_route
<1>3. /\ \A h : down(h).sid = s /\ down(h).body.type = type /\ down(h).dir = "vn_to_pn"
      /\ up.sid = s /\ up.body.type = type /\ up.dir = "pn_to_vn"
  BY Zenon DEF RouteData, Body
<1> HIDE DEF up, down, side
<1> QED
  BY <1>1, <1>2, <1>3
-----------------------------------------------------------------------------
(* The content handlers.                                                   *)

IsDownload(d) ==
    /\ d = [status |-> d.status, next |-> d.next, part |-> d.part, final |-> d.final]
    /\ d.status \in Statuses /\ d.next \in 0..Size

\* The handler asks for the next range of the download it leaves, or for
\* nothing.
AsksNext(o) ==
    \/ o.reply = NoBody
    \/ \E end \in 1..Size : /\ end > o.d.next /\ o.d.status = "downloading"
                            /\ o.reply = Body("RANGE_REQUEST", <<o.d.next, end>>)

\* The handler schedules a publication.
Publishes(o) == o.publish

\* The download a handler was given and the one it leaves.
MovesOn(d, o) ==
    /\ o.d.status \in Statuses /\ o.d.next \in 0..Size /\ o.d.final \in {d.final, Content}
    /\ o.d.status = "completed" => d.status = "completed" \/ o.d.final = Content
    /\ d.status # "none" => o.d.status # "none"
    /\ Publishes(o) => o.d.status = "completed"

LEMMA SizeFacts == Size \in Nat /\ Size >= 1 /\ Size = Len(Content)
<1>1. Content \in Seq(Range(Content)) /\ Content # <<>>
  BY ContentAssumption, Zenon
<1> QED
  BY <1>1 DEF Size

\* The next range asked for ends inside the content.
LEMMA NextRange ==
    ASSUME NEW d, d.next \in 0..Size
    PROVE  \/ get_next_range_request(d) = NoBody
           \/ /\ d.status = "downloading" /\ d.next < Size
              /\ \E end \in 1..Size : /\ end > d.next
                    /\ get_next_range_request(d) = Body("RANGE_REQUEST", <<d.next, end>>)
<1>1. SUFFICES ASSUME d.status = "downloading", ~(d.next >= Size)
               PROVE  \E end \in 1..Size : /\ end > d.next
                        /\ get_next_range_request(d) = Body("RANGE_REQUEST", <<d.next, end>>)
  BY SizeFacts DEF get_next_range_request
<1>2. PICK m : m = Min({d.next + RangeSize, Size})
  BY Zenon
<1>3. RangeSize \in Nat /\ RangeSize >= 1
  BY ContentAssumption
<1>4. m \in {d.next + RangeSize, Size} /\ m <= Size
  <2>1. PICK a : a = d.next + RangeSize
    BY Zenon
  <2>2. a \in Nat /\ Size \in Nat
    BY <1>3, <2>1, SizeFacts
  <2>3. \E x \in {a, Size} : \A y \in {a, Size} : x <= y
    BY <2>2
  <2>4. m \in {a, Size} /\ \A y \in {a, Size} : m <= y
    BY <1>2, <2>1, <2>3, Zenon DEF Min
  <2> QED
    BY <2>1, <2>4, Zenon
<1>5. m \in 1..Size /\ m > d.next
  BY <1>1, <1>3, <1>4, SizeFacts
<1>6. get_next_range_request(d) = Body("RANGE_REQUEST", <<d.next, m>>)
  BY <1>1, <1>2, Zenon DEF get_next_range_request
<1> QED
  BY <1>5, <1>6, Zenon

\* A content handler needs an active session, and only a response changes
\* the download.
LEMMA Dispatches ==
    ASSUME NEW s, NEW p, NEW d, NEW o \in HandleContentMessage(s, p, d)
    PROVE  /\ s.state = "active" /\ o.side = s
           /\ \/ p.body.type = "INFO_REQUEST" /\ o \in _handle_content_info_request(s, p, d)
              \/ p.body.type = "INFO_RESPONSE" /\ o \in _handle_content_info_response(s, p, d)
              \/ p.body.type = "RANGE_REQUEST" /\ o \in _handle_content_range_request(s, p, d)
              \/ p.body.type = "RANGE_RESPONSE" /\ o \in _handle_content_range_response(s, p, d)
              \/ /\ p.body.type \notin {"INFO_REQUEST", "INFO_RESPONSE", "RANGE_REQUEST", "RANGE_RESPONSE"}
                 /\ o \in _handle_content_error_message(s, p, d)
<1>1. s.state = "active"
  BY Zenon DEF HandleContentMessage
<1>2. o.side = s
  BY ContentKeepsSide, Zenon
<1> QED
  BY <1>1, <1>2, Zenon DEF HandleContentMessage

\* The target changes nothing, and answers a request with what was asked for
\* or with an error.
Answered(s, p, d, o) ==
    /\ s.state = "active" /\ o.side = s /\ o.d = d /\ ~Publishes(o)
    /\ o.reply.type \in Responses
    /\ o.reply.type = "INFO_RESPONSE" => p.body.type = "INFO_REQUEST"
    /\ o.reply.type = "RANGE_RESPONSE" =>
         /\ p.body.type = "RANGE_REQUEST" /\ o.reply.val[2] \in 1..Size
         /\ o.reply.val[1] = p.body.val[1] /\ o.reply.val[2] = p.body.val[2]
         /\ o.reply.data = Bytes(p.body.val[1], p.body.val[2])

LEMMA Answers ==
    ASSUME NEW s, NEW p, ContentPacket(p), p.body.type \in Requests,
           NEW d, d.final \in {<<>>, Content}, NEW o \in HandleContentMessage(s, p, d)
    PROVE  Answered(s, p, d, o)
<1> SUFFICES /\ s.state = "active" /\ o.side = s /\ o.d = d /\ ~Publishes(o)
             /\ o.reply.type \in Responses
             /\ o.reply.type = "INFO_RESPONSE" => p.body.type = "INFO_REQUEST"
             /\ o.reply.type = "RANGE_RESPONSE" =>
                  /\ p.body.type = "RANGE_REQUEST" /\ o.reply.val[2] \in 1..Size
                  /\ o.reply.val[1] = p.body.val[1] /\ o.reply.val[2] = p.body.val[2]
                  /\ o.reply.data = Bytes(p.body.val[1], p.body.val[2])
  BY Zenon DEF Answered
<1>1. s.state = "active" /\ o.side = s
  BY Dispatches
<1>2. CASE p.body.type = "INFO_REQUEST"
  <2>1. o \in _handle_content_info_request(s, p, d)
    BY <1>2, Dispatches
  <2>2. ~Publishes(o)
    <3>1. o.publish = FALSE
      BY <2>1 DEF _handle_content_info_request, ContentOutcome
    <3> QED
      BY <3>1, Zenon DEF Publishes
  <2> QED
    BY <1>1, <1>2, <2>1, <2>2 DEF _handle_content_info_request, ContentOutcome, Body, Responses
<1>3. CASE p.body.type = "RANGE_REQUEST"
  <2>1. o \in _handle_content_range_request(s, p, d)
    BY <1>3, Dispatches, Zenon
  <2>2. PICK a, b : a = p.body.val[1] /\ b = p.body.val[2]
    BY Zenon
  <2>3. o.d = d /\ ~Publishes(o) /\ o.reply = read_content_range(d.final, a, b)
    <3>1. o = [side |-> s, reply |-> read_content_range(d.final, a, b), d |-> d, publish |-> FALSE]
      BY <2>1, <2>2, Zenon DEF _handle_content_range_request, ContentOutcome
    <3> QED
      BY <3>1, Zenon DEF Publishes
  <2>4. b \in 1..Size
    BY <1>3, <2>2, Zenon DEF ContentPacket
  <2>5. PICK r : r = o.reply
    BY Zenon
  <2>6. \/ r = Body("NOT_FOUND", <<>>) \/ r = Body("RANGE_DENIED", <<>>)
        \/ r = [type |-> "RANGE_RESPONSE", val |-> <<a, b>>, data |-> Bytes(a, b)]
    BY <2>3, <2>5, Zenon DEF read_content_range, Bytes
  <2>7. r.type \in Responses /\ r.type # "INFO_RESPONSE"
        /\ (r.type = "RANGE_RESPONSE" => r.val = <<a, b>> /\ r.data = Bytes(a, b))
    BY <2>6 DEF Body, Responses
  <2> QED
    BY <1>1, <1>3, <2>2, <2>3, <2>4, <2>5, <2>7
<1> QED
  BY <1>2, <1>3, Zenon DEF Requests

\* What the downloading node does with an answer: the download keeps its
\* type, the final file is only ever the content, and a download that is
\* complete, or published, has it.
LEMMA Downloads ==
    ASSUME NEW s, NEW p, ContentPacket(p), p.body.type \in Ranges,
           NEW d, IsDownload(d), NEW o \in HandleContentMessage(s, p, d)
    PROVE  /\ s.state = "active" /\ o.side = s
           /\ MovesOn(d, o) /\ AsksNext(o)
<1>0. PICK st, nx, pt, fl :
        /\ d = [status |-> st, next |-> nx, part |-> pt, final |-> fl]
        /\ st = d.status /\ nx = d.next /\ fl = d.final
        /\ st \in Statuses /\ nx \in 0..Size
  BY Zenon DEF IsDownload
<1>1. s.state = "active" /\ o.side = s
  BY Dispatches
<1>2. CASE p.body.type = "INFO_RESPONSE"
  <2>1. o \in _handle_content_info_response(s, p, d)
    BY <1>2, Dispatches, Zenon
  <2>2. PICK e : e = start_or_update_download(d)
    BY Zenon
  <2>3. o.d = e /\ ~Publishes(o) /\ o.reply = get_next_range_request(e)
    <3>1. o = [side |-> s, reply |-> get_next_range_request(e), d |-> e, publish |-> FALSE]
      BY <2>1, <2>2, Zenon DEF _handle_content_info_response, ContentOutcome
    <3> QED
      BY <3>1, Zenon DEF Publishes
  <2>4. e = d \/ (st = "none" /\ e = [status |-> "downloading", next |-> 0, part |-> <<>>, final |-> fl])
    BY <1>0, <2>2, Zenon DEF start_or_update_download
  <2>5. e.status \in Statuses /\ e.next \in 0..Size /\ e.final = fl
        /\ (e.status = "completed" => st = "completed") /\ (st # "none" => e.status # "none")
    BY <1>0, <2>4, SizeFacts DEF Statuses
  <2>6. AsksNext(o)
    BY <2>3, <2>5, NextRange, Zenon DEF AsksNext
  <2> QED
    BY <1>0, <1>1, <2>3, <2>5, <2>6, Zenon DEF MovesOn
<1>3. CASE p.body.type = "RANGE_RESPONSE"
  <2>1. o \in _handle_content_range_response(s, p, d)
    BY <1>3, Dispatches, Zenon
  <2>2. PICK e : e = handle_content_range_response(d, p)
    BY Zenon
  <2>0. o = [side |-> s, reply |-> get_next_range_request(e), d |-> e,
             publish |-> e.status = "completed"]
    BY <2>1, <2>2, Zenon DEF _handle_content_range_response, ContentOutcome
  <2>3. o.d = e /\ o.reply = get_next_range_request(e)
    BY <2>0, Zenon
  <2>12. Publishes(o) => e.status = "completed"
    BY <2>0, Zenon DEF Publishes
  <2>4. PICK w : w = AppendRange(d, p)
    BY Zenon
  <2>5. PICK b : b = p.body.val[2]
    BY Zenon
  <2>6. PICK wp : w = [status |-> st, next |-> b, part |-> wp, final |-> fl]
    BY <1>0, <2>4, <2>5, Zenon DEF AppendRange
  <2>7. b \in 1..Size /\ b \in 0..Size
    BY <1>3, <2>5, SizeFacts DEF ContentPacket
  <2>8. \/ e = d \/ e = w
        \/ e = [d EXCEPT !.status = "failed"]
        \/ st = "downloading" /\ e = _complete_download(w)
    BY <1>0, <2>2, <2>4, Zenon DEF handle_content_range_response
  <2>9. \/ st = "downloading" /\ e.status \in {"downloading", "failed"} /\ e.final = fl
        \/ e = d
        \/ e.status = "completed" /\ e.final = Content
    <3>1. CASE e = _complete_download(w) /\ st = "downloading"
      <4>1. \/ e = [w EXCEPT !.status = "failed"]
            \/ w.part = Content /\ e = [w EXCEPT !.status = "completed", !.final = w.part, !.part = <<>>]
        BY <3>1, Zenon DEF _complete_download
      <4> QED
        BY <1>0, <2>6, <3>1, <4>1, Zenon
    <3>2. CASE e \in {w, [d EXCEPT !.status = "failed"]}
      <4>1. st = "downloading" \/ e = d
        BY <1>0, <2>2, Zenon DEF handle_content_range_response
      <4> QED
        BY <1>0, <2>6, <3>2, <4>1
    <3> QED
      BY <2>8, <3>1, <3>2, Zenon
  <2>10. e.next \in {nx, b}
    <3>1. /\ [d EXCEPT !.status = "failed"].next = nx
          /\ [w EXCEPT !.status = "failed"].next = b
          /\ [w EXCEPT !.status = "completed", !.final = w.part, !.part = <<>>].next = b
      BY <1>0, <2>6, Zenon
    <3>2. _complete_download(w).next = b
      BY <3>1, Zenon DEF _complete_download
    <3> QED
      BY <1>0, <2>6, <2>8, <3>1, <3>2, Zenon
  <2>11. e.status \in Statuses /\ e.next \in 0..Size /\ e.final \in {fl, Content}
         /\ (e.status = "completed" => st = "completed" \/ e.final = Content)
         /\ (st # "none" => e.status # "none")
    BY <1>0, <2>7, <2>9, <2>10, Zenon DEF Statuses
  <2>13. AsksNext(o)
    BY <2>3, <2>11, NextRange, Zenon DEF AsksNext
  <2> QED
    BY <1>0, <1>1, <2>3, <2>11, <2>12, <2>13, Zenon DEF MovesOn
<1> QED
  BY <1>2, <1>3, Zenon DEF Ranges

\* Errors change nothing and are not answered.
Ignored(s, d, o) ==
    s.state = "active" /\ o.side = s /\ o.d = d /\ ~Publishes(o) /\ o.reply = NoBody

LEMMA Errors ==
    ASSUME NEW s, NEW p, p.body.type \notin Requests, p.body.type \notin Ranges,
           NEW d, NEW o \in HandleContentMessage(s, p, d)
    PROVE  Ignored(s, d, o)
<1>1. s.state = "active" /\ o.side = s /\ o \in _handle_content_error_message(s, p, d)
  BY Dispatches DEF Requests, Ranges
<1>2. o = [side |-> s, reply |-> NoBody, d |-> d, publish |-> FALSE]
  BY <1>1, Zenon DEF _handle_content_error_message, ContentOutcome
<1>3. o.d = d /\ o.publish = FALSE /\ o.reply = NoBody
  BY <1>2, Zenon
<1> QED
  BY <1>1, <1>3, Zenon DEF Publishes, Ignored

\* A handler that needs a session is at one of its two nodes; an answer is
\* handled at the caller's and a request at the target's.
LEMMA HandledWhere ==
    ASSUME IInv, NEW p \in packets, IsLocal(p), SessionAt(p.at, p.sid) # NoSide
    PROVE  /\ p.dir = "pn_to_vn" => p.at = Target /\ SessionAt(p.at, p.sid) = sess[p.sid]["t"]
                                    /\ SideAt(p.at, p.sid) = "t"
           /\ p.dir = "vn_to_pn" => /\ p.at = Node(p.sid) /\ p.at # Target
                                    /\ SessionAt(p.at, p.sid) = sess[p.sid]["c"]
                                    /\ SideAt(p.at, p.sid) = "c"
<1>1. p.at \in {Target, Node(p.sid)}
  BY Zenon DEF SessionAt
<1>2. p.at = Target <=> p.dir = "pn_to_vn"
  BY Ends, Zenon
<1> QED
  BY <1>1, <1>2, Zenon DEF SessionAt, SideAt
-----------------------------------------------------------------------------
(* Stored content.                                                         *)

\* What a content handler at p.at finds and leaves.
ContentEffect(p, rest, side, o, d) ==
    /\ side = SessionAt(p.at, p.sid) /\ o \in HandleContentMessage(side, p, d)
    /\ d = [status |-> download[p.sid].status, next |-> download[p.sid].next,
            part |-> part[p.at], final |-> final[p.at]]
    /\ UNCHANGED <<rows, ingress, setup, caller, sent, published, requested, again>>
    /\ sess' = [sess EXCEPT ![p.sid][SideAt(p.at, p.sid)] = o.side]
    /\ \A q \in packets' : q \in rest \/
         /\ q.sid = p.sid /\ q.dir = _opposite_route_direction(p.dir)
         /\ q.body = o.reply /\ o.reply # NoBody
    /\ \A q1, q2 \in packets' : q1 \in rest \/ q2 \in rest \/ q1 = q2
    /\ download' = [download EXCEPT ![p.sid] = [status |-> o.d.status, next |-> o.d.next]]
    /\ part' = [part EXCEPT ![p.at] = o.d.part]
    /\ final' = [final EXCEPT ![p.at] = o.d.final]
    /\ \/ Publishes(o) /\ publishing' = [publishing EXCEPT ![p.sid] = Append(@, PublishAttempts)]
       \/ ~Publishes(o) /\ publishing' = publishing

LEMMA ContentStep ==
    ASSUME IInv, StoreInv, NEW p \in packets, NEW rest, DispatchContent(p, rest)
    PROVE  \E side, o, d : ContentEffect(p, rest, side, o, d)
<1>1. PICK o \in HandleContentMessage(SessionAt(p.at, p.sid), p, Download(p.at, p.sid)) :
             /\ _deliver_local_route_data(p, o, rest)
             /\ download' = [download EXCEPT ![p.sid] = [status |-> o.d.status, next |-> o.d.next]]
             /\ part' = [part EXCEPT ![p.at] = o.d.part]
             /\ final' = [final EXCEPT ![p.at] = o.d.final]
             /\ publishing' = IF o.publish
                              THEN [publishing EXCEPT ![p.sid] = Append(@, PublishAttempts)]
                              ELSE publishing
  BY Zenon DEF DispatchContent
<1>2. UNCHANGED <<published, requested, again>>
  BY Zenon DEF DispatchContent
<1>3. PICK side, d : side = SessionAt(p.at, p.sid) /\ d = Download(p.at, p.sid)
  BY Zenon
<1>4. o \in HandleContentMessage(side, p, d)
  BY <1>1, <1>3, Zenon
<1>5. d = [status |-> download[p.sid].status, next |-> download[p.sid].next,
           part |-> part[p.at], final |-> final[p.at]]
  BY <1>3, Zenon DEF Download
<1>6. _deliver_local_route_data(p, o, rest)
  BY <1>1, Zenon
<1>7. /\ UNCHANGED <<rows, ingress, setup, caller, sent>>
      /\ sess' = [sess EXCEPT ![p.sid][SideAt(p.at, p.sid)] = o.side]
      /\ \A q \in packets' : q \in rest \/
           /\ q.sid = p.sid /\ q.dir = _opposite_route_direction(p.dir)
           /\ q.body = o.reply /\ o.reply # NoBody
      /\ \A q1, q2 \in packets' : q1 \in rest \/ q2 \in rest \/ q1 = q2
  BY <1>6, Replies, Zenon
<1>8. \/ Publishes(o) /\ publishing' = [publishing EXCEPT ![p.sid] = Append(@, PublishAttempts)]
      \/ ~Publishes(o) /\ publishing' = publishing
  BY <1>1, Zenon DEF Publishes
<1> QED
  BY <1>1, <1>2, <1>3, <1>4, <1>5, <1>7, <1>8, Zenon DEF ContentEffect

-----------------------------------------------------------------------------
(* Sessions, callers and faults.                                           *)

\* What a session handler leaves; only INIT needs no session, at the target.
LEMMA SessionOutcomes ==
    ASSUME NEW n, NEW s, IsSide(s), NEW p, p.body.type \in SessionMessages,
           NEW o \in HandleSessionMessage(n, s, p)
    PROVE  /\ IsSide(o.side)
           /\ o.reply.type \notin Requests \cup Responses
           /\ s = NoSide => n = Target /\ p.body.type = "INIT"
<1> USE DEF Outcome, IsSide, Requests, Responses, States
<1>1. CASE p.body.type = "INIT"
  <2>1. o \in _handle_virtual_session_init(n, s, p)
    BY <1>1, Zenon DEF HandleSessionMessage
  <2>0. PICK x : x = IF s.state = "none"
                     THEN [NoSide EXCEPT !.state = "pending", !.eph = 1, !.bound = p.path]
                     ELSE [s EXCEPT !.eph = @ + 1]
    BY Zenon
  <2>2. o.side = x /\ o.reply = Body("INIT_OK", <<x.eph>>) /\ n = Target
    BY <2>0, <2>1 DEF _handle_virtual_session_init
  <2>3. IsSide(x)
    BY <2>0, Zenon DEF NoSide
  <2>4. o.reply.type = "INIT_OK"
    BY <2>2 DEF Body
  <2> QED
    BY <1>1, <2>2, <2>3, <2>4, Zenon
<1>2. CASE p.body.type = "INIT_OK"
  <2>1. o \in _handle_virtual_session_init_ok(s, p)
    BY <1>2, Zenon DEF HandleSessionMessage
  <2>0. PICK e, x : e = s.eph + 1 /\ x = <<p.body.val[1], s.eph + 1>>
    BY Zenon
  <2>2. o.side = [s EXCEPT !.secret = x, !.eph = e, !.state = "pending"]
        /\ o.reply = Body("KEY_CONFIRM", x) /\ s.state # "none"
    BY <2>0, <2>1 DEF _handle_virtual_session_init_ok
  <2>3. o.reply.type = "KEY_CONFIRM"
    BY <2>2 DEF Body
  <2> QED
    BY <2>2, <2>3 DEF NoSide
<1>3. CASE p.body.type = "KEY_CONFIRM"
  <2>1. o \in _handle_virtual_session_key_confirm(s, p)
    BY <1>3, Zenon DEF HandleSessionMessage
  <2>0. PICK x : x = IF p.body.val[1] = s.eph THEN p.body.val
                     ELSE <<p.body.val[1], p.body.val[2], s.eph>>
    BY Zenon
  <2>2. o.side = [s EXCEPT !.secret = x, !.state = "active"]
        /\ o.reply = Body("READY", <<>>) /\ s.state # "none"
    BY <2>0, <2>1 DEF _handle_virtual_session_key_confirm
  <2> QED
    BY <2>2 DEF NoSide, Body
<1>4. CASE p.body.type = "READY"
  <2>1. o \in _handle_virtual_session_ready(s, p)
    BY <1>4, Zenon DEF HandleSessionMessage
  <2> QED
    BY <2>1 DEF _handle_virtual_session_ready, NoSide, NoBody, Body
<1>5. CASE p.body.type = "KEEPALIVE"
  <2>1. o \in _handle_virtual_session_keepalive(s, p)
    BY <1>5, Zenon DEF HandleSessionMessage
  <2> QED
    BY <2>1 DEF _handle_virtual_session_keepalive, NoSide, Body
<1>6. CASE p.body.type = "KEEPALIVE_ACK"
  <2>1. o \in _handle_virtual_session_keepalive_ack(s, p)
    BY <1>6, Zenon DEF HandleSessionMessage
  <2> QED
    BY <2>1 DEF _handle_virtual_session_keepalive_ack, NoSide, NoBody, Body
<1>7. CASE p.body.type = "CLOSE"
  <2>1. o \in _handle_virtual_session_close(s, p)
    BY <1>7, Zenon DEF HandleSessionMessage
  <2> QED
    BY <2>1 DEF _handle_virtual_session_close, NoSide, NoBody, Body
<1> QED
  BY <1>1, <1>2, <1>3, <1>4, <1>5, <1>6, <1>7, Zenon DEF SessionMessages

LEMMA FaultHappens ==
    ASSUME IInv, FaultsInv, UNCHANGED setup, NEW f \in FaultKinds, Happens(f)
    PROVE  FaultsInv' /\ faults'["dup"] >= faults["dup"]
<1>1. faults' = [faults EXCEPT ![f] = faults[f] + 1] /\ faults[f] < setup.faults[f]
  BY Zenon DEF Happens
<1>2. \A g \in FaultKinds : faults[g] \in Nat /\ setup.faults[g] \in Nat
  BY Zenon DEF FaultsInv
<1>3. faults[f] + 1 \in Nat /\ faults[f] + 1 <= setup.faults[f]
  BY <1>1, <1>2
<1>4. \A g \in FaultKinds : faults'[g] = IF g = f THEN faults[f] + 1 ELSE faults[g]
  BY <1>1, Zenon DEF FaultsInv
<1>5. faults' \in [FaultKinds -> Nat]
  BY <1>1, <1>3, Zenon DEF FaultsInv
<1>6. "dup" \in FaultKinds
  BY Zenon DEF FaultKinds
<1> QED
  BY <1>2, <1>3, <1>4, <1>5, <1>6 DEF FaultsInv

\* A packet handled twice is counted.
LEMMA Handlings ==
    ASSUME IInv, FaultsInv, UNCHANGED setup, NEW p \in packets, NEW rest \in Rests(p),
           Duplicated(p, rest)
    PROVE  /\ FaultsInv' /\ faults'["dup"] >= faults["dup"]
           /\ rest \subseteq packets
           /\ faults'["dup"] <= 0 => rest = packets \ {p}
<1>1. rest \subseteq packets
  BY Zenon DEF Rests
<1>2. "dup" \in FaultKinds /\ faults["dup"] \in Nat
  BY Zenon DEF FaultKinds, FaultsInv
<1>3. CASE p \in rest
  <2>1. Happens("dup")
    BY <1>3, Zenon DEF Happens, Rests, Duplicated
  <2>2. faults'["dup"] = faults["dup"] + 1
    BY <1>2, <2>1, Zenon DEF Happens, FaultsInv
  <2> QED
    BY <1>1, <1>2, <2>1, <2>2, FaultHappens
<1>4. CASE p \notin rest
  <2>1. faults' = faults /\ rest = packets \ {p}
    BY <1>4, Zenon DEF Rests, Duplicated
  <2> QED
    BY <1>1, <1>2, <2>1 DEF FaultsInv
<1> QED
  BY <1>3, <1>4, Zenon

\* One side of a session changes.
LEMMA SidesSet ==
    ASSUME IInv, SidesInv, NEW s \in Sids, NEW k \in {"c", "t"}, NEW x, IsSide(x),
           sess' = [sess EXCEPT ![s][k] = x]
    PROVE  SidesInv'
<1>1. \A t \in Sids : \A j \in {"c", "t"} :
        sess'[t][j] = IF t = s /\ j = k THEN x ELSE sess[t][j]
  BY Zenon DEF IInv, SessInv
<1> QED
  BY <1>1 DEF SidesInv, IsSide

\* The caller's side of a session is closed.
LEMMA SideClosed ==
    ASSUME IInv, SidesInv, NEW s \in Sids, sess' = [sess EXCEPT ![s]["c"].state = "closed"]
    PROVE  /\ SidesInv'
           /\ \E x : /\ x = [sess[s]["c"] EXCEPT !.state = "closed"]
                     /\ sess' = [sess EXCEPT ![s]["c"] = x]
<1> DEFINE y == [sess[s]["c"] EXCEPT !.state = "closed"]
<1>0. sess' = [sess EXCEPT ![s]["c"] = y]
  BY Zenon
<1>1. PICK x : x = y
  BY Zenon
<1>2. IsSide(x)
  BY <1>1, Zenon DEF SidesInv, IsSide, States
<1>3. sess' = [sess EXCEPT ![s]["c"] = x]
  BY <1>0, <1>1, Zenon
<1>4. SidesInv'
  <2>1. "c" \in {"c", "t"}
    BY Zenon
  <2> QED
    BY <1>2, <1>3, <2>1, SidesSet, Zenon
<1> QED
  BY <1>1, <1>3, <1>4, Zenon
-----------------------------------------------------------------------------
(* The steps keep the types.                                               *)

\* The cases of the loop over the entry points: s is the session of the
\* next one, a the session returned, x the one created and q its INIT.
OverEffect(v, k, s, a, x, q) ==
    /\ k = caller[v].attempt /\ k \in Nat \ {0} /\ s = <<v, k>> /\ caller[v].pc = "trying"
    /\ UNCHANGED <<rows, ingress, setup, faults, sent>>
    /\ x.secret = NoKey /\ x.eph = 0 /\ IsSide(x)
    /\ q.sid = s /\ q.dir = "pn_to_vn" /\ q.body.type = "INIT"
    /\ \/ SetCaller(v, "raised", k, <<>>) /\ UNCHANGED <<sess, packets>>
       \/ /\ a \in Sessions /\ a[1] = v /\ SetCaller(v, "returned", k, a)
          /\ UNCHANGED <<sess, packets>>
       \/ /\ s \in Sessions /\ SetCaller(v, "trying", k + 1, <<>>) /\ x.state = "closed"
          /\ sess' = [sess EXCEPT ![s]["c"] = x] /\ UNCHANGED packets
       \/ /\ s \in Sessions /\ SetCaller(v, "waiting", k, s) /\ x.state = "pending"
          /\ sess' = [sess EXCEPT ![s]["c"] = x] /\ packets' = packets \cup {q}

LEMMA OverCases ==
    ASSUME IInv, NEW v \in Callers, _start_session_over_entry_point(v)
    PROVE  \E k, s, a, x, q : OverEffect(v, k, s, a, x, q)
<1> DEFINE pending(s) == [NoSide EXCEPT !.state = "pending", !.bound = FinalPath(RouteOf(s))]
           init(s) == RouteData(Node(s), send_to_entry_point(Node(s), RouteOf(s)), "pn_to_vn",
                                s, NoKey, Body("INIT", <<>>))
<1>1. PICK k : k = caller[v].attempt
  BY Zenon
<1>2. PICK s : s = <<v, k>>
  BY Zenon
<1>3. /\ UNCHANGED <<rows, ingress, setup, faults, sent>> /\ caller[v].pc = "trying"
      /\ \/ SetCaller(v, "raised", k, <<>>) /\ UNCHANGED <<sess, packets>>
         \/ /\ \E a \in _get_active_virtual_session(v) : SetCaller(v, "returned", k, a)
            /\ UNCHANGED <<sess, packets>>
         \/ /\ k <= Len(Entries(v)) /\ SetCaller(v, "trying", k + 1, <<>>)
            /\ sess' = [sess EXCEPT ![s]["c"] = [pending(s) EXCEPT !.state = "closed"]]
            /\ UNCHANGED packets
         \/ /\ k <= Len(Entries(v)) /\ SetCaller(v, "waiting", k, s)
            /\ sess' = [sess EXCEPT ![s]["c"] = pending(s)]
            /\ packets' = packets \cup {init(s)}
  BY <1>1, <1>2, Zenon DEF _start_session_over_entry_point
<1>4. k \in Nat \ {0}
  BY <1>1, <1>3, Zenon DEF IInv, CallerInv
<1>5. k <= Len(Entries(v)) => s \in Sessions
  BY <1>2, <1>4, AttemptIsSession, Zenon DEF IInv
<1>6. PICK x, y, q : x = pending(s) /\ y = [pending(s) EXCEPT !.state = "closed"] /\ q = init(s)
  BY Zenon
<1>7. /\ x.secret = NoKey /\ x.eph = 0 /\ x.state = "pending" /\ IsSide(x)
      /\ y.secret = NoKey /\ y.eph = 0 /\ y.state = "closed" /\ IsSide(y)
  BY <1>6, Zenon DEF NoSide, IsSide, States
<1>8. q.sid = s /\ q.dir = "pn_to_vn" /\ q.body.type = "INIT"
  BY <1>6, Zenon DEF RouteData, Body
<1> HIDE DEF pending, init
<1>9. CASE SetCaller(v, "raised", k, <<>>) /\ UNCHANGED <<sess, packets>>
  <2>1. OverEffect(v, k, s, s, x, q)
    BY <1>1, <1>2, <1>3, <1>4, <1>7, <1>8, <1>9, Zenon DEF OverEffect
  <2> QED
    BY <2>1, Zenon
<1>10. CASE /\ \E a \in _get_active_virtual_session(v) : SetCaller(v, "returned", k, a)
            /\ UNCHANGED <<sess, packets>>
  <2>1. PICK a \in Sessions : a[1] = v /\ SetCaller(v, "returned", k, a)
    BY <1>10, Zenon DEF _get_active_virtual_session
  <2>2. OverEffect(v, k, s, a, x, q)
    BY <1>1, <1>2, <1>3, <1>4, <1>7, <1>8, <1>10, <2>1, Zenon DEF OverEffect
  <2> QED
    BY <2>2, Zenon
<1>11. CASE /\ k <= Len(Entries(v)) /\ SetCaller(v, "trying", k + 1, <<>>)
            /\ sess' = [sess EXCEPT ![s]["c"] = [pending(s) EXCEPT !.state = "closed"]]
            /\ UNCHANGED packets
  <2>1. s \in Sessions /\ sess' = [sess EXCEPT ![s]["c"] = y] /\ SetCaller(v, "trying", k + 1, <<>>)
    BY <1>5, <1>6, <1>11, Zenon
  <2>2. OverEffect(v, k, s, s, y, q)
    BY <1>1, <1>2, <1>3, <1>4, <1>7, <1>8, <1>11, <2>1, Zenon DEF OverEffect
  <2> QED
    BY <2>2, Zenon
<1>12. CASE /\ k <= Len(Entries(v)) /\ SetCaller(v, "waiting", k, s)
            /\ sess' = [sess EXCEPT ![s]["c"] = pending(s)]
            /\ packets' = packets \cup {init(s)}
  <2>1. s \in Sessions /\ sess' = [sess EXCEPT ![s]["c"] = x] /\ SetCaller(v, "waiting", k, s)
        /\ packets' = packets \cup {q}
    BY <1>5, <1>6, <1>12
  <2>2. OverEffect(v, k, s, s, x, q)
    BY <1>1, <1>2, <1>3, <1>4, <1>7, <1>8, <2>1, Zenon DEF OverEffect
  <2> QED
    BY <2>2, Zenon
<1> QED
  BY <1>3, <1>9, <1>10, <1>11, <1>12, Zenon

LEMMA TypesInitially ==
    ASSUME Init
    PROVE  TypeInv
<1>1. IInv
  BY Initially, Zenon
<1>2. setup \in Scenarios /\ packets = {} /\ requested = {} /\ again = {} /\ published = {}
  BY Zenon DEF Init
<1>3. rows \subseteq AllRows /\ AskedInv
  BY <1>2, Zenon DEF Init, AskedInv
<1>4. SidesInv
  <2>1. \A s \in Sids : sess[s] = IF s \in setup.established THEN Established(s)
                                  ELSE [c |-> NoSide, t |-> NoSide]
    BY Zenon DEF Init
  <2>2. IsSide(NoSide)
    BY Zenon DEF IsSide, NoSide, States
  <2>3. \A s : IsSide(Established(s)["c"]) /\ IsSide(Established(s)["t"])
    BY Zenon DEF Established, IsSide, States
  <2> QED
    BY <2>1, <2>2, <2>3 DEF SidesInv
<1>5. CallersInv
  <2>1. \A v \in Callers :
          \/ caller[v] = [pc |-> "idle", attempt |-> 0, sid |-> <<>>]
          \/ /\ caller[v] = [pc |-> "returned", attempt |-> 1, sid |-> <<v, 1>>]
    BY Zenon DEF Init
  <2>2. ASSUME NEW v \in Callers
        PROVE  /\ caller[v].pc \in Pcs
               /\ IF caller[v].pc \in {"waiting", "returned", "closing", "closed"}
                  THEN caller[v].sid \in Sessions /\ caller[v].sid[1] = v
                  ELSE caller[v].sid = <<>>
    <3>1. CASE caller[v] = [pc |-> "idle", attempt |-> 0, sid |-> <<>>]
      BY <3>1 DEF Pcs
    <3>2. CASE caller[v] = [pc |-> "returned", attempt |-> 1, sid |-> <<v, 1>>]
      <4>1. caller[v].pc = "returned" /\ caller[v].sid = <<v, 1>>
        BY <3>2
      <4>2. caller[v].sid \in Sessions
        BY <1>1, <4>1, Zenon DEF IInv, CallerInv
      <4> QED
        BY <4>1, <4>2 DEF Pcs
    <3> QED
      BY <2>1, <3>1, <3>2, Zenon
  <2> QED
    BY <2>2, Zenon DEF CallersInv
<1>6. FaultsInv
  <2>1. setup.faults \in [FaultKinds -> Nat]
    BY <1>2, ScenariosAssumption, Zenon DEF FaultKinds
  <2>2. faults = [f \in FaultKinds |-> 0]
    BY <2>1, Zenon DEF Init
  <2> QED
    BY <2>1, <2>2 DEF FaultsInv
<1>7. StoreInv
  <2>1. \A s \in Sids : download[s].status = "none" /\ download[s].next = 0 /\ publishing[s] = <<>>
    BY Zenon DEF Init
  <2>2. DOMAIN final = Nodes /\ DOMAIN part = Nodes /\ DOMAIN download = Sids
        /\ DOMAIN publishing = Sids /\ \A n \in Nodes : final[n] \in {<<>>, Content}
    BY Zenon DEF Init
  <2>3. 0 \in 0..Size
    BY SizeFacts
  <2>4. Sessions \subseteq Sids
    BY Zenon DEF Sessions
  <2> QED
    BY <1>2, <2>1, <2>2, <2>3, <2>4, Zenon DEF StoreInv, Statuses
<1> QED
  BY <1>2, <1>3, <1>4, <1>5, <1>6, <1>7, Zenon DEF TypeInv

LEMMA TypesKept ==
    ASSUME IInv, TypeInv, [Next]_vars
    PROVE  TypeInv' /\ faults'["dup"] >= faults["dup"]
\* A step that leaves the downloads alone.
<1>StoreKept.
    ASSUME StoreInv, UNCHANGED <<setup, download, part, final, publishing, published>>,
           \A q \in packets' : q \in packets \/ ContentPacket(q)
    PROVE  StoreInv'
  <2> USE <1>StoreKept
  <2>1. \A q \in packets' : ContentPacket(q)
    BY Zenon DEF StoreInv
  <2>2. (\A q \in packets : ContentPacket(q))'
    BY <2>1, Zenon DEF ContentPacket
  <2>3. Sessions' = Sessions /\ Callers' = Callers /\ \A s : Node(s)' = Node(s)
    BY Zenon DEF Sessions, Callers, Entries, Node
  <2> QED
    BY <2>2, <2>3, Zenon DEF StoreInv
<1>Plain. ASSUME NEW q, q.body.type \notin Requests \cup Responses
    PROVE  ContentPacket(q)
  BY <1>Plain, Zenon DEF ContentPacket, Requests, Responses
<1>ContentHandled.
    ASSUME StoreInv, NEW p \in packets, IsLocal(p), NEW rest, rest \subseteq packets,
           DispatchContent(p, rest)
    PROVE  StoreInv'
  <2> USE <1>ContentHandled
  <2> DEFINE n == p.at
  <2>0. PICK side, o, d : ContentEffect(p, rest, side, o, d)
    BY ContentStep, Zenon
  <2>1. /\ side = SessionAt(p.at, p.sid) /\ o \in HandleContentMessage(side, p, d)
        /\ d = [status |-> download[p.sid].status, next |-> download[p.sid].next,
                part |-> part[p.at], final |-> final[p.at]]
        /\ UNCHANGED <<rows, ingress, setup, caller, sent, published, requested, again>>
        /\ sess' = [sess EXCEPT ![p.sid][SideAt(p.at, p.sid)] = o.side]
        /\ \A q \in packets' : q \in rest \/
             /\ q.sid = p.sid /\ q.dir = _opposite_route_direction(p.dir)
             /\ q.body = o.reply /\ o.reply # NoBody
        /\ \A q1, q2 \in packets' : q1 \in rest \/ q2 \in rest \/ q1 = q2
        /\ download' = [download EXCEPT ![p.sid] = [status |-> o.d.status, next |-> o.d.next]]
        /\ part' = [part EXCEPT ![p.at] = o.d.part]
        /\ final' = [final EXCEPT ![p.at] = o.d.final]
        /\ \/ Publishes(o) /\ publishing' = [publishing EXCEPT ![p.sid] = Append(@, PublishAttempts)]
           \/ ~Publishes(o) /\ publishing' = publishing
    BY <2>0, Zenon DEF ContentEffect
  <2>2. UNCHANGED <<setup, published>>
    BY <2>1, Zenon
  <2>3. \A q \in packets' : q \in rest \/
              /\ q.dir = _opposite_route_direction(p.dir) /\ q.body = o.reply /\ o.reply # NoBody
    BY <2>1, Zenon
  <2>4. p.sid \in Sessions /\ p.sid \in Sids /\ n \in Nodes
    BY Ends, Zenon
  <2>5. ContentPacket(p) /\ final[n] \in {<<>>, Content}
    BY <2>4, Zenon DEF StoreInv
  <2>6. PICK st, nx, pt, fl : /\ d = [status |-> st, next |-> nx, part |-> pt, final |-> fl]
                              /\ st = download[p.sid].status /\ nx = download[p.sid].next
                              /\ pt = part[n] /\ fl = final[n]
    BY <2>1, Zenon
  <2>7. st \in Statuses /\ nx \in 0..Size /\ fl \in {<<>>, Content}
        /\ o \in HandleContentMessage(side, p, d) /\ d.final \in {<<>>, Content}
    BY <2>1, <2>4, <2>5, <2>6 DEF StoreInv
  <2>8. Sessions' = Sessions /\ Callers' = Callers /\ \A s : Node(s)' = Node(s)
        /\ \A v : setup'.callers[v].node = setup.callers[v].node
    BY <2>2, Zenon DEF Sessions, Callers, Entries, Node
  <2>9. ASSUME NEW s \in Sessions PROVE s \in Sids /\ Node(s) \in Nodes
    BY <2>9, SessionFacts, Zenon DEF IInv
  <2>10. ASSUME NEW v \in Callers PROVE setup.callers[v].node \in Nodes
    BY <2>10, ScenariosAssumption, Zenon DEF IInv, Callers
  <2>11. CASE /\ o.d = d /\ ~Publishes(o)
              /\ \A q \in packets' : q \in rest \/ ContentPacket(q)
    <3>0. o.d.status = st /\ o.d.next = nx /\ o.d.part = part[n] /\ o.d.final = final[n]
      BY <2>6, <2>11
    <3>1. /\ DOMAIN final' = Nodes /\ DOMAIN part' = Nodes /\ publishing' = publishing
          /\ \A m \in Nodes : final'[m] = final[m]
      BY <2>1, <2>4, <2>11, <3>0, Zenon DEF StoreInv
    <3>2. DOMAIN download' = Sids
          /\ \A s \in Sids : download'[s].status = download[s].status /\ download'[s].next = download[s].next
      BY <2>1, <2>4, <2>6, <3>0, Zenon DEF StoreInv
    <3>3. \A q \in packets' : ContentPacket(q)
      BY <2>11, Zenon DEF StoreInv
    <3>4. (\A q \in packets : ContentPacket(q))'
      BY <3>3, Zenon DEF ContentPacket
    <3> QED
      BY <2>2, <2>8, <2>9, <2>10, <3>1, <3>2, <3>4 DEF StoreInv
  <2>12. CASE p.body.type \in Requests
    <3>1. o.d = d /\ ~Publishes(o) /\ o.reply.type \in Responses
          /\ (o.reply.type = "RANGE_RESPONSE" => o.reply.val[2] \in 1..Size)
      <4>1. Answered(side, p, d, o)
        BY <2>5, <2>7, <2>12, Answers
      <4> QED
        BY <4>1, Zenon DEF Answered
    <3>2. p.dir = "pn_to_vn"
      BY <2>5, <2>12, Zenon DEF ContentPacket
    <3>3. \A q \in packets' : q \in rest \/ ContentPacket(q)
      BY <2>3, <3>1, <3>2, Zenon DEF ContentPacket, Requests, Responses, _opposite_route_direction
    <3> QED
      BY <2>11, <3>1, <3>3, Zenon
  <2>13. CASE p.body.type \in Ranges
    <3>1. /\ side.state = "active"
          /\ o.d.status \in Statuses /\ o.d.next \in 0..Size /\ o.d.final \in {fl, Content}
          /\ o.d.status = "completed" => st = "completed" \/ o.d.final = Content
          /\ Publishes(o) => o.d.status = "completed"
          /\ AsksNext(o)
      <4>1. d.status = st /\ d.final = fl /\ IsDownload(d)
        BY <2>6, <2>7, Zenon DEF IsDownload
      <4>2. side.state = "active" /\ MovesOn(d, o) /\ AsksNext(o)
        BY <2>5, <2>7, <2>13, <4>1, Downloads, Zenon
      <4> QED
        BY <4>1, <4>2, Zenon DEF MovesOn
    <3>2. p.dir = "vn_to_pn"
      BY <2>5, <2>13, Zenon DEF ContentPacket, Responses, Ranges
    <3>3. SessionAt(n, p.sid) # NoSide
      BY <2>1, <3>1 DEF NoSide
    <3>4. n = Node(p.sid)
      BY <3>2, <3>3, HandledWhere, Zenon
    <3>5. \A q \in packets' : q \in rest \/ ContentPacket(q)
      <4>1. \A a, b : Body("RANGE_REQUEST", <<a, b>>).type = "RANGE_REQUEST"
                      /\ Body("RANGE_REQUEST", <<a, b>>).val[2] = b
        BY Zenon DEF Body
      <4>2. o.reply # NoBody => o.reply.type = "RANGE_REQUEST" /\ o.reply.val[2] \in 1..Size
        <5>1. HAVE o.reply # NoBody
        <5>2. PICK end \in 1..Size : o.reply = Body("RANGE_REQUEST", <<o.d.next, end>>)
          BY <3>1, <5>1, Zenon DEF AsksNext
        <5> QED
          BY <4>1, <5>2
      <4> QED
        BY <2>3, <3>2, <4>2, Zenon DEF ContentPacket, Requests, Responses, _opposite_route_direction
    <3>6. \A q \in packets' : ContentPacket(q)
      BY <3>5, Zenon DEF StoreInv
    <3>7. (\A q \in packets : ContentPacket(q))'
      BY <3>6, Zenon DEF ContentPacket
    <3>8. final'[n] = o.d.final /\ final'[n] \in {<<>>, Content}
          /\ (final[n] = Content => final'[n] = Content)
      BY <2>1, <2>4, <2>6, <2>7, <3>1, Zenon DEF StoreInv
    <3>9. DOMAIN final' = Nodes /\ DOMAIN part' = Nodes /\ DOMAIN download' = Sids
          /\ DOMAIN publishing' = Sids
      BY <2>1, Zenon DEF StoreInv
    <3>10. \A m \in Nodes : m # n => final'[m] = final[m]
      BY <2>1, <2>4, Zenon DEF StoreInv
    <3>11. \A m \in Nodes : final'[m] \in {<<>>, Content} /\ (final[m] = Content => final'[m] = Content)
      BY <3>8, <3>10, Zenon DEF StoreInv
    <3>12. /\ download'[p.sid].status = o.d.status /\ download'[p.sid].next = o.d.next
           /\ \A s \in Sids : s # p.sid => download'[s] = download[s]
      BY <2>1, <2>4, Zenon DEF StoreInv
    <3>13. o.d.status = "completed" => final'[n] = Content
      <4>1. st = "completed" => final[n] = Content
        BY <2>4, <2>6, <3>4, Zenon DEF StoreInv
      <4> QED
        BY <3>1, <3>8, <4>1, Zenon
    <3>14. \A s \in Sids : s # p.sid => publishing'[s] = publishing[s]
      BY <2>1, <2>4, Zenon DEF StoreInv
    <3>15. publishing'[p.sid] # <<>> => publishing[p.sid] # <<>> \/ o.d.status = "completed"
      BY <2>1, <3>1, Zenon
    <3>16. \A s \in Sids : download'[s].status \in Statuses /\ download'[s].next \in 0..Size
      BY <3>1, <3>12, Zenon DEF StoreInv
    <3>17. ASSUME NEW s \in Sessions
           PROVE  /\ download'[s].status = "completed" => final'[Node(s)] = Content
                  /\ publishing'[s] # <<>> => final'[Node(s)] = Content
      <4>1. CASE s = p.sid
        BY <2>4, <3>4, <3>8, <3>11, <3>12, <3>13, <3>15, <4>1, Zenon DEF StoreInv
      <4>2. CASE s # p.sid
        BY <2>9, <3>11, <3>12, <3>14, <4>2, Zenon DEF StoreInv
      <4> QED
        BY <4>1, <4>2, Zenon
    <3>18. \A v \in published : v \in Callers /\ final'[setup.callers[v].node] = Content
      BY <2>10, <3>11, Zenon DEF StoreInv
    <3> QED
      BY <2>2, <2>8, <3>7, <3>9, <3>11, <3>16, <3>17, <3>18, Zenon DEF StoreInv
  <2>14. CASE p.body.type \notin Requests \cup Ranges
    <3>1. o.d = d /\ ~Publishes(o) /\ o.reply = NoBody
      <4>1. p.body.type \notin Requests /\ p.body.type \notin Ranges
        BY <2>14, Zenon
      <4>2. Ignored(side, d, o)
        BY <2>7, <4>1, Errors, Zenon
      <4> QED
        BY <4>2, Zenon DEF Ignored
    <3> QED
      BY <2>3, <2>11, <3>1, Zenon
  <2> QED
    BY <2>12, <2>13, <2>14, Zenon
<1>CallerSet.
    ASSUME CallersInv, UNCHANGED setup, NEW v \in Callers, NEW pc \in Pcs, NEW attempt, NEW sid,
           SetCaller(v, pc, attempt, sid),
           pc \in {"waiting", "returned", "closing", "closed"} => sid \in Sessions /\ sid[1] = v,
           pc \notin {"waiting", "returned", "closing", "closed"} => sid = <<>>
    PROVE  CallersInv'
  <2> USE <1>CallerSet
  <2>1. Callers' = Callers /\ Sessions' = Sessions
    BY Zenon DEF Sessions, Callers, Entries
  <2>2. DOMAIN caller = Callers
    BY Zenon DEF IInv, CallerInv
  <2>3. /\ caller'[v].pc = pc /\ caller'[v].sid = sid
        /\ \A u \in Callers : u # v => caller'[u] = caller[u]
    BY <2>2, Zenon DEF SetCaller
  <2> QED
    BY <2>1, <2>3, Zenon DEF CallersInv
<1>CallersKept. ASSUME CallersInv, UNCHANGED <<setup, caller>>
    PROVE  CallersInv'
  BY <1>CallersKept, Zenon DEF CallersInv, Sessions, Callers, Entries
<1>FaultsKept. ASSUME FaultsInv, UNCHANGED <<setup, faults>>
    PROVE  FaultsInv' /\ faults'["dup"] >= faults["dup"]
  <2> USE <1>FaultsKept
  <2>1. faults["dup"] \in Nat
    BY Zenon DEF FaultsInv, FaultKinds
  <2> QED
    BY <2>1 DEF FaultsInv
<1>SidesKept. ASSUME SidesInv, UNCHANGED sess
    PROVE  SidesInv'
  BY <1>SidesKept, Zenon DEF SidesInv, IsSide
<1>HandleTypes. ASSUME NEW p \in packets, handle(p)
    PROVE  TypeInv' /\ faults'["dup"] >= faults["dup"]
  <2> USE <1>HandleTypes
  <2>1. PICK rest \in Rests(p) :
          /\ Duplicated(p, rest)
          /\ \/ forward_message(p, rest) /\ UNCHANGED <<setup, sess, caller, sent, contentVars>>
             \/ DeliverLocal(p, rest)
    BY Zenon DEF handle
  <2>2. rest \subseteq packets /\ p.sid \in Sids /\ p.at \in Nodes
    BY Ends, Zenon DEF Rests
  <2>3. SidesInv /\ CallersInv /\ FaultsInv /\ StoreInv
    BY Zenon DEF TypeInv
  <2>4. ASSUME UNCHANGED setup PROVE FaultsInv' /\ faults'["dup"] >= faults["dup"]
    BY <2>1, <2>3, <2>4, Handlings
  <2>5. ASSUME UNCHANGED <<rows, setup, requested, again>>
        PROVE  (rows \subseteq AllRows /\ AskedInv)'
    BY <2>5, Zenon DEF TypeInv, AskedInv, Callers, AllRows
  <2>6. CASE forward_message(p, rest) /\ UNCHANGED <<setup, sess, caller, sent, contentVars>>
    <3>1. PICK q : packets' = rest \cup {q} /\ q.body = p.body /\ q.dir = p.dir
      <4>1. PICK hop : packets' = rest \cup {RouteData(p.at, hop, p.dir, p.sid, p.key, p.body)}
        BY <2>6, Zenon DEF forward_message
      <4>2. PICK q : q = RouteData(p.at, hop, p.dir, p.sid, p.key, p.body)
        BY Zenon
      <4> QED
        BY <4>1, <4>2 DEF RouteData
    <3>2. UNCHANGED <<rows, setup, sess, caller, download, part, final, publishing, published, requested, again>>
      BY <2>6, Zenon DEF forward_message, contentVars
    <3>3. ContentPacket(q)
      BY <2>3, <3>1, Zenon DEF StoreInv, ContentPacket
    <3>4. \A x \in packets' : x \in packets \/ ContentPacket(x)
      BY <2>2, <3>1, <3>3, Zenon
    <3>5. StoreInv'
      BY <2>3, <3>2, <3>4, <1>StoreKept, Zenon
    <3>6. SidesInv' /\ CallersInv'
      BY <2>3, <3>2, <1>SidesKept, <1>CallersKept, Zenon
    <3> QED
      BY <2>4, <2>5, <3>2, <3>5, <3>6, Zenon DEF TypeInv
  <2>7. CASE DeliverLocal(p, rest)
    <3>1. IsLocal(p)
      BY <2>7, Zenon DEF DeliverLocal
    <3>2. CASE DispatchSession(p, rest)
      <4>1. PICK side : side = SessionAt(p.at, p.sid)
        BY Zenon
      <4>2. PICK o \in HandleSessionMessage(p.at, side, p) : _deliver_local_route_data(p, o, rest)
        BY <3>2, <4>1, Zenon DEF DispatchSession
      <4>3. p.body.type \in SessionMessages /\ UNCHANGED contentVars
        BY <3>2, Zenon DEF DispatchSession
      <4>4. IsSide(side)
        <5>1. IsSide(NoSide)
          BY Zenon DEF IsSide, NoSide, States
        <5>2. IsSide(sess[p.sid]["c"]) /\ IsSide(sess[p.sid]["t"])
          BY <2>2, <2>3, Zenon DEF SidesInv
        <5> QED
          BY <4>1, <5>1, <5>2, Zenon DEF SessionAt, SideAt
      <4>5. IsSide(o.side) /\ o.reply.type \notin Requests \cup Responses
        BY <4>2, <4>3, <4>4, SessionOutcomes, Zenon
      <4>6. /\ UNCHANGED <<rows, ingress, setup, caller, sent>>
            /\ sess' = [sess EXCEPT ![p.sid][SideAt(p.at, p.sid)] = o.side]
            /\ \A q \in packets' : q \in rest \/ q.body = o.reply
        BY <4>2, Replies
      <4>7. SidesInv'
        <5>1. PICK k, x : k = SideAt(p.at, p.sid) /\ x = o.side
          BY Zenon
        <5>2. k \in {"c", "t"} /\ IsSide(x) /\ sess' = [sess EXCEPT ![p.sid][k] = x]
          BY <4>5, <4>6, <5>1, Zenon DEF SideAt
        <5> QED
          BY <2>2, <2>3, <5>2, SidesSet, Zenon
      <4>8. \A q \in packets' : q \in packets \/ ContentPacket(q)
        BY <2>2, <4>5, <4>6, <1>Plain, Zenon
      <4>9. StoreInv'
        BY <2>3, <4>3, <4>6, <4>8, <1>StoreKept, Zenon DEF contentVars
      <4>10. CallersInv'
        BY <2>3, <4>6, <1>CallersKept, Zenon
      <4> QED
        BY <2>4, <2>5, <4>3, <4>6, <4>7, <4>9, <4>10, Zenon DEF TypeInv, contentVars
    <3>3. CASE DispatchContent(p, rest)
      <4>1. StoreInv'
        BY <2>2, <2>3, <3>1, <3>3, <1>ContentHandled, Zenon
      <4>0. PICK side, o, d : ContentEffect(p, rest, side, o, d)
        BY <2>3, <3>3, ContentStep, Zenon
      <4>2. /\ side = SessionAt(p.at, p.sid) /\ o \in HandleContentMessage(side, p, d)
            /\ UNCHANGED <<rows, setup, caller, requested, again>>
            /\ sess' = [sess EXCEPT ![p.sid][SideAt(p.at, p.sid)] = o.side]
        BY <4>0, Zenon DEF ContentEffect
      <4>3. o.side = side /\ side.state = "active"
        BY <4>2, Dispatches
      <4>4. SidesInv'
        <5>1. PICK k : k = SideAt(p.at, p.sid)
          BY Zenon
        <5>2. side = sess[p.sid][k] /\ k \in {"c", "t"}
          BY <4>2, <4>3, <5>1 DEF SessionAt, SideAt, NoSide
        <5>3. IsSide(side)
          BY <2>2, <2>3, <5>2, Zenon DEF SidesInv
        <5>4. sess' = [sess EXCEPT ![p.sid][k] = side]
          BY <4>2, <4>3, <5>1, Zenon
        <5> QED
          BY <2>2, <2>3, <5>2, <5>3, <5>4, SidesSet, Zenon
      <4>5. CallersInv'
        BY <2>3, <4>2, <1>CallersKept, Zenon
      <4> QED
        BY <2>4, <2>5, <4>1, <4>2, <4>4, <4>5, Zenon DEF TypeInv
    <3>4. CASE packets' = rest /\ UNCHANGED <<rows, ingress, setup, sess, caller, sent, contentVars>>
      <4>1. UNCHANGED <<rows, setup, sess, caller, download, part, final, publishing, published, requested, again>>
        BY <3>4, Zenon DEF contentVars
      <4>2. StoreInv'
        BY <2>2, <2>3, <3>4, <4>1, <1>StoreKept, Zenon
      <4>3. SidesInv' /\ CallersInv'
        BY <2>3, <4>1, <1>SidesKept, <1>CallersKept, Zenon
      <4> QED
        BY <2>4, <2>5, <4>1, <4>2, <4>3, Zenon DEF TypeInv
    <3> QED
      BY <2>7, <3>2, <3>3, <3>4, Zenon DEF DeliverLocal
  <2> QED
    BY <2>1, <2>6, <2>7, Zenon
\* A step that leaves the downloads alone and sends no content message.
<1>PlainStep.
    ASSUME UNCHANGED <<setup, contentVars>>, rows' \subseteq rows, SidesInv', CallersInv',
           FaultsInv',
           \A q \in packets' : q \in packets \/ q.body.type \notin Requests \cup Responses
    PROVE  TypeInv'
  <2> USE <1>PlainStep
  <2>1. UNCHANGED <<setup, download, part, final, publishing, published, requested, again>>
    BY Zenon DEF contentVars
  <2>2. \A q \in packets' : q \in packets \/ ContentPacket(q)
    BY <1>Plain, Zenon
  <2>3. StoreInv'
    BY <2>1, <2>2, <1>StoreKept, Zenon DEF TypeInv
  <2>4. (rows \subseteq AllRows /\ AskedInv)'
    BY <2>1, Zenon DEF TypeInv, AskedInv, Callers, AllRows
  <2> QED
    BY <2>3, <2>4, Zenon DEF TypeInv
<1>EnvironmentTypes.
    ASSUME UNCHANGED contentVars,
           \/ \E p \in packets : Lose(p)
           \/ \E n \in Relays : Restart(n)
           \/ \E r \in Routes : Invalidate(r)
    PROVE  TypeInv' /\ faults'["dup"] >= faults["dup"]
  <2> USE <1>EnvironmentTypes
  <2>1. PICK f \in {"lose", "restart", "invalidate"} : Happens(f)
    BY Zenon DEF Lose, Restart, Invalidate
  <2>2. UNCHANGED <<setup, sess, caller>> /\ packets' \subseteq packets /\ rows' \subseteq rows
    BY Zenon DEF Lose, Restart, RestartNode, Invalidate, InvalidateRoute
  <2>3. SidesInv' /\ CallersInv'
    BY <2>2, <1>SidesKept, <1>CallersKept, Zenon DEF TypeInv
  <2>4. FaultsInv' /\ faults'["dup"] >= faults["dup"]
    BY <2>1, <2>2, FaultHappens, Zenon DEF TypeInv, FaultKinds
  <2> QED
    BY <2>2, <2>3, <2>4, <1>PlainStep, Zenon
<1>StartTypes.
    ASSUME UNCHANGED contentVars, NEW v \in Callers,
           start_session_to_virtual_node(v) \/ _ensure_entry_point_physical_node(v)
    PROVE  TypeInv' /\ faults'["dup"] >= faults["dup"]
  <2> USE <1>StartTypes
  <2>1. UNCHANGED <<rows, packets, setup, sess, faults>>
    BY Zenon DEF start_session_to_virtual_node, _ensure_entry_point_physical_node, routeVars
  <2>2. SidesInv' /\ FaultsInv' /\ faults'["dup"] >= faults["dup"]
    BY <2>1, <1>SidesKept, <1>FaultsKept, Zenon DEF TypeInv
  <2>3. PICK pc \in {"trying", "raised"} : \E k : SetCaller(v, pc, k, <<>>)
    BY Zenon DEF start_session_to_virtual_node, _ensure_entry_point_physical_node
  <2>4. CallersInv'
    BY <2>1, <2>3, <1>CallerSet, Zenon DEF TypeInv, Pcs
  <2> QED
    BY <2>1, <2>2, <2>4, <1>PlainStep, Zenon
<1>OverTypes. ASSUME UNCHANGED contentVars, NEW v \in Callers, _start_session_over_entry_point(v)
    PROVE  TypeInv' /\ faults'["dup"] >= faults["dup"]
  <2> USE <1>OverTypes
  <2>1. PICK k, s, a, x, q : OverEffect(v, k, s, a, x, q)
    BY OverCases, Zenon
  <2>2. SidesInv /\ CallersInv /\ FaultsInv /\ UNCHANGED <<rows, setup, faults>>
    BY <2>1, Zenon DEF TypeInv, OverEffect
  <2>3. FaultsInv' /\ faults'["dup"] >= faults["dup"]
    BY <2>2, <1>FaultsKept, Zenon
  <2>4. SidesInv'
    <3>1. CASE UNCHANGED sess
      BY <2>2, <3>1, <1>SidesKept, Zenon
    <3>2. CASE s \in Sessions /\ sess' = [sess EXCEPT ![s]["c"] = x]
      <4>1. s \in Sids /\ IsSide(x) /\ "c" \in {"c", "t"}
        BY <2>1, <3>2, Zenon DEF Sessions, OverEffect
      <4> QED
        BY <2>2, <3>2, <4>1, SidesSet, Zenon
    <3> QED
      BY <2>1, <3>1, <3>2, Zenon DEF OverEffect
  <2>5. CallersInv'
    <3>1. \/ SetCaller(v, "raised", k, <<>>) \/ SetCaller(v, "trying", k + 1, <<>>)
          \/ a \in Sessions /\ a[1] = v /\ SetCaller(v, "returned", k, a)
          \/ s \in Sessions /\ s[1] = v /\ SetCaller(v, "waiting", k, s)
      BY <2>1 DEF OverEffect
    <3> QED
      BY <2>2, <3>1, <1>CallerSet, Zenon DEF Pcs
  <2>6. \A p \in packets' : p \in packets \/ p.body.type \notin Requests \cup Responses
    <3>1. q.body.type \notin Requests \cup Responses
      BY <2>1, Zenon DEF OverEffect, Requests, Responses
    <3> QED
      BY <2>1, <3>1, Zenon DEF OverEffect
  <2> QED
    BY <2>2, <2>3, <2>4, <2>5, <2>6, <1>PlainStep, Zenon
<1>WaitTypes. ASSUME UNCHANGED contentVars, NEW v \in Callers, _wait_for_activation(v)
    PROVE  TypeInv' /\ faults'["dup"] >= faults["dup"]
  <2> USE <1>WaitTypes
  <2>1. PICK s : s = caller[v].sid
    BY Zenon
  <2>2. /\ caller[v].pc = "waiting" /\ UNCHANGED <<rows, ingress, packets, setup, faults>>
        /\ \/ SetCaller(v, "returned", s[2], s) /\ UNCHANGED sess
           \/ /\ SetCaller(v, "trying", s[2] + 1, <<>>)
              /\ UNCHANGED sess \/ sess' = [sess EXCEPT ![s]["c"].state = "closed"]
    BY <2>1, Zenon DEF _wait_for_activation, routeVars
  <2>3. s \in Sessions /\ s[1] = v /\ s \in Sids
    BY <2>1, <2>2, Zenon DEF TypeInv, CallersInv, Sessions
  <2>4. CallersInv'
    BY <2>2, <2>3, <1>CallerSet, Zenon DEF TypeInv, Pcs
  <2>5. SidesInv'
    BY <2>2, <2>3, <1>SidesKept, SideClosed, Zenon DEF TypeInv
  <2>6. FaultsInv' /\ faults'["dup"] >= faults["dup"]
    BY <2>2, <1>FaultsKept, Zenon DEF TypeInv
  <2> QED
    BY <2>2, <2>4, <2>5, <2>6, <1>PlainStep, Zenon
<1>CloseTypes.
    ASSUME UNCHANGED contentVars, NEW v \in Callers, close_session(v) \/ close_virtual_session(v)
    PROVE  TypeInv' /\ faults'["dup"] >= faults["dup"]
  <2> USE <1>CloseTypes
  <2>1. PICK s : s = caller[v].sid
    BY Zenon
  <2>2. SidesInv /\ CallersInv /\ FaultsInv
    BY Zenon DEF TypeInv
  <2>3. CASE close_session(v)
    <3>1. /\ caller[v].pc = "returned" /\ UNCHANGED <<rows, ingress, setup, sess>>
          /\ SetCaller(v, "closing", s[2], s) /\ Happens("close")
          /\ packets' = _send_virtual_envelope(Node(s), s, "CLOSE", packets)
      BY <2>1, <2>3, Zenon DEF close_session
    <3>2. s \in Sessions /\ s[1] = v
      BY <2>1, <2>2, <3>1, Zenon DEF CallersInv
    <3>3. CallersInv'
      BY <2>2, <3>1, <3>2, <1>CallerSet, Zenon DEF Pcs
    <3>4. FaultsInv' /\ faults'["dup"] >= faults["dup"]
      BY <2>2, <3>1, FaultHappens, Zenon DEF FaultKinds
    <3>5. \A q \in packets' : q \in packets \/ q.body.type \notin Requests \cup Responses
      BY <3>1, Envelopes DEF Requests, Responses
    <3>6. SidesInv'
      BY <2>2, <3>1, <1>SidesKept, Zenon
    <3> QED
      BY <3>1, <3>3, <3>4, <3>5, <3>6, <1>PlainStep, Zenon
  <2>4. CASE close_virtual_session(v)
    <3>1. /\ caller[v].pc = "closing" /\ UNCHANGED <<rows, ingress, packets, setup, faults>>
          /\ SetCaller(v, "closed", s[2], s)
          /\ sess' = [sess EXCEPT ![s]["c"].state = "closed"]
      BY <2>1, <2>4, Zenon DEF close_virtual_session, routeVars
    <3>2. s \in Sessions /\ s[1] = v /\ s \in Sids
      BY <2>1, <2>2, <3>1, Zenon DEF CallersInv, Sessions
    <3>3. CallersInv'
      BY <2>2, <3>1, <3>2, <1>CallerSet, Zenon DEF Pcs
    <3>4. SidesInv'
      BY <2>2, <3>1, <3>2, SideClosed, Zenon
    <3>5. FaultsInv' /\ faults'["dup"] >= faults["dup"]
      BY <2>2, <3>1, <1>FaultsKept, Zenon
    <3> QED
      BY <3>1, <3>3, <3>4, <3>5, <1>PlainStep, Zenon
  <2> QED
    BY <2>3, <2>4, Zenon
<1>KeepaliveTypes. ASSUME UNCHANGED contentVars, NEW s \in Sessions, NEW n, send_keepalive(n, s)
    PROVE  TypeInv' /\ faults'["dup"] >= faults["dup"]
  <2> USE <1>KeepaliveTypes
  <2>1. /\ UNCHANGED <<rows, setup, sess, caller, faults>>
        /\ packets' = _send_virtual_envelope(n, s, "KEEPALIVE", packets)
    BY Zenon DEF send_keepalive
  <2>2. \A q \in packets' : q \in packets \/ q.body.type \notin Requests \cup Responses
    BY <2>1, Envelopes DEF Requests, Responses
  <2>3. SidesInv' /\ CallersInv' /\ FaultsInv' /\ faults'["dup"] >= faults["dup"]
    BY <2>1, <1>SidesKept, <1>CallersKept, <1>FaultsKept, Zenon DEF TypeInv
  <2> QED
    BY <2>1, <2>2, <2>3, <1>PlainStep, Zenon
<1>RequestTypes. ASSUME NEW v \in Callers, start_content_download(v)
    PROVE  TypeInv' /\ faults'["dup"] >= faults["dup"]
  <2> USE <1>RequestTypes
  <2>1. PICK s : s = caller[v].sid
    BY Zenon
  <2>2. /\ caller[v].pc = "returned" /\ UNCHANGED <<rows, setup, sess, caller, faults>>
        /\ UNCHANGED <<download, part, final, publishing, published>>
        /\ requested' = requested \cup {v}
        /\ again' = IF v \in requested THEN again \cup {v} ELSE again
        /\ packets' = _send_virtual_envelope(Node(s), s, "INFO_REQUEST", packets)
    BY <2>1, Zenon DEF start_content_download, sessionVars
  <2>3. s \in Sessions /\ Node(s) # Target
    BY <2>1, <2>2, SessionFacts, Zenon DEF TypeInv, CallersInv, IInv
  <2>4. \A q \in packets' : q \in packets \/ (q.body.type = "INFO_REQUEST" /\ q.dir = "pn_to_vn")
    BY <2>2, <2>3, Envelopes
  <2>5. \A q \in packets' : q \in packets \/ ContentPacket(q)
    BY <2>4, Zenon DEF ContentPacket, Requests, Responses
  <2>6. StoreInv'
    BY <2>2, <2>5, <1>StoreKept, Zenon DEF TypeInv
  <2>7. SidesInv' /\ CallersInv' /\ FaultsInv' /\ faults'["dup"] >= faults["dup"]
    BY <2>2, <1>SidesKept, <1>CallersKept, <1>FaultsKept, Zenon DEF TypeInv
  <2>8. (rows \subseteq AllRows /\ AskedInv)'
    BY <2>2, Zenon DEF TypeInv, AskedInv, Callers, AllRows
  <2> QED
    BY <2>6, <2>7, <2>8, Zenon DEF TypeInv
\* The steps of storing and publishing the content.
<1>StorageTypes.
    ASSUME \/ \E s \in Sessions : \E i \in DOMAIN publishing[s] : _publish_download_provider_to_ddt(s, i)
           \/ \E n \in Nodes : store_local_content(n)
           \/ \E v \in Callers : publish_content_provider(v)
    PROVE  TypeInv' /\ faults'["dup"] >= faults["dup"]
  <2> USE <1>StorageTypes
  <2>1. UNCHANGED <<rows, packets, setup, sess, caller, faults, download, part, requested, again>>
    BY Zenon DEF _publish_download_provider_to_ddt, store_local_content, publish_content_provider,
       routeVars, sessionVars
  <2>2. SidesInv' /\ CallersInv' /\ FaultsInv' /\ faults'["dup"] >= faults["dup"]
    BY <2>1, <1>SidesKept, <1>CallersKept, <1>FaultsKept, Zenon DEF TypeInv
  <2>3. (rows \subseteq AllRows /\ AskedInv)'
    BY <2>1, Zenon DEF TypeInv, AskedInv, Callers, AllRows
  <2>4. Sessions' = Sessions /\ Callers' = Callers /\ \A s : Node(s)' = Node(s)
    BY <2>1, Zenon DEF Sessions, Callers, Entries, Node
  <2>5. \A s \in Sessions : s \in Sids /\ Node(s) \in Nodes /\ s[1] \in Callers
                            /\ Node(s) = setup.callers[s[1]].node
    BY SessionFacts, Zenon DEF IInv, Sessions, Node
  <2>6. (\A q \in packets : ContentPacket(q))'
    BY <2>1, Zenon DEF TypeInv, StoreInv, ContentPacket
  <2>7. StoreInv
    BY Zenon DEF TypeInv
  <2>8. StoreInv'
    <3>1. CASE \E s \in Sessions : \E i \in DOMAIN publishing[s] : _publish_download_provider_to_ddt(s, i)
      <4>1. PICK s \in Sessions : \E i \in DOMAIN publishing[s] : _publish_download_provider_to_ddt(s, i)
        BY <3>1, Zenon
      <4>2. PICK i \in DOMAIN publishing[s] : _publish_download_provider_to_ddt(s, i)
        BY <4>1, Zenon
      <4>3. publishing[s] # <<>>
        BY <4>2
      <4>4. PICK x : publishing' = [publishing EXCEPT ![s] = x]
        BY <4>2, Zenon DEF _publish_download_provider_to_ddt
      <4>5. published' = published \cup {s[1]} \/ published' = published
        BY <4>2, Zenon DEF _publish_download_provider_to_ddt
      <4>6. final' = final
        BY <4>2, Zenon DEF _publish_download_provider_to_ddt
      <4>7. final[Node(s)] = Content
        BY <2>7, <4>3, Zenon DEF StoreInv
      <4>8. \A t \in Sids : t # s => publishing'[t] = publishing[t]
        BY <2>7, <4>4, Zenon DEF StoreInv
      <4>9. DOMAIN publishing' = Sids
        BY <2>7, <4>4, Zenon DEF StoreInv
      <4>10. \A t \in Sessions : publishing'[t] # <<>> => final[Node(t)] = Content
        BY <2>5, <2>7, <4>7, <4>8, Zenon DEF StoreInv
      <4>11. \A v \in published' : v \in Callers /\ final[setup.callers[v].node] = Content
        BY <2>5, <2>7, <4>5, <4>7 DEF StoreInv
      <4> QED
        BY <2>1, <2>4, <2>6, <2>7, <4>6, <4>9, <4>10, <4>11, Zenon DEF StoreInv
    <3>2. CASE \E n \in Nodes : store_local_content(n)
      <4>1. PICK n \in Nodes : final' = [final EXCEPT ![n] = Content]
        BY <3>2, Zenon DEF store_local_content
      <4>2. UNCHANGED <<publishing, published>>
        BY <3>2, Zenon DEF store_local_content
      <4>3. DOMAIN final' = Nodes /\ \A m \in Nodes : final'[m] = IF m = n THEN Content ELSE final[m]
        BY <2>7, <4>1, Zenon DEF StoreInv
      <4>4. \A m \in Nodes : final'[m] \in {<<>>, Content} /\ (final[m] = Content => final'[m] = Content)
        BY <2>7, <4>3, Zenon DEF StoreInv
      <4>5. \A v \in Callers : setup.callers[v].node \in Nodes
        BY ScenariosAssumption, Zenon DEF IInv, Callers
      <4> QED
        BY <2>1, <2>4, <2>5, <2>6, <2>7, <4>2, <4>3, <4>4, <4>5, Zenon DEF StoreInv
    <3>3. CASE \E v \in Callers : publish_content_provider(v)
      <4>1. PICK v \in Callers : publish_content_provider(v)
        BY <3>3, Zenon
      <4>2. PICK s : s = <<v, 1>>
        BY Zenon
      <4>3. final[Node(s)] # <<>> /\ publishing' = [publishing EXCEPT ![s] = <<1>>]
            /\ UNCHANGED <<final, published>>
        BY <4>1, <4>2 DEF publish_content_provider
      <4>4. s \in Sessions => final[Node(s)] = Content
        BY <2>5, <2>7, <4>3, Zenon DEF StoreInv
      <4>5. DOMAIN publishing' = Sids /\ \A t \in Sids : t # s => publishing'[t] = publishing[t]
        BY <2>7, <4>3, Zenon DEF StoreInv
      <4>6. \A t \in Sessions : publishing'[t] # <<>> => final[Node(t)] = Content
        BY <2>5, <2>7, <4>4, <4>5, Zenon DEF StoreInv
      <4> QED
        BY <2>1, <2>4, <2>6, <2>7, <4>3, <4>5, <4>6, Zenon DEF StoreInv
    <3> QED
      BY <3>1, <3>2, <3>3, Zenon
  <2> QED
    BY <2>2, <2>3, <2>8, Zenon DEF TypeInv
<1> DEFINE Goal == TypeInv' /\ faults'["dup"] >= faults["dup"]
<1> SUFFICES Goal
  BY Zenon
<1>1. ASSUME NEW p \in packets, handle(p) PROVE Goal
  BY <1>1, <1>HandleTypes, Zenon
<1>2. ASSUME NEW p \in packets, Lose(p), UNCHANGED contentVars PROVE Goal
  BY <1>2, <1>EnvironmentTypes, Zenon
<1>3. ASSUME NEW v \in Callers, start_session_to_virtual_node(v), UNCHANGED contentVars PROVE Goal
  BY <1>3, <1>StartTypes, Zenon
<1>4. ASSUME NEW v \in Callers, CallerSteps(v) PROVE Goal
  BY <1>4, <1>StartTypes, <1>OverTypes, <1>WaitTypes, <1>CloseTypes, Zenon DEF CallerSteps
<1>5. ASSUME NEW v \in Callers, close_session(v), UNCHANGED contentVars PROVE Goal
  BY <1>5, <1>CloseTypes, Zenon
<1>6. ASSUME NEW v \in Callers, start_content_download(v) PROVE Goal
  BY <1>6, <1>RequestTypes, Zenon
<1>7. ASSUME NEW s \in Sessions, NEW n \in {Node(s), Target}, send_keepalive(n, s),
             UNCHANGED contentVars
      PROVE  Goal
  BY <1>7, <1>KeepaliveTypes, Zenon
<1>8. ASSUME NEW s \in Sessions, NEW i \in DOMAIN publishing[s],
             _publish_download_provider_to_ddt(s, i)
      PROVE  Goal
  BY <1>8, <1>StorageTypes, Zenon DEF Goal
<1>StoreLocal. ASSUME NEW n \in Nodes, store_local_content(n) PROVE Goal
  BY <1>StoreLocal, <1>StorageTypes, Zenon DEF Goal
<1>Announce. ASSUME NEW v \in Callers, publish_content_provider(v) PROVE Goal
  BY <1>Announce, <1>StorageTypes, Zenon DEF Goal
<1>9. ASSUME NEW n \in Relays, Restart(n) PROVE Goal
  <2>1. UNCHANGED contentVars
    BY <1>9, Zenon DEF Restart
  <2> QED
    BY <1>9, <2>1, <1>EnvironmentTypes, Zenon
<1>10. ASSUME NEW r \in Routes, Invalidate(r) PROVE Goal
  <2>1. UNCHANGED contentVars
    BY <1>10, Zenon DEF Invalidate
  <2> QED
    BY <1>10, <2>1, <1>EnvironmentTypes, Zenon
<1>11. CASE UNCHANGED vars
  <2>1. UNCHANGED <<rows, packets, setup, sess, caller, faults, contentVars>>
    BY <1>11, Zenon DEF vars, routeVars, sessionVars
  <2>2. SidesInv' /\ CallersInv' /\ FaultsInv' /\ faults'["dup"] >= faults["dup"]
    BY <2>1, <1>SidesKept, <1>CallersKept, <1>FaultsKept, Zenon DEF TypeInv
  <2> QED
    BY <2>1, <2>2, <1>PlainStep, Zenon
<1> HIDE DEF Goal
<1>12. ASSUME NEW v \in Callers,
              \/ start_session_to_virtual_node(v) /\ UNCHANGED contentVars
              \/ CallerSteps(v)
              \/ close_session(v) /\ UNCHANGED contentVars
              \/ start_content_download(v)
       PROVE  Goal
  BY <1>3, <1>4, <1>5, <1>6, <1>12, Zenon
<1>13. CASE Next
  BY <1>1, <1>2, <1>7, <1>8, <1>StoreLocal, <1>Announce, <1>9, <1>10, <1>12, <1>13, Zenon DEF Next
<1> QED
  BY <1>11, <1>13, Zenon

-----------------------------------------------------------------------------
(* Theorems on types and stored content.                                   *)

Typed == IInv /\ TypeInv

LEMMA TypedAlways == Spec => []Typed
<1>1. Init => Typed
  BY Initially, TypesInitially, Zenon DEF Typed
<1>2. Typed /\ [Next]_vars => Typed'
  BY Stepwise, TypesKept, Zenon DEF Typed
<1> QED
  BY <1>1, <1>2, PTL DEF Spec

\* Whatever the routes, the callers, the content and the faults, routes,
\* sessions and downloads keep their shape: no handler asks for bytes that do
\* not exist and no download runs past the size of the content.
THEOREM TypeCorrect == Spec => []TypeOK
<1>1. Typed => TypeOK
  <2>1. SUFFICES ASSUME IInv, TypeInv PROVE TypeOK
    BY Zenon DEF Typed
  <2>2. rows \subseteq AllRows /\ ingress \in [Routes -> [Sids -> Nodes \cup {NoNode}]]
    BY <2>1, Zenon DEF TypeInv, IInv, IngressOK
  <2>3. \A p \in packets : /\ {p.at, p.from} \subseteq Nodes /\ p.sid \in Sessions
                           /\ p.dir \in {"vn_to_pn", "pn_to_vn"}
    BY <2>1, Ends, Zenon
  <2>4. \A p \in packets : p.body.type = "RANGE_REQUEST" => p.body.val[2] \in 1..Size
    BY <2>1, Zenon DEF TypeInv, StoreInv, ContentPacket
  <2>5. \A s \in Sids, side \in {"c", "t"} :
          sess[s][side].state \in {"none", "pending", "active", "closed"}
    BY <2>1, Zenon DEF TypeInv, SidesInv, IsSide, States
  <2>6. \A v \in Callers :
          /\ caller[v].pc \in {"idle", "trying", "waiting", "returned", "raised", "closing", "closed"}
          /\ caller[v].sid \in Sessions \cup {<<>>}
    BY <2>1, Zenon DEF TypeInv, CallersInv, Pcs
  <2>7. \A f \in DOMAIN faults : faults[f] <= setup.faults[f]
    BY <2>1, Zenon DEF TypeInv, FaultsInv
  <2>8. \A s \in Sids : /\ download[s].status \in {"none", "downloading", "completed", "failed"}
                        /\ download[s].next \in 0..Size
    BY <2>1, Zenon DEF TypeInv, StoreInv, Statuses
  <2>9. published \cup requested \subseteq Callers /\ again \subseteq requested
    BY <2>1, Zenon DEF TypeInv, AskedInv, StoreInv
  <2> QED
    BY <2>2, <2>3, <2>4, <2>5, <2>6, <2>7, <2>8, <2>9, Zenon DEF TypeOK
<1> QED
  BY <1>1, TypedAlways, PTL

\* Whatever is lost, handled twice or written to a shared .part file, what a
\* node keeps as the content, reports as downloaded or advertises is the
\* content: _complete_download compares the hash before it moves the file.
THEOREM CompletedExactly == Spec => []CompletedIsExact
<1>1. Typed => CompletedIsExact
  BY Zenon DEF Typed, TypeInv, StoreInv, CompletedIsExact
<1> QED
  BY <1>1, TypedAlways, PTL
-----------------------------------------------------------------------------
(* Facts for the proofs where no packet is handled twice.                  *)

LEMMA NeverTwice == Faults({"dup"}) <=> faults["dup"] > 0
  BY Zenon DEF Faults

\* The scenario never changes.
LEMMA SetupKept ==
    ASSUME [Next]_vars
    PROVE  UNCHANGED setup /\ Sessions' = Sessions
<1>1. ASSUME NEW p \in packets, handle(p) PROVE UNCHANGED setup
  <2>1. PICK rest : \/ forward_message(p, rest) /\ UNCHANGED <<setup, sess, caller, sent, contentVars>>
                    \/ DeliverLocal(p, rest)
    BY <1>1, Zenon DEF handle
  <2>2. ASSUME NEW o, _deliver_local_route_data(p, o, rest) PROVE UNCHANGED setup
    BY <2>2, Replies, Zenon
  <2>3. CASE DeliverLocal(p, rest)
    BY <2>2, <2>3, Zenon DEF DeliverLocal, DispatchSession, DispatchContent
  <2> QED
    BY <2>1, <2>3, Zenon
<1>2. ASSUME NEW v \in Callers, CallerSteps(v) PROVE UNCHANGED setup
  BY <1>2, Zenon DEF CallerSteps, _ensure_entry_point_physical_node, _start_session_over_entry_point,
     _wait_for_activation, close_virtual_session
<1>3. ASSUME NEW v \in Callers, \/ start_session_to_virtual_node(v) \/ close_session(v)
                                \/ start_content_download(v) \/ publish_content_provider(v)
      PROVE  UNCHANGED setup
  BY <1>3, Zenon DEF start_session_to_virtual_node, close_session, start_content_download,
     publish_content_provider, sessionVars
<1>4. ASSUME UNCHANGED vars PROVE UNCHANGED setup
  BY <1>4, Zenon DEF vars, sessionVars
<1>5. ASSUME NEW p, \/ Lose(p) \/ Restart(p) \/ Invalidate(p) \/ store_local_content(p)
                   \/ \E i : send_keepalive(p, i) \/ _publish_download_provider_to_ddt(p, i)
      PROVE  UNCHANGED setup
  BY <1>5, Zenon DEF Lose, send_keepalive, _publish_download_provider_to_ddt,
     store_local_content, Restart, Invalidate, sessionVars
<1>6. ASSUME Next PROVE UNCHANGED setup
  BY <1>1, <1>2, <1>3, <1>5, <1>6, Zenon DEF Next
<1>7. UNCHANGED setup
  BY <1>4, <1>6, Zenon
<1> QED
  BY <1>7, Zenon DEF Sessions, Callers, Entries
=============================================================================
