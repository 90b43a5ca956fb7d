-------------------------- MODULE RouteBuildProofs --------------------------
(***************************************************************************)
(* Proofs about RouteBuild for any nodes, round trips and bounds.          *)
(***************************************************************************)
EXTENDS RouteBuild, FiniteSetTheorems, WellFoundedInduction, TLAPS

\* Path ids are generated in the order of the hop rows, and publications
\* answer to path ids that were generated.
PathsExist ==
    /\ \A b \in Builds : \A i \in DOMAIN hops[b] : hops[b][i].received < i
    /\ \A p \in publishing : p.path <= Len(hops[p.b])

-----------------------------------------------------------------------------
(* The operators of the model.                                             *)

LEMMA Numbers ==
    /\ FallbackRtt \in Nat \ {0} /\ InitialTtl \in Nat \ {0} /\ MinRoutes \in Nat \ {0}
    /\ MaxBuilds \in Nat /\ MaxFresh \in Nat /\ MaxRestarts \in Nat
  BY RouteAssumption, Zenon

\* The latest active route exists.
LEMMA LatestIsActive == ASSUME NEW S \in SUBSET Builds, S # {} PROVE Max(S) \in S
<1> DEFINE R == {ss \in Nat \X Nat : ss[1] < ss[2]}
<1>2. IsWellFoundedOn(R, Nat)
  BY NatLessThanWellFounded, Zenon DEF OpToRel
<1>3. \A x, y \in Nat : <<x, y>> \in R <=> x < y
  BY Zenon
<1> HIDE DEF R
<1> DEFINE T == {MaxBuilds - b : b \in S}
<1>4. T \subseteq Nat /\ T # {}
  <2>1. \A b \in S : MaxBuilds - b \in Nat
    BY Numbers DEF Builds
  <2> QED
    BY <2>1, Zenon
<1>5. PICK t \in T : \A u \in T : ~ (<<u, t>> \in R)
  BY <1>2, <1>4, WFMin, Zenon
<1>6. PICK x \in S : t = MaxBuilds - x
  BY <1>5, Zenon
<1>7. \A y \in S : x >= y
  <2> SUFFICES ASSUME NEW y \in S PROVE x >= y
    BY Zenon
  <2>1. MaxBuilds - y \in T
    BY Zenon
  <2>2. ~ (MaxBuilds - y < MaxBuilds - x)
    BY <1>3, <1>4, <1>5, <1>6, <2>1, Zenon
  <2> QED
    BY <2>2, Numbers DEF Builds
<1> QED
  BY <1>7, Zenon DEF Max

MessageTypes == {"CREATE", "KEM_INFO", "VALIDATE", "PING", "PONG", "OK", "FAIL"}

\* A message that moves keeps all but its path id.
Moved(m, n) == /\ n \in Messages /\ n.type = m.type /\ n.b = m.b
               /\ n.offer = m.offer /\ n.ping = m.ping
               /\ n.path <= Len(hops[m.b])

LEMMA MoveFacts ==
    ASSUME TypeOK, PathsExist, NEW m \in msgs
    PROVE  /\ m \in Messages /\ m.b \in Builds /\ m.path \in Nat
           /\ \A n \in Onward(m) : Moved(m, n)
           /\ \A n \in Back(m) : Moved(m, n)
<1>1. m \in Messages /\ m.b \in Builds /\ m.path \in Nat
  BY Zenon DEF TypeOK, Messages
<1>2. /\ hops[m.b] \in Seq(HopRows)
      /\ DOMAIN hops[m.b] = 1..Len(hops[m.b]) /\ Len(hops[m.b]) \in Nat
      /\ \A i \in DOMAIN hops[m.b] : hops[m.b][i] \in HopRows
  BY <1>1 DEF TypeOK
<1>3. \A i \in Nat : i <= Len(hops[m.b]) => Moved(m, [m EXCEPT !.path = i])
  BY <1>1, Zenon DEF Messages, Moved
<1>4. \A n \in Onward(m) : Moved(m, n)
  BY <1>2, <1>3 DEF Onward, _resolve_forward_path
<1>5. \A i \in DOMAIN hops[m.b] : hops[m.b][i].received \in Nat /\ hops[m.b][i].received <= Len(hops[m.b])
  BY <1>1, <1>2 DEF PathsExist, HopRows
<1>6. \A n \in Back(m) : Moved(m, n)
  BY <1>2, <1>3, <1>5, Zenon DEF Back, _resolve_reverse_path
<1> QED
  BY <1>1, <1>4, <1>6, Zenon

LEMMA RowsOf ==
    ASSUME NEW S, NEW n \in Nat, NEW f \in [1..n -> S]
    PROVE  f \in Seq(S) /\ Len(f) = n /\ DOMAIN f = 1..n
  OBVIOUS

LEMMA AppendFacts ==
    ASSUME NEW S, NEW s \in Seq(S), NEW e \in S
    PROVE  /\ Append(s, e) \in Seq(S)
           /\ Len(Append(s, e)) = Len(s) + 1
           /\ DOMAIN Append(s, e) = 1..(Len(s) + 1) /\ DOMAIN s = 1..Len(s)
           /\ Append(s, e)[Len(s) + 1] = e
           /\ \A i \in DOMAIN s : Append(s, e)[i] = s[i]
  OBVIOUS

\* Invalidating an endpoint row or a hop row keeps everything else of it.
LEMMA EndpointInvalidated ==
    ASSUME TypeOK, NEW b \in Builds, NEW path,
           NEW es, es = invalidate_endpoint_resolution(b, path)
    PROVE  es \in [Builds -> Seq(EndpointRows)] /\ \A c \in Builds \ {b} : es[c] = endpoints[c]
<1>1. /\ endpoints[b] \in Seq(EndpointRows)
      /\ DOMAIN endpoints[b] = 1..Len(endpoints[b]) /\ Len(endpoints[b]) \in Nat
  BY DEF TypeOK
<1> DEFINE new == [e \in DOMAIN endpoints[b] |->
                     IF e \in get_endpoint_resolution_by_path_id(b, path)
                     THEN [endpoints[b][e] EXCEPT !.status = "invalid"] ELSE endpoints[b][e]]
<1>2. \A e \in DOMAIN endpoints[b] : new[e] \in EndpointRows
  <2>1. \A row \in EndpointRows : [row EXCEPT !.status = "invalid"] \in EndpointRows
    BY Zenon DEF EndpointRows
  <2>2. \A e \in DOMAIN endpoints[b] : endpoints[b][e] \in EndpointRows
    BY <1>1
  <2> QED
    BY <2>1, <2>2, Zenon
<1>3. new \in Seq(EndpointRows)
  <2>1. new \in [1..Len(endpoints[b]) -> EndpointRows] /\ Len(endpoints[b]) \in Nat
    BY <1>1, <1>2, Zenon
  <2> HIDE DEF new
  <2> QED
    BY <2>1, RowsOf, Zenon
<1>4. es = [endpoints EXCEPT ![b] = new]
  BY Zenon DEF invalidate_endpoint_resolution
<1> HIDE DEF new
<1> QED
  BY <1>3, <1>4, Zenon DEF TypeOK

LEMMA HopInvalidated ==
    ASSUME TypeOK, NEW b \in Builds, NEW path,
           NEW hs, hs = invalidate_hop_resolution(b, path)
    PROVE  /\ hs \in [Builds -> Seq(HopRows)]
           /\ \A c \in Builds \ {b} : hs[c] = hops[c]
           /\ Len(hs[b]) = Len(hops[b]) /\ DOMAIN hs[b] = DOMAIN hops[b]
           /\ \A i \in DOMAIN hops[b] : hs[b][i].received = hops[b][i].received
<1>1. hops[b] \in Seq(HopRows) /\ DOMAIN hops[b] = 1..Len(hops[b]) /\ Len(hops[b]) \in Nat
  BY DEF TypeOK
<1> DEFINE new == [i \in DOMAIN hops[b] |->
                     IF i = path THEN [hops[b][i] EXCEPT !.valid = FALSE] ELSE hops[b][i]]
<1>2. \A i \in DOMAIN hops[b] : new[i] \in HopRows /\ new[i].received = hops[b][i].received
  <2>1. \A row \in HopRows : /\ [row EXCEPT !.valid = FALSE] \in HopRows
                             /\ [row EXCEPT !.valid = FALSE].received = row.received
    BY Zenon DEF HopRows
  <2>2. \A i \in DOMAIN hops[b] : hops[b][i] \in HopRows
    BY <1>1
  <2> QED
    BY <2>1, <2>2, Zenon
<1>3. new \in Seq(HopRows) /\ DOMAIN new = DOMAIN hops[b] /\ Len(new) = Len(hops[b])
  <2>1. new \in [1..Len(hops[b]) -> HopRows]
    BY <1>1, <1>2, Zenon
  <2> HIDE DEF new
  <2> QED
    BY <1>1, <2>1, RowsOf, Zenon
<1>4. hs = [hops EXCEPT ![b] = new]
  BY Zenon DEF invalidate_hop_resolution
<1> HIDE DEF new
<1> QED
  BY <1>2, <1>3, <1>4 DEF TypeOK

\* The random walk goes on to a node, and keeps at least 1 to live.
LEMMA CandidateFacts ==
    ASSUME NEW n \in Nodes, NEW final \in Nodes, NEW previous \in Nodes, NEW ttl \in Nat \ {0},
           NEW c \in _select_next_candidate(n, final, previous, ttl)
    PROVE  /\ c.node \in Nodes /\ c.rtt \in Nat
           /\ c.node # final => ttl >= 2
<1>1. \A m \in DOMAIN Rtt[n] : m \in Nodes /\ Rtt[n][m] \in Nat
  BY RouteAssumption, Zenon
<1>2. \A rtt \in Nat : Affordable(rtt, ttl) => ttl >= 2
  BY DEF Affordable, TwiceOneWay
<1> DEFINE eligible == {m \in DOMAIN Rtt[n] \ {final, previous} : Affordable(Rtt[n][m], ttl)}
<1>3. \/ \E m \in eligible : c = [node |-> m, rtt |-> Rtt[n][m]]
      \/ final \in DOMAIN Rtt[n] /\ c = [node |-> final, rtt |-> Rtt[n][final]]
      \/ c = [node |-> final, rtt |-> 0]
      \/ previous \in DOMAIN Rtt[n] /\ Affordable(Rtt[n][previous], ttl)
         /\ c = [node |-> previous, rtt |-> Rtt[n][previous]]
      \/ FallbackRtt < ttl /\ c = [node |-> previous, rtt |-> FallbackRtt]
  BY Zenon DEF _select_next_candidate
<1>4. ASSUME NEW m \in eligible, c = [node |-> m, rtt |-> Rtt[n][m]]
      PROVE  c.node \in Nodes /\ c.rtt \in Nat /\ ttl >= 2
  BY <1>1, <1>2, <1>4, Zenon
<1>5. CASE FallbackRtt < ttl /\ c = [node |-> previous, rtt |-> FallbackRtt]
  BY <1>5, Numbers
<1> HIDE DEF eligible
<1> QED
  BY <1>1, <1>2, <1>3, <1>4, <1>5

LEMMA TtlFacts ==
    ASSUME NEW ttl \in Nat \ {0}, NEW rtt \in Nat
    PROVE  /\ next_remaining_ttl(ttl, rtt) \in Nat \ {0}
           /\ ttl >= 2 => next_remaining_ttl(ttl, rtt) <= ttl - 1
<1>1. TwiceOneWay(rtt) \in Nat /\ TwiceOneWay(rtt) >= 2
  BY DEF TwiceOneWay
<1>2. ASSUME NEW d \in Nat, d >= 2
      PROVE  (2 * ttl - d) \div 2 \in Int /\ (2 * ttl - d) \div 2 <= ttl - 1
  BY <1>2
<1> QED
  BY <1>1, <1>2 DEF next_remaining_ttl

-----------------------------------------------------------------------------
(* Types.                                                                  *)

PublicationRecords == [b : Builds, path : Nat, offer : Offers]
PollRecords == [b : Builds, path : Nat]
RuntimeRecords == [pc : {"idle", "health", "sending"}, route : 0..MaxBuilds,
                   final : Nat, pending : Nat]

WellSent(ms, hs) ==
    \A m \in ms : /\ m \in Messages /\ m.path <= Len(hs[m.b])
                  /\ m.type = "CREATE" => m.ttl >= 1

\* What a handler that consumes a message leaves.
LEMMA AnswerFacts ==
    ASSUME TypeOK, NEW m \in msgs, NEW answers, Answer(m, answers), NEW hs,
           \A b \in Builds : Len(hops[b]) <= Len(hs[b]),
           hs \in [Builds -> Seq(HopRows)],
           WellSent(answers, hs)
    PROVE  WellSent(msgs', hs)
<1>1. msgs' \subseteq msgs \cup answers
  BY Zenon DEF Answer, Consumed
<1>2. \A n \in msgs : n \in Messages /\ n.b \in Builds /\ n.path \in Nat /\ n.path <= Len(hops[n.b])
                      /\ (n.type = "CREATE" => n.ttl >= 1)
  BY Zenon DEF TypeOK, Messages
<1>3. \A b \in Builds : Len(hops[b]) \in Nat /\ Len(hs[b]) \in Nat
  BY DEF TypeOK
<1>4. \A n \in msgs : n.path <= Len(hs[n.b])
  BY <1>2, <1>3
<1> QED
  BY <1>1, <1>2, <1>4, Zenon DEF WellSent

LEMMA InitiatorRowFacts ==
    ASSUME TypeOK, NEW b
    PROVE  /\ invalidate_initiator_resolution(b) \in [Builds -> InitiatorRows]
           /\ \A path \in Nat : mark_initiator_resolution_active(b, path) \in [Builds -> InitiatorRows]
<1>1. CASE b \in Builds
  <2>1. rows[b] \in InitiatorRows
    BY <1>1, Zenon DEF TypeOK
  <2>2. [rows[b] EXCEPT !.status = IF @ = "none" THEN @ ELSE "invalid"] \in InitiatorRows
    BY <2>1, Zenon DEF InitiatorRows
  <2>3. \A path \in Nat : [rows[b] EXCEPT !.status = "active", !.path = path] \in InitiatorRows
    BY <2>1, Zenon DEF InitiatorRows
  <2> QED
    BY <1>1, <2>2, <2>3, Zenon DEF TypeOK, invalidate_initiator_resolution, mark_initiator_resolution_active
<1>2. CASE b \notin Builds
  BY <1>2, Zenon DEF TypeOK, invalidate_initiator_resolution, mark_initiator_resolution_active
<1> QED
  BY <1>1, <1>2, Zenon

LEMMA CountFacts ==
    ASSUME NEW rs
    PROVE  /\ IsFiniteSet(Builds)
           /\ IsFiniteSet(Pending(rs)) /\ Cardinality(Pending(rs)) \in Nat
           /\ Started \in Nat
<1>1. IsFiniteSet(Builds)
  BY FS_Interval, Numbers DEF Builds
<1>2. Pending(rs) \subseteq Builds /\ {b \in Builds : rows[b].status # "none"} \subseteq Builds
  BY Zenon DEF Pending
<1> QED
  BY <1>1, <1>2, FS_Subset, FS_CardinalityType, Zenon DEF Started

\* The start of a build adds a row and a message that starts to walk.
LEMMA StartTypes ==
    ASSUME TypeOK, NEW rs \in [Builds -> InitiatorRows], _start_route_build(rs), hops' = hops
    PROVE  /\ rows' \in [Builds -> InitiatorRows]
           /\ WellSent(msgs', hops)
           /\ runtime' \in RuntimeRecords
<1>1. WellSent(msgs, hops)
  BY Zenon DEF TypeOK, WellSent
<1>2. Idle \in RuntimeRecords /\ \A b \in Builds : [Idle EXCEPT !.pc = "sending", !.route = b] \in RuntimeRecords
  <2>1. 0 \in 0..MaxBuilds /\ \A b \in Builds : b \in 0..MaxBuilds
    BY Numbers DEF Builds
  <2>2. Idle \in RuntimeRecords
    BY <2>1, Zenon DEF Idle, RuntimeRecords
  <2>3. \A x \in RuntimeRecords, b \in 0..MaxBuilds :
          [x EXCEPT !.pc = "sending", !.route = b] \in RuntimeRecords
    BY Zenon DEF RuntimeRecords
  <2> QED
    BY <2>1, <2>2, <2>3, Zenon
<1>3. CASE Started + 1 \in Builds
  <2> DEFINE b == Started + 1
  <2>1. PICK first \in DOMAIN Rtt[Self] : \E final \in DOMAIN Rtt[Self] :
               /\ rows' = [rs EXCEPT ![b] = [status |-> "pending_kem_offer", first |-> first,
                                             final |-> final, offer |-> NoOffer, path |-> 0]]
               /\ msgs' = msgs \cup {[Msg("CREATE", b, 0) EXCEPT !.ttl = InitialTtl]}
               /\ runtime' = [Idle EXCEPT !.pc = "sending", !.route = b]
    BY <1>3, Zenon DEF _start_route_build
  <2>2. PICK final \in DOMAIN Rtt[Self] :
               /\ rows' = [rs EXCEPT ![b] = [status |-> "pending_kem_offer", first |-> first,
                                             final |-> final, offer |-> NoOffer, path |-> 0]]
               /\ msgs' = msgs \cup {[Msg("CREATE", b, 0) EXCEPT !.ttl = InitialTtl]}
               /\ runtime' = [Idle EXCEPT !.pc = "sending", !.route = b]
    BY <2>1, Zenon
  <2>3. [status |-> "pending_kem_offer", first |-> first, final |-> final,
         offer |-> NoOffer, path |-> 0] \in InitiatorRows
    BY RouteAssumption, Zenon DEF InitiatorRows, NoOffer, Offers
  <2>4. PICK c : c = b
    BY Zenon
  <2>5. PICK m : m = [Msg("CREATE", c, 0) EXCEPT !.ttl = InitialTtl]
    BY Zenon
  <2>6. m \in Messages /\ m.path = 0 /\ m.b = c /\ m.ttl = InitialTtl
    BY <1>3, <2>4, <2>5, Numbers, Zenon DEF Msg, Messages, Offers, NoOffer
  <2>7. Len(hops[c]) \in Nat
    BY <1>3, <2>4 DEF TypeOK
  <2>8. WellSent({m}, hops)
    BY <2>6, <2>7, Numbers DEF WellSent
  <2>9. WellSent(msgs', hops)
    BY <1>1, <2>2, <2>4, <2>5, <2>8, Zenon DEF WellSent
  <2> QED
    BY <1>2, <1>3, <2>2, <2>3, <2>9, Zenon
<1>4. CASE Started + 1 \notin Builds
  BY <1>1, <1>2, <1>4, Zenon DEF _start_route_build
<1> QED
  BY <1>3, <1>4, Zenon

\* The network: rows and messages stay well-formed.
LEMMA TypeReceive ==
    ASSUME TypeOK, PathsExist, NEW m \in msgs, Receive(m)
    PROVE  TypeOK' /\ PathsExist'
<1>1. m \in Messages /\ m.b \in Builds /\ m.path \in Nat /\ m.offer \in Offers /\ m.ping \in Nat
      /\ m.path <= Len(hops[m.b]) /\ (m.type = "CREATE" => m.ttl \in Nat \ {0})
  BY DEF TypeOK, Messages
<1>2. hops \in [Builds -> Seq(HopRows)] /\ \A b \in Builds : Len(hops[b]) \in Nat
  BY DEF TypeOK
<1>3. /\ publishing \subseteq PublicationRecords /\ polling \subseteq PollRecords
      /\ \A p \in publishing : p.b \in Builds /\ p.path \in Nat
  BY Zenon DEF TypeOK, PublicationRecords, PollRecords
<1>4. ASSUME rows' \in [Builds -> InitiatorRows], hops' \in [Builds -> Seq(HopRows)],
             endpoints' \in [Builds -> Seq(EndpointRows)], offers' \in [Builds -> Nat],
             pings' \in [Builds -> Nat], WellSent(msgs', hops'),
             publishing' \subseteq PublicationRecords, polling' \subseteq PollRecords,
             UNCHANGED <<drt, age, runtime, restarts>>
      PROVE  TypeOK'
  BY <1>4, Zenon DEF TypeOK, WellSent, PublicationRecords, PollRecords
<1>5. ASSUME NEW answers, Answer(m, answers), WellSent(answers, hops), hops' = hops
      PROVE  WellSent(msgs', hops')
  BY <1>2, <1>5, AnswerFacts
<1>6. WellSent({}, hops)
  BY Zenon DEF WellSent
<1>7. m.type # "CREATE" => WellSent(Onward(m), hops) /\ WellSent(Back(m), hops)
  BY MoveFacts, Zenon DEF WellSent, Moved
<1>8. ASSUME hops' = hops, publishing' \subseteq publishing PROVE PathsExist'
  BY <1>8, Zenon DEF PathsExist
<1>9. CASE handle_route_create(m)
  <2>1. CASE Receiver(m.b, m.path) = rows[m.b].final
    <3>1. _handle_route_create_as_final_node(m)
      BY <1>9, <2>1, Zenon DEF handle_route_create
    <3>2. hops' = hops /\ UNCHANGED <<rows, offers, pings, publishing, polling, drt, age, runtime, restarts>>
      BY <1>9, <3>1, Zenon DEF handle_route_create, _handle_route_create_as_final_node
    <3>3. CASE Answer(m, {}) /\ UNCHANGED endpoints
      BY <1>3, <1>4, <1>5, <1>6, <1>8, <3>2, <3>3, Zenon DEF TypeOK
    <3>4. CASE /\ endpoints' = [endpoints EXCEPT ![m.b] = Append(@,
                     [path |-> m.path, status |-> "pending_validation", offer |-> NoOffer, ping |-> 0])]
               /\ Answer(m, {[Msg("KEM_INFO", m.b, m.path) EXCEPT
                             !.offer = [key |-> Len(endpoints[m.b]) + 1, enc |-> 0]]})
      <4>1. [path |-> m.path, status |-> "pending_validation", offer |-> NoOffer, ping |-> 0] \in EndpointRows
        BY <1>1, Zenon DEF EndpointRows, NoOffer, Offers
      <4>2. endpoints' \in [Builds -> Seq(EndpointRows)]
        BY <1>1, <3>4, <4>1 DEF TypeOK
      <4>3. PICK offer \in Offers : offer = [key |-> Len(endpoints[m.b]) + 1, enc |-> 0]
        <5>1. Len(endpoints[m.b]) + 1 \in Nat
          BY <1>1 DEF TypeOK
        <5> QED
          BY <5>1, Zenon DEF Offers
      <4>4. PICK n : n = [Msg("KEM_INFO", m.b, m.path) EXCEPT !.offer = offer]
        BY Zenon
      <4>5. n \in Messages /\ n.path = m.path /\ n.b = m.b /\ n.type = "KEM_INFO"
        BY <1>1, <4>4, Zenon DEF Msg, Messages, Offers, NoOffer
      <4>6. WellSent({n}, hops)
        BY <1>1, <4>5, Zenon DEF WellSent
      <4>7. WellSent(msgs', hops')
        BY <1>5, <3>2, <3>4, <4>3, <4>4, <4>6, Zenon
      <4> QED
        BY <1>2, <1>3, <1>4, <1>8, <3>2, <4>2, <4>7, Zenon DEF TypeOK
    <3> QED
      BY <3>1, <3>3, <3>4, Zenon DEF _handle_route_create_as_final_node
  <2>2. CASE Receiver(m.b, m.path) # rows[m.b].final
    <3> DEFINE n == Receiver(m.b, m.path)
               next == Len(hops[m.b]) + 1
    <3>1. _forward_route_create(m) /\ m.type = "CREATE"
          /\ UNCHANGED <<rows, offers, pings, publishing, polling, drt, age, runtime, restarts>>
      BY <1>9, <2>2, Zenon DEF handle_route_create
    <3>2. PICK c \in _select_next_candidate(n, rows[m.b].final, Sender(m.b, m.path), m.ttl) :
             /\ hops' = [hops EXCEPT ![m.b] = Append(@,
                          [at |-> n, to |-> c.node, received |-> m.path, valid |-> TRUE])]
             /\ Answer(m, {[m EXCEPT !.path = next, !.ttl = next_remaining_ttl(m.ttl, c.rtt)]})
      BY <3>1, Zenon DEF _forward_route_create
    <3>3. n \in Nodes /\ Sender(m.b, m.path) \in Nodes /\ rows[m.b].final \in Nodes
      <4>1. rows[m.b] \in InitiatorRows /\ hops[m.b] \in Seq(HopRows)
        BY <1>1, Zenon DEF TypeOK
      <4>2. m.path # 0 => hops[m.b][m.path] \in HopRows
        BY <1>1, <1>2, <4>1
      <4> QED
        BY <4>1, <4>2, RouteAssumption, Zenon DEF Receiver, Sender, InitiatorRows, HopRows
    <3>4. c.node \in Nodes /\ c.rtt \in Nat
      BY <1>1, <3>1, <3>3, CandidateFacts
    <3>5. PICK ttl \in Nat \ {0} : ttl = next_remaining_ttl(m.ttl, c.rtt)
      BY <1>1, <3>1, <3>4, TtlFacts, Zenon
    <3>6. PICK row \in HopRows : row = [at |-> n, to |-> c.node, received |-> m.path, valid |-> TRUE]
      BY <1>1, <3>3, <3>4, Zenon DEF HopRows
    <3>7. row.received = m.path /\ next \in Nat
      BY <1>1, <1>2, <3>6
    <3> HIDE DEF n, next
    <3>8. PICK a : a = [m EXCEPT !.path = next, !.ttl = ttl]
      BY Zenon
    <3>9. a \in Messages /\ a.b = m.b /\ a.path = next /\ a.ttl = ttl
      BY <1>1, <3>7, <3>8, Zenon DEF Messages
    <3>10. hops' = [hops EXCEPT ![m.b] = Append(hops[m.b], row)]
      BY <3>2, <3>6, Zenon
    <3>11. /\ hops' \in [Builds -> Seq(HopRows)]
           /\ hops'[m.b] = Append(hops[m.b], row)
           /\ \A b \in Builds \ {m.b} : hops'[b] = hops[b]
      BY <1>1, <1>2, <3>10
    <3>12. /\ Len(hops'[m.b]) = next /\ DOMAIN hops'[m.b] = 1..next
           /\ hops'[m.b][next] = row
           /\ \A i \in DOMAIN hops[m.b] : hops'[m.b][i] = hops[m.b][i]
           /\ DOMAIN hops[m.b] = 1..Len(hops[m.b])
      <4>1. hops[m.b] \in Seq(HopRows)
        BY <1>1, <1>2, Zenon
      <4> QED
        BY <3>11, <4>1, AppendFacts DEF next
    <3>13. \A b \in Builds : Len(hops[b]) <= Len(hops'[b])
      <4>1. Len(hops[m.b]) <= Len(hops'[m.b])
        BY <1>1, <1>2, <3>12 DEF next
      <4>2. \A b \in Builds \ {m.b} : Len(hops'[b]) = Len(hops[b])
        BY <3>11, Zenon
      <4> QED
        BY <1>2, <4>1, <4>2
    <3>14. WellSent({a}, hops')
      BY <3>5, <3>7, <3>9, <3>12 DEF WellSent
    <3>15. Answer(m, {a})
      BY <3>2, <3>5, <3>8, Zenon
    <3>16. WellSent(msgs', hops')
      BY <3>11, <3>13, <3>14, <3>15, AnswerFacts, Zenon
    <3>17. endpoints' = endpoints
      BY <3>1, Zenon DEF _forward_route_create
    <3>18. TypeOK'
      BY <1>3, <1>4, <3>1, <3>11, <3>16, <3>17, Zenon DEF TypeOK
    <3>19. \A p \in publishing' : p.path <= Len(hops'[p.b])
      BY <1>2, <1>3, <3>1, <3>11, <3>13 DEF PathsExist
    <3>20. ASSUME NEW i \in DOMAIN hops'[m.b] PROVE hops'[m.b][i].received < i
      <4>1. CASE i = next
        BY <1>1, <1>2, <3>7, <3>12, <4>1 DEF next
      <4>2. CASE i # next
        BY <1>1, <1>2, <3>12, <4>2 DEF next, PathsExist
      <4> QED
        BY <4>1, <4>2, Zenon
    <3> QED
      BY <3>11, <3>18, <3>19, <3>20, Zenon DEF PathsExist
  <2> QED
    BY <2>1, <2>2, Zenon
<1>10. CASE handle_route_create_kem_info(m)
  <2>1. m.type # "CREATE" /\ UNCHANGED <<hops, endpoints, pings, publishing, polling, drt, age, runtime, restarts>>
    BY <1>10, Zenon DEF handle_route_create_kem_info
  <2>2. ASSUME NEW answers, Answer(m, answers), WellSent(answers, hops), UNCHANGED <<rows, offers>>
        PROVE  TypeOK' /\ PathsExist'
    BY <1>3, <1>4, <1>5, <1>8, <2>1, <2>2, Zenon DEF TypeOK
  <2>3. CASE m.path = 0 /\ IsValid(rows[m.b])
    <3> DEFINE offer == [key |-> m.offer.key, enc |-> offers[m.b] + 1]
    <3>1. /\ offers' = [offers EXCEPT ![m.b] = offer.enc]
          /\ rows' = [rows EXCEPT ![m.b].status = "pending_final_validation",
                                  ![m.b].offer = offer, ![m.b].path = offer.enc]
          /\ Answer(m, {[Msg("VALIDATE", m.b, 0) EXCEPT !.offer = offer]})
      BY <1>10, <2>3, Zenon DEF handle_route_create_kem_info, _handle_local_route_create_kem_info
    <3>2. offer \in Offers /\ offer.enc \in Nat
      <4>1. m.offer.key \in Nat /\ offers[m.b] \in Nat
        BY <1>1, Zenon DEF Offers, TypeOK
      <4> QED
        BY <4>1 DEF Offers
    <3> HIDE DEF offer
    <3>3. offers' \in [Builds -> Nat]
      BY <3>1, <3>2, Zenon DEF TypeOK
    <3>4. rows[m.b] \in InitiatorRows
      BY <1>1, Zenon DEF TypeOK
    <3>5. [rows[m.b] EXCEPT !.status = "pending_final_validation", !.offer = offer, !.path = offer.enc]
            \in InitiatorRows
      BY <3>2, <3>4, Zenon DEF InitiatorRows
    <3>6. rows' \in [Builds -> InitiatorRows]
      BY <1>1, <3>1, <3>5, Zenon DEF TypeOK
    <3>7. PICK n : n = [Msg("VALIDATE", m.b, 0) EXCEPT !.offer = offer]
      BY Zenon
    <3>8. n \in Messages /\ n.path = 0 /\ n.b = m.b /\ n.type = "VALIDATE"
      BY <1>1, <3>2, <3>7, Zenon DEF Msg, Messages, Offers, NoOffer
    <3>9. WellSent({n}, hops)
      BY <1>1, <1>2, <3>8 DEF WellSent
    <3>10. WellSent(msgs', hops')
      BY <1>5, <2>1, <3>1, <3>7, <3>9, Zenon
    <3> QED
      BY <1>2, <1>3, <1>4, <1>8, <2>1, <3>3, <3>6, <3>10, Zenon DEF TypeOK
  <2> QED
    BY <1>6, <1>7, <1>10, <2>1, <2>2, <2>3, Zenon DEF handle_route_create_kem_info, _handle_local_route_create_kem_info
<1>11. CASE handle_route_create_validate_and_publish(m)
  <2>1. /\ m.type # "CREATE"
        /\ UNCHANGED <<rows, hops, offers, publishing, polling, drt, age, runtime, restarts>>
    BY <1>11 DEF handle_route_create_validate_and_publish
  <2>2. ASSUME NEW answers, Answer(m, answers), WellSent(answers, hops), UNCHANGED <<endpoints, pings>>
        PROVE  TypeOK' /\ PathsExist'
    BY <1>3, <1>4, <1>5, <1>8, <2>1, <2>2 DEF TypeOK
  <2> DEFINE usable == {e \in get_endpoint_resolution_by_path_id(m.b, m.path) : e = m.offer.key}
  <2>3. CASE Onward(m) = {} /\ usable # {}
    <3>1. /\ pings' = [pings EXCEPT ![m.b] = @ + 1]
          /\ endpoints' = [endpoints EXCEPT ![m.b][m.offer.key] =
                  [@ EXCEPT !.status = "pending_ping_validation",
                            !.offer = m.offer, !.ping = pings[m.b] + 1]]
          /\ Answer(m, {[Msg("PING", m.b, m.path) EXCEPT !.ping = pings[m.b] + 1]})
      BY <1>11, <2>3, Zenon DEF handle_route_create_validate_and_publish,
                         _handle_local_route_create_validate_and_publish
    <3>2. PICK ping \in Nat : ping = pings[m.b] + 1
      BY <1>1 DEF TypeOK
    <3>3. PICK key : key = m.offer.key
      BY Zenon
    <3>4. key \in DOMAIN endpoints[m.b] /\ endpoints[m.b] \in Seq(EndpointRows)
      BY <1>1, <2>3, <3>3, Zenon DEF get_endpoint_resolution_by_path_id, TypeOK
    <3>5. PICK row : row = [endpoints[m.b][key] EXCEPT !.status = "pending_ping_validation",
                                                       !.offer = m.offer, !.ping = ping]
      BY Zenon
    <3>6. row \in EndpointRows
      <4>1. endpoints[m.b][key] \in EndpointRows
        BY <3>4
      <4> QED
        BY <1>1, <3>5, <4>1, Zenon DEF EndpointRows
    <3>7. endpoints' = [endpoints EXCEPT ![m.b] = [endpoints[m.b] EXCEPT ![key] = row]]
      BY <3>1, <3>2, <3>3, <3>5, Zenon
    <3>8. endpoints' \in [Builds -> Seq(EndpointRows)]
      <4>1. [endpoints[m.b] EXCEPT ![key] = row] \in Seq(EndpointRows)
        BY <3>4, <3>6
      <4> QED
        BY <1>1, <3>7, <4>1, Zenon DEF TypeOK
    <3>9. pings' \in [Builds -> Nat]
      BY <1>1, <3>1 DEF TypeOK
    <3>10. PICK n : n = [Msg("PING", m.b, m.path) EXCEPT !.ping = ping]
      BY Zenon
    <3>11. n \in Messages /\ n.path = m.path /\ n.b = m.b /\ n.type = "PING"
      BY <1>1, <3>10, Zenon DEF Msg, Messages, Offers, NoOffer
    <3>12. WellSent({n}, hops)
      BY <1>1, <3>11, Zenon DEF WellSent
    <3>13. WellSent(msgs', hops')
      BY <1>5, <2>1, <3>1, <3>2, <3>10, <3>12, Zenon
    <3> QED
      BY <1>2, <1>3, <1>4, <1>8, <2>1, <3>8, <3>9, <3>13, Zenon DEF TypeOK
  <2>4. CASE Onward(m) = {} /\ usable = {}
    <3>1. Answer(m, {}) /\ UNCHANGED <<endpoints, pings>>
      BY <1>11, <2>4, Zenon DEF handle_route_create_validate_and_publish,
                         _handle_local_route_create_validate_and_publish
    <3> QED
      BY <1>6, <2>2, <3>1, Zenon
  <2>5. CASE Onward(m) # {}
    BY <1>7, <1>11, <2>1, <2>2, <2>5, Zenon DEF handle_route_create_validate_and_publish
  <2> QED
    BY <2>3, <2>4, <2>5, Zenon
<1>12. CASE handle_route_create_ping(m)
  <2>1. /\ m.type = "PING"
        /\ UNCHANGED <<rows, hops, endpoints, offers, pings, publishing, polling, drt, age, runtime, restarts>>
    BY <1>12, Zenon DEF handle_route_create_ping
  <2>2. ASSUME NEW answers, Answer(m, answers), WellSent(answers, hops)
        PROVE  TypeOK' /\ PathsExist'
    BY <1>3, <1>4, <1>5, <1>8, <2>1, <2>2, Zenon DEF TypeOK
  <2>3. PICK n : n = [m EXCEPT !.type = "PONG"]
    BY Zenon
  <2>4. n \in Messages /\ n.path = m.path /\ n.b = m.b /\ n.type = "PONG"
    BY <1>1, <2>3, Zenon DEF Messages
  <2>5. WellSent({n}, hops)
    BY <1>1, <2>4, Zenon DEF WellSent
  <2>6. \E answers \in {{}, {n}, Back(m)} : Answer(m, answers)
    BY <1>12, <2>3, Zenon DEF handle_route_create_ping, _handle_local_route_create_ping
  <2> QED
    BY <1>6, <1>7, <2>1, <2>2, <2>5, <2>6, Zenon
<1>13. CASE handle_route_create_pong(m)
  <2>1. /\ m.type = "PONG"
        /\ UNCHANGED <<rows, hops, offers, pings, polling, drt, age, runtime, restarts>>
    BY <1>13, Zenon DEF handle_route_create_pong
  <2>2. ASSUME NEW answers, Answer(m, answers), WellSent(answers, hops),
               endpoints' \in [Builds -> Seq(EndpointRows)], publishing' \subseteq publishing
        PROVE  TypeOK' /\ PathsExist'
    BY <1>3, <1>4, <1>5, <1>8, <2>1, <2>2, Zenon DEF TypeOK
  <2>3. endpoints \in [Builds -> Seq(EndpointRows)]
    BY Zenon DEF TypeOK
  <2> DEFINE found == {e \in get_endpoint_resolution_by_path_id(m.b, m.path) :
                         endpoints[m.b][e].offer # NoOffer}
  <2>4. CASE Answer(m, {}) /\ UNCHANGED <<endpoints, publishing>>
    BY <1>6, <2>2, <2>3, <2>4, Zenon
  <2>5. CASE /\ endpoints' = invalidate_endpoint_resolution(m.b, m.path)
             /\ Answer(m, {Msg("FAIL", m.b, m.path)})
             /\ UNCHANGED publishing
    <3>1. PICK n : n = Msg("FAIL", m.b, m.path)
      BY Zenon
    <3>2. n \in Messages /\ n.path = m.path /\ n.b = m.b /\ n.type = "FAIL"
      BY <1>1, <3>1, Zenon DEF Msg, Messages, Offers, NoOffer
    <3>3. WellSent({n}, hops)
      BY <1>1, <3>2 DEF WellSent
    <3>4. endpoints' \in [Builds -> Seq(EndpointRows)]
      BY <1>1, <2>5, EndpointInvalidated
    <3> QED
      BY <2>2, <2>5, <3>1, <3>3, <3>4, Zenon
  <2>6. ASSUME NEW e \in found,
               endpoints' = [endpoints EXCEPT ![m.b][e].status = "active"],
               publishing' = publishing \cup
                  {[b |-> m.b, path |-> m.path, offer |-> endpoints[m.b][e].offer]},
               Answer(m, {})
        PROVE  TypeOK' /\ PathsExist'
    <3>1. e \in DOMAIN endpoints[m.b] /\ endpoints[m.b] \in Seq(EndpointRows)
      BY <1>1, <2>6, Zenon DEF get_endpoint_resolution_by_path_id, TypeOK
    <3>2. endpoints[m.b][e] \in EndpointRows
      BY <3>1
    <3>3. PICK row : row = [endpoints[m.b][e] EXCEPT !.status = "active"]
      BY Zenon
    <3>4. row \in EndpointRows
      BY <3>2, <3>3, Zenon DEF EndpointRows
    <3>5. endpoints' = [endpoints EXCEPT ![m.b] = [endpoints[m.b] EXCEPT ![e] = row]]
      BY <2>6, <3>3, Zenon
    <3>6. [endpoints[m.b] EXCEPT ![e] = row] \in Seq(EndpointRows)
      BY <3>1, <3>4
    <3>7. endpoints' \in [Builds -> Seq(EndpointRows)]
      BY <2>3, <3>5, <3>6, Zenon
    <3>8. PICK p : p = [b |-> m.b, path |-> m.path, offer |-> endpoints[m.b][e].offer]
      BY Zenon
    <3>9. p \in PublicationRecords /\ p.b = m.b /\ p.path = m.path
      BY <1>1, <3>2, <3>8, Zenon DEF PublicationRecords, EndpointRows
    <3>10. publishing' \subseteq PublicationRecords /\ \A q \in publishing' : q.path <= Len(hops[q.b])
      BY <1>1, <1>3, <2>6, <3>8, <3>9, Zenon DEF PathsExist
    <3>11. WellSent(msgs', hops')
      BY <1>5, <1>6, <2>1, <2>6, Zenon
    <3>12. PathsExist'
      BY <2>1, <3>10, Zenon DEF PathsExist
    <3> QED
      BY <1>2, <1>3, <1>4, <2>1, <3>7, <3>10, <3>11, <3>12, Zenon DEF TypeOK
  <2>7. CASE Onward(m) # {}
    BY <1>7, <1>13, <2>1, <2>2, <2>3, <2>7, Zenon DEF handle_route_create_pong
  <2>8. CASE Onward(m) = {}
    BY <1>13, <2>4, <2>5, <2>6, <2>8, Zenon DEF handle_route_create_pong, _handle_local_route_create_pong
  <2> QED
    BY <2>7, <2>8, Zenon
<1>14. CASE handle_route_create_ok(m)
  <2>1. /\ m.type = "OK"
        /\ UNCHANGED <<rows, hops, endpoints, offers, pings, publishing, drt, age, runtime, restarts>>
    BY <1>14, Zenon DEF handle_route_create_ok
  <2>2. ASSUME NEW answers, Answer(m, answers), WellSent(answers, hops), polling' \subseteq PollRecords
        PROVE  TypeOK' /\ PathsExist'
    BY <1>3, <1>4, <1>5, <1>8, <2>1, <2>2, Zenon DEF TypeOK
  <2>3. [b |-> m.b, path |-> m.offer.enc] \in PollRecords
    BY <1>1, Zenon DEF PollRecords, Offers
  <2>4. CASE m.path = 0
    <3>1. Answer(m, {}) /\ polling' \subseteq PollRecords
      BY <1>3, <1>14, <2>3, <2>4, Zenon DEF handle_route_create_ok, _handle_local_route_create_ok
    <3> QED
      BY <1>6, <2>2, <3>1, Zenon
  <2>5. CASE m.path # 0
    BY <1>3, <1>7, <1>14, <2>1, <2>2, <2>5, Zenon DEF handle_route_create_ok
  <2> QED
    BY <2>4, <2>5, Zenon
<1>15. CASE handle_route_create_fail(m)
  <2>1. /\ m.type = "FAIL" /\ Answer(m, Back(m))
        /\ UNCHANGED <<endpoints, offers, pings, publishing, polling, drt, age, runtime, restarts>>
    BY <1>15 DEF handle_route_create_fail
  <2>2. CASE rows' = invalidate_initiator_resolution(m.b) /\ UNCHANGED hops
    <3>1. rows' \in [Builds -> InitiatorRows]
      BY <2>2, InitiatorRowFacts, Zenon
    <3> QED
      BY <1>2, <1>3, <1>4, <1>5, <1>7, <1>8, <2>1, <2>2, <3>1, Zenon DEF TypeOK
  <2>3. CASE hops' = invalidate_hop_resolution(m.b, m.path) /\ UNCHANGED rows
    <3>1. /\ hops' \in [Builds -> Seq(HopRows)]
          /\ \A c \in Builds \ {m.b} : hops'[c] = hops[c]
          /\ Len(hops'[m.b]) = Len(hops[m.b]) /\ DOMAIN hops'[m.b] = DOMAIN hops[m.b]
          /\ \A i \in DOMAIN hops[m.b] : hops'[m.b][i].received = hops[m.b][i].received
      BY <1>1, <2>3, HopInvalidated
    <3>2. \A b \in Builds : Len(hops'[b]) = Len(hops[b])
      BY <3>1, Zenon
    <3>3. WellSent(Back(m), hops')
      BY <1>7, <2>1, <3>2, Zenon DEF WellSent, Messages
    <3>4. \A b \in Builds : Len(hops[b]) <= Len(hops'[b])
      BY <1>2, <3>2
    <3>5. WellSent(msgs', hops')
      BY <2>1, <3>1, <3>3, <3>4, AnswerFacts, Zenon
    <3>6. PathsExist'
      BY <1>1, <1>3, <2>1, <3>1, <3>2, Zenon DEF PathsExist
    <3> QED
      BY <1>3, <1>4, <2>1, <2>3, <3>1, <3>5, <3>6, Zenon DEF TypeOK
  <2> QED
    BY <1>15, <2>2, <2>3, Zenon DEF handle_route_create_fail
<1> QED
  BY <1>9, <1>10, <1>11, <1>12, <1>13, <1>14, <1>15, Zenon DEF Receive

\* The initiator's runtime, awaits that end, time and restarts.
LEMMA TypeMaintenance ==
    ASSUME TypeOK, PathsExist, Maintenance
    PROVE  TypeOK' /\ PathsExist'
<1>1. UNCHANGED <<hops, endpoints, offers, pings, publishing, polling, drt, age, restarts>>
  BY Zenon DEF Maintenance, _run_once, _read_drt_route_health, route_create_send_returns
<1>2. ASSUME rows' \in [Builds -> InitiatorRows], WellSent(msgs', hops), runtime' \in RuntimeRecords
      PROVE  TypeOK' /\ PathsExist'
  BY <1>1, <1>2, Zenon DEF TypeOK, PathsExist, WellSent, RuntimeRecords
<1>3. WellSent(msgs, hops) /\ runtime \in RuntimeRecords /\ rows \in [Builds -> InitiatorRows]
  BY Zenon DEF TypeOK, WellSent, RuntimeRecords
<1>4. Idle \in RuntimeRecords
  <2>1. 0 \in 0..MaxBuilds
    BY Numbers
  <2> QED
    BY <2>1, Zenon DEF Idle, RuntimeRecords
<1>5. CASE _run_once
  <2> DEFINE expired == [b \in Builds |->
                      IF b \in Stale THEN [rows[b] EXCEPT !.status = "invalid"] ELSE rows[b]]
             latest == Max(Active(expired))
             pending == Cardinality(Pending(expired))
  <2>1. expired \in [Builds -> InitiatorRows]
    <3>1. \A row \in InitiatorRows : [row EXCEPT !.status = "invalid"] \in InitiatorRows
      BY Zenon DEF InitiatorRows
    <3> QED
      BY <1>3, <3>1, Zenon
  <2>2. pending \in Nat
    <3> HIDE DEF expired
    <3> QED
      BY CountFacts, Zenon
  <2>3. Active(expired) # {} => latest \in Builds
    <3> HIDE DEF expired
    <3>1. Active(expired) \subseteq Builds
      BY Zenon DEF Active
    <3> QED
      BY <3>1, LatestIsActive, Zenon
  <2> HIDE DEF expired, latest, pending
  <2>4. CASE Active(expired) # {} /\ rows' = expired /\ UNCHANGED msgs
             /\ runtime' = [pc |-> "health", route |-> latest, final |-> rows[latest].path, pending |-> pending]
    <3>1. latest \in 0..MaxBuilds /\ rows[latest].path \in Nat
      BY <1>3, <2>3, <2>4, Numbers DEF Builds, InitiatorRows
    <3>2. runtime' \in RuntimeRecords
      BY <2>2, <2>4, <3>1, Zenon DEF RuntimeRecords
    <3> QED
      BY <1>2, <1>3, <2>1, <2>4, <3>2, Zenon
  <2>5. CASE rows' = expired /\ UNCHANGED <<msgs, runtime>>
    BY <1>2, <1>3, <2>1, <2>5, Zenon
  <2>6. CASE _start_route_build(expired)
    BY <1>1, <1>2, <2>1, <2>6, StartTypes, Zenon
  <2> QED
    BY <1>5, <2>4, <2>5, <2>6, Zenon DEF _run_once, expired, latest, pending
<1>6. ASSUME NEW answer, NEW bound, _read_drt_route_health(answer, bound) PROVE TypeOK' /\ PathsExist'
  <2>1. invalidate_initiator_resolution(runtime.route) \in [Builds -> InitiatorRows]
    BY InitiatorRowFacts, Zenon
  <2>2. ASSUME NEW kept \in [Builds -> InitiatorRows],
               _start_route_build(kept) \/ (rows' = kept /\ runtime' = Idle /\ UNCHANGED msgs)
        PROVE  TypeOK' /\ PathsExist'
    BY <1>1, <1>2, <1>3, <1>4, <2>2, StartTypes, Zenon
  <2>3. \E kept \in {rows, invalidate_initiator_resolution(runtime.route)} :
           _start_route_build(kept) \/ (rows' = kept /\ runtime' = Idle /\ UNCHANGED msgs)
    BY <1>6, Zenon DEF _read_drt_route_health
  <2> QED
    BY <1>3, <2>1, <2>2, <2>3, Zenon
<1>7. CASE route_create_send_returns
  <2>1. rows' \in [Builds -> InitiatorRows] /\ runtime' = Idle /\ msgs' = msgs
    BY <1>3, <1>7, InitiatorRowFacts, Zenon DEF route_create_send_returns
  <2> QED
    BY <1>2, <1>3, <1>4, <2>1, Zenon
<1> QED
  BY <1>5, <1>6, <1>7, Zenon DEF Maintenance

LEMMA TypeRest ==
    ASSUME TypeOK, PathsExist, Next, \A m \in msgs : ~ Receive(m), ~ Maintenance
    PROVE  TypeOK' /\ PathsExist'
<1>1. WellSent(msgs, hops) /\ \A b \in Builds : Len(hops[b]) \in Nat
  BY DEF TypeOK, WellSent
<1>2. /\ publishing \subseteq PublicationRecords /\ polling \subseteq PollRecords
      /\ \A p \in publishing : p.b \in Builds /\ p.path \in Nat /\ p.offer \in Offers
      /\ \A p \in polling : p.b \in Builds /\ p.path \in Nat
  BY Zenon DEF TypeOK, PublicationRecords, PollRecords
<1>3. ASSUME NEW p \in publishing, _publish_drt_route_after_pong(p) PROVE TypeOK' /\ PathsExist'
  <2>1. /\ publishing' = publishing \ {p}
        /\ UNCHANGED <<rows, hops, offers, pings, polling, age, runtime, restarts>>
    BY <1>3, Zenon DEF _publish_drt_route_after_pong
  <2>2. <<p.b, p.offer.enc>> \in Builds \X Nat
    BY <1>2, Zenon DEF Offers
  <2>3. PICK es : es = invalidate_endpoint_resolution(p.b, p.path)
    BY Zenon
  <2>4. es \in [Builds -> Seq(EndpointRows)]
    BY <1>2, <2>3, EndpointInvalidated, Zenon
  <2>5. drt' \subseteq Builds \X Nat /\ endpoints' \in [Builds -> Seq(EndpointRows)]
    BY <1>3, <2>2, <2>3, <2>4, Zenon DEF _publish_drt_route_after_pong, TypeOK
  <2>6. PICK ok : ok = [Msg("OK", p.b, p.path) EXCEPT !.offer = p.offer]
    BY Zenon
  <2>7. PICK fail : fail = Msg("FAIL", p.b, p.path)
    BY Zenon
  <2>8. /\ ok \in Messages /\ ok.path = p.path /\ ok.b = p.b /\ ok.type = "OK"
        /\ fail \in Messages /\ fail.path = p.path /\ fail.b = p.b /\ fail.type = "FAIL"
    BY <1>2, <2>6, <2>7, Zenon DEF Msg, Messages, Offers, NoOffer
  <2>9. WellSent({ok}, hops) /\ WellSent({fail}, hops)
    BY <2>8, Zenon DEF WellSent, PathsExist
  <2>10. msgs' \in {msgs \cup {ok}, msgs \cup {fail}}
    BY <1>3, <2>6, <2>7, Zenon DEF _publish_drt_route_after_pong
  <2>11. WellSent(msgs', hops)
    BY <1>1, <2>9, <2>10, Zenon DEF WellSent
  <2> QED
    BY <2>1, <2>5, <2>11, Zenon DEF TypeOK, PathsExist, WellSent
<1>4. ASSUME NEW p \in polling, _is_route_visible_in_drt(p) PROVE TypeOK' /\ PathsExist'
  <2>1. rows' \in [Builds -> InitiatorRows]
    BY <1>2, <1>4, InitiatorRowFacts, Zenon DEF _is_route_visible_in_drt
  <2> QED
    BY <1>4, <2>1, Zenon DEF _is_route_visible_in_drt, TypeOK, PathsExist
<1>5. ASSUME NEW b \in Builds, build_timeout_passes(b) PROVE TypeOK' /\ PathsExist'
  <2>1. age[b] \in 0..2 /\ age[b] < 2
    BY <1>5 DEF build_timeout_passes, _pending_timeout_for_status, TypeOK
  <2>2. age' \in [Builds -> 0..2]
    BY <1>5, <2>1 DEF build_timeout_passes, TypeOK
  <2> QED
    BY <1>5, <2>2, Zenon DEF build_timeout_passes, TypeOK, PathsExist
<1>6. ASSUME NEW e \in drt, drt_entry_expires(e) PROVE TypeOK' /\ PathsExist'
  BY <1>6, Zenon DEF drt_entry_expires, TypeOK, PathsExist
<1>7. ASSUME NEW n \in Nodes, core_restarts(n) PROVE TypeOK' /\ PathsExist'
  <2>1. restarts' \in 0..MaxRestarts
    BY <1>7, Numbers DEF core_restarts, TypeOK
  <2>2. publishing' \subseteq publishing /\ polling' \subseteq polling /\ age' \in [Builds -> 0..2]
    BY <1>7 DEF core_restarts, TypeOK
  <2>3. runtime' \in RuntimeRecords
    <3>1. runtime \in RuntimeRecords /\ 0 \in 0..MaxBuilds
      BY Numbers DEF TypeOK, RuntimeRecords
    <3>2. Idle \in RuntimeRecords
      BY <3>1, Zenon DEF Idle, RuntimeRecords
    <3> QED
      BY <1>7, <3>1, <3>2, Zenon DEF core_restarts
  <2> QED
    BY <1>7, <2>1, <2>2, <2>3, Zenon DEF core_restarts, TypeOK, PathsExist, RuntimeRecords
<1> QED
  BY <1>3, <1>4, <1>5, <1>6, <1>7, Zenon DEF Next

LEMMA TypeStep == TypeOK /\ PathsExist /\ [Next]_vars => TypeOK' /\ PathsExist'
<1>1. ASSUME TypeOK, PathsExist, UNCHANGED vars PROVE TypeOK' /\ PathsExist'
  BY <1>1, Zenon DEF vars, TypeOK, PathsExist
<1> QED
  BY <1>1, TypeReceive, TypeMaintenance, TypeRest, Zenon

LEMMA TypeInit == Init => TypeOK /\ PathsExist
<1> SUFFICES ASSUME Init PROVE TypeOK /\ PathsExist
  BY Zenon
<1>1. [status |-> "none", first |-> Self, final |-> Self, offer |-> NoOffer, path |-> 0] \in InitiatorRows
  BY RouteAssumption, Zenon DEF InitiatorRows, NoOffer, Offers
<1>2. rows \in [Builds -> InitiatorRows] /\ hops \in [Builds -> Seq(HopRows)]
      /\ endpoints \in [Builds -> Seq(EndpointRows)]
  BY <1>1 DEF Init
<1>3. 0 \in 0..MaxBuilds /\ 0 \in 0..MaxRestarts
  BY Numbers
<1>4. Idle \in RuntimeRecords
  BY <1>3, Zenon DEF Idle, RuntimeRecords
<1>5. \A b \in Builds : hops[b] = <<>>
  BY Zenon DEF Init
<1> QED
  BY <1>2, <1>3, <1>4, <1>5 DEF Init, TypeOK, PathsExist, RuntimeRecords

\* Rows and messages are always those of the code, also where messages
\* arrive more than once: no handler uses a path id that no hop generated,
\* and no walk goes on without time to live.
THEOREM TypeCorrect == Spec => []TypeOK
<1> QED
  BY TypeInit, TypeStep, PTL DEF Spec
-----------------------------------------------------------------------------

(* Where messages arrive at most once a build is carried by one message,   *)
(* publication or poll at a time, which says how far the build is.         *)

\* All hops pass messages on.
AllValid(b) == \A i \in DOMAIN hops[b] : hops[b][i].valid

\* The one endpoint row is at the end of the walk.
Endpoint(b, status) ==
    /\ Len(endpoints[b]) = 1
    /\ endpoints[b][1].path = Len(hops[b])
    /\ endpoints[b][1].status = status

\* Initiator and endpoint agree on the secret and on the final path id.
Agreed(b) == endpoints[b][1].offer = rows[b].offer /\ rows[b].path = rows[b].offer.enc

Stage(m) ==
    LET b == m.b
    IN  /\ m.type = "CREATE" =>
             /\ rows[b].status \in {"pending_kem_offer", "invalid"}
             /\ AllValid(b) /\ Len(endpoints[b]) = 0
             /\ m.path = Len(hops[b])
             /\ Receiver(b, m.path) # rows[b].final => Len(hops[b]) + m.ttl <= InitialTtl
        /\ m.type = "KEM_INFO" =>
             /\ rows[b].status \in {"pending_kem_offer", "invalid"}
             /\ AllValid(b) /\ Endpoint(b, "pending_validation")
             /\ m.offer.key = 1
        /\ m.type = "VALIDATE" =>
             /\ rows[b].status \in {"pending_final_validation", "invalid"}
             /\ AllValid(b) /\ Endpoint(b, "pending_validation")
             /\ m.offer.key = 1
             /\ rows[b].offer = m.offer /\ rows[b].path = m.offer.enc
        /\ m.type \in {"PING", "PONG"} =>
             /\ rows[b].status \in {"pending_final_validation", "invalid"}
             /\ AllValid(b) /\ Endpoint(b, "pending_ping_validation") /\ Agreed(b)
        /\ m.type = "OK" =>
             /\ rows[b].status \in {"pending_final_validation", "invalid"}
             /\ AllValid(b) /\ Endpoint(b, "active") /\ Agreed(b)
        /\ m.type = "FAIL" =>
             rows[b].status \in {"pending_final_validation", "invalid"}

\* A publication or a poll is awaited.
Published(b) ==
    /\ rows[b].status \in {"pending_final_validation", "invalid"}
    /\ AllValid(b) /\ Endpoint(b, "active") /\ Agreed(b)

BuildInv(b) ==
    /\ \A i \in DOMAIN hops[b] : hops[b][i].received = i - 1
    /\ Len(hops[b]) <= InitialTtl
    /\ rows[b].status = "none" => Len(hops[b]) = 0 /\ Len(endpoints[b]) = 0
    /\ rows[b].status = "active" => AllValid(b) /\ Endpoint(b, "active") /\ Agreed(b)
    /\ \A m \in msgs : m.b = b =>
         /\ Stage(m)
         /\ \A n \in msgs : n.b = b => n = m
         /\ \A p \in publishing \cup polling : p.b # b
    /\ \A p \in publishing : p.b = b =>
         /\ Published(b) /\ p.offer = rows[b].offer
         /\ \A q \in publishing : q.b = b => q = p
         /\ \A q \in polling : q.b # b
    /\ \A p \in polling : p.b = b =>
         /\ Published(b) /\ p.path = rows[b].path
         /\ \A q \in polling : q.b = b => q = p

\* Builds are started in order.
InOrder == \E k \in 0..MaxBuilds : \A b \in Builds : rows[b].status # "none" <=> b <= k

OnceInv == InOrder /\ \A b \in Builds : BuildInv(b)

\* The count that the maintenance loop made before its await is not too low.
CountInv ==
    /\ IsFiniteSet(drt)
    /\ PendingBounded
    /\ runtime.pc = "health" => Cardinality(Pending(rows)) <= runtime.pending

-----------------------------------------------------------------------------
(* One message at a time.                                                  *)

\* The initiator's row of a build stays as it is, or is given up.
StaysOrGivenUp(b) ==
    \/ rows'[b] = rows[b]
    \/ rows[b].status # "none" /\ rows'[b] = [rows[b] EXCEPT !.status = "invalid"]

\* Nothing new carries the build.
NothingNew(b) ==
    /\ \A m \in msgs' : m.b = b => m \in msgs
    /\ \A p \in publishing' : p.b = b => p \in publishing
    /\ \A p \in polling' : p.b = b => p \in polling

LEMMA BuildStays ==
    ASSUME TypeOK, NEW b \in Builds, BuildInv(b), StaysOrGivenUp(b), NothingNew(b),
           hops'[b] = hops[b], endpoints'[b] = endpoints[b]
    PROVE  BuildInv(b)' /\ (rows'[b].status = "none" <=> rows[b].status = "none")
<1>1. rows[b] \in InitiatorRows
  BY Zenon DEF TypeOK
<1>2. /\ rows'[b].status \in {rows[b].status, "invalid"}
      /\ rows'[b].status = "none" <=> rows[b].status = "none"
      /\ rows'[b].first = rows[b].first /\ rows'[b].final = rows[b].final
      /\ rows'[b].offer = rows[b].offer /\ rows'[b].path = rows[b].path
  BY <1>1, Zenon DEF StaysOrGivenUp, InitiatorRows
<1>3. /\ AllValid(b)' <=> AllValid(b)
      /\ \A status : Endpoint(b, status)' <=> Endpoint(b, status)
      /\ Agreed(b)' <=> Agreed(b)
  BY <1>2, Zenon DEF AllValid, Endpoint, Agreed
<1>4. ASSUME NEW m \in msgs, m.b = b, Stage(m) PROVE Stage(m)'
  <2>1. \A path : Receiver(b, path)' = Receiver(b, path)
    BY <1>2, Zenon DEF Receiver
  <2> QED
    BY <1>2, <1>3, <1>4, <2>1, Zenon DEF Stage
<1>5. Published(b) => Published(b)'
  BY <1>2, <1>3, Zenon DEF Published
<1> QED
  BY <1>2, <1>3, <1>4, <1>5, Zenon DEF BuildInv, NothingNew

\* A step concerns one build; the others stay as they are.
LEMMA OtherBuildsStay ==
    ASSUME TypeOK, OnceInv, NEW b \in Builds,
           \A c \in Builds \ {b} : /\ StaysOrGivenUp(c) /\ NothingNew(c)
                                   /\ hops'[c] = hops[c] /\ endpoints'[c] = endpoints[c],
           rows'[b].status = "none" <=> rows[b].status = "none",
           BuildInv(b)'
    PROVE  OnceInv'
<1>1. \A c \in Builds : BuildInv(c)' /\ (rows'[c].status = "none" <=> rows[c].status = "none")
  BY BuildStays, Zenon DEF OnceInv
<1>2. InOrder'
  BY <1>1, Zenon DEF OnceInv, InOrder
<1> QED
  BY <1>1, <1>2, Zenon DEF OnceInv

\* Where messages arrive at most once the message that is handled is the only
\* one of its build, and its answers take its place.
LEMMA TakesItsPlace ==
    ASSUME TypeOK, OnceInv, Duplicating = FALSE, NEW m \in msgs, NEW answers,
           Answer(m, answers), \A n \in answers : n.b = m.b
    PROVE  /\ \A n \in msgs' : n.b = m.b => n \in answers
           /\ \A n \in msgs' : n.b # m.b => n \in msgs
           /\ \A p \in publishing \cup polling : p.b # m.b
           /\ Stage(m) /\ m.b \in Builds
<1>1. m.b \in Builds
  BY Zenon DEF TypeOK, Messages
<1>2. BuildInv(m.b)
  BY <1>1, Zenon DEF OnceInv
<1>3. msgs' = (msgs \ {m}) \cup answers
  BY Zenon DEF Answer, Consumed
<1> QED
  BY <1>1, <1>2, <1>3, Zenon DEF BuildInv

LEMMA IsConsumed ==
    ASSUME TypeOK, OnceInv, Duplicating = FALSE, NEW m \in msgs, Answer(m, {})
    PROVE  /\ \A n \in msgs' : n.b # m.b /\ n \in msgs
           /\ \A p \in publishing \cup polling : p.b # m.b
<1>1. m.b \in Builds
  BY Zenon DEF TypeOK, Messages
<1>2. BuildInv(m.b)
  BY <1>1, Zenon DEF OnceInv
<1>3. msgs' = msgs \ {m}
  BY Zenon DEF Answer, Consumed
<1> QED
  BY <1>2, <1>3, Zenon DEF BuildInv

\* A build whose one message is handled goes on with at most one message n,
\* in the stage that n says.
LEMMA GoesOn ==
    ASSUME TypeOK, OnceInv, Duplicating = FALSE, NEW m \in msgs, NEW n, NEW answers,
           answers \in {{}, {n}}, Answer(m, answers), n.b = m.b,
           UNCHANGED <<publishing, polling>>,
           \A c \in Builds \ {m.b} : /\ rows'[c] = rows[c]
                                     /\ hops'[c] = hops[c] /\ endpoints'[c] = endpoints[c],
           rows'[m.b].status \notin {"none", "active"},
           \A i \in DOMAIN hops'[m.b] : hops'[m.b][i].received = i - 1,
           Len(hops'[m.b]) <= InitialTtl,
           answers # {} => Stage(n)'
    PROVE  OnceInv'
<1>1. /\ \A x \in msgs' : x.b = m.b => x \in answers
      /\ \A x \in msgs' : x.b # m.b => x \in msgs
      /\ \A p \in publishing \cup polling : p.b # m.b
      /\ Stage(m) /\ m.b \in Builds
  <2>1. \A x \in answers : x.b = m.b
    BY Zenon
  <2> QED
    BY <2>1, TakesItsPlace, Zenon
<1>2. rows[m.b].status # "none"
  BY <1>1, Zenon DEF Stage, TypeOK, Messages
<1>3. BuildInv(m.b)'
  BY <1>1, Zenon DEF BuildInv
<1>4. \A c \in Builds \ {m.b} : StaysOrGivenUp(c) /\ NothingNew(c)
  BY <1>1, Zenon DEF StaysOrGivenUp, NothingNew
<1> QED
  BY <1>1, <1>2, <1>3, <1>4, OtherBuildsStay, Zenon

LEMMA BuildFacts ==
    ASSUME TypeOK, NEW b \in Builds
    PROVE  /\ rows[b] \in InitiatorRows
           /\ hops[b] \in Seq(HopRows) /\ Len(hops[b]) \in Nat /\ DOMAIN hops[b] = 1..Len(hops[b])
           /\ endpoints[b] \in Seq(EndpointRows) /\ Len(endpoints[b]) \in Nat
           /\ DOMAIN endpoints[b] = 1..Len(endpoints[b])
  BY DEF TypeOK

\* A path id leads to at most one row in each direction.
LEMMA AtMostOneWay ==
    ASSUME TypeOK, PathsExist, NEW m \in msgs
    PROVE  /\ \E n : n.b = m.b /\ Onward(m) \in {{}, {n}} /\ (Onward(m) # {} => Moved(m, n))
           /\ \E n : n.b = m.b /\ Back(m) \in {{}, {n}} /\ (Back(m) # {} => Moved(m, n))
<1>1. /\ m.b \in Builds
      /\ \A n \in Onward(m) : Moved(m, n)
      /\ \A n \in Back(m) : Moved(m, n)
  BY MoveFacts, Zenon
<1>2. \A i, j \in _resolve_forward_path(m.b, m.path) : i = j
  <2>1. \A i, j \in _resolve_forward_path(m.b, m.path) : i <= j /\ j <= i /\ i \in Nat /\ j \in Nat
    BY <1>1, BuildFacts DEF _resolve_forward_path
  <2> QED
    BY <2>1
<1>3. \A n, o \in Onward(m) : n = o
  BY <1>2, Zenon DEF Onward
<1>4. \A n, o \in Back(m) : n = o
  BY Zenon DEF Back, _resolve_reverse_path
<1>5. ASSUME NEW S, \A n, o \in S : n = o, \A n \in S : Moved(m, n)
      PROVE  \E n : n.b = m.b /\ S \in {{}, {n}} /\ (S # {} => Moved(m, n))
  <2>1. CASE S = {}
    BY <2>1, Zenon
  <2>2. CASE S # {}
    <3>1. PICK n \in S : TRUE
      BY <2>2, Zenon
    <3>2. S = {n} /\ Moved(m, n)
      BY <1>5, <3>1, Zenon
    <3> QED
      BY <3>2, Zenon DEF Moved
  <2> QED
    BY <2>1, <2>2, Zenon
<1> QED
  BY <1>1, <1>3, <1>4, <1>5, Zenon

\* A message that is passed on, or dropped, leaves the build in its stage.
LEMMA PassedOn ==
    ASSUME TypeOK, PathsExist, OnceInv, Duplicating = FALSE, NEW m \in msgs, m.type # "CREATE",
           NEW answers \in {{}, Onward(m), Back(m)}, Answer(m, answers),
           UNCHANGED <<rows, hops, endpoints, publishing, polling>>
    PROVE  OnceInv'
<1>1. m.b \in Builds /\ m.type \in MessageTypes
  BY Zenon DEF TypeOK, Messages, MessageTypes
<1>2. BuildInv(m.b) /\ Stage(m)
  BY <1>1, Zenon DEF OnceInv, BuildInv
<1>3. PICK n : n.b = m.b /\ answers \in {{}, {n}} /\ (answers # {} => Moved(m, n))
  BY AtMostOneWay, Zenon
<1>4. rows[m.b].status \notin {"none", "active"}
  BY <1>1, <1>2, Zenon DEF Stage, MessageTypes
<1>5. answers # {} => Stage(n)'
  BY <1>2, <1>3, Zenon DEF Moved, Stage, AllValid, Endpoint, Agreed
<1>6. /\ \A c \in Builds \ {m.b} : /\ rows'[c] = rows[c]
                                     /\ hops'[c] = hops[c] /\ endpoints'[c] = endpoints[c]
      /\ rows'[m.b].status \notin {"none", "active"}
      /\ \A i \in DOMAIN hops'[m.b] : hops'[m.b][i].received = i - 1
      /\ Len(hops'[m.b]) <= InitialTtl
  BY <1>2, <1>4, Zenon DEF BuildInv
<1> QED
  BY <1>3, <1>5, <1>6, GoesOn, Zenon

LEMMA OnceCreate ==
    ASSUME TypeOK, PathsExist, OnceInv, Duplicating = FALSE, NEW m \in msgs, handle_route_create(m)
    PROVE  OnceInv'
<1> DEFINE b == m.b
<1>1. /\ m \in Messages /\ b \in Builds /\ m.type = "CREATE" /\ m.path \in Nat /\ m.ttl \in Nat \ {0}
      /\ UNCHANGED <<rows, publishing, polling>>
  BY DEF TypeOK, Messages, handle_route_create
<1>2. BuildInv(b) /\ Stage(m)
  BY <1>1, Zenon DEF OnceInv, BuildInv
<1>3. /\ rows[b].status \in {"pending_kem_offer", "invalid"}
      /\ AllValid(b) /\ Len(endpoints[b]) = 0 /\ m.path = Len(hops[b])
      /\ Receiver(b, m.path) # rows[b].final => Len(hops[b]) + m.ttl <= InitialTtl
  BY <1>1, <1>2, Zenon DEF Stage
<1>4. /\ \A i \in DOMAIN hops[b] : hops[b][i].received = i - 1
      /\ Len(hops[b]) <= InitialTtl
  BY <1>2, Zenon DEF BuildInv
<1>5. /\ rows[b] \in InitiatorRows
      /\ hops[b] \in Seq(HopRows) /\ Len(hops[b]) \in Nat /\ DOMAIN hops[b] = 1..Len(hops[b])
      /\ endpoints[b] \in Seq(EndpointRows) /\ DOMAIN endpoints[b] = 1..Len(endpoints[b])
  BY <1>1, BuildFacts, Zenon
<1>6. CASE Receiver(b, m.path) = rows[b].final
  <2>1. _handle_route_create_as_final_node(m)
    BY <1>6, Zenon DEF handle_route_create
  <2>2. DOMAIN endpoints[b] = {}
    BY <1>3, <1>5
  <2>3. PICK row : row = [path |-> m.path, status |-> "pending_validation", offer |-> NoOffer, ping |-> 0]
    BY Zenon
  <2>4. PICK n : n = [Msg("KEM_INFO", b, m.path) EXCEPT !.offer = [key |-> Len(endpoints[b]) + 1, enc |-> 0]]
    BY Zenon
  <2>5. /\ endpoints' = [endpoints EXCEPT ![b] = Append(endpoints[b], row)]
        /\ Answer(m, {n}) /\ hops' = hops
    BY <2>1, <2>2, <2>3, <2>4, Zenon DEF _handle_route_create_as_final_node
  <2>6. n.b = b /\ n.type = "KEM_INFO" /\ n.offer.key = 1
    BY <1>1, <1>3, <2>4 DEF Msg
  <2>7. row.path = m.path /\ row.status = "pending_validation" /\ row \in EndpointRows
    BY <1>1, <2>3, Zenon DEF EndpointRows, Offers, NoOffer
  <2>8. /\ endpoints'[b] = Append(endpoints[b], row)
        /\ \A c \in Builds \ {b} : endpoints'[c] = endpoints[c]
    BY <1>1, <2>5, Zenon DEF TypeOK
  <2>9. Len(endpoints'[b]) = 1 /\ endpoints'[b][1] = row
    BY <1>3, <1>5, <2>7, <2>8, AppendFacts
  <2>10. Stage(n)'
    BY <1>1, <1>3, <2>5, <2>6, <2>7, <2>9, Zenon DEF Stage, AllValid, Endpoint
  <2> HIDE DEF b
  <2> QED
    BY <1>1, <1>3, <1>4, <2>5, <2>6, <2>8, <2>10, GoesOn, Zenon DEF b
<1>7. CASE Receiver(b, m.path) # rows[b].final
  <2> DEFINE n == Receiver(b, m.path)
  <2>1. PICK next \in Nat : next = Len(hops[b]) + 1 /\ next - 1 = m.path
    <3>1. Len(hops[b]) \in Nat /\ m.path = Len(hops[b])
      BY <1>3, <1>5, Zenon
    <3> QED
      BY <3>1
  <2>2. _forward_route_create(m)
    BY <1>7, Zenon DEF handle_route_create
  <2>3. PICK c \in _select_next_candidate(n, rows[b].final, Sender(b, m.path), m.ttl) :
             /\ hops' = [hops EXCEPT ![b] = Append(@,
                          [at |-> n, to |-> c.node, received |-> m.path, valid |-> TRUE])]
             /\ Answer(m, {[m EXCEPT !.path = next, !.ttl = next_remaining_ttl(m.ttl, c.rtt)]})
    BY <2>2, <2>1, Zenon DEF _forward_route_create
  <2>4. n \in Nodes /\ Sender(b, m.path) \in Nodes /\ rows[b].final \in Nodes
    <3>1. m.path # 0 => hops[b][m.path] \in HopRows
      <4>1. hops[b] \in Seq(HopRows) /\ m.path \in Nat /\ m.path <= Len(hops[b])
        BY <1>1, <1>3, <1>5
      <4> QED
        BY <4>1
    <3> QED
      BY <1>5, <3>1, RouteAssumption, Zenon DEF Receiver, Sender, InitiatorRows, HopRows
  <2>5. c.node \in Nodes /\ c.rtt \in Nat /\ (c.node # rows[b].final => m.ttl >= 2)
    BY <1>1, <2>4, CandidateFacts
  <2>6. PICK ttl \in Nat \ {0} : ttl = next_remaining_ttl(m.ttl, c.rtt)
    BY <1>1, <2>5, TtlFacts, Zenon
  <2>7. m.ttl >= 2 => ttl <= m.ttl - 1
    BY <1>1, <2>5, <2>6, TtlFacts, Zenon
  <2>8. PICK row : row = [at |-> n, to |-> c.node, received |-> m.path, valid |-> TRUE]
    BY Zenon
  <2>9. row \in HopRows /\ row.to = c.node /\ row.received = m.path /\ row.valid
    BY <1>1, <2>4, <2>5, <2>8, Zenon DEF HopRows
  <2>10. PICK a : a = [m EXCEPT !.path = next, !.ttl = ttl]
    BY Zenon
  <2>11. a.type = "CREATE" /\ a.b = b /\ a.path = next /\ a.ttl = ttl
    BY <1>1, <2>10 DEF Messages
  <2>12. hops' = [hops EXCEPT ![b] = Append(hops[b], row)] /\ Answer(m, {a}) /\ endpoints' = endpoints
    BY <2>2, <2>3, <2>6, <2>8, <2>10, Zenon DEF _forward_route_create
  <2>13. /\ hops'[b] = Append(hops[b], row)
         /\ \A d \in Builds \ {b} : hops'[d] = hops[d]
    BY <1>1, <2>12 DEF TypeOK
  <2>14. /\ Len(hops'[b]) = next /\ DOMAIN hops'[b] = 1..next
         /\ hops'[b][next] = row
         /\ \A i \in DOMAIN hops[b] : hops'[b][i] = hops[b][i]
    BY <1>5, <2>9, <2>13, <2>1, AppendFacts
  <2>15. \A i \in DOMAIN hops'[b] : i = next \/ i \in DOMAIN hops[b]
    BY <1>5, <2>14, <2>1
  <2> HIDE DEF b, n
  <2>16. \A i \in DOMAIN hops'[b] : hops'[b][i].received = i - 1
    <3>1. hops'[b][next].received = next - 1
      BY <2>9, <2>14, <2>1, Zenon
    <3>2. \A i \in DOMAIN hops[b] : hops'[b][i].received = i - 1
      BY <1>4, <2>14, Zenon
    <3> QED
      BY <2>15, <3>1, <3>2, Zenon
  <2>17. AllValid(b)'
    BY <1>3, <2>9, <2>14, <2>15, Zenon DEF AllValid
  <2>18. Len(hops'[b]) <= InitialTtl /\ (c.node # rows[b].final => next + ttl <= InitialTtl)
    <3>1. Len(hops[b]) + m.ttl <= InitialTtl /\ Len(hops[b]) \in Nat /\ m.ttl \in Nat \ {0}
      BY <1>1, <1>3, <1>5, <1>7, Zenon
    <3>2. next <= InitialTtl
      BY <2>1, <3>1, Numbers
    <3>3. m.ttl >= 2 => next + ttl <= InitialTtl
      BY <2>6, <2>7, <2>1, <3>1, Numbers
    <3> QED
      BY <2>5, <2>14, <3>2, <3>3, Zenon
  <2>19. Receiver(b, next)' = c.node /\ next # 0
    <3>1. next # 0
      BY <1>5, <2>1
    <3> QED
      BY <2>9, <2>14, <3>1, Zenon DEF Receiver
  <2>20. Stage(a)'
    BY <1>1, <1>3, <2>11, <2>12, <2>14, <2>17, <2>18, <2>19, Zenon DEF Stage
  <2> QED
    BY <1>1, <1>3, <2>11, <2>12, <2>13, <2>16, <2>18, <2>20, GoesOn, Zenon DEF b
<1> QED
  BY <1>6, <1>7, Zenon

LEMMA OnceKemInfo ==
    ASSUME TypeOK, PathsExist, OnceInv, Duplicating = FALSE, NEW m \in msgs, handle_route_create_kem_info(m)
    PROVE  OnceInv'
<1>1. /\ m \in Messages /\ m.b \in Builds /\ m.type = "KEM_INFO" /\ m.offer \in Offers
      /\ UNCHANGED <<hops, endpoints, publishing, polling>>
  BY Zenon DEF TypeOK, Messages, handle_route_create_kem_info
<1>2. CASE m.path # 0 \/ ~ IsValid(rows[m.b])
  <2>1. \E answers \in {{}, Onward(m), Back(m)} : Answer(m, answers) /\ UNCHANGED rows
    BY <1>2, Zenon DEF handle_route_create_kem_info, _handle_local_route_create_kem_info
  <2> QED
    BY <1>1, <2>1, PassedOn, Zenon
<1>3. CASE m.path = 0 /\ IsValid(rows[m.b])
  <2>1. BuildInv(m.b) /\ Stage(m) /\ rows[m.b] \in InitiatorRows
    BY <1>1, Zenon DEF OnceInv, BuildInv, TypeOK
  <2>2. PICK offer : offer = [key |-> m.offer.key, enc |-> offers[m.b] + 1]
    BY Zenon
  <2>3. offer.key = 1
    BY <1>1, <2>1, <2>2, Zenon DEF Stage
  <2>4. PICK row : row = [rows[m.b] EXCEPT !.status = "pending_final_validation",
                                           !.offer = offer, !.path = offer.enc]
    BY Zenon
  <2>5. row.status = "pending_final_validation" /\ row.offer = offer /\ row.path = offer.enc
    BY <2>1, <2>4, Zenon DEF InitiatorRows
  <2>6. PICK n : n = [Msg("VALIDATE", m.b, 0) EXCEPT !.offer = offer]
    BY Zenon
  <2>7. n.type = "VALIDATE" /\ n.b = m.b /\ n.offer = offer
    BY <2>6 DEF Msg
  <2>8. /\ rows' = [rows EXCEPT ![m.b].status = "pending_final_validation",
                                ![m.b].offer = offer, ![m.b].path = offer.enc]
        /\ Answer(m, {n})
    BY <1>3, <2>2, <2>6 DEF handle_route_create_kem_info, _handle_local_route_create_kem_info
  <2>9. rows'[m.b] = row /\ \A c \in Builds \ {m.b} : rows'[c] = rows[c]
    BY <1>1, <2>4, <2>8, Zenon DEF TypeOK
  <2>10. Stage(n)'
    BY <1>1, <2>1, <2>3, <2>5, <2>7, <2>9 DEF Stage, AllValid, Endpoint
  <2>11. /\ \A c \in Builds \ {m.b} : /\ rows'[c] = rows[c]
                                      /\ hops'[c] = hops[c] /\ endpoints'[c] = endpoints[c]
         /\ rows'[m.b].status \notin {"none", "active"}
         /\ \A i \in DOMAIN hops'[m.b] : hops'[m.b][i].received = i - 1
         /\ Len(hops'[m.b]) <= InitialTtl
    BY <1>1, <2>1, <2>5, <2>9, Zenon DEF BuildInv
  <2> QED
    BY <1>1, <2>7, <2>8, <2>10, <2>11, GoesOn, Zenon
<1> QED
  BY <1>2, <1>3, Zenon

\* The row of the one endpoint.
LEMMA OneEndpoint ==
    ASSUME TypeOK, NEW b \in Builds, NEW status, Endpoint(b, status), NEW row, NEW es,
           es = [endpoints EXCEPT ![b] = [endpoints[b] EXCEPT ![1] = row]]
    PROVE  /\ DOMAIN endpoints[b] = {1} /\ endpoints[b][1] \in EndpointRows
           /\ \A path : get_endpoint_resolution_by_path_id(b, path) \subseteq {1}
           /\ Len(es[b]) = 1 /\ es[b][1] = row
           /\ \A c \in Builds \ {b} : es[c] = endpoints[c]
<1>1. /\ endpoints[b] \in Seq(EndpointRows) /\ Len(endpoints[b]) = 1
      /\ DOMAIN endpoints[b] = {1}
  BY BuildFacts DEF Endpoint
<1>2. endpoints[b][1] \in EndpointRows
  BY <1>1
<1>3. \A path : get_endpoint_resolution_by_path_id(b, path) \subseteq {1}
  BY <1>1, Zenon DEF get_endpoint_resolution_by_path_id
<1>4. /\ es[b] = [endpoints[b] EXCEPT ![1] = row]
      /\ \A c \in Builds \ {b} : es[c] = endpoints[c]
  BY Zenon DEF TypeOK
<1>5. Len([endpoints[b] EXCEPT ![1] = row]) = 1 /\ [endpoints[b] EXCEPT ![1] = row][1] = row
  BY <1>1
<1> QED
  BY <1>1, <1>2, <1>3, <1>4, <1>5, Zenon

LEMMA OnceValidate ==
    ASSUME TypeOK, PathsExist, OnceInv, Duplicating = FALSE, NEW m \in msgs,
           handle_route_create_validate_and_publish(m)
    PROVE  OnceInv'
<1>1. /\ m \in Messages /\ m.b \in Builds /\ m.type = "VALIDATE" /\ m.offer \in Offers
      /\ UNCHANGED <<rows, hops, publishing, polling>>
  BY Zenon DEF TypeOK, Messages, handle_route_create_validate_and_publish
<1> DEFINE usable == {e \in get_endpoint_resolution_by_path_id(m.b, m.path) : e = m.offer.key}
<1>2. CASE Onward(m) # {} \/ usable = {}
  <2>1. \E answers \in {{}, Onward(m), Back(m)} : Answer(m, answers) /\ UNCHANGED endpoints
    BY <1>2, Zenon DEF handle_route_create_validate_and_publish, _handle_local_route_create_validate_and_publish
  <2> QED
    BY <1>1, <2>1, PassedOn, Zenon
<1>3. CASE Onward(m) = {} /\ usable # {}
  <2>1. BuildInv(m.b) /\ Stage(m)
    BY <1>1, Zenon DEF OnceInv, BuildInv
  <2>2. /\ rows[m.b].status \in {"pending_final_validation", "invalid"}
        /\ AllValid(m.b) /\ Endpoint(m.b, "pending_validation")
        /\ m.offer.key = 1 /\ rows[m.b].offer = m.offer /\ rows[m.b].path = m.offer.enc
    BY <1>1, <2>1, Zenon DEF Stage
  <2>3. PICK ping : ping = pings[m.b] + 1
    BY Zenon
  <2>4. PICK row : row = [endpoints[m.b][1] EXCEPT !.status = "pending_ping_validation",
                                                   !.offer = m.offer, !.ping = ping]
    BY Zenon
  <2>5. PICK n : n = [Msg("PING", m.b, m.path) EXCEPT !.ping = ping]
    BY Zenon
  <2>6. n.type = "PING" /\ n.b = m.b
    BY <2>5, Zenon DEF Msg
  <2>7. endpoints' = [endpoints EXCEPT ![m.b] = [endpoints[m.b] EXCEPT ![1] = row]] /\ Answer(m, {n})
    BY <1>3, <2>2, <2>3, <2>4, <2>5, Zenon
       DEF handle_route_create_validate_and_publish, _handle_local_route_create_validate_and_publish
  <2>8. /\ endpoints[m.b][1] \in EndpointRows
        /\ Len(endpoints'[m.b]) = 1 /\ endpoints'[m.b][1] = row
        /\ \A c \in Builds \ {m.b} : endpoints'[c] = endpoints[c]
    BY <1>1, <2>2, <2>7, OneEndpoint
  <2>9. row.status = "pending_ping_validation" /\ row.offer = m.offer /\ row.path = endpoints[m.b][1].path
    BY <2>4, <2>8, Zenon DEF EndpointRows
  <2>10. Stage(n)'
    BY <1>1, <2>2, <2>6, <2>8, <2>9 DEF Stage, AllValid, Endpoint, Agreed
  <2>11. /\ \A c \in Builds \ {m.b} : /\ rows'[c] = rows[c]
                                      /\ hops'[c] = hops[c] /\ endpoints'[c] = endpoints[c]
         /\ rows'[m.b].status \notin {"none", "active"}
         /\ \A i \in DOMAIN hops'[m.b] : hops'[m.b][i].received = i - 1
         /\ Len(hops'[m.b]) <= InitialTtl
    BY <1>1, <2>1, <2>2, <2>8, Zenon DEF BuildInv
  <2> QED
    BY <1>1, <2>6, <2>7, <2>10, <2>11, GoesOn, Zenon
<1> QED
  BY <1>2, <1>3, Zenon

LEMMA OncePing ==
    ASSUME TypeOK, PathsExist, OnceInv, Duplicating = FALSE, NEW m \in msgs, handle_route_create_ping(m)
    PROVE  OnceInv'
<1>1. /\ m \in Messages /\ m.b \in Builds /\ m.type = "PING"
      /\ UNCHANGED <<rows, hops, endpoints, publishing, polling>>
  BY Zenon DEF TypeOK, Messages, handle_route_create_ping
<1>2. CASE m.path # 0 \/ ~ IsValid(rows[m.b])
  <2>1. \E answers \in {{}, Onward(m), Back(m)} : Answer(m, answers)
    BY <1>2, Zenon DEF handle_route_create_ping, _handle_local_route_create_ping
  <2> QED
    BY <1>1, <2>1, PassedOn, Zenon
<1>3. CASE m.path = 0 /\ IsValid(rows[m.b])
  <2>1. BuildInv(m.b) /\ Stage(m)
    BY <1>1, Zenon DEF OnceInv, BuildInv
  <2>2. PICK n : n = [m EXCEPT !.type = "PONG"]
    BY Zenon
  <2>3. n.type = "PONG" /\ n.b = m.b /\ Answer(m, {n})
    BY <1>1, <1>3, <2>2, Zenon DEF handle_route_create_ping, _handle_local_route_create_ping, Messages
  <2>4. Stage(n)'
    BY <1>1, <2>1, <2>3, Zenon DEF Stage, AllValid, Endpoint, Agreed
  <2>5. /\ \A c \in Builds \ {m.b} : /\ rows'[c] = rows[c]
                                     /\ hops'[c] = hops[c] /\ endpoints'[c] = endpoints[c]
        /\ rows'[m.b].status \notin {"none", "active"}
        /\ \A i \in DOMAIN hops'[m.b] : hops'[m.b][i].received = i - 1
        /\ Len(hops'[m.b]) <= InitialTtl
    BY <1>1, <2>1, Zenon DEF BuildInv, Stage
  <2> QED
    BY <1>1, <2>3, <2>4, <2>5, GoesOn, Zenon
<1> QED
  BY <1>2, <1>3, Zenon

LEMMA OncePong ==
    ASSUME TypeOK, PathsExist, OnceInv, Duplicating = FALSE, NEW m \in msgs, handle_route_create_pong(m)
    PROVE  OnceInv'
<1>1. /\ m \in Messages /\ m.b \in Builds /\ m.type = "PONG"
      /\ UNCHANGED <<rows, hops, polling>>
  BY Zenon DEF TypeOK, Messages, handle_route_create_pong
<1>2. BuildInv(m.b) /\ Stage(m)
  BY <1>1, Zenon DEF OnceInv, BuildInv
<1>3. /\ rows[m.b].status \in {"pending_final_validation", "invalid"}
      /\ AllValid(m.b) /\ Endpoint(m.b, "pending_ping_validation") /\ Agreed(m.b)
      /\ \A i \in DOMAIN hops[m.b] : hops[m.b][i].received = i - 1
      /\ Len(hops[m.b]) <= InitialTtl
  BY <1>1, <1>2, Zenon DEF Stage, BuildInv
<1> DEFINE found == {e \in get_endpoint_resolution_by_path_id(m.b, m.path) :
                       endpoints[m.b][e].offer # NoOffer}
<1>4. ASSUME NEW answers \in {{}, Onward(m), Back(m)}, Answer(m, answers), UNCHANGED <<endpoints, publishing>>
      PROVE  OnceInv'
  BY <1>1, <1>4, PassedOn, Zenon
<1>5. CASE /\ endpoints' = invalidate_endpoint_resolution(m.b, m.path)
           /\ Answer(m, {Msg("FAIL", m.b, m.path)})
           /\ UNCHANGED publishing
  <2>1. PICK n : n = Msg("FAIL", m.b, m.path)
    BY Zenon
  <2>2. n.type = "FAIL" /\ n.b = m.b
    BY <2>1, Zenon DEF Msg
  <2>3. \A c \in Builds \ {m.b} : endpoints'[c] = endpoints[c]
    BY <1>1, <1>5, EndpointInvalidated
  <2>4. Stage(n)'
    BY <1>1, <1>3, <2>2, Zenon DEF Stage
  <2>5. rows'[m.b].status \notin {"none", "active"} /\ Answer(m, {n})
    BY <1>1, <1>3, <1>5, <2>1, Zenon
  <2> QED
    BY <1>1, <1>3, <1>5, <2>2, <2>3, <2>4, <2>5, GoesOn, Zenon
<1>6. ASSUME NEW e \in found,
             endpoints' = [endpoints EXCEPT ![m.b][e].status = "active"],
             publishing' = publishing \cup
                {[b |-> m.b, path |-> m.path, offer |-> endpoints[m.b][e].offer]},
             Answer(m, {})
      PROVE  OnceInv'
  <2>1. PICK row : row = [endpoints[m.b][1] EXCEPT !.status = "active"]
    BY Zenon
  <2>2. PICK es : es = [endpoints EXCEPT ![m.b] = [endpoints[m.b] EXCEPT ![1] = row]]
    BY Zenon
  <2>3. /\ \A path : get_endpoint_resolution_by_path_id(m.b, path) \subseteq {1}
        /\ endpoints[m.b][1] \in EndpointRows
        /\ Len(es[m.b]) = 1 /\ es[m.b][1] = row
        /\ \A c \in Builds \ {m.b} : es[c] = endpoints[c]
    <3>1. Endpoint(m.b, "pending_ping_validation")
      BY <1>3, Zenon
    <3> QED
      BY <1>1, <2>2, <3>1, OneEndpoint
  <2>4. e = 1
    BY <1>6, <2>3, Zenon
  <2>5. endpoints' = es
    BY <1>6, <2>1, <2>2, <2>4, Zenon
  <2>6. /\ row.status = "active" /\ row.offer = endpoints[m.b][1].offer
        /\ row.path = endpoints[m.b][1].path
    BY <2>1, <2>3, Zenon DEF EndpointRows
  <2>7. Published(m.b)'
    BY <1>1, <1>3, <2>3, <2>5, <2>6, Zenon DEF Published, AllValid, Endpoint, Agreed
  <2>8. PICK p : p = [b |-> m.b, path |-> m.path, offer |-> endpoints[m.b][e].offer]
    BY Zenon
  <2>9. p.b = m.b /\ p.offer = rows'[m.b].offer /\ publishing' = publishing \cup {p}
    BY <1>1, <1>3, <1>6, <2>4, <2>8, Zenon DEF Agreed
  <2>10. /\ \A n \in msgs' : n.b # m.b
         /\ \A n \in msgs' : n.b # m.b => n \in msgs
         /\ \A q \in publishing \cup polling : q.b # m.b
    BY <1>6, IsConsumed, Zenon
  <2>11. BuildInv(m.b)'
    BY <1>1, <1>3, <2>7, <2>9, <2>10, Zenon DEF BuildInv
  <2>12. \A c \in Builds \ {m.b} : /\ StaysOrGivenUp(c) /\ NothingNew(c)
                                   /\ hops'[c] = hops[c] /\ endpoints'[c] = endpoints[c]
    BY <1>1, <2>3, <2>5, <2>9, <2>10, Zenon DEF StaysOrGivenUp, NothingNew
  <2> QED
    BY <1>1, <2>11, <2>12, OtherBuildsStay, Zenon
<1> QED
  BY <1>4, <1>5, <1>6, Zenon DEF handle_route_create_pong, _handle_local_route_create_pong

LEMMA OnceOk ==
    ASSUME TypeOK, PathsExist, OnceInv, Duplicating = FALSE, NEW m \in msgs, handle_route_create_ok(m)
    PROVE  OnceInv'
<1>1. /\ m \in Messages /\ m.b \in Builds /\ m.type = "OK"
      /\ UNCHANGED <<rows, hops, endpoints, publishing>>
  BY Zenon DEF TypeOK, Messages, handle_route_create_ok
<1>2. ASSUME NEW answers \in {{}, Onward(m), Back(m)}, Answer(m, answers), UNCHANGED polling
      PROVE  OnceInv'
  BY <1>1, <1>2, PassedOn, Zenon
<1>3. ASSUME polling' = polling \cup {[b |-> m.b, path |-> m.offer.enc]}, Answer(m, {}),
             m.offer.enc = rows[m.b].path
      PROVE  OnceInv'
  <2>1. BuildInv(m.b) /\ Stage(m)
    BY <1>1, Zenon DEF OnceInv, BuildInv
  <2>2. Published(m.b)'
    BY <1>1, <2>1, Zenon DEF Stage, Published, AllValid, Endpoint, Agreed
  <2>3. PICK p : p = [b |-> m.b, path |-> m.offer.enc]
    BY Zenon
  <2>4. p.b = m.b /\ p.path = rows'[m.b].path /\ polling' = polling \cup {p}
    BY <1>1, <1>3, <2>3, Zenon
  <2>5. /\ \A n \in msgs' : n.b # m.b
        /\ \A n \in msgs' : n.b # m.b => n \in msgs
        /\ \A q \in publishing \cup polling : q.b # m.b
    BY <1>3, IsConsumed, Zenon
  <2>6. BuildInv(m.b)'
    BY <1>1, <2>1, <2>2, <2>4, <2>5 DEF BuildInv, Published
  <2>7. \A c \in Builds \ {m.b} : /\ StaysOrGivenUp(c) /\ NothingNew(c)
                                  /\ hops'[c] = hops[c] /\ endpoints'[c] = endpoints[c]
    BY <1>1, <2>4, <2>5, Zenon DEF StaysOrGivenUp, NothingNew
  <2> QED
    BY <1>1, <2>6, <2>7, OtherBuildsStay, Zenon
<1>4. CASE m.path = 0
  BY <1>2, <1>3, <1>4, Zenon DEF handle_route_create_ok, _handle_local_route_create_ok
<1>5. CASE m.path # 0
  BY <1>2, <1>5 DEF handle_route_create_ok
<1> QED
  BY <1>4, <1>5, Zenon

LEMMA GivenUpRow ==
    ASSUME TypeOK, NEW b, NEW rs, rs = invalidate_initiator_resolution(b)
    PROVE  /\ \A c \in Builds \ {b} : rs[c] = rows[c]
           /\ \A c \in Builds : \/ rs[c] = rows[c]
                                \/ rows[c].status # "none" /\ rs[c] = [rows[c] EXCEPT !.status = "invalid"]
           /\ \A c \in Builds : c = b /\ rows[c].status # "none" => rs[c].status = "invalid"
<1>1. CASE b \in Builds
  <2>1. rows[b] \in InitiatorRows
    BY <1>1, Zenon DEF TypeOK
  <2>2. rs[b] = [rows[b] EXCEPT !.status = IF rows[b].status = "none" THEN rows[b].status ELSE "invalid"]
        /\ \A c \in Builds \ {b} : rs[c] = rows[c]
    BY <1>1, Zenon DEF TypeOK, invalidate_initiator_resolution
  <2>3. \/ rs[b] = rows[b]
        \/ rows[b].status # "none" /\ rs[b] = [rows[b] EXCEPT !.status = "invalid"]
    BY <2>1, <2>2, Zenon DEF InitiatorRows
  <2>4. rows[b].status # "none" => rs[b].status = "invalid"
    BY <2>1, <2>2, Zenon DEF InitiatorRows
  <2> QED
    BY <2>2, <2>3, <2>4, Zenon
<1>2. CASE b \notin Builds
  BY <1>2, Zenon DEF TypeOK, invalidate_initiator_resolution
<1> QED
  BY <1>1, <1>2, Zenon

LEMMA OnceFail ==
    ASSUME TypeOK, PathsExist, OnceInv, Duplicating = FALSE, NEW m \in msgs, handle_route_create_fail(m)
    PROVE  OnceInv'
<1>1. /\ m \in Messages /\ m.b \in Builds /\ m.type = "FAIL" /\ Answer(m, Back(m))
      /\ UNCHANGED <<endpoints, publishing, polling>>
  BY Zenon DEF TypeOK, Messages, handle_route_create_fail
<1>2. BuildInv(m.b) /\ Stage(m)
  BY <1>1, Zenon DEF OnceInv, BuildInv
<1>3. PICK n : n.b = m.b /\ Back(m) \in {{}, {n}} /\ (Back(m) # {} => Moved(m, n))
  BY AtMostOneWay, Zenon
<1>4. CASE rows' = invalidate_initiator_resolution(m.b) /\ UNCHANGED hops
  <2>1. /\ \A c \in Builds \ {m.b} : rows'[c] = rows[c]
        /\ rows'[m.b].status = "invalid"
    <3>1. rows[m.b].status # "none"
      BY <1>1, <1>2, Zenon DEF Stage
    <3> QED
      BY <1>1, <1>4, <3>1, GivenUpRow
  <2>2. Back(m) # {} => Stage(n)'
    BY <1>1, <1>3, <2>1, Zenon DEF Stage, Moved
  <2>3. /\ \A i \in DOMAIN hops'[m.b] : hops'[m.b][i].received = i - 1
        /\ Len(hops'[m.b]) <= InitialTtl
    BY <1>2, <1>4, Zenon DEF BuildInv
  <2> QED
    BY <1>1, <1>3, <1>4, <2>1, <2>2, <2>3, GoesOn, Zenon
<1>5. CASE hops' = invalidate_hop_resolution(m.b, m.path) /\ UNCHANGED rows
  <2>1. /\ \A c \in Builds \ {m.b} : hops'[c] = hops[c]
        /\ Len(hops'[m.b]) = Len(hops[m.b]) /\ DOMAIN hops'[m.b] = DOMAIN hops[m.b]
        /\ \A i \in DOMAIN hops[m.b] : hops'[m.b][i].received = hops[m.b][i].received
    BY <1>1, <1>5, HopInvalidated
  <2>2. Back(m) # {} => Stage(n)'
    BY <1>1, <1>2, <1>3, <1>5, Zenon DEF Stage, Moved
  <2>3. /\ \A i \in DOMAIN hops'[m.b] : hops'[m.b][i].received = i - 1
        /\ Len(hops'[m.b]) <= InitialTtl
        /\ rows'[m.b].status \notin {"none", "active"}
    BY <1>1, <1>2, <1>5, <2>1, Zenon DEF BuildInv, Stage
  <2> QED
    BY <1>1, <1>3, <1>5, <2>1, <2>2, <2>3, GoesOn, Zenon
<1> QED
  BY <1>4, <1>5, Zenon DEF handle_route_create_fail

\* A publication or a poll that ends carried its build alone.
LEMMA OncePublish ==
    ASSUME TypeOK, OnceInv, NEW p \in publishing, _publish_drt_route_after_pong(p)
    PROVE  OnceInv'
<1>1. /\ p.b \in Builds /\ publishing' = publishing \ {p}
      /\ UNCHANGED <<rows, hops, polling>>
  BY Zenon DEF TypeOK, _publish_drt_route_after_pong
<1>2. BuildInv(p.b)
  BY <1>1, Zenon DEF OnceInv
<1>3. /\ \A m \in msgs : m.b # p.b
      /\ \A q \in publishing' : q.b # p.b
      /\ \A q \in polling : q.b # p.b
      /\ Published(p.b)
  BY <1>1, <1>2, Zenon DEF BuildInv
<1>4. PICK ok : ok = [Msg("OK", p.b, p.path) EXCEPT !.offer = p.offer]
  BY Zenon
<1>5. PICK fail : fail = Msg("FAIL", p.b, p.path)
  BY Zenon
<1>6. ok.type = "OK" /\ ok.b = p.b /\ fail.type = "FAIL" /\ fail.b = p.b
  BY <1>4, <1>5, Zenon DEF Msg
<1>7. ASSUME NEW n \in {ok, fail}, msgs' = msgs \cup {n}, Stage(n)',
             \A c \in Builds \ {p.b} : endpoints'[c] = endpoints[c]
      PROVE  OnceInv'
  <2>1. BuildInv(p.b)'
    BY <1>1, <1>2, <1>3, <1>6, <1>7, Zenon DEF BuildInv, Published
  <2>2. \A c \in Builds \ {p.b} : /\ StaysOrGivenUp(c) /\ NothingNew(c)
                                  /\ hops'[c] = hops[c] /\ endpoints'[c] = endpoints[c]
    BY <1>1, <1>6, <1>7 DEF StaysOrGivenUp, NothingNew
  <2> QED
    BY <1>1, <2>1, <2>2, OtherBuildsStay, Zenon
<1>8. CASE msgs' = msgs \cup {ok} /\ UNCHANGED endpoints
  <2>1. Stage(ok)'
    BY <1>1, <1>3, <1>6, <1>8, Zenon DEF Stage, Published, AllValid, Endpoint, Agreed
  <2> QED
    BY <1>7, <1>8, <2>1
<1>9. CASE msgs' = msgs \cup {fail} /\ endpoints' = invalidate_endpoint_resolution(p.b, p.path)
  <2>1. Stage(fail)'
    BY <1>1, <1>3, <1>6, Zenon DEF Stage, Published
  <2>2. \A c \in Builds \ {p.b} : endpoints'[c] = endpoints[c]
    BY <1>1, <1>9, EndpointInvalidated
  <2> QED
    BY <1>7, <1>9, <2>1, <2>2
<1> QED
  BY <1>4, <1>5, <1>8, <1>9, Zenon DEF _publish_drt_route_after_pong

LEMMA OncePoll ==
    ASSUME TypeOK, OnceInv, NEW p \in polling, _is_route_visible_in_drt(p)
    PROVE  OnceInv'
<1>1. /\ p.b \in Builds /\ polling' = polling \ {p}
      /\ UNCHANGED <<hops, endpoints, msgs, publishing>>
  BY Zenon DEF TypeOK, _is_route_visible_in_drt
<1>2. BuildInv(p.b)
  BY <1>1, Zenon DEF OnceInv
<1>3. /\ \A m \in msgs : m.b # p.b
      /\ \A q \in publishing : q.b # p.b
      /\ \A q \in polling' : q.b # p.b
      /\ Published(p.b) /\ p.path = rows[p.b].path
  BY <1>1, <1>2, Zenon DEF BuildInv
<1>4. ASSUME \A c \in Builds : StaysOrGivenUp(c) PROVE OnceInv'
  <2>1. \A c \in Builds : NothingNew(c) /\ BuildInv(c)
    BY <1>1, Zenon DEF NothingNew, OnceInv
  <2>2. BuildInv(p.b)' /\ (rows'[p.b].status = "none" <=> rows[p.b].status = "none")
    BY <1>1, <1>4, <2>1, BuildStays, Zenon
  <2> QED
    BY <1>1, <1>4, <2>1, <2>2, OtherBuildsStay, Zenon
<1>5. CASE rows' = rows
  BY <1>4, <1>5, Zenon DEF StaysOrGivenUp
<1>6. CASE rows' = invalidate_initiator_resolution(p.b)
  BY <1>4, <1>6, GivenUpRow DEF StaysOrGivenUp
<1>7. CASE IsValid(rows[p.b]) /\ rows' = [rows EXCEPT ![p.b].status = "active", ![p.b].path = p.path]
  <2>1. rows[p.b] \in InitiatorRows
    BY <1>1, Zenon DEF TypeOK
  <2>2. /\ rows'[p.b] = [rows[p.b] EXCEPT !.status = "active", !.path = p.path]
        /\ \A c \in Builds \ {p.b} : rows'[c] = rows[c]
    BY <1>1, <1>7, Zenon DEF TypeOK
  <2>3. rows'[p.b].status = "active" /\ rows'[p.b].offer = rows[p.b].offer /\ rows'[p.b].path = rows[p.b].path
    BY <1>3, <2>1, <2>2 DEF InitiatorRows
  <2>4. AllValid(p.b)' /\ Endpoint(p.b, "active")' /\ Agreed(p.b)'
    BY <1>1, <1>3, <2>3, Zenon DEF Published, AllValid, Endpoint, Agreed
  <2>5. BuildInv(p.b)'
    BY <1>1, <1>2, <1>3, <2>3, <2>4, Zenon DEF BuildInv
  <2>6. \A c \in Builds \ {p.b} : /\ StaysOrGivenUp(c) /\ NothingNew(c)
                                  /\ hops'[c] = hops[c] /\ endpoints'[c] = endpoints[c]
    BY <1>1, <2>2, Zenon DEF StaysOrGivenUp, NothingNew
  <2>7. rows[p.b].status # "none" /\ rows'[p.b].status # "none"
    BY <1>3, <2>3, Zenon DEF Published
  <2> QED
    BY <1>1, <2>5, <2>6, <2>7, OtherBuildsStay, Zenon
<1> QED
  BY <1>5, <1>6, <1>7, Zenon DEF _is_route_visible_in_drt, mark_initiator_resolution_active

-----------------------------------------------------------------------------
(* The maintenance loop.                                                   *)

\* Builds are numbered in the order in which they are started.
LEMMA StartedIsLast ==
    ASSUME NEW k \in 0..MaxBuilds, \A b \in Builds : rows[b].status # "none" <=> b <= k
    PROVE  Started = k
<1>1. k \in Nat /\ MaxBuilds \in Nat
  BY Numbers
<1>2. {b \in Builds : rows[b].status # "none"} = 1..k
  BY <1>1 DEF Builds
<1>3. Cardinality(1..k) = k
  BY <1>1, FS_Interval
<1> QED
  BY <1>2, <1>3, Zenon DEF Started

\* Rows that stay or are given up, as the maintenance leaves them.
Kept(rs) ==
    \A c \in Builds : \/ rs[c] = rows[c]
                      \/ rows[c].status # "none" /\ rs[c] = [rows[c] EXCEPT !.status = "invalid"]

LEMMA OnceKept ==
    ASSUME TypeOK, OnceInv, Kept(rows'),
           UNCHANGED <<hops, endpoints, msgs>>, publishing' \subseteq publishing, polling' \subseteq polling
    PROVE  OnceInv'
<1>1. \A c \in Builds : StaysOrGivenUp(c) /\ NothingNew(c) /\ BuildInv(c)
  BY Zenon DEF Kept, StaysOrGivenUp, NothingNew, OnceInv
<1>2. \A c \in Builds : BuildInv(c)' /\ (rows'[c].status = "none" <=> rows[c].status = "none")
  BY <1>1, BuildStays, Zenon
<1>3. InOrder'
  BY <1>2, Zenon DEF OnceInv, InOrder
<1> QED
  BY <1>2, <1>3, Zenon DEF OnceInv

\* What the start of a build does to rows and messages.
LEMMA StartedRow ==
    ASSUME NEW rs \in [Builds -> InitiatorRows], NEW b \in Builds, b = Started + 1, _start_route_build(rs)
    PROVE  /\ rows'[b].status = "pending_kem_offer" /\ rows'[b].first # rows'[b].final
           /\ \A c \in Builds \ {b} : rows'[c] = rs[c]
           /\ \E m : /\ msgs' = msgs \cup {m} /\ m.type = "CREATE" /\ m.b = b
                     /\ m.path = 0 /\ m.ttl = InitialTtl
           /\ runtime'.pc = "sending"
<1>1. \E first, final \in DOMAIN Rtt[Self] :
               /\ first # final
               /\ rows' = [rs EXCEPT ![b] = [status |-> "pending_kem_offer", first |-> first,
                                             final |-> final, offer |-> NoOffer, path |-> 0]]
               /\ msgs' = msgs \cup {[Msg("CREATE", b, 0) EXCEPT !.ttl = InitialTtl]}
               /\ runtime' = [Idle EXCEPT !.pc = "sending", !.route = b]
  BY Zenon DEF _start_route_build
<1>2. PICK first, final : /\ first # final
               /\ rows' = [rs EXCEPT ![b] = [status |-> "pending_kem_offer", first |-> first,
                                             final |-> final, offer |-> NoOffer, path |-> 0]]
  BY <1>1, Zenon
<1>3. /\ rows'[b].status = "pending_kem_offer" /\ rows'[b].first # rows'[b].final
      /\ \A c \in Builds \ {b} : rows'[c] = rs[c]
  BY <1>2, Zenon
<1>4. PICK m : m = [Msg("CREATE", b, 0) EXCEPT !.ttl = InitialTtl]
  BY Zenon
<1>5. msgs' = msgs \cup {m} /\ m.type = "CREATE" /\ m.b = b /\ m.path = 0 /\ m.ttl = InitialTtl
  BY <1>1, <1>4, Zenon DEF Msg
<1>6. runtime'.pc = "sending"
  BY <1>1, Zenon DEF Idle
<1> QED
  BY <1>3, <1>5, <1>6, Zenon

\* The next build was not started, and nothing carries it.
LEMMA NextIsNew ==
    ASSUME TypeOK, OnceInv, NEW b \in Builds, b = Started + 1
    PROVE  /\ rows[b].status = "none"
           /\ \A m \in msgs : m.b # b
           /\ \A p \in publishing \cup polling : p.b # b
           /\ \A c \in Builds : rows[c].status # "none" <=> c <= b - 1
<1>1. PICK k \in 0..MaxBuilds : \A c \in Builds : rows[c].status # "none" <=> c <= k
  BY Zenon DEF OnceInv, InOrder
<1>2. b = k + 1
  BY <1>1, StartedIsLast, Zenon
<1>3. rows[b].status = "none"
  BY <1>1, <1>2
<1>4. \A m \in msgs : m.type \in MessageTypes
  BY Zenon DEF TypeOK, Messages, MessageTypes
<1>5. \A m \in msgs : m.b # b
  <2> SUFFICES ASSUME NEW m \in msgs, m.b = b PROVE FALSE
    BY Zenon
  <2>1. Stage(m) /\ m.type \in MessageTypes
    BY <1>4, Zenon DEF OnceInv, BuildInv
  <2> QED
    BY <1>3, <2>1, Zenon DEF Stage, MessageTypes
<1>6. \A p \in publishing \cup polling : p.b # b
  BY <1>3, Zenon DEF OnceInv, BuildInv, Published
<1>7. \A c \in Builds : rows[c].status # "none" <=> c <= b - 1
  BY <1>1, <1>2
<1> QED
  BY <1>3, <1>5, <1>6, <1>7

LEMMA OnceStart ==
    ASSUME TypeOK, OnceInv, NEW rs \in [Builds -> InitiatorRows], Kept(rs), _start_route_build(rs),
           UNCHANGED <<hops, endpoints, publishing, polling>>
    PROVE  OnceInv'
<1>1. CASE Started + 1 \notin Builds
  <2>1. rows' = rs /\ msgs' = msgs
    BY <1>1, Zenon DEF _start_route_build
  <2> QED
    BY <2>1, OnceKept, Zenon
<1>2. CASE Started + 1 \in Builds
  <2>1. PICK b \in Builds : b = Started + 1
    BY <1>2, Zenon
  <2>2. /\ rows[b].status = "none"
        /\ \A m \in msgs : m.b # b
        /\ \A p \in publishing \cup polling : p.b # b
        /\ \A c \in Builds : rows[c].status # "none" <=> c <= b - 1
    BY <2>1, NextIsNew, Zenon
  <2>3. /\ rows'[b].status = "pending_kem_offer" /\ rows'[b].first # rows'[b].final
        /\ \A c \in Builds \ {b} : rows'[c] = rs[c]
    BY <2>1, StartedRow
  <2>4. PICK m : /\ msgs' = msgs \cup {m} /\ m.type = "CREATE" /\ m.b = b
                 /\ m.path = 0 /\ m.ttl = InitialTtl
    BY <2>1, StartedRow, Zenon
  <2>5. BuildInv(b) /\ Len(hops[b]) = 0 /\ Len(endpoints[b]) = 0
    BY <2>2, Zenon DEF OnceInv, BuildInv
  <2>6. DOMAIN hops[b] = {}
    <3>1. DOMAIN hops[b] = 1..0
      BY <2>5, BuildFacts, Zenon
    <3> QED
      BY <3>1
  <2>7. Stage(m)'
    <3>1. AllValid(b)'
      BY <2>6, Zenon DEF AllValid
    <3>2. Len(hops'[b]) + m.ttl <= InitialTtl
      BY <2>4, <2>5, Numbers
    <3> QED
      BY <2>3, <2>4, <2>5, <3>1, <3>2, Zenon DEF Stage
  <2>8. BuildInv(b)'
    BY <2>2, <2>3, <2>4, <2>5, <2>7, Zenon DEF BuildInv
  <2>9. \A c \in Builds \ {b} : /\ StaysOrGivenUp(c) /\ NothingNew(c) /\ BuildInv(c)
                                /\ hops'[c] = hops[c] /\ endpoints'[c] = endpoints[c]
    BY <2>3, <2>4 DEF Kept, StaysOrGivenUp, NothingNew, OnceInv
  <2>10. \A c \in Builds \ {b} : BuildInv(c)' /\ (rows'[c].status = "none" <=> rows[c].status = "none")
    BY <2>9, BuildStays, Zenon
  <2>11. InOrder'
    <3>1. b \in 0..MaxBuilds
      BY Numbers DEF Builds
    <3>2. \A c \in Builds : rows'[c].status # "none" <=> c <= b
      <4>1. \A c \in Builds : c # b => (c <= b <=> c <= b - 1)
        BY Numbers DEF Builds
      <4>2. \A c \in Builds \ {b} : rows'[c].status # "none" <=> c <= b - 1
        BY <2>2, <2>10, Zenon
      <4>3. b <= b
        BY Numbers DEF Builds
      <4> QED
        BY <2>3, <4>1, <4>2, <4>3, Zenon
    <3> QED
      BY <3>1, <3>2, Zenon DEF InOrder
  <2> QED
    BY <2>8, <2>10, <2>11 DEF OnceInv
<1> QED
  BY <1>1, <1>2, Zenon

\* Timed-out builds are given up by the scan, others stay.
LEMMA ExpiredRows ==
    ASSUME TypeOK, NEW rs,
           rs = [b \in Builds |-> IF b \in Stale THEN [rows[b] EXCEPT !.status = "invalid"] ELSE rows[b]]
    PROVE  rs \in [Builds -> InitiatorRows] /\ Kept(rs)
<1>1. \A row \in InitiatorRows : [row EXCEPT !.status = "invalid"] \in InitiatorRows
  BY Zenon DEF InitiatorRows
<1>2. \A b \in Stale : rows[b].status # "none"
  BY Zenon DEF Stale, Pending
<1> QED
  BY <1>1, <1>2, Zenon DEF TypeOK, Kept

\* Every step of the loop gives builds up, and may then start one.
LEMMA MaintenanceKeeps ==
    ASSUME TypeOK, Maintenance
    PROVE  /\ UNCHANGED <<hops, endpoints, publishing, polling>>
           /\ \E rs \in [Builds -> InitiatorRows] :
                Kept(rs) /\ (_start_route_build(rs) \/ (rows' = rs /\ msgs' = msgs))
<1>1. UNCHANGED <<hops, endpoints, publishing, polling>>
  BY Zenon DEF Maintenance, _run_once, _read_drt_route_health, route_create_send_returns
<1>2. rows \in [Builds -> InitiatorRows] /\ Kept(rows)
  BY Zenon DEF TypeOK, Kept
<1>3. \A b : invalidate_initiator_resolution(b) \in [Builds -> InitiatorRows]
             /\ Kept(invalidate_initiator_resolution(b))
  <2> SUFFICES ASSUME NEW b
               PROVE  /\ invalidate_initiator_resolution(b) \in [Builds -> InitiatorRows]
                      /\ Kept(invalidate_initiator_resolution(b))
    BY Zenon
  <2>1. PICK rs : rs = invalidate_initiator_resolution(b)
    BY Zenon
  <2>2. rs \in [Builds -> InitiatorRows]
    BY <2>1, InitiatorRowFacts, Zenon
  <2>3. Kept(rs)
    BY <2>1, GivenUpRow DEF Kept
  <2> QED
    BY <2>1, <2>2, <2>3, Zenon
<1>4. CASE _run_once
  <2>1. PICK rs : rs = [b \in Builds |-> IF b \in Stale THEN [rows[b] EXCEPT !.status = "invalid"] ELSE rows[b]]
    BY Zenon
  <2>2. _start_route_build(rs) \/ (rows' = rs /\ msgs' = msgs)
    BY <1>4, <2>1, Zenon DEF _run_once
  <2> QED
    BY <1>1, <2>1, <2>2, ExpiredRows, Zenon
<1>5. ASSUME NEW answer, NEW bound, _read_drt_route_health(answer, bound)
      PROVE  \E rs \in {rows, invalidate_initiator_resolution(runtime.route)} :
                _start_route_build(rs) \/ (rows' = rs /\ msgs' = msgs)
  BY <1>5, Zenon DEF _read_drt_route_health
<1>6. CASE route_create_send_returns
  BY <1>1, <1>2, <1>3, <1>6, Zenon DEF route_create_send_returns
<1>7. ASSUME NEW answer, NEW bound, _read_drt_route_health(answer, bound)
      PROVE  \E rs \in [Builds -> InitiatorRows] :
                Kept(rs) /\ (_start_route_build(rs) \/ (rows' = rs /\ msgs' = msgs))
  <2>1. PICK rs \in {rows, invalidate_initiator_resolution(runtime.route)} :
                _start_route_build(rs) \/ (rows' = rs /\ msgs' = msgs)
    BY <1>5, <1>7, Zenon
  <2>2. rs \in [Builds -> InitiatorRows] /\ Kept(rs)
    BY <1>2, <1>3, <2>1, Zenon
  <2> QED
    BY <2>1, <2>2, Zenon
<1> QED
  BY <1>1, <1>4, <1>6, <1>7, Zenon DEF Maintenance

LEMMA OnceMaintenance ==
    ASSUME TypeOK, OnceInv, Maintenance
    PROVE  OnceInv'
<1>1. UNCHANGED <<hops, endpoints, publishing, polling>>
  BY MaintenanceKeeps, Zenon
<1>2. PICK rs \in [Builds -> InitiatorRows] :
        Kept(rs) /\ (_start_route_build(rs) \/ (rows' = rs /\ msgs' = msgs))
  BY MaintenanceKeeps, Zenon
<1>3. CASE _start_route_build(rs)
  BY <1>1, <1>2, <1>3, OnceStart, Zenon
<1>4. CASE rows' = rs /\ msgs' = msgs
  BY <1>1, <1>2, <1>4, OnceKept, Zenon
<1> QED
  BY <1>2, <1>3, <1>4, Zenon

\* The steps that only end or delay something.
LEMMA OnceRest ==
    ASSUME TypeOK, OnceInv,
           \/ \E b \in Builds : build_timeout_passes(b)
           \/ \E e \in drt : drt_entry_expires(e)
           \/ \E n \in Nodes : core_restarts(n)
           \/ UNCHANGED vars
    PROVE  OnceInv'
<1>1. /\ UNCHANGED <<rows, hops, endpoints, msgs>>
      /\ publishing' \subseteq publishing /\ polling' \subseteq polling
  BY DEF build_timeout_passes, drt_entry_expires, core_restarts, vars
<1> QED
  BY <1>1, OnceKept, Zenon DEF Kept

LEMMA OnceStep ==
    ASSUME Duplicating = FALSE, TypeOK, PathsExist, OnceInv, [Next]_vars
    PROVE  OnceInv'
<1>1. ASSUME NEW m \in msgs, Receive(m) PROVE OnceInv'
  BY <1>1, OnceCreate, OnceKemInfo, OnceValidate, OncePing, OncePong, OnceOk, OnceFail, Zenon DEF Receive
<1>2. ASSUME NEW p \in publishing, _publish_drt_route_after_pong(p) PROVE OnceInv'
  BY <1>2, OncePublish, Zenon
<1>3. ASSUME NEW p \in polling, _is_route_visible_in_drt(p) PROVE OnceInv'
  BY <1>3, OncePoll, Zenon
<1> QED
  BY <1>1, <1>2, <1>3, OnceMaintenance, OnceRest DEF Next

LEMMA OnceInit == Init => OnceInv
<1> SUFFICES ASSUME Init PROVE OnceInv
  BY Zenon
<1>1. InOrder
  <2>1. 0 \in 0..MaxBuilds /\ \A b \in Builds : ~ (b <= 0) /\ rows[b].status = "none"
    BY Numbers DEF Init, Builds
  <2> QED
    BY <2>1, Zenon DEF InOrder
<1>2. \A b \in Builds : BuildInv(b)
  <2> SUFFICES ASSUME NEW b \in Builds PROVE BuildInv(b)
    BY Zenon
  <2>1. /\ rows[b].status = "none" /\ hops[b] = <<>> /\ endpoints[b] = <<>>
        /\ msgs = {} /\ publishing = {} /\ polling = {}
    BY Zenon DEF Init
  <2>2. DOMAIN hops[b] = {} /\ Len(hops[b]) = 0 /\ Len(endpoints[b]) = 0
    BY <2>1
  <2>3. Len(hops[b]) <= InitialTtl
    BY <2>2, Numbers
  <2> QED
    BY <2>1, <2>2, <2>3, Zenon DEF BuildInv
<1> QED
  BY <1>1, <1>2, Zenon DEF OnceInv

LEMMA OnceAlways == ASSUME Duplicating = FALSE PROVE Spec => [](TypeOK /\ PathsExist /\ OnceInv)
<1>1. TypeOK /\ PathsExist /\ OnceInv /\ [Next]_vars => (TypeOK /\ PathsExist /\ OnceInv)'
  BY TypeStep, OnceStep, Zenon
<1> QED
  BY TypeInit, OnceInit, <1>1, PTL DEF Spec

\* Where messages arrive at most once, the random walk of a build makes no
\* more hop rows than its time to live has units (_forward_route_create),
\* whatever the round trips the nodes measured.
THEOREM WalksEnd == ASSUME Duplicating = FALSE PROVE Spec => []WalkBounded
<1>1. OnceInv => WalkBounded
  BY Zenon DEF OnceInv, BuildInv, WalkBounded
<1> QED
  BY OnceAlways, <1>1, PTL

LEMMA ActiveIsConnected == ASSUME TypeOK, OnceInv PROVE ActiveRouteIsConnected
<1> SUFFICES ASSUME NEW b \in Builds, rows[b].status = "active"
             PROVE  /\ Connected(b)
                    /\ \E e \in DOMAIN endpoints[b] :
                         endpoints[b][e].status = "active" /\ endpoints[b][e].offer = rows[b].offer
  BY Zenon DEF ActiveRouteIsConnected, Active
<1>1. /\ AllValid(b) /\ Endpoint(b, "active") /\ Agreed(b)
      /\ \A i \in DOMAIN hops[b] : hops[b][i].received = i - 1
  BY Zenon DEF OnceInv, BuildInv
<1>2. /\ Len(hops[b]) \in Nat /\ DOMAIN hops[b] = 1..Len(hops[b])
      /\ DOMAIN endpoints[b] = 1..Len(endpoints[b])
  BY BuildFacts, Zenon
<1>3. /\ 1 \in DOMAIN endpoints[b] /\ endpoints[b][1].status = "active"
      /\ endpoints[b][1].path = Len(hops[b]) /\ endpoints[b][1].offer = rows[b].offer
      /\ endpoints[b][1].offer.enc = rows[b].path
  BY <1>1, <1>2 DEF Endpoint, Agreed
<1>4. PICK links : links = 0..Len(hops[b])
  BY Zenon
<1>5. endpoints[b][1].path \in links
  BY <1>2, <1>3, <1>4
<1>6. ASSUME NEW path \in links \ {0}
      PROVE  /\ _resolve_reverse_path(b, path) = {path}
             /\ hops[b][path].received \in links
             /\ _resolve_forward_path(b, hops[b][path].received) = {path}
  <2>1. path \in DOMAIN hops[b] /\ hops[b][path].received = path - 1 /\ hops[b][path].valid
    BY <1>1, <1>2, <1>4, <1>6 DEF AllValid
  <2>2. _resolve_reverse_path(b, path) = {path}
    BY <2>1, Zenon DEF _resolve_reverse_path
  <2>3. hops[b][path].received \in links
    BY <1>2, <1>4, <2>1
  <2>4. {i \in DOMAIN hops[b] : hops[b][i].valid /\ hops[b][i].received = path - 1} = {path}
    <3>1. \A i \in DOMAIN hops[b] : hops[b][i].received = path - 1 => i = path
      BY <1>1, <1>2, <2>1
    <3> QED
      BY <2>1, <3>1, Zenon
  <2>5. path <= path
    BY <1>2, <2>1
  <2>6. _resolve_forward_path(b, path - 1) = {path}
    BY <2>4, <2>5, Zenon DEF _resolve_forward_path
  <2> QED
    BY <2>1, <2>2, <2>3, <2>6, Zenon
<1>7. Connected(b)
  BY <1>3, <1>4, <1>5, <1>6, Zenon DEF Connected
<1> QED
  BY <1>3, <1>7, Zenon

\* Where messages arrive at most once, a route that the initiator made active
\* is served by its final node under the same secret and final path id, over
\* hop rows that resolve in both directions; losses, timeouts, restarts and
\* failed publications never leave it half built.
THEOREM ActiveRoutesWork == ASSUME Duplicating = FALSE PROVE Spec => []ActiveRouteIsConnected
<1> QED
  BY OnceAlways, ActiveIsConnected, PTL

-----------------------------------------------------------------------------
(* The statuses and the number of pending builds.                          *)

\* A build that is started moves on by one status, or is given up.
MovesOn(b) ==
    \/ StaysOrGivenUp(b)
    \/ rows[b].status = "pending_kem_offer" /\ rows'[b].status = "pending_final_validation"
    \/ rows[b].status = "pending_final_validation" /\ rows'[b].status = "active"

LEMMA OfferMovesOn ==
    ASSUME TypeOK, OnceInv, NEW m \in msgs, handle_route_create_kem_info(m)
    PROVE  \A b \in Builds : MovesOn(b)
<1>1. m.type = "KEM_INFO" /\ m.b \in Builds
  BY DEF TypeOK, Messages, handle_route_create_kem_info
<1>2. rows[m.b].status \in {"pending_kem_offer", "invalid"}
  BY <1>1, Zenon DEF OnceInv, BuildInv, Stage
<1>3. CASE rows' = rows
  BY <1>3, Zenon DEF MovesOn, StaysOrGivenUp
<1>4. CASE IsValid(rows[m.b]) /\ \E offer, path :
             rows' = [rows EXCEPT ![m.b].status = "pending_final_validation",
                                  ![m.b].offer = offer, ![m.b].path = path]
  <2>1. rows[m.b].status = "pending_kem_offer"
    BY <1>2, <1>4, Zenon DEF IsValid
  <2>2. PICK offer, path : rows' = [rows EXCEPT ![m.b].status = "pending_final_validation",
                                                ![m.b].offer = offer, ![m.b].path = path]
    BY <1>4, Zenon
  <2>3. rows[m.b] \in InitiatorRows
    BY <1>1 DEF TypeOK
  <2>4. rows'[m.b] = [rows[m.b] EXCEPT !.status = "pending_final_validation", !.offer = offer, !.path = path]
        /\ \A c \in Builds \ {m.b} : rows'[c] = rows[c]
    BY <1>1, <2>2, Zenon DEF TypeOK
  <2>5. rows'[m.b].status = "pending_final_validation"
    BY <2>3, <2>4, Zenon DEF InitiatorRows
  <2> QED
    BY <2>1, <2>4, <2>5, Zenon DEF MovesOn, StaysOrGivenUp
<1> QED
  BY <1>3, <1>4, Zenon DEF handle_route_create_kem_info, _handle_local_route_create_kem_info

LEMMA PollMovesOn ==
    ASSUME TypeOK, OnceInv, NEW p \in polling, _is_route_visible_in_drt(p)
    PROVE  \A b \in Builds : MovesOn(b)
<1>1. p.b \in Builds
  BY Zenon DEF TypeOK
<1>2. rows[p.b].status \in {"pending_final_validation", "invalid"}
  BY <1>1, Zenon DEF OnceInv, BuildInv, Published
<1>3. CASE rows' = rows
  BY <1>3 DEF MovesOn, StaysOrGivenUp
<1>4. CASE rows' = invalidate_initiator_resolution(p.b)
  BY <1>4, GivenUpRow DEF MovesOn, StaysOrGivenUp
<1>5. CASE IsValid(rows[p.b]) /\ rows' = [rows EXCEPT ![p.b].status = "active", ![p.b].path = p.path]
  <2>1. rows[p.b].status = "pending_final_validation" /\ rows[p.b] \in InitiatorRows
    BY <1>1, <1>2, <1>5, Zenon DEF IsValid, TypeOK
  <2>2. rows'[p.b] = [rows[p.b] EXCEPT !.status = "active", !.path = p.path]
        /\ \A c \in Builds \ {p.b} : rows'[c] = rows[c]
    BY <1>1, <1>5, Zenon DEF TypeOK
  <2>3. rows'[p.b].status = "active"
    BY <2>1, <2>2, Zenon DEF InitiatorRows
  <2> QED
    BY <2>1, <2>2, <2>3, Zenon DEF MovesOn, StaysOrGivenUp
<1> QED
  BY <1>3, <1>4, <1>5 DEF _is_route_visible_in_drt, mark_initiator_resolution_active

LEMMA AllMoveOn ==
    ASSUME TypeOK, OnceInv, [Next]_vars, ~ Maintenance
    PROVE  \A b \in Builds : MovesOn(b)
<1>1. ASSUME rows' = rows PROVE \A b \in Builds : MovesOn(b)
  BY <1>1, Zenon DEF MovesOn, StaysOrGivenUp
<1>2. ASSUME NEW m \in msgs, handle_route_create_fail(m) PROVE \A b \in Builds : MovesOn(b)
  <2>1. CASE rows' = rows
    BY <1>1, <2>1, Zenon
  <2>2. CASE rows' = invalidate_initiator_resolution(m.b)
    BY <2>2, GivenUpRow DEF MovesOn, StaysOrGivenUp
  <2> QED
    BY <1>2, <2>1, <2>2, Zenon DEF handle_route_create_fail
<1>3. ASSUME NEW m \in msgs, Receive(m) PROVE \A b \in Builds : MovesOn(b)
  BY <1>1, <1>2, <1>3, OfferMovesOn, Zenon
     DEF Receive, handle_route_create, handle_route_create_validate_and_publish,
         handle_route_create_ping, handle_route_create_pong, handle_route_create_ok
<1>4. ASSUME NEW p \in publishing, _publish_drt_route_after_pong(p) PROVE \A b \in Builds : MovesOn(b)
  BY <1>1, <1>4, Zenon DEF _publish_drt_route_after_pong
<1>5. CASE \/ \E b \in Builds : build_timeout_passes(b)
           \/ \E e \in drt : drt_entry_expires(e)
           \/ \E n \in Nodes : core_restarts(n)
           \/ UNCHANGED vars
  BY <1>1, <1>5, Zenon DEF build_timeout_passes, drt_entry_expires, core_restarts, vars
<1>6. ASSUME NEW p \in polling, _is_route_visible_in_drt(p) PROVE \A b \in Builds : MovesOn(b)
  BY <1>6, PollMovesOn, Zenon
<1> QED
  BY <1>3, <1>4, <1>5, <1>6, Zenon DEF Next

LEMMA RankMoves ==
    ASSUME TypeOK, NEW b \in Builds, MovesOn(b)
    PROVE  Rank(rows[b].status) <= Rank(rows'[b].status)
<1>1. /\ Rank("none") = 0 /\ Rank("pending_kem_offer") = 1 /\ Rank("pending_final_validation") = 2
      /\ Rank("active") = 3 /\ Rank("invalid") = 4
  BY Zenon DEF Rank
<1>2. rows[b] \in InitiatorRows
  BY Zenon DEF TypeOK
<1>3. rows[b].status \in {"none", "pending_kem_offer", "pending_final_validation", "active", "invalid"}
  BY <1>2, Zenon DEF InitiatorRows
<1>4. CASE StaysOrGivenUp(b)
  <2>1. rows'[b].status \in {rows[b].status, "invalid"}
    BY <1>2, <1>4, Zenon DEF StaysOrGivenUp, InitiatorRows
  <2> QED
    BY <1>1, <1>3, <2>1
<1>5. CASE rows[b].status = "pending_kem_offer" /\ rows'[b].status = "pending_final_validation"
  BY <1>1, <1>5
<1>6. CASE rows[b].status = "pending_final_validation" /\ rows'[b].status = "active"
  BY <1>1, <1>6
<1> QED
  BY <1>4, <1>5, <1>6, Zenon DEF MovesOn

LEMMA StatusStep ==
    ASSUME TypeOK, OnceInv, [Next]_vars
    PROVE  \A b \in Builds : Rank(rows[b].status) <= Rank(rows'[b].status)
<1>1. CASE ~ Maintenance
  BY <1>1, AllMoveOn, RankMoves
<1>2. CASE Maintenance
  <2>1. PICK rs \in [Builds -> InitiatorRows] :
          Kept(rs) /\ (_start_route_build(rs) \/ (rows' = rs /\ msgs' = msgs))
    BY <1>2, MaintenanceKeeps, Zenon
  <2>2. \A b \in Builds : rows'[b] = rs[b] => MovesOn(b)
    BY <2>1, Zenon DEF Kept, MovesOn, StaysOrGivenUp
  <2>3. CASE rows' = rs
    BY <2>2, <2>3, RankMoves, Zenon
  <2>4. CASE _start_route_build(rs) /\ Started + 1 \notin Builds
    BY <2>3, <2>4, Zenon DEF _start_route_build
  <2>5. CASE _start_route_build(rs) /\ Started + 1 \in Builds
    <3>1. PICK b \in Builds : b = Started + 1
      BY <2>5, Zenon
    <3>2. rows[b].status = "none" /\ rows'[b].status = "pending_kem_offer"
          /\ \A c \in Builds \ {b} : rows'[c] = rs[c]
      BY <2>5, <3>1, NextIsNew, StartedRow
    <3>3. Rank("none") = 0 /\ Rank("pending_kem_offer") = 1
      BY Zenon DEF Rank
    <3>4. \A c \in Builds \ {b} : Rank(rows[c].status) <= Rank(rows'[c].status)
      BY <2>2, <3>2, RankMoves, Zenon
    <3> QED
      BY <3>2, <3>3, <3>4
  <2> QED
    BY <2>1, <2>3, <2>4, <2>5, Zenon
<1> QED
  BY <1>1, <1>2, Zenon

\* Where messages arrive at most once, the status of a route only advances:
\* a KEM_INFO, OK or poll result that comes late finds the row given up and
\* leaves it, and none comes after the route is active.
THEOREM StatusesAdvance == ASSUME Duplicating = FALSE PROVE Spec => StatusAdvances
<1>1. TypeOK /\ OnceInv /\ [Next]_vars
      => [\A b \in Builds : Rank(rows[b].status) <= Rank(rows'[b].status)]_vars
  BY StatusStep, Zenon
<1> QED
  BY OnceAlways, <1>1, PTL DEF Spec, StatusAdvances

\* At most one build is added to a set of pending ones.
LEMMA OneMorePending ==
    ASSUME NEW rs, NEW b \in Builds, \A c \in Builds \ {b} : rows'[c] = rs[c]
    PROVE  Cardinality(Pending(rows')) <= Cardinality(Pending(rs)) + 1
<1>1. Pending(rows') \subseteq Pending(rs) \cup {b}
  BY Zenon DEF Pending
<1>2. IsFiniteSet(Pending(rs)) /\ Cardinality(Pending(rs)) \in Nat
  BY CountFacts, Zenon
<1>3. /\ IsFiniteSet(Pending(rs) \cup {b})
      /\ Cardinality(Pending(rs) \cup {b}) <= Cardinality(Pending(rs)) + 1
  BY <1>2, FS_AddElement
<1>4. Cardinality(Pending(rows')) <= Cardinality(Pending(rs) \cup {b})
  BY <1>1, <1>3, FS_Subset, Zenon
<1>5. /\ Cardinality(Pending(rows')) \in Nat
      /\ Cardinality(Pending(rs) \cup {b}) \in Nat
  BY <1>1, <1>3, FS_Subset, FS_CardinalityType, Zenon
<1> QED
  BY <1>2, <1>3, <1>4, <1>5

LEMMA FewerPending ==
    ASSUME NEW rs, NEW qs, Pending(qs) \subseteq Pending(rs)
    PROVE  Cardinality(Pending(qs)) <= Cardinality(Pending(rs))
  BY CountFacts, FS_Subset, Zenon

\* Rows that the loop kept have no more builds pending.
LEMMA KeptPending ==
    ASSUME TypeOK, NEW rs, Kept(rs)
    PROVE  Cardinality(Pending(rs)) <= Cardinality(Pending(rows))
<1>1. Pending(rs) \subseteq Pending(rows)
  <2>1. \A b \in Builds : rows[b] \in InitiatorRows
    BY Zenon DEF TypeOK
  <2>2. \A b \in Builds : rs[b].status \in {rows[b].status, "invalid"}
    BY <2>1, Zenon DEF Kept, InitiatorRows
  <2> QED
    BY <2>2, Zenon DEF Pending
<1> QED
  BY <1>1, FewerPending, Zenon

\* A build is started where fewer are pending than routes are wanted.
LEMMA CountStart ==
    ASSUME TypeOK, NEW rs \in [Builds -> InitiatorRows], _start_route_build(rs),
           NEW wanted \in Nat, wanted <= MinRoutes, Cardinality(Pending(rs)) < wanted
    PROVE  PendingBounded' /\ runtime'.pc # "health"
<1>1. Cardinality(Pending(rs)) \in Nat /\ Cardinality(Pending(rows')) \in Nat /\ MinRoutes \in Nat
  BY CountFacts, Numbers, Zenon
<1>2. CASE Started + 1 \notin Builds
  <2>1. rows' = rs /\ runtime' = Idle
    BY <1>2, Zenon DEF _start_route_build
  <2>2. Cardinality(Pending(rows')) <= MinRoutes
    BY <1>1, <2>1
  <2> QED
    BY <2>1, <2>2, Zenon DEF PendingBounded, Idle
<1>3. CASE Started + 1 \in Builds
  <2>1. PICK b \in Builds : b = Started + 1
    BY <1>3, Zenon
  <2>2. runtime'.pc = "sending" /\ \A c \in Builds \ {b} : rows'[c] = rs[c]
    BY <2>1, StartedRow
  <2>3. Cardinality(Pending(rows')) <= Cardinality(Pending(rs)) + 1
    BY <2>2, OneMorePending, Zenon
  <2> QED
    BY <1>1, <2>2, <2>3 DEF PendingBounded
<1> QED
  BY <1>2, <1>3, Zenon

LEMMA CountMaintenance ==
    ASSUME TypeOK, CountInv, Maintenance
    PROVE  CountInv'
<1>1. drt' = drt /\ IsFiniteSet(drt') /\ Cardinality(drt) \in Nat
  BY FS_CardinalityType, Zenon DEF CountInv, Maintenance, _run_once, _read_drt_route_health, route_create_send_returns
<1>2. \A rs : Cardinality(Pending(rs)) \in Nat
  BY CountFacts, Zenon
<1>3. Cardinality(Pending(rows)) <= MinRoutes /\ MinRoutes \in Nat
  BY Numbers, Zenon DEF CountInv, PendingBounded
<1>4. ASSUME NEW rs, Kept(rs), rows' = rs PROVE PendingBounded'
  <2>1. Cardinality(Pending(rs)) <= Cardinality(Pending(rows))
    BY <1>4, KeptPending, Zenon
  <2>2. Cardinality(Pending(rs)) <= MinRoutes
    BY <1>2, <1>3, <2>1
  <2> QED
    BY <1>4, <2>2, Zenon DEF PendingBounded
<1>5. \A b \in {runtime.route} : invalidate_initiator_resolution(b) \in [Builds -> InitiatorRows]
             /\ Kept(invalidate_initiator_resolution(b))
  <2>1. PICK rs : rs = invalidate_initiator_resolution(runtime.route)
    BY Zenon
  <2> QED
    BY <2>1, InitiatorRowFacts, GivenUpRow DEF Kept
<1>6. rows \in [Builds -> InitiatorRows] /\ Kept(rows)
  BY Zenon DEF TypeOK, Kept
<1>7. CASE _run_once
  <2>1. PICK rs : rs = [b \in Builds |-> IF b \in Stale THEN [rows[b] EXCEPT !.status = "invalid"] ELSE rows[b]]
    BY Zenon
  <2>2. rs \in [Builds -> InitiatorRows] /\ Kept(rs)
    BY <2>1, ExpiredRows, Zenon
  <2>3. CASE rows' = rs /\ runtime'.pc = "health" /\ runtime'.pending = Cardinality(Pending(rs))
    BY <1>1, <1>2, <1>4, <2>2, <2>3 DEF CountInv
  <2>4. CASE rows' = rs /\ runtime' = runtime
    <3>1. runtime.pc # "health"
      BY <1>7, Zenon DEF _run_once
    <3> QED
      BY <1>1, <1>4, <2>2, <2>4, <3>1, Zenon DEF CountInv
  <2>5. CASE _start_route_build(rs) /\ ~ (Cardinality(Pending(rs)) >= MinRoutes)
    <3>1. Cardinality(Pending(rs)) < MinRoutes
      BY <1>2, <1>3, <2>5
    <3>2. PendingBounded' /\ runtime'.pc # "health"
      BY <1>3, <2>2, <2>5, <3>1, CountStart
    <3> QED
      BY <1>1, <3>2, Zenon DEF CountInv
  <2>6. \/ rows' = rs /\ runtime'.pc = "health" /\ runtime'.pending = Cardinality(Pending(rs))
        \/ rows' = rs /\ runtime' = runtime
        \/ _start_route_build(rs) /\ ~ (Cardinality(Pending(rs)) >= MinRoutes)
    BY <1>7, <2>1 DEF _run_once, EnoughPending
  <2> QED
    BY <2>3, <2>4, <2>5, <2>6, Zenon
<1>8. ASSUME NEW answer, NEW bound, _read_drt_route_health(answer, bound) PROVE CountInv'
  <2>1. PICK online : online = IF answer = "found" THEN Cardinality(drt) ELSE 0
    BY Zenon
  <2>2. PICK missing : missing = IF online < MinRoutes THEN MinRoutes - online ELSE 0
    BY Zenon
  <2>3. online \in Nat /\ missing \in Nat /\ missing <= MinRoutes
    BY <1>1, <1>3, <2>1, <2>2
  <2>4. PICK rs \in {rows, invalidate_initiator_resolution(runtime.route)} :
          \/ _start_route_build(rs) /\ ~ (runtime.pending >= missing)
          \/ rows' = rs /\ runtime' = Idle
    BY <1>8, <2>1, <2>2, Zenon DEF _read_drt_route_health, EnoughPending
  <2>5. rs \in [Builds -> InitiatorRows] /\ Kept(rs)
    BY <1>5, <1>6, <2>4
  <2>6. /\ Cardinality(Pending(rs)) <= Cardinality(Pending(rows))
        /\ Cardinality(Pending(rows)) <= runtime.pending /\ runtime.pending \in Nat
    BY <1>8, <2>5, KeptPending, Zenon DEF CountInv, TypeOK, _read_drt_route_health
  <2>7. CASE _start_route_build(rs) /\ ~ (runtime.pending >= missing)
    <3>1. Cardinality(Pending(rs)) < missing
      BY <1>2, <2>3, <2>6, <2>7
    <3>2. PendingBounded' /\ runtime'.pc # "health"
      BY <2>3, <2>5, <2>7, <3>1, CountStart, Zenon
    <3> QED
      BY <1>1, <3>2, Zenon DEF CountInv
  <2>8. CASE rows' = rs /\ runtime' = Idle
    BY <1>1, <1>4, <2>5, <2>8 DEF CountInv, Idle
  <2> QED
    BY <2>4, <2>7, <2>8, Zenon
<1>9. CASE route_create_send_returns
  <2>1. Kept(rows') /\ runtime' = Idle
    BY <1>5, <1>6, <1>9, Zenon DEF route_create_send_returns
  <2> QED
    BY <1>1, <1>4, <2>1, Zenon DEF CountInv, Idle
<1> QED
  BY <1>7, <1>8, <1>9, Zenon DEF Maintenance

LEMMA CountStep ==
    ASSUME TypeOK, OnceInv, CountInv, [Next]_vars
    PROVE  CountInv'
<1>1. CASE Maintenance
  BY <1>1, CountMaintenance, Zenon
<1>2. CASE ~ Maintenance
  <2>1. \A b \in Builds : rows[b] \in InitiatorRows
    BY Zenon DEF TypeOK
  <2>2. \A b \in Builds : MovesOn(b)
    BY <1>2, AllMoveOn, Zenon
  <2>3. Pending(rows') \subseteq Pending(rows)
    BY <2>1, <2>2, Zenon DEF MovesOn, StaysOrGivenUp, Pending, InitiatorRows
  <2>4. Cardinality(Pending(rows')) <= Cardinality(Pending(rows))
    BY <2>3, FewerPending
  <2>5. runtime' \in {runtime, Idle}
    BY <1>2, Zenon DEF Next, Receive, handle_route_create, handle_route_create_kem_info,
                handle_route_create_validate_and_publish, handle_route_create_ping,
                handle_route_create_pong, handle_route_create_ok, handle_route_create_fail,
                _publish_drt_route_after_pong, _is_route_visible_in_drt, build_timeout_passes,
                drt_entry_expires, core_restarts, vars
  <2>6. drt' \subseteq drt \/ \E e : drt' = drt \cup {e}
    BY <1>2, Zenon DEF Next, Receive, handle_route_create, handle_route_create_kem_info,
                handle_route_create_validate_and_publish, handle_route_create_ping,
                handle_route_create_pong, handle_route_create_ok, handle_route_create_fail,
                _publish_drt_route_after_pong, _is_route_visible_in_drt, build_timeout_passes,
                drt_entry_expires, core_restarts, vars
  <2>7. IsFiniteSet(drt')
    BY <2>6, FS_Subset, FS_AddElement DEF CountInv
  <2>8. /\ Cardinality(Pending(rows)) \in Nat /\ Cardinality(Pending(rows')) \in Nat
        /\ MinRoutes \in Nat /\ runtime.pending \in Nat
    BY CountFacts, Numbers, Zenon DEF TypeOK
  <2>9. Cardinality(Pending(rows')) <= MinRoutes
    BY <2>4, <2>8 DEF CountInv, PendingBounded
  <2>10. runtime'.pc = "health" => Cardinality(Pending(rows')) <= runtime'.pending
    BY <2>4, <2>5, <2>8 DEF CountInv, Idle
  <2> QED
    BY <2>7, <2>9, <2>10, Zenon DEF CountInv, PendingBounded
<1> QED
  BY <1>1, <1>2

\* Where messages arrive at most once, the maintenance loop never has more
\* builds pending than it wants routes: the count that _run_once made before
\* it awaited the health of the active route is never too low afterwards,
\* since only the loop itself adds pending builds.
THEOREM PendingStaysBounded == ASSUME Duplicating = FALSE PROVE Spec => []PendingBounded
<1>1. Init => CountInv
  <2> SUFFICES ASSUME Init PROVE CountInv
    BY Zenon
  <2>1. Pending(rows) = {}
    BY Zenon DEF Init, Pending
  <2>2. Cardinality(Pending(rows)) = 0 /\ IsFiniteSet(drt)
    BY <2>1, FS_EmptySet, Zenon DEF Init
  <2>3. runtime.pc = "idle"
    BY Zenon DEF Init, Idle
  <2>4. PendingBounded
    BY <2>2, Numbers DEF PendingBounded
  <2> QED
    BY <2>2, <2>3, <2>4, Zenon DEF CountInv
<1>2. CountInv => PendingBounded
  BY Zenon DEF CountInv
<1> QED
  BY OnceAlways, CountStep, <1>1, <1>2, PTL DEF Spec
=============================================================================
