----------------------- MODULE SessionKeepaliveProofs -----------------------
(***************************************************************************)
(* Proofs about SessionKeepalive for any interval, scan period and delay   *)
(* that leave the keepalives time enough.                                  *)
(***************************************************************************)
EXTENDS SessionKeepalive, TLAPS

\* A scan and the way of a packet to the peer and back take at most half an
\* interval, and at least one side can send keepalives: the initiator of a
\* session knows an endpoint of its peer.
KeepalivesInTime ==
    /\ 2 * ScanPeriod + 4 * MaxDelay <= Interval
    /\ \A s \in Setups : s.observed # Sides

\* The sender of a packet was active when it sent the packet.
SenderWasActive == \A m \in wire : idle[Peer(m.to)] <= m.age

\* An answer is sent when a keepalive arrives: the side that asked was active
\* when it sent that.
AskerWasActive ==
    \A m \in wire : m.type = "KEEPALIVE_ACK" => idle[m.to] <= MaxDelay + m.age

\* A scan that awaits a send has just touched the session.
ScanWasActive == \A side \in Sides : scan[side] # "idle" => idle[side] = 0

\* A side that can send asks for an answer at the first scan after half an
\* interval.
AsksInTime(side) ==
    ~ asked[side] /\ scan[side] = "idle" => 2 * (idle[side] - since[side]) < Interval

\* The other side hears of it: it was active not much earlier, or a packet to
\* it, sent before it was silent for too long, is under way.
HearsInTime(side) ==
    \/ idle[Peer(side)] <= idle[side] + MaxDelay
    \/ \E m \in wire :
         /\ m.to = Peer(side)
         /\ 2 * (idle[Peer(side)] - m.age) < Interval + 2 * ScanPeriod + 2 * MaxDelay

HealthyInv ==
    link = "healthy" =>
        /\ \A side \in Sides : state[side] = "active" /\ scan[side] # "closing"
        /\ \A m \in wire : m.type # "CLOSE"
        /\ \E side \in Sides \ setup.observed : ~Mute(side)
        /\ \A side \in Sides \ setup.observed : AsksInTime(side) /\ HearsInTime(side)

ActivityInv == SenderWasActive /\ AskerWasActive /\ ScanWasActive
IInv == TypeOK /\ setup \in Setups /\ ActivityInv /\ HealthyInv

-----------------------------------------------------------------------------
LEMMA PeerFacts ==
    \A side \in Sides : Peer(side) \in Sides /\ Peer(side) # side /\ Peer(Peer(side)) = side
  BY DEF Sides, Peer

PacketTypes == {"KEEPALIVE", "KEEPALIVE_ACK", "CLOSE", "DATA"}
Packets == [type : PacketTypes, to : Sides, age : 0..MaxDelay]

\* A packet sent in time is well-formed, and so is one that got older in time.
LEMMA PacketFacts ==
    /\ \A type \in PacketTypes, side \in Sides :
         /\ Packet(type, side) \in Packets
         /\ Packet(type, side).type = type
         /\ Packet(type, side).to = Peer(side)
         /\ Packet(type, side).age = 0
    /\ \A m \in Packets : m.age < MaxDelay =>
         /\ [m EXCEPT !.age = @ + 1] \in Packets
         /\ [m EXCEPT !.age = @ + 1].type = m.type
         /\ [m EXCEPT !.age = @ + 1].to = m.to
         /\ [m EXCEPT !.age = @ + 1].age = m.age + 1
  BY KeepaliveAssumption, PeerFacts DEF Packet, Packets

\* The states of the two ends, of their scans and of the packets between them
\* are always those of the code, whatever the link does: the idle time never
\* passes the interval without the scan having expired the session.
THEOREM TypeCorrect == Spec => []TypeOK
<1>1. Init => TypeOK
  BY KeepaliveAssumption DEF Init, TypeOK
<1>2. TypeOK /\ [Next]_vars => TypeOK'
  <2> SUFFICES ASSUME TypeOK, [Next]_vars PROVE TypeOK'
    OBVIOUS
  <2>1. wire \subseteq Packets
    BY DEF TypeOK, Packets, PacketTypes
  <2>2. ASSUME wire' \subseteq Packets, state' \in [Sides -> {"active", "closed"}],
               idle' \in [Sides -> 0..Interval], asked' \in [Sides -> BOOLEAN],
               scan' \in [Sides -> {"idle", "keepalive", "closing"}],
               since' \in [Sides -> 0..ScanPeriod], link' \in {"healthy", "disturbed", "cut"}
        PROVE  TypeOK'
    BY <2>2 DEF TypeOK, Packets, PacketTypes
  <2>3. ASSUME NEW type \in PacketTypes, NEW side \in Sides, NEW ws \in SUBSET wire
        PROVE  Transmitted(ws, type, side) \subseteq Packets
    BY <2>1, PacketFacts DEF Transmitted
  <2>4. ASSUME NEW side \in Sides, touch_session(side)
        PROVE  idle' \in [Sides -> 0..Interval] /\ asked' \in [Sides -> BOOLEAN]
    BY <2>4, KeepaliveAssumption DEF TypeOK, touch_session
  <2>5. ASSUME NEW m \in wire, Decrypted(m)
        PROVE  /\ idle' \in [Sides -> 0..Interval] /\ asked' \in [Sides -> BOOLEAN]
               /\ wire' \subseteq Packets
    BY <2>1, <2>4, <2>5 DEF TypeOK, Decrypted, Packets
  <2>6. ASSUME NEW m \in wire, NEW type, Arrives(m, type)
        PROVE  link' \in {"healthy", "disturbed", "cut"}
    BY <2>6 DEF TypeOK, Arrives
  <2>7. CASE UNCHANGED vars
    BY <2>1, <2>2, <2>7 DEF TypeOK, vars
  <2>8. ASSUME NEW side \in Sides, _run_once(side) PROVE TypeOK'
    <3>1. ASSUME NEW type \in PacketTypes, NEW pc \in {"keepalive", "closing"},
                 SendFromScan(side, type, pc)
          PROVE  TypeOK'
      <4>1. wire' \subseteq Packets
        BY <2>3, <3>1 DEF SendFromScan
      <4>2. scan' \in [Sides -> {"idle", "keepalive", "closing"}]
        BY <3>1 DEF SendFromScan, TypeOK
      <4> QED
        BY <2>2, <2>4, <2>8, <3>1, <4>1, <4>2 DEF SendFromScan, _run_once, TypeOK
    <3>2. CASE /\ state' = [state EXCEPT ![side] = "closed"]
               /\ since' = [since EXCEPT ![side] = 0]
               /\ UNCHANGED <<idle, asked, wire, scan>>
      BY <2>1, <2>2, <2>8, <3>2, KeepaliveAssumption DEF _run_once, TypeOK
    <3>3. CASE since' = [since EXCEPT ![side] = 0] /\ UNCHANGED <<state, idle, asked, wire, scan>>
      BY <2>1, <2>2, <2>8, <3>3, KeepaliveAssumption DEF _run_once, TypeOK
    <3> QED
      BY <2>8, <3>1, <3>2, <3>3 DEF _run_once, _close_expired_session, PacketTypes
  <2>9. ASSUME NEW side \in Sides, send_returns(side) PROVE TypeOK'
    <3>1. state' \in [Sides -> {"active", "closed"}] /\ asked' \in [Sides -> BOOLEAN]
      BY <2>9 DEF send_returns, TypeOK
    <3> QED
      BY <2>1, <2>2, <2>9, <3>1, KeepaliveAssumption DEF send_returns, TypeOK
  <2>10. ASSUME NEW side \in Sides, send_raises(side) PROVE TypeOK'
    BY <2>1, <2>2, <2>10, KeepaliveAssumption DEF send_raises, TypeOK
  <2>11. ASSUME NEW side \in Sides, app_sends(side) PROVE TypeOK'
    <3>1. wire' \subseteq Packets
      BY <2>3, <2>11 DEF app_sends, PacketTypes
    <3> QED
      BY <2>2, <2>4, <2>11, <3>1, KeepaliveAssumption DEF app_sends, TypeOK
  <2>12. ASSUME NEW m \in wire, handle_keepalive(m) PROVE TypeOK'
    <3>1. m.to \in Sides
      BY <2>1 DEF Packets
    <3>2. wire' \subseteq Packets
      BY <2>1, <2>3, <2>12, <3>1 DEF handle_keepalive, PacketTypes
    <3> QED
      BY <2>2, <2>4, <2>6, <2>12, <3>1, <3>2 DEF handle_keepalive, TypeOK
  <2>13. ASSUME NEW m \in wire, handle_keepalive_ack(m) \/ handle_data(m) PROVE TypeOK'
    BY <2>2, <2>5, <2>6, <2>13 DEF handle_keepalive_ack, handle_data, TypeOK
  <2>14. ASSUME NEW m \in wire, handle_close(m) PROVE TypeOK'
    BY <2>2, <2>5, <2>6, <2>14 DEF handle_close, TypeOK
  <2>15. ASSUME NEW m \in wire, lose(m) PROVE TypeOK'
    BY <2>1, <2>2, <2>15 DEF lose, TypeOK
  <2>16. CASE tick
    <3>1. wire' \subseteq Packets
      BY <2>1, <2>16, PacketFacts DEF tick
    <3> QED
      BY <2>2, <2>16, <3>1, KeepaliveAssumption DEF tick, TypeOK
  <2>17. CASE interruption
    BY <2>2, <2>17 DEF interruption, TypeOK
  <2>18. ASSUME NEW side \in Sides, app_send_fails(side) PROVE TypeOK'
    BY <2>1, <2>2, <2>4, <2>18 DEF app_send_fails, TypeOK
  <2> QED
    BY <2>7, <2>8, <2>9, <2>10, <2>11, <2>12, <2>13, <2>14, <2>15, <2>16, <2>17, <2>18 DEF Next
<1> QED
  BY <1>1, <1>2, PTL DEF Spec

-----------------------------------------------------------------------------
\* What an activity of one side, and the time, do to the clocks.
LEMMA Touched ==
    ASSUME TypeOK, NEW side \in Sides, touch_session(side)
    PROVE  /\ idle'[side] = 0 /\ asked'[side] = FALSE
           /\ \A other \in Sides \ {side} : /\ idle'[other] = idle[other]
                                            /\ asked'[other] = asked[other]
  BY DEF TypeOK, touch_session

LEMMA Scanned ==
    ASSUME TypeOK, NEW side \in Sides, NEW pc
    PROVE  /\ [scan EXCEPT ![side] = pc][side] = pc
           /\ [since EXCEPT ![side] = 0][side] = 0
           /\ \A other \in Sides \ {side} :
                /\ [scan EXCEPT ![side] = pc][other] = scan[other]
                /\ [since EXCEPT ![side] = 0][other] = since[other]
  BY DEF TypeOK

LEMMA Sent ==
    ASSUME NEW ws, NEW type \in PacketTypes, NEW side \in Sides, NEW m \in Transmitted(ws, type, side)
    PROVE  m \in ws \/ (m.type = type /\ m.to = Peer(side) /\ m.age = 0)
  BY PacketFacts DEF Transmitted

LEMMA SenderStep == TypeOK /\ SenderWasActive /\ [Next]_vars => SenderWasActive'
<1> SUFFICES ASSUME TypeOK, SenderWasActive, [Next]_vars PROVE SenderWasActive'
  OBVIOUS
<1>1. \A m \in wire : m.to \in Sides /\ m.age \in Nat /\ Peer(m.to) \in Sides /\ idle[Peer(m.to)] \in Nat
  BY PeerFacts, KeepaliveAssumption DEF TypeOK
<1>2. ASSUME NEW side \in Sides, NEW type \in PacketTypes, NEW ws \in SUBSET wire,
             touch_session(side), wire' = Transmitted(ws, type, side)
      PROVE  SenderWasActive'
  <2> SUFFICES ASSUME NEW m \in wire' PROVE idle'[Peer(m.to)] <= m.age
    BY DEF SenderWasActive
  <2>1. idle'[side] = 0 /\ \A other \in Sides \ {side} : idle'[other] = idle[other]
    BY <1>2, Touched
  <2>2. CASE m \in ws
    BY <1>1, <1>2, <2>2, <2>1 DEF SenderWasActive
  <2>3. CASE m.to = Peer(side) /\ m.age = 0
    BY <2>1, <2>3, PeerFacts
  <2> QED
    BY <1>2, <2>2, <2>3, Sent
<1>3. ASSUME NEW m \in wire, Decrypted(m) PROVE SenderWasActive'
  <2>1. CASE touch_session(m.to)
    <3>1. idle'[m.to] = 0 /\ \A other \in Sides \ {m.to} : idle'[other] = idle[other]
      BY <1>1, <2>1, Touched
    <3> QED
      BY <1>1, <1>3, <3>1 DEF Decrypted, SenderWasActive
  <2> QED
    BY <1>3, <2>1 DEF Decrypted, SenderWasActive
<1>4. CASE tick
  <2> SUFFICES ASSUME NEW m \in wire PROVE idle'[Peer(m.to)] <= m.age + 1
    <3>1. \A m \in wire : /\ [m EXCEPT !.age = @ + 1].to = m.to
                          /\ [m EXCEPT !.age = @ + 1].age = m.age + 1
      BY <1>4, PacketFacts DEF tick, TypeOK, Packets, PacketTypes
    <3> QED
      BY <1>4, <3>1 DEF tick, SenderWasActive
  <2> QED
    BY <1>1, <1>4, KeepaliveAssumption DEF tick, SenderWasActive, TypeOK
<1>5. ASSUME NEW side \in Sides, _run_once(side) PROVE SenderWasActive'
  <2>1. CASE SendFromScan(side, "CLOSE", "closing") \/ SendFromScan(side, "KEEPALIVE", "keepalive")
    BY <1>2, <2>1 DEF SendFromScan, PacketTypes
  <2>2. CASE UNCHANGED <<idle, wire>>
    BY <2>2 DEF SenderWasActive
  <2> QED
    BY <1>5, <2>1, <2>2 DEF _run_once, _close_expired_session
<1>6. ASSUME NEW side \in Sides, app_sends(side) PROVE SenderWasActive'
  BY <1>2, <1>6 DEF app_sends, PacketTypes
<1>7. ASSUME NEW m \in wire, handle_keepalive(m) PROVE SenderWasActive'
  <2>1. CASE touch_session(m.to) /\ wire' = Transmitted(wire \ {m}, "KEEPALIVE_ACK", m.to)
    BY <1>1, <1>2, <2>1 DEF PacketTypes
  <2>2. CASE wire' = wire \ {m} /\ UNCHANGED <<idle, asked>>
    BY <2>2 DEF SenderWasActive
  <2> QED
    BY <1>7, <2>1, <2>2 DEF handle_keepalive
<1>8. ASSUME UNCHANGED idle, wire' \subseteq wire PROVE SenderWasActive'
  BY <1>8 DEF SenderWasActive
<1>9. ASSUME NEW side \in Sides, app_send_fails(side) PROVE SenderWasActive'
  <2>1. idle'[side] = 0 /\ \A other \in Sides \ {side} : idle'[other] = idle[other]
    BY <1>9, Touched DEF app_send_fails
  <2> QED
    BY <1>1, <1>9, <2>1 DEF app_send_fails, SenderWasActive
<1> QED
  BY <1>3, <1>4, <1>5, <1>6, <1>7, <1>8, <1>9
     DEF Next, vars, send_returns, send_raises, handle_keepalive_ack, handle_data, handle_close,
         lose, interruption

LEMMA AskerStep ==
    TypeOK /\ SenderWasActive /\ AskerWasActive /\ [Next]_vars => AskerWasActive'
<1> SUFFICES ASSUME TypeOK, SenderWasActive, AskerWasActive, [Next]_vars PROVE AskerWasActive'
  OBVIOUS
<1> USE KeepaliveAssumption
<1>1. \A m \in wire : m.to \in Sides /\ m.age \in 0..MaxDelay /\ idle[m.to] \in Nat
  BY DEF TypeOK
<1>2. ASSUME NEW side \in Sides, touch_session(side),
             \A n \in wire' : n \in wire \/ n.type # "KEEPALIVE_ACK"
      PROVE  AskerWasActive'
  <2>1. idle'[side] = 0 /\ \A other \in Sides \ {side} : idle'[other] = idle[other]
    BY <1>2, Touched
  <2> SUFFICES ASSUME NEW m \in wire', m.type = "KEEPALIVE_ACK"
               PROVE  idle'[m.to] <= MaxDelay + m.age
    BY DEF AskerWasActive
  <2> QED
    BY <1>1, <1>2, <2>1 DEF AskerWasActive
<1>3. ASSUME UNCHANGED idle, wire' \subseteq wire PROVE AskerWasActive'
  BY <1>3 DEF AskerWasActive
<1>4. CASE tick
  <2> SUFFICES ASSUME NEW n \in wire', n.type = "KEEPALIVE_ACK"
               PROVE  idle'[n.to] <= MaxDelay + n.age
    BY DEF AskerWasActive
  <2>1. PICK m \in wire : n = [m EXCEPT !.age = @ + 1]
    BY <1>4 DEF tick
  <2>2. n.type = m.type /\ n.to = m.to /\ n.age = m.age + 1
    BY <1>4, <2>1, PacketFacts DEF tick, TypeOK, Packets, PacketTypes
  <2>3. idle'[m.to] <= idle[m.to] + 1 /\ idle'[m.to] \in Nat
    BY <1>1, <1>4 DEF tick, TypeOK
  <2> QED
    BY <1>1, <2>2, <2>3 DEF AskerWasActive
<1>5. ASSUME NEW side \in Sides, _run_once(side) PROVE AskerWasActive'
  <2>1. ASSUME NEW type \in {"CLOSE", "KEEPALIVE"}, NEW pc, SendFromScan(side, type, pc)
        PROVE  AskerWasActive'
    <3>1. \A n \in wire' : n \in wire \/ n.type # "KEEPALIVE_ACK"
      BY <2>1, Sent DEF SendFromScan, PacketTypes
    <3> QED
      BY <1>2, <2>1, <3>1 DEF SendFromScan
  <2>2. CASE UNCHANGED <<idle, wire>>
    BY <2>2 DEF AskerWasActive
  <2> QED
    BY <1>5, <2>1, <2>2 DEF _run_once, _close_expired_session
<1>6. ASSUME NEW side \in Sides, app_sends(side) PROVE AskerWasActive'
  <2>1. \A n \in wire' : n \in wire \/ n.type # "KEEPALIVE_ACK"
    BY <1>6, Sent DEF app_sends, PacketTypes
  <2> QED
    BY <1>2, <1>6, <2>1 DEF app_sends
<1>7. ASSUME NEW side \in Sides, app_send_fails(side) PROVE AskerWasActive'
  BY <1>2, <1>7 DEF app_send_fails
<1>8. ASSUME NEW m \in wire, Decrypted(m) PROVE AskerWasActive'
  BY <1>1, <1>2, <1>3, <1>8 DEF Decrypted
<1>9. ASSUME NEW m \in wire, handle_keepalive(m) PROVE AskerWasActive'
  <2>1. CASE wire' = wire \ {m} /\ UNCHANGED <<idle, asked>>
    BY <1>3, <2>1
  <2>2. CASE touch_session(m.to) /\ wire' = Transmitted(wire \ {m}, "KEEPALIVE_ACK", m.to)
    <3>1. idle'[m.to] = 0 /\ \A other \in Sides \ {m.to} : idle'[other] = idle[other]
      BY <1>1, <2>2, Touched
    <3>2. Peer(m.to) \in Sides /\ Peer(m.to) # m.to /\ idle[Peer(m.to)] <= m.age
          /\ idle[Peer(m.to)] \in Nat
      BY <1>1, PeerFacts DEF SenderWasActive, TypeOK
    <3> SUFFICES ASSUME NEW n \in wire', n.type = "KEEPALIVE_ACK"
                 PROVE  idle'[n.to] <= MaxDelay + n.age
      BY DEF AskerWasActive
    <3>3. CASE n \in wire
      BY <1>1, <3>1, <3>3 DEF AskerWasActive
    <3>4. CASE n.to = Peer(m.to) /\ n.age = 0
      BY <1>1, <3>1, <3>2, <3>4
    <3>5. "KEEPALIVE_ACK" \in PacketTypes /\ n \in Transmitted(wire \ {m}, "KEEPALIVE_ACK", m.to)
      BY <2>2 DEF PacketTypes
    <3>6. n \in wire \ {m} \/ (n.to = Peer(m.to) /\ n.age = 0)
      BY <1>1, <3>5, Sent
    <3> QED
      BY <3>3, <3>4, <3>6
  <2> QED
    BY <1>9, <2>1, <2>2 DEF handle_keepalive
<1> QED
  BY <1>3, <1>4, <1>5, <1>6, <1>7, <1>8, <1>9
     DEF Next, vars, send_returns, send_raises, handle_keepalive_ack, handle_data, handle_close,
         lose, interruption

LEMMA ScanStep == TypeOK /\ ScanWasActive /\ [Next]_vars => ScanWasActive'
<1> SUFFICES ASSUME TypeOK, ScanWasActive, [Next]_vars PROVE ScanWasActive'
  OBVIOUS
<1>1. ASSUME NEW side \in Sides, touch_session(side),
             \A other \in Sides \ {side} : scan'[other] = scan[other]
      PROVE  ScanWasActive'
  <2>1. idle'[side] = 0 /\ \A other \in Sides \ {side} : idle'[other] = idle[other]
    BY <1>1, Touched
  <2> QED
    BY <1>1, <2>1 DEF ScanWasActive
<1>2. ASSUME NEW side \in Sides, UNCHANGED idle, scan' = [scan EXCEPT ![side] = "idle"]
      PROVE  ScanWasActive'
  BY <1>2 DEF ScanWasActive, TypeOK
<1>3. ASSUME UNCHANGED <<idle, scan>> PROVE ScanWasActive'
  BY <1>3 DEF ScanWasActive
<1>4. CASE tick
  BY <1>4 DEF tick, ScanWasActive
<1>5. ASSUME NEW side \in Sides, _run_once(side) PROVE ScanWasActive'
  <2>1. ASSUME NEW type, NEW pc, SendFromScan(side, type, pc) PROVE ScanWasActive'
    <3>1. \A other \in Sides \ {side} : scan'[other] = scan[other]
      BY <2>1 DEF SendFromScan, TypeOK
    <3> QED
      BY <1>1, <2>1, <3>1 DEF SendFromScan
  <2> QED
    BY <1>3, <1>5, <2>1 DEF _run_once, _close_expired_session
<1>6. ASSUME NEW side \in Sides, app_sends(side) \/ app_send_fails(side) PROVE ScanWasActive'
  BY <1>1, <1>6 DEF app_sends, app_send_fails
<1>7. ASSUME NEW m \in wire, Receive(m) PROVE ScanWasActive'
  <2>1. m.to \in Sides /\ scan' = scan
    BY <1>7 DEF TypeOK, Receive, handle_keepalive, handle_keepalive_ack, handle_data, handle_close
  <2>2. touch_session(m.to) \/ UNCHANGED idle
    BY <1>7 DEF Receive, handle_keepalive, handle_keepalive_ack, handle_data, handle_close, Decrypted
  <2> QED
    BY <1>1, <1>3, <2>1, <2>2
<1> QED
  BY <1>2, <1>3, <1>4, <1>5, <1>6, <1>7
     DEF Next, vars, Receive, send_returns, send_raises, lose, interruption

-----------------------------------------------------------------------------
\* While the link is healthy a side that sends keepalives and is not mute is
\* not silent for much more than half an interval, and no side for a whole one.
LEMMA InTime ==
    ASSUME KeepalivesInTime, IInv, link = "healthy"
    PROVE  /\ \A side \in Sides \ setup.observed :
                ~Mute(side) => 2 * idle[side] < Interval + 2 * ScanPeriod
           /\ \A side \in Sides : idle[side] < Interval
<1> USE KeepaliveAssumption
<1>1. ASSUME NEW side \in Sides \ setup.observed, ~Mute(side)
      PROVE  2 * idle[side] < Interval + 2 * ScanPeriod
  <2>1. idle[side] \in Nat /\ since[side] \in 0..ScanPeriod /\ asked[side] \in BOOLEAN
    BY DEF IInv, TypeOK
  <2>2. CASE scan[side] # "idle"
    BY <2>1, <2>2 DEF IInv, ActivityInv, ScanWasActive
  <2>3. CASE scan[side] = "idle" /\ ~asked[side]
    BY <2>1, <2>3 DEF IInv, HealthyInv, AsksInTime
  <2>4. CASE asked[side]
    <3>1. PICK m \in wire : \/ m.type = "KEEPALIVE" /\ m.to = Peer(side)
                            \/ m.type = "KEEPALIVE_ACK" /\ m.to = side
      BY <1>1, <2>4 DEF Mute
    <3>2. m.age \in 0..MaxDelay
      BY DEF IInv, TypeOK
    <3>3. idle[side] <= MaxDelay + m.age
      <4>1. CASE m.to = Peer(side)
        BY <2>1, <3>2, <4>1, PeerFacts DEF IInv, ActivityInv, SenderWasActive
      <4>2. CASE m.type = "KEEPALIVE_ACK" /\ m.to = side
        BY <4>2 DEF IInv, ActivityInv, AskerWasActive
      <4> QED
        BY <3>1, <4>1, <4>2
    <3> QED
      BY <2>1, <3>2, <3>3 DEF KeepalivesInTime
  <2> QED
    BY <2>2, <2>3, <2>4
<1>2. ASSUME NEW side \in Sides \ setup.observed, ~Mute(side)
      PROVE  idle[side] < Interval /\ idle[Peer(side)] < Interval
  <2>1. HearsInTime(side) /\ 2 * idle[side] < Interval + 2 * ScanPeriod
    BY <1>1, <1>2 DEF IInv, HealthyInv
  <2>2. idle[side] \in Nat /\ idle[Peer(side)] \in Nat
    BY PeerFacts DEF IInv, TypeOK
  <2>3. \A m \in wire : m.age \in 0..MaxDelay
    BY DEF IInv, TypeOK
  <2>4. 2 * idle[Peer(side)] < Interval + 2 * ScanPeriod + 4 * MaxDelay
    BY <2>1, <2>2, <2>3 DEF HearsInTime
  <2> QED
    BY <2>1, <2>2, <2>4 DEF KeepalivesInTime
<1>3. PICK able \in Sides \ setup.observed : ~Mute(able)
  BY DEF IInv, HealthyInv
<1>4. \A side \in Sides : side = able \/ side = Peer(able)
  BY DEF Sides, Peer
<1> QED
  BY <1>1, <1>2, <1>3, <1>4

\* A side is not made mute by a step that marks no keepalive as sent and takes
\* none, and no answer, from the wire without touching the side that asked or
\* answering it.
LEMMA StillHeard ==
    ASSUME IInv, link = "healthy", setup' = setup,
           \A side \in Sides \ setup.observed :
              /\ asked'[side] => asked[side]
              /\ asked'[side] => \A m \in wire :
                    \/ m.type = "KEEPALIVE" /\ m.to = Peer(side)
                    \/ m.type = "KEEPALIVE_ACK" /\ m.to = side
                    => \E n \in wire' : \/ n.type = "KEEPALIVE" /\ n.to = Peer(side)
                                        \/ n.type = "KEEPALIVE_ACK" /\ n.to = side
    PROVE  \E side \in Sides \ setup.observed : ~Mute(side)'
<1>1. PICK able \in Sides \ setup.observed : ~Mute(able)
  BY DEF IInv, HealthyInv
<1> QED
  BY <1>1 DEF Mute

-----------------------------------------------------------------------------
\* A packet that is sent while the link is healthy is on the wire.
LEMMA SentOnHealthy ==
    ASSUME link = "healthy", NEW ws, NEW type \in PacketTypes, NEW side \in Sides
    PROVE  \E m \in Transmitted(ws, type, side) :
              /\ ws \subseteq Transmitted(ws, type, side)
              /\ m.type = type /\ m.to = Peer(side) /\ m.age = 0
  BY PacketFacts DEF Transmitted

\* A side that sends a packet is active, and its peer will hear of it.
LEMMA SendKeeps ==
    ASSUME KeepalivesInTime, IInv, link = "healthy", setup' = setup,
           NEW side \in Sides, NEW type \in PacketTypes, touch_session(side),
           wire' = Transmitted(wire, type, side),
           \A other \in Sides \ {side} : scan'[other] = scan[other] /\ since'[other] = since[other]
    PROVE  /\ \E x \in Sides \ setup.observed : ~Mute(x)'
           /\ \A x \in Sides \ setup.observed : HearsInTime(x)'
           /\ \A x \in Sides \ (setup.observed \cup {side}) : AsksInTime(x)'
<1> USE KeepaliveAssumption
<1>1. /\ idle'[side] = 0 /\ asked'[side] = FALSE
      /\ \A other \in Sides \ {side} : idle'[other] = idle[other] /\ asked'[other] = asked[other]
  BY Touched DEF IInv
<1>2. PICK new \in wire' : wire \subseteq wire' /\ new.type = type /\ new.to = Peer(side) /\ new.age = 0
  BY SentOnHealthy
<1>3. \A x \in Sides : idle[x] \in Nat
  BY DEF IInv, TypeOK
<1>4. \A m \in wire : m.age \in Nat
  BY DEF IInv, TypeOK
<1>5. ASSUME NEW x \in Sides \ setup.observed, x # side PROVE AsksInTime(x)' /\ HearsInTime(x)'
  <2>1. AsksInTime(x)
    BY DEF IInv, HealthyInv
  <2>2. Peer(x) = side
    BY <1>5 DEF Sides, Peer
  <2> QED
    BY <1>1, <1>3, <1>5, <2>1, <2>2 DEF AsksInTime, HearsInTime
<1>6. ASSUME side \notin setup.observed PROVE HearsInTime(side)'
  <2>1. Peer(side) \in Sides /\ Peer(side) # side
    BY PeerFacts
  <2>2. CASE 2 * idle[Peer(side)] < Interval + 2 * ScanPeriod + 2 * MaxDelay
    <3>1. 2 * (idle[Peer(side)] - 0) < Interval + 2 * ScanPeriod + 2 * MaxDelay
      BY <1>3, <2>1, <2>2
    <3> QED
      BY <1>1, <1>2, <2>1, <3>1 DEF HearsInTime
  <2>3. CASE Mute(side)
    <3>1. PICK able \in Sides \ setup.observed : ~Mute(able)
      BY DEF IInv, HealthyInv
    <3>2. able = Peer(side)
      BY <2>3, <3>1 DEF Sides, Peer
    <3>3. 2 * idle[Peer(side)] < Interval + 2 * ScanPeriod
      BY <3>1, <3>2, InTime
    <3> QED
      BY <1>3, <2>1, <2>2, <3>3
  <2>4. CASE ~Mute(side)
    <3>1. HearsInTime(side) /\ 2 * idle[side] < Interval + 2 * ScanPeriod
      BY <1>6, <2>4, InTime DEF IInv, HealthyInv
    <3>2. CASE idle[Peer(side)] <= idle[side] + MaxDelay
      BY <1>3, <2>1, <2>2, <3>1, <3>2
    <3> QED
      BY <1>1, <1>2, <2>1, <3>1, <3>2 DEF HearsInTime
  <2> QED
    BY <2>3, <2>4
<1>7. \E x \in Sides \ setup.observed : ~Mute(x)'
  BY <1>1, <1>2, StillHeard
<1> QED
  BY <1>5, <1>6, <1>7

\* A side that received a packet is active, and was not far behind its peer.
LEMMA ReceiveKeeps ==
    ASSUME KeepalivesInTime, IInv, link = "healthy", setup' = setup, UNCHANGED <<scan, since>>,
           NEW m \in wire, touch_session(m.to), wire \ {m} \subseteq wire',
           m.type = "KEEPALIVE" => \E n \in wire' : /\ n.type = "KEEPALIVE_ACK"
                                                    /\ n.to = Peer(m.to) /\ n.age = 0
    PROVE  /\ \E x \in Sides \ setup.observed : ~Mute(x)'
           /\ \A x \in Sides \ setup.observed : AsksInTime(x)' /\ HearsInTime(x)'
<1> USE KeepaliveAssumption
<1>1. m.to \in Sides /\ m.age \in 0..MaxDelay /\ \A x \in Sides : idle[x] \in Nat /\ since[x] \in Nat
  BY DEF IInv, TypeOK
<1>2. /\ idle'[m.to] = 0 /\ asked'[m.to] = FALSE
      /\ \A other \in Sides \ {m.to} : idle'[other] = idle[other] /\ asked'[other] = asked[other]
  BY <1>1, Touched DEF IInv
<1>3. Peer(m.to) \in Sides /\ Peer(m.to) # m.to /\ Peer(Peer(m.to)) = m.to
  BY <1>1, PeerFacts
<1>4. AsksInTime(m.to)'
  <2>1. 2 * (0 - since[m.to]) < Interval
    BY <1>1
  <2> QED
    BY <1>2, <2>1 DEF AsksInTime
<1>5. HearsInTime(m.to)'
  <2>1. idle[Peer(m.to)] <= m.age
    BY DEF IInv, ActivityInv, SenderWasActive
  <2>2. idle[Peer(m.to)] <= 0 + MaxDelay
    BY <1>1, <1>3, <2>1
  <2> QED
    BY <1>2, <1>3, <2>2 DEF HearsInTime
<1>6. ASSUME NEW x \in Sides \ setup.observed, x # m.to PROVE AsksInTime(x)' /\ HearsInTime(x)'
  <2>1. x = Peer(m.to) /\ Peer(x) = m.to
    BY <1>1, <1>6 DEF Sides, Peer
  <2>2. AsksInTime(x)
    BY DEF IInv, HealthyInv
  <2>3. 0 <= idle[x] + MaxDelay
    BY <1>1
  <2> QED
    BY <1>2, <1>6, <2>1, <2>2, <2>3 DEF AsksInTime, HearsInTime
<1>7. \E x \in Sides \ setup.observed : ~Mute(x)'
  <2>1. \A x \in Sides : asked'[x] => x # m.to /\ asked[x]
    BY <1>1, <1>2
  <2>2. ASSUME NEW x \in Sides, x # m.to, NEW n \in wire,
               \/ n.type = "KEEPALIVE" /\ n.to = Peer(x)
               \/ n.type = "KEEPALIVE_ACK" /\ n.to = x
        PROVE  \E w \in wire' : \/ w.type = "KEEPALIVE" /\ w.to = Peer(x)
                                \/ w.type = "KEEPALIVE_ACK" /\ w.to = x
    <3>1. x = Peer(m.to)
      BY <1>1, <2>2 DEF Sides, Peer
    <3>2. CASE n # m
      BY <2>2, <3>2
    <3>3. CASE n = m
      BY <2>2, <3>1, <3>3
    <3> QED
      BY <3>2, <3>3
  <2> QED
    BY <2>1, <2>2, StillHeard
<1> QED
  BY <1>4, <1>5, <1>6, <1>7

-----------------------------------------------------------------------------
LEMMA TickKeeps ==
    ASSUME KeepalivesInTime, IInv, link = "healthy", tick
    PROVE  \A x \in Sides \ setup.observed : AsksInTime(x)' /\ HearsInTime(x)'
<1> USE KeepaliveAssumption
<1> SUFFICES ASSUME NEW x \in Sides \ setup.observed PROVE AsksInTime(x)' /\ HearsInTime(x)'
  OBVIOUS
<1>1. \A y \in Sides : idle[y] \in Nat /\ since[y] \in Nat
  BY DEF IInv, TypeOK
<1>2. /\ scan[x] = "idle" /\ scan' = scan /\ asked' = asked
      /\ since'[x] = since[x] + 1
      /\ \A y \in Sides : idle'[y] = idle[y] + 1
  <2>1. state[x] = "active" /\ \A y \in Sides : idle[y] < Interval
    BY InTime DEF IInv, HealthyInv
  <2> QED
    BY <2>1 DEF tick
<1>3. \A m \in wire : \E n \in wire' : n.type = m.type /\ n.to = m.to /\ n.age = m.age + 1
  <2>1. \A m \in wire : m \in Packets /\ m.age < MaxDelay
    BY DEF tick, IInv, TypeOK, Packets, PacketTypes
  <2> QED
    BY <2>1, PacketFacts DEF tick
<1>4. AsksInTime(x) /\ HearsInTime(x)
  BY DEF IInv, HealthyInv
<1>5. Peer(x) \in Sides
  BY PeerFacts
<1>6. \A m \in wire : m.age \in Nat
  BY DEF IInv, TypeOK
<1>7. AsksInTime(x)'
  BY <1>1, <1>2, <1>4 DEF AsksInTime
<1>8. HearsInTime(x)'
  <2>1. CASE idle[Peer(x)] <= idle[x] + MaxDelay
    BY <1>1, <1>2, <1>5, <2>1 DEF HearsInTime
  <2>2. CASE \E m \in wire :
               /\ m.to = Peer(x)
               /\ 2 * (idle[Peer(x)] - m.age) < Interval + 2 * ScanPeriod + 2 * MaxDelay
    <3>1. PICK m \in wire :
               /\ m.to = Peer(x)
               /\ 2 * (idle[Peer(x)] - m.age) < Interval + 2 * ScanPeriod + 2 * MaxDelay
      BY <2>2
    <3>2. PICK n \in wire' : n.type = m.type /\ n.to = m.to /\ n.age = m.age + 1
      BY <1>3
    <3> QED
      BY <1>1, <1>2, <1>5, <1>6, <3>1, <3>2 DEF HearsInTime
  <2> QED
    BY <1>4, <2>1, <2>2 DEF HearsInTime
<1> QED
  BY <1>7, <1>8

\* No step of a healthy session closes it or lets the keepalives come late.
LEMMA HealthyStep == KeepalivesInTime /\ IInv /\ [Next]_vars => HealthyInv'
<1> DEFINE Heard == /\ \E side \in Sides \ setup'.observed : ~Mute(side)'
                    /\ \A side \in Sides \ setup'.observed : AsksInTime(side)' /\ HearsInTime(side)'
           Goal == /\ \A side \in Sides : state'[side] = "active" /\ scan'[side] # "closing"
                   /\ \A m \in wire' : m.type # "CLOSE"
                   /\ Heard
<1> SUFFICES ASSUME KeepalivesInTime, IInv, [Next]_vars, link' = "healthy" PROVE Goal
  BY DEF HealthyInv
<1>1. link = "healthy" /\ setup' = setup
  BY DEF Next, vars, _run_once, send_returns, send_raises, app_sends, app_send_fails, handle_keepalive,
         handle_keepalive_ack, handle_data, handle_close, Arrives, lose, tick, interruption
<1>2. /\ \A side \in Sides : state[side] = "active" /\ scan[side] # "closing"
      /\ \A m \in wire : m.type # "CLOSE"
      /\ \E side \in Sides \ setup.observed : ~Mute(side)
      /\ \A side \in Sides \ setup.observed : AsksInTime(side) /\ HearsInTime(side)
  BY <1>1 DEF IInv, HealthyInv
<1>3. ASSUME NEW ws \in SUBSET wire, NEW type \in PacketTypes \ {"CLOSE"}, NEW side \in Sides
      PROVE  \A m \in Transmitted(ws, type, side) : m.type # "CLOSE"
  BY <1>2, Sent
<1>4. CASE UNCHANGED vars
  BY <1>2, <1>4 DEF vars, AsksInTime, HearsInTime, Mute
<1>5. ASSUME NEW side \in Sides, _run_once(side) PROVE Goal
  <2>1. ~ _should_close_session(side)
    BY <1>1, InTime, KeepaliveAssumption DEF _should_close_session, IInv, TypeOK
  <2>2. CASE _should_send_keepalive(side)
    <3>1. SendFromScan(side, "KEEPALIVE", "keepalive")
      BY <1>5, <2>1, <2>2 DEF _run_once
    <3>2. /\ scan'[side] = "keepalive"
          /\ \A other \in Sides \ {side} : scan'[other] = scan[other] /\ since'[other] = since[other]
      <4>1. scan' = [scan EXCEPT ![side] = "keepalive"] /\ since' = since
        BY <3>1 DEF SendFromScan
      <4> QED
        BY <4>1, Scanned DEF IInv
    <3>3. AsksInTime(side)'
      BY <3>2 DEF AsksInTime
    <3>4. /\ \E x \in Sides \ setup.observed : ~Mute(x)'
          /\ \A x \in Sides \ setup.observed : HearsInTime(x)'
          /\ \A x \in Sides \ (setup.observed \cup {side}) : AsksInTime(x)'
      BY <1>1, <3>1, <3>2, SendKeeps DEF SendFromScan, PacketTypes
    <3>5. \A m \in wire' : m.type # "CLOSE"
      BY <1>3, <3>1 DEF SendFromScan, PacketTypes
    <3>6. Heard
      BY <1>1, <3>3, <3>4
    <3> QED
      BY <1>2, <3>1, <3>2, <3>5, <3>6 DEF SendFromScan
  <2>3. CASE ~ _should_send_keepalive(side)
    <3>1. since' = [since EXCEPT ![side] = 0] /\ UNCHANGED <<state, idle, asked, wire, scan>>
      BY <1>5, <2>1, <2>3 DEF _run_once
    <3>2. since'[side] = 0 /\ \A other \in Sides \ {side} : since'[other] = since[other]
      BY <3>1, Scanned DEF IInv
    <3>3. ASSUME NEW x \in Sides \ setup.observed PROVE AsksInTime(x)' /\ HearsInTime(x)'
      <4>1. CASE x # side
        BY <1>2, <3>1, <3>2, <4>1 DEF AsksInTime, HearsInTime
      <4>2. CASE x = side
        <5>1. ~ asked[x] => 2 * (idle[x] - 0) < Interval
          BY <2>3, <4>2, KeepaliveAssumption
             DEF _should_send_keepalive, _can_send_session_message, IInv, TypeOK
        <5> QED
          BY <1>2, <3>1, <3>2, <4>2, <5>1 DEF AsksInTime, HearsInTime
      <4> QED
        BY <4>1, <4>2
    <3>4. \E x \in Sides \ setup.observed : ~Mute(x)'
      BY <1>2, <3>1 DEF Mute
    <3> QED
      BY <1>1, <1>2, <3>1, <3>3, <3>4
  <2> QED
    BY <2>2, <2>3
<1>6. ASSUME NEW side \in Sides, send_returns(side) PROVE Goal
  <2>1. scan[side] = "keepalive"
    BY <1>2, <1>6 DEF send_returns, IInv, TypeOK
  <2>2. /\ asked' = [asked EXCEPT ![side] = TRUE] /\ scan' = [scan EXCEPT ![side] = "idle"]
        /\ since' = [since EXCEPT ![side] = 0] /\ UNCHANGED <<state, idle, wire>>
    BY <1>6, <2>1 DEF send_returns
  <2>3. /\ asked'[side] = TRUE /\ scan'[side] = "idle"
        /\ \A x \in Sides \ {side} : /\ asked'[x] = asked[x] /\ scan'[x] = scan[x]
                                     /\ since'[x] = since[x]
    BY <2>2 DEF IInv, TypeOK
  <2>4. ASSUME NEW x \in Sides \ setup.observed PROVE AsksInTime(x)' /\ HearsInTime(x)'
    BY <1>2, <2>2, <2>3 DEF AsksInTime, HearsInTime
  <2>5. \E x \in Sides \ setup.observed : ~Mute(x)'
    BY <1>1, <1>6 DEF send_returns
  <2> QED
    BY <1>1, <1>2, <2>2, <2>3, <2>4, <2>5
<1>7. ASSUME NEW side \in Sides, app_sends(side) PROVE Goal
  <2>1. idle'[side] = 0 /\ UNCHANGED <<scan, since, state>>
    BY <1>7, Touched DEF app_sends, IInv
  <2>2. /\ \E x \in Sides \ setup.observed : ~Mute(x)'
        /\ \A x \in Sides \ setup.observed : HearsInTime(x)'
        /\ \A x \in Sides \ (setup.observed \cup {side}) : AsksInTime(x)'
    BY <1>1, <1>7, <2>1, SendKeeps DEF app_sends, PacketTypes
  <2>3. \A m \in wire' : m.type # "CLOSE"
    BY <1>3, <1>7 DEF app_sends, PacketTypes
  <2>4. AsksInTime(side)'
    <3>1. 2 * (0 - since[side]) < Interval
      BY KeepaliveAssumption DEF IInv, TypeOK
    <3> QED
      BY <2>1, <3>1 DEF AsksInTime
  <2>5. Heard
    BY <1>1, <2>2, <2>4
  <2> QED
    BY <1>2, <2>1, <2>3, <2>5
<1>8. \A m \in wire : m.to \in Sides
  BY DEF IInv, TypeOK
<1>9. ASSUME NEW m \in wire, handle_keepalive(m) PROVE Goal
  <2>1. m.to \in Sides
    BY <1>8
  <2>2. /\ touch_session(m.to) /\ wire' = Transmitted(wire \ {m}, "KEEPALIVE_ACK", m.to)
        /\ UNCHANGED <<state, scan, since>>
    BY <1>2, <1>9, <2>1 DEF handle_keepalive
  <2>3. /\ wire \ {m} \subseteq wire'
        /\ \E n \in wire' : n.type = "KEEPALIVE_ACK" /\ n.to = Peer(m.to) /\ n.age = 0
    <3>1. wire' = Transmitted(wire \ {m}, "KEEPALIVE_ACK", m.to) /\ "KEEPALIVE_ACK" \in PacketTypes
      BY <2>2 DEF PacketTypes
    <3> QED
      BY <1>1, <2>1, <3>1, SentOnHealthy
  <2>4. Heard
    BY <1>1, <2>2, <2>3, ReceiveKeeps
  <2>5. \A n \in wire' : n.type # "CLOSE"
    BY <1>3, <2>1, <2>2 DEF PacketTypes
  <2> QED
    BY <1>2, <2>2, <2>4, <2>5
<1>10. ASSUME NEW m \in wire, handle_keepalive_ack(m) \/ handle_data(m) PROVE Goal
  <2>1. m.to \in Sides /\ m.type # "KEEPALIVE"
    BY <1>8, <1>10 DEF handle_keepalive_ack, handle_data, Arrives
  <2>2. touch_session(m.to) /\ wire' = wire \ {m} /\ UNCHANGED <<state, scan, since>>
    BY <1>2, <1>10, <2>1 DEF handle_keepalive_ack, handle_data, Decrypted
  <2>3. Heard
    BY <1>1, <2>1, <2>2, ReceiveKeeps
  <2> QED
    BY <1>2, <2>2, <2>3
<1>11. CASE tick
  <2>1. \A x \in Sides \ setup.observed : AsksInTime(x)' /\ HearsInTime(x)'
    BY <1>1, <1>11, TickKeeps
  <2>2. \A m \in wire : LET n == [m EXCEPT !.age = @ + 1] IN n.type = m.type /\ n.to = m.to
    BY <1>11, PacketFacts DEF tick, IInv, TypeOK, Packets, PacketTypes
  <2>3. /\ \A m \in wire : \E n \in wire' : n.type = m.type /\ n.to = m.to
        /\ \A n \in wire' : \E m \in wire : n.type = m.type
    BY <1>11, <2>2 DEF tick
  <2>4. \E x \in Sides \ setup.observed : ~Mute(x)'
    <3>1. asked' = asked
      BY <1>11 DEF tick
    <3> QED
      BY <1>1, <2>3, <3>1, StillHeard
  <2>5. \A m \in wire' : m.type # "CLOSE"
    BY <1>2, <2>3
  <2> QED
    BY <1>1, <1>2, <1>11, <2>1, <2>4, <2>5 DEF tick
<1>12. ASSUME NEW m \in wire, handle_close(m) PROVE Goal
  BY <1>2, <1>12 DEF handle_close, Arrives
<1>13. CASE \/ interruption \/ \E m \in wire : lose(m)
            \/ \E side \in Sides : send_raises(side) \/ app_send_fails(side)
  BY <1>1, <1>13 DEF interruption, send_raises, app_send_fails, lose
<1> QED
  BY <1>4, <1>5, <1>6, <1>7, <1>9, <1>10, <1>11, <1>12, <1>13 DEF Next

\* Over a healthy link neither side expires the session, however scans,
\* keepalives, answers and traffic interleave, whichever side only knows the
\* observed endpoint of its peer, and also when answers overtake the return of
\* their keepalive's send, until every side that sends keepalives is mute.
THEOREM StaysAlive == ASSUME KeepalivesInTime PROVE Spec => []KeptAlive
<1>1. Init => setup \in Setups /\ ActivityInv /\ HealthyInv
  <2> SUFFICES ASSUME Init PROVE setup \in Setups /\ ActivityInv /\ HealthyInv
    OBVIOUS
  <2>1. ActivityInv
    BY DEF Init, ActivityInv, SenderWasActive, AskerWasActive, ScanWasActive
  <2>2. \E side \in Sides \ setup.observed : ~Mute(side)
    <3>1. setup.observed \subseteq Sides /\ setup.observed # Sides
      BY KeepaliveAssumption DEF Init, KeepalivesInTime
    <3> QED
      BY <3>1 DEF Init, Mute
  <2>3. \A side \in Sides : AsksInTime(side) /\ HearsInTime(side)
    BY KeepaliveAssumption DEF Init, AsksInTime, HearsInTime, Sides, Peer
  <2> QED
    BY <2>1, <2>2, <2>3 DEF Init, HealthyInv
<1>2. IInv /\ [Next]_vars /\ TypeOK' => IInv'
  <2>1. [Next]_vars => setup' = setup
    BY DEF Next, vars, _run_once, send_returns, send_raises, app_sends, app_send_fails, handle_keepalive,
           handle_keepalive_ack, handle_data, handle_close, lose, tick, interruption
  <2> QED
    BY <2>1, SenderStep, AskerStep, ScanStep, HealthyStep DEF IInv, ActivityInv
<1>3. IInv => KeptAlive
  BY DEF IInv, HealthyInv, KeptAlive
<1> QED
  BY <1>1, <1>2, <1>3, TypeCorrect, PTL DEF Spec, IInv
=============================================================================
