-------------------------- MODULE VirtualKeysProofs -------------------------
(***************************************************************************)
(* Proofs about the secrets of virtual sessions where no packet is handled *)
(* twice, for any routes, callers, scenarios and contents.                 *)
(***************************************************************************)
EXTENDS ContentTransferProofs

Handshake == {"INIT", "INIT_OK", "KEY_CONFIRM", "READY"}

\* The entry points a caller may still try.
MayTry(v, k) ==
    \/ caller[v].pc = "idle"
    \/ caller[v].pc = "trying" /\ k >= caller[v].attempt
    \/ caller[v].pc = "waiting" /\ k > caller[v].sid[2]

Fresh(s) ==
    /\ sess[s]["c"] = NoSide /\ sess[s]["t"] = NoSide
    /\ \A p \in packets : p.sid # s

\* How far the handshake of a session is while packet p carries it.
HandshakeStage(p) ==
    LET c == sess[p.sid]["c"]
        t == sess[p.sid]["t"]
    IN  /\ p.body.type = "INIT" =>
             p.dir = "pn_to_vn" /\ c.secret = NoKey /\ c.eph = 0 /\ t = NoSide
        /\ p.body.type = "INIT_OK" =>
             /\ p.dir = "vn_to_pn" /\ p.body.val = <<1>>
             /\ c.secret = NoKey /\ c.eph = 0 /\ t.secret = NoKey /\ t.eph = 1
        /\ p.body.type = "KEY_CONFIRM" =>
             /\ p.dir = "pn_to_vn" /\ p.body.val = <<1, 1>>
             /\ c.secret = <<1, 1>> /\ t.secret = NoKey /\ t.eph = 1
        /\ p.body.type = "READY" =>
             p.dir = "vn_to_pn" /\ c.secret = <<1, 1>> /\ t.secret = <<1, 1>>

\* At most one message of the handshake is on its way, and a side that is
\* active was told so by one that has the same secret.
SessionOnce(s) ==
    /\ "active" \in {sess[s]["c"].state, sess[s]["t"].state} =>
         sess[s]["c"].secret = <<1, 1>> /\ sess[s]["t"].secret = <<1, 1>>
    /\ \A p \in packets : p.sid = s /\ p.body.type \in Handshake => HandshakeStage(p)
    /\ \A p, q \in packets :
         /\ p.sid = s /\ p.body.type \in Handshake
         /\ q.sid = s /\ q.body.type \in Handshake
         => p = q

Keys(s) == SessionOnce(s) /\ (MayTry(s[1], s[2]) => Fresh(s))

KeysInv == ~Faults({"dup"}) => \A s \in Sessions : Keys(s)
-----------------------------------------------------------------------------

\* A side that keeps its secret and does not become active.
SecretKept(x, y) ==
    y.secret = x.secret /\ y.eph = x.eph /\ (y.state = "active" => x.state = "active")

\* No message of the handshake of s is sent.
LEMMA OnceKept ==
    ASSUME NEW s, SessionOnce(s),
           SecretKept(sess[s]["c"], sess'[s]["c"]), SecretKept(sess[s]["t"], sess'[s]["t"]),
           sess[s]["t"] = NoSide => sess'[s]["t"] = NoSide,
           \A q \in packets' : q.sid = s /\ q.body.type \in Handshake => q \in packets
    PROVE  SessionOnce(s)'
<1>1. ASSUME NEW q \in packets', q.sid = s, q.body.type \in Handshake
      PROVE  HandshakeStage(q)'
  <2>1. q \in packets /\ HandshakeStage(q)
    BY <1>1, Zenon DEF SessionOnce
  <2> QED
    BY <1>1, <2>1, Zenon DEF HandshakeStage, SecretKept
<1>2. "active" \in {sess'[s]["c"].state, sess'[s]["t"].state} =>
         sess'[s]["c"].secret = <<1, 1>> /\ sess'[s]["t"].secret = <<1, 1>>
  BY Zenon DEF SecretKept, SessionOnce
<1>3. \A p, q \in packets' :
         /\ p.sid = s /\ p.body.type \in Handshake
         /\ q.sid = s /\ q.body.type \in Handshake
         => p = q
  BY Zenon DEF SessionOnce
<1> QED
  BY <1>1, <1>2, <1>3, Zenon DEF SessionOnce

\* The handshake of s goes on with the packets sent by this step.
LEMMA OnceReplaced ==
    ASSUME NEW s,
           "active" \in {sess'[s]["c"].state, sess'[s]["t"].state} =>
             sess'[s]["c"].secret = <<1, 1>> /\ sess'[s]["t"].secret = <<1, 1>>,
           \A q \in packets' : q.sid = s /\ q.body.type \in Handshake => HandshakeStage(q)',
           \A p, q \in packets' : /\ p.sid = s /\ p.body.type \in Handshake
                                  /\ q.sid = s /\ q.body.type \in Handshake
                                  => p = q
    PROVE  SessionOnce(s)'
  BY Zenon DEF SessionOnce

LEMMA FreshKept ==
    ASSUME NEW s, Fresh(s), sess'[s]["c"] = sess[s]["c"], sess'[s]["t"] = sess[s]["t"],
           \A q \in packets' : q.sid = s => q \in packets
    PROVE  Fresh(s)'
  BY Zenon DEF Fresh, NoSide

\* A session that the step does not concern.
LEMMA KeysKept ==
    ASSUME NEW s, Keys(s), MayTry(s[1], s[2])' => MayTry(s[1], s[2]),
           sess'[s]["c"] = sess[s]["c"], sess'[s]["t"] = sess[s]["t"],
           \A q \in packets' : q.sid = s => q \in packets
    PROVE  Keys(s)'
<1>1. SessionOnce(s)'
  <2>1. SecretKept(sess[s]["c"], sess'[s]["c"]) /\ SecretKept(sess[s]["t"], sess'[s]["t"])
    BY Zenon DEF SecretKept
  <2> QED
    BY <2>1, OnceKept, Zenon DEF Keys
<1> QED
  BY <1>1, FreshKept, Zenon DEF Keys

\* Which entry points may still be tried depends on the caller only.
LEMMA MayTryKept ==
    ASSUME NEW v, NEW k, UNCHANGED caller
    PROVE  MayTry(v, k)' => MayTry(v, k)
  BY Zenon DEF MayTry

LEMMA NoKeyFacts == NoKey # <<1, 1>>
<1>1. <<1, 1>> \in Nat \X Nat
  BY Zenon
<1> QED
  BY <1>1, NoKeyAssumption, Zenon

\* What the messages of a handshake do to the side that gets them.
HandshakeOutcome(n, side, p, o) ==
    \/ /\ p.body.type = "INIT" /\ n = Target
       /\ side.state = "none" =>
            /\ o.side.state = "pending" /\ o.side.secret = NoKey /\ o.side.eph = 1
            /\ o.reply.type = "INIT_OK" /\ o.reply.val = <<1>>
    \/ /\ p.body.type = "INIT_OK" /\ side.state # "none" /\ o.side.state = "pending"
       /\ o.side.secret = <<p.body.val[1], side.eph + 1>>
       /\ o.reply.type = "KEY_CONFIRM" /\ o.reply.val = o.side.secret
    \/ /\ p.body.type = "KEY_CONFIRM" /\ side.state # "none"
       /\ p.body.val[1] = side.eph => o.side.secret = p.body.val
       /\ o.reply.type = "READY"
    \/ /\ p.body.type = "READY" /\ side.secret # NoKey /\ o.side.secret = side.secret
       /\ o.side.eph = side.eph /\ o.reply = NoBody
    \/ /\ p.body.type \notin Handshake /\ side.state # "none" /\ SecretKept(side, o.side)
       /\ o.reply.type \notin Handshake

LEMMA HandshakeOutcomes ==
    ASSUME NEW n, NEW s, IsSide(s), NEW p, p.body.type \in SessionMessages,
           NEW o \in HandleSessionMessage(n, s, p)
    PROVE  HandshakeOutcome(n, s, p, o)
<1> USE DEF Outcome, IsSide
<1>1. CASE p.body.type = "INIT"
  <2>1. o \in _handle_virtual_session_init(n, s, p)
    BY <1>1, Zenon DEF HandleSessionMessage
  <2>2. PICK x : x = IF s.state = "none"
                     THEN [NoSide EXCEPT !.state = "pending", !.eph = 1, !.bound = p.path]
                     ELSE [s EXCEPT !.eph = @ + 1]
    BY Zenon
  <2>3. o.side = x /\ o.reply = Body("INIT_OK", <<x.eph>>) /\ n = Target
    BY <2>1, <2>2 DEF _handle_virtual_session_init
  <2>4. s.state = "none" => x.state = "pending" /\ x.secret = NoKey /\ x.eph = 1
    BY <2>2, Zenon DEF NoSide
  <2>5. o.reply.type = "INIT_OK" /\ o.reply.val = <<x.eph>>
    BY <2>3 DEF Body
  <2> QED
    BY <1>1, <2>3, <2>4, <2>5, Zenon DEF HandshakeOutcome
<1>2. CASE p.body.type = "INIT_OK"
  <2>1. o \in _handle_virtual_session_init_ok(s, p)
    BY <1>2, Zenon DEF HandleSessionMessage
  <2>2. PICK e, x : e = s.eph + 1 /\ x = <<p.body.val[1], s.eph + 1>>
    BY Zenon
  <2>3. o.side = [s EXCEPT !.secret = x, !.eph = e, !.state = "pending"]
        /\ o.reply = Body("KEY_CONFIRM", x) /\ s.state # "none"
    BY <2>1, <2>2 DEF _handle_virtual_session_init_ok
  <2>4. o.reply.type = "KEY_CONFIRM" /\ o.reply.val = x /\ o.side.secret = x
        /\ o.side.state = "pending"
    BY <2>3 DEF Body
  <2> QED
    BY <1>2, <2>2, <2>3, <2>4, Zenon DEF HandshakeOutcome
<1>3. CASE p.body.type = "KEY_CONFIRM"
  <2>1. o \in _handle_virtual_session_key_confirm(s, p)
    BY <1>3, Zenon DEF HandleSessionMessage
  <2>2. PICK x : x = IF p.body.val[1] = s.eph THEN p.body.val
                     ELSE <<p.body.val[1], p.body.val[2], s.eph>>
    BY Zenon
  <2>3. o.side = [s EXCEPT !.secret = x, !.state = "active"]
        /\ o.reply = Body("READY", <<>>) /\ s.state # "none"
    BY <2>1, <2>2 DEF _handle_virtual_session_key_confirm
  <2>4. o.reply.type = "READY" /\ o.side.secret = x
    BY <2>3 DEF Body
  <2> QED
    BY <1>3, <2>2, <2>3, <2>4, Zenon DEF HandshakeOutcome
<1>4. CASE p.body.type = "READY"
  <2>1. o \in _handle_virtual_session_ready(s, p)
    BY <1>4, Zenon DEF HandleSessionMessage
  <2>2. s.secret # NoKey /\ o.side = [s EXCEPT !.state = "active"] /\ o.reply = NoBody
    BY <2>1 DEF _handle_virtual_session_ready
  <2> QED
    BY <1>4, <2>2, Zenon DEF HandshakeOutcome
<1>5. CASE p.body.type \in {"KEEPALIVE", "KEEPALIVE_ACK", "CLOSE"}
  <2>1. /\ s.state # "none" /\ o.side \in {s, [s EXCEPT !.state = "closed"]}
        /\ o.reply \in {Body("KEEPALIVE_ACK", <<>>), NoBody}
    BY <1>5 DEF HandleSessionMessage, _handle_virtual_session_keepalive,
       _handle_virtual_session_keepalive_ack, _handle_virtual_session_close
  <2>2. SecretKept(s, o.side)
    BY <2>1, Zenon DEF SecretKept
  <2>3. o.reply.type \notin Handshake /\ p.body.type \notin Handshake
    BY <1>5, <2>1 DEF Body, NoBody, Handshake
  <2> QED
    BY <2>1, <2>2, <2>3, Zenon DEF HandshakeOutcome
<1> QED
  BY <1>1, <1>2, <1>3, <1>4, <1>5, Zenon DEF SessionMessages

\* A step of the handshake, or a keepalive or close.
LEMMA SessionHandled ==
    ASSUME IInv, TypeInv, NEW p \in packets, IsLocal(p), SessionOnce(p.sid),
           DispatchSession(p, packets \ {p})
    PROVE  SessionOnce(p.sid)'
<1> DEFINE rest == packets \ {p}
<1>1. PICK s, side : s = p.sid /\ side = SessionAt(p.at, p.sid)
  BY Zenon
<1>2. PICK o \in HandleSessionMessage(p.at, side, p) : _deliver_local_route_data(p, o, rest)
  BY <1>1, Zenon DEF DispatchSession
<1>3. p.body.type \in SessionMessages
  BY Zenon DEF DispatchSession
<1>4. s \in Sids /\ p.at \in Nodes
  BY <1>1, Ends, Zenon
<1>5. IsSide(side)
  <2>1. IsSide(NoSide)
    BY Zenon DEF IsSide, NoSide, States
  <2>2. IsSide(sess[p.sid]["c"]) /\ IsSide(sess[p.sid]["t"])
    BY <1>1, <1>4, Zenon DEF TypeInv, SidesInv
  <2> QED
    BY <1>1, <2>1, <2>2, Zenon DEF SessionAt, SideAt
<1>6. HandshakeOutcome(p.at, side, p, o)
  BY <1>2, <1>3, <1>5, HandshakeOutcomes, Zenon
<1>7. /\ \A q \in packets' : q \in rest \/
           /\ q.sid = s /\ q.dir = _opposite_route_direction(p.dir)
           /\ q.body = o.reply /\ o.reply # NoBody
      /\ \A q1, q2 \in packets' : q1 \in rest \/ q2 \in rest \/ q1 = q2
      /\ sess' = [sess EXCEPT ![s][SideAt(p.at, p.sid)] = o.side]
  BY <1>1, <1>2, Replies
<1>8. PICK k, x : k = SideAt(p.at, p.sid) /\ x = o.side
  BY Zenon
<1>9. k \in {"c", "t"} /\ sess' = [sess EXCEPT ![s][k] = x]
  BY <1>7, <1>8, Zenon DEF SideAt
<1>10. \A j \in {"c", "t"} : sess'[s][j] = IF j = k THEN x ELSE sess[s][j]
  <2>1. \A z \in Sids : \A j \in {"c", "t"} :
          sess'[z][j] = IF z = s /\ j = k THEN x ELSE sess[z][j]
    BY <1>4, <1>9, Zenon DEF IInv, SessInv
  <2> QED
    BY <1>4, <2>1, Zenon
<1>11. PICK c, t : c = sess[s]["c"] /\ t = sess[s]["t"]
  BY Zenon
<1>12. "active" \in {c.state, t.state} => c.secret = <<1, 1>> /\ t.secret = <<1, 1>>
  BY <1>1, <1>11, Zenon DEF SessionOnce
<1>13. p.body.type \in Handshake => HandshakeStage(p)
  BY Zenon DEF SessionOnce
<1>14. \A q \in packets' : p.body.type \in Handshake /\ q.sid = s /\ q.body.type \in Handshake =>
         q.dir = _opposite_route_direction(p.dir) /\ q.body = o.reply /\ q \notin rest
  BY <1>1, <1>7, Zenon DEF SessionOnce
<1>15. \A q1, q2 \in packets' :
         /\ p.body.type \in Handshake
         /\ q1.sid = s /\ q1.body.type \in Handshake
         /\ q2.sid = s /\ q2.body.type \in Handshake
         => q1 = q2
  BY <1>7, <1>14, Zenon
<1>16. /\ side # NoSide /\ p.dir = "vn_to_pn" => side = c /\ k = "c"
       /\ side # NoSide /\ p.dir = "pn_to_vn" => side = t /\ k = "t"
       /\ p.at = Target => side = t /\ k = "t"
  <2>1. side # NoSide => /\ p.dir = "vn_to_pn" => side = c /\ k = "c"
                         /\ p.dir = "pn_to_vn" => side = t /\ k = "t"
    BY <1>1, <1>8, <1>11, HandledWhere, Zenon
  <2>2. p.at = Target => side = t /\ k = "t"
    BY <1>1, <1>8, <1>11, Zenon DEF SessionAt, SideAt
  <2> QED
    BY <2>1, <2>2, Zenon
<1>17. side.state # "none" \/ side.secret # NoKey => side # NoSide
  BY DEF NoSide
<1>18. sess'[s]["c"] = (IF k = "c" THEN x ELSE c) /\ sess'[s]["t"] = (IF k = "t" THEN x ELSE t)
  BY <1>10, <1>11, Zenon
<1> HIDE DEF rest
<1>19. CASE p.body.type = "INIT"
  <2>1. /\ p.dir = "pn_to_vn" /\ c.secret = NoKey /\ c.eph = 0 /\ t = NoSide
        /\ p.body.type \in Handshake
    BY <1>1, <1>11, <1>13, <1>19, Zenon DEF HandshakeStage, Handshake
  <2>2. side = t /\ k = "t" /\ side.state = "none"
    <3>1. p.at = Target
      BY <1>6, <1>19, Zenon DEF HandshakeOutcome, Handshake
    <3>2. t.state = "none"
      BY <2>1, Zenon DEF NoSide
    <3> QED
      BY <1>16, <3>1, <3>2, Zenon
  <2>3. /\ x.state = "pending" /\ x.secret = NoKey /\ x.eph = 1
        /\ o.reply.type = "INIT_OK" /\ o.reply.val = <<1>>
    BY <1>6, <1>8, <1>19, <2>2, Zenon DEF HandshakeOutcome, Handshake
  <2>4. sess'[s]["c"] = c /\ sess'[s]["t"] = x /\ c.state # "active"
    BY <1>12, <1>18, <2>1, <2>2, NoKeyFacts, Zenon
  <2>5. \A q \in packets' : q.sid = s /\ q.body.type \in Handshake =>
          q.body.type = "INIT_OK" /\ q.body.val = <<1>> /\ q.dir = "vn_to_pn"
    BY <1>14, <2>1, <2>3, Zenon DEF _opposite_route_direction
  <2>6. \A q \in packets' : q.sid = s /\ q.body.type \in Handshake => HandshakeStage(q)'
    BY <2>1, <2>3, <2>4, <2>5 DEF HandshakeStage
  <2> QED
    BY <1>1, <1>15, <2>1, <2>3, <2>4, <2>6, OnceReplaced, Zenon
<1>20. CASE p.body.type = "INIT_OK"
  <2>1. /\ p.dir = "vn_to_pn" /\ p.body.val = <<1>> /\ p.body.type \in Handshake
        /\ c.secret = NoKey /\ c.eph = 0 /\ t.secret = NoKey /\ t.eph = 1
    BY <1>1, <1>11, <1>13, <1>20, Zenon DEF HandshakeStage, Handshake
  <2>2. /\ side.state # "none" /\ x.state = "pending"
        /\ x.secret = <<p.body.val[1], side.eph + 1>>
        /\ o.reply.type = "KEY_CONFIRM" /\ o.reply.val = x.secret
    BY <1>6, <1>8, <1>20, Zenon DEF HandshakeOutcome, Handshake
  <2>3. side = c /\ k = "c"
    BY <1>16, <1>17, <2>1, <2>2, Zenon
  <2>4. x.secret = <<1, 1>>
    BY <2>1, <2>2, <2>3
  <2>5. sess'[s]["c"] = x /\ sess'[s]["t"] = t /\ t.state # "active"
    BY <1>12, <1>18, <2>1, <2>3, NoKeyFacts, Zenon
  <2>6. \A q \in packets' : q.sid = s /\ q.body.type \in Handshake =>
          q.body.type = "KEY_CONFIRM" /\ q.body.val = <<1, 1>> /\ q.dir = "pn_to_vn"
    BY <1>14, <2>1, <2>2, <2>4, Zenon DEF _opposite_route_direction
  <2>7. \A q \in packets' : q.sid = s /\ q.body.type \in Handshake => HandshakeStage(q)'
    BY <2>1, <2>4, <2>5, <2>6 DEF HandshakeStage
  <2> QED
    BY <1>1, <1>15, <2>1, <2>2, <2>5, <2>7, OnceReplaced
<1>21. CASE p.body.type = "KEY_CONFIRM"
  <2>1. /\ p.dir = "pn_to_vn" /\ p.body.val = <<1, 1>> /\ p.body.type \in Handshake
        /\ c.secret = <<1, 1>> /\ t.secret = NoKey /\ t.eph = 1
    BY <1>1, <1>11, <1>13, <1>21, Zenon DEF HandshakeStage, Handshake
  <2>2. /\ side.state # "none" /\ (p.body.val[1] = side.eph => x.secret = p.body.val)
        /\ o.reply.type = "READY"
    BY <1>6, <1>8, <1>21, Zenon DEF HandshakeOutcome, Handshake
  <2>3. side = t /\ k = "t"
    BY <1>16, <1>17, <2>1, <2>2, Zenon
  <2>4. x.secret = <<1, 1>>
    BY <2>1, <2>2, <2>3
  <2>5. sess'[s]["c"] = c /\ sess'[s]["t"] = x
    BY <1>18, <2>3, Zenon
  <2>6. \A q \in packets' : q.sid = s /\ q.body.type \in Handshake =>
          q.body.type = "READY" /\ q.dir = "vn_to_pn"
    BY <1>14, <2>1, <2>2, Zenon DEF _opposite_route_direction
  <2>7. \A q \in packets' : q.sid = s /\ q.body.type \in Handshake => HandshakeStage(q)'
    BY <2>1, <2>4, <2>5, <2>6, Zenon DEF HandshakeStage
  <2> QED
    BY <1>1, <1>15, <2>1, <2>4, <2>5, <2>7, OnceReplaced, Zenon
<1>22. CASE p.body.type = "READY"
  <2>1. /\ p.dir = "vn_to_pn" /\ c.secret = <<1, 1>> /\ t.secret = <<1, 1>>
        /\ p.body.type \in Handshake
    BY <1>1, <1>11, <1>13, <1>22, Zenon DEF HandshakeStage, Handshake
  <2>2. side.secret # NoKey /\ x.secret = side.secret /\ o.reply = NoBody
    BY <1>6, <1>8, <1>22, Zenon DEF HandshakeOutcome, Handshake
  <2>3. side = c /\ k = "c"
    BY <1>16, <1>17, <2>1, <2>2, Zenon
  <2>4. sess'[s]["c"] = x /\ sess'[s]["t"] = t
    BY <1>18, <2>3, Zenon
  <2>5. \A q \in packets' : ~(q.sid = s /\ q.body.type \in Handshake)
    BY <1>7, <1>14, <2>1, <2>2
  <2> QED
    BY <1>1, <2>1, <2>2, <2>3, <2>4, <2>5, OnceReplaced
<1>23. CASE p.body.type \notin Handshake
  <2>1. side.state # "none" /\ SecretKept(side, x) /\ o.reply.type \notin Handshake
    BY <1>6, <1>8, <1>23, Zenon DEF HandshakeOutcome, Handshake
  <2>2. side = sess[s][k] /\ side # NoSide
    BY <1>1, <1>8, <1>17, <2>1, Zenon DEF SessionAt
  <2>3. SecretKept(c, c) /\ SecretKept(t, t)
    BY Zenon DEF SecretKept
  <2>4. SecretKept(sess[s]["c"], sess'[s]["c"]) /\ SecretKept(sess[s]["t"], sess'[s]["t"])
    BY <1>9, <1>11, <1>18, <2>1, <2>2, <2>3, Zenon
  <2>5. sess[s]["t"] = NoSide => sess'[s]["t"] = NoSide
    BY <1>9, <1>11, <1>18, <2>2, Zenon
  <2>6. \A q \in packets' : q.sid = s /\ q.body.type \in Handshake => q \in packets
    BY <1>7, <2>1, Zenon DEF rest
  <2> QED
    BY <1>1, <2>4, <2>5, <2>6, OnceKept, Zenon
<1> QED
  BY <1>19, <1>20, <1>21, <1>22, <1>23, Zenon DEF Handshake

\* Messages of a download leave the session as it is.
LEMMA ContentKeepsKeys ==
    ASSUME IInv, TypeInv, NEW p \in packets, NEW rest, DispatchContent(p, rest)
    PROVE  /\ UNCHANGED <<setup, caller, published, requested, again>>
           /\ \A s \in Sids : \A k \in {"c", "t"} : sess'[s][k] = sess[s][k]
           /\ \A q \in packets' : q \in rest \/ (q.sid = p.sid /\ q.body.type \notin Handshake)
<1>1. PICK side, o, d : ContentEffect(p, rest, side, o, d)
  BY ContentStep, Zenon DEF TypeInv
<1>2. /\ side = SessionAt(p.at, p.sid) /\ o \in HandleContentMessage(side, p, d)
      /\ UNCHANGED <<setup, caller, published, requested, again>>
      /\ sess' = [sess EXCEPT ![p.sid][SideAt(p.at, p.sid)] = o.side]
      /\ \A q \in packets' : q \in rest \/ (q.sid = p.sid /\ q.body = o.reply)
      /\ d.final = final[p.at] /\ d.status = download[p.sid].status /\ d.next = download[p.sid].next
      /\ d = [status |-> download[p.sid].status, next |-> download[p.sid].next,
              part |-> part[p.at], final |-> final[p.at]]
  BY <1>1, Zenon DEF ContentEffect
<1>3. o.side = side /\ side.state = "active"
  BY <1>2, Dispatches
<1>4. p.sid \in Sids /\ p.at \in Nodes
  BY Ends, Zenon
<1>5. \A s \in Sids : \A k \in {"c", "t"} : sess'[s][k] = sess[s][k]
  <2>1. PICK k : k = SideAt(p.at, p.sid)
    BY Zenon
  <2>2. side = sess[p.sid][k] /\ k \in {"c", "t"}
    BY <1>2, <1>3, <2>1 DEF SessionAt, SideAt, NoSide
  <2>3. sess' = [sess EXCEPT ![p.sid][k] = side]
    BY <1>2, <1>3, <2>1, Zenon
  <2>4. \A s \in Sids : \A j \in {"c", "t"} :
          sess'[s][j] = IF s = p.sid /\ j = k THEN side ELSE sess[s][j]
    BY <1>4, <2>2, <2>3, Zenon DEF IInv, SessInv
  <2> QED
    BY <2>2, <2>4, Zenon
<1>6. ContentPacket(p) /\ d.final \in {<<>>, Content} /\ IsDownload(d)
  BY <1>2, <1>4, Zenon DEF TypeInv, StoreInv, IsDownload
<1>7. o \in HandleContentMessage(side, p, d)
  BY <1>2, Zenon
<1>8. o.reply.type \notin Handshake
  <2>1. CASE p.body.type \in Requests
    <3>1. Answered(side, p, d, o)
      BY <1>6, <1>7, <2>1, Answers
    <3>2. o.reply.type \in Responses
      BY <3>1, Zenon DEF Answered
    <3> QED
      BY <3>2, Zenon DEF Responses, Handshake
  <2>2. CASE p.body.type \in Ranges
    <3>1. AsksNext(o)
      BY <1>6, <1>7, <2>2, Downloads, Zenon
    <3>2. \A v : Body("RANGE_REQUEST", v).type = "RANGE_REQUEST" /\ NoBody.type = "none"
      BY Zenon DEF NoBody, Body
    <3>3. o.reply.type \in {"none", "RANGE_REQUEST"}
      BY <3>1, <3>2, Zenon DEF AsksNext
    <3> QED
      BY <3>3, Zenon DEF Handshake
  <2>3. CASE p.body.type \notin Requests /\ p.body.type \notin Ranges
    <3>1. Ignored(side, d, o)
      BY <1>7, <2>3, Errors, Zenon
    <3> QED
      BY <3>1 DEF Ignored, NoBody, Body, Handshake
  <2> QED
    BY <2>1, <2>2, <2>3, Zenon
<1> QED
  BY <1>2, <1>5, <1>8, Zenon

LEMMA HandleKeys ==
    ASSUME IInv, TypeInv, \A s \in Sessions : Keys(s),
           NEW p \in packets, handle(p), faults'["dup"] <= 0
    PROVE  \A s \in Sessions : Keys(s)'
<1>1. PICK rest \in Rests(p) :
        /\ Duplicated(p, rest)
        /\ \/ forward_message(p, rest) /\ UNCHANGED <<setup, sess, caller, sent, contentVars>>
           \/ DeliverLocal(p, rest)
  BY Zenon DEF handle
<1>2. p.sid \in Sids /\ p.sid \in Sessions /\ SessionOnce(p.sid)
  BY Ends, Zenon DEF Keys
<1>3. ASSUME UNCHANGED setup PROVE rest = packets \ {p}
  BY <1>1, <1>3, Handlings, Zenon DEF TypeInv
<1>4. ~MayTry(p.sid[1], p.sid[2])
  BY <1>2, Zenon DEF Keys, Fresh
<1>5. ASSUME UNCHANGED caller,
             \A s \in Sids : s # p.sid => sess'[s]["c"] = sess[s]["c"] /\ sess'[s]["t"] = sess[s]["t"],
             \A q \in packets' : q \in packets \/ q.sid = p.sid,
             SessionOnce(p.sid)'
      PROVE  \A s \in Sessions : Keys(s)'
  <2>1. TAKE s \in Sessions
  <2>2. s \in Sids /\ Keys(s)
    BY Zenon DEF Sessions
  <2>3. MayTry(s[1], s[2])' => MayTry(s[1], s[2])
    BY <1>5, MayTryKept, Zenon
  <2>4. CASE s = p.sid
    BY <1>4, <1>5, <2>3, <2>4, Zenon DEF Keys
  <2>5. CASE s # p.sid
    BY <1>5, <2>2, <2>3, <2>5, KeysKept, Zenon
  <2> QED
    BY <2>4, <2>5, Zenon
<1>6. CASE forward_message(p, rest) /\ UNCHANGED <<setup, sess, caller, sent, contentVars>>
  <2>1. PICK q : packets' = rest \cup {q} /\ q.body = p.body /\ q.dir = p.dir /\ q.sid = p.sid
    <3>1. PICK hop : packets' = rest \cup {RouteData(p.at, hop, p.dir, p.sid, p.key, p.body)}
      BY <1>6, Zenon DEF forward_message
    <3>2. PICK q : q = RouteData(p.at, hop, p.dir, p.sid, p.key, p.body)
      BY Zenon
    <3> QED
      BY <3>1, <3>2 DEF RouteData
  <2>2. UNCHANGED <<setup, sess, caller>>
    BY <1>6, Zenon
  <2>3. rest = packets \ {p}
    BY <1>3, <2>2, Zenon
  <2>4. SessionOnce(p.sid)'
    <3>1. PICK s : s = p.sid
      BY Zenon
    <3>2. CASE p.body.type \in Handshake
      <4>1. HandshakeStage(p)
        BY <1>2, <3>2, Zenon DEF SessionOnce
      <4>2. HandshakeStage(q)'
        BY <2>1, <2>2, <4>1, Zenon DEF HandshakeStage
      <4>3. \A x \in packets' : x.sid = s /\ x.body.type \in Handshake => x = q
        BY <1>2, <2>1, <2>3, <3>1, <3>2, Zenon DEF SessionOnce
      <4>4. "active" \in {sess'[s]["c"].state, sess'[s]["t"].state} =>
              sess'[s]["c"].secret = <<1, 1>> /\ sess'[s]["t"].secret = <<1, 1>>
        BY <1>2, <2>2, <3>1, Zenon DEF SessionOnce
      <4> QED
        BY <3>1, <4>2, <4>3, <4>4, OnceReplaced, Zenon
    <3>3. CASE p.body.type \notin Handshake
      <4>1. SecretKept(sess[s]["c"], sess'[s]["c"]) /\ SecretKept(sess[s]["t"], sess'[s]["t"])
        BY <2>2, Zenon DEF SecretKept
      <4>2. \A x \in packets' : x.sid = s /\ x.body.type \in Handshake => x \in packets
        BY <2>1, <2>3, <3>3, Zenon
      <4> QED
        BY <1>2, <2>2, <3>1, <4>1, <4>2, OnceKept, Zenon
    <3> QED
      BY <3>2, <3>3, Zenon
  <2> QED
    BY <1>5, <2>1, <2>2, <2>3, <2>4, Zenon
<1>7. CASE DeliverLocal(p, rest)
  <2>1. IsLocal(p)
    BY <1>7, Zenon DEF DeliverLocal
  <2>2. CASE DispatchSession(p, rest)
    <3>1. PICK o : _deliver_local_route_data(p, o, rest)
      BY <2>2, Zenon DEF DispatchSession
    <3>2. /\ UNCHANGED <<setup, caller>>
          /\ sess' = [sess EXCEPT ![p.sid][SideAt(p.at, p.sid)] = o.side]
          /\ \A q \in packets' : q \in rest \/ q.sid = p.sid
      BY <3>1, Replies
    <3>3. rest = packets \ {p}
      BY <1>3, <3>2, Zenon
    <3>4. SessionOnce(p.sid)'
      BY <1>2, <2>1, <2>2, <3>3, SessionHandled, Zenon
    <3>5. \A s \in Sids : s # p.sid => sess'[s] = sess[s]
      BY <1>2, <3>2, Zenon DEF IInv, SessInv
    <3> QED
      BY <1>5, <3>2, <3>3, <3>4, <3>5, Zenon
  <2>3. CASE DispatchContent(p, rest)
    <3>1. /\ UNCHANGED <<setup, caller>>
          /\ \A s \in Sids : \A k \in {"c", "t"} : sess'[s][k] = sess[s][k]
          /\ \A q \in packets' : q \in rest \/ (q.sid = p.sid /\ q.body.type \notin Handshake)
      BY <2>3, ContentKeepsKeys, Zenon
    <3>2. rest = packets \ {p}
      BY <1>3, <3>1, Zenon
    <3>3. PICK s : s = p.sid
      BY Zenon
    <3>4. sess'[s]["c"] = sess[s]["c"] /\ sess'[s]["t"] = sess[s]["t"]
      BY <1>2, <3>1, <3>3, Zenon
    <3>5. SecretKept(sess[s]["c"], sess'[s]["c"]) /\ SecretKept(sess[s]["t"], sess'[s]["t"])
      BY <3>4, Zenon DEF SecretKept
    <3>6. SessionOnce(p.sid)'
      BY <1>2, <3>1, <3>2, <3>3, <3>4, <3>5, OnceKept, Zenon
    <3> QED
      BY <1>5, <3>1, <3>2, <3>6, Zenon
  <2>4. CASE packets' = rest /\ UNCHANGED <<rows, ingress, setup, sess, caller, sent, contentVars>>
    <3>1. packets' \subseteq packets /\ UNCHANGED <<sess, caller>>
      BY <1>3, <2>4, Zenon
    <3>2. PICK s : s = p.sid
      BY Zenon
    <3>3. SecretKept(sess[s]["c"], sess'[s]["c"]) /\ SecretKept(sess[s]["t"], sess'[s]["t"])
      BY <3>1, Zenon DEF SecretKept
    <3>4. SessionOnce(p.sid)'
      BY <1>2, <3>1, <3>2, <3>3, OnceKept, Zenon
    <3> QED
      BY <1>5, <3>1, <3>4, Zenon
  <2> QED
    BY <1>7, <2>2, <2>3, <2>4 DEF DeliverLocal
<1> QED
  BY <1>1, <1>6, <1>7, Zenon

\* A step that sends nothing and leaves sessions and callers alone.
LEMMA QuietKeys ==
    ASSUME \A s \in Sessions : Keys(s), UNCHANGED <<sess, caller>>, packets' \subseteq packets
    PROVE  \A s \in Sessions : Keys(s)'
<1>1. TAKE s \in Sessions
<1>2. MayTry(s[1], s[2])' => MayTry(s[1], s[2])
  BY MayTryKept, Zenon
<1> QED
  BY <1>2, KeysKept, Zenon

LEMMA CallerAfter ==
    ASSUME IInv, NEW v \in Callers, NEW pc, NEW attempt, NEW sid, SetCaller(v, pc, attempt, sid)
    PROVE  /\ caller'[v].pc = pc /\ caller'[v].attempt = attempt /\ caller'[v].sid = sid
           /\ \A s \in Sessions : s[1] # v => (MayTry(s[1], s[2])' => MayTry(s[1], s[2]))
<1>1. DOMAIN caller = Callers
  BY Zenon DEF IInv, CallerInv
<1>2. \A u \in Callers : u # v => caller'[u] = caller[u]
  BY <1>1, Zenon DEF SetCaller
<1>3. \A s \in Sessions : s[1] \in Callers
  BY Zenon DEF Sessions
<1>4. \A s \in Sessions : s[1] # v => (MayTry(s[1], s[2])' => MayTry(s[1], s[2]))
  BY <1>2, <1>3, Zenon DEF MayTry
<1> QED
  BY <1>1, <1>4, Zenon DEF SetCaller

\* The entry points are numbered.
LEMMA EntryNumbers ==
    ASSUME IInv, NEW s \in Sessions
    PROVE  s \in Sids /\ s[1] \in Callers /\ s[2] \in Nat \ {0}
<1>1. s \in Sids /\ s[1] \in Callers /\ s[2] \in 1..Len(Entries(s[1]))
  BY Zenon DEF Sessions
<1>2. Entries(s[1]) \in Seq(Routes)
  BY <1>1, ScenariosAssumption, Zenon DEF IInv, Callers, Entries
<1> QED
  BY <1>1, <1>2

LEMMA StartKeys ==
    ASSUME IInv, TypeInv, \A s \in Sessions : Keys(s), NEW v \in Callers,
           start_session_to_virtual_node(v) \/ _ensure_entry_point_physical_node(v)
    PROVE  \A s \in Sessions : Keys(s)'
<1>1. UNCHANGED <<packets, sess>>
  BY Zenon DEF start_session_to_virtual_node, _ensure_entry_point_physical_node, routeVars
<1>2. \/ caller[v].pc = "idle" /\ SetCaller(v, "trying", 1, <<>>)
      \/ caller[v].pc = "idle" /\ SetCaller(v, "raised", 0, <<>>)
      \/ caller[v].pc = "trying" /\ SetCaller(v, "trying", caller[v].attempt + 1, <<>>)
  BY Zenon DEF start_session_to_virtual_node, _ensure_entry_point_physical_node
<1>3. caller[v].pc = "trying" => caller[v].attempt \in Nat
  BY Zenon DEF IInv, CallerInv
<1>4. ASSUME NEW s \in Sessions PROVE MayTry(s[1], s[2])' => MayTry(s[1], s[2])
  <2>1. CASE s[1] # v
    BY <1>2, <2>1, CallerAfter, Zenon
  <2>2. CASE s[1] = v
    <3>1. s[2] \in Nat
      BY EntryNumbers, Zenon
    <3>2. CASE caller[v].pc = "idle"
      BY <2>2, <3>2, Zenon DEF MayTry
    <3>3. CASE caller[v].pc = "trying" /\ SetCaller(v, "trying", caller[v].attempt + 1, <<>>)
      <4>1. caller'[v].pc = "trying" /\ caller'[v].attempt = caller[v].attempt + 1
        BY <3>3, CallerAfter
      <4> QED
        BY <1>3, <2>2, <3>1, <3>3, <4>1 DEF MayTry
    <3> QED
      BY <1>2, <3>2, <3>3, Zenon
  <2> QED
    BY <2>1, <2>2, Zenon
<1>5. TAKE s \in Sessions
<1> QED
  BY <1>1, <1>4, KeysKept, Zenon

LEMMA OverKeys ==
    ASSUME IInv, TypeInv, \A s \in Sessions : Keys(s), NEW v \in Callers,
           _start_session_over_entry_point(v)
    PROVE  \A s \in Sessions : Keys(s)'
<1>1. PICK k, s, a, x, q : OverEffect(v, k, s, a, x, q)
  BY OverCases, Zenon
<1>2. /\ k = caller[v].attempt /\ k \in Nat \ {0} /\ s = <<v, k>> /\ caller[v].pc = "trying"
      /\ x.secret = NoKey /\ x.eph = 0
      /\ q.sid = s /\ q.dir = "pn_to_vn" /\ q.body.type = "INIT"
  BY <1>1, Zenon DEF OverEffect
<1>3. s[1] = v /\ s[2] = k
  <2>1. s = <<v, k>>
    BY <1>2, Zenon
  <2> QED
    BY <2>1, Zenon
<1>4. CASE /\ SetCaller(v, "raised", k, <<>>) \/ SetCaller(v, "returned", k, a)
           /\ UNCHANGED <<sess, packets>>
  <2>2. caller'[v].pc \in {"raised", "returned"}
        /\ \A z \in Sessions : z[1] # v => (MayTry(z[1], z[2])' => MayTry(z[1], z[2]))
    BY <1>4, CallerAfter, Zenon
  <2>3. TAKE z \in Sessions
  <2>4. MayTry(z[1], z[2])' => MayTry(z[1], z[2])
    <3>1. CASE z[1] # v
      BY <2>2, <3>1, Zenon
    <3>2. CASE z[1] = v
      BY <2>2, <3>2, Zenon DEF MayTry
    <3> QED
      BY <3>1, <3>2, Zenon
  <2> QED
    BY <1>4, <2>4, KeysKept, Zenon
<1>5. CASE /\ s \in Sessions /\ x.state \in {"pending", "closed"}
           /\ sess' = [sess EXCEPT ![s]["c"] = x]
           /\ \/ SetCaller(v, "trying", k + 1, <<>>) /\ UNCHANGED packets
              \/ SetCaller(v, "waiting", k, s) /\ packets' = packets \cup {q}
  <2>1. s \in Sids /\ MayTry(s[1], s[2])
    BY <1>2, <1>3, <1>5, EntryNumbers DEF MayTry
  <2>2. Fresh(s)
    BY <1>5, <2>1, Zenon DEF Keys
  <2>3. /\ sess'[s]["c"] = x /\ sess'[s]["t"] = sess[s]["t"]
        /\ \A z \in Sids : z # s => sess'[z] = sess[z]
    BY <1>5, <2>1, Zenon DEF IInv, SessInv
  <2>4. \A z \in Sessions : z[1] # v => (MayTry(z[1], z[2])' => MayTry(z[1], z[2]))
    BY <1>5, CallerAfter, Zenon
  <2>5. \/ caller'[v].pc = "trying" /\ caller'[v].attempt = k + 1
        \/ caller'[v].pc = "waiting" /\ caller'[v].sid = s
    BY <1>5, CallerAfter, Zenon
  <2>6. ASSUME NEW z \in Sessions, z[1] = v, MayTry(z[1], z[2])' PROVE z[2] > k /\ MayTry(z[1], z[2])
    <3>1. z[2] \in Nat
      BY <2>6, EntryNumbers, Zenon
    <3>2. z[2] > k
      BY <1>2, <1>3, <2>5, <2>6, <3>1 DEF MayTry
    <3> QED
      BY <1>2, <2>6, <3>1, <3>2 DEF MayTry
  <2>7. TAKE z \in Sessions
  <2>8. z \in Sids /\ Keys(z)
    BY EntryNumbers, Zenon
  <2>9. CASE z # s
    <3>1. MayTry(z[1], z[2])' => MayTry(z[1], z[2])
      BY <2>4, <2>6, Zenon
    <3>2. \A y \in packets' : y.sid = z => y \in packets
      BY <1>2, <1>5, <2>9, Zenon
    <3>3. sess'[z]["c"] = sess[z]["c"] /\ sess'[z]["t"] = sess[z]["t"]
      BY <2>3, <2>8, <2>9, Zenon
    <3> QED
      BY <2>8, <3>1, <3>2, <3>3, KeysKept, Zenon
  <2>10. CASE z = s
    <3>1. ~ MayTry(s[1], s[2])'
      BY <1>2, <1>3, <1>5, <2>6
    <3>2. sess'[s]["t"] = NoSide /\ \A y \in packets : y.sid # s
      BY <2>2, <2>3, Zenon DEF Fresh
    <3>3. "active" \notin {sess'[s]["c"].state, sess'[s]["t"].state}
      BY <1>5, <2>3, <3>2 DEF NoSide
    <3>4. \A y \in packets' : y.sid = s => y = q
      BY <1>5, <3>2, Zenon
    <3>5. HandshakeStage(q)'
      BY <1>2, <2>3, <3>2, Zenon DEF HandshakeStage
    <3>6. SessionOnce(s)'
      BY <3>3, <3>4, <3>5, OnceReplaced, Zenon
    <3> QED
      BY <2>10, <3>1, <3>6, Zenon DEF Keys
  <2> QED
    BY <2>9, <2>10, Zenon
<1> QED
  BY <1>1, <1>4, <1>5, Zenon DEF OverEffect

\* A message is sent over a session that is open, or the caller's side of
\* one is closed; the caller does not try another entry point of it.
LEMMA OpenKeys ==
    ASSUME IInv, TypeInv, \A s \in Sessions : Keys(s), NEW s \in Sessions,
           ~MayTry(s[1], s[2])',
           \A z \in Sessions : MayTry(z[1], z[2])' => MayTry(z[1], z[2]),
           \/ UNCHANGED sess
           \/ sess' = [sess EXCEPT ![s]["c"].state = "closed"],
           \A q \in packets' : q \in packets \/ (q.sid = s /\ q.body.type \notin Handshake)
    PROVE  \A z \in Sessions : Keys(z)'
<1>1. s \in Sids
  BY Zenon DEF Sessions
<1>2. sess'[s]["t"] = sess[s]["t"] /\ \A z \in Sids : z # s => sess'[z] = sess[z]
  BY <1>1, Zenon DEF IInv, SessInv
<1>3. SecretKept(sess[s]["c"], sess'[s]["c"])
  <2>1. CASE UNCHANGED sess
    BY <2>1, Zenon DEF SecretKept
  <2>2. CASE sess' = [sess EXCEPT ![s]["c"].state = "closed"]
    <3>1. PICK x : x = [sess[s]["c"] EXCEPT !.state = "closed"] /\ sess' = [sess EXCEPT ![s]["c"] = x]
      BY <1>1, <2>2, SideClosed, Zenon DEF TypeInv
    <3>2. sess'[s]["c"] = x
      BY <1>1, <3>1, Zenon DEF IInv, SessInv
    <3>3. IsSide(sess[s]["c"])
      BY <1>1, Zenon DEF TypeInv, SidesInv
    <3>4. x.state = "closed" /\ x.secret = sess[s]["c"].secret /\ x.eph = sess[s]["c"].eph
      BY <3>1, <3>3, Zenon DEF IsSide
    <3> QED
      BY <3>2, <3>4, Zenon DEF SecretKept
  <2> QED
    BY <2>1, <2>2, Zenon
<1>4. SessionOnce(s)'
  <2>1. SecretKept(sess[s]["t"], sess'[s]["t"])
    BY <1>2, Zenon DEF SecretKept
  <2>2. SessionOnce(s)
    BY Zenon DEF Keys
  <2>3. \A q \in packets' : q.sid = s /\ q.body.type \in Handshake => q \in packets
    BY Zenon
  <2> QED
    BY <1>2, <1>3, <2>1, <2>2, <2>3, OnceKept, Zenon
<1>5. TAKE z \in Sessions
<1>6. CASE z = s
  BY <1>4, <1>6, Zenon DEF Keys
<1>7. CASE z # s
  <2>1. z \in Sids /\ Keys(z) /\ (MayTry(z[1], z[2])' => MayTry(z[1], z[2]))
    BY Zenon DEF Sessions
  <2>2. sess'[z]["c"] = sess[z]["c"] /\ sess'[z]["t"] = sess[z]["t"]
    BY <1>2, <1>7, <2>1, Zenon
  <2>3. \A q \in packets' : q.sid = z => q \in packets
    BY <1>7, Zenon
  <2> QED
    BY <2>1, <2>2, <2>3, KeysKept, Zenon
<1> QED
  BY <1>6, <1>7, Zenon

LEMMA WaitKeys ==
    ASSUME IInv, TypeInv, \A s \in Sessions : Keys(s), NEW v \in Callers, _wait_for_activation(v)
    PROVE  \A s \in Sessions : Keys(s)'
<1>1. PICK s : s = caller[v].sid
  BY Zenon
<1>2. /\ caller[v].pc = "waiting" /\ UNCHANGED packets
      /\ \/ SetCaller(v, "returned", s[2], s) /\ UNCHANGED sess
         \/ /\ SetCaller(v, "trying", s[2] + 1, <<>>)
            /\ UNCHANGED sess \/ sess' = [sess EXCEPT ![s]["c"].state = "closed"]
  BY <1>1, Zenon DEF _wait_for_activation, routeVars
<1>3. s \in Sessions /\ s[1] = v /\ s[2] \in Nat
  BY <1>1, <1>2, EntryNumbers, Zenon DEF TypeInv, CallersInv
<1>4. \/ caller'[v].pc = "returned"
      \/ caller'[v].pc = "trying" /\ caller'[v].attempt = s[2] + 1
  BY <1>2, CallerAfter, Zenon
<1>5. ~MayTry(s[1], s[2])'
  BY <1>3, <1>4 DEF MayTry
<1>6. ASSUME NEW z \in Sessions PROVE MayTry(z[1], z[2])' => MayTry(z[1], z[2])
  <2>1. CASE z[1] # v
    BY <1>2, <2>1, CallerAfter
  <2>2. CASE z[1] = v
    <3>1. z[2] \in Nat
      BY EntryNumbers, Zenon
    <3> QED
      BY <1>1, <1>2, <1>3, <1>4, <2>2, <3>1 DEF MayTry
  <2> QED
    BY <2>1, <2>2, Zenon
<1>7. UNCHANGED sess \/ sess' = [sess EXCEPT ![s]["c"].state = "closed"]
  BY <1>2, Zenon
<1> QED
  BY <1>2, <1>3, <1>5, <1>6, <1>7, OpenKeys, Zenon

LEMMA CloseKeys ==
    ASSUME IInv, TypeInv, \A s \in Sessions : Keys(s), NEW v \in Callers,
           close_session(v) \/ close_virtual_session(v)
    PROVE  \A s \in Sessions : Keys(s)'
<1>1. PICK s : s = caller[v].sid
  BY Zenon
<1>2. /\ caller[v].pc \in {"returned", "closing"}
      /\ SetCaller(v, "closing", s[2], s) \/ SetCaller(v, "closed", s[2], s)
      /\ UNCHANGED sess \/ sess' = [sess EXCEPT ![s]["c"].state = "closed"]
      /\ packets' = packets \/ packets' = _send_virtual_envelope(Node(s), s, "CLOSE", packets)
  BY <1>1, Zenon DEF close_session, close_virtual_session, routeVars
<1>3. s \in Sessions /\ s[1] = v
  BY <1>1, <1>2, Zenon DEF TypeInv, CallersInv
<1>4. caller'[v].pc \in {"closing", "closed"}
      /\ \A z \in Sessions : z[1] # v => (MayTry(z[1], z[2])' => MayTry(z[1], z[2]))
  BY <1>2, CallerAfter
<1>5. ~MayTry(s[1], s[2])'
  BY <1>3, <1>4, Zenon DEF MayTry
<1>6. \A z \in Sessions : MayTry(z[1], z[2])' => MayTry(z[1], z[2])
  BY <1>4, Zenon DEF MayTry
<1>7. \A q \in packets' : q \in packets \/ (q.sid = s /\ q.body.type \notin Handshake)
  BY <1>2, Envelopes DEF Handshake
<1>8. UNCHANGED sess \/ sess' = [sess EXCEPT ![s]["c"].state = "closed"]
  BY <1>2, Zenon
<1> QED
  BY <1>3, <1>5, <1>6, <1>7, <1>8, OpenKeys, Zenon

LEMMA SendKeys ==
    ASSUME IInv, TypeInv, \A s \in Sessions : Keys(s),
           \/ \E v \in Callers : start_content_download(v)
           \/ \E s \in Sessions : \E n \in {Node(s), Target} : send_keepalive(n, s)
    PROVE  \A s \in Sessions : Keys(s)'
<1>1. UNCHANGED <<sess, caller>>
  BY Zenon DEF start_content_download, send_keepalive, sessionVars
<1>2. PICK s \in Sessions : /\ "active" \in {sess[s]["c"].state, sess[s]["t"].state}
                            /\ \E n : \E type \in {"INFO_REQUEST", "KEEPALIVE"} :
                                 packets' = _send_virtual_envelope(n, s, type, packets)
  <2>1. CASE \E v \in Callers : start_content_download(v)
    <3>1. PICK v \in Callers : start_content_download(v)
      BY <2>1, Zenon
    <3>2. PICK s : s = caller[v].sid
      BY Zenon
    <3>3. /\ caller[v].pc = "returned" /\ sess[s]["c"].state = "active"
          /\ packets' = _send_virtual_envelope(Node(s), s, "INFO_REQUEST", packets)
      BY <3>1, <3>2, Zenon DEF start_content_download
    <3>4. s \in Sessions
      BY <3>2, <3>3, Zenon DEF TypeInv, CallersInv
    <3> QED
      BY <3>3, <3>4, Zenon
  <2>2. CASE \E s \in Sessions : \E n \in {Node(s), Target} : send_keepalive(n, s)
    <3>1. PICK s \in Sessions : \E n \in {Node(s), Target} : send_keepalive(n, s)
      BY <2>2, Zenon
    <3>2. PICK n : send_keepalive(n, s)
      BY <3>1, Zenon
    <3>3. SessionAt(n, s).state = "active" /\ packets' = _send_virtual_envelope(n, s, "KEEPALIVE", packets)
      BY <3>2, Zenon DEF send_keepalive
    <3>4. "active" \in {sess[s]["c"].state, sess[s]["t"].state}
      BY <3>3, Zenon DEF SessionAt, SideAt, NoSide
    <3> QED
      BY <3>3, <3>4, Zenon
  <2> QED
    BY <2>1, <2>2, Zenon
<1>3. \A z \in Sessions : MayTry(z[1], z[2])' => MayTry(z[1], z[2])
  BY <1>1, MayTryKept, Zenon
<1>4. ~MayTry(s[1], s[2])
  <2>1. sess[s]["c"].state = "active" \/ sess[s]["t"].state = "active"
    BY <1>2, Zenon
  <2>2. ~Fresh(s)
    BY <2>1 DEF Fresh, NoSide
  <2> QED
    BY <2>2, Zenon DEF Keys
<1>5. \A q \in packets' : q \in packets \/ (q.sid = s /\ q.body.type \notin Handshake)
  BY <1>2, Envelopes DEF Handshake
<1>6. ~MayTry(s[1], s[2])'
  BY <1>3, <1>4, Zenon
<1> QED
  BY <1>1, <1>3, <1>5, <1>6, OpenKeys, Zenon

LEMMA KeysInitially ==
    ASSUME Init
    PROVE  KeysInv
<1>1. SUFFICES ASSUME NEW s \in Sessions PROVE Keys(s)
  BY Zenon DEF KeysInv
<1>2. IInv /\ packets = {}
  BY Initially, Zenon DEF Init
<1>3. s \in Sids /\ s[1] \in Callers
  BY Zenon DEF Sessions
<1>4. CASE s \in setup.established
  <2>1. sess[s] = Established(s)
    BY <1>3, <1>4, Zenon DEF Init
  <2>2. sess[s]["c"].secret = <<1, 1>> /\ sess[s]["t"].secret = <<1, 1>>
    BY <2>1 DEF Established
  <2>3. caller[s[1]].pc = "returned"
    BY <1>3, <1>4, Zenon DEF Init
  <2> QED
    BY <1>2, <2>2, <2>3, Zenon DEF Keys, SessionOnce, MayTry
<1>5. CASE s \notin setup.established
  <2>1. sess[s]["c"] = NoSide /\ sess[s]["t"] = NoSide
    BY <1>3, <1>5, Zenon DEF Init
  <2> QED
    BY <1>2, <2>1 DEF Keys, SessionOnce, Fresh, NoSide
<1> QED
  BY <1>4, <1>5, Zenon

LEMMA KeysStep ==
    ASSUME IInv, TypeInv, KeysInv, [Next]_vars
    PROVE  KeysInv'
<1> DEFINE Goal == \A s \in Sessions : Keys(s)'
<1>1. SUFFICES ASSUME ~Faults({"dup"})' PROVE Goal
  BY SetupKept, Zenon DEF KeysInv
<1>2. TypeInv' /\ faults'["dup"] >= faults["dup"]
  BY TypesKept, Zenon
<1>3. faults["dup"] \in Nat /\ faults'["dup"] \in Nat
  BY <1>2, Zenon DEF TypeInv, FaultsInv, FaultKinds
<1>4. faults'["dup"] <= 0 /\ ~(faults["dup"] > 0)
  BY <1>1, <1>2, <1>3 DEF Faults
<1>5. \A s \in Sessions : Keys(s)
  BY <1>4, NeverTwice, Zenon DEF KeysInv
<1>6. ASSUME NEW p \in packets, handle(p) PROVE Goal
  BY <1>4, <1>5, <1>6, HandleKeys, Zenon
<1>7. ASSUME NEW v \in Callers, CallerSteps(v) PROVE Goal
  BY <1>5, <1>7, StartKeys, OverKeys, WaitKeys, CloseKeys, Zenon DEF CallerSteps
<1>8. ASSUME NEW v \in Callers, start_session_to_virtual_node(v) PROVE Goal
  BY <1>5, <1>8, StartKeys, Zenon
<1>9. ASSUME NEW v \in Callers, close_session(v) PROVE Goal
  BY <1>5, <1>9, CloseKeys, Zenon
<1>10. ASSUME NEW v \in Callers, start_content_download(v) PROVE Goal
  BY <1>5, <1>10, SendKeys, Zenon
<1>11. ASSUME NEW s \in Sessions, NEW n \in {Node(s), Target}, send_keepalive(n, s) PROVE Goal
  BY <1>5, <1>11, SendKeys, Zenon
<1>12. CASE UNCHANGED <<sess, caller>> /\ packets' \subseteq packets
  BY <1>5, <1>12, QuietKeys, Zenon
<1>13. ASSUME NEW p \in packets, Lose(p) PROVE Goal
  BY <1>12, <1>13, Zenon DEF Lose
<1>14. ASSUME NEW s, NEW i, _publish_download_provider_to_ddt(s, i) PROVE Goal
  BY <1>12, <1>14, Zenon DEF _publish_download_provider_to_ddt, routeVars, sessionVars
<1>15. ASSUME NEW n, store_local_content(n) PROVE Goal
  BY <1>12, <1>15, Zenon DEF store_local_content, routeVars, sessionVars
<1>16. ASSUME NEW v, publish_content_provider(v) PROVE Goal
  BY <1>12, <1>16, Zenon DEF publish_content_provider, routeVars, sessionVars
<1>17. ASSUME NEW n, Restart(n) PROVE Goal
  BY <1>12, <1>17, Zenon DEF Restart, RestartNode
<1>18. ASSUME NEW r, Invalidate(r) PROVE Goal
  BY <1>12, <1>18, Zenon DEF Invalidate, InvalidateRoute
<1>19. CASE UNCHANGED vars
  BY <1>12, <1>19, Zenon DEF vars, routeVars, sessionVars
<1> HIDE DEF Goal
<1>20. CASE Next
  BY <1>6, <1>7, <1>8, <1>9, <1>10, <1>11, <1>13, <1>14, <1>15, <1>16, <1>17, <1>18, <1>20 DEF Next
<1> QED
  BY <1>19, <1>20, Zenon

\* As long as no packet was handled twice, a side that considers a virtual
\* session active encrypts with a secret the other side has too, whatever is
\* lost and whichever attempts time out, are closed or are answered late.
THEOREM KeysAgree == Spec => []VirtualKeysAgree
<1> DEFINE Inv == Typed /\ KeysInv
<1>1. Init => Inv
  BY Initially, TypesInitially, KeysInitially, Zenon DEF Typed
<1>2. Inv /\ [Next]_vars => Inv'
  BY Stepwise, TypesKept, KeysStep, Zenon DEF Typed
<1>3. Inv => VirtualKeysAgree
  BY NoKeyFacts, Zenon DEF KeysInv, Keys, SessionOnce, VirtualKeysAgree
<1> QED
  BY <1>1, <1>2, <1>3, PTL DEF Spec
=============================================================================
