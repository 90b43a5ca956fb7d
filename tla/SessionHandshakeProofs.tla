----------------------- MODULE SessionHandshakeProofs -----------------------
(***************************************************************************)
(* Proofs about SessionHandshake for any number of concurrent calls,       *)
(* endpoints and transports.                                               *)
(***************************************************************************)
EXTENDS SessionHandshake, TLAPS

\* The only secret a session can have where no packet arrives twice.
TheSecret == [own |-> 1, key |-> 1, enc |-> 1]

\* A session no attempt has reached yet.
Untouched(sid) == keys[sid] = 0 /\ \A m \in msgs : m.sid # sid

\* What is known of a session, and of a packet, where no packet arrives twice:
\* each handshake message is made and used once, in the order of the protocol.
SessionOnce(sid) ==
    /\ keys[sid] \in {0, 1} /\ encaps[sid] \in {0, 1}
    /\ encaps[sid] = 1 => keys[sid] = 1 /\ secret["initiator"][sid] = TheSecret
    /\ encaps[sid] = 0 => secret["responder"][sid] # TheSecret
    /\ \A side \in Sides : state[side][sid] = "active" => secret["responder"][sid] = TheSecret

PacketOnce(m) ==
    /\ m.type = "INIT" => m = Msg("INIT", "responder", m.sid, NoSecret) /\ keys[m.sid] = 0
    /\ m.type = "INIT_OK" => /\ m = Msg("INIT_OK", "initiator", m.sid, KeyOf(1))
                             /\ keys[m.sid] = 1 /\ encaps[m.sid] = 0
    /\ m.type = "KEY_CONFIRM" => encaps[m.sid] = 1 /\ m.secret = TheSecret
    /\ m.type = "READY" => secret["responder"][m.sid] = TheSecret

OnceInv ==
    /\ \A c \in Callers :
         /\ caller[c].pc \in {"start", "loading"} => caller[c].ep = 0
         /\ \A ep \in 1..Endpoints : ep > caller[c].ep => Untouched(<<c, ep>>)
    /\ \A sid \in Sessions : SessionOnce(sid)
    /\ \A m \in msgs : PacketOnce(m)

-----------------------------------------------------------------------------
\* start_session changes the state of one call.
LEMMA CallUpdate ==
    ASSUME caller \in [Callers -> Calls], NEW c \in Callers,
           NEW pc \in {"loading", "waiting", "returned", "raised"}
    PROVE  /\ [caller EXCEPT ![c].pc = pc] \in [Callers -> Calls]
           /\ \A found \in SUBSET Sessions :
                [caller EXCEPT ![c].pc = pc, ![c].existing = found] \in [Callers -> Calls]
<1>1. caller[c] \in Calls
  OBVIOUS
<1>2. [caller[c] EXCEPT !.pc = pc] \in Calls
  BY <1>1 DEF Calls
<1>3. ASSUME NEW found \in SUBSET Sessions
      PROVE  [caller[c] EXCEPT !.pc = pc, !.existing = found] \in Calls
  BY <1>1 DEF Calls
<1>4. ASSUME NEW rec \in Calls PROVE [caller EXCEPT ![c] = rec] \in [Callers -> Calls]
  OBVIOUS
<1>5. [caller EXCEPT ![c].pc = pc] \in [Callers -> Calls]
  BY <1>2, <1>4
<1>6. ASSUME NEW found \in SUBSET Sessions
      PROVE  [caller EXCEPT ![c].pc = pc, ![c].existing = found] \in [Callers -> Calls]
  BY <1>3, <1>4
<1> QED
  BY <1>5, <1>6

\* update_session_state changes one session at one side.
LEMMA StateUpdate ==
    ASSUME state \in [Sides -> [Sessions -> States]],
           NEW side \in Sides, NEW sid \in Sessions, NEW st \in States
    PROVE  [state EXCEPT ![side][sid] = st] \in [Sides -> [Sessions -> States]]
  OBVIOUS

\* Storing a key or a secret changes one session at one side.
LEMMA SecretUpdate ==
    ASSUME secret \in [Sides -> [Sessions -> Secrets]],
           NEW side \in Sides, NEW sid \in Sessions, NEW sec \in Secrets
    PROVE  [secret EXCEPT ![side][sid] = sec] \in [Sides -> [Sessions -> Secrets]]
  OBVIOUS

\* What a handler reads from a packet, and what is left once it is read.
LEMMA PacketFields ==
    ASSUME msgs \subseteq Packets, NEW m \in msgs
    PROVE  /\ m.sid \in Sessions /\ m.to \in Sides /\ m.secret \in Secrets
           /\ m.secret.key \in 0..MaxKeys
           /\ Consumed(m) \subseteq Packets
<1>1. m \in Packets
  OBVIOUS
<1> QED
  BY <1>1 DEF Packets, Secrets, Consumed

\* Constants the type invariant speaks of.
LEMMA Members ==
    /\ "initiator" \in Sides /\ "responder" \in Sides
    /\ \A x \in {"none", "pending", "active", "closed"} : x \in States
    /\ 0 \in 0..MaxKeys /\ NoSecret \in Secrets
  BY HandshakeAssumption DEF Sides, States, NoSecret, Secrets

\* The packets a handler builds are packets.
LEMMA PacketMade ==
    ASSUME NEW type \in {"INIT", "INIT_OK", "KEY_CONFIRM", "READY", "CLOSE"},
           NEW to \in Sides, NEW sid \in Sessions, NEW sec \in Secrets
    PROVE  Msg(type, to, sid, sec) \in Packets
  BY DEF Msg, Packets

\* What an attempt at the next endpoint changes.
LEMMA TryEndpointType ==
    ASSUME TypeOK, NEW c \in Callers, NEW ep \in 1..(Endpoints + 1),
           NEW states \in [Sessions -> States],
           TryEndpoint(c, ep, states), UNCHANGED <<secret, keys, encaps>>
    PROVE  TypeOK'
<1>1. CASE ep <= Endpoints
  <2>1. <<c, ep>> \in Sessions
    BY <1>1 DEF Sessions
  <2>2. Msg("INIT", "responder", <<c, ep>>, NoSecret) \in Packets
    BY <2>1, Members, PacketMade
  <2>3. [pc |-> "sending", ep |-> ep, existing |-> {}] \in Calls
    BY <1>1, HandshakeAssumption DEF Calls
  <2>4. caller' \in [Callers -> Calls]
    BY <1>1, <2>3 DEF TryEndpoint, TypeOK
  <2>5. [states EXCEPT ![<<c, ep>>] = "pending"] \in [Sessions -> States]
    BY <2>1, Members
  <2>6. state' \in [Sides -> [Sessions -> States]]
    BY Members, <1>1, <2>5 DEF TryEndpoint, TypeOK
  <2>7. msgs' \subseteq Packets
    BY <1>1, <2>2 DEF TryEndpoint, TypeOK
  <2> QED
    BY <2>4, <2>6, <2>7 DEF TypeOK
<1>2. CASE ~(ep <= Endpoints)
  <2>0. caller' = [caller EXCEPT ![c].pc = "raised"]
    BY <1>2 DEF TryEndpoint
  <2>1. caller' \in [Callers -> Calls]
    BY <2>0, CallUpdate, Zenon DEF TypeOK
  <2>2. state' \in [Sides -> [Sessions -> States]]
    BY SMTT(90), Members, <1>2 DEF TryEndpoint, TypeOK
  <2> QED
    BY <1>2, <2>1, <2>2 DEF TryEndpoint, TypeOK
<1> QED
  BY <1>1, <1>2

\* Every step of the model keeps the type invariant.
LEMMA TypeStep == TypeOK /\ [Next]_vars => TypeOK'
<1> SUFFICES ASSUME TypeOK, [Next]_vars PROVE TypeOK'
  OBVIOUS
<1>0. /\ caller \in [Callers -> Calls]
      /\ \A c \in Callers : caller[c].ep \in 0..Endpoints
      /\ \A side \in Sides : state[side] \in [Sessions -> States]
      /\ \A sid \in Sessions : keys[sid] \in 0..MaxKeys /\ encaps[sid] \in 0..MaxKeys
      /\ \A m \in msgs : /\ m.sid \in Sessions /\ m.to \in Sides /\ m.secret \in Secrets
                        /\ m.secret.key \in 0..MaxKeys
                        /\ Consumed(m) \subseteq Packets
  BY PacketFields DEF TypeOK, Calls
<1>1. ASSUME NEW c \in Callers, start_session(c) PROVE TypeOK'
  <2>1. _get_preferred_active_session \subseteq Sessions
    BY DEF _get_preferred_active_session
  <2>2. PICK found \in SUBSET Sessions, pc \in {"returned", "loading"} :
             caller' = [caller EXCEPT ![c].pc = pc, ![c].existing = found]
    BY SMTT(90), <1>1, <2>1 DEF start_session
  <2>3. [caller EXCEPT ![c].pc = pc, ![c].existing = found] \in [Callers -> Calls]
    BY <1>0, CallUpdate, Zenon
  <2> QED
    BY <1>1, <2>2, <2>3 DEF start_session, TypeOK
<1>2. ASSUME NEW c \in Callers, descriptor_loaded(c) PROVE TypeOK'
  <2>1. CASE caller' = [caller EXCEPT ![c].pc = "returned"] /\ UNCHANGED <<state, msgs>>
    <3>1. [caller EXCEPT ![c].pc = "returned"] \in [Callers -> Calls]
      BY <1>0, CallUpdate, Zenon
    <3> QED
      BY <1>2, <2>1, <3>1 DEF descriptor_loaded, TypeOK
  <2>2. CASE TryEndpoint(c, 1, state["initiator"])
    <3>1. 1 \in 1..(Endpoints + 1) /\ state["initiator"] \in [Sessions -> States]
      BY <1>0, Members, HandshakeAssumption
    <3>2. UNCHANGED <<secret, keys, encaps>>
      BY <1>2 DEF descriptor_loaded
    <3> QED
      BY <2>2, <3>1, <3>2, TryEndpointType
  <2> QED
    BY <1>2, <2>1, <2>2 DEF descriptor_loaded
<1>3. ASSUME NEW c \in Callers, init_sent(c) \/ activation_seen(c) PROVE TypeOK'
  <2>1. PICK pc \in {"waiting", "returned"} : caller' = [caller EXCEPT ![c].pc = pc]
    BY <1>3 DEF init_sent, activation_seen
  <2>2. [caller EXCEPT ![c].pc = pc] \in [Callers -> Calls]
    BY <1>0, CallUpdate, Zenon
  <2> QED
    BY <1>3, <2>1, <2>2 DEF init_sent, activation_seen, TypeOK
<1>4. ASSUME NEW c \in Callers, init_send_raises(c) \/ activation_fails(c) PROVE TypeOK'
  <2>1. FailedAttempt(c) \in [Sessions -> States]
    BY <1>0, Members DEF FailedAttempt
  <2>2. caller[c].ep + 1 \in 1..(Endpoints + 1)
    BY <1>0, HandshakeAssumption
  <2> QED
    BY <1>4, <2>1, <2>2, TryEndpointType DEF init_send_raises, activation_fails
<1>5. ASSUME NEW m \in msgs, handle_init(m) PROVE TypeOK'
  <2>1. keys[m.sid] + 1 \in 0..MaxKeys
    BY <1>0, <1>5, HandshakeAssumption DEF handle_init
  <2>2. Msg("INIT_OK", "initiator", m.sid, KeyOf(keys[m.sid] + 1)) \in Packets
    <3>1. KeyOf(keys[m.sid] + 1) \in Secrets
      BY <2>1, Members DEF KeyOf, Secrets
    <3> QED
      BY <1>0, <3>1, Members, PacketMade
  <2>3. PICK st \in States : state' = [state EXCEPT !["responder"][m.sid] = st]
    BY <1>0, <1>5, Members DEF handle_init
  <2>4. state' \in [Sides -> [Sessions -> States]]
    BY <1>0, <2>3, Members, StateUpdate DEF TypeOK
  <2>5. msgs' \subseteq Packets
    BY <1>0, <1>5, <2>2 DEF handle_init
  <2> QED
    BY <1>0, <1>5, <2>1, <2>4, <2>5 DEF handle_init, TypeOK
<1>6. ASSUME NEW m \in msgs, handle_init_ok(m) PROVE TypeOK'
  <2>1. encaps[m.sid] + 1 \in 0..MaxKeys
    BY <1>0, <1>6, HandshakeAssumption DEF handle_init_ok
  <2>2. [own |-> m.secret.key, key |-> m.secret.key, enc |-> encaps[m.sid] + 1] \in Secrets
    BY <1>0, <2>1 DEF Secrets
  <2>3. \A sec \in Secrets : Msg("KEY_CONFIRM", "responder", m.sid, sec) \in Packets
    BY <1>0, Members, PacketMade
  <2>4. state' \in [Sides -> [Sessions -> States]]
    <3>1. PICK st \in States : state' = [state EXCEPT !["initiator"][m.sid] = st]
      BY <1>6, Members DEF handle_init_ok
    <3> QED
      BY <1>0, <3>1, Members, StateUpdate DEF TypeOK
  <2>5. secret' \in [Sides -> [Sessions -> Secrets]]
    <3>1. CASE m.sid[2] \in WrongEndpoints
      BY <1>6, <3>1 DEF handle_init_ok, TypeOK
    <3>2. CASE m.sid[2] \notin WrongEndpoints
      <4>1. PICK sec \in Secrets : secret' = [secret EXCEPT !["initiator"][m.sid] = sec]
        BY <1>6, <2>2, <3>2 DEF handle_init_ok
      <4> QED
        BY <1>0, <4>1, Members, SecretUpdate DEF TypeOK
    <3> QED
      BY <3>1, <3>2
  <2>6. msgs' \subseteq Packets
    BY <1>0, <1>6, <2>2, <2>3 DEF handle_init_ok
  <2>7. encaps' \in [Sessions -> 0..MaxKeys]
    BY <1>0, <1>6, <2>1 DEF handle_init_ok, TypeOK
  <2> QED
    BY <1>6, <2>4, <2>5, <2>6, <2>7 DEF handle_init_ok, TypeOK
<1>7. ASSUME NEW m \in msgs, handle_key_confirm(m) PROVE TypeOK'
  <2>1. [m.secret EXCEPT !.own = keys[m.sid]] \in Secrets
    BY <1>0 DEF Secrets
  <2>2. Msg("READY", "initiator", m.sid, NoSecret) \in Packets
    BY <1>0, Members, PacketMade
  <2>3. state' \in [Sides -> [Sessions -> States]]
    BY <1>0, <1>7, Members, StateUpdate DEF handle_key_confirm, TypeOK
  <2>4. secret' \in [Sides -> [Sessions -> Secrets]]
    BY <1>0, <1>7, <2>1, Members, SecretUpdate DEF handle_key_confirm, TypeOK
  <2> QED
    BY <1>0, <1>7, <2>2, <2>3, <2>4 DEF handle_key_confirm, TypeOK
<1>8. ASSUME NEW m \in msgs, handle_ready(m) \/ handle_close(m) PROVE TypeOK'
  <2>1. PICK side \in Sides, st \in States : state' = [state EXCEPT ![side][m.sid] = st]
    BY <1>0, <1>8, Members DEF handle_ready, handle_close
  <2>2. state' \in [Sides -> [Sessions -> States]]
    BY <1>0, <2>1, StateUpdate DEF TypeOK
  <2> QED
    BY <1>0, <1>8, <2>2 DEF handle_ready, handle_close, TypeOK
<1>9. ASSUME NEW side \in Sides, NEW sid \in Sessions, close_expired_session(side, sid)
      PROVE TypeOK'
  <2>1. Peer(side) \in Sides /\ secret[side][sid] \in Secrets
    BY Members DEF Peer, TypeOK
  <2>2. Msg("CLOSE", Peer(side), sid, secret[side][sid]) \in Packets
    BY <2>1, PacketMade
  <2>3. state' \in [Sides -> [Sessions -> States]]
    BY <1>9, Members, StateUpdate DEF close_expired_session, TypeOK
  <2> QED
    BY <1>9, <2>2, <2>3 DEF close_expired_session, TypeOK
<1>10. CASE UNCHANGED vars
  BY <1>10 DEF vars, TypeOK
<1> QED
  BY <1>1, <1>2, <1>3, <1>4, <1>5, <1>6, <1>7, <1>8, <1>9, <1>10 DEF Next, CallerStep

\* Type correctness of session establishment.
THEOREM TypeCorrect == Spec => []TypeOK
<1>1. Init => TypeOK
  <2>1. [pc |-> "start", ep |-> 0, existing |-> {}] \in Calls
    BY HandshakeAssumption DEF Calls
  <2> QED
    BY <2>1, Members DEF Init, TypeOK
<1> QED
  BY <1>1, TypeStep, PTL DEF Spec

-----------------------------------------------------------------------------
\* Whichever message activates a session, at either side and however often
\* packets are repeated, a secret was stored before.
THEOREM ActiveIsKeyed == Spec => []ActiveHasSecret
<1>1. Init => ActiveHasSecret
  BY DEF Init, ActiveHasSecret
<1>2. TypeOK /\ ActiveHasSecret /\ [Next]_vars => ActiveHasSecret'
  <2> SUFFICES ASSUME TypeOK, ActiveHasSecret, [Next]_vars,
                      NEW side \in Sides, NEW sid \in Sessions,
                      state'[side][sid] = "active"
               PROVE  secret'[side][sid] # NoSecret
    BY DEF ActiveHasSecret
  <2>0. /\ "initiator" \in Sides /\ "responder" \in Sides
        /\ state \in [Sides -> [Sessions -> States]]
        /\ secret \in [Sides -> [Sessions -> Secrets]]
        /\ \A m \in msgs : m.sid \in Sessions /\ m.secret \in Secrets /\ m.to \in Sides
    BY Members, PacketFields DEF TypeOK
  <2>1. ASSUME NEW c \in Callers, CallerStep(c) PROVE secret'[side][sid] # NoSecret
    <3>1. secret' = secret
      BY SMTT(90), <2>1 DEF CallerStep, start_session, descriptor_loaded, init_sent,
                  init_send_raises, activation_seen, activation_fails
    <3>2. \/ state' = state
          \/ \E ep \in Int, states \in {state["initiator"], FailedAttempt(c)} :
                \/ state' = [state EXCEPT !["initiator"] = states]
                \/ state' = [state EXCEPT !["initiator"] =
                               [states EXCEPT ![<<c, ep>>] = "pending"]]
      <4>1. caller[c].ep \in Int
        BY DEF TypeOK, Calls
      <4> QED
        BY SMTT(90), <2>1, <4>1 DEF CallerStep, start_session, descriptor_loaded, init_sent,
                     init_send_raises, activation_seen, activation_fails, TryEndpoint
    <3>3. /\ FailedAttempt(c) \in [Sessions -> States]
          /\ FailedAttempt(c)[sid] = "active" => state["initiator"][sid] = "active"
      BY <2>0, Members DEF FailedAttempt
    <3>4. ASSUME NEW states \in [Sessions -> States], NEW ep \in Int,
                 states[sid] = "active" => state["initiator"][sid] = "active",
                 \/ state' = [state EXCEPT !["initiator"] = states]
                 \/ state' = [state EXCEPT !["initiator"] =
                                [states EXCEPT ![<<c, ep>>] = "pending"]]
          PROVE  state[side][sid] = "active"
      BY <2>0, <3>4
    <3>5. state[side][sid] = "active"
      BY <2>0, <3>2, <3>3, <3>4
    <3> QED
      BY <3>1, <3>5 DEF ActiveHasSecret
  <2>2. ASSUME NEW m \in msgs, handle_init(m) \/ handle_close(m)
        PROVE secret'[side][sid] # NoSecret
    <3>1. CASE handle_init(m)
      BY <2>0, <3>1 DEF handle_init, ActiveHasSecret
    <3>2. CASE handle_close(m)
      BY <2>0, <3>2 DEF handle_close, ActiveHasSecret
    <3> QED
      BY <2>2, <3>1, <3>2
  <2>7. ASSUME NEW m \in msgs, handle_ready(m) PROVE secret'[side][sid] # NoSecret
    BY <2>0, <2>7 DEF handle_ready, ActiveHasSecret
  <2>3. ASSUME NEW m \in msgs, handle_init_ok(m) PROVE secret'[side][sid] # NoSecret
    <3>2. PICK st \in {"pending", "closed"} :
             state' = [state EXCEPT !["initiator"][m.sid] = st]
      BY <2>3 DEF handle_init_ok
    <3>3. state[side][sid] = "active" /\ ~(side = "initiator" /\ sid = m.sid)
      BY <2>0, <3>2
    <3>4. CASE m.sid[2] \in WrongEndpoints
      BY <2>3, <3>3, <3>4 DEF handle_init_ok, ActiveHasSecret
    <3>5. CASE m.sid[2] \notin WrongEndpoints
      <4>1. PICK sec : secret' = [secret EXCEPT !["initiator"][m.sid] = sec]
        BY <2>3, <3>5 DEF handle_init_ok
      <4> QED
        BY <2>0, <3>3, <4>1 DEF ActiveHasSecret
    <3> QED
      BY <3>4, <3>5
  <2>4. ASSUME NEW m \in msgs, handle_key_confirm(m) PROVE secret'[side][sid] # NoSecret
    BY <2>0, <2>4 DEF handle_key_confirm, ActiveHasSecret, NoSecret, Secrets
  <2>5. ASSUME NEW sd \in Sides, NEW sn \in Sessions, close_expired_session(sd, sn)
        PROVE secret'[side][sid] # NoSecret
    BY <2>0, <2>5 DEF close_expired_session, ActiveHasSecret
  <2>6. CASE UNCHANGED vars
    BY <2>6 DEF vars, ActiveHasSecret
  <2> QED
    BY <2>1, <2>2, <2>3, <2>4, <2>5, <2>6, <2>7 DEF Next
<1> QED
  BY <1>1, <1>2, TypeCorrect, PTL DEF Spec

-----------------------------------------------------------------------------
\* An attempt at a new endpoint uses a session nothing has touched.
LEMMA OnceAttempt ==
    ASSUME TypeOK, OnceInv, NEW c \in Callers, NEW ep \in 1..(Endpoints + 1),
           ep = caller[c].ep + 1, NEW states \in [Sessions -> States],
           \A sid \in Sessions : states[sid] = "active" => state["initiator"][sid] = "active",
           TryEndpoint(c, ep, states), UNCHANGED <<secret, keys, encaps>>
    PROVE  OnceInv'
<1>0. /\ caller \in [Callers -> Calls]
      /\ state \in [Sides -> [Sessions -> States]]
      /\ \A d \in Callers : caller[d].ep \in 0..Endpoints
  BY DEF TypeOK, Calls
<1>1. CASE ep <= Endpoints
  <2>1. <<c, ep>> \in Sessions /\ Untouched(<<c, ep>>)
    BY <1>0, <1>1, HandshakeAssumption DEF OnceInv, Sessions
  <2> DEFINE init == Msg("INIT", "responder", <<c, ep>>, NoSecret)
  <2>2. /\ caller' = [caller EXCEPT ![c] = [pc |-> "sending", ep |-> ep, existing |-> {}]]
        /\ state' = [state EXCEPT !["initiator"] = [states EXCEPT ![<<c, ep>>] = "pending"]]
        /\ msgs' = msgs \cup {init}
    BY <1>1 DEF TryEndpoint
  <2>3. init.type = "INIT" /\ init.sid = <<c, ep>>
    BY DEF Msg
  <2>4. ASSUME NEW d \in Callers
        PROVE  /\ (caller[d].pc \in {"start", "loading"} => caller[d].ep = 0)'
               /\ \A e \in 1..Endpoints : (e > caller[d].ep => Untouched(<<d, e>>))'
    <3>1. CASE d = c
      <4>1. caller'[d].pc = "sending" /\ caller'[d].ep = ep
        BY <1>0, <2>2, <3>1
      <4>2. \A e \in 1..Endpoints : e > ep => e > caller[c].ep /\ <<c, e>> # <<c, ep>>
        BY <1>0, HandshakeAssumption
      <4> QED
        BY <2>2, <2>3, <3>1, <4>1, <4>2 DEF OnceInv, Untouched
    <3>2. CASE d # c
      <4>1. caller'[d] = caller[d]
        BY <1>0, <2>2, <3>2
      <4>2. \A e : <<d, e>> # <<c, ep>>
        BY <3>2
      <4> QED
        BY <2>2, <2>3, <4>1, <4>2 DEF OnceInv, Untouched
    <3> QED
      BY <3>1, <3>2
  <2>5. ASSUME NEW sid \in Sessions PROVE SessionOnce(sid)'
    <3>1. \A side \in Sides : state'[side][sid] = "active" => state[side][sid] = "active"
      BY <1>0, <2>1, <2>2
    <3> QED
      BY <3>1 DEF OnceInv, SessionOnce
  <2>6. ASSUME NEW m \in msgs' PROVE PacketOnce(m)'
    <3>1. CASE m \in msgs
      BY SMTT(90), <3>1 DEF OnceInv, PacketOnce
    <3>2. CASE m = init
      BY <2>1, <2>3, <3>2 DEF PacketOnce, Untouched
    <3> QED
      BY <2>2, <3>1, <3>2
  <2> QED
    BY <2>4, <2>5, <2>6 DEF OnceInv
<1>2. CASE ~(ep <= Endpoints)
  <2>1. /\ caller' = [caller EXCEPT ![c].pc = "raised"]
        /\ state' = [state EXCEPT !["initiator"] = states]
        /\ msgs' = msgs
    BY <1>2 DEF TryEndpoint
  <2>2. ASSUME NEW d \in Callers
        PROVE  /\ caller'[d].ep = caller[d].ep
               /\ caller'[d].pc \in {"start", "loading"} => caller[d].pc \in {"start", "loading"}
    <3>1. caller[c] \in Calls
      BY <1>0
    <3>2. caller'[d] = IF d = c THEN [caller[c] EXCEPT !.pc = "raised"] ELSE caller[d]
      BY <1>0, <2>1
    <3> QED
      BY <3>1, <3>2 DEF Calls
  <2>3. ASSUME NEW sid \in Sessions PROVE SessionOnce(sid)'
    <3>1. \A side \in Sides : state'[side][sid] = "active" => state[side][sid] = "active"
      BY <1>0, <2>1
    <3> QED
      BY <3>1 DEF OnceInv, SessionOnce
  <2> QED
    BY <2>1, <2>2, <2>3 DEF OnceInv, Untouched, PacketOnce
<1> QED
  BY <1>1, <1>2

\* Where no packet arrives twice, every step keeps the once-only invariant.
LEMMA OnceStep ==
    ASSUME Duplicating = FALSE, TypeOK, OnceInv, [Next]_vars
    PROVE  OnceInv'
<1>0. /\ caller \in [Callers -> Calls]
      /\ \A c \in Callers : caller[c].ep \in 0..Endpoints
      /\ state \in [Sides -> [Sessions -> States]]
      /\ secret \in [Sides -> [Sessions -> Secrets]]
      /\ keys \in [Sessions -> 0..MaxKeys] /\ encaps \in [Sessions -> 0..MaxKeys]
      /\ "initiator" \in Sides /\ "responder" \in Sides
      /\ \A m \in msgs : m.sid \in Sessions /\ m.to \in Sides /\ Consumed(m) = msgs \ {m}
  BY Members, PacketFields DEF TypeOK, Calls, Consumed
<1>00. /\ \A sid \in Sessions : SessionOnce(sid)
       /\ \A m \in msgs : PacketOnce(m)
       /\ \A m \in msgs : \A c \in Callers : \A ep \in 1..Endpoints :
             ep > caller[c].ep => m.sid # <<c, ep>>
  BY DEF OnceInv, Untouched
<1>1. ASSUME NEW c \in Callers, start_session(c) \/ init_sent(c) \/ activation_seen(c)
      PROVE  OnceInv'
  <2>1. ASSUME NEW d \in Callers
        PROVE  /\ caller'[d].ep = caller[d].ep
               /\ caller'[d].pc \in {"start", "loading"} => caller[d].pc \in {"start", "loading"}
    <3>1. caller[c] \in Calls
      BY <1>0
    <3>2. CASE start_session(c)
      <4>1. PICK pc, found : caller' = [caller EXCEPT ![c].pc = pc, ![c].existing = found]
        BY <3>2 DEF start_session
      <4>2. caller'[d].ep = caller[d].ep /\ (d # c => caller'[d] = caller[d])
        BY <1>0, <3>1, <4>1 DEF Calls
      <4> QED
        BY <3>2, <4>2 DEF start_session
    <3>3. CASE init_sent(c) \/ activation_seen(c)
      <4>1. PICK pc \in {"waiting", "returned"} : caller' = [caller EXCEPT ![c].pc = pc]
        BY <3>3 DEF init_sent, activation_seen
      <4> QED
        BY <1>0, <3>1, <4>1 DEF Calls
    <3> QED
      BY <1>1, <3>2, <3>3
  <2>2. UNCHANGED <<state, secret, keys, encaps, msgs>>
    BY <1>1 DEF start_session, init_sent, activation_seen
  <2> QED
    BY <2>1, <2>2 DEF OnceInv, Untouched, SessionOnce, PacketOnce
<1>2. ASSUME NEW c \in Callers, descriptor_loaded(c) PROVE OnceInv'
  <2>1. UNCHANGED <<secret, keys, encaps>> /\ caller[c].ep = 0
    BY <1>2 DEF descriptor_loaded, OnceInv
  <2>2. CASE caller' = [caller EXCEPT ![c].pc = "returned"] /\ UNCHANGED <<state, msgs>>
    <3>1. ASSUME NEW d \in Callers
          PROVE  /\ caller'[d].ep = caller[d].ep
                 /\ caller'[d].pc \in {"start", "loading"}
                      => caller[d].pc \in {"start", "loading"}
      BY <1>0, <2>2 DEF Calls
    <3> QED
      BY <2>1, <2>2, <3>1 DEF OnceInv, Untouched, SessionOnce, PacketOnce
  <2>3. CASE TryEndpoint(c, 1, state["initiator"])
    <3>1. 1 \in 1..(Endpoints + 1) /\ 1 = caller[c].ep + 1
      BY <2>1, HandshakeAssumption
    <3>2. state["initiator"] \in [Sessions -> States]
      BY <1>0
    <3> QED
      BY <2>1, <2>3, <3>1, <3>2, OnceAttempt
  <2> QED
    BY <1>2, <2>2, <2>3 DEF descriptor_loaded
<1>3. ASSUME NEW c \in Callers, init_send_raises(c) \/ activation_fails(c) PROVE OnceInv'
  <2>1. /\ FailedAttempt(c) \in [Sessions -> States]
        /\ \A sid \in Sessions : FailedAttempt(c)[sid] = "active"
                                   => state["initiator"][sid] = "active"
    BY <1>0, Members DEF FailedAttempt
  <2>2. caller[c].ep + 1 \in 1..(Endpoints + 1)
    BY <1>0, HandshakeAssumption
  <2>3. UNCHANGED <<secret, keys, encaps>> /\ TryEndpoint(c, caller[c].ep + 1, FailedAttempt(c))
    BY <1>3 DEF init_send_raises, activation_fails
  <2> QED
    BY <2>1, <2>2, <2>3, OnceAttempt
<1>4. ASSUME NEW m \in msgs, handle_init(m) PROVE OnceInv'
  <2>1. /\ m = Msg("INIT", "responder", m.sid, NoSecret) /\ keys[m.sid] = 0
        /\ encaps[m.sid] = 0 /\ m.sid \in Sessions
    BY <1>0, <1>00, <1>4 DEF handle_init, PacketOnce, SessionOnce
  <2> DEFINE answer == Msg("INIT_OK", "initiator", m.sid, KeyOf(1))
  <2>2. /\ keys' = [keys EXCEPT ![m.sid] = 1] /\ msgs' = (msgs \ {m}) \cup {answer}
        /\ UNCHANGED <<caller, secret, encaps>>
    BY <1>0, <1>4, <2>1 DEF handle_init
  <2>3. \A side \in Sides, sid \in Sessions :
           state'[side][sid] = "active" => state[side][sid] = "active"
    BY <1>0, <1>4 DEF handle_init
  <2>4. answer.type = "INIT_OK" /\ answer.sid = m.sid
    BY SMTT(90) DEF Msg
  <2>5. ASSUME NEW sid \in Sessions PROVE SessionOnce(sid)'
    BY <1>0, <1>00, <2>1, <2>2, <2>3 DEF SessionOnce
  <2>6. ASSUME NEW n \in msgs' PROVE PacketOnce(n)'
    <3>1. CASE n \in msgs /\ n # m
      <4>1. n.sid = m.sid => n.type \notin {"INIT", "INIT_OK"}
        BY <1>00, <2>1, <3>1 DEF PacketOnce
      <4>2. n.sid # m.sid => keys'[n.sid] = keys[n.sid]
        BY <1>0, <2>2, <3>1
      <4> QED
        BY <1>00, <2>2, <3>1, <4>1, <4>2 DEF PacketOnce
    <3>2. CASE n = answer
      BY SMTT(90), <1>0, <2>1, <2>2, <2>4, <3>2 DEF PacketOnce
    <3> QED
      BY <2>2, <3>1, <3>2
  <2>7. ASSUME NEW c \in Callers
        PROVE  /\ (caller[c].pc \in {"start", "loading"} => caller[c].ep = 0)'
               /\ \A ep \in 1..Endpoints : (ep > caller[c].ep => Untouched(<<c, ep>>))'
    BY SMTT(90), <1>0, <1>00, <2>1, <2>2, <2>4 DEF OnceInv, Untouched
  <2> QED
    BY <2>5, <2>6, <2>7 DEF OnceInv
<1>5. ASSUME NEW m \in msgs, handle_init_ok(m) PROVE OnceInv'
  <2>1. /\ m = Msg("INIT_OK", "initiator", m.sid, KeyOf(1)) /\ m.type = "INIT_OK"
        /\ m.secret.key = 1 /\ keys[m.sid] = 1 /\ encaps[m.sid] = 0 /\ m.sid \in Sessions
    BY <1>0, <1>00, <1>5 DEF handle_init_ok, PacketOnce, Msg, KeyOf
  <2>2. UNCHANGED <<caller, keys>>
    BY <1>5 DEF handle_init_ok
  <2>3. \A side \in Sides, sid \in Sessions :
           state'[side][sid] = "active" => state[side][sid] = "active"
    <3>1. PICK st \in {"pending", "closed"} :
             state' = [state EXCEPT !["initiator"][m.sid] = st]
      BY <1>5 DEF handle_init_ok
    <3> QED
      BY <1>0, <3>1
  <2>4. CASE m.sid[2] \in WrongEndpoints
    <3>1. msgs' = msgs \ {m} /\ UNCHANGED <<secret, encaps>>
      BY SMTT(90), <1>0, <1>5, <2>4 DEF handle_init_ok
    <3>2. \A sid \in Sessions : SessionOnce(sid)'
      BY SMTT(90), <1>00, <2>2, <2>3, <3>1 DEF SessionOnce
    <3> QED
      BY <2>2, <3>1, <3>2 DEF OnceInv, Untouched, PacketOnce
  <2>5. CASE m.sid[2] \notin WrongEndpoints
    <3> DEFINE confirm == Msg("KEY_CONFIRM", "responder", m.sid, TheSecret)
    <3>1. /\ encaps' = [encaps EXCEPT ![m.sid] = 1]
          /\ secret' = [secret EXCEPT !["initiator"][m.sid] = TheSecret]
          /\ msgs' = (msgs \ {m}) \cup {confirm}
      BY <1>0, <1>5, <2>1, <2>5 DEF handle_init_ok, TheSecret
    <3>2. confirm.type = "KEY_CONFIRM" /\ confirm.sid = m.sid /\ confirm.secret = TheSecret
      BY DEF Msg
    <3>3. /\ encaps'[m.sid] = 1 /\ secret'["initiator"][m.sid] = TheSecret
          /\ \A sid \in Sessions : secret'["responder"][sid] = secret["responder"][sid]
          /\ \A sid \in Sessions \ {m.sid} : encaps'[sid] = encaps[sid]
          /\ \A sid \in Sessions \ {m.sid} :
                secret'["initiator"][sid] = secret["initiator"][sid]
      BY <1>0, <2>1, <3>1
    <3>4. ASSUME NEW sid \in Sessions PROVE SessionOnce(sid)'
      <4>1. /\ keys' = keys /\ secret'["responder"][sid] = secret["responder"][sid]
            /\ \A side \in Sides : state'[side][sid] = "active" => state[side][sid] = "active"
        BY SMTT(90), <2>2, <2>3, <3>3
      <4>2. CASE sid = m.sid
        BY <1>00, <2>1, <3>3, <4>1, <4>2 DEF SessionOnce
      <4>3. CASE sid # m.sid
        BY <1>00, <3>3, <4>1, <4>3 DEF SessionOnce
      <4> QED
        BY SMTT(90), <4>2, <4>3
    <3>5. ASSUME NEW n \in msgs' PROVE PacketOnce(n)'
      <4>1. CASE n \in msgs /\ n # m
        <5>1. n.sid = m.sid => n.type \notin {"INIT", "INIT_OK"}
          BY <1>00, <2>1, <4>1 DEF PacketOnce
        <5>2. n.sid \in Sessions
          BY <1>0, <4>1
        <5>3. keys' = keys /\ secret'["responder"][n.sid] = secret["responder"][n.sid]
          BY SMTT(90), <2>2, <3>3, <5>2
        <5>4. CASE n.sid = m.sid
          BY SMTT(90), <1>00, <3>3, <4>1, <5>1, <5>3, <5>4 DEF PacketOnce
        <5>5. CASE n.sid # m.sid
          <6>1. encaps'[n.sid] = encaps[n.sid]
            BY SMTT(90), <3>3, <5>2, <5>5
          <6> QED
            BY <1>00, <4>1, <5>3, <6>1 DEF PacketOnce
        <5> QED
          BY SMTT(90), <5>4, <5>5
      <4>2. CASE n = confirm
        BY <3>2, <3>3, <4>2 DEF PacketOnce
      <4> QED
        BY <3>1, <4>1, <4>2
    <3>6. ASSUME NEW c \in Callers
          PROVE  /\ (caller[c].pc \in {"start", "loading"} => caller[c].ep = 0)'
                 /\ \A ep \in 1..Endpoints : (ep > caller[c].ep => Untouched(<<c, ep>>))'
      BY <1>00, <2>2, <3>1, <3>2 DEF OnceInv, Untouched
    <3> QED
      BY <3>4, <3>5, <3>6 DEF OnceInv
  <2> QED
    BY <2>4, <2>5
<1>6. ASSUME NEW m \in msgs, handle_key_confirm(m) PROVE OnceInv'
  <2>1. /\ m.secret = TheSecret /\ encaps[m.sid] = 1 /\ keys[m.sid] = 1 /\ m.sid \in Sessions
    BY <1>0, <1>00, <1>6 DEF handle_key_confirm, PacketOnce, SessionOnce
  <2> DEFINE ready == Msg("READY", "initiator", m.sid, NoSecret)
  <2>2. /\ secret' = [secret EXCEPT !["responder"][m.sid] = TheSecret]
        /\ state' = [state EXCEPT !["responder"][m.sid] = "active"]
        /\ msgs' = (msgs \ {m}) \cup {ready}
        /\ UNCHANGED <<caller, keys, encaps>>
    <3>1. [m.secret EXCEPT !.own = keys[m.sid]] = TheSecret
      BY <2>1 DEF TheSecret
    <3> QED
      BY <1>0, <1>6, <3>1 DEF handle_key_confirm
  <2>3. ready.type = "READY" /\ ready.sid = m.sid
    BY DEF Msg
  <2>4. /\ secret'["responder"][m.sid] = TheSecret
        /\ \A sid \in Sessions :
             /\ secret'["initiator"][sid] = secret["initiator"][sid]
             /\ sid # m.sid => /\ secret'["responder"][sid] = secret["responder"][sid]
                               /\ \A side \in Sides : state'[side][sid] = state[side][sid]
    BY <1>0, <2>1, <2>2
  <2>5. ASSUME NEW sid \in Sessions PROVE SessionOnce(sid)'
    BY <1>00, <2>1, <2>2, <2>4 DEF SessionOnce
  <2>6. ASSUME NEW n \in msgs' PROVE PacketOnce(n)'
    <3>1. CASE n \in msgs
      <4>1. n.sid \in Sessions
        BY <1>0, <3>1
      <4> QED
        BY <1>00, <2>2, <2>4, <3>1, <4>1 DEF PacketOnce
    <3>2. CASE n = ready
      BY <2>3, <2>4, <3>2 DEF PacketOnce
    <3> QED
      BY <2>2, <3>1, <3>2
  <2> QED
    BY <1>00, <2>2, <2>3, <2>5, <2>6 DEF OnceInv, Untouched
<1>7. ASSUME NEW m \in msgs, handle_ready(m) \/ handle_close(m) PROVE OnceInv'
  <2>1. msgs' \subseteq msgs /\ UNCHANGED <<caller, secret, keys, encaps>>
    BY <1>0, <1>7 DEF handle_ready, handle_close
  <2>2. ASSUME NEW side \in Sides, NEW sid \in Sessions, state'[side][sid] = "active"
        PROVE  secret["responder"][sid] = TheSecret
    <3>1. CASE handle_ready(m)
      <4>1. secret["responder"][m.sid] = TheSecret
        BY <1>00, <3>1 DEF handle_ready, PacketOnce
      <4>2. sid # m.sid => state[side][sid] = "active"
        BY SMTT(90), <1>0, <2>2, <3>1 DEF handle_ready
      <4> QED
        BY <1>00, <4>1, <4>2 DEF SessionOnce
    <3>2. CASE handle_close(m)
      <4>1. state[side][sid] = "active"
        BY SMTT(90), <1>0, <2>2, <3>2 DEF handle_close
      <4> QED
        BY SMTT(90), <1>00, <4>1 DEF SessionOnce
    <3> QED
      BY SMTT(90), <1>7, <3>1, <3>2
  <2>3. \A sid \in Sessions : SessionOnce(sid)'
    BY SMTT(90), <1>00, <2>1, <2>2 DEF SessionOnce
  <2> QED
    BY <2>1, <2>3 DEF OnceInv, Untouched, PacketOnce
<1>8. ASSUME NEW side \in Sides, NEW sid \in Sessions, close_expired_session(side, sid)
      PROVE  OnceInv'
  <2> DEFINE close == Msg("CLOSE", Peer(side), sid, secret[side][sid])
  <2>1. msgs' = msgs \cup {close} /\ UNCHANGED <<caller, secret, keys, encaps>>
    BY <1>8 DEF close_expired_session
  <2>2. close.type = "CLOSE" /\ close.sid = sid
    BY DEF Msg
  <2>3. keys[sid] = 1
    BY <1>00, <1>8 DEF close_expired_session, SessionOnce
  <2>4. \A sd \in Sides, sn \in Sessions : state'[sd][sn] = "active" => state[sd][sn] = "active"
    BY SMTT(90), <1>0, <1>8 DEF close_expired_session
  <2>5. \A sn \in Sessions : SessionOnce(sn)'
    BY SMTT(90), <1>00, <2>1, <2>4 DEF SessionOnce
  <2>6. \A n \in msgs' : PacketOnce(n)'
    BY SMTT(90), <1>00, <2>1, <2>2 DEF PacketOnce
  <2> QED
    BY <2>1, <2>2, <2>3, <2>5, <2>6 DEF OnceInv, Untouched
<1>9. CASE UNCHANGED vars
  BY SMTT(90), <1>9 DEF vars, OnceInv, Untouched, SessionOnce, PacketOnce
<1> QED
  BY <1>1, <1>2, <1>3, <1>4, <1>5, <1>6, <1>7, <1>8, <1>9 DEF Next, CallerStep

\* The once-only invariant holds where no packet arrives twice.
LEMMA OnceAlways == ASSUME Duplicating = FALSE PROVE Spec => [](TypeOK /\ OnceInv)
<1>1. Init => OnceInv
  <2> SUFFICES ASSUME Init PROVE OnceInv
    OBVIOUS
  <2>1. \A c \in Callers : caller[c].ep = 0
    BY DEF Init
  <2>2. \A c \in Callers, ep \in 1..Endpoints : <<c, ep>> \in Sessions
    BY DEF Sessions
  <2>3. NoSecret # TheSecret
    BY DEF NoSecret, TheSecret
  <2>4. ASSUME NEW sid \in Sessions PROVE SessionOnce(sid)
    BY <2>3, Members DEF Init, SessionOnce
  <2> QED
    BY <2>1, <2>2, <2>4 DEF Init, OnceInv, Untouched
<1>2. TypeOK /\ OnceInv /\ [Next]_vars => OnceInv'
  BY OnceStep
<1> QED
  BY <1>1, <1>2, TypeCorrect, PTL DEF Spec

\* Where no packet arrives twice, both sides of an active session hold the
\* same secret, for any number of calls, endpoints, losses and timeouts.
THEOREM KeysAgree == ASSUME Duplicating = FALSE PROVE Spec => []ActiveKeysAgree
<1>1. OnceInv => ActiveKeysAgree
  BY DEF OnceInv, SessionOnce, ActiveKeysAgree
<1> QED
  BY <1>1, OnceAlways, PTL

\* Where no packet arrives twice, no late or reordered handshake message takes
\* an established session back to the handshake.
THEOREM StaysEstablished == ASSUME Duplicating = FALSE PROVE Spec => NeverBackToPending
<1>1. ASSUME TypeOK, OnceInv, [Next]_vars,
             NEW side \in Sides, NEW sid \in Sessions, state[side][sid] = "active"
      PROVE  state'[side][sid] \in {"active", "closed"}
  <2>0. /\ state \in [Sides -> [Sessions -> States]]
        /\ \A m \in msgs : m.sid \in Sessions /\ m.to \in Sides
        /\ keys[sid] = 1 /\ encaps[sid] = 1
    BY SMTT(90), <1>1, PacketFields DEF TypeOK, OnceInv, SessionOnce
  <2>1. ASSUME NEW c \in Callers, CallerStep(c) PROVE state'[side][sid] \in {"active", "closed"}
    <3>1. \A ep \in 1..Endpoints : ep = caller[c].ep + 1 => sid # <<c, ep>>
      <4>1. caller[c].ep \in 0..Endpoints
        BY <1>1 DEF TypeOK, Calls
      <4> QED
        BY <1>1, <2>0, <4>1, HandshakeAssumption DEF OnceInv, Untouched
    <3>2. FailedAttempt(c)[sid] \in {"active", "closed"} \/ FailedAttempt(c)[sid] = state["initiator"][sid]
      BY <2>0, Members DEF FailedAttempt
    <3>3. ASSUME NEW ep \in Nat \ {0}, ep = caller[c].ep + 1,
                 NEW states \in {state["initiator"], FailedAttempt(c)},
                 TryEndpoint(c, ep, states)
          PROVE  state'[side][sid] \in {"active", "closed"}
      <4>1. states \in [Sessions -> States]
        BY SMTT(90), <2>0, Members DEF FailedAttempt
      <4>2. side = "initiator" => states[sid] \in {"active", "closed"}
        BY <1>1, <3>2, <3>3
      <4>3. CASE ep <= Endpoints
        BY <1>1, <2>0, <3>1, <3>3, <4>1, <4>2, <4>3, HandshakeAssumption DEF TryEndpoint
      <4>4. CASE ~(ep <= Endpoints)
        BY <1>1, <2>0, <3>3, <4>2, <4>4 DEF TryEndpoint
      <4> QED
        BY <4>3, <4>4
    <3>4. caller[c].ep \in Nat /\ (caller[c].pc = "loading" => caller[c].ep = 0)
      BY <1>1, HandshakeAssumption DEF TypeOK, Calls, OnceInv
    <3>5. CASE start_session(c) \/ init_sent(c) \/ activation_seen(c)
      BY <1>1, <3>5 DEF start_session, init_sent, activation_seen
    <3>6. CASE descriptor_loaded(c)
      BY <1>1, <3>3, <3>4, <3>6 DEF descriptor_loaded
    <3>7. CASE init_send_raises(c) \/ activation_fails(c)
      BY <3>3, <3>4, <3>7 DEF init_send_raises, activation_fails
    <3> QED
      BY <2>1, <3>5, <3>6, <3>7 DEF CallerStep
  <2>2. ASSUME NEW m \in msgs, handle_init(m) \/ handle_close(m)
        PROVE  state'[side][sid] \in {"active", "closed"}
    <3>1. CASE handle_init(m)
      BY SMTT(90), <1>1, <2>0, <3>1 DEF handle_init
    <3>2. CASE handle_close(m)
      BY <1>1, <2>0, <3>2 DEF handle_close
    <3> QED
      BY SMTT(90), <2>2, <3>1, <3>2
  <2>3. ASSUME NEW m \in msgs, handle_init_ok(m)
        PROVE  state'[side][sid] \in {"active", "closed"}
    <3>1. sid # m.sid
      BY <1>1, <2>0, <2>3 DEF handle_init_ok, OnceInv, PacketOnce
    <3> QED
      BY SMTT(90), <1>1, <2>0, <2>3, <3>1 DEF handle_init_ok
  <2>4. ASSUME NEW m \in msgs, handle_key_confirm(m) \/ handle_ready(m)
        PROVE  state'[side][sid] \in {"active", "closed"}
    BY <1>1, <2>0, <2>4 DEF handle_key_confirm, handle_ready
  <2>5. ASSUME NEW sd \in Sides, NEW sn \in Sessions, close_expired_session(sd, sn)
        PROVE  state'[side][sid] \in {"active", "closed"}
    BY <1>1, <2>0, <2>5 DEF close_expired_session
  <2>6. CASE UNCHANGED vars
    BY <1>1, <2>6 DEF vars
  <2> QED
    BY SMTT(90), <1>1, <2>1, <2>2, <2>3, <2>4, <2>5, <2>6 DEF Next
<1>2. TypeOK /\ OnceInv /\ [Next]_vars
        => [\A side \in Sides, sid \in Sessions :
              state[side][sid] = "active" => state'[side][sid] \in {"active", "closed"}]_vars
  BY <1>1
<1> QED
  BY <1>2, OnceAlways, PTL DEF Spec, NeverBackToPending
=============================================================================
