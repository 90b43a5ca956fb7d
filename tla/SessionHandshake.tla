-------------------------- MODULE SessionHandshake --------------------------
(***************************************************************************)
(* Establishing physical sessions between two nodes: callers of            *)
(* start_session at the initiator try the responder's endpoints in turn,   *)
(* each with a new session; INIT, INIT_OK, KEY_CONFIRM and READY carry the *)
(* key exchange; timeouts, closures and late messages interleave with it.  *)
(*                                                                         *)
(* A session id is the pair of the caller and the endpoint it tries.  Keys *)
(* and encapsulations are counters; a shared secret is known by the key    *)
(* that decapsulated, and the key and the number of the encapsulation: the *)
(* KEM answers a ciphertext made for another key with an unrelated secret. *)
(***************************************************************************)
EXTENDS Integers, FiniteSets

CONSTANTS
    Callers,         \* concurrent calls of start_session
    Endpoints,       \* number of known endpoints of the responder
    Transport,       \* their transports, in the order of preference
    WrongEndpoints,  \* endpoints answered by a node with another identity
    Duplicating,     \* TRUE when the network (UDP) may duplicate packets
    MaxKeys          \* bound: ephemeral keys and encapsulations per session

ASSUME HandshakeAssumption ==
    /\ Endpoints \in Nat \ {0} /\ MaxKeys \in Nat \ {0}
    /\ Transport \in [1..Endpoints -> {"tcp", "relay_tcp", "udp"}]
    /\ WrongEndpoints \subseteq 1..Endpoints
    /\ Duplicating \in BOOLEAN

Sides == {"initiator", "responder"}
Peer(side) == IF side = "initiator" THEN "responder" ELSE "initiator"
Sessions == Callers \X (1..Endpoints)
NoSecret == [own |-> 0, key |-> 0, enc |-> 0]

VARIABLES
    caller,    \* progress of each start_session call
    state,     \* session_state of each session, at each side
    secret,    \* shared_secret_hex of each session, at each side
    keys,      \* ephemeral key pairs the responder generated so far
    encaps,    \* encapsulations the initiator made so far
    msgs       \* packets on the network

vars == <<caller, state, secret, keys, encaps, msgs>>

Init ==
    /\ caller = [c \in Callers |-> [pc |-> "start", ep |-> 0, existing |-> {}]]
    /\ state = [side \in Sides |-> [sid \in Sessions |-> "none"]]
    /\ secret = [side \in Sides |-> [sid \in Sessions |-> NoSecret]]
    /\ keys = [sid \in Sessions |-> 0]
    /\ encaps = [sid \in Sessions |-> 0]
    /\ msgs = {}

Msg(type, to, sid, sec) == [type |-> type, to |-> to, sid |-> sid, secret |-> sec]
KeyOf(k) == [own |-> 0, key |-> k, enc |-> 0]

\* A packet is consumed, unless the network may bring it again.
Consumed(m) == IF Duplicating THEN msgs ELSE msgs \ {m}

-----------------------------------------------------------------------------
(* The initiator's client.                                                 *)

_transport_preference(t) == CASE t = "tcp" -> 0 [] t = "relay_tcp" -> 1 [] OTHER -> 2
Preference(sid) == _transport_preference(Transport[sid[2]])

_get_preferred_active_session ==
    LET live == {sid \in Sessions : state["initiator"][sid] = "active"}
    IN  {sid \in live : \A other \in live : Preference(sid) <= Preference(other)}

\* Mutant: one endpoint too many is tried.
try_one_too_many(c, ep, states) ==
    /\ ep <= Endpoints + 1
    /\ caller' = [caller EXCEPT ![c] = [pc |-> "sending", ep |-> ep, existing |-> {}]]
    /\ state' = [state EXCEPT !["initiator"] = states]
    /\ UNCHANGED msgs

\* Creates the session for the next endpoint and sends INIT, or raises.
TryEndpoint(c, ep, states) ==
    IF ep <= Endpoints
    THEN /\ caller' = [caller EXCEPT ![c] = [pc |-> "sending", ep |-> ep, existing |-> {}]]
         /\ state' = [state EXCEPT !["initiator"] =
                        [states EXCEPT ![<<c, ep>>] = "pending"]]
         /\ msgs' = msgs \cup {Msg("INIT", "responder", <<c, ep>>, NoSecret)}
    ELSE /\ caller' = [caller EXCEPT ![c].pc = "raised"]
         /\ state' = [state EXCEPT !["initiator"] = states]
         /\ UNCHANGED msgs

\* An active session over a transport better than UDP is reused at once;
\* otherwise the candidate found is remembered while the node's descriptor
\* is loaded.
start_session(c) ==
    /\ caller[c].pc = "start"
    /\ \E found \in IF _get_preferred_active_session = {} THEN {{}}
                    ELSE {{sid} : sid \in _get_preferred_active_session} :
          LET reuse == \E sid \in found : Preference(sid) < _transport_preference("udp")
          IN  caller' = [caller EXCEPT ![c].pc = IF reuse THEN "returned" ELSE "loading",
                                       ![c].existing = found]
    /\ UNCHANGED <<state, secret, keys, encaps, msgs>>

\* The descriptor is loaded: the remembered session, whatever became of it,
\* is returned if every endpoint is UDP; else the first endpoint is tried.
descriptor_loaded(c) ==
    /\ caller[c].pc = "loading"
    /\ IF caller[c].existing # {} /\ \A ep \in 1..Endpoints : Transport[ep] = "udp"
       THEN /\ caller' = [caller EXCEPT ![c].pc = "returned"]
            /\ UNCHANGED <<state, msgs>>
       ELSE TryEndpoint(c, 1, state["initiator"])
    /\ UNCHANGED <<secret, keys, encaps>>

init_sent(c) ==
    /\ caller[c].pc = "sending"
    /\ caller' = [caller EXCEPT ![c].pc = "waiting"]
    /\ UNCHANGED <<state, secret, keys, encaps, msgs>>

\* Mutant: the failed session is made pending again, active or not.
failed_attempt_reset(c) == [state["initiator"] EXCEPT ![<<c, caller[c].ep>>] = "pending"]

\* close_failed_handshake_session: an active session is left alone.
FailedAttempt(c) ==
    [state["initiator"] EXCEPT ![<<c, caller[c].ep>>] =
        IF @ = "active" THEN @ ELSE "closed"]

init_send_raises(c) ==
    /\ caller[c].pc = "sending"
    /\ TryEndpoint(c, caller[c].ep + 1, FailedAttempt(c))
    /\ UNCHANGED <<secret, keys, encaps>>

\* The poll finds the session active, also at the deadline itself.
activation_seen(c) ==
    /\ caller[c].pc = "waiting"
    /\ state["initiator"][<<c, caller[c].ep>>] = "active"
    /\ caller' = [caller EXCEPT ![c].pc = "returned"]
    /\ UNCHANGED <<state, secret, keys, encaps, msgs>>

\* Mutant: the endpoint that failed is tried again.
activation_fails_retries(c) ==
    /\ caller[c].pc = "waiting"
    /\ state["initiator"][<<c, caller[c].ep>>] # "active"
    /\ TryEndpoint(c, caller[c].ep, FailedAttempt(c))
    /\ UNCHANGED <<secret, keys, encaps>>

\* The deadline passes, or the poll finds the session closed.
activation_fails(c) ==
    /\ caller[c].pc = "waiting"
    /\ state["initiator"][<<c, caller[c].ep>>] # "active"
    /\ TryEndpoint(c, caller[c].ep + 1, FailedAttempt(c))
    /\ UNCHANGED <<secret, keys, encaps>>

-----------------------------------------------------------------------------
(* The handlers.  None of them looks at the current session_state.         *)

handle_init(m) ==
    /\ m \in msgs /\ m.type = "INIT"
    /\ keys[m.sid] < MaxKeys
    /\ keys' = [keys EXCEPT ![m.sid] = @ + 1]
    /\ state' = [state EXCEPT !["responder"][m.sid] = IF @ = "none" THEN "pending" ELSE @]
    /\ msgs' = Consumed(m) \cup
         {Msg("INIT_OK", "initiator", m.sid, KeyOf(keys[m.sid] + 1))}
    /\ UNCHANGED <<caller, secret, encaps>>

\* Mutant: the initiator does not wait for READY.
handle_init_ok_activates(m) ==
    /\ m \in msgs /\ m.type = "INIT_OK"
    /\ encaps[m.sid] < MaxKeys
    /\ LET made == [own |-> m.secret.key, key |-> m.secret.key, enc |-> encaps[m.sid] + 1]
       IN  /\ encaps' = [encaps EXCEPT ![m.sid] = @ + 1]
           /\ secret' = [secret EXCEPT !["initiator"][m.sid] = made]
           /\ state' = [state EXCEPT !["initiator"][m.sid] = "active"]
           /\ msgs' = Consumed(m) \cup {Msg("KEY_CONFIRM", "responder", m.sid, made)}
    /\ UNCHANGED <<caller, keys>>

\* Either the signature is not that of the expected node and the session is
\* closed, or a new secret is encapsulated and the session is pending.
handle_init_ok(m) ==
    /\ m \in msgs /\ m.type = "INIT_OK"
    /\ encaps[m.sid] < MaxKeys
    /\ IF m.sid[2] \in WrongEndpoints
       THEN /\ state' = [state EXCEPT !["initiator"][m.sid] = "closed"]
            /\ msgs' = Consumed(m)
            /\ UNCHANGED <<secret, encaps>>
       ELSE LET made == [own |-> m.secret.key, key |-> m.secret.key,
                         enc |-> encaps[m.sid] + 1]
            IN  /\ encaps' = [encaps EXCEPT ![m.sid] = @ + 1]
                /\ secret' = [secret EXCEPT !["initiator"][m.sid] = made]
                /\ state' = [state EXCEPT !["initiator"][m.sid] = "pending"]
                /\ msgs' = Consumed(m) \cup {Msg("KEY_CONFIRM", "responder", m.sid, made)}
    /\ UNCHANGED <<caller, keys>>

\* Mutant: the secret is used but not stored.
handle_key_confirm_unstored(m) ==
    /\ m \in msgs /\ m.type = "KEY_CONFIRM"
    /\ keys[m.sid] # 0
    /\ state' = [state EXCEPT !["responder"][m.sid] = "active"]
    /\ msgs' = Consumed(m) \cup {Msg("READY", "initiator", m.sid, NoSecret)}
    /\ UNCHANGED <<caller, secret, keys, encaps>>

\* The responder decapsulates with its latest key and activates at once.
handle_key_confirm(m) ==
    /\ m \in msgs /\ m.type = "KEY_CONFIRM"
    /\ keys[m.sid] # 0
    /\ secret' = [secret EXCEPT !["responder"][m.sid] =
                    [m.secret EXCEPT !.own = keys[m.sid]]]
    /\ state' = [state EXCEPT !["responder"][m.sid] = "active"]
    /\ msgs' = Consumed(m) \cup {Msg("READY", "initiator", m.sid, NoSecret)}
    /\ UNCHANGED <<caller, keys, encaps>>

handle_ready(m) ==
    /\ m \in msgs /\ m.type = "READY"
    /\ secret["initiator"][m.sid] # NoSecret
    /\ state' = [state EXCEPT !["initiator"][m.sid] = "active"]
    /\ msgs' = Consumed(m)
    /\ UNCHANGED <<caller, secret, keys, encaps>>

\* The keepalive deadline passed: CLOSE is sent under the session's secret
\* and the session is closed whatever happened while the send was awaited.
close_expired_session(side, sid) ==
    /\ state[side][sid] = "active"
    /\ state' = [state EXCEPT ![side][sid] = "closed"]
    /\ msgs' = msgs \cup {Msg("CLOSE", Peer(side), sid, secret[side][sid])}
    /\ UNCHANGED <<caller, secret, keys, encaps>>

\* CLOSE only gets through to an active session with the same secret; any
\* other packet that cannot be used is dropped by the engine.
handle_close(m) ==
    /\ m \in msgs /\ m.type = "CLOSE"
    /\ msgs' = Consumed(m)
    /\ state' = [state EXCEPT ![m.to][m.sid] =
                   IF @ = "active" /\ secret[m.to][m.sid] = m.secret THEN "closed" ELSE @]
    /\ UNCHANGED <<caller, secret, keys, encaps>>

-----------------------------------------------------------------------------
Done == \A c \in Callers : caller[c].pc \in {"returned", "raised"}

CallerStep(c) ==
    \/ start_session(c) \/ descriptor_loaded(c)
    \/ init_sent(c) \/ init_send_raises(c)
    \/ activation_seen(c) \/ activation_fails(c)

Next ==
    \/ \E c \in Callers : CallerStep(c)
    \/ \E m \in msgs : handle_init(m)
    \/ \E m \in msgs : handle_init_ok(m)
    \/ \E m \in msgs : handle_key_confirm(m)
    \/ \E m \in msgs : handle_ready(m)
    \/ \E m \in msgs : handle_close(m)
    \/ \E side \in Sides, sid \in Sessions : close_expired_session(side, sid)

Spec == Init /\ [][Next]_vars

\* Calls progress: loading and sending end, and the deadline passes.  Nothing
\* is assumed of the network.
FairSpec == Spec /\ \A c \in Callers : WF_vars(CallerStep(c))

-----------------------------------------------------------------------------
Secrets == [own : 0..MaxKeys, key : 0..MaxKeys, enc : 0..MaxKeys]
States == {"none", "pending", "active", "closed"}
Calls == [pc : {"start", "loading", "sending", "waiting", "returned", "raised"},
          ep : 0..Endpoints, existing : SUBSET Sessions]
Packets == [type : {"INIT", "INIT_OK", "KEY_CONFIRM", "READY", "CLOSE"},
            to : Sides, sid : Sessions, secret : Secrets]

\* Sessions, secrets and calls have the fields and states of the code, and
\* no call goes past the last known endpoint.
TypeOK ==
    /\ caller \in [Callers -> Calls]
    /\ state \in [Sides -> [Sessions -> States]]
    /\ secret \in [Sides -> [Sessions -> Secrets]]
    /\ keys \in [Sessions -> 0..MaxKeys]
    /\ encaps \in [Sessions -> 0..MaxKeys]
    /\ msgs \subseteq Packets

\* Traffic on an active session can always be encrypted: whichever message
\* activated it, late, early or repeated, a secret had been stored before.
ActiveHasSecret ==
    \A side \in Sides, sid \in Sessions :
        state[side][sid] = "active" => secret[side][sid] # NoSecret

\* Where packets arrive at most once, a session active at one side has the
\* same secret at both, whatever was lost, late, reordered or timed out.
\* The protocol's description asks it of every session: "established only
\* after the symmetric session key has been successfully created, delivered,
\* and confirmed".
ActiveKeysAgree ==
    \A side \in Sides, sid \in Sessions :
        state[side][sid] = "active" => secret["initiator"][sid] = secret["responder"][sid]

\* Where packets arrive at most once, an established session never falls
\* back to the handshake: it stays active or is closed.
NeverBackToPending ==
    [][\A side \in Sides, sid \in Sessions :
         state[side][sid] = "active" => state'[side][sid] \in {"active", "closed"}]_vars

\* Every call of start_session returns or raises, whatever the network does.
StartSessionTerminates == <>Done
=============================================================================
