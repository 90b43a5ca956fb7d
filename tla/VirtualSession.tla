--------------------------- MODULE VirtualSession ---------------------------
(***************************************************************************)
(* Virtual sessions between virtual nodes, over ROUTE_DATA.                *)
(*                                                                         *)
(* Every caller v is a local virtual node on some physical node that opens *)
(* a session to the one virtual node whose routes RouteExecute describes.  *)
(* It tries the entry points it found in the DRT one after the other; the  *)
(* attempt over entry point k has the session id <<v, k>>.  The two sides  *)
(* of a session are "c" at the caller and "t" at the host of the target.   *)
(*                                                                         *)
(* A secret is <<e, k>>: the k-th encapsulation against the e-th ephemeral *)
(* key of the responder.  Signatures always verify.                        *)
(***************************************************************************)
EXTENDS RouteExecute

CONSTANTS
    Target,      \* the physical node that hosts the target virtual node
    Scenarios    \* what a behaviour may start from, see setup

ASSUME TargetAssumption == \A r \in Routes : Host(r) = Target

\* Callers are on other nodes than the target and have a session id for each
\* entry point; a session that is active at the start is over the first one;
\* every fault has a bound.
ASSUME ScenariosAssumption ==
    \A x \in Scenarios :
        /\ \A v \in DOMAIN x.callers :
             /\ x.callers[v].node \in Nodes \ {Target}
             /\ x.callers[v].entries \in Seq(Routes)
             /\ \A k \in 1..Len(x.callers[v].entries) : <<v, k>> \in Sids
        /\ \A s \in x.established :
             \E v \in DOMAIN x.callers : s = <<v, 1>> /\ x.callers[v].entries # <<>>
        /\ x.faults \in [{"lose", "dup", "restart", "invalidate", "close"} -> Nat]

\* No secret is taken for plaintext.
ASSUME NoKeyAssumption == NoKey \notin Nat \X Nat

VARIABLES
    setup,     \* never changes: callers, each caller's [node, entries]; established,
               \* the sessions active at the start; faults, a bound on the number
               \* of each fault; keepalives, a bound on keepalives; wanting, the
               \* callers that want the content; repeating, those that may ask for
               \* it again; held, whether the target has it; storing, the nodes
               \* whose API may store it
    sess,      \* sess[s][side]: [state, secret, eph, bound]
    caller,    \* caller[v]: [pc, attempt, sid] of start_session_to_virtual_node
    faults,    \* faults[f]: how often fault f happened
    sent       \* keepalives sent so far

routeVars == <<rows, ingress, packets>>
sessionVars == <<setup, sess, caller, faults, sent>>

Callers == DOMAIN setup.callers
Node(s) == setup.callers[s[1]].node
Entries(v) == setup.callers[v].entries
\* The route a caller's session is bound to.
RouteOf(s) == Entries(s[1])[s[2]]
\* Sessions that the callers of this behaviour may open.
Sessions == {s \in Sids : s[1] \in Callers /\ s[2] \in 1..Len(Entries(s[1]))}

NoSide == [state |-> "none", secret |-> NoKey, eph |-> 0, bound |-> <<>>]
SideAt(n, s) == IF n = Target THEN "t" ELSE "c"
\* get_session_by_session_id at node n.
SessionAt(n, s) == IF n \in {Target, Node(s)} THEN sess[s][SideAt(n, s)] ELSE NoSide

Body(type, val) == [type |-> type, val |-> val, data |-> <<>>]
NoBody == Body("none", <<>>)
Outcome(side, reply) == {[side |-> side, reply |-> reply]}
----------------------------------------------------------------------------
(* Handlers.  s is the session of the receiving node; a handler returns    *)
(* the session and the reply it leaves, or nothing when the message is     *)
(* invalid.                                                                *)

\* An existing session keeps its state and binding, and only gets a new
\* ephemeral key.
_handle_virtual_session_init(n, s, p) ==
    LET new == IF s.state = "none"
               THEN [NoSide EXCEPT !.state = "pending", !.eph = 1, !.bound = p.path]
               ELSE [s EXCEPT !.eph = @ + 1]
    IN  IF n # Target THEN {} ELSE Outcome(new, Body("INIT_OK", <<new.eph>>))

\* Mutant: the secret kept is not the one sent.
init_ok_encapsulates_twice(s, p) ==
    IF s.state = "none" THEN {}
    ELSE Outcome([s EXCEPT !.secret = <<p.body.val[1], s.eph + 2>>, !.eph = @ + 2,
                           !.state = "pending"],
                 Body("KEY_CONFIRM", <<p.body.val[1], s.eph + 1>>))

\* eph counts the encapsulations at the caller.  There is no look at the
\* state: a late INIT_OK takes a closed or an active session to pending.
_handle_virtual_session_init_ok(s, p) ==
    LET secret == <<p.body.val[1], s.eph + 1>>
    IN  IF s.state = "none" THEN {}
        ELSE Outcome([s EXCEPT !.secret = secret, !.eph = @ + 1, !.state = "pending"],
                     Body("KEY_CONFIRM", secret))

\* Decapsulation with another key than the one the secret was made for gives
\* a different secret.
_handle_virtual_session_key_confirm(s, p) ==
    LET secret == IF p.body.val[1] = s.eph THEN p.body.val
                  ELSE <<p.body.val[1], p.body.val[2], s.eph>>
    IN  IF s.state = "none" \/ s.eph = 0 THEN {}
        ELSE Outcome([s EXCEPT !.secret = secret, !.state = "active"], Body("READY", <<>>))

_handle_virtual_session_ready(s, p) ==
    IF s.secret = NoKey THEN {} ELSE Outcome([s EXCEPT !.state = "active"], NoBody)

_handle_virtual_session_keepalive(s, p) ==
    IF s.state = "none" THEN {} ELSE Outcome(s, Body("KEEPALIVE_ACK", <<>>))

_handle_virtual_session_keepalive_ack(s, p) ==
    IF s.state = "none" THEN {} ELSE Outcome(s, NoBody)

_handle_virtual_session_close(s, p) ==
    IF s.state = "none" THEN {} ELSE Outcome([s EXCEPT !.state = "closed"], NoBody)

SessionMessages == {"INIT", "INIT_OK", "KEY_CONFIRM", "READY", "KEEPALIVE",
                    "KEEPALIVE_ACK", "CLOSE"}

HandleSessionMessage(n, s, p) ==
    CASE p.body.type = "INIT" -> _handle_virtual_session_init(n, s, p)
      [] p.body.type = "INIT_OK" -> _handle_virtual_session_init_ok(s, p)
      [] p.body.type = "KEY_CONFIRM" -> _handle_virtual_session_key_confirm(s, p)
      [] p.body.type = "READY" -> _handle_virtual_session_ready(s, p)
      [] p.body.type = "KEEPALIVE" -> _handle_virtual_session_keepalive(s, p)
      [] p.body.type = "KEEPALIVE_ACK" -> _handle_virtual_session_keepalive_ack(s, p)
      [] p.body.type = "CLOSE" -> _handle_virtual_session_close(s, p)

\* An encrypted envelope needs the active session with the same secret.
_resolve_local_virtual_envelope(p) ==
    LET s == SessionAt(p.at, p.sid)
    IN  p.key = NoKey \/ (s.state = "active" /\ s.secret = p.key)

\* The handler's outcome o is applied and its reply sent back, unless there
\* is no way back or the session can no longer encrypt: then the changes of
\* the handler stay and the reply is dropped.
_deliver_local_route_data(p, o, rest) ==
    LET n == p.at
        entry == IF n = Target THEN NoNode ELSE EntryPoint(RouteOf(p.sid))
        contexts == _resolve_local_reply_context(n, p.path, o.side.bound, entry)
        key == IF p.key = NoKey THEN NoKey ELSE o.side.secret
        silent == \/ o.reply = NoBody \/ contexts = {}
                  \/ p.key # NoKey /\ o.side.state # "active"
    IN  /\ sess' = [sess EXCEPT ![p.sid][SideAt(n, p.sid)] = o.side]
        /\ packets' = rest \cup
             IF silent THEN {}
             ELSE {RouteData(n, c, _opposite_route_direction(p.dir), p.sid, key, o.reply) :
                     c \in contexts}
        /\ UNCHANGED <<rows, ingress, setup, caller, sent>>
----------------------------------------------------------------------------
(* Clients.                                                                *)

\* A message from node n over its active session s; nothing is sent when
\* the host no longer has the route (the call raises).
_send_virtual_envelope(n, s, type, rest) ==
    LET side == SessionAt(n, s)
    IN  rest \cup
        IF n = Target
        THEN {RouteData(n, h, "vn_to_pn", s, side.secret, Body(type, <<>>)) :
                h \in send_from_local_route(n, side.bound)}
        ELSE {RouteData(n, send_to_entry_point(n, RouteOf(s)), "pn_to_vn", s,
                        side.secret, Body(type, <<>>))}

SetCaller(v, pc, attempt, sid) ==
    caller' = [caller EXCEPT ![v] = [pc |-> pc, attempt |-> attempt, sid |-> sid]]

\* The DRT lookup finds the entry points or gives up.
start_session_to_virtual_node(v) ==
    /\ caller[v].pc = "idle"
    /\ SetCaller(v, "trying", 1, <<>>) \/ SetCaller(v, "raised", 0, <<>>)
    /\ UNCHANGED <<routeVars, setup, sess, faults, sent>>

_get_active_virtual_session(v) ==
    {s \in Sessions : s[1] = v /\ sess[s]["c"].state = "active"}

\* The node of the next entry point is not known and cannot be found in the
\* DHT, or its record is not valid: the loop goes on with the next one.
_ensure_entry_point_physical_node(v) ==
    LET k == caller[v].attempt
    IN  /\ caller[v].pc = "trying" /\ k <= Len(Entries(v))
        /\ SetCaller(v, "trying", k + 1, <<>>)
        /\ UNCHANGED <<routeVars, setup, sess, faults, sent>>

\* The next entry point of the loop, if any: a session of the pair is active
\* already; the session is created and its INIT cannot be sent; or the INIT
\* goes out.
_start_session_over_entry_point(v) ==
    LET k == caller[v].attempt
        s == <<v, k>>
        hop == send_to_entry_point(Node(s), RouteOf(s))
        pending == [NoSide EXCEPT !.state = "pending", !.bound = FinalPath(RouteOf(s))]
    IN  /\ caller[v].pc = "trying"
        /\ \/ /\ k > Len(Entries(v))
              /\ SetCaller(v, "raised", k, <<>>)
              /\ UNCHANGED <<sess, packets>>
           \/ /\ k <= Len(Entries(v)) /\ _get_active_virtual_session(v) # {}
              /\ \E a \in _get_active_virtual_session(v) : SetCaller(v, "returned", k, a)
              /\ UNCHANGED <<sess, packets>>
           \/ /\ k <= Len(Entries(v)) /\ _get_active_virtual_session(v) = {}
              /\ SetCaller(v, "trying", k + 1, <<>>)
              /\ sess' = [sess EXCEPT ![s]["c"] = [pending EXCEPT !.state = "closed"]]
              /\ UNCHANGED packets
           \/ /\ k <= Len(Entries(v)) /\ _get_active_virtual_session(v) = {}
              /\ SetCaller(v, "waiting", k, s)
              /\ sess' = [sess EXCEPT ![s]["c"] = pending]
              /\ packets' = packets \cup
                   {RouteData(Node(s), hop, "pn_to_vn", s, NoKey, Body("INIT", <<>>))}
        /\ UNCHANGED <<rows, ingress, setup, faults, sent>>

\* Mutant: the wait ends only when the session became active or closed.
wait_without_deadline(v) ==
    LET s == caller[v].sid
    IN  /\ caller[v].pc = "waiting"
        /\ sess[s]["c"].state \in {"active", "closed"}
        /\ IF sess[s]["c"].state = "active" THEN SetCaller(v, "returned", s[2], s)
           ELSE SetCaller(v, "trying", s[2] + 1, <<>>)
        /\ UNCHANGED <<routeVars, setup, sess, faults, sent>>

\* Polling until the deadline, which may strike at any time; a session that
\* is not active by then is closed (close_failed_handshake_session).
_wait_for_activation(v) ==
    LET s == caller[v].sid
        state == sess[s]["c"].state
    IN  /\ caller[v].pc = "waiting"
        /\ \/ /\ state = "active"
              /\ SetCaller(v, "returned", s[2], s)
              /\ UNCHANGED sess
           \/ /\ SetCaller(v, "trying", s[2] + 1, <<>>)
              /\ sess' = IF state = "active" THEN sess
                         ELSE [sess EXCEPT ![s]["c"].state = "closed"]
        /\ UNCHANGED <<routeVars, setup, faults, sent>>

\* Either side may send a keepalive over an active session.
send_keepalive(n, s) ==
    /\ sent < setup.keepalives
    /\ sent' = sent + 1
    /\ SessionAt(n, s).state = "active"
    /\ packets' = _send_virtual_envelope(n, s, "KEEPALIVE", packets)
    /\ UNCHANGED <<rows, ingress, setup, sess, caller, faults>>

Happens(f) ==
    /\ faults[f] < setup.faults[f]
    /\ faults' = [faults EXCEPT ![f] = @ + 1]

\* Mutant: the session is closed first, and cannot encrypt the CLOSE.
close_before_sending(v) ==
    LET s == caller[v].sid
    IN  /\ caller[v].pc = "returned" /\ sess[s]["c"].state = "active"
        /\ Happens("close")
        /\ SetCaller(v, "closing", s[2], s)
        /\ sess' = [sess EXCEPT ![s]["c"].state = "closed"]
        /\ UNCHANGED <<routeVars, setup, sent>>

\* The API of the caller first sends CLOSE, encrypted and so over an active
\* session only ...
close_session(v) ==
    LET s == caller[v].sid
    IN  /\ caller[v].pc = "returned" /\ sess[s]["c"].state = "active"
        /\ Happens("close")
        /\ SetCaller(v, "closing", s[2], s)
        /\ packets' = _send_virtual_envelope(Node(s), s, "CLOSE", packets)
        /\ UNCHANGED <<rows, ingress, setup, sess, sent>>

\* ... and, when that call returned, closes the session locally.
close_virtual_session(v) ==
    LET s == caller[v].sid
    IN  /\ caller[v].pc = "closing"
        /\ SetCaller(v, "closed", s[2], s)
        /\ sess' = [sess EXCEPT ![s]["c"].state = "closed"]
        /\ UNCHANGED <<routeVars, setup, faults, sent>>

\* The packet p is lost: a forward without a session, a failed send.
Lose(p) ==
    /\ Happens("lose")
    /\ packets' = packets \ {p}
    /\ UNCHANGED <<rows, ingress, setup, sess, caller, sent>>

\* What remains of the packets when p is handled: the retry of
\* forward_message_to_remote_physical_node may bring p a second time.
Rests(p) == {packets \ {p}} \cup IF faults["dup"] < setup.faults["dup"] THEN {packets} ELSE {}
Duplicated(p, rest) ==
    faults' = IF p \in rest THEN [faults EXCEPT !["dup"] = @ + 1] ELSE faults
=============================================================================
