-------------------------- MODULE SessionKeepalive --------------------------
(***************************************************************************)
(* Keeping an established physical session alive, and expiring it: the     *)
(* session runtime of both nodes scans the session, sends keepalives after *)
(* half an interval of silence and closes after a whole one; every packet  *)
(* encrypted or decrypted for the session counts as activity.              *)
(*                                                                         *)
(* Time is discrete.  The code compares time stamps only with the present  *)
(* and with each other, so a side keeps the time since last_activity_at    *)
(* (keepalive_deadline is that time stamp plus the interval) and whether   *)
(* last_keepalive_sent_at is at least last_activity_at.                    *)
(***************************************************************************)
EXTENDS Integers, FiniteSets

CONSTANTS
    Interval,    \* keepalive_interval_seconds, in ticks
    MaxDelay,    \* bound: ticks a packet is under way
    ScanPeriod,  \* bound: ticks between two scans of the session runtime
    Setups       \* the transports a behaviour may have, see setup

Sides == {"a", "b"}
Peer(side) == IF side = "a" THEN "b" ELSE "a"

ASSUME KeepaliveAssumption ==
    /\ Interval \in Nat \ {0} /\ MaxDelay \in Nat /\ ScanPeriod \in Nat \ {0}
    /\ Setups \subseteq [failing : BOOLEAN, observed : SUBSET Sides]

VARIABLES
    setup,   \* never changes: failing when sending over a cut link raises (TCP,
             \* relay); observed, the sides that know only the observed endpoint
             \* of the peer
    state,   \* session_state at each side
    idle,    \* ticks since last_activity_at, up to Interval
    asked,   \* last_keepalive_sent_at >= last_activity_at
    scan,    \* the runtime is between scans, or awaits the send of a packet
    since,   \* ticks since the last scan
    wire,    \* packets under way, with their age
    link     \* "healthy"; "disturbed" once a packet was lost, or once every side
             \* that sends keepalives was mute; or "cut" for good

vars == <<setup, state, idle, asked, scan, since, wire, link>>

Init ==
    /\ setup \in Setups
    /\ state = [side \in Sides |-> "active"]
    /\ idle = [side \in Sides |-> 0]
    /\ asked = [side \in Sides |-> FALSE]
    /\ scan = [side \in Sides |-> "idle"]
    /\ since = [side \in Sides |-> 0]
    /\ wire = {}
    /\ link = "healthy"

\* touch_session: the time stamp of the activity is later than any keepalive.
touch_session(side) ==
    /\ idle' = [idle EXCEPT ![side] = 0]
    /\ asked' = [asked EXCEPT ![side] = FALSE]

Packet(type, side) == [type |-> type, to |-> Peer(side), age |-> 0]
Transmitted(packets, type, side) ==
    IF link # "cut" THEN packets \cup {Packet(type, side)} ELSE packets

-----------------------------------------------------------------------------
(* The session runtime.                                                    *)

_can_send_session_message(side) == side \notin setup.observed
_should_close_session(side) == idle[side] >= Interval

\* Mutant: keepalives wait for a whole interval of silence.
keepalive_too_late(side) ==
    _can_send_session_message(side) /\ idle[side] >= Interval /\ ~asked[side]

_should_send_keepalive(side) ==
    _can_send_session_message(side) /\ 2 * idle[side] >= Interval /\ ~asked[side]

\* The send of an encrypted packet touches the session before the transport
\* is asked to send it.
SendFromScan(side, type, pc) ==
    /\ touch_session(side)
    /\ wire' = Transmitted(wire, type, side)
    /\ scan' = [scan EXCEPT ![side] = pc]
    /\ UNCHANGED <<state, since>>

\* Mutant: the session gets a state no other part of the code knows.
close_as_expired(side) ==
    /\ state' = [state EXCEPT ![side] = "expired"]
    /\ since' = [since EXCEPT ![side] = 0]
    /\ UNCHANGED <<idle, asked, wire, scan>>

_close_expired_session(side) ==
    IF _can_send_session_message(side)
    THEN SendFromScan(side, "CLOSE", "closing")
    ELSE /\ state' = [state EXCEPT ![side] = "closed"]
         /\ since' = [since EXCEPT ![side] = 0]
         /\ UNCHANGED <<idle, asked, wire, scan>>

_run_once(side) ==
    /\ scan[side] = "idle" /\ state[side] = "active"
    /\ IF _should_close_session(side) THEN _close_expired_session(side)
       ELSE IF _should_send_keepalive(side) THEN SendFromScan(side, "KEEPALIVE", "keepalive")
       ELSE /\ since' = [since EXCEPT ![side] = 0]
            /\ UNCHANGED <<state, idle, asked, wire, scan>>
    /\ UNCHANGED <<setup, link>>

\* Mutant: the keepalive is not marked as sent.
send_returns_unmarked(side) ==
    /\ scan[side] # "idle"
    /\ state' = [state EXCEPT ![side] = IF scan[side] = "closing" THEN "closed" ELSE @]
    /\ scan' = [scan EXCEPT ![side] = "idle"]
    /\ since' = [since EXCEPT ![side] = 0]
    /\ UNCHANGED <<setup, idle, asked, wire, link>>

\* A side is mute when it has marked a keepalive as sent and no answer is to
\* come: the answer was handled before the send returned.  It sends no other
\* keepalive until there is activity again.
Mute(side) ==
    /\ asked[side]
    /\ \A m \in wire : /\ ~(m.type = "KEEPALIVE" /\ m.to = Peer(side))
                      /\ ~(m.type = "KEEPALIVE_ACK" /\ m.to = side)

\* mark_keepalive_sent follows the send.  An expired session is closed after
\* the send of CLOSE, whatever happened meanwhile.
send_returns(side) ==
    /\ scan[side] # "idle"
    /\ IF scan[side] = "keepalive"
       THEN asked' = [asked EXCEPT ![side] = TRUE] /\ UNCHANGED state
       ELSE state' = [state EXCEPT ![side] = "closed"] /\ UNCHANGED asked
    /\ scan' = [scan EXCEPT ![side] = "idle"]
    /\ since' = [since EXCEPT ![side] = 0]
    /\ UNCHANGED <<setup, idle, wire>>
    /\ link' = IF link = "healthy" /\ \A s \in Sides \ setup.observed : Mute(s)'
               THEN "disturbed" ELSE link

\* A keepalive that cannot be sent is only logged.
send_raises(side) ==
    /\ scan[side] # "idle" /\ setup.failing /\ link = "cut"
    /\ state' = [state EXCEPT ![side] = IF scan[side] = "closing" THEN "closed" ELSE @]
    /\ scan' = [scan EXCEPT ![side] = "idle"]
    /\ since' = [since EXCEPT ![side] = 0]
    /\ UNCHANGED <<setup, idle, asked, wire, link>>

-----------------------------------------------------------------------------
(* Packets of the session.                                                 *)

\* Any other message of this node over the session: the traffic of the
\* application and the periodic exchange of node records, in any number.
app_sends(side) ==
    /\ state[side] = "active"
    /\ touch_session(side)
    /\ wire' = Transmitted(wire, "DATA", side)
    /\ UNCHANGED <<setup, state, scan, since, link>>

\* A message whose send raised: the engine's forwards and replies close the
\* session, the clients' requests (app_sends over a cut link) only fail.
app_send_fails(side) ==
    /\ setup.failing /\ link = "cut" /\ state[side] = "active"
    /\ touch_session(side)
    /\ state' = [state EXCEPT ![side] = "closed"]
    /\ UNCHANGED <<setup, scan, since, wire, link>>

Arrives(m, type) == m \in wire /\ m.type = type /\ UNCHANGED link

\* Mutant: a keepalive is answered whatever the state of the session.
handle_keepalive_unchecked(m) ==
    /\ Arrives(m, "KEEPALIVE")
    /\ touch_session(m.to)
    /\ wire' = Transmitted(wire \ {m}, "KEEPALIVE_ACK", m.to)
    /\ UNCHANGED <<setup, state, scan, since>>

\* Decrypting and answering both touch the session.  A session that is not
\* active cannot decrypt: the packet is dropped.
handle_keepalive(m) ==
    /\ Arrives(m, "KEEPALIVE")
    /\ IF state[m.to] = "active"
       THEN touch_session(m.to) /\ wire' = Transmitted(wire \ {m}, "KEEPALIVE_ACK", m.to)
       ELSE wire' = wire \ {m} /\ UNCHANGED <<idle, asked>>
    /\ UNCHANGED <<setup, state, scan, since>>

Decrypted(m) ==
    /\ wire' = wire \ {m}
    /\ IF state[m.to] = "active" THEN touch_session(m.to) ELSE UNCHANGED <<idle, asked>>

handle_keepalive_ack(m) ==
    /\ Arrives(m, "KEEPALIVE_ACK") /\ Decrypted(m)
    /\ UNCHANGED <<setup, state, scan, since>>

handle_data(m) ==
    /\ Arrives(m, "DATA") /\ Decrypted(m)
    /\ UNCHANGED <<setup, state, scan, since>>

handle_close(m) ==
    /\ Arrives(m, "CLOSE") /\ Decrypted(m)
    /\ state' = [state EXCEPT ![m.to] = "closed"]
    /\ UNCHANGED <<setup, scan, since>>

-----------------------------------------------------------------------------
(* The environment.                                                        *)

\* Time passes unless a packet, a send or a scan is due.
tick ==
    /\ \A m \in wire : m.age < MaxDelay
    /\ \A side \in Sides :
          scan[side] = "idle" /\ (state[side] = "active" => since[side] < ScanPeriod)
    /\ idle' = [side \in Sides |-> IF idle[side] < Interval THEN idle[side] + 1 ELSE Interval]
    /\ since' = [side \in Sides |->
                    IF since[side] < ScanPeriod THEN since[side] + 1 ELSE ScanPeriod]
    /\ wire' = {[m EXCEPT !.age = @ + 1] : m \in wire}
    /\ UNCHANGED <<setup, state, asked, scan, link>>

lose(m) ==
    /\ link' = "disturbed" /\ wire' = wire \ {m}
    /\ UNCHANGED <<setup, state, idle, asked, scan, since>>

interruption ==
    /\ link # "cut" /\ link' = "cut" /\ wire' = {}
    /\ UNCHANGED <<setup, state, idle, asked, scan, since>>

-----------------------------------------------------------------------------
Receive(m) ==
    handle_keepalive(m) \/ handle_keepalive_ack(m) \/ handle_data(m) \/ handle_close(m)

Next ==
    \/ \E side \in Sides : \/ _run_once(side) \/ send_returns(side)
                           \/ send_raises(side) \/ app_sends(side)
                           \/ app_send_fails(side)
    \/ \E m \in wire : handle_keepalive(m)
    \/ \E m \in wire : handle_keepalive_ack(m)
    \/ \E m \in wire : handle_data(m)
    \/ \E m \in wire : handle_close(m)
    \/ \E m \in wire : lose(m)
    \/ tick
    \/ interruption

Spec == Init /\ [][Next]_vars

\* The runtime loop never ends and swallows exceptions, sends end, packets
\* arrive or are lost, and time goes on.
FairSpec ==
    /\ Spec
    /\ \A side \in Sides : WF_vars(_run_once(side))
    /\ \A side \in Sides : WF_vars(send_returns(side) \/ send_raises(side))
    /\ WF_vars(\E m \in wire : Receive(m))
    /\ WF_vars(tick)

-----------------------------------------------------------------------------
\* The session is active or closed, time stamps are within an interval of
\* the present and no packet is older than MaxDelay.
TypeOK ==
    /\ state \in [Sides -> {"active", "closed"}]
    /\ idle \in [Sides -> 0..Interval]
    /\ asked \in [Sides -> BOOLEAN]
    /\ scan \in [Sides -> {"idle", "keepalive", "closing"}]
    /\ since \in [Sides -> 0..ScanPeriod]
    /\ wire \subseteq [type : {"KEEPALIVE", "KEEPALIVE_ACK", "CLOSE", "DATA"},
                       to : Sides, age : 0..MaxDelay]
    /\ link \in {"healthy", "disturbed", "cut"}

\* "the session remains active while the underlying communication context
\* remains healthy": while every packet arrives in time neither side expires
\* the session, however scans, keepalives, answers and traffic interleave,
\* and also when the answer to a keepalive overtakes the return of its send,
\* as long as this does not make every side that sends keepalives mute at
\* once.  With one such side a single overtaking answer is enough for that.
KeptAlive == link = "healthy" => \A side \in Sides : state[side] = "active"

\* "if the interruption persists beyond the keep-alive expiration interval,
\* the session is automatically considered expired": both sides close a
\* session whose link is cut, at least when nothing but the session runtime
\* sends over it any more.
InterruptedExpires ==
    (\A side \in Sides : <>[][~app_sends(side)]_vars)
        => (link = "cut" ~> \A side \in Sides : state[side] = "closed")

\* A side whose link is cut silently, so that sends do not raise, expires the
\* session although its own keepalives and its CLOSE touch it, once it sends
\* no other messages.  A side that goes on sending never does: each outbound
\* packet touches the session before it is sent.
SilentInterruptionExpires ==
    \A side \in Sides :
        <>[][~app_sends(side)]_vars
            => ((link = "cut" /\ ~setup.failing) ~> state[side] = "closed")

\* A session closed at one side does not live on at the other, even when
\* CLOSE is lost or never sent, once the other side sends no messages of its
\* own, unless its keepalives raise from then on.
SessionEndsAtBoth ==
    \A side \in Sides :
        <>[][~app_sends(Peer(side))]_vars
            => (state[side] = "closed"
                  ~> (state[Peer(side)] = "closed" \/ (setup.failing /\ link = "cut")))
=============================================================================
