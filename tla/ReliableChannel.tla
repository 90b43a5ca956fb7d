--------------------------- MODULE ReliableChannel ---------------------------
(***************************************************************************)
(* What the reliable layer of a session promises (app/sessions/reliable.py *)
(* seen from outside).  Messages get consecutive sequence numbers.  The    *)
(* receiver takes them in whatever order the network brings them, accepts  *)
(* exactly the longest prefix without a gap, and a message counts as acked *)
(* only after the receiver has taken it.                                   *)
(***************************************************************************)
EXTENDS Integers

VARIABLES
    sent,        \* number of messages handed to the layer
    received,    \* sequence numbers the receiver has taken
    accepted,    \* the prefix 1..accepted has been accepted for delivery
    acked        \* sequence numbers the sender knows to be taken

chan_vars == <<sent, received, accepted, acked>>

LongestPrefix(S, n) == 1..n \subseteq S /\ n + 1 \notin S

ChanInit == sent = 0 /\ received = {} /\ accepted = 0 /\ acked = {}

ChanSend ==
    /\ sent' = sent + 1
    /\ UNCHANGED <<received, accepted, acked>>

ChanReceive(s) ==
    /\ s \in 1..sent
    /\ received' = received \cup {s}
    /\ accepted' \in 0..sent
    /\ LongestPrefix(received', accepted')
    /\ UNCHANGED <<sent, acked>>

ChanAck(s) ==
    /\ s \in received
    /\ acked' = acked \cup {s}
    /\ UNCHANGED <<sent, received, accepted>>

ChanNext == ChanSend \/ \E s \in 1..sent : ChanReceive(s) \/ ChanAck(s)

ChanSpec == ChanInit /\ [][ChanNext]_chan_vars
=============================================================================
