-------------------------- MODULE ReliableDelivery --------------------------
(***************************************************************************)
(* Reliable delivery of one direction of one virtual session: the sender's *)
(* table of outbound messages, the periodic runtime that retransmits them, *)
(* the receiver's reordering buffer and the tasks that dispatch what it    *)
(* releases.  The network may lose, duplicate and reorder packets: a       *)
(* packet on the wire may be received any number of times, or never.       *)
(*                                                                         *)
(* Time is abstracted: at a scan of the runtime any message sent before    *)
(* may or may not be due again.  A message and its uuid are identified by  *)
(* the sequence number.                                                    *)
(***************************************************************************)
EXTENDS Integers, Sequences, FiniteSets

CONSTANTS
    MaxMessages,      \* bound: messages sent in a behaviour
    MaxAttempts,      \* reliable_delivery_max_attempts
    Handlers,         \* tasks that may process inbound packets at one time
    Replying,         \* messages whose handler returns a reply
    MaxStateChanges   \* bound: session closures and late reactivations

ASSUME BoundsAssumption ==
    /\ MaxMessages \in Nat /\ MaxAttempts \in Nat \ {0}
    /\ MaxStateChanges \in Nat
    /\ Replying \subseteq 1..MaxMessages

VARIABLES
    next_outbound,   \* next_outbound_sequence
    outbound,        \* outbound_by_sequence: the state of every message
    attempts,        \* ReliableOutboundMessage.attempts
    sending,         \* messages whose send_message call awaits the transport
    due,             \* messages the running scan still has to resend
    resending,       \* message the runtime is resending, 0 for none
    wire,            \* data packets that reached the network
    acks,            \* ack packets that reached the network
    next_expected,   \* next_expected_inbound_sequence
    buffer,          \* inbound_buffer_by_sequence
    delivered_ids,   \* delivered_message_ids
    handler,         \* the deliveries each inbound task still has to make
    dispatched,      \* messages handed to the application, in order
    replies,         \* replies dispatched at the sender, counted up to 2
    active,          \* session_state = "active" at either end
    changes          \* changes of session_state so far

sender_vars == <<next_outbound, outbound, attempts, sending, due, resending>>
receiver_vars == <<next_expected, buffer, delivered_ids, handler, dispatched>>
vars == <<sender_vars, receiver_vars, wire, acks, replies, active, changes>>

Seqs == 1..MaxMessages
Sides == {"sender", "receiver"}
Batch == [seq : Seqs, next : 1..(MaxMessages + 1), last : Seqs, replies : SUBSET Replying]
Idle == [seq |-> 0, next |-> 1, last |-> 0, replies |-> {}]

Init ==
    /\ next_outbound = 1
    /\ outbound = [s \in Seqs |-> "unsent"]
    /\ attempts = [s \in Seqs |-> 0]
    /\ sending = {} /\ due = {} /\ resending = 0
    /\ wire = {} /\ acks = {}
    /\ next_expected = 1 /\ buffer = {} /\ delivered_ids = {}
    /\ handler = [h \in Handlers |-> Idle]
    /\ dispatched = <<>>
    /\ replies = [s \in Seqs |-> 0]
    /\ active = [side \in Sides |-> TRUE]
    /\ changes = 0

-----------------------------------------------------------------------------
(* The sender: the client's calls and the session runtime.                 *)

\* The application sends a message: the entry is stored under the next
\* sequence number, then the call awaits the transport.
send_message ==
    /\ active["sender"]
    /\ next_outbound <= MaxMessages
    /\ next_outbound' = next_outbound + 1
    /\ outbound' = [outbound EXCEPT ![next_outbound] = "pending"]
    /\ sending' = sending \cup {next_outbound}
    /\ UNCHANGED <<attempts, due, resending>>
    /\ UNCHANGED <<receiver_vars, wire, acks, replies, active, changes>>

\* While a send is awaited its packet may reach the network, or be lost.
Transmit(s) ==
    /\ s \in sending \cup ({resending} \ {0})
    /\ wire' = wire \cup {s}
    /\ UNCHANGED <<sender_vars, receiver_vars, acks, replies, active, changes>>

\* A send returned: the attempt counts only if the entry is still pending.
mark_reliable_outbound_sent(s) ==
    attempts' = IF outbound[s] = "pending"
                THEN [attempts EXCEPT ![s] = @ + 1] ELSE attempts

send_returns(s) ==
    /\ s \in sending
    /\ mark_reliable_outbound_sent(s)
    /\ sending' = sending \ {s}
    /\ UNCHANGED <<next_outbound, outbound, due, resending>>
    /\ UNCHANGED <<receiver_vars, wire, acks, replies, active, changes>>

\* A send raised: the caller sees the exception, the entry stays as it is
\* and no attempt is counted.
send_raises(s) ==
    /\ s \in sending
    /\ sending' = sending \ {s}
    /\ UNCHANGED <<next_outbound, outbound, attempts, due, resending>>
    /\ UNCHANGED <<receiver_vars, wire, acks, replies, active, changes>>

Exhausted(s) == outbound[s] = "pending" /\ attempts[s] >= MaxAttempts
Remaining == {s \in Seqs : outbound[s] = "pending" /\ attempts[s] < MaxAttempts}
NeverSent == {s \in Remaining : attempts[s] = 0}

\* Mutants of the scan: it allows one attempt too many; it never gives up.
list_due_one_more ==
    /\ due = {} /\ resending = 0
    /\ outbound' = [s \in Seqs |-> IF Exhausted(s) /\ attempts[s] > MaxAttempts
                                  THEN "failed" ELSE outbound[s]]
    /\ due' = {s \in Seqs : outbound[s] = "pending" /\ attempts[s] <= MaxAttempts}
    /\ UNCHANGED <<next_outbound, attempts, sending, resending>>
    /\ UNCHANGED <<receiver_vars, wire, acks, replies, active, changes>>

list_due_never_fails ==
    /\ due = {} /\ resending = 0
    /\ due' = Remaining
    /\ UNCHANGED <<next_outbound, outbound, attempts, sending, resending>>
    /\ UNCHANGED <<receiver_vars, wire, acks, replies, active, changes>>

\* The runtime scans the pending messages: those out of attempts fail, those
\* never marked sent are due at once, any other may be due.
list_due_reliable_messages ==
    /\ due = {} /\ resending = 0
    /\ outbound' = [s \in Seqs |-> IF Exhausted(s) THEN "failed" ELSE outbound[s]]
    /\ \E D \in SUBSET Remaining : NeverSent \subseteq D /\ due' = D
    /\ UNCHANGED <<next_outbound, attempts, sending, resending>>
    /\ UNCHANGED <<receiver_vars, wire, acks, replies, active, changes>>

\* The next message of the scan is resent without looking at it again; a
\* session that is no longer active skips it.
resend_due_message(s) ==
    /\ s \in due /\ resending = 0
    /\ due' = due \ {s}
    /\ resending' = IF active["sender"] THEN s ELSE 0
    /\ UNCHANGED <<next_outbound, outbound, attempts, sending>>
    /\ UNCHANGED <<receiver_vars, wire, acks, replies, active, changes>>

resend_returns ==
    /\ resending # 0
    /\ mark_reliable_outbound_sent(resending)
    /\ resending' = 0
    /\ UNCHANGED <<next_outbound, outbound, sending, due>>
    /\ UNCHANGED <<receiver_vars, wire, acks, replies, active, changes>>

\* The scan logs the exception of a resend and goes on: nothing is counted.
resend_raises ==
    /\ resending # 0
    /\ resending' = 0
    /\ UNCHANGED <<next_outbound, outbound, attempts, sending, due>>
    /\ UNCHANGED <<receiver_vars, wire, acks, replies, active, changes>>

\* An ack removes the entry it names, failed or not, and the replies it
\* carries are dispatched whether or not it matched.
handle_reliable_ack(a) ==
    /\ a \in acks
    /\ active["sender"]
    /\ outbound' = [outbound EXCEPT ![a.seq] = "acked"]
    /\ replies' = [s \in Seqs |-> IF s \in a.replies /\ replies[s] < 2
                                  THEN replies[s] + 1 ELSE replies[s]]
    /\ UNCHANGED <<next_outbound, attempts, sending, due, resending>>
    /\ UNCHANGED <<receiver_vars, wire, acks, active, changes>>

-----------------------------------------------------------------------------
(* The receiver: RELIABLE_DATA handlers, one task per packet in progress.  *)

Duplicate(s) == s \in delivered_ids \/ s < next_expected

\* n is the end of the run of messages that s completes: the loop that pops
\* the buffer stops at the first number missing from it.
Completes(s, n) ==
    /\ s = next_expected
    /\ n \in s..MaxMessages
    /\ (s + 1)..n \subseteq buffer
    /\ n + 1 \notin buffer

\* Mutants of the reception: a packet after a gap is acked and dropped; it is
\* dispatched on arrival; the loop that pops the buffer forgets to record.
receive_drops_after_gap(h, s) ==
    /\ s # next_expected
    /\ acks' = acks \cup {[seq |-> s, replies |-> {}]}
    /\ UNCHANGED receiver_vars

receive_on_arrival(h, s) ==
    /\ s \notin delivered_ids
    /\ delivered_ids' = delivered_ids \cup {s}
    /\ dispatched' = Append(dispatched, s)
    /\ acks' = acks \cup {[seq |-> s, replies |-> {}]}
    /\ UNCHANGED <<next_expected, buffer, handler>>

receive_forgets_buffered(h, s) ==
    LET Run(n) == IF n + 1 \in buffer THEN <<n, n + 1>> ELSE <<n>> IN
    /\ ~Duplicate(s)
    /\ dispatched' = dispatched \o (IF s = next_expected THEN Run(s) ELSE <<>>)
    /\ IF s = next_expected
       THEN next_expected' = s + 1 /\ delivered_ids' = delivered_ids \cup {s} /\ buffer' = {}
       ELSE buffer' = buffer \cup {s} /\ UNCHANGED <<next_expected, delivered_ids>>
    /\ acks' = acks \cup {[seq |-> s, replies |-> {}]}
    /\ UNCHANGED handler

\* A packet that releases nothing is acked at once; one that fills the gap
\* releases a run of messages, and the first of them is dispatched before
\* the task first suspends.
receive_reliable_payload(h, s) ==
    \/ /\ Duplicate(s)
       /\ acks' = acks \cup {[seq |-> s, replies |-> {}]}
       /\ UNCHANGED receiver_vars
    \/ /\ ~Duplicate(s) /\ s > next_expected
       /\ buffer' = buffer \cup {s}
       /\ acks' = acks \cup {[seq |-> s, replies |-> {}]}
       /\ UNCHANGED <<next_expected, delivered_ids, handler, dispatched>>
    \/ \E n \in Seqs :
       /\ ~Duplicate(s) /\ Completes(s, n)
       /\ next_expected' = n + 1
       /\ buffer' = buffer \ (s..n)
       /\ delivered_ids' = delivered_ids \cup (s..n)
       /\ dispatched' = Append(dispatched, s)
       /\ handler' = [handler EXCEPT ![h] =
                        [seq |-> s, next |-> s + 1, last |-> n,
                         replies |-> Replying \cap {s}]]
       /\ UNCHANGED acks

handle_reliable_data(h, s) ==
    /\ s \in wire
    /\ handler[h] = Idle
    /\ active["receiver"]
    /\ receive_reliable_payload(h, s)
    /\ UNCHANGED <<sender_vars, wire, replies, active, changes>>

\* Mutants of the dispatch loop: it runs one step too far; it collects the
\* reply of a message the session rejected.
dispatch_one_too_far(h) ==
    /\ handler[h] # Idle
    /\ handler[h].next <= handler[h].last + 1
    /\ dispatched' = Append(dispatched, handler[h].next)
    /\ handler' = [handler EXCEPT ![h].next = @ + 1]
    /\ UNCHANGED <<next_expected, buffer, delivered_ids>>
    /\ UNCHANGED <<sender_vars, wire, acks, replies, active, changes>>

dispatch_keeps_rejected(h) ==
    /\ handler[h] # Idle
    /\ handler[h].next <= handler[h].last
    /\ dispatched' = IF active["receiver"]
                     THEN Append(dispatched, handler[h].next) ELSE dispatched
    /\ handler' = [handler EXCEPT ![h].next = @ + 1,
                                  ![h].replies = @ \cup (Replying \cap {handler[h].next})]
    /\ UNCHANGED <<next_expected, buffer, delivered_ids>>
    /\ UNCHANGED <<sender_vars, wire, acks, replies, active, changes>>

\* The dispatch of one message returned and the loop goes on with the next;
\* a session that is no longer active rejects it and the message is gone.
dispatch_next(h) ==
    /\ handler[h] # Idle
    /\ handler[h].next <= handler[h].last
    /\ dispatched' = IF active["receiver"]
                     THEN Append(dispatched, handler[h].next) ELSE dispatched
    /\ handler' = [handler EXCEPT ![h].next = @ + 1,
                                  ![h].replies = @ \cup {s \in Replying :
                                     active["receiver"] /\ s = handler[h].next}]
    /\ UNCHANGED <<next_expected, buffer, delivered_ids>>
    /\ UNCHANGED <<sender_vars, wire, acks, replies, active, changes>>

\* After the last dispatch the ack leaves with the replies collected; it
\* cannot be encrypted for a session that is no longer active.
send_reliable_ack(h) ==
    /\ handler[h] # Idle
    /\ handler[h].next > handler[h].last
    /\ acks' = IF active["receiver"]
               THEN acks \cup {[seq |-> handler[h].seq, replies |-> handler[h].replies]}
               ELSE acks
    /\ handler' = [handler EXCEPT ![h] = Idle]
    /\ UNCHANGED <<next_expected, buffer, delivered_ids, dispatched>>
    /\ UNCHANGED <<sender_vars, wire, replies, active, changes>>

\* A dispatch raised, or the connection's reader was cancelled: the task
\* ends, the rest of its run is never dispatched and no ack leaves.
dispatch_raises(h) ==
    /\ handler[h] # Idle
    /\ handler' = [handler EXCEPT ![h] = Idle]
    /\ UNCHANGED <<next_expected, buffer, delivered_ids, dispatched>>
    /\ UNCHANGED <<sender_vars, wire, acks, replies, active, changes>>

\* Either end closes the session, or a late handshake message reactivates
\* it: the reliable state is kept in both cases.
session_state_changes(side) ==
    /\ changes < MaxStateChanges
    /\ active' = [active EXCEPT ![side] = ~@]
    /\ changes' = changes + 1
    /\ UNCHANGED <<sender_vars, receiver_vars, wire, acks, replies>>

-----------------------------------------------------------------------------
SendEnds == \E s \in Seqs : send_returns(s) \/ send_raises(s)
ResendEnds == resend_returns \/ resend_raises

Next ==
    \/ send_message
    \/ \E s \in Seqs : Transmit(s)
    \/ SendEnds
    \/ list_due_reliable_messages
    \/ \E s \in Seqs : resend_due_message(s)
    \/ ResendEnds
    \/ \E a \in acks : handle_reliable_ack(a)
    \/ \E h \in Handlers, s \in Seqs : handle_reliable_data(h, s)
    \/ \E h \in Handlers : dispatch_next(h)
    \/ \E h \in Handlers : send_reliable_ack(h)
    \/ \E h \in Handlers : dispatch_raises(h)
    \/ \E side \in Sides : session_state_changes(side)

Spec == Init /\ [][Next]_vars

\* The runtime's loop survives every exception and runs again after its
\* interval, a message whose retry interval has passed is due at a scan, and
\* an awaited send ends: returning or raising.
Fairness ==
    /\ WF_vars(list_due_reliable_messages)
    /\ \A s \in Seqs : SF_vars(list_due_reliable_messages /\ s \in due')
    /\ WF_vars(\E s \in Seqs : resend_due_message(s))
    /\ WF_vars(ResendEnds)
    /\ WF_vars(SendEnds)

\* The network is fair to a packet that reached it, and tasks make progress.
FairNetwork ==
    /\ \A s \in Seqs : SF_vars(\E h \in Handlers : handle_reliable_data(h, s))
    /\ \A h \in Handlers : WF_vars(dispatch_next(h)) /\ WF_vars(send_reliable_ack(h))

FairSpec == Spec /\ Fairness
FairNetworkSpec == FairSpec /\ FairNetwork

-----------------------------------------------------------------------------
\* The dictionaries and counters of both ends hold sequence numbers of the
\* session, and a released run is a list of them.
TypeOK ==
    /\ next_outbound \in 1..(MaxMessages + 1)
    /\ outbound \in [Seqs -> {"unsent", "pending", "failed", "acked"}]
    /\ attempts \in [Seqs -> Nat]
    /\ sending \subseteq Seqs /\ due \subseteq Seqs /\ resending \in 0..MaxMessages
    /\ wire \subseteq Seqs
    /\ acks \subseteq [seq : Seqs, replies : SUBSET Replying]
    /\ next_expected \in 1..(MaxMessages + 1)
    /\ buffer \subseteq Seqs /\ delivered_ids \subseteq Seqs
    /\ handler \in [Handlers -> {Idle} \cup Batch]
    /\ dispatched \in Seq(Seqs)
    /\ replies \in [Seqs -> 0..2]
    /\ active \in [Sides -> BOOLEAN]
    /\ changes \in 0..MaxStateChanges

\* Whatever is lost, duplicated or reordered, and however inbound tasks
\* interleave, no message reaches the application twice.
AtMostOnceDispatch ==
    \A i, j \in 1..Len(dispatched) : dispatched[i] = dispatched[j] => i = j

\* The application sees messages in the order they were sent (gaps appear
\* when a dispatch raised).  The code guarantees this where one task at a
\* time processes the session's packets, as on a single TCP connection.
InOrderDispatch ==
    \A i, j \in 1..Len(dispatched) : i < j => dispatched[i] < dispatched[j]

\* A message is never transmitted and marked more than one time beyond
\* reliable_delivery_max_attempts: the extra one is the first send of
\* send_message returning after the runtime has used up the attempts.
AttemptsBounded == \A s \in Seqs : attempts[s] <= MaxAttempts + 1

\* A reply reaches the sender only for a message whose handler really ran
\* at the receiver, although replies travel on the ack of another message
\* and part of a released run may be rejected or lost.
RepliesAreFromDispatched ==
    \A s \in Seqs : replies[s] > 0 => \E i \in 1..Len(dispatched) : dispatched[i] = s

\* A message sent is eventually acked or failed, or the session is closed,
\* whatever is lost and however its first send ended, unless its resends
\* raise again and again: the scan counts only resends that return, so over
\* a link on which every send raises a message stays pending for ever.  The
\* resends of other messages may raise for ever.
EverySendSettles ==
    \A s \in Seqs :
        <>[][~(resending = s /\ resend_raises)]_vars
            => (outbound[s] = "pending" ~> (outbound[s] # "pending" \/ ~active["sender"]))

\* "Reliable session payload delivery is implemented with sequence numbers,
\* acknowledgments, ..., ordered delivery, and retransmission": a message
\* the sender was told is acked does not stay in the reordering buffer.
AckedIsReleased ==
    \A s \in Seqs :
        (outbound[s] = "acked" /\ s \in buffer)
            ~> (s \notin buffer \/ ~active["sender"] \/ ~active["receiver"])

\* The layer implements the channel of ReliableChannel.
Channel == INSTANCE ReliableChannel WITH
    sent <- next_outbound - 1,
    received <- delivered_ids \cup buffer,
    accepted <- next_expected - 1,
    acked <- {s \in Seqs : outbound[s] = "acked"}

\* The layer takes every message at most once, accepts exactly the prefix
\* without a gap, and reports as acked only what the receiver has taken.
ImplementsChannel == Channel!ChanSpec
=============================================================================
