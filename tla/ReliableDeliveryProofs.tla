----------------------- MODULE ReliableDeliveryProofs -----------------------
(***************************************************************************)
(* Proofs about ReliableDelivery for every number of messages, attempts,   *)
(* tasks and state changes.                                                *)
(***************************************************************************)
EXTENDS ReliableDelivery, TLAPS

Taken == delivered_ids \cup buffer

\* Both ends agree on which numbers have been used, and the receiver's three
\* variables describe one set: a prefix, a gap, and what waits behind it.
NumberingInv ==
    /\ \A s \in Seqs : outbound[s] = "unsent" <=> s >= next_outbound
    /\ \A s \in sending \cup due \cup wire : s < next_outbound
    /\ resending < next_outbound
    /\ next_expected <= next_outbound
    /\ delivered_ids = 1..(next_expected - 1)
    /\ \A s \in buffer : next_expected < s /\ s < next_outbound

\* Whatever an ack names, or has already settled, the receiver has taken.
AckInv ==
    /\ \A a \in acks : a.seq \in Taken
    /\ \A s \in Seqs : outbound[s] = "acked" => s \in Taken
    /\ \A h \in Handlers : handler[h] # Idle => handler[h].seq \in delivered_ids

\* Attempts already made plus sends still in flight stay within the bound.
Scanned(s) == s \in due \/ s = resending
AttemptsInv ==
    /\ resending \notin due
    /\ \A s \in Seqs :
         /\ outbound[s] = "unsent" => attempts[s] = 0
         /\ attempts[s] <= MaxAttempts + 1
         /\ s \in sending \/ Scanned(s) => attempts[s] <= MaxAttempts
         /\ s \in sending /\ Scanned(s) => attempts[s] <= MaxAttempts - 1

\* The runs of messages that tasks still have to dispatch are disjoint from
\* each other and from what was dispatched, and below the receiver's prefix.
Owes(h, s) == handler[h].next <= s /\ s <= handler[h].last
DispatchInv ==
    /\ \A h \in Handlers : handler[h].last < next_expected
    /\ \A g, h \in Handlers : \A s \in Seqs : Owes(g, s) /\ Owes(h, s) => g = h
    /\ \A i \in 1..Len(dispatched) :
         /\ dispatched[i] < next_expected
         /\ \A h \in Handlers : ~Owes(h, dispatched[i])
    /\ AtMostOnceDispatch

\* The step of receive_reliable_payload that releases the run s..n.
Released(h, s, n) ==
    /\ ~Duplicate(s) /\ Completes(s, n)
    /\ next_expected' = n + 1
    /\ buffer' = buffer \ (s..n)
    /\ delivered_ids' = delivered_ids \cup (s..n)
    /\ dispatched' = Append(dispatched, s)
    /\ handler' = [handler EXCEPT ![h] =
                     [seq |-> s, next |-> s + 1, last |-> n,
                      replies |-> Replying \cap {s}]]
    /\ UNCHANGED acks

Seen(s) == \E i \in 1..Len(dispatched) : dispatched[i] = s
\* A reply exists in a task, on the network or at the sender only for a
\* message that was dispatched.
RepliesInv ==
    /\ \A h \in Handlers : \A s \in handler[h].replies : Seen(s)
    /\ \A a \in acks : \A s \in a.replies : Seen(s)
    /\ RepliesAreFromDispatched

\* With a single task everything dispatched precedes what it still owes.
OrderInv ==
    /\ InOrderDispatch
    /\ \A h \in Handlers : handler[h] # Idle =>
         \A i \in 1..Len(dispatched) : dispatched[i] < handler[h].next


-----------------------------------------------------------------------------
\* What appending one dispatched message does to the list of them.
LEMMA AppendFacts ==
    ASSUME NEW S, NEW q \in Seq(S), NEW e \in S
    PROVE  /\ Append(q, e) \in Seq(S)
           /\ Len(q) \in Nat
           /\ Len(Append(q, e)) = Len(q) + 1
           /\ \A i \in 1..Len(q) : Append(q, e)[i] = q[i]
           /\ Append(q, e)[Len(q) + 1] = e
  BY SMTT(90)

\* Every step of the model keeps the type invariant.
LEMMA TypeStep == TypeOK /\ [Next]_vars => TypeOK'
<1> SUFFICES ASSUME TypeOK, [Next]_vars PROVE TypeOK'
  OBVIOUS
<1> USE BoundsAssumption DEF TypeOK, Seqs, sender_vars, receiver_vars
<1>1. ASSUME send_message PROVE TypeOK'
  BY <1>1 DEF send_message
<1>2. ASSUME NEW s \in Seqs, Transmit(s) PROVE TypeOK'
  BY SMTT(90), <1>2 DEF Transmit
<1>3. ASSUME NEW s \in Seqs, send_returns(s) PROVE TypeOK'
  BY SMTT(90), <1>3 DEF send_returns, mark_reliable_outbound_sent
<1>4. ASSUME NEW s \in Seqs, send_raises(s) PROVE TypeOK'
  BY <1>4 DEF send_raises
<1>5. ASSUME list_due_reliable_messages PROVE TypeOK'
  BY <1>5 DEF list_due_reliable_messages, Remaining, Exhausted
<1>6. ASSUME NEW s \in Seqs, resend_due_message(s) PROVE TypeOK'
  BY <1>6 DEF resend_due_message
<1>7. ASSUME resend_returns PROVE TypeOK'
  BY SMTT(90), <1>7 DEF resend_returns, mark_reliable_outbound_sent
<1>8. ASSUME resend_raises PROVE TypeOK'
  BY <1>8 DEF resend_raises
<1>9. ASSUME NEW a \in acks, handle_reliable_ack(a) PROVE TypeOK'
  <2>1. a.seq \in Seqs
    OBVIOUS
  <2>2. replies' \in [Seqs -> 0..2]
    <3>1. \A s \in Seqs : replies[s] \in 0..2
      OBVIOUS
    <3>2. \A s \in Seqs : (IF s \in a.replies /\ replies[s] < 2
                           THEN replies[s] + 1 ELSE replies[s]) \in 0..2
      BY <3>1
    <3> QED
      BY <1>9, <3>2 DEF handle_reliable_ack
  <2>3. outbound' \in [Seqs -> {"unsent", "pending", "failed", "acked"}]
    BY <1>9, <2>1 DEF handle_reliable_ack
  <2> QED
    BY SMTT(90), <1>9, <2>2, <2>3 DEF handle_reliable_ack
<1>10. ASSUME NEW h \in Handlers, NEW s \in Seqs, handle_reliable_data(h, s) PROVE TypeOK'
  <2>1. [seq |-> s, replies |-> {}] \in [seq : Seqs, replies : SUBSET Replying]
    OBVIOUS
  <2>2. CASE Duplicate(s) /\ acks' = acks \cup {[seq |-> s, replies |-> {}]}
             /\ UNCHANGED receiver_vars
    BY <1>10, <2>1, <2>2 DEF handle_reliable_data
  <2>3. CASE /\ buffer' = buffer \cup {s}
             /\ acks' = acks \cup {[seq |-> s, replies |-> {}]}
             /\ UNCHANGED <<next_expected, delivered_ids, handler, dispatched>>
    BY SMTT(90), <1>10, <2>1, <2>3 DEF handle_reliable_data
  <2>4. ASSUME NEW n \in Seqs, Released(h, s, n) PROVE TypeOK'
    <3>1. [seq |-> s, next |-> s + 1, last |-> n, replies |-> Replying \cap {s}] \in Batch
      BY DEF Batch
    <3>2. handler' \in [Handlers -> {Idle} \cup Batch]
      BY <2>4, <3>1 DEF Released
    <3>3. dispatched' \in Seq(Seqs)
      BY <2>4 DEF Released
    <3>4. next_expected' \in 1..(MaxMessages + 1) /\ buffer' \subseteq Seqs
          /\ delivered_ids' \subseteq Seqs
      BY <2>4 DEF Released, Completes
    <3> QED
      BY SMTT(90), <1>10, <2>4, <3>2, <3>3, <3>4 DEF handle_reliable_data, Released
  <2> QED
    BY <1>10, <2>2, <2>3, <2>4 DEF handle_reliable_data, receive_reliable_payload, Released
<1>11. ASSUME NEW h \in Handlers, dispatch_next(h) PROVE TypeOK'
  <2>1. handler[h] \in Batch /\ handler[h].next <= handler[h].last
    BY <1>11 DEF dispatch_next
  <2>2. handler[h].next \in Seqs /\ handler[h].next + 1 \in 1..(MaxMessages + 1)
    BY <2>1 DEF Batch
  <2>3. dispatched' \in Seq(Seqs)
    <3>1. dispatched' = dispatched \/ dispatched' = Append(dispatched, handler[h].next)
      BY <1>11 DEF dispatch_next
    <3>2. dispatched \in Seq(Seqs)
      OBVIOUS
    <3> HIDE DEF TypeOK, Seqs
    <3> QED
      BY <2>2, <3>1, <3>2, AppendFacts
  <2>4. PICK r \in SUBSET Replying :
          handler' = [handler EXCEPT ![h] = [handler[h] EXCEPT !.next = handler[h].next + 1,
                                                             !.replies = r]]
    BY <1>11, <2>1 DEF dispatch_next, Batch
  <2>5. [handler[h] EXCEPT !.next = handler[h].next + 1, !.replies = r] \in Batch
    BY <2>1, <2>2 DEF Batch
  <2> QED
    BY ZenonT(90), <1>11, <2>3, <2>4, <2>5 DEF dispatch_next
<1>12. ASSUME NEW h \in Handlers, send_reliable_ack(h) PROVE TypeOK'
  <2>1. [seq |-> handler[h].seq, replies |-> handler[h].replies]
          \in [seq : Seqs, replies : SUBSET Replying]
    BY <1>12 DEF send_reliable_ack, Batch
  <2> QED
    BY SMTT(90), <1>12, <2>1 DEF send_reliable_ack
<1>13. ASSUME NEW h \in Handlers, dispatch_raises(h) PROVE TypeOK'
  BY <1>13 DEF dispatch_raises
<1>14. ASSUME NEW side \in Sides, session_state_changes(side) PROVE TypeOK'
  BY SMTT(90), <1>14 DEF session_state_changes, Sides
<1>15. CASE UNCHANGED vars
  BY SMTT(90), <1>15 DEF vars
<1> QED
  BY <1>1, <1>2, <1>3, <1>4, <1>5, <1>6, <1>7, <1>8, <1>9, <1>10, <1>11, <1>12, <1>13, <1>14, <1>15 DEF Next, SendEnds, ResendEnds

\* Type correctness of the reliable layer, for all values of the constants.
THEOREM TypeCorrect == Spec => []TypeOK
<1>1. Init => TypeOK
  BY BoundsAssumption DEF Init, TypeOK, Seqs, Sides
<1> QED
  BY <1>1, TypeStep, PTL DEF Spec

-----------------------------------------------------------------------------
\* The two ends number messages alike, through every step.
LEMMA NumberingStep == TypeOK /\ NumberingInv /\ AckInv /\ [Next]_vars => NumberingInv'
<1> SUFFICES ASSUME TypeOK, NumberingInv, AckInv, [Next]_vars PROVE NumberingInv'
  OBVIOUS
<1> USE BoundsAssumption DEF TypeOK, NumberingInv, Seqs, sender_vars, receiver_vars
<1>1. ASSUME send_message PROVE NumberingInv'
  BY <1>1 DEF send_message
<1>2. ASSUME NEW s \in Seqs, Transmit(s) PROVE NumberingInv'
  BY <1>2 DEF Transmit
<1>3. ASSUME NEW s \in Seqs, send_returns(s) \/ send_raises(s) PROVE NumberingInv'
  BY <1>3 DEF send_returns, send_raises
<1>4. ASSUME list_due_reliable_messages PROVE NumberingInv'
  BY <1>4 DEF list_due_reliable_messages, Remaining, Exhausted
<1>5. ASSUME NEW s \in Seqs, resend_due_message(s) PROVE NumberingInv'
  BY <1>5 DEF resend_due_message
<1>6. ASSUME resend_returns \/ resend_raises PROVE NumberingInv'
  <2>1. /\ resending' = 0
        /\ UNCHANGED <<next_outbound, outbound, sending, due, wire, receiver_vars>>
    BY <1>6 DEF resend_returns, resend_raises
  <2> QED
    BY <2>1
<1>7. ASSUME NEW a \in acks, handle_reliable_ack(a) PROVE NumberingInv'
  <2>1. a.seq \in Seqs /\ a.seq < next_outbound
    BY DEF AckInv, Taken
  <2> QED
    BY <1>7, <2>1 DEF handle_reliable_ack
<1>8. ASSUME NEW h \in Handlers, NEW s \in Seqs, handle_reliable_data(h, s)
      PROVE NumberingInv'
  <2>1. s < next_outbound
    BY <1>8 DEF handle_reliable_data
  <2>2. ASSUME NEW n \in Seqs, Released(h, s, n) PROVE NumberingInv'
    <3>1. n < next_outbound
      BY <2>1, <2>2 DEF Released, Completes
    <3>2. next_expected' = n + 1 /\ n >= s /\ s = next_expected
      BY <2>2 DEF Released, Completes
    <3>3. delivered_ids' = 1..n
      BY SMTT(90), <2>2, <3>2 DEF Released
    <3>4. \A x \in buffer' : n + 1 < x /\ x < next_outbound
      BY <2>2, <3>2 DEF Released, Completes
    <3> QED
      BY <1>8, <3>1, <3>2, <3>3, <3>4 DEF handle_reliable_data
  <2> QED
    BY <1>8, <2>1, <2>2
    DEF handle_reliable_data, receive_reliable_payload, Released, Duplicate
<1>9. ASSUME NEW h \in Handlers,
             dispatch_next(h) \/ send_reliable_ack(h) \/ dispatch_raises(h)
      PROVE NumberingInv'
  BY SMTT(90), <1>9 DEF dispatch_next, send_reliable_ack, dispatch_raises
<1>10. ASSUME NEW side \in Sides, session_state_changes(side) PROVE NumberingInv'
  BY <1>10 DEF session_state_changes
<1>11. CASE UNCHANGED vars
  BY <1>11 DEF vars
<1> QED
  BY <1>1, <1>2, <1>3, <1>4, <1>5, <1>6, <1>7, <1>8, <1>9, <1>10, <1>11
  DEF Next, SendEnds, ResendEnds

\* Whatever is acked has been taken, and what is taken stays taken.
LEMMA AckStep == TypeOK /\ NumberingInv /\ AckInv /\ [Next]_vars => AckInv'
<1> SUFFICES ASSUME TypeOK, NumberingInv, AckInv, [Next]_vars PROVE AckInv'
  OBVIOUS
<1> USE BoundsAssumption DEF TypeOK, AckInv, Taken, Seqs, sender_vars, receiver_vars
<1>1. ASSUME send_message PROVE AckInv'
  BY SMTT(90), <1>1 DEF send_message
<1>2. ASSUME NEW s \in Seqs, Transmit(s) \/ send_returns(s) \/ send_raises(s)
                              \/ resend_due_message(s)
      PROVE AckInv'
  BY SMTT(90), <1>2 DEF Transmit, send_returns, send_raises, resend_due_message
<1>3. ASSUME list_due_reliable_messages PROVE AckInv'
  BY <1>3 DEF list_due_reliable_messages
<1>4. ASSUME resend_returns \/ resend_raises PROVE AckInv'
  BY SMTT(90), <1>4 DEF resend_returns, resend_raises
<1>5. ASSUME NEW a \in acks, handle_reliable_ack(a) PROVE AckInv'
  BY SMTT(90), <1>5 DEF handle_reliable_ack
<1>6. ASSUME NEW h \in Handlers, NEW s \in Seqs, handle_reliable_data(h, s) PROVE AckInv'
  <2>1. UNCHANGED outbound
    BY <1>6 DEF handle_reliable_data
  <2>2. CASE Duplicate(s) /\ acks' = acks \cup {[seq |-> s, replies |-> {}]}
             /\ UNCHANGED receiver_vars
    <3>1. s \in delivered_ids
      BY <2>2 DEF Duplicate, NumberingInv
    <3> QED
      BY SMTT(90), <2>1, <2>2, <3>1
  <2>3. CASE /\ buffer' = buffer \cup {s}
             /\ acks' = acks \cup {[seq |-> s, replies |-> {}]}
             /\ UNCHANGED <<next_expected, delivered_ids, handler, dispatched>>
    BY <2>1, <2>3
  <2>4. ASSUME NEW n \in Seqs, Released(h, s, n) PROVE AckInv'
    <3>1. Taken \subseteq Taken' /\ delivered_ids \subseteq delivered_ids' /\ s \in delivered_ids'
      BY SMTT(90), <2>4 DEF Released, Completes
    <3>2. \A g \in Handlers : handler'[g] # Idle => handler'[g].seq \in delivered_ids'
      BY <2>4, <3>1 DEF Released
    <3> QED
      BY SMTT(90), <2>1, <2>4, <3>1, <3>2 DEF Released
  <2> QED
    BY ZenonT(90), <1>6, <2>2, <2>3, <2>4 DEF handle_reliable_data, receive_reliable_payload, Released
<1>7. ASSUME NEW h \in Handlers, dispatch_next(h) PROVE AckInv'
  BY SMTT(90), <1>7 DEF dispatch_next, Batch
<1>8. ASSUME NEW h \in Handlers, send_reliable_ack(h) PROVE AckInv'
  BY <1>8 DEF send_reliable_ack
<1>9. ASSUME NEW h \in Handlers, dispatch_raises(h) PROVE AckInv'
  BY <1>9 DEF dispatch_raises
<1>10. ASSUME NEW side \in Sides, session_state_changes(side) PROVE AckInv'
  BY SMTT(90), <1>10 DEF session_state_changes
<1>11. CASE UNCHANGED vars
  BY SMTT(90), <1>11 DEF vars
<1> QED
  BY SMTT(90), <1>1, <1>2, <1>3, <1>4, <1>5, <1>6, <1>7, <1>8, <1>9, <1>10, <1>11
  DEF Next, SendEnds, ResendEnds

\* The attempts made and in flight stay within the bound.
LEMMA AttemptsStep == TypeOK /\ NumberingInv /\ AttemptsInv /\ [Next]_vars => AttemptsInv'
<1> SUFFICES ASSUME TypeOK, NumberingInv, AttemptsInv, [Next]_vars PROVE AttemptsInv'
  OBVIOUS
<1>0. /\ attempts \in [Seqs -> Nat] /\ MaxAttempts \in Nat \ {0}
      /\ outbound \in [Seqs -> {"unsent", "pending", "failed", "acked"}]
      /\ due \subseteq Seqs /\ 0 \notin Seqs /\ resending \in Seqs \cup {0}
  BY BoundsAssumption DEF TypeOK, Seqs
<1> USE DEF AttemptsInv, Scanned
<1>1. ASSUME send_message PROVE AttemptsInv'
  <2>1. next_outbound \in Seqs /\ ~Scanned(next_outbound) /\ outbound[next_outbound] = "unsent"
    BY <1>1, BoundsAssumption DEF send_message, NumberingInv, TypeOK, Seqs
  <2> QED
    BY <1>0, <1>1, <2>1 DEF send_message
<1>2. ASSUME NEW s \in Seqs, send_returns(s) PROVE AttemptsInv'
  BY <1>0, <1>2 DEF send_returns, mark_reliable_outbound_sent
<1>3. ASSUME NEW s \in Seqs, send_raises(s) PROVE AttemptsInv'
  BY SMTT(90), <1>0, <1>3 DEF send_raises
<1>4. ASSUME list_due_reliable_messages PROVE AttemptsInv'
  BY SMTT(90), <1>0, <1>4 DEF list_due_reliable_messages, Remaining, Exhausted
<1>5. ASSUME NEW s \in Seqs, resend_due_message(s) PROVE AttemptsInv'
  BY <1>0, <1>5 DEF resend_due_message
<1>6. ASSUME resend_returns PROVE AttemptsInv'
  BY <1>0, <1>6 DEF resend_returns, mark_reliable_outbound_sent
<1>7. ASSUME resend_raises PROVE AttemptsInv'
  BY SMTT(90), <1>0, <1>7 DEF resend_raises
<1>8. ASSUME NEW a \in acks, handle_reliable_ack(a) PROVE AttemptsInv'
  BY SMTT(90), <1>0, <1>8 DEF handle_reliable_ack
<1>9. CASE UNCHANGED sender_vars
  BY SMTT(90), <1>9 DEF sender_vars
<1> QED
  BY <1>1, <1>2, <1>3, <1>4, <1>5, <1>6, <1>7, <1>8, <1>9
  DEF Next, SendEnds, ResendEnds, Transmit, handle_reliable_data, dispatch_next,
      send_reliable_ack, dispatch_raises, session_state_changes, vars

-----------------------------------------------------------------------------
\* What one step can do to the tasks and to the list of dispatched messages.
LEMMA ReceiverStep ==
    ASSUME [Next]_vars
    PROVE  \/ UNCHANGED <<next_expected, handler, dispatched>>
           \/ \E h \in Handlers, s, n \in Seqs : Released(h, s, n)
           \/ \E h \in Handlers : dispatch_next(h)
           \/ \E h \in Handlers : /\ handler' = [handler EXCEPT ![h] = Idle]
                                 /\ UNCHANGED <<next_expected, dispatched>>
  BY ZenonT(90) DEF Next, SendEnds, ResendEnds, vars, receiver_vars, send_message, Transmit, send_returns,
      send_raises, list_due_reliable_messages, resend_due_message, resend_returns,
      resend_raises, handle_reliable_ack, handle_reliable_data, receive_reliable_payload,
      Released, send_reliable_ack, dispatch_raises, session_state_changes

\* Tasks never owe a message twice, or one already dispatched.
LEMMA DispatchStep == TypeOK /\ NumberingInv /\ DispatchInv /\ [Next]_vars => DispatchInv'
<1> SUFFICES ASSUME TypeOK, NumberingInv, DispatchInv, [Next]_vars PROVE DispatchInv'
  OBVIOUS
<1>1. /\ dispatched \in Seq(Seqs) /\ next_expected \in Nat \ {0} /\ Seqs \subseteq Nat
      /\ handler \in [Handlers -> {Idle} \cup Batch]
      /\ \A h \in Handlers : handler[h].next \in Nat /\ handler[h].last \in Nat
  BY SMTT(90), BoundsAssumption DEF TypeOK, Seqs, Batch, Idle
<1>2. CASE UNCHANGED <<next_expected, handler, dispatched>>
  BY SMTT(90), <1>2 DEF DispatchInv, Owes, AtMostOnceDispatch
<1>3. ASSUME NEW h \in Handlers, NEW s \in Seqs, NEW n \in Seqs, Released(h, s, n)
      PROVE DispatchInv'
  <2>1. s = next_expected /\ s <= n /\ next_expected' = n + 1
    BY SMTT(90), <1>3 DEF Released, Completes
  <2>2. /\ handler'[h].next = s + 1 /\ handler'[h].last = n
        /\ \A g \in Handlers \ {h} : handler'[g] = handler[g]
    BY <1>1, <1>3 DEF Released
  <2>3. /\ dispatched' = Append(dispatched, s)
        /\ \A i \in 1..Len(dispatched) : dispatched[i] \in Seqs
    BY <1>1, <1>3 DEF Released
  <2>4. /\ Len(dispatched') = Len(dispatched) + 1 /\ Len(dispatched) \in Nat
        /\ \A i \in 1..Len(dispatched) : dispatched'[i] = dispatched[i]
        /\ dispatched'[Len(dispatched) + 1] = s
    BY SMTT(90), <1>1, <2>3, AppendFacts
  <2>5. \A g \in Handlers : handler'[g].last < next_expected'
    BY SMTT(90), <1>1, <2>1, <2>2 DEF DispatchInv
  <2>6. \A g, k \in Handlers : \A x \in Seqs : Owes(g, x)' /\ Owes(k, x)' => g = k
    BY SMTT(90), <1>1, <2>1, <2>2 DEF DispatchInv, Owes
  <2>7. \A i \in 1..Len(dispatched') :
          /\ dispatched'[i] < next_expected'
          /\ \A g \in Handlers : ~Owes(g, dispatched[i])'
    <3>1. \A i \in 1..Len(dispatched) : dispatched[i] \in Nat /\ dispatched[i] < s
      BY <1>1, <2>1, <2>3 DEF DispatchInv
    <3>2. ASSUME NEW i \in 1..Len(dispatched), NEW g \in Handlers
          PROVE ~(handler'[g].next <= dispatched[i] /\ dispatched[i] <= handler'[g].last)
      BY SMTT(90), <1>1, <2>1, <2>2, <3>1 DEF DispatchInv, Owes
    <3>3. ASSUME NEW g \in Handlers
          PROVE ~(handler'[g].next <= s /\ s <= handler'[g].last)
      BY <1>1, <2>1, <2>2 DEF DispatchInv
    <3>4. ASSUME NEW i \in 1..Len(dispatched')
          PROVE \/ i \in 1..Len(dispatched) /\ dispatched'[i] = dispatched[i]
                \/ dispatched'[i] = s
      BY <2>4
    <3>5. s \in Nat /\ n \in Nat
      BY <1>1
    <3>6. \A i \in 1..Len(dispatched') : dispatched'[i] < n + 1
      BY <2>1, <3>1, <3>4, <3>5
    <3>7. \A i \in 1..Len(dispatched') : \A g \in Handlers :
            ~(handler'[g].next <= dispatched'[i] /\ dispatched'[i] <= handler'[g].last)
      BY <3>2, <3>3, <3>4
    <3> QED
      BY <2>1, <3>6, <3>7 DEF Owes
  <2>8. AtMostOnceDispatch'
    BY <1>1, <2>1, <2>3, <2>4 DEF DispatchInv, AtMostOnceDispatch
  <2> QED
    BY SMTT(90), <2>5, <2>6, <2>7, <2>8 DEF DispatchInv
<1>4. ASSUME NEW h \in Handlers, dispatch_next(h) PROVE DispatchInv'
  <2> DEFINE s == handler[h].next
  <2>1. /\ s \in Seqs /\ s <= handler[h].last
        /\ dispatched' = dispatched \/ dispatched' = Append(dispatched, s)
        /\ handler'[h].next = s + 1 /\ handler'[h].last = handler[h].last
        /\ \A g \in Handlers \ {h} : handler'[g] = handler[g]
        /\ next_expected' = next_expected
    <3>1. handler[h] \in Batch /\ s <= handler[h].last
      BY <1>1, <1>4 DEF dispatch_next
    <3>2. handler'[h].next = s + 1 /\ handler'[h].last = handler[h].last
          /\ \A g \in Handlers \ {h} : handler'[g] = handler[g]
      BY <1>1, <1>4, <3>1 DEF dispatch_next, Batch
    <3>3. s \in Seqs
      BY <3>1, BoundsAssumption DEF Batch, Seqs
    <3> QED
      BY <1>4, <3>1, <3>2, <3>3 DEF dispatch_next
  <2> HIDE DEF s
  <2>2. \A g, k \in Handlers : \A x \in Seqs : Owes(g, x)' /\ Owes(k, x)' => g = k
    BY SMTT(90), <1>1, <2>1 DEF DispatchInv, Owes, s
  <2>3. \A g \in Handlers : ~(handler'[g].next <= s /\ s <= handler'[g].last)
    BY <1>1, <2>1 DEF DispatchInv, Owes, s
  <2>4. \A i \in 1..Len(dispatched) : \A g \in Handlers :
          ~(handler'[g].next <= dispatched[i] /\ dispatched[i] <= handler'[g].last)
    <3>1. \A i \in 1..Len(dispatched) : dispatched[i] \in Nat
      <4>1. \A i \in 1..Len(dispatched) : dispatched[i] \in Seqs
        BY <1>1
      <4> QED
        BY <1>1, <4>1
    <3>2. s \in Nat /\ handler'[h].next = s + 1 /\ handler'[h].last = handler[h].last
          /\ s = handler[h].next
      BY <1>1, <2>1 DEF s
    <3>3. ASSUME NEW i \in 1..Len(dispatched)
          PROVE ~(handler'[h].next <= dispatched[i] /\ dispatched[i] <= handler'[h].last)
      BY SMTT(90), <3>1, <3>2 DEF DispatchInv, Owes
    <3> QED
      BY <2>1, <3>3 DEF DispatchInv, Owes
  <2>5. \A i \in 1..Len(dispatched) : dispatched[i] # s
    BY SMTT(90), <1>1, <2>1 DEF DispatchInv, Owes, s
  <2>6. CASE dispatched' = dispatched
    BY SMTT(90), <1>1, <2>1, <2>2, <2>4, <2>6 DEF DispatchInv, Owes, AtMostOnceDispatch
  <2>7. CASE dispatched' = Append(dispatched, s)
    <3>1. /\ Len(dispatched') = Len(dispatched) + 1 /\ Len(dispatched) \in Nat
          /\ \A i \in 1..Len(dispatched) : dispatched'[i] = dispatched[i]
          /\ dispatched'[Len(dispatched) + 1] = s
      BY SMTT(90), <1>1, <2>1, <2>7, AppendFacts
    <3>2. AtMostOnceDispatch'
      BY SMTT(90), <2>5, <3>1 DEF DispatchInv, AtMostOnceDispatch
    <3>3. \A i \in 1..Len(dispatched') :
            /\ dispatched'[i] < next_expected'
            /\ \A g \in Handlers : ~Owes(g, dispatched[i])'
      BY SMTT(90), <1>1, <2>1, <2>3, <2>4, <3>1 DEF DispatchInv, Owes
    <3>4. \A g \in Handlers : handler'[g].last < next_expected'
      BY <2>1 DEF DispatchInv
    <3> QED
      BY SMTT(90), <2>2, <3>2, <3>3, <3>4 DEF DispatchInv
  <2> QED
    BY <2>1, <2>6, <2>7
<1>5. ASSUME NEW h \in Handlers, handler' = [handler EXCEPT ![h] = Idle],
             UNCHANGED <<next_expected, dispatched>>
      PROVE DispatchInv'
  <2>1. handler'[h].next = 1 /\ handler'[h].last = 0
        /\ \A g \in Handlers \ {h} : handler'[g] = handler[g]
    BY SMTT(90), <1>1, <1>5 DEF Idle
  <2>2. \A g \in Handlers : \A x \in Nat : Owes(g, x)' => Owes(g, x)
    BY SMTT(90), <1>1, <2>1 DEF Owes
  <2>3. \A g \in Handlers : handler'[g].last < next_expected'
    BY <1>1, <1>5, <2>1 DEF DispatchInv
  <2>4. \A i \in 1..Len(dispatched) : dispatched[i] \in Seqs
    BY <1>1
  <2>5. \A i \in 1..Len(dispatched) : \A g \in Handlers :
          ~(handler'[g].next <= dispatched[i] /\ dispatched[i] <= handler'[g].last)
    BY ZenonT(90), <1>1, <2>1, <2>2, <2>4 DEF DispatchInv, Owes
  <2>6. \A g, k \in Handlers : \A x \in Seqs : Owes(g, x)' /\ Owes(k, x)' => g = k
    BY <1>1, <2>2 DEF DispatchInv
  <2> QED
    BY SMTT(90), <1>5, <2>3, <2>5, <2>6 DEF DispatchInv, Owes, AtMostOnceDispatch
<1> QED
  BY SMTT(90), <1>2, <1>3, <1>4, <1>5, ReceiverStep

\* A message once seen by the application stays in the list.
LEMMA SeenGrows == ASSUME TypeOK, [Next]_vars, NEW x, Seen(x) PROVE Seen(x)'
<1>1. dispatched \in Seq(Seqs)
  BY DEF TypeOK
<1>2. dispatched' = dispatched \/ \E e \in Seqs : dispatched' = Append(dispatched, e)
  <2>1. ASSUME NEW h \in Handlers, dispatch_next(h) PROVE handler[h].next \in Seqs
    <3>1. handler[h] \in Batch /\ handler[h].next <= handler[h].last
      BY <2>1 DEF dispatch_next, TypeOK
    <3> QED
      BY <3>1, BoundsAssumption DEF Batch, Seqs
  <2> QED
    BY ZenonT(90), <2>1, ReceiverStep DEF Released, dispatch_next
<1>3. CASE dispatched' = dispatched
  BY <1>3 DEF Seen
<1>4. ASSUME NEW e \in Seqs, dispatched' = Append(dispatched, e) PROVE Seen(x)'
  BY SMTT(90), <1>1, <1>4, AppendFacts DEF Seen
<1> QED
  BY <1>2, <1>3, <1>4

\* Replies keep stemming from messages that were dispatched.
LEMMA RepliesStep == TypeOK /\ RepliesInv /\ [Next]_vars => RepliesInv'
<1> SUFFICES ASSUME TypeOK, RepliesInv, [Next]_vars PROVE RepliesInv'
  OBVIOUS
<1>1. \A x : Seen(x) => Seen(x)'
  BY SeenGrows
<1>2. /\ dispatched \in Seq(Seqs) /\ handler \in [Handlers -> {Idle} \cup Batch]
      /\ replies \in [Seqs -> 0..2]
  BY SMTT(90) DEF TypeOK
<1>3. ASSUME UNCHANGED <<handler, acks, replies>> PROVE RepliesInv'
  BY ZenonT(90), <1>1, <1>3 DEF RepliesInv, RepliesAreFromDispatched, Seen
<1>4. ASSUME NEW a \in acks, handle_reliable_ack(a) PROVE RepliesInv'
  <2>1. \A s \in Seqs : replies'[s] > 0 => s \in a.replies \/ replies[s] > 0
    BY <1>2, <1>4 DEF handle_reliable_ack
  <2>2. UNCHANGED <<handler, acks, dispatched>>
    BY SMTT(90), <1>4 DEF handle_reliable_ack, receiver_vars
  <2> QED
    BY SMTT(90), <2>1, <2>2 DEF RepliesInv, RepliesAreFromDispatched, Seen
<1>5. ASSUME NEW h \in Handlers, NEW s \in Seqs, handle_reliable_data(h, s) PROVE RepliesInv'
  <2>1. UNCHANGED replies
    BY <1>5 DEF handle_reliable_data
  <2>2. CASE acks' = acks \cup {[seq |-> s, replies |-> {}]} /\ UNCHANGED handler
    <3>1. ASSUME NEW a \in acks', NEW x \in a.replies PROVE Seen(x)
      <4>1. a \in acks \/ a = [seq |-> s, replies |-> {}]
        BY <2>2
      <4>2. CASE a \in acks
        <5>1. \A b \in acks : \A y \in b.replies : Seen(y)
          BY DEF RepliesInv
        <5> QED
          BY <3>1, <4>2, <5>1
      <4>3. a # [seq |-> s, replies |-> {}]
        BY SMTT(90), <3>1
      <4> QED
        BY SMTT(90), <4>1, <4>2, <4>3
    <3>2. \A g \in Handlers : \A x \in handler'[g].replies : Seen(x)
      <4>1. \A g \in Handlers : \A x \in handler[g].replies : Seen(x)
        BY DEF RepliesInv
      <4> QED
        BY <2>2, <4>1
    <3>3. \A x \in Seqs : replies'[x] > 0 => Seen(x)
      BY SMTT(90), <2>1 DEF RepliesInv, RepliesAreFromDispatched, Seen
    <3> QED
      BY ZenonT(90), <1>1, <3>1, <3>2, <3>3 DEF RepliesInv, RepliesAreFromDispatched, Seen
  <2>3. ASSUME NEW n \in Seqs, Released(h, s, n) PROVE RepliesInv'
    <3>1. Seen(s)'
      <4>1. dispatched' = Append(dispatched, s)
        BY <2>3 DEF Released
      <4>2. /\ Len(dispatched) \in Nat /\ Len(dispatched') = Len(dispatched) + 1
            /\ dispatched'[Len(dispatched) + 1] = s
        BY SMTT(90), <1>2, <4>1, AppendFacts
      <4> QED
        BY SMTT(90), <4>2 DEF Seen
    <3>2. \A g \in Handlers : handler'[g].replies \subseteq handler[g].replies \cup {s}
      BY SMTT(90), <1>2, <2>3 DEF Released
    <3> QED
      BY SMTT(90), <1>1, <2>1, <2>3, <3>1, <3>2 DEF Released, RepliesInv, RepliesAreFromDispatched, Seen
  <2> QED
    BY <1>5, <2>2, <2>3
    DEF handle_reliable_data, receive_reliable_payload, Released, receiver_vars
<1>6. ASSUME NEW h \in Handlers, dispatch_next(h) PROVE RepliesInv'
  <2>1. handler[h] \in Batch /\ handler[h].next <= handler[h].last
    BY <1>2, <1>6 DEF dispatch_next
  <2>2. PICK s \in Seqs : s = handler[h].next
    BY <2>1, BoundsAssumption DEF Batch, Seqs
  <2>3. active["receiver"] => Seen(s)'
    <3>1. active["receiver"] => dispatched' = Append(dispatched, s)
      BY <1>6, <2>2 DEF dispatch_next
    <3>2. /\ Len(Append(dispatched, s)) = Len(dispatched) + 1 /\ Len(dispatched) \in Nat
          /\ Append(dispatched, s)[Len(dispatched) + 1] = s
      BY <1>2, AppendFacts
    <3> QED
      BY <3>1, <3>2 DEF Seen
  <2>4. \A g \in Handlers : \A x \in handler'[g].replies :
          x \in handler[g].replies \/ (x = s /\ active["receiver"])
    BY <1>2, <1>6, <2>1, <2>2 DEF dispatch_next, Batch
  <2>5. UNCHANGED <<acks, replies>>
    BY SMTT(90), <1>6 DEF dispatch_next
  <2>6. \A g \in Handlers : \A x \in handler'[g].replies : Seen(x)'
    BY SMTT(90), <1>1, <2>3, <2>4 DEF RepliesInv
  <2> QED
    BY ZenonT(90), <1>1, <2>5, <2>6 DEF RepliesInv, RepliesAreFromDispatched, Seen
<1>7. ASSUME NEW h \in Handlers, send_reliable_ack(h) \/ dispatch_raises(h) PROVE RepliesInv'
  <2>1. \A g \in Handlers : handler'[g].replies \subseteq handler[g].replies
    BY SMTT(90), <1>2, <1>7 DEF send_reliable_ack, dispatch_raises, Idle
  <2>2. acks' \subseteq acks \cup {[seq |-> handler[h].seq, replies |-> handler[h].replies]}
    BY ZenonT(90), <1>7 DEF send_reliable_ack, dispatch_raises
  <2>3. UNCHANGED <<dispatched, replies>>
    BY <1>7 DEF send_reliable_ack, dispatch_raises
  <2> QED
    BY SMTT(90), <2>1, <2>2, <2>3 DEF RepliesInv, RepliesAreFromDispatched, Seen
<1> QED
  BY SMTT(90), <1>3, <1>4, <1>5, <1>6, <1>7
  DEF Next, SendEnds, ResendEnds, vars, receiver_vars, send_message, Transmit, send_returns,
      send_raises, list_due_reliable_messages, resend_due_message, resend_returns,
      resend_raises, session_state_changes

\* With one task, dispatch keeps the order of the sequence numbers.
LEMMA OrderStep ==
    ASSUME \A g, h \in Handlers : g = h
    PROVE  TypeOK /\ DispatchInv /\ OrderInv /\ [Next]_vars => OrderInv'
<1> SUFFICES ASSUME TypeOK, DispatchInv, OrderInv, [Next]_vars PROVE OrderInv'
  OBVIOUS
<1>1. /\ dispatched \in Seq(Seqs) /\ Seqs \subseteq Nat
      /\ handler \in [Handlers -> {Idle} \cup Batch]
  BY BoundsAssumption DEF TypeOK, Seqs
<1>2. CASE UNCHANGED <<next_expected, handler, dispatched>>
  BY <1>2 DEF OrderInv, InOrderDispatch
<1>3. ASSUME NEW h \in Handlers, NEW s \in Seqs,
             dispatched' = Append(dispatched, s) \/ dispatched' = dispatched,
             \A i \in 1..Len(dispatched) : dispatched[i] < s,
             handler'[h].next = s + 1
      PROVE OrderInv'
  <2>1. s \in Nat /\ \A i \in 1..Len(dispatched) : dispatched[i] \in Nat
    <3>1. \A i \in 1..Len(dispatched) : dispatched[i] \in Seqs
      BY <1>1
    <3> QED
      BY <1>1, <3>1
  <2>2. CASE dispatched' = dispatched
    BY <1>3, <2>1, <2>2 DEF OrderInv, InOrderDispatch
  <2>3. CASE dispatched' = Append(dispatched, s)
    <3>1. /\ Len(dispatched') = Len(dispatched) + 1 /\ Len(dispatched) \in Nat
          /\ \A i \in 1..Len(dispatched) : dispatched'[i] = dispatched[i]
          /\ dispatched'[Len(dispatched) + 1] = s
      BY <1>1, <2>3, AppendFacts
    <3>2. InOrderDispatch'
      <4>1. ASSUME NEW i \in 1..Len(dispatched'), NEW j \in 1..Len(dispatched'), i < j
            PROVE dispatched'[i] < dispatched'[j]
        <5>1. i \in 1..Len(dispatched)
          BY SMTT(90), <3>1, <4>1
        <5>2. CASE j \in 1..Len(dispatched)
          BY SMTT(90), <3>1, <4>1, <5>1, <5>2 DEF OrderInv, InOrderDispatch
        <5>3. CASE j = Len(dispatched) + 1
          BY <1>3, <3>1, <5>1, <5>3
        <5> QED
          BY <3>1, <5>2, <5>3
      <4> QED
        BY <4>1 DEF InOrderDispatch
    <3>3. \A i \in 1..Len(dispatched') : dispatched'[i] < s + 1
      <4>1. \A i \in 1..Len(dispatched') : i \in 1..Len(dispatched) \/ i = Len(dispatched) + 1
        BY <3>1
      <4>2. \A i \in 1..Len(dispatched) : dispatched[i] < s + 1
        BY SMTT(90), <1>3, <2>1
      <4> QED
        BY <2>1, <3>1, <4>1, <4>2
    <3> QED
      BY <1>3, <3>2, <3>3 DEF OrderInv
  <2> QED
    BY <1>3, <2>2, <2>3
<1>4. ASSUME NEW h \in Handlers, NEW s \in Seqs, NEW n \in Seqs, Released(h, s, n)
      PROVE OrderInv'
  <2>1. handler'[h].next = s + 1 /\ dispatched' = Append(dispatched, s) /\ s = next_expected
    BY SMTT(90), <1>1, <1>4 DEF Released, Completes
  <2> QED
    BY SMTT(90), <1>3, <2>1 DEF DispatchInv
<1>5. ASSUME NEW h \in Handlers, dispatch_next(h) PROVE OrderInv'
  <2>1. handler[h] \in Batch /\ handler[h] # Idle /\ handler[h].next <= handler[h].last
    BY SMTT(90), <1>1, <1>5 DEF dispatch_next
  <2>2. handler[h].next \in Seqs
    BY <2>1, BoundsAssumption DEF Batch, Seqs
  <2>3. handler'[h].next = handler[h].next + 1
    BY <1>1, <1>5, <2>1 DEF dispatch_next, Batch
  <2>4. dispatched' = Append(dispatched, handler[h].next) \/ dispatched' = dispatched
    BY <1>5 DEF dispatch_next
  <2> QED
    BY <1>3, <2>1, <2>2, <2>3, <2>4 DEF OrderInv
<1>6. ASSUME NEW h \in Handlers, handler' = [handler EXCEPT ![h] = Idle],
             UNCHANGED <<next_expected, dispatched>>
      PROVE OrderInv'
  BY <1>1, <1>6 DEF OrderInv, InOrderDispatch
<1> QED
  BY <1>2, <1>4, <1>5, <1>6, ReceiverStep

-----------------------------------------------------------------------------
IInv == TypeOK /\ NumberingInv /\ AckInv /\ AttemptsInv /\ DispatchInv /\ RepliesInv

\* The inductive invariant holds throughout.
LEMMA Inductive == Spec => []IInv
<1>1. Init => TypeOK
  BY BoundsAssumption DEF Init, TypeOK, Seqs, Sides
<1>2. Init => NumberingInv /\ AckInv /\ AttemptsInv
  BY BoundsAssumption DEF Init, NumberingInv, AckInv, Taken, AttemptsInv, Scanned, Seqs
<1>3. ASSUME Init PROVE DispatchInv /\ RepliesInv
  <2>1. /\ Len(dispatched) = 0 /\ acks = {} /\ next_expected = 1
        /\ \A h \in Handlers : handler[h].next = 1 /\ handler[h].last = 0
                               /\ handler[h].replies = {}
    BY <1>3 DEF Init, Idle
  <2>2. \A s \in Seqs : s \in Nat /\ replies[s] = 0
    BY SMTT(90), <1>3, BoundsAssumption DEF Init, Seqs
  <2>3. DispatchInv
    BY <2>1, <2>2 DEF DispatchInv, Owes, AtMostOnceDispatch
  <2>4. RepliesInv
    BY <2>1, <2>2 DEF RepliesInv, RepliesAreFromDispatched
  <2> QED
    BY SMTT(90), <2>3, <2>4
<1>4. IInv /\ [Next]_vars => IInv'
  BY TypeStep, NumberingStep, AckStep, AttemptsStep, DispatchStep, RepliesStep DEF IInv
<1> QED
  BY <1>1, <1>2, <1>3, <1>4, PTL DEF Spec, IInv

\* No message is dispatched twice, whatever the network duplicates and
\* however many tasks process packets of the session at one time.
THEOREM AtMostOnce == Spec => []AtMostOnceDispatch
<1>1. IInv => AtMostOnceDispatch
  BY DEF IInv, DispatchInv
<1> QED
  BY <1>1, Inductive, PTL

\* One task at a time (one TCP connection) dispatches in sending order.
THEOREM InOrder ==
    ASSUME \A g, h \in Handlers : g = h
    PROVE  Spec => []InOrderDispatch
<1>1. Init => OrderInv
  BY DEF Init, OrderInv, InOrderDispatch
<1>2. IInv /\ OrderInv /\ [Next]_vars => OrderInv'
  BY SMTT(90), OrderStep DEF IInv
<1>3. OrderInv => InOrderDispatch
  BY DEF OrderInv
<1> QED
  BY <1>1, <1>2, <1>3, Inductive, PTL DEF Spec

\* The runtime's limit on attempts is exceeded by at most one.
THEOREM AttemptsStayBounded == Spec => []AttemptsBounded
<1>1. IInv => AttemptsBounded
  BY SMTT(90) DEF IInv, AttemptsInv, AttemptsBounded
<1> QED
  BY <1>1, Inductive, PTL

\* Replies at the sender stem from messages dispatched at the receiver.
THEOREM RepliesAreGenuine == Spec => []RepliesAreFromDispatched
<1>1. IInv => RepliesAreFromDispatched
  BY DEF IInv, RepliesInv
<1> QED
  BY <1>1, Inductive, PTL

-----------------------------------------------------------------------------
\* The sender, the network and the receiver together implement the channel:
\* exactly the longest prefix is accepted, and acked means taken.
THEOREM Refinement == Spec => ImplementsChannel
<1> USE DEF Channel!ChanInit, Channel!ChanNext, Channel!ChanSend, Channel!ChanReceive,
            Channel!ChanAck, Channel!chan_vars, Channel!LongestPrefix
<1>1. Init => Channel!ChanInit
  BY SMTT(90), BoundsAssumption DEF Init, Seqs
<1>2. IInv /\ [Next]_vars => [Channel!ChanNext]_(Channel!chan_vars)
  <2> SUFFICES ASSUME IInv, [Next]_vars
               PROVE [Channel!ChanNext]_(Channel!chan_vars)
    OBVIOUS
  <2>0. /\ next_outbound \in Nat \ {0} /\ next_expected \in Nat \ {0}
        /\ outbound \in [Seqs -> {"unsent", "pending", "failed", "acked"}]
        /\ NumberingInv /\ AckInv /\ Seqs \subseteq Nat \ {0}
    BY BoundsAssumption DEF IInv, TypeOK, Seqs
  <2> DEFINE A == {s \in Seqs : outbound[s] = "acked"}
  <2>1. ASSUME send_message PROVE Channel!ChanSend
    <3>1. A' = A
      BY <2>0, <2>1 DEF send_message, NumberingInv
    <3> QED
      BY SMTT(90), <2>0, <2>1, <3>1 DEF send_message, receiver_vars
  <2>2. ASSUME UNCHANGED <<next_outbound, next_expected, buffer, delivered_ids>>, A' = A
        PROVE UNCHANGED Channel!chan_vars
    BY SMTT(90), <2>2
  <2>3. ASSUME list_due_reliable_messages PROVE UNCHANGED Channel!chan_vars
    <3>1. A' = A
      BY SMTT(90), <2>0, <2>3 DEF list_due_reliable_messages, Exhausted
    <3> QED
      BY SMTT(90), <2>2, <2>3, <3>1 DEF list_due_reliable_messages, receiver_vars
  <2>4. ASSUME NEW a \in acks, handle_reliable_ack(a) PROVE Channel!ChanNext
    <3>1. a.seq \in Seqs /\ a.seq \in delivered_ids \cup buffer
      BY SMTT(90), <2>0 DEF IInv, TypeOK, AckInv, Taken
    <3>2. A' = A \cup {a.seq}
      BY <2>0, <2>4, <3>1 DEF handle_reliable_ack
    <3>3. a.seq \in 1..(next_outbound - 1)
      <4>1. ASSUME NEW x \in Seqs, x \in delivered_ids \cup buffer
            PROVE x \in 1..(next_outbound - 1)
        <5>1. x < next_outbound
          BY <2>0, <4>1 DEF NumberingInv
        <5>2. x \in Nat \ {0}
          BY SMTT(90), <2>0
        <5> QED
          BY SMTT(90), <2>0, <5>1, <5>2
      <4> QED
        BY <3>1, <4>1
    <3>4. Channel!ChanAck(a.seq)
      BY SMTT(90), <2>4, <3>1, <3>2 DEF handle_reliable_ack, receiver_vars
    <3> QED
      BY SMTT(90), <3>3, <3>4
  <2>5. ASSUME NEW h \in Handlers, NEW s \in Seqs, handle_reliable_data(h, s)
        PROVE Channel!ChanNext \/ UNCHANGED Channel!chan_vars
    <3>1. s \in 1..(next_outbound - 1)
      BY <2>0, <2>5 DEF handle_reliable_data, NumberingInv
    <3>2. UNCHANGED <<next_outbound, outbound>>
      BY SMTT(90), <2>5 DEF handle_reliable_data, sender_vars
    <3>3. CASE UNCHANGED receiver_vars
      BY SMTT(90), <2>2, <3>2, <3>3 DEF receiver_vars
    <3>4. CASE ~Duplicate(s) /\ s > next_expected /\ buffer' = buffer \cup {s}
               /\ UNCHANGED <<next_expected, delivered_ids, handler, dispatched>>
      <4>1. Channel!ChanReceive(s)
        BY SMTT(90), <2>0, <3>1, <3>2, <3>4 DEF NumberingInv
      <4> QED
        BY SMTT(90), <3>1, <4>1
    <3>5. ASSUME NEW n \in Seqs, Released(h, s, n) PROVE Channel!ChanNext
      <4>1. /\ s = next_expected /\ n >= s /\ next_expected' = n + 1
            /\ (s + 1)..n \subseteq buffer /\ n + 1 \notin buffer
            /\ delivered_ids' = 1..n /\ buffer' = buffer \ (s..n)
        BY SMTT(90), <2>0, <3>5 DEF Released, Completes, NumberingInv
      <4>2. delivered_ids' \cup buffer' = delivered_ids \cup buffer \cup {s}
        BY SMTT(90), <2>0, <4>1 DEF NumberingInv
      <4>3. n \in 0..(next_outbound - 1)
        BY <2>0, <3>1, <4>1 DEF NumberingInv
      <4>4. 1..n \subseteq delivered_ids' \cup buffer' /\ n + 1 \notin delivered_ids' \cup buffer'
        BY SMTT(90), <2>0, <4>1
      <4>5. Channel!ChanReceive(s)
        BY SMTT(90), <2>0, <3>1, <3>2, <4>1, <4>2, <4>3, <4>4
      <4> QED
        BY SMTT(90), <3>1, <4>5
    <3> QED
      BY ZenonT(90), <2>5, <3>3, <3>4, <3>5
      DEF handle_reliable_data, receive_reliable_payload, Released
  <2>6. CASE UNCHANGED <<next_outbound, outbound, next_expected, buffer, delivered_ids>>
    BY <2>2, <2>6
  <2> QED
    BY ZenonT(90), <2>1, <2>3, <2>4, <2>5, <2>6
    DEF Next, SendEnds, ResendEnds, vars, sender_vars, receiver_vars, Transmit, send_returns,
        send_raises, resend_due_message, resend_returns, resend_raises,
        dispatch_next, send_reliable_ack, dispatch_raises, session_state_changes
<1> QED
  BY <1>1, <1>2, Inductive, PTL DEF Spec, ImplementsChannel, Channel!ChanSpec
=============================================================================
