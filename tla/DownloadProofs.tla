--------------------------- MODULE DownloadProofs ---------------------------
(***************************************************************************)
(* Proofs about downloads where no packet is handled twice, for any        *)
(* routes, callers, scenarios and contents.                                *)
(***************************************************************************)
EXTENDS ContentTransferProofs

\* No other download of the node has started.
Alone(s) == \A o \in Sessions \ {s} : Node(o) = Node(s) => download[o].status = "none"

\* How far the download of a session is while packet p carries it.
DownloadStage(p) ==
    LET d == download[p.sid]
        start == p.body.val[1]
        end == p.body.val[2]
    IN  /\ p.body.type \in {"INFO_REQUEST", "INFO_RESPONSE"} => d.status = "none"
        /\ p.body.type \in {"RANGE_REQUEST", "RANGE_RESPONSE"} =>
             d.status = "downloading" /\ start = d.next /\ start < end
        /\ p.body.type = "RANGE_RESPONSE" => p.body.data = Bytes(start, end)

\* A download has at most one message on its way, and what it wrote is the
\* beginning of the content while no other download writes to the .part file.
DownloadOnce(s) ==
    /\ download[s].status = "downloading" /\ Alone(s) => part[Node(s)] = Bytes(0, download[s].next)
    /\ download[s].status = "failed" => ~ Alone(s)
    /\ s[1] \notin requested => download[s].status = "none"
    /\ \A p \in packets : p.sid = s /\ p.body.type \in Requests \cup Responses =>
         s[1] \in requested /\ DownloadStage(p)
    /\ \A p, q \in packets :
         /\ p.sid = s /\ p.body.type \in Requests \cup Responses
         /\ q.sid = s /\ q.body.type \in Requests \cup Responses
         => p = q

\* The sessions whose download was asked for at most once.
Patient == {s \in Sessions : s[1] \notin again}

RangesInv == ~Faults({"dup"}) => \A s \in Patient : DownloadOnce(s)
-----------------------------------------------------------------------------

\* Ranges that follow each other make up the content.
LEMMA BytesJoin ==
    ASSUME NEW a \in 0..Size, NEW b \in 0..Size, a <= b
    PROVE  /\ Len(Bytes(a, b)) = b - a
           /\ Bytes(0, a) \o Bytes(a, b) = Bytes(0, b)
           /\ Bytes(0, Size) = Content /\ Bytes(0, 0) = <<>>
<1>1. PICK S : S = Range(Content) /\ Content \in Seq(S)
  BY ContentAssumption, Zenon
<1>2. Size \in Nat /\ Size >= 1 /\ Size = Len(Content)
  BY SizeFacts, Zenon
<1>3. ASSUME NEW k \in 0..Size, NEW l \in 0..Size, k <= l
      PROVE  /\ Bytes(k, l) \in Seq(S) /\ Len(Bytes(k, l)) = l - k
             /\ \A i \in 1..(l - k) : Bytes(k, l)[i] = Content[k + i]
  <2>1. k + 1 \in 1..Len(Content) + 1 /\ l \in k..Len(Content)
    BY <1>2, <1>3
  <2> QED
    BY <1>1, <1>2, <2>1 DEF Bytes
<1>4. ASSUME NEW s \in Seq(S), NEW t \in Seq(S), Len(s) = Len(t),
             \A i \in 1..Len(s) : s[i] = t[i]
      PROVE  s = t
  BY <1>4
<1>5. Bytes(0, a) \o Bytes(a, b) = Bytes(0, b)
  <2>1. PICK u : u = Bytes(0, a) \o Bytes(a, b)
    BY Zenon
  <2>2. /\ Bytes(0, a) \in Seq(S) /\ Len(Bytes(0, a)) = a
        /\ Bytes(a, b) \in Seq(S) /\ Len(Bytes(a, b)) = b - a
        /\ Bytes(0, b) \in Seq(S) /\ Len(Bytes(0, b)) = b
    BY <1>2, <1>3
  <2>3. a \in Nat /\ b \in Nat /\ 0 \in 0..Size /\ a + (b - a) = b /\ a - 0 = a /\ b - 0 = b
    BY <1>2
  <2>4. u \in Seq(S) /\ Len(u) = b
    <3>1. Len(u) = Len(Bytes(0, a)) + Len(Bytes(a, b)) /\ u \in Seq(S)
      <4>1. \A x, y \in Seq(S) : x \o y \in Seq(S) /\ Len(x \o y) = Len(x) + Len(y)
        OBVIOUS
      <4> QED
        BY <2>1, <2>2, <4>1, Zenon
    <3> QED
      BY <2>2, <2>3, <3>1, Zenon
  <2>5. \A i \in 1..b : Bytes(0, b)[i] = Content[i]
    BY <1>3, <2>3
  <2>6. \A i \in 1..a : u[i] = Content[i]
    <3>1. \A i \in 1..a : Bytes(0, a)[i] = Content[i]
      BY <1>3, <2>3
    <3> QED
      BY <2>1, <2>2, <2>3, <3>1
  <2>7. ASSUME NEW i \in 1..b, i > a PROVE u[i] = Content[i]
    <3>1. i - a \in 1..(b - a) /\ a + (i - a) = i
      BY <2>3, <2>7
    <3>2. Bytes(a, b)[i - a] = Content[i]
      BY <1>3, <3>1, ZenonT(30)
    <3>3. u[i] = Bytes(a, b)[i - a]
      BY <2>1, <2>2, <2>3, <2>7
    <3> QED
      BY <3>2, <3>3, Zenon
  <2>8. \A i \in 1..b : u[i] = Bytes(0, b)[i]
    BY <2>3, <2>5, <2>6, <2>7
  <2> QED
    BY <1>4, <2>1, <2>2, <2>4, <2>8, Zenon
<1>6. Bytes(0, Size) = Content
  <2>1. /\ Bytes(0, Size) \in Seq(S) /\ Len(Bytes(0, Size)) = Size
        /\ \A i \in 1..Size : Bytes(0, Size)[i] = Content[i]
    <3>1. Bytes(0, Size) = SubSeq(Content, 1, Size)
      BY DEF Bytes
    <3> QED
      BY <1>1, <1>2, <3>1
  <2> QED
    BY <1>1, <1>2, <1>4, <2>1, Zenon
<1>7. Bytes(0, 0) = <<>>
  BY <1>1 DEF Bytes
<1> QED
  BY <1>3, <1>5, <1>6, <1>7, Zenon

\* The range that was asked for is written, and a download whose file was
\* the beginning of the content does not fail.
RangeWritten(d, o, a, b) ==
    /\ o.d.next = b /\ o.d.status \in {"downloading", "completed", "failed"}
    /\ o.d.status = "downloading" => o.d.part = d.part \o Bytes(a, b)
    /\ d.part = Bytes(0, a) => o.d.status # "failed"

LEMMA RangeHandled ==
    ASSUME NEW s, NEW p, NEW d, NEW o \in HandleContentMessage(s, p, d),
           IsDownload(d), d.status = "downloading", p.body.type = "RANGE_RESPONSE",
           NEW a \in 0..Size, NEW b \in 1..Size, a < b, a = d.next,
           p.body.val[1] = a, p.body.val[2] = b, p.body.data = Bytes(a, b)
    PROVE  RangeWritten(d, o, a, b)
<1>1. o \in _handle_content_range_response(s, p, d)
  BY Dispatches
<1>2. PICK e : e = handle_content_range_response(d, p)
  BY Zenon
<1>3. o.d = e
  <2>1. o = [side |-> s, reply |-> get_next_range_request(e), d |-> e,
             publish |-> e.status = "completed"]
    BY <1>1, <1>2, Zenon DEF _handle_content_range_response, ContentOutcome
  <2> QED
    BY <2>1, Zenon
<1>4. PICK pt, fl : /\ d = [status |-> "downloading", next |-> a, part |-> pt, final |-> fl]
                    /\ pt = d.part
  BY Zenon DEF IsDownload
<1>5. PICK wp : wp = pt \o Bytes(a, b)
  BY Zenon
<1>6. PICK w : w = AppendRange(d, p)
  BY Zenon
<1>7. w = [status |-> "downloading", next |-> b, part |-> wp, final |-> fl]
  BY <1>4, <1>5, <1>6, Zenon DEF AppendRange
<1>8. b \in 0..Size /\ a \in Int /\ b \in Int /\ a <= b /\ Size \in 0..Size
  BY SizeFacts
<1>9. Len(Bytes(a, b)) = b - a /\ Bytes(0, a) \o Bytes(a, b) = Bytes(0, b)
      /\ Bytes(0, Size) = Content
  BY <1>8, BytesJoin, Zenon
<1>10. b = a + Len(p.body.data)
  BY <1>8, <1>9
<1>11. e = IF b >= Size THEN _complete_download(w) ELSE w
  <2>1. w.next = b
    BY <1>7, Zenon
  <2> QED
    BY <1>2, <1>6, <1>10, <2>1, Zenon DEF handle_content_range_response
<1>12. CASE e = w
  BY <1>3, <1>4, <1>5, <1>7, <1>12 DEF RangeWritten
<1>13. CASE b >= Size /\ e = _complete_download(w)
  <2>1. b = Size
    BY <1>13, SizeFacts
  <2>2. pt = Bytes(0, a) => wp = Content /\ Len(wp) = Size
    BY <1>5, <1>9, <2>1, SizeFacts, Zenon
  <2>3. \/ wp # Content \/ Len(wp) # Size
        \/ e = [w EXCEPT !.status = "completed", !.final = w.part, !.part = <<>>]
    BY <1>7, <1>13, Zenon DEF _complete_download
  <2>4. \/ e = [w EXCEPT !.status = "failed"]
        \/ e = [w EXCEPT !.status = "completed", !.final = w.part, !.part = <<>>]
    BY <1>13, Zenon DEF _complete_download
  <2>5. e.next = b /\ e.status \in {"completed", "failed"}
        /\ (e = [w EXCEPT !.status = "completed", !.final = w.part, !.part = <<>>] =>
              e.status = "completed")
    BY <1>7, <2>4, Zenon
  <2> QED
    BY <1>3, <1>4, <2>2, <2>3, <2>5, Zenon DEF RangeWritten
<1> QED
  BY <1>11, <1>12, <1>13, Zenon

LEMMA InfoHandled ==
    ASSUME NEW s, NEW p, NEW d, NEW o \in HandleContentMessage(s, p, d),
           IsDownload(d), d.status = "none", p.body.type = "INFO_RESPONSE"
    PROVE  o.d.status = "downloading" /\ o.d.next = 0 /\ o.d.part = <<>>
<1>1. o \in _handle_content_info_response(s, p, d)
  BY Dispatches
<1>2. o.d = start_or_update_download(d)
  BY <1>1 DEF _handle_content_info_response, ContentOutcome
<1>3. PICK nx, pt, fl : d = [status |-> "none", next |-> nx, part |-> pt, final |-> fl]
  BY Zenon DEF IsDownload
<1>4. start_or_update_download(d) = [status |-> "downloading", next |-> 0, part |-> <<>>, final |-> fl]
  BY <1>3, Zenon DEF start_or_update_download
<1> QED
  BY <1>2, <1>4

ContentTypes == Requests \cup Responses

LEMMA AloneAfter ==
    ASSUME NEW s, UNCHANGED setup
    PROVE  Alone(s)' <=> \A o \in Sessions \ {s} : Node(o) = Node(s) => download'[o].status = "none"
<1>1. Sessions' = Sessions /\ \A o : Node(o)' = Node(o)
  BY Zenon DEF Sessions, Callers, Entries, Node
<1> QED
  BY <1>1, Zenon DEF Alone

\* A session whose download the step does not concern, but for the .part
\* file when the download of another session writes to it.
LEMMA RangesKept ==
    ASSUME NEW s, DownloadOnce(s), UNCHANGED setup, requested \subseteq requested',
           download'[s].status = download[s].status, download'[s].next = download[s].next,
           Alone(s)' => Alone(s) /\ part'[Node(s)] = part[Node(s)],
           \A q \in packets' : q.sid = s /\ q.body.type \in ContentTypes => q \in packets
    PROVE  DownloadOnce(s)'
<1>1. Node(s)' = Node(s)
  BY Zenon DEF Node
<1>2. ASSUME NEW q \in packets', q.sid = s, q.body.type \in ContentTypes
      PROVE  s[1] \in requested' /\ DownloadStage(q)'
  <2>1. q \in packets /\ s[1] \in requested /\ DownloadStage(q)
    BY <1>2, Zenon DEF DownloadOnce, ContentTypes
  <2> QED
    BY <1>2, <2>1, Zenon DEF DownloadStage, Bytes
<1>3. \A p, q \in packets' :
         /\ p.sid = s /\ p.body.type \in ContentTypes
         /\ q.sid = s /\ q.body.type \in ContentTypes
         => p = q
  BY Zenon DEF DownloadOnce, ContentTypes
<1>4. download'[s].status = "downloading" /\ Alone(s)' => part'[Node(s)] = Bytes(0, download'[s].next)
  BY Zenon DEF DownloadOnce
<1>5. download'[s].status = "failed" => ~ Alone(s)'
  BY Zenon DEF DownloadOnce
<1>6. s[1] \notin requested' => download'[s].status = "none"
  BY Zenon DEF DownloadOnce
<1> QED
  BY <1>1, <1>2, <1>3, <1>4, <1>5, <1>6, Zenon DEF DownloadOnce, ContentTypes, Bytes

\* The download of s goes on with the packets sent by this step.
LEMMA RangesReplaced ==
    ASSUME NEW s, UNCHANGED setup, s[1] \in requested',
           download'[s].status = "downloading" /\ Alone(s)' =>
             part'[Node(s)] = Bytes(0, download'[s].next),
           download'[s].status = "failed" => ~ Alone(s)',
           \A q \in packets' : q.sid = s /\ q.body.type \in ContentTypes => DownloadStage(q)',
           \A p, q \in packets' : /\ p.sid = s /\ p.body.type \in ContentTypes
                                  /\ q.sid = s /\ q.body.type \in ContentTypes
                                  => p = q
    PROVE  DownloadOnce(s)'
<1>1. Node(s)' = Node(s)
  BY Zenon DEF Node
<1> QED
  BY <1>1, Zenon DEF DownloadOnce, ContentTypes, Bytes

\* A step that leaves the downloads alone and sends no content message.
LEMMA QuietRanges ==
    ASSUME \A s \in Patient : DownloadOnce(s), UNCHANGED <<setup, download, part, requested>>,
           \A q \in packets' : q \in packets \/ q.body.type \notin ContentTypes
    PROVE  \A s \in Patient : DownloadOnce(s)'
<1>1. TAKE s \in Patient
<1>2. Alone(s)' => Alone(s)
  BY AloneAfter, Zenon DEF Alone
<1> QED
  BY <1>2, RangesKept, Zenon

LEMMA RequestRanges ==
    ASSUME IInv, TypeInv, \A s \in Patient : DownloadOnce(s),
           NEW v \in Callers, start_content_download(v)
    PROVE  again \subseteq again' /\ \A s \in Patient : s[1] \notin again' => DownloadOnce(s)'
<1>1. PICK s : s = caller[v].sid
  BY Zenon
<1>2. /\ caller[v].pc = "returned" /\ UNCHANGED <<setup, download, part>>
      /\ requested' = requested \cup {v}
      /\ again' = IF v \in requested THEN again \cup {v} ELSE again
      /\ packets' = _send_virtual_envelope(Node(s), s, "INFO_REQUEST", packets)
  BY <1>1, Zenon DEF start_content_download, sessionVars
<1>3. s \in Sessions /\ s[1] = v
  BY <1>1, <1>2, Zenon DEF TypeInv, CallersInv
<1>4. /\ \A q \in packets' : q \in packets \/ (q.sid = s /\ q.body.type = "INFO_REQUEST")
      /\ \A q1, q2 \in packets' : q1 \in packets \/ q2 \in packets \/ q1 = q2
  BY <1>2, Envelopes
<1>5. SUFFICES ASSUME NEW z \in Patient, z[1] \notin again' PROVE DownloadOnce(z)'
  BY <1>2, Zenon
<1>6. Alone(z)' => Alone(z)
  BY <1>2, AloneAfter, Zenon DEF Alone
<1>7. CASE z # s
  <2>1. \A q \in packets' : q.sid = z /\ q.body.type \in ContentTypes => q \in packets
    BY <1>4, <1>7, Zenon
  <2> QED
    BY <1>2, <1>6, <2>1, RangesKept, Zenon
<1>8. CASE z = s
  <2>0. v \notin requested
    BY <1>2, <1>3, <1>5, <1>8, Zenon
  <2>1. /\ download[s].status = "none"
        /\ \A q \in packets : ~(q.sid = s /\ q.body.type \in ContentTypes)
    BY <1>3, <1>8, <2>0, Zenon DEF DownloadOnce, ContentTypes
  <2>2. \A q \in packets' : q.sid = s /\ q.body.type \in ContentTypes =>
          q.body.type = "INFO_REQUEST" /\ q \notin packets
    BY <1>4, <2>1, Zenon
  <2>3. \A q \in packets' : q.sid = s /\ q.body.type \in ContentTypes => DownloadStage(q)'
    BY <1>2, <2>1, <2>2, Zenon DEF DownloadStage
  <2>4. \A p, q \in packets' : /\ p.sid = s /\ p.body.type \in ContentTypes
                               /\ q.sid = s /\ q.body.type \in ContentTypes
                               => p = q
    BY <1>4, <2>2, Zenon
  <2>5. download'[s].status = "none" /\ s[1] \in requested'
    BY <1>2, <1>3, <2>1, Zenon
  <2>6. DownloadOnce(s)'
    BY <1>2, <2>3, <2>4, <2>5, RangesReplaced, Zenon
  <2> QED
    BY <1>8, <2>6, Zenon
<1> QED
  BY <1>7, <1>8, Zenon

\* Handling a response to a download leaves the download started.
LEMMA Started ==
    ASSUME NEW s, NEW p, ContentPacket(p), p.body.type \in Ranges,
           NEW d, IsDownload(d), NEW o \in HandleContentMessage(s, p, d)
    PROVE  o.d.status # "none"
<1>1. d.status # "none" => o.d.status # "none"
  <2>1. MovesOn(d, o)
    BY Downloads, Zenon
  <2> QED
    BY <2>1, Zenon DEF MovesOn
<1>2. CASE p.body.type = "INFO_RESPONSE" /\ d.status = "none"
  BY <1>2, InfoHandled
<1>3. CASE p.body.type = "RANGE_RESPONSE" /\ d.status = "none"
  <2>1. o \in _handle_content_range_response(s, p, d)
    BY <1>3, Dispatches, Zenon
  <2> QED
    BY <1>3, <2>1, Zenon DEF _handle_content_range_response
<1> QED
  BY <1>1, <1>2, <1>3, Zenon DEF Ranges

\* A message of a download is handled.
LEMMA ContentRanges ==
    ASSUME IInv, TypeInv, \A s \in Patient : DownloadOnce(s),
           NEW p \in packets, IsLocal(p), DispatchContent(p, packets \ {p})
    PROVE  \A s \in Patient : DownloadOnce(s)'
<1> DEFINE rest == packets \ {p}
<1>1. PICK side, o, d : ContentEffect(p, rest, side, o, d)
  BY ContentStep, Zenon DEF TypeInv
<1>2. PICK s, n : s = p.sid /\ n = p.at
  BY Zenon
<1>3. s \in Sessions /\ s \in Sids /\ n \in Nodes /\ StoreInv /\ ContentPacket(p)
  BY <1>2, Ends, Zenon DEF TypeInv, StoreInv
<1>4. /\ side = SessionAt(n, s) /\ o \in HandleContentMessage(side, p, d)
      /\ UNCHANGED <<setup, requested>>
      /\ d = [status |-> download[s].status, next |-> download[s].next,
              part |-> part[n], final |-> final[n]]
  BY <1>1, <1>2, Zenon DEF ContentEffect
<1>5. /\ \A q \in packets' : q \in rest \/
           /\ q.sid = s /\ q.dir = _opposite_route_direction(p.dir)
           /\ q.body = o.reply /\ o.reply # NoBody
      /\ \A q1, q2 \in packets' : q1 \in rest \/ q2 \in rest \/ q1 = q2
  BY <1>1, <1>2, Zenon DEF ContentEffect
<1>6. /\ download' = [download EXCEPT ![s] = [status |-> o.d.status, next |-> o.d.next]]
      /\ part' = [part EXCEPT ![n] = o.d.part]
  BY <1>1, <1>2, Zenon DEF ContentEffect
<1>7. /\ download'[s].status = o.d.status /\ download'[s].next = o.d.next
      /\ \A z \in Sids : z # s => download'[z] = download[z]
      /\ \A m \in Nodes : part'[m] = IF m = n THEN o.d.part ELSE part[m]
  BY <1>3, <1>6, Zenon DEF StoreInv
<1>8. d.status = download[s].status /\ d.next = download[s].next /\ d.part = part[n]
      /\ d.final \in {<<>>, Content} /\ IsDownload(d) /\ o \in HandleContentMessage(side, p, d)
  BY <1>3, <1>4, Zenon DEF StoreInv, IsDownload
<1>9. \A z \in Sessions : z \in Sids /\ Node(z) \in Nodes
  BY SessionFacts, Zenon DEF IInv
<1>10. s \in Patient => DownloadOnce(s)
  BY Zenon
<1>11. s \in Patient /\ p.body.type \in ContentTypes =>
         /\ s[1] \in requested /\ DownloadStage(p)
         /\ \A q \in rest : ~(q.sid = s /\ q.body.type \in ContentTypes)
  BY <1>2, <1>10, Zenon DEF DownloadOnce, ContentTypes
<1>12. s \in Patient /\ p.body.type \in ContentTypes =>
         /\ \A q \in packets' : q.sid = s /\ q.body.type \in ContentTypes =>
              q.body = o.reply /\ o.reply # NoBody
         /\ \A q1, q2 \in packets' : /\ q1.sid = s /\ q1.body.type \in ContentTypes
                                     /\ q2.sid = s /\ q2.body.type \in ContentTypes
                                     => q1 = q2
  BY <1>5, <1>11, Zenon
<1>13. \A q \in packets' : q.sid # s => q \in packets
  BY <1>5, Zenon
<1>sub. Patient \subseteq Sessions
  BY Zenon DEF Patient
<1> HIDE DEF rest
<1>14. ASSUME o.d = d, p.body.type \notin Ranges PROVE \A z \in Patient : DownloadOnce(z)'
  <2>1. \A z \in Sids : download'[z].status = download[z].status /\ download'[z].next = download[z].next
    BY <1>7, <1>8, <1>14
  <2>2. \A m \in Nodes : part'[m] = part[m]
    BY <1>7, <1>8, <1>14, Zenon
  <2>3. ASSUME NEW z \in Sessions PROVE Alone(z)' => Alone(z) /\ part'[Node(z)] = part[Node(z)]
    BY <1>4, <1>9, <2>1, <2>2, AloneAfter, Zenon DEF Alone
  <2>4. ASSUME NEW z \in Patient,
               \A q \in packets' : q.sid = z /\ q.body.type \in ContentTypes => q \in packets
        PROVE  DownloadOnce(z)'
    <3>1. z \in Sids /\ DownloadOnce(z) /\ requested \subseteq requested' /\ z \in Sessions
      BY <1>4, <1>9, <1>sub, Zenon
    <3> QED
      BY <1>4, <2>1, <2>3, <2>4, <3>1, RangesKept
  <2>5. CASE p.body.type \in Requests /\ s \in Patient
    <3>1. Answered(side, p, d, o) /\ p.body.type \in ContentTypes
      BY <1>3, <1>8, <2>5, Answers DEF ContentTypes
    <3>2. /\ o.reply.type = "INFO_RESPONSE" => p.body.type = "INFO_REQUEST"
          /\ o.reply.type = "RANGE_RESPONSE" =>
               /\ p.body.type = "RANGE_REQUEST"
               /\ o.reply.val[1] = p.body.val[1] /\ o.reply.val[2] = p.body.val[2]
               /\ o.reply.data = Bytes(p.body.val[1], p.body.val[2])
          /\ o.reply.type \in Responses
      BY <3>1, Zenon DEF Answered
    <3>3. DownloadStage(p) /\ s[1] \in requested'
      BY <1>4, <1>11, <2>5, <3>1, Zenon
    <3>4. ASSUME NEW q \in packets', q.sid = s, q.body.type \in ContentTypes
          PROVE  DownloadStage(q)'
      <4>1. q.body = o.reply
        BY <1>12, <2>5, <3>1, <3>4, Zenon
      <4>2. q.body.type \in Responses /\ download'[s].status = download[s].status
            /\ download'[s].next = download[s].next
        BY <1>3, <2>1, <3>2, <4>1
      <4>3. q.body.type \notin {"INFO_REQUEST", "RANGE_REQUEST"}
        BY <4>2, Zenon DEF Responses
      <4>4. q.body.type = "INFO_RESPONSE" => download'[s].status = "none"
        BY <1>2, <3>2, <3>3, <4>1, <4>2, Zenon DEF DownloadStage
      <4>5. q.body.type = "RANGE_RESPONSE" =>
              /\ download'[s].status = "downloading" /\ q.body.val[1] = download'[s].next
              /\ q.body.val[1] < q.body.val[2]
              /\ q.body.data = Bytes(q.body.val[1], q.body.val[2])
        BY <1>2, <3>2, <3>3, <4>1, <4>2 DEF DownloadStage
      <4> QED
        BY <3>4, <4>3, <4>4, <4>5, Zenon DEF DownloadStage, Bytes
    <3>5. /\ download'[s].status = "downloading" /\ Alone(s)' =>
               part'[Node(s)] = Bytes(0, download'[s].next)
          /\ download'[s].status = "failed" => ~ Alone(s)'
      BY <1>3, <1>10, <2>1, <2>3, <2>5, Zenon DEF DownloadOnce
    <3>6. DownloadOnce(s)'
      BY <1>4, <1>12, <2>5, <3>1, <3>3, <3>4, <3>5, RangesReplaced, Zenon
    <3>7. TAKE z \in Patient
    <3>8. CASE z # s
      BY <1>13, <2>4, <3>8, Zenon
    <3> QED
      BY <3>6, <3>8, Zenon
  <2>6. CASE p.body.type \notin Requests
    <3>1. Ignored(side, d, o)
      BY <1>8, <1>14, <2>6, Errors, Zenon
    <3>2. \A q \in packets' : q \in packets
      BY <1>5, <3>1, Zenon DEF rest, Ignored
    <3> QED
      BY <2>4, <3>2, Zenon
  <2>7. CASE s \notin Patient
    BY <1>13, <2>4, <2>7, Zenon
  <2> QED
    BY <2>5, <2>6, <2>7, Zenon
<1>15. CASE p.body.type \in Ranges
  <2>1. p.body.type \in ContentTypes /\ p.dir = "vn_to_pn"
    BY <1>3, <1>15 DEF Ranges, ContentTypes, Responses, ContentPacket
  <2>2. side.state = "active" /\ AsksNext(o)
    BY <1>3, <1>8, <1>15, Downloads, Zenon
  <2>3. n = Node(s)
    <3>1. SessionAt(p.at, p.sid) # NoSide
      BY <1>2, <1>4, <2>2 DEF NoSide
    <3> QED
      BY <1>2, <2>1, <3>1, HandledWhere, Zenon
  <2>4. s \in Patient => DownloadStage(p) /\ s[1] \in requested'
    BY <1>4, <1>11, <2>1, Zenon
  <2>5. ASSUME s \in Patient, NEW q \in packets', q.sid = s, q.body.type \in ContentTypes
        PROVE  DownloadStage(q)'
    <3>1. q.body = o.reply /\ o.reply # NoBody
      BY <1>12, <2>1, <2>5, Zenon
    <3>2. PICK end \in 1..Size : /\ end > o.d.next /\ o.d.status = "downloading"
                                 /\ o.reply = Body("RANGE_REQUEST", <<o.d.next, end>>)
      BY <2>2, <3>1, Zenon DEF AsksNext
    <3>3. q.body.type = "RANGE_REQUEST" /\ q.body.val[1] = o.d.next /\ q.body.val[2] = end
      BY <3>1, <3>2 DEF Body
    <3>4. /\ download'[s].status = "downloading" /\ q.body.val[1] = download'[s].next
          /\ q.body.val[1] < q.body.val[2]
      BY <1>7, <3>2, <3>3, Zenon
    <3> QED
      BY <2>5, <3>3, <3>4, Zenon DEF DownloadStage
  <2>status. o.d.status # "none"
    BY <1>3, <1>8, <1>15, Started, Zenon
  <2>6. ASSUME s \in Patient
        PROVE  /\ o.d.status = "downloading" /\ Alone(s) => o.d.part = Bytes(0, o.d.next)
               /\ o.d.status = "failed" => ~ Alone(s)
    <3>1. CASE p.body.type = "INFO_RESPONSE"
      <4>1. d.status = "none"
        BY <1>2, <1>8, <2>4, <2>6, <3>1, Zenon DEF DownloadStage
      <4>2. o.d.status = "downloading" /\ o.d.next = 0 /\ o.d.part = <<>>
        BY <1>8, <3>1, <4>1, InfoHandled, Zenon
      <4>3. 0 \in 0..Size
        BY SizeFacts
      <4>4. Bytes(0, 0) = <<>>
        BY <4>3, BytesJoin
      <4> QED
        BY <4>2, <4>4, Zenon
    <3>2. CASE p.body.type = "RANGE_RESPONSE"
      <4>1. PICK a, b : a = p.body.val[1] /\ b = p.body.val[2]
        OBVIOUS
      <4>2. /\ d.status = "downloading" /\ a = d.next /\ a < b /\ p.body.data = Bytes(a, b)
        BY <1>2, <1>8, <2>4, <2>6, <3>2, <4>1, Zenon DEF DownloadStage
      <4>3. a \in 0..Size /\ b \in 1..Size
        BY <1>3, <1>8, <3>2, <4>1, <4>2, Zenon DEF ContentPacket, IsDownload
      <4>4. RangeWritten(d, o, a, b)
        BY <1>8, <3>2, <4>1, <4>2, <4>3, RangeHandled, Zenon
      <4>5. Alone(s) => d.part = Bytes(0, a)
        BY <1>8, <1>10, <2>3, <2>6, <4>2, Zenon DEF DownloadOnce
      <4>6. b \in 0..Size /\ a <= b
        BY <4>2, <4>3, SizeFacts
      <4>7. Bytes(0, a) \o Bytes(a, b) = Bytes(0, b)
        BY <4>3, <4>6, BytesJoin, Zenon
      <4> QED
        BY <4>4, <4>5, <4>7, Zenon DEF RangeWritten
    <3> QED
      BY <1>15, <3>1, <3>2, Zenon DEF Ranges
  <2>7. Alone(s)' => Alone(s)
    BY <1>4, <1>7, <1>9, AloneAfter DEF Alone
  <2>8. ASSUME s \in Patient
        PROVE  /\ download'[s].status = "downloading" /\ Alone(s)' =>
                    part'[Node(s)] = Bytes(0, download'[s].next)
               /\ download'[s].status = "failed" => ~ Alone(s)'
    BY <1>3, <1>7, <2>3, <2>6, <2>7, <2>8
  <2>9. ASSUME s \in Patient PROVE DownloadOnce(s)'
    BY <1>4, <1>12, <2>1, <2>4, <2>5, <2>8, <2>9, RangesReplaced, Zenon
  <2>10. TAKE z \in Patient
  <2>11. CASE z # s
    <3>1. /\ z \in Sids /\ DownloadOnce(z) /\ requested \subseteq requested' /\ Node(z) \in Nodes
          /\ download'[z].status = download[z].status /\ download'[z].next = download[z].next
      BY <1>4, <1>7, <1>9, <1>sub, <2>11, Zenon
    <3>2. Alone(z)' => Node(z) # n
      BY <1>3, <1>4, <1>7, <2>3, <2>status, <2>11, AloneAfter, Zenon
    <3>3. Alone(z)' => Alone(z)
      <4>1. SUFFICES ASSUME Alone(z)', NEW y \in Sessions \ {z}, Node(y) = Node(z)
                     PROVE  download[y].status = "none"
        BY Zenon DEF Alone
      <4>2. y # s /\ download'[y].status = "none" /\ y \in Sids
        BY <1>4, <1>9, <2>3, <3>2, <4>1, AloneAfter
      <4> QED
        BY <1>7, <4>2, Zenon
    <3>4. Alone(z)' => part'[Node(z)] = part[Node(z)]
      BY <1>7, <3>1, <3>2, Zenon
    <3>5. \A q \in packets' : q.sid = z /\ q.body.type \in ContentTypes => q \in packets
      BY <1>13, <2>11, Zenon
    <3> QED
      BY <1>4, <3>1, <3>3, <3>4, <3>5, RangesKept, Zenon
  <2> QED
    BY <2>9, <2>11, Zenon
<1>16. p.body.type \notin Ranges => o.d = d
  <2>1. HAVE p.body.type \notin Ranges
  <2>2. CASE p.body.type \in Requests
    <3>1. Answered(side, p, d, o)
      BY <1>3, <1>8, <2>2, Answers
    <3> QED
      BY <3>1, Zenon DEF Answered
  <2>3. CASE p.body.type \notin Requests
    <3>1. Ignored(side, d, o)
      BY <1>8, <2>1, <2>3, Errors, Zenon
    <3> QED
      BY <3>1, Zenon DEF Ignored
  <2> QED
    BY <2>2, <2>3, Zenon
<1> QED
  BY <1>14, <1>15, <1>16, Zenon

LEMMA HandleRanges ==
    ASSUME IInv, TypeInv, \A s \in Patient : DownloadOnce(s),
           NEW p \in packets, handle(p), faults'["dup"] <= 0, UNCHANGED setup
    PROVE  \A s \in Patient : DownloadOnce(s)'
<1>1. PICK rest \in Rests(p) :
        /\ Duplicated(p, rest)
        /\ \/ forward_message(p, rest) /\ UNCHANGED <<setup, sess, caller, sent, contentVars>>
           \/ DeliverLocal(p, rest)
  BY Zenon DEF handle
<1>2. rest = packets \ {p}
  BY <1>1, Handlings, Zenon DEF TypeInv
<1>3. p.sid \in Sids /\ p.sid \in Sessions
  BY Ends, Zenon
<1>4. CASE forward_message(p, rest) /\ UNCHANGED <<setup, sess, caller, sent, contentVars>>
  <2>1. PICK q : packets' = rest \cup {q} /\ q.body = p.body /\ q.sid = p.sid
    <3>1. PICK hop : packets' = rest \cup {RouteData(p.at, hop, p.dir, p.sid, p.key, p.body)}
      BY <1>4, Zenon DEF forward_message
    <3>2. PICK q : q = RouteData(p.at, hop, p.dir, p.sid, p.key, p.body)
      BY Zenon
    <3> QED
      BY <3>1, <3>2 DEF RouteData
  <2>2. UNCHANGED <<download, part, requested>>
    BY <1>4, Zenon DEF contentVars
  <2>3. CASE p.body.type \notin ContentTypes
    BY <1>2, <2>1, <2>2, <2>3, QuietRanges, Zenon
  <2>4. CASE p.body.type \in ContentTypes /\ p.sid \in Patient
    <3>1. PICK s : s = p.sid
      BY Zenon
    <3>2. DownloadOnce(s) /\ s \in Sessions
      BY <1>3, <2>4, <3>1, Zenon
    <3>3. /\ s[1] \in requested /\ DownloadStage(p)
          /\ \A x \in rest : ~(x.sid = s /\ x.body.type \in ContentTypes)
      BY <1>2, <2>4, <3>1, <3>2, Zenon DEF DownloadOnce, ContentTypes
    <3>4. DownloadStage(q)'
      BY <2>1, <2>2, <3>3, Zenon DEF DownloadStage, Bytes
    <3>5. \A x \in packets' : x.sid = s /\ x.body.type \in ContentTypes => x = q
      BY <2>1, <3>3, Zenon
    <3>6. \A z \in Sessions : Alone(z)' => Alone(z)
      BY <2>2, AloneAfter DEF Alone
    <3>7. /\ download'[s].status = "downloading" /\ Alone(s)' =>
               part'[Node(s)] = Bytes(0, download'[s].next)
          /\ download'[s].status = "failed" => ~ Alone(s)'
          /\ s[1] \in requested'
      BY <2>2, <3>2, <3>3, <3>6, Zenon DEF DownloadOnce
    <3>8. DownloadOnce(s)'
      BY <3>4, <3>5, <3>7, RangesReplaced, Zenon
    <3>9. TAKE z \in Patient
    <3>10. CASE z # s
      <4>1. \A x \in packets' : x.sid = z /\ x.body.type \in ContentTypes => x \in packets
        BY <1>2, <2>1, <3>1, <3>10, Zenon
      <4> QED
        BY <2>2, <3>6, <3>9, <4>1, RangesKept, Zenon DEF Patient
    <3> QED
      BY <3>8, <3>10, Zenon
  <2>5. CASE p.sid \notin Patient
    <3>1. TAKE z \in Patient
    <3>2. \A x \in packets' : x.sid = z /\ x.body.type \in ContentTypes => x \in packets
      BY <1>2, <2>1, <2>5, Zenon
    <3>3. Alone(z)' => Alone(z)
      BY <2>2, AloneAfter DEF Alone
    <3> QED
      BY <2>2, <3>2, <3>3, RangesKept, Zenon
  <2> QED
    BY <2>3, <2>4, <2>5, Zenon
<1>5. CASE DeliverLocal(p, rest)
  <2>1. IsLocal(p)
    BY <1>5, Zenon DEF DeliverLocal
  <2>2. CASE DispatchSession(p, rest)
    <3>1. PICK side : side = SessionAt(p.at, p.sid)
      BY Zenon
    <3>2. PICK o \in HandleSessionMessage(p.at, side, p) : _deliver_local_route_data(p, o, rest)
      BY <2>2, <3>1, Zenon DEF DispatchSession
    <3>3. p.body.type \in SessionMessages /\ UNCHANGED <<download, part, requested>>
      BY <2>2, Zenon DEF DispatchSession, contentVars
    <3>4. IsSide(side)
      <4>1. IsSide(NoSide)
        BY Zenon DEF IsSide, NoSide, States
      <4>2. IsSide(sess[p.sid]["c"]) /\ IsSide(sess[p.sid]["t"])
        BY <1>3, Zenon DEF TypeInv, SidesInv
      <4> QED
        BY <3>1, <4>1, <4>2, Zenon DEF SessionAt, SideAt
    <3>5. o.reply.type \notin ContentTypes
      BY <3>2, <3>3, <3>4, SessionOutcomes, Zenon DEF ContentTypes
    <3>6. \A q \in packets' : q \in rest \/ q.body = o.reply
      <4>1. _deliver_local_route_data(p, o, rest)
        BY <3>2, Zenon
      <4>2. /\ UNCHANGED <<rows, ingress, setup, caller, sent>>
            /\ sess' = [sess EXCEPT ![p.sid][SideAt(p.at, p.sid)] = o.side]
            /\ \A q \in packets' : q \in rest \/
                 /\ q.sid = p.sid /\ q.dir = _opposite_route_direction(p.dir)
                 /\ q.body = o.reply /\ o.reply # NoBody
            /\ \A q1, q2 \in packets' : q1 \in rest \/ q2 \in rest \/ q1 = q2
        BY <4>1, Replies, Zenon
      <4> QED
        BY <4>2, Zenon
    <3>7. \A q \in packets' : q \in packets \/ q.body.type \notin ContentTypes
      BY <1>2, <3>5, <3>6, Zenon
    <3> QED
      BY <3>3, <3>7, QuietRanges, Zenon
  <2>3. CASE DispatchContent(p, rest)
    BY <1>2, <2>1, <2>3, ContentRanges, Zenon
  <2>4. CASE packets' = rest /\ UNCHANGED <<rows, ingress, setup, sess, caller, sent, contentVars>>
    <3>1. UNCHANGED <<download, part, requested>> /\ packets' \subseteq packets
      BY <1>2, <2>4, Zenon DEF contentVars
    <3> QED
      BY <3>1, QuietRanges, Zenon
  <2> QED
    BY <1>5, <2>2, <2>3, <2>4 DEF DeliverLocal
<1> QED
  BY <1>1, <1>4, <1>5, Zenon

LEMMA HandledOnce ==
    ASSUME NEW p, handle(p)
    PROVE  UNCHANGED again
BY Zenon DEF handle, DeliverLocal, DispatchSession, DispatchContent, contentVars

LEMMA RangesInitially ==
    ASSUME Init
    PROVE  RangesInv
<1>1. SUFFICES ASSUME NEW s \in Sessions PROVE DownloadOnce(s)
  BY Zenon DEF RangesInv, Patient
<1>2. packets = {} /\ s \in Sids
  BY Zenon DEF Init, Sessions
<1>3. download[s].status = "none"
  BY <1>2, Zenon DEF Init
<1> QED
  BY <1>2, <1>3, Zenon DEF DownloadOnce

LEMMA RangesStep ==
    ASSUME IInv, TypeInv, RangesInv, [Next]_vars
    PROVE  RangesInv'
<1> DEFINE Goal == /\ again \subseteq again'
                   /\ \A s \in Patient : s[1] \notin again' => DownloadOnce(s)'
<1>1. SUFFICES ASSUME ~Faults({"dup"})' PROVE Goal
  BY SetupKept, Zenon DEF RangesInv, Patient
<1>2. TypeInv' /\ faults'["dup"] >= faults["dup"] /\ UNCHANGED setup
  BY TypesKept, SetupKept, Zenon
<1>3. faults["dup"] \in Nat /\ faults'["dup"] \in Nat
  BY <1>2, Zenon DEF TypeInv, FaultsInv, FaultKinds
<1>4. faults'["dup"] <= 0 /\ ~(faults["dup"] > 0)
  BY <1>1, <1>2, <1>3 DEF Faults
<1>5. \A s \in Patient : DownloadOnce(s)
  BY <1>4, NeverTwice, Zenon DEF RangesInv
<1>6. ASSUME NEW p \in packets, handle(p) PROVE Goal
  BY <1>2, <1>4, <1>5, <1>6, HandleRanges, HandledOnce, Zenon
<1>7. ASSUME NEW v \in Callers, start_content_download(v) PROVE Goal
  BY <1>5, <1>7, RequestRanges, Zenon
<1>8. ASSUME UNCHANGED contentVars,
             \A q \in packets' : q \in packets \/ q.body.type \notin ContentTypes
      PROVE  Goal
  BY <1>2, <1>5, <1>8, QuietRanges DEF contentVars
<1>9. ASSUME NEW v \in Callers, CallerSteps(v) PROVE Goal
  <2>1. CASE _start_session_over_entry_point(v) /\ UNCHANGED contentVars
    <3>1. PICK k, s, a, x, q : OverEffect(v, k, s, a, x, q)
      BY <2>1, OverCases, Zenon
    <3>2. \A y \in packets' : y \in packets \/ y.body.type = "INIT"
      BY <3>1, Zenon DEF OverEffect
    <3> QED
      BY <1>8, <2>1, <3>2, Zenon DEF ContentTypes, Requests, Responses
  <2>2. CASE /\ UNCHANGED contentVars
             /\ \/ _ensure_entry_point_physical_node(v) \/ _wait_for_activation(v)
                \/ close_virtual_session(v)
    <3>1. UNCHANGED packets
      BY <2>2, Zenon DEF _ensure_entry_point_physical_node, _wait_for_activation, close_virtual_session,
         routeVars
    <3> QED
      BY <1>8, <2>2, <3>1, Zenon
  <2> QED
    BY <1>9, <2>1, <2>2, Zenon DEF CallerSteps
<1>10. ASSUME NEW v \in Callers, start_session_to_virtual_node(v), UNCHANGED contentVars PROVE Goal
  BY <1>8, <1>10, Zenon DEF start_session_to_virtual_node, routeVars
<1>11. ASSUME NEW v \in Callers, close_session(v), UNCHANGED contentVars PROVE Goal
  <2>1. packets' = _send_virtual_envelope(Node(caller[v].sid), caller[v].sid, "CLOSE", packets)
    BY <1>11 DEF close_session
  <2>2. \A q \in packets' : q \in packets \/ q.body.type = "CLOSE"
    BY <2>1, Envelopes
  <2> QED
    BY <1>8, <1>11, <2>2, Zenon DEF ContentTypes, Requests, Responses
<1>12. ASSUME NEW s \in Sessions, NEW n \in {Node(s), Target}, send_keepalive(n, s),
              UNCHANGED contentVars
       PROVE  Goal
  <2>1. packets' = _send_virtual_envelope(n, s, "KEEPALIVE", packets)
    BY <1>12, Zenon DEF send_keepalive
  <2>2. \A q \in packets' : q \in packets \/ q.body.type = "KEEPALIVE"
    BY <2>1, Envelopes
  <2> QED
    BY <1>8, <1>12, <2>2, Zenon DEF ContentTypes, Requests, Responses
<1>13. ASSUME NEW p \in packets, Lose(p), UNCHANGED contentVars PROVE Goal
  BY <1>8, <1>13, Zenon DEF Lose
<1>14. CASE UNCHANGED <<packets, download, part, requested, again>>
  BY <1>2, <1>5, <1>14, QuietRanges, Zenon
<1>15. ASSUME NEW s, NEW i, _publish_download_provider_to_ddt(s, i) PROVE Goal
  BY <1>14, <1>15, Zenon DEF _publish_download_provider_to_ddt, routeVars
<1>16. ASSUME NEW n, store_local_content(n) PROVE Goal
  BY <1>14, <1>16, Zenon DEF store_local_content, routeVars
<1>17. ASSUME NEW v, publish_content_provider(v) PROVE Goal
  BY <1>14, <1>17, Zenon DEF publish_content_provider, routeVars
<1>18. ASSUME NEW n, Restart(n) PROVE Goal
  BY <1>8, <1>18, Zenon DEF Restart, RestartNode
<1>19. ASSUME NEW r, Invalidate(r) PROVE Goal
  BY <1>8, <1>19, Zenon DEF Invalidate, InvalidateRoute
<1>20. CASE UNCHANGED vars
  BY <1>14, <1>20, Zenon DEF vars, routeVars, contentVars
<1> HIDE DEF Goal
<1>21. CASE Next
  BY <1>6, <1>7, <1>9, <1>10, <1>11, <1>12, <1>13, <1>15, <1>16, <1>17, <1>18, <1>19, <1>21
     DEF Next
<1> QED
  BY <1>20, <1>21, Zenon

\* As long as no packet was handled twice, a download that was asked for once
\* fails only when another download of its node shares the .part file with it:
\* alone, it is given the ranges it asks for in order, and they make up the
\* content (handle_content_range_response, _complete_download).
THEOREM FailuresAreDisturbances == Spec => []FailsOnlyWhenDisturbed
<1> DEFINE Inv == Typed /\ RangesInv
<1>1. Init => Inv
  BY Initially, TypesInitially, RangesInitially, Zenon DEF Typed
<1>2. Inv /\ [Next]_vars => Inv'
  BY Stepwise, TypesKept, RangesStep, Zenon DEF Typed
<1>3. Inv => FailsOnlyWhenDisturbed
  BY Zenon DEF RangesInv, Patient, DownloadOnce, Alone, FailsOnlyWhenDisturbed
<1> QED
  BY <1>1, <1>2, <1>3, PTL DEF Spec
=============================================================================
