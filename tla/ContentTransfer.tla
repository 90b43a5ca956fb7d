--------------------------- MODULE ContentTransfer --------------------------
(***************************************************************************)
(* One content, served by the target of VirtualSession and downloaded by   *)
(* the callers over their virtual sessions, and the complete system of     *)
(* routes, virtual sessions and downloads.                                 *)
(*                                                                         *)
(* A physical node keeps one .part file and one final file of the content, *)
(* which all its downloads share; a download belongs to a session.  The    *)
(* hash of a file tells it from every other file.                          *)
(***************************************************************************)
EXTENDS VirtualSession, FiniteSetsExt

CONSTANTS
    Content,          \* the bytes of the content
    RangeSize,        \* download_range_size
    PublishAttempts   \* content_provider_publish_retry_attempts

ASSUME ContentAssumption ==
    /\ Content \in Seq(Range(Content)) /\ Content # <<>>
    /\ RangeSize \in Nat \ {0} /\ PublishAttempts \in Nat \ {0}

VARIABLES
    download,    \* download[s]: [status, next], the state kept for session s
    part,        \* part[n]: the .part file of node n
    final,       \* final[n]: the content in the storage of node n, or <<>>
    publishing,  \* publishing[s]: the attempts left to each task that publishes
                 \* the provider record after the download of session s
    published,   \* callers whose provider record is marked as published
    requested,   \* callers that started a download
    again        \* those that asked for it once more, a bound on repetitions

contentVars == <<download, part, final, publishing, published, requested, again>>
vars == <<routeVars, sessionVars, contentVars>>

Size == Len(Content)
----------------------------------------------------------------------------
(* ContentTransferService.  d is what one download sees: its own status    *)
(* and next, and the files of its node.                                    *)

Download(n, s) == [status |-> download[s].status, next |-> download[s].next,
                   part |-> part[n], final |-> final[n]]

\* Mutant: the last byte of the range is left out.
read_range_short(file, start, end) ==
    IF file = <<>> THEN Body("NOT_FOUND", <<>>)
    ELSE [type |-> "RANGE_RESPONSE", val |-> <<start, end>>,
          data |-> SubSeq(file, start + 1, end - 1)]

\* The answer to a request for a range of the file, by the service and the
\* handler that turns its exceptions into messages.
read_content_range(file, start, end) ==
    IF start < 0 \/ end <= start THEN Body("RANGE_DENIED", <<>>)
    ELSE IF file = <<>> THEN Body("NOT_FOUND", <<>>)
    ELSE IF end > Len(file) THEN Body("RANGE_DENIED", <<>>)
    ELSE [type |-> "RANGE_RESPONSE", val |-> <<start, end>>,
          data |-> SubSeq(file, start + 1, end)]

\* A session that has a download keeps it.
start_or_update_download(d) ==
    IF d.status # "none" THEN d
    ELSE [d EXCEPT !.status = "downloading", !.next = 0, !.part = <<>>]

\* Mutant: the last range is never asked for.
next_range_stops_early(d) ==
    IF d.status # "downloading" \/ d.next + RangeSize >= Size THEN NoBody
    ELSE Body("RANGE_REQUEST", <<d.next, Min({d.next + RangeSize, Size})>>)

get_next_range_request(d) ==
    IF d.status # "downloading" \/ d.next >= Size THEN NoBody
    ELSE Body("RANGE_REQUEST", <<d.next, Min({d.next + RangeSize, Size})>>)

\* Mutant: the hash of the file is not compared.
complete_on_size(d) ==
    IF Len(d.part) # Size THEN [d EXCEPT !.status = "failed"]
    ELSE [d EXCEPT !.status = "completed", !.final = d.part, !.part = <<>>]

_complete_download(d) ==
    IF Len(d.part) # Size \/ d.part # Content THEN [d EXCEPT !.status = "failed"]
    ELSE [d EXCEPT !.status = "completed", !.final = d.part, !.part = <<>>]

\* Mutant: the end of a range is taken to be part of it.
append_skips_byte(d, p) ==
    [d EXCEPT !.part = @ \o p.body.data, !.next = p.body.val[2] + 1]

AppendRange(d, p) == [d EXCEPT !.part = @ \o p.body.data, !.next = p.body.val[2]]

handle_content_range_response(d, p) ==
    LET start == p.body.val[1]
        end == p.body.val[2]
        written == AppendRange(d, p)
    IN  IF d.status # "downloading" THEN d
        ELSE IF start # d.next \/ end # start + Len(p.body.data)
        THEN [d EXCEPT !.status = "failed"]
        ELSE IF written.next >= Size THEN _complete_download(written) ELSE written
----------------------------------------------------------------------------
(* VirtualContentProtocolHandler.  Every handler needs the active session  *)
(* and returns the session as it is, the reply, the download it leaves and *)
(* whether it schedules the publication of the provider record.            *)

ContentOutcome(s, reply, d, publish) ==
    {[side |-> s, reply |-> reply, d |-> d, publish |-> publish]}

_handle_content_info_request(s, p, d) ==
    ContentOutcome(s, IF d.final = <<>> THEN Body("NOT_FOUND", <<>>)
                      ELSE Body("INFO_RESPONSE", <<>>), d, FALSE)

_handle_content_info_response(s, p, d) ==
    LET started == start_or_update_download(d)
    IN  ContentOutcome(s, get_next_range_request(started), started, FALSE)

_handle_content_range_request(s, p, d) ==
    ContentOutcome(s, read_content_range(d.final, p.body.val[1], p.body.val[2]), d, FALSE)

\* A response to a download that is complete already publishes again.
_handle_content_range_response(s, p, d) ==
    LET new == handle_content_range_response(d, p)
    IN  IF d.status = "none" THEN {}
        ELSE ContentOutcome(s, get_next_range_request(new), new, new.status = "completed")

\* NOT_FOUND and RANGE_DENIED change nothing.
_handle_content_error_message(s, p, d) == ContentOutcome(s, NoBody, d, FALSE)

HandleContentMessage(s, p, d) ==
    IF s.state # "active" THEN {}
    ELSE CASE p.body.type = "INFO_REQUEST" -> _handle_content_info_request(s, p, d)
           [] p.body.type = "INFO_RESPONSE" -> _handle_content_info_response(s, p, d)
           [] p.body.type = "RANGE_REQUEST" -> _handle_content_range_request(s, p, d)
           [] p.body.type = "RANGE_RESPONSE" -> _handle_content_range_response(s, p, d)
           [] OTHER -> _handle_content_error_message(s, p, d)

\* The API of a caller asks for the content over the session it was given.
\* Nothing keeps it from asking again: the session's download is kept, and
\* the range it waits for is requested once more.
start_content_download(v) ==
    LET s == caller[v].sid
    IN  /\ v \in setup.wanting
        /\ v \in requested => v \in setup.repeating \ again
        /\ caller[v].pc = "returned" /\ sess[s]["c"].state = "active"
        /\ requested' = requested \cup {v}
        /\ again' = IF v \in requested THEN again \cup {v} ELSE again
        /\ packets' = _send_virtual_envelope(Node(s), s, "INFO_REQUEST", packets)
        /\ UNCHANGED <<rows, ingress, sessionVars, download, part, final, publishing, published>>

\* The API of node n stores the content it is given: the final file is
\* written whatever downloads of the node are doing.
store_local_content(n) ==
    /\ n \in setup.storing /\ final[n] = <<>>
    /\ final' = [final EXCEPT ![n] = Content]
    /\ UNCHANGED <<routeVars, sessionVars, download, part, publishing, published, requested, again>>

\* The API of a caller publishes its provider record of content its node
\* has, in one attempt.
publish_content_provider(v) ==
    LET s == <<v, 1>>
        n == Node(s)
    IN  /\ n \in setup.storing /\ final[n] # <<>>
        /\ publishing[s] = <<>> /\ v \notin published
        /\ publishing' = [publishing EXCEPT ![s] = <<1>>]
        /\ UNCHANGED <<routeVars, sessionVars, download, part, final, published, requested, again>>

\* The tasks other than task i.
OtherTasks(tasks, i) == SubSeq(tasks, 1, i - 1) \o SubSeq(tasks, i + 1, Len(tasks))

\* One attempt of task i of session s: the DHT answers stored and the record
\* is marked, or the attempt fails and the next one follows, if any.
_publish_download_provider_to_ddt(s, i) ==
    LET left == publishing[s][i] - 1
    IN  /\ \/ /\ publishing' = [publishing EXCEPT ![s] = OtherTasks(@, i)]
              /\ published' = published \cup {s[1]}
           \/ /\ publishing' = [publishing EXCEPT ![s] = IF left = 0 THEN OtherTasks(@, i)
                                                         ELSE [@ EXCEPT ![i] = left]]
              /\ UNCHANGED published
        /\ UNCHANGED <<routeVars, sessionVars, download, part, final, requested, again>>
----------------------------------------------------------------------------
(* The system.                                                             *)

\* The envelope a node was given locally is handled by its family, or the
\* handler fails and the packet is gone.
DispatchSession(p, rest) ==
    /\ p.body.type \in SessionMessages
    /\ \E o \in HandleSessionMessage(p.at, SessionAt(p.at, p.sid), p) :
         _deliver_local_route_data(p, o, rest)
    /\ UNCHANGED contentVars

DispatchContent(p, rest) ==
    LET n == p.at
    IN  /\ p.body.type \notin SessionMessages
        /\ \E o \in HandleContentMessage(SessionAt(n, p.sid), p, Download(n, p.sid)) :
             /\ _deliver_local_route_data(p, o, rest)
             /\ download' = [download EXCEPT ![p.sid] = [status |-> o.d.status, next |-> o.d.next]]
             /\ part' = [part EXCEPT ![n] = o.d.part]
             /\ final' = [final EXCEPT ![n] = o.d.final]
             /\ publishing' = IF o.publish
                              THEN [publishing EXCEPT ![p.sid] = Append(@, PublishAttempts)]
                              ELSE publishing
        /\ UNCHANGED <<published, requested, again>>

Handled(p) ==
    IF p.body.type \in SessionMessages
    THEN HandleSessionMessage(p.at, SessionAt(p.at, p.sid), p) # {}
    ELSE HandleContentMessage(SessionAt(p.at, p.sid), p, Download(p.at, p.sid)) # {}

DeliverLocal(p, rest) ==
    /\ IsLocal(p)
    /\ \/ _resolve_local_virtual_envelope(p) /\ DispatchSession(p, rest)
       \/ _resolve_local_virtual_envelope(p) /\ DispatchContent(p, rest)
       \/ /\ ~(_resolve_local_virtual_envelope(p) /\ Handled(p))
          /\ packets' = rest
          /\ UNCHANGED <<rows, ingress, setup, sess, caller, sent, contentVars>>

\* ROUTE_DATA at the node it was sent to.
handle(p) ==
    \E rest \in Rests(p) :
        /\ Duplicated(p, rest)
        /\ \/ forward_message(p, rest) /\ UNCHANGED <<setup, sess, caller, sent, contentVars>>
           \/ DeliverLocal(p, rest)

\* Relays restart and the host of the target gives up a route.
Relays == Nodes \ ({Target} \cup {setup.callers[v].node : v \in Callers})
Restart(n) ==
    /\ Happens("restart") /\ RestartNode(n)
    /\ UNCHANGED <<setup, sess, caller, sent, contentVars>>
Invalidate(r) ==
    /\ Happens("invalidate") /\ InvalidateRoute(r)
    /\ UNCHANGED <<setup, sess, caller, sent, contentVars>>

Established(s) == [c |-> [state |-> "active", secret |-> <<1, 1>>, eph |-> 1,
                          bound |-> FinalPath(RouteOf(s))],
                   t |-> [state |-> "active", secret |-> <<1, 1>>, eph |-> 1,
                          bound |-> <<RouteOf(s), 1>>]]

Init ==
    /\ setup \in Scenarios
    /\ rows = AllRows
    /\ ingress = [r \in Routes |-> [s \in Sids |->
                    IF s \in setup.established /\ RouteOf(s) = r /\ Node(s) # EntryPoint(r)
                    THEN Node(s) ELSE NoNode]]
    /\ packets = {}
    /\ sess = [s \in Sids |-> IF s \in setup.established THEN Established(s)
                              ELSE [c |-> NoSide, t |-> NoSide]]
    /\ caller = [v \in Callers |->
                   IF \E s \in setup.established : s[1] = v
                   THEN [pc |-> "returned", attempt |-> 1, sid |-> <<v, 1>>]
                   ELSE [pc |-> "idle", attempt |-> 0, sid |-> <<>>]]
    /\ faults = [f \in DOMAIN setup.faults |-> 0]
    /\ sent = 0
    /\ download = [s \in Sids |-> [status |-> "none", next |-> 0]]
    /\ part = [n \in Nodes |-> <<>>]
    /\ final = [n \in Nodes |-> IF n = Target /\ setup.held THEN Content ELSE <<>>]
    /\ publishing = [s \in Sids |-> <<>>]
    /\ published = {}
    /\ requested = {}
    /\ again = {}

\* Steps of a coroutine that goes on by itself.
CallerSteps(v) ==
    \/ _ensure_entry_point_physical_node(v) /\ UNCHANGED contentVars
    \/ _start_session_over_entry_point(v) /\ UNCHANGED contentVars
    \/ _wait_for_activation(v) /\ UNCHANGED contentVars
    \/ close_virtual_session(v) /\ UNCHANGED contentVars

Next ==
    \/ \E p \in packets : handle(p)
    \/ \E p \in packets : Lose(p) /\ UNCHANGED contentVars
    \/ \E v \in Callers : \/ start_session_to_virtual_node(v) /\ UNCHANGED contentVars
                          \/ CallerSteps(v)
                          \/ close_session(v) /\ UNCHANGED contentVars
                          \/ start_content_download(v)
    \/ \E s \in Sessions : \E n \in {Node(s), Target} :
         send_keepalive(n, s) /\ UNCHANGED contentVars
    \/ \E s \in Sessions : \E i \in DOMAIN publishing[s] : _publish_download_provider_to_ddt(s, i)
    \/ \E n \in Nodes : store_local_content(n)
    \/ \E v \in Callers : publish_content_provider(v)
    \/ \E n \in Relays : Restart(n)
    \/ \E r \in Routes : Invalidate(r)

Spec == Init /\ [][Next]_vars

\* Packets that are not lost arrive and coroutines go on; nothing obliges a
\* caller to use or to close its session.
FairSpec ==
    /\ Spec
    /\ WF_vars(\E p \in packets : handle(p))
    /\ \A v \in {s[1] : s \in Sids} : WF_vars(v \in Callers /\ CallerSteps(v))
----------------------------------------------------------------------------
(* Properties.                                                             *)

\* Every piece of state keeps its shape: sessions are in a known state, a
\* download never runs past the size of the content and no message asks for
\* bytes that do not exist.
TypeOK ==
    /\ rows \subseteq AllRows
    /\ ingress \in [Routes -> [Sids -> Nodes \cup {NoNode}]]
    /\ \A p \in packets : /\ {p.at, p.from} \subseteq Nodes /\ p.sid \in Sessions
                          /\ p.dir \in {"vn_to_pn", "pn_to_vn"}
                          /\ p.body.type = "RANGE_REQUEST" => p.body.val[2] \in 1..Size
    /\ \A s \in Sids, side \in {"c", "t"} :
         sess[s][side].state \in {"none", "pending", "active", "closed"}
    /\ \A v \in Callers :
         /\ caller[v].pc \in {"idle", "trying", "waiting", "returned", "raised", "closing", "closed"}
         /\ caller[v].sid \in Sessions \cup {<<>>}
    /\ \A f \in DOMAIN faults : faults[f] <= setup.faults[f]
    /\ \A s \in Sids : /\ download[s].status \in {"none", "downloading", "completed", "failed"}
                       /\ download[s].next \in 0..Size
    /\ published \cup requested \subseteq Callers /\ again \subseteq requested

Faults(kinds) == \E f \in kinds : faults[f] > 0

\* The memory of an entry point about where a session came from
\* (_external_ingress_by_route_session) never sends the traffic of a session
\* to another node: a packet that left a route is on its way to the node that
\* opened its session, also when several sessions share the entry point, the
\* entry point restarted or packets were duplicated.
RightIngress ==
    \A p \in packets :
        p.dir = "vn_to_pn" /\ p.path[2] = 0 => p.at = Node(p.sid)

\* A side that considers a virtual session active encrypts with a secret that
\* the other side has too, at whatever point attempts timed out, were closed
\* or were reopened by a late answer, as long as no packet was handled twice.
VirtualKeysAgree ==
    ~Faults({"dup"}) =>
        \A s \in Sessions :
            "active" \in {sess[s]["c"].state, sess[s]["t"].state} =>
                /\ sess[s]["c"].secret # NoKey
                /\ sess[s]["c"].secret = sess[s]["t"].secret

\* start_session_to_virtual_node always ends, with a session or with an
\* error, whatever is lost.
StartEnds ==
    \A v \in {s[1] : s \in Sids} :
        (v \in Callers /\ caller[v].pc \in {"trying", "waiting"})
            ~> (v \in Callers /\ caller[v].pc \in {"returned", "raised"})

\* After the API closed a virtual session (close_session) both sides end up,
\* and stay, closed, whatever answers are under way, if no packet is lost or
\* handled twice, no relay restarts and the route is not given up.
CloseReachesBoth ==
    \A s \in Sids :
        (s[1] \in Callers /\ caller[s[1]].pc = "closing" /\ caller[s[1]].sid = s)
            ~> \/ Faults({"lose", "dup", "restart", "invalidate"})
               \/ [](sess[s]["c"].state = "closed" /\ sess[s]["t"].state = "closed")

\* What is kept in the storage as the content, reported as downloaded, or
\* advertised in the DDT by a caller, is the content: also when two downloads
\* of a node write to the same .part file in turns.
CompletedIsExact ==
    /\ \A n \in Nodes : final[n] \in {<<>>, Content}
    /\ \A s \in Sessions : download[s].status = "completed" => final[Node(s)] = Content
    /\ \A v \in published : final[setup.callers[v].node] = Content

\* A download fails only for one of three reasons (handle_content_range_response,
\* _complete_download): a packet was handled twice, another download of its
\* node writes to the same .part file, or the API asked for it again while a
\* range was outstanding.  Without them no interleaving, lost packet, restart
\* or content stored meanwhile makes a range arrive out of order or the hash
\* differ.
FailsOnlyWhenDisturbed ==
    \A s \in Sessions : download[s].status = "failed" =>
        \/ Faults({"dup"})
        \/ s[1] \in again
        \/ \E o \in Sessions \ {s} : Node(o) = Node(s) /\ download[o].status # "none"

\* A download of content the provider has is completed or reported as failed,
\* unless a packet is lost, a relay or the route goes away or the session is
\* closed; packets handled twice, requests made again and downloads that
\* disturb each other never leave it hanging.
DownloadSettles ==
    \A v \in {s[1] : s \in Sids} :
        (v \in requested /\ setup.held)
            ~> \/ v \in requested /\ download[caller[v].sid].status \in {"completed", "failed"}
               \/ Faults({"lose", "restart", "invalidate", "close"})
=============================================================================
