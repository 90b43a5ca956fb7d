-------------------------- MODULE MCContentTransfer -------------------------
(***************************************************************************)
(* Two routes of the target t: r1 over the relay h, back over t and on to  *)
(* the entry point e, and r2 straight to the entry point f.  c and d are   *)
(* outside nodes.                                                          *)
(***************************************************************************)
EXTENDS ContentTransfer

MCNodes == {"t", "h", "e", "f", "c", "d"}
MCHops == [r1 |-> <<"t", "h", "t", "e">>, r2 |-> <<"t", "f">>]
MCSids == {"x", "y"} \X (1..2)

NoFaults == [lose |-> 0, dup |-> 0, restart |-> 0, invalidate |-> 0, close |-> 0]
Caller(node, entries) == [node |-> node, entries |-> entries]
Setup(callers, established, wanting, allowed, keepalives, held) ==
    [callers |-> callers, established |-> established, wanting |-> wanting,
     faults |-> allowed, keepalives |-> keepalives, held |-> held, storing |-> {},
     repeating |-> {}]

OneCaller == [x |-> Caller("c", <<"r1", "r2">>)]

\* A caller falls back to its second entry point, and closes what it got.
Fallback == Setup(OneCaller, {}, {}, [NoFaults EXCEPT !.lose = 1, !.close = 1], 0, TRUE)
\* Handshake packets handled twice.
Duplicates == Setup([x |-> Caller("c", <<"r2">>)], {}, {}, [NoFaults EXCEPT !.dup = 1], 0, TRUE)
\* Two callers on two nodes share an entry point; it may restart.
SharedEntryPoint == Setup([x |-> Caller("c", <<"r2">>), y |-> Caller("d", <<"r2">>)], {}, {},
                          [NoFaults EXCEPT !.restart = 1], 0, TRUE)
\* The caller's node is the entry point.
AtEntryPoint == Setup([x |-> Caller("f", <<"r2">>)], {}, {"x"},
                      [NoFaults EXCEPT !.close = 1], 1, TRUE)
\* Both virtual nodes of one node download over sessions they have.
SharedPartFile == Setup([x |-> Caller("c", <<"r2">>), y |-> Caller("c", <<"r2">>)],
                        {<<"x", 1>>, <<"y", 1>>}, {"x", "y"}, NoFaults, 0, TRUE)
\* A download with packets handled twice, or with everything that stops it.
DuplicatedRanges == Setup(OneCaller, {<<"x", 1>>}, {"x"}, [NoFaults EXCEPT !.dup = 1], 0, TRUE)
Interrupted(allowed, keepalives) ==
    Setup([x |-> Caller("c", <<"r1">>)], {<<"x", 1>>}, {"x"}, allowed, keepalives, TRUE)
Closed == Interrupted([NoFaults EXCEPT !.close = 1, !.lose = 1], 0)
Restarted == Interrupted([NoFaults EXCEPT !.restart = 1], 2)
Invalidated == Interrupted([NoFaults EXCEPT !.invalidate = 1], 1)
\* The download is asked for a second time.
Repeated == [Setup([x |-> Caller("c", <<"r2">>)], {<<"x", 1>>}, {"x"}, NoFaults, 0, TRUE)
               EXCEPT !.repeating = {"x"}]
\* The content is stored at the target after it was asked for, and at the
\* node that downloads it.
NotHeld == [Setup(OneCaller, {<<"x", 1>>}, {"x"}, NoFaults, 0, FALSE)
              EXCEPT !.storing = {"t", "c"}]

MCScenarios == {Fallback, Duplicates, SharedEntryPoint, AtEntryPoint, SharedPartFile,
                DuplicatedRanges, Closed, Restarted, Invalidated, Repeated, NotHeld}
MCContent == <<1, 2, 3>>
=============================================================================
