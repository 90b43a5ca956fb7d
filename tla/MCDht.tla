------------------------------- MODULE MCDht --------------------------------
(* Four nodes, of which the three nearest to the key are responsible, and   *)
(* scenarios of publications and queries of the key.                       *)
EXTENDS Dht

MCNodes == 1..4
MCDist == [n \in MCNodes |-> n]

Full == [n \in MCNodes |-> MCNodes]
\* Node 3 has not learnt of nodes 1 and 2, node 4 not of node 1.
Partial == [Full EXCEPT ![3] = {3, 4}, ![4] = {2, 3, 4}]
\* Everybody knows the responsible nodes, nobody knows node 4.
Replicas == [n \in MCNodes |-> {1, 2, 3, n}]

Item(path, exp, rtt) == [path |-> path, exp |-> exp, rtt |-> rtt, pk |-> 1]
Rec(head, items) == [head |-> head, ref |-> 0, items |-> items]
Older == [drt |-> Rec(1, {Item(1, 1, 5), Item(2, 2, 5)}), ddt |-> Rec(1, {Item(1, 1, 0)}),
          dtt |-> Rec(1, {Item(1, 2, 0)}), dpt |-> Rec(1, {}), dpnt |-> Rec(1, {})]
Newer == [drt |-> Rec(1, {Item(1, 2, 9)}), ddt |-> Rec(1, {Item(2, 2, 0)}),
          dtt |-> Rec(1, {Item(2, 1, 0)}), dpt |-> Rec(2, {}), dpnt |-> Rec(2, {})]

Publish(n, frag) == [kind |-> "publish", at |-> n, frag |-> frag]
Query(n) == [kind |-> "query", at |-> n, frag |-> Rec(0, {})]
Empty == [n \in MCNodes |-> {}]
Scenario(ns, knows, calls, attempts, time, crashes) ==
    [ns |-> ns, knows |-> knows, calls |-> calls, store |-> Empty,
     attempts |-> [publish |-> attempts, query |-> 2],
     ttl |-> 3, MaxTime |-> time, MaxRestarts |-> crashes]

TwoPublishers ==
    {Scenario(ns, Full, [p1 |-> Publish(4, Older[ns]), p2 |-> Publish(1, Newer[ns])], 1, 1, 0) :
        ns \in {"drt", "dpt"}}
\* A query while two publications of the key arrive and some items expire:
\* the merge of a fragment that expired on its way raises.
ReadAmongMerges ==
    {[Scenario("drt", Replicas, [p1 |-> Publish(2, Older["drt"]), p2 |-> Publish(1, Newer["drt"]),
                                 q |-> Query(4)], 1, 1, 0) EXCEPT !.attempts["query"] = 1],
     [Scenario("ddt", Replicas, [p1 |-> Publish(1, Older["ddt"]), p2 |-> Publish(3, Newer["ddt"]),
                                 q |-> Query(2)], 1, 1, 0)
        EXCEPT !.attempts["query"] = 1, !.ttl = 2]}
\* Two versions modified at the same time.
Tie ==
    {Scenario("dpt", Replicas, [p1 |-> Publish(1, Older["dpt"]),
                                p2 |-> Publish(2, [Older["dpt"] EXCEPT !.ref = 1])], 1, 0, 0)}
\* An earlier publication reached node 3 only.
PublishThenRead ==
    {[Scenario("drt", Replicas, [p1 |-> Publish(2, Older["drt"]), q |-> Query(4)], 1, 0, 0)
        EXCEPT !.store[3] = {Rec(1, {Item(3, 2, 5)})}]}
\* Few hops, so that requests run out of them.
Retries ==
    {[Scenario("dpnt", Full, [p1 |-> Publish(4, Older["dpnt"])], 2, 0, 1) EXCEPT !.ttl = 1],
     [Scenario("dtt", Full, [p1 |-> Publish(1, Older["dtt"]), q |-> Query(4)], 1, 0, 0)
        EXCEPT !.ttl = 0]}
PartialViews ==
    {Scenario("drt", Partial, [p1 |-> Publish(4, Older["drt"]), q |-> Query(2)], 1, 0, 0)}
\* Every node knows only itself.
Alone ==
    {Scenario("dtt", [n \in MCNodes |-> {n}],
              [p1 |-> Publish(1, Older["dtt"]), q |-> Query(1)], 1, 0, 0)}
MCScenarios ==
    TwoPublishers \cup ReadAmongMerges \cup Tie \cup PublishThenRead \cup Retries
    \cup PartialViews \cup Alone

\* Two publishers describe the same content with different metadata.
Disagreeing ==
    {Scenario("ddt", Full, [p1 |-> Publish(4, Rec(1, {Item(1, 2, 0)})),
                            p2 |-> Publish(1, Rec(2, {Item(2, 2, 0)}))], 1, 0, 0)}
=============================================================================
