---------------------------- MODULE MCRouteBuild ----------------------------
(* A small network in which nodes know few others, so that the random walk *)
(* comes back to nodes it passed.                                          *)
EXTENDS RouteBuild

Four == {"n0", "n1", "n2", "n3"}
Distances == [n0 |-> [n1 |-> 1, n2 |-> 1], n1 |-> [n3 |-> 1],
              n2 |-> [n3 |-> 8], n3 |-> [n1 |-> 2]]
=============================================================================
