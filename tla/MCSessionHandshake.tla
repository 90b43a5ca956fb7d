------------------------- MODULE MCSessionHandshake -------------------------
(* Small instances of SessionHandshake. *)
EXTENDS SessionHandshake, TLC

CONSTANTS c1, c2

OneCaller == {c1}
TwoCallers == {c1, c2}
CallerSymmetry == Permutations(TwoCallers)
TcpThenUdp == <<"tcp", "udp">>
Tcp == <<"tcp">>
Udp == <<"udp">>
NoEndpoint == {}
SecondEndpoint == {2}
=============================================================================
