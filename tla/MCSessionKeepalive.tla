------------------------- MODULE MCSessionKeepalive -------------------------
(* Small instances of SessionKeepalive. *)
EXTENDS SessionKeepalive

AllSetups == [failing : BOOLEAN, observed : {{}, {"a"}}]
FailingSends == {[failing |-> TRUE, observed |-> {}]}
=============================================================================
