------------------------- MODULE MCReliableDelivery -------------------------
(* Small instances of ReliableDelivery. *)
EXTENDS ReliableDelivery, TLC

CONSTANTS h1, h2

OneHandler == {h1}
TwoHandlers == {h1, h2}
HandlerSymmetry == Permutations(TwoHandlers)
ReplyingToAll == 1..MaxMessages
ReplyingToNone == {}

=============================================================================
