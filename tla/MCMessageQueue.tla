--------------------------- MODULE MCMessageQueue ---------------------------
(* A small instance of MessageQueue for TLC, and the bugs its properties catch. *)
EXTENDS MessageQueue, TLC

CONSTANTS p1, p2, c1, c2

MCProducers == {p1, p2}
MCConsumers == {c1, c2}
Symm == Permutations(MCProducers) \cup Permutations(MCConsumers)
=============================================================================
