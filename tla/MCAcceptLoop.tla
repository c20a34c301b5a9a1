---------------------------- MODULE MCAcceptLoop ----------------------------
(* Three clients and two descriptors beside that of the listener.              *)
EXTENDS AcceptLoop

CONSTANTS c1, c2, c3

MCClients == {c1, c2, c3}
=============================================================================
