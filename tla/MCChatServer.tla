---------------------------- MODULE MCChatServer ----------------------------
(* Small instances of ChatServer for TLC. *)
EXTENDS ChatServer, TLC

CONSTANTS s1, s2, u1, u2, r1, r2

\* The second sender has the name of the first receiver.
MCUserName == (s1 :> "ann" @@ s2 :> "bob" @@ u1 :> "bob" @@ u2 :> "cid")

\* Everybody has a name of its own, so that clients of a kind are symmetric.
MCOwnName == [c \in Clients |-> c]
Symm == Permutations(Senders) \cup Permutations(Receivers)
=============================================================================
