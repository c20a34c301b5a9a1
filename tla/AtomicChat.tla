----------------------------- MODULE AtomicChat -----------------------------
(***************************************************************************)
(* What the chat server of csf_assign05 promises its users, without worker *)
(* threads, locks or Room objects: a room is a set of subscribed users, a  *)
(* message sent to a room enters the feed of every subscriber with another *)
(* user name at one instant, and each feed is delivered in order.          *)
(* ChatServer implements it.                                               *)
(***************************************************************************)
EXTENDS Naturals, Sequences

CONSTANTS Senders, Receivers, RoomNames, UserName, MaxReqs

VARIABLES
  subs,       \* subs[r]: the users subscribed to room r
  feed,       \* feed[u]: the messages waiting for user u, oldest first
  delivered,  \* delivered[u]: the messages sent to u's client, in order
  published   \* published[s]: how many messages s has published

avars == <<subs, feed, delivered, published>>

Users == Senders \cup Receivers

Init ==
  /\ subs = [r \in RoomNames |-> {}]
  /\ feed = [u \in Users |-> <<>>]
  /\ delivered = [u \in Users |-> <<>>]
  /\ published = [s \in Senders |-> 0]

Subscribe(u, r) ==
  /\ \A q \in RoomNames : u \notin subs[q]
  /\ subs' = [subs EXCEPT ![r] = @ \cup {u}]
  /\ UNCHANGED <<feed, delivered, published>>

\* Only senders leave; a receiver stays in its room.
Unsubscribe(s, r) ==
  /\ s \in subs[r]
  /\ subs' = [subs EXCEPT ![r] = @ \ {s}]
  /\ UNCHANGED <<feed, delivered, published>>

Message(s, r, n) == [tag |-> "delivery", room |-> r, from |-> s, n |-> n]

Publish(s, r) ==
  /\ s \in subs[r]
  /\ published[s] < MaxReqs
  /\ published' = [published EXCEPT ![s] = @ + 1]
  /\ feed' = [u \in Users |->
                IF u \in subs[r] /\ UserName[u] # UserName[s]
                THEN Append(feed[u], Message(s, r, published[s] + 1))
                ELSE feed[u]]
  /\ UNCHANGED <<subs, delivered>>

\* Nothing is delivered to a sender: its feed is never read.
Deliver(u) ==
  /\ feed[u] # <<>>
  /\ feed' = [feed EXCEPT ![u] = Tail(@)]
  /\ delivered' = [delivered EXCEPT ![u] = Append(@, Head(feed[u]))]
  /\ UNCHANGED <<subs, published>>

Next ==
  \/ \E u \in Users, r \in RoomNames : Subscribe(u, r)
  \/ \E s \in Senders, r \in RoomNames : Unsubscribe(s, r) \/ Publish(s, r)
  \/ \E u \in Receivers : Deliver(u)

Spec == Init /\ [][Next]_avars
=============================================================================
