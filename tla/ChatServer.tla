----------------------------- MODULE ChatServer -----------------------------
(***************************************************************************)
(* The concurrent chat server of csf_assign05: one worker thread per       *)
(* client (worker, chat_with_sender, chat_with_receiver in server.cpp),    *)
(* the map of rooms guarded by Server::m_lock (find_or_create_room), the   *)
(* Room objects, each with its member set and lock (room.cpp), and one     *)
(* MessageQueue per User.                                                  *)
(*                                                                         *)
(* A client is identified with the worker that serves it and with the User *)
(* the worker constructs.  A Room object is identified by its name and the *)
(* worker that constructed it, so two objects with one name can exist if   *)
(* the code lets them.  Each step between two accesses to shared state or  *)
(* to the connection is one action; a member function of Room that only    *)
(* locks, changes the set and unlocks is one action that needs the lock    *)
(* free.  enqueue and dequeue are atomic here: MessageQueue shows they may *)
(* be taken so.                                                            *)
(*                                                                         *)
(* MaxReqs bounds the requests each sender's client makes.                 *)
(***************************************************************************)
EXTENDS Naturals, Sequences, FiniteSets

CONSTANTS
  Senders, Receivers,  \* clients that log in with slogin, with rlogin
  RoomNames,
  UserName,            \* UserName[c]: the name c logs in with; need not be unique
  MaxReqs,
  Nobody,              \* the holder of a free mutex
  NullRoom,            \* nullptr, as a Room *
  WildRoom             \* the uninitialised current_room of server.cpp:78

Clients == Senders \cup Receivers
Rooms == RoomNames \X Clients
RoomPtrs == Rooms \cup {NullRoom, WildRoom}

ASSUME ServerAssumption ==
  /\ Senders \cap Receivers = {}
  /\ Nobody \notin Clients
  /\ NullRoom \notin Rooms /\ WildRoom \notin Rooms /\ NullRoom # WildRoom
  /\ "" \notin RoomNames
  /\ MaxReqs \in Nat

Messages ==
  [tag : {"delivery"}, room : RoomNames, from : Senders, n : 1..MaxReqs]

\* A Message of message.h as broadcast_message builds it: room, sender, text.
Message(s, r, n) == [tag |-> "delivery", room |-> r, from |-> s, n |-> n]

VARIABLES
  up,       \* the server process is running
  eof,      \* eof[s]: the client of sender s has closed its end
  m_rooms,  \* the map: RoomNames -> Room *, NullRoom when there is no entry
  m_lock,   \* the worker that holds Server::m_lock, or Nobody
  members,  \* members[r]: the User set of Room object r
  lock,     \* lock[r]: the worker that holds the lock of Room object r
  queue,    \* queue[u]: the mqueue of User u
  pc,       \* pc[c]: where the worker of c is
  room,     \* room[c]: its current_room
  in_room,  \* in_room[s]: the flag of chat_with_sender
  data,     \* data[c]: message.data of the join in progress, "" otherwise
  reply,    \* reply[c]: the response about to be sent, "" otherwise
  todo,     \* todo[s]: the members a broadcast has yet to reach
  hand,     \* hand[u]: the message a receiver's worker has dequeued
  nreq,     \* nreq[s]: requests read from s
  nsent,    \* nsent[s]: broadcasts begun by s
  sentTo    \* sentTo[u]: the deliveries written to receiver u's connection

netVars    == <<up, eof>>
serverVars == <<m_rooms, m_lock>>
roomVars   == <<members, lock>>
frameVars  == <<room, in_room, data, reply, todo>>
countVars  == <<nreq, nsent>>
feedVars   == <<queue, hand, sentTo>>
vars == <<netVars, serverVars, roomVars, pc, frameVars, countVars, feedVars>>

NoMessage == [tag |-> "", room |-> "", from |-> "", n |-> 0]

Init ==
  /\ up = TRUE
  /\ eof = [s \in Senders |-> FALSE]
  /\ m_rooms = [r \in RoomNames |-> NullRoom]
  /\ m_lock = Nobody
  /\ members = [r \in Rooms |-> {}]
  /\ lock = [r \in Rooms |-> Nobody]
  /\ queue = [c \in Clients |-> <<>>]
  /\ pc = [c \in Clients |-> "start"]
  /\ room = [c \in Clients |-> WildRoom]
  /\ in_room = [s \in Senders |-> FALSE]
  /\ data = [c \in Clients |-> ""]
  /\ reply = [c \in Clients |-> ""]
  /\ todo = [s \in Senders |-> {}]
  /\ hand = [u \in Receivers |-> NoMessage]
  /\ nreq = [s \in Senders |-> 0]
  /\ nsent = [s \in Senders |-> 0]
  /\ sentTo = [u \in Clients |-> <<>>]

Goto(c, from, to) ==
  /\ up
  /\ pc[c] = from
  /\ pc' = [pc EXCEPT ![c] = to]

\* The worker is about to send response m.
Respond(c, m) == reply' = [reply EXCEPT ![c] = m]
-----------------------------------------------------------------------------
(* The network and the clients. *)

\* A client may close at any time.  Only the worker of a sender that is logged
\* in can tell: it goes on reading.  Before that LoginFails stands for it, and
\* in chat_with_receiver ReceiverBadJoin.
Disconnect(s) ==
  /\ up
  /\ ~eof[s]
  /\ pc[s] \notin {"start", "done"}
  /\ eof' = [eof EXCEPT ![s] = TRUE]
  /\ UNCHANGED <<up, serverVars, roomVars, pc, frameVars, countVars, feedVars>>

\* A read that fails, other than by end of file, makes Rio_readlineb call
\* unix_error, which exits the whole process.
ReadError(c) ==
  /\ up
  /\ pc[c] \in {"start", "recv", "rjoin"}
  /\ up' = FALSE
  /\ UNCHANGED <<eof, serverVars, roomVars, pc, frameVars, countVars, feedVars>>
-----------------------------------------------------------------------------
(* worker: the login message and its response. *)

Login(c) ==
  /\ Goto(c, "start", IF c \in Senders THEN "recv" ELSE "rjoin")
  /\ UNCHANGED <<netVars, serverVars, roomVars, frameVars, countVars, feedVars>>

\* End of file, a message without a tag, another tag ("need login"), or a
\* client that is gone when "login ok" is sent: the worker returns.
LoginFails(c) ==
  /\ Goto(c, "start", "done")
  /\ UNCHANGED <<netVars, serverVars, roomVars, frameVars, countVars, feedVars>>
-----------------------------------------------------------------------------
(* chat_with_sender: what each message makes the worker do next. *)

Receive(s, to) ==
  /\ Goto(s, "recv", to)
  /\ ~eof[s]
  /\ nreq[s] < MaxReqs
  /\ nreq' = [nreq EXCEPT ![s] = @ + 1]
  /\ UNCHANGED <<netVars, serverVars, roomVars, room, in_room, todo, nsent, feedVars>>

\* Mistake: a join does not leave the room the sender is in.
ReceiveJoinStaying(s, r) ==
  /\ Receive(s, "find")
  /\ data' = [data EXCEPT ![s] = r]
  /\ UNCHANGED reply

ReceiveJoin(s, r) ==
  /\ Receive(s, IF in_room[s] THEN "rm" ELSE "find")
  /\ data' = [data EXCEPT ![s] = r]
  /\ UNCHANGED reply

ReceiveLeave(s) ==
  /\ in_room[s]
  /\ Receive(s, "leave")
  /\ UNCHANGED <<data, reply>>

\* Mistake: in_room is not tested.
ReceiveSendallUnchecked(s) ==
  /\ Receive(s, "bcast")
  /\ UNCHANGED <<data, reply>>

ReceiveSendall(s) ==
  /\ in_room[s]
  /\ Receive(s, "bcast")
  /\ UNCHANGED <<data, reply>>

\* leave and sendall outside a room, and any tag that is not a request.
ReceiveBad(s) ==
  /\ Receive(s, "reply")
  /\ Respond(s, "err")
  /\ UNCHANGED data

ReceiveQuit(s) ==
  /\ Receive(s, "reply")
  /\ Respond(s, "quit ok")
  /\ UNCHANGED data

\* The result of receive is not tested: at end of file the message keeps its
\* empty tag and is answered as an undefined command, again and again.
ReceiveEof(s) ==
  /\ eof[s]
  /\ Goto(s, "recv", "reply")
  /\ Respond(s, "err")
  /\ UNCHANGED <<netVars, serverVars, roomVars, room, in_room, data, todo,
                 countVars, feedVars>>
-----------------------------------------------------------------------------
(* Server::find_or_create_room. *)

\* Mistake: no Guard in find_or_create_room.
FindRoomUnguarded(c) ==
  /\ pc[c] = "find"
  /\ IF m_rooms[data[c]] # NullRoom
       THEN /\ Goto(c, "find", "add")
            /\ room' = [room EXCEPT ![c] = m_rooms[data[c]]]
       ELSE /\ Goto(c, "find", "create")
            /\ UNCHANGED room
  /\ UNCHANGED <<netVars, serverVars, roomVars, in_room, data, reply, todo,
                 countVars, feedVars>>

FindRoom(c) ==
  /\ pc[c] = "find"
  /\ m_lock = Nobody
  /\ IF m_rooms[data[c]] # NullRoom
       THEN /\ Goto(c, "find", "add")
            /\ room' = [room EXCEPT ![c] = m_rooms[data[c]]]
            /\ UNCHANGED m_lock
       ELSE /\ Goto(c, "find", "create")
            /\ m_lock' = c
            /\ UNCHANGED room
  /\ UNCHANGED <<netVars, m_rooms, roomVars, in_room, data, reply, todo,
                 countVars, feedVars>>

\* std::map::insert leaves an existing entry alone; the caller gets the new
\* object in any case.
CreateRoom(c) ==
  /\ Goto(c, "create", "add")
  /\ m_rooms' = [m_rooms EXCEPT ![data[c]] = IF @ = NullRoom THEN <<data[c], c>> ELSE @]
  /\ room' = [room EXCEPT ![c] = <<data[c], c>>]
  /\ m_lock' = Nobody
  /\ UNCHANGED <<netVars, roomVars, in_room, data, reply, todo, countVars, feedVars>>
-----------------------------------------------------------------------------
(* Room::add_member and Room::remove_member where the workers call them. *)

\* Mistake: no Guard in add_member.
AddMemberUnguarded(c) ==
  /\ Goto(c, "add", "reply")
  /\ members' = [members EXCEPT ![room[c]] = @ \cup {c}]
  /\ Respond(c, "join ok")
  /\ UNCHANGED <<netVars, serverVars, lock, room, in_room, data, todo,
                 countVars, feedVars>>

AddMember(c) ==
  /\ Goto(c, "add", "reply")
  /\ lock[room[c]] = Nobody
  /\ members' = [members EXCEPT ![room[c]] = @ \cup {c}]
  /\ Respond(c, "join ok")
  /\ UNCHANGED <<netVars, serverVars, lock, room, in_room, data, todo,
                 countVars, feedVars>>

\* A join while in a room first leaves it; no "left ok" is sent.
RemoveForJoin(s) ==
  /\ Goto(s, "rm", "find")
  /\ lock[room[s]] = Nobody
  /\ members' = [members EXCEPT ![room[s]] = @ \ {s}]
  /\ UNCHANGED <<netVars, serverVars, lock, frameVars, countVars, feedVars>>

RemoveForLeave(s) ==
  /\ Goto(s, "leave", "reply")
  /\ lock[room[s]] = Nobody
  /\ members' = [members EXCEPT ![room[s]] = @ \ {s}]
  /\ room' = [room EXCEPT ![s] = NullRoom]
  /\ Respond(s, "left ok")
  /\ UNCHANGED <<netVars, serverVars, lock, in_room, data, todo, countVars, feedVars>>
-----------------------------------------------------------------------------
(* Room::broadcast_message: the lock is held over the loop on the members. *)

\* Mistake: no Guard in broadcast_message.
BcastUnguarded(s) ==
  /\ Goto(s, "bcast", "enq")
  /\ nsent' = [nsent EXCEPT ![s] = @ + 1]
  /\ todo' = [todo EXCEPT ![s] =
                {u \in members[room[s]] : UserName[u] # UserName[s]}]
  /\ UNCHANGED <<netVars, serverVars, roomVars, room, in_room, data, reply,
                 nreq, feedVars>>

BcastLock(s) ==
  /\ Goto(s, "bcast", "enq")
  /\ lock[room[s]] = Nobody
  /\ lock' = [lock EXCEPT ![room[s]] = s]
  /\ nsent' = [nsent EXCEPT ![s] = @ + 1]
  /\ todo' = [todo EXCEPT ![s] =
                {u \in members[room[s]] : UserName[u] # UserName[s]}]
  /\ UNCHANGED <<netVars, serverVars, members, room, in_room, data, reply,
                 nreq, feedVars>>

\* Mistake: a message is made before it is counted.
BcastEnqueueEarly(s, u) ==
  /\ Goto(s, "enq", "enq")
  /\ u \in todo[s]
  /\ todo' = [todo EXCEPT ![s] = @ \ {u}]
  /\ queue' = [queue EXCEPT ![u] = Append(@, Message(s, room[s][1], nsent[s] - 1))]
  /\ UNCHANGED <<netVars, serverVars, roomVars, room, in_room, data, reply,
                 countVars, hand, sentTo>>

\* The set is ordered by address, which the allocator chooses.
BcastEnqueue(s, u) ==
  /\ Goto(s, "enq", "enq")
  /\ u \in todo[s]
  /\ todo' = [todo EXCEPT ![s] = @ \ {u}]
  /\ queue' = [queue EXCEPT ![u] = Append(@, Message(s, room[s][1], nsent[s]))]
  /\ UNCHANGED <<netVars, serverVars, roomVars, room, in_room, data, reply,
                 countVars, hand, sentTo>>

\* Mistake: a return without unlock.
BcastUnlockForgotten(s) ==
  /\ Goto(s, "enq", "reply")
  /\ todo[s] = {}
  /\ Respond(s, "message ok")
  /\ UNCHANGED <<netVars, serverVars, roomVars, room, in_room, data, todo,
                 countVars, feedVars>>

BcastUnlock(s) ==
  /\ Goto(s, "enq", "reply")
  /\ todo[s] = {}
  /\ lock' = [lock EXCEPT ![room[s]] = Nobody]
  /\ Respond(s, "message ok")
  /\ UNCHANGED <<netVars, serverVars, members, room, in_room, data, todo,
                 countVars, feedVars>>
-----------------------------------------------------------------------------
\* The response is sent, whether or not the client can still read it, and
\* in_room is assigned after it.  The worker of a sender that quits returns
\* without a remove_member.
SenderReply(s) ==
  /\ Goto(s, "reply", IF reply[s] = "quit ok" THEN "done" ELSE "recv")
  /\ in_room' = [in_room EXCEPT ![s] = CASE reply[s] = "join ok" -> TRUE
                                         [] reply[s] = "left ok" -> FALSE
                                         [] OTHER -> @]
  /\ data' = [data EXCEPT ![s] = ""]
  /\ Respond(s, "")
  /\ UNCHANGED <<netVars, serverVars, roomVars, room, todo, countVars, feedVars>>
-----------------------------------------------------------------------------
(* chat_with_receiver. *)

ReceiverJoin(u, r) ==
  /\ Goto(u, "rjoin", "find")
  /\ data' = [data EXCEPT ![u] = r]
  /\ UNCHANGED <<netVars, serverVars, roomVars, room, in_room, reply, todo,
                 countVars, feedVars>>

\* Another tag, or the empty one of a receive that failed.
ReceiverBadJoin(u) ==
  /\ Goto(u, "rjoin", "reply")
  /\ Respond(u, "err")
  /\ UNCHANGED <<netVars, serverVars, roomVars, room, in_room, data, todo,
                 countVars, feedVars>>

ReceiverReply(u) ==
  /\ Goto(u, "reply", IF reply[u] = "join ok" THEN "loop" ELSE "done")
  /\ data' = [data EXCEPT ![u] = ""]
  /\ Respond(u, "")
  /\ UNCHANGED <<netVars, serverVars, roomVars, room, in_room, todo, countVars, feedVars>>

\* Mistake: the queue is cleared after its front is read.
DequeueClearing(u) ==
  /\ queue[u] # <<>>
  /\ Goto(u, "loop", "send")
  /\ hand' = [hand EXCEPT ![u] = Head(queue[u])]
  /\ queue' = [queue EXCEPT ![u] = <<>>]
  /\ UNCHANGED <<netVars, serverVars, roomVars, frameVars, countVars, sentTo>>

\* A dequeue that returns nullptr only makes the loop go round again.
Dequeue(u) ==
  /\ queue[u] # <<>>
  /\ Goto(u, "loop", "send")
  /\ hand' = [hand EXCEPT ![u] = Head(queue[u])]
  /\ queue' = [queue EXCEPT ![u] = Tail(@)]
  /\ UNCHANGED <<netVars, serverVars, roomVars, frameVars, countVars, sentTo>>

\* The result of send is not tested: the loop goes on after the client is gone.
\* A message with the tag of errors would end it; no one enqueues such a message.
SendDelivery(u) ==
  /\ Goto(u, "send", IF hand[u].tag = "err" THEN "done" ELSE "loop")
  /\ sentTo' = [sentTo EXCEPT ![u] = Append(@, hand[u])]
  /\ hand' = [hand EXCEPT ![u] = NoMessage]
  /\ UNCHANGED <<netVars, serverVars, roomVars, frameVars, countVars, queue>>
-----------------------------------------------------------------------------
FromClient(c) ==
  \/ ReadError(c) \/ Login(c) \/ LoginFails(c)
  \/ /\ c \in Senders
     /\ \/ Disconnect(c)
        \/ \E r \in RoomNames : ReceiveJoin(c, r)
        \/ ReceiveLeave(c) \/ ReceiveSendall(c) \/ ReceiveBad(c) \/ ReceiveQuit(c)
  \/ /\ c \in Receivers
     /\ (\E r \in RoomNames : ReceiverJoin(c, r)) \/ ReceiverBadJoin(c)

SenderStep(s) ==
  \/ ReceiveEof(s) \/ RemoveForJoin(s) \/ RemoveForLeave(s)
  \/ BcastLock(s) \/ (\E u \in Clients : BcastEnqueue(s, u)) \/ BcastUnlock(s)
  \/ SenderReply(s)

ReceiverStep(u) == ReceiverReply(u) \/ Dequeue(u) \/ SendDelivery(u)

\* What a worker does without waiting for its client to write.
WorkerStep(c) ==
  \/ FindRoom(c) \/ CreateRoom(c) \/ AddMember(c)
  \/ c \in Senders /\ SenderStep(c)
  \/ c \in Receivers /\ ReceiverStep(c)

\* The process is gone, or every client has done all it will: nothing is left.
Next == \E c \in Clients : FromClient(c) \/ WorkerStep(c)

Spec == Init /\ [][Next]_vars

\* Every worker that can go on does; clients need not do anything, but they read
\* what is sent to them or close, so that no send blocks for ever.
FairSpec == Spec /\ \A c \in Clients : WF_vars(WorkerStep(c))
-----------------------------------------------------------------------------
(* What is in store for a user: dequeued, queued, or still to be enqueued by a *)
(* broadcast that has begun.                                                   *)

InHand(u) == IF u \in Receivers /\ pc[u] = "send" THEN <<hand[u]>> ELSE <<>>

Reaching(u) == {s \in Senders : u \in todo[s]}

InFlight(u) ==
  IF Reaching(u) = {} THEN <<>>
  ELSE LET s == CHOOSE s \in Reaching(u) : TRUE
       IN  <<Message(s, room[s][1], nsent[s])>>

\* Every message that has been put in u's queue, oldest first.
Stream(u) == sentTo[u] \o InHand(u) \o queue[u]

Broadcasting(s) == pc[s] = "enq"
CurrentMessage(s) == Message(s, room[s][1], nsent[s])

TypeOK ==
  /\ up \in BOOLEAN
  /\ eof \in [Senders -> BOOLEAN]
  /\ m_rooms \in [RoomNames -> Rooms \cup {NullRoom}]
  /\ m_lock \in Clients \cup {Nobody}
  /\ members \in [Rooms -> SUBSET Clients]
  /\ lock \in [Rooms -> Clients \cup {Nobody}]
  /\ queue \in [Clients -> Seq(Messages)]
  /\ pc \in [Clients -> {"start", "recv", "rm", "find", "create", "add", "reply",
                         "leave", "bcast", "enq", "rjoin", "loop", "send", "done"}]
  /\ room \in [Clients -> RoomPtrs]
  /\ in_room \in [Senders -> BOOLEAN]
  /\ data \in [Clients -> RoomNames \cup {""}]
  /\ reply \in [Clients -> {"", "err", "join ok", "left ok", "message ok", "quit ok"}]
  /\ todo \in [Senders -> SUBSET Clients]
  /\ hand \in [Receivers -> Messages \cup {NoMessage}]
  /\ nreq \in [Senders -> 0..MaxReqs]
  /\ nsent \in [Senders -> 0..MaxReqs]
  /\ sentTo \in [Clients -> Seq(Messages)]

\* find_or_create_room returns "the unique Room object representing the named
\* chat room" (server.cpp:233): every Room a worker still uses, and every Room
\* that has members, is the one in the map.
UniqueRoom ==
  /\ \A c \in Clients :
       room[c] \in Rooms => m_rooms[room[c][1]] = room[c]
  /\ \A r \in Rooms : members[r] # {} => m_rooms[r[1]] = r

\* current_room is uninitialised before the first join and null after a leave:
\* it is a Room whenever the code calls a member function through it.
NoWildRoom ==
  \A c \in Clients : pc[c] \in {"rm", "leave", "bcast", "enq", "add"} => room[c] \in Rooms

\* A user is never in two rooms, whatever it does and however its worker stops,
\* and a sender waiting for its next request is in the room it believes it is in.
OneRoomAtATime ==
  /\ \A r, q \in Rooms : members[r] \cap members[q] # {} => r = q
  /\ \A s \in Senders : pc[s] = "recv" =>
       \A r \in Rooms : s \in members[r] <=> in_room[s] /\ room[s] = r

\* No lock is held by a worker that reads from or writes to a connection, or
\* that has returned: a slow or dead client cannot stop the others.
LocksOnlyInside ==
  /\ \A c \in Clients : m_lock = c <=> pc[c] = "create"
  /\ \A r \in Rooms, c \in Clients :
       lock[r] = c <=> c \in Senders /\ Broadcasting(c) /\ room[c] = r

\* While a broadcast runs, every member with another name is either still to be
\* reached or has the message in its stream, and never both: nobody who is in
\* the room is skipped or gets the message twice, and the set of members does
\* not change under the loop.
BroadcastReachesMembers ==
  \A s \in Senders : Broadcasting(s) =>
    \A u \in Clients :
      LET has == \E i \in DOMAIN Stream(u) : Stream(u)[i] = CurrentMessage(s)
      IN  /\ u \in todo[s] => ~has
          /\ u \in todo[s] \/ has
               <=> u \in members[room[s]] /\ UserName[u] # UserName[s]

\* Two receivers get the messages they have in common in the same order: the
\* lock of the room serialises broadcasts.
SameOrder ==
  \A u, v \in Clients : \A i, j \in DOMAIN Stream(u) : \A k, l \in DOMAIN Stream(v) :
    /\ Stream(u)[i] = Stream(v)[k] /\ Stream(u)[j] = Stream(v)[l]
    /\ Stream(u)[i].room = Stream(u)[j].room
    /\ i < j
    => k < l

\* A worker that has begun a request gets back to its client, so no cycle of
\* locks ever forms, unless the process exits.
RequestsAnswered ==
  \A s \in Senders :
    pc[s] \in {"rm", "find", "create", "add", "leave", "bcast", "enq", "reply"}
      ~> pc[s] \in {"recv", "done"} \/ ~up

\* Every message put in a receiver's queue is sent to it, unless the process exits.
QueuedIsSent ==
  \A u \in Receivers : \A s \in Senders : \A r \in RoomNames : \A k \in 1..MaxReqs :
    LET m == Message(s, r, k)
    IN  (\E i \in DOMAIN queue[u] : queue[u][i] = m)
          ~> (\E i \in DOMAIN sentTo[u] : sentTo[u][i] = m) \/ ~up

Chat == INSTANCE AtomicChat WITH
  subs      <- [r \in RoomNames |->
                  IF m_rooms[r] = NullRoom THEN {} ELSE members[m_rooms[r]]],
  feed      <- [u \in Clients |-> InHand(u) \o queue[u] \o InFlight(u)],
  delivered <- sentTo,
  published <- nsent

\* Every execution is one of AtomicChat: a broadcast takes effect for all the
\* members at once, when it gets the lock.
ImplementsAtomicChat == Chat!Spec
=============================================================================
