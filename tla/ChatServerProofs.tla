-------------------------- MODULE ChatServerProofs --------------------------
(***************************************************************************)
(* Proofs about ChatServer, for any number of clients, rooms and requests. *)
(*                                                                         *)
(* The three properties of rooms are not inductive.  What makes them so is *)
(* where each worker can be with what in its local variables (Control),    *)
(* what the map knows of the objects workers point to (Map) and, for every *)
(* point of the code, whether the worker's user is a member (Joined).      *)
(*                                                                         *)
(* The second half is about messages.  OrderInv makes the two properties   *)
(* of broadcasts inductive; with it every step is shown to be a step of    *)
(* AtomicChat or none.                                                     *)
(***************************************************************************)
EXTENDS ChatServer, SequenceTheorems, TLAPS

SenderPc == {"start", "recv", "rm", "find", "create", "add", "reply", "leave",
             "bcast", "enq", "done"}
ReceiverPc == {"start", "rjoin", "find", "create", "add", "reply", "loop",
               "send", "done"}

PcOK ==
  /\ \A s \in Senders : pc[s] \in SenderPc
  /\ \A u \in Receivers : pc[u] \in ReceiverPc

DataOK ==
  \A c \in Clients : pc[c] \in {"rm", "find", "create"} => data[c] \in RoomNames

CountOK ==
  \A s \in Senders :
    /\ nsent[s] <= nreq[s]
    /\ pc[s] = "bcast" => nsent[s] < nreq[s]
    /\ pc[s] = "enq" => nsent[s] >= 1

InRoomOK ==
  \A s \in Senders :
    /\ pc[s] \in {"rm", "leave", "bcast", "enq"} => in_room[s]
    /\ pc[s] = "start" => ~in_room[s]

HandOK == \A u \in Receivers : pc[u] = "send" => hand[u] \in Messages

Control == PcOK /\ DataOK /\ CountOK /\ InRoomOK /\ HandOK

MapSound == \A r \in RoomNames : m_rooms[r] # NullRoom => m_rooms[r][1] = r

\* No other worker can add the entry while one is about to.
Missing == \A c \in Clients : pc[c] = "create" => m_rooms[data[c]] = NullRoom

Pointers == \A c \in Clients : room[c] \in Rooms => m_rooms[room[c][1]] = room[c]

Map == MapSound /\ Missing /\ Pointers

\* The user of c is a member of room[c].  A sender's in_room lags behind while
\* the response to a join or a leave is sent.
Joined(c) ==
  IF c \in Senders
    THEN /\ pc[c] \notin {"start", "find", "create", "add"}
         /\ IF pc[c] = "reply" /\ reply[c] \in {"join ok", "left ok"}
              THEN reply[c] = "join ok"
              ELSE in_room[c]
    ELSE pc[c] \in {"loop", "send"} \/ (pc[c] = "reply" /\ reply[c] = "join ok")

Membership ==
  \A c \in Clients, r \in Rooms : c \in members[r] <=> Joined(c) /\ room[c] = r

JoinedRoom == \A c \in Clients : Joined(c) \/ pc[c] = "add" => room[c] \in Rooms

IInv == TypeOK /\ LocksOnlyInside /\ Control /\ Map /\ Membership /\ JoinedRoom
-----------------------------------------------------------------------------
(* Initially every worker is at its login and nothing is shared. *)
LEMMA InitInv == Init => IInv
<1> SUFFICES ASSUME Init PROVE IInv
  OBVIOUS
<1>a. 0 \in 0..MaxReqs
  <2>1. MaxReqs \in Nat
    BY ServerAssumption
  <2> QED
    BY <2>1
<1>b. ASSUME NEW s \in Senders PROVE nsent[s] <= nreq[s]
  <2>1. nsent[s] = 0 /\ nreq[s] = 0
    BY DEF Init
  <2> QED
    BY <2>1
<1> USE ServerAssumption DEF Init
<1>1. TypeOK
  <2>1. queue \in [Clients -> Seq(Messages)] /\ sentTo \in [Clients -> Seq(Messages)]
    BY EmptySeq
  <2>2. /\ nreq \in [Senders -> 0..MaxReqs] /\ nsent \in [Senders -> 0..MaxReqs]
        /\ up \in BOOLEAN /\ eof \in [Senders -> BOOLEAN]
        /\ in_room \in [Senders -> BOOLEAN]
    <3>2. up \in BOOLEAN
      OBVIOUS
    <3>3. eof \in [Senders -> BOOLEAN] /\ in_room \in [Senders -> BOOLEAN]
      OBVIOUS
    <3>4. nreq \in [Senders -> 0..MaxReqs] /\ nsent \in [Senders -> 0..MaxReqs]
      BY <1>a
    <3> QED
      BY <3>2, <3>3, <3>4
  <2>3. /\ m_rooms \in [RoomNames -> Rooms \cup {NullRoom}]
        /\ m_lock \in Clients \cup {Nobody}
        /\ members \in [Rooms -> SUBSET Clients]
        /\ lock \in [Rooms -> Clients \cup {Nobody}]
        /\ room \in [Clients -> RoomPtrs]
    BY DEF RoomPtrs
  <2>4. hand \in [Receivers -> Messages \cup {NoMessage}]
    OBVIOUS
  <2> HIDE DEF NoMessage
  <2>5. /\ pc \in [Clients -> {"start", "recv", "rm", "find", "create", "add", "reply",
                               "leave", "bcast", "enq", "rjoin", "loop", "send", "done"}]
        /\ data \in [Clients -> RoomNames \cup {""}]
        /\ reply \in [Clients -> {"", "err", "join ok", "left ok", "message ok", "quit ok"}]
        /\ todo \in [Senders -> SUBSET Clients]
    OBVIOUS
  <2> HIDE DEF Init
  <2> QED
    BY <2>1, <2>2, <2>3, <2>4, <2>5 DEF TypeOK
<1>2. LocksOnlyInside
  BY DEF LocksOnlyInside, Broadcasting, Clients
<1>3. Control
  <2>1. PcOK /\ DataOK /\ InRoomOK /\ HandOK
    BY DEF PcOK, DataOK, InRoomOK, HandOK, SenderPc, ReceiverPc, Clients
  <2>2. CountOK
    <3>1. ASSUME NEW s \in Senders PROVE pc[s] = "start"
      BY DEF Clients
    <3> HIDE DEF Init
    <3> QED
      BY <1>b, <3>1 DEF CountOK
  <2> QED
    BY <2>1, <2>2 DEF Control
<1>4. Map
  BY DEF Map, MapSound, Missing, Pointers, Rooms, Clients
<1>5. Membership /\ JoinedRoom
  BY DEF Membership, JoinedRoom, Joined, Rooms, Clients
<1> QED
  BY <1>1, <1>2, <1>3, <1>4, <1>5 DEF IInv
-----------------------------------------------------------------------------
(* A worker that is about to use a Room as a member of it has one. *)
LEMMA InRoom ==
  ASSUME IInv, NEW s \in Senders, pc[s] \in {"rm", "leave", "bcast", "enq"}
  PROVE  room[s] \in Rooms /\ Joined(s)
<1>1. Joined(s)
  BY DEF IInv, Control, InRoomOK, Joined
<1> QED
  BY <1>1 DEF IInv, JoinedRoom, Clients

(* The counters of a sender, and what its place in the code says of them. *)
LEMMA Counters ==
  ASSUME IInv, NEW s \in Senders
  PROVE  /\ MaxReqs \in Nat
         /\ nreq[s] \in Nat /\ nreq[s] <= MaxReqs
         /\ nsent[s] \in Nat /\ nsent[s] <= nreq[s] /\ nsent[s] <= MaxReqs
         /\ pc[s] = "bcast" => nsent[s] < nreq[s]
         /\ pc[s] = "enq" => nsent[s] >= 1
<1>1. nreq \in [Senders -> 0..MaxReqs] /\ nsent \in [Senders -> 0..MaxReqs]
  BY DEF IInv, TypeOK
<1>2. nreq[s] \in 0..MaxReqs /\ nsent[s] \in 0..MaxReqs
  BY <1>1
<1>3. MaxReqs \in Nat
  BY ServerAssumption
<1>4. CountOK
  BY DEF IInv, Control
<1> QED
  BY <1>2, <1>3, <1>4 DEF CountOK

(* The message a broadcast enqueues is a Message. *)
LEMMA CurrentMessageType ==
  ASSUME IInv, NEW s \in Senders, pc[s] = "enq"
  PROVE  Message(s, room[s][1], nsent[s]) \in Messages
<1>1. room[s][1] \in RoomNames
  BY InRoom DEF Rooms
<1>2. nsent[s] \in 1..MaxReqs
  BY Counters
<1> QED
  BY <1>1, <1>2 DEF Message, Messages
-----------------------------------------------------------------------------
(* Every action keeps the variables in their types. *)
LEMMA NextType == IInv /\ [Next]_vars => TypeOK'
<1> SUFFICES ASSUME IInv, [Next]_vars PROVE TypeOK'
  OBVIOUS
<1>0. TypeOK
  BY DEF IInv
<1> USE <1>0 DEF TypeOK, Goto, Respond, netVars, serverVars, roomVars, frameVars,
                 countVars, feedVars
<1>1. ASSUME NEW c \in Clients, ReadError(c) \/ Login(c) \/ LoginFails(c)
      PROVE TypeOK'
  BY <1>1 DEF ReadError, Login, LoginFails
<1>2. ASSUME NEW s \in Senders, Disconnect(s) \/ ReceiveEof(s)
      PROVE TypeOK'
  <2>1. CASE Disconnect(s)
    BY <2>1 DEF Disconnect
  <2>2. CASE ReceiveEof(s)
    BY <2>2 DEF ReceiveEof
  <2> QED
    BY <1>2, <2>1, <2>2
<1>3. ASSUME NEW s \in Senders, NEW to \in SenderPc, Receive(s, to),
             data' \in [Clients -> RoomNames \cup {""}],
             reply' = reply \/ reply' = [reply EXCEPT ![s] = "err"]
                            \/ reply' = [reply EXCEPT ![s] = "quit ok"]
      PROVE TypeOK'
  <2>1. nreq[s] + 1 \in 0..MaxReqs
    <3>1. nreq[s] < MaxReqs
      BY <1>3 DEF Receive
    <3> HIDE DEF TypeOK
    <3> QED
      BY <3>1, Counters
  <2> QED
    BY <1>3, <2>1 DEF Receive, SenderPc
<1>4. ASSUME NEW s \in Senders,
             \/ \E r \in RoomNames : ReceiveJoin(s, r)
             \/ ReceiveLeave(s) \/ ReceiveSendall(s) \/ ReceiveBad(s) \/ ReceiveQuit(s)
      PROVE TypeOK'
  <2>1. CASE \E r \in RoomNames : ReceiveJoin(s, r)
    <3>1. PICK r \in RoomNames : ReceiveJoin(s, r)
      BY <2>1
    <3>2. (IF in_room[s] THEN "rm" ELSE "find") \in SenderPc
      BY DEF SenderPc
    <3>3. data' \in [Clients -> RoomNames \cup {""}] /\ reply' = reply
      BY <3>1 DEF ReceiveJoin
    <3> QED
      BY <3>1, <3>2, <3>3, <1>3 DEF ReceiveJoin
  <2>2. CASE ReceiveLeave(s) \/ ReceiveSendall(s)
    BY <2>2, <1>3 DEF ReceiveLeave, ReceiveSendall, SenderPc
  <2>3. CASE ReceiveBad(s) \/ ReceiveQuit(s)
    BY <2>3, <1>3 DEF ReceiveBad, ReceiveQuit, SenderPc
  <2> QED
    BY <1>4, <2>1, <2>2, <2>3
<1>5. ASSUME NEW c \in Clients, FindRoom(c) PROVE TypeOK'
  <2>1. data[c] \in RoomNames
    BY <1>5 DEF FindRoom, IInv, Control, DataOK
  <2>2. m_rooms[data[c]] \in RoomPtrs
    BY <2>1 DEF RoomPtrs
  <2> QED
    BY <1>5, <2>2 DEF FindRoom
<1>6. ASSUME NEW c \in Clients, CreateRoom(c) PROVE TypeOK'
  <2>1. data[c] \in RoomNames
    BY <1>6 DEF CreateRoom, IInv, Control, DataOK
  <2>2. <<data[c], c>> \in Rooms /\ <<data[c], c>> \in RoomPtrs
    BY <2>1 DEF Rooms, RoomPtrs
  <2> QED
    BY <1>6, <2>1, <2>2 DEF CreateRoom
<1>7. ASSUME NEW c \in Clients, AddMember(c) PROVE TypeOK'
  BY <1>7 DEF AddMember
<1>8. ASSUME NEW s \in Senders, RemoveForJoin(s) \/ RemoveForLeave(s) PROVE TypeOK'
  <2>1. /\ members[room[s]] \ {s} \in SUBSET Clients
        /\ s \in Clients
    BY <1>8, InRoom DEF RemoveForJoin, RemoveForLeave, Clients
  <2>2. CASE RemoveForJoin(s)
    BY <2>1, <2>2 DEF RemoveForJoin
  <2>3. CASE RemoveForLeave(s)
    BY <2>1, <2>3 DEF RemoveForLeave, RoomPtrs
  <2> QED
    BY <1>8, <2>2, <2>3
<1>9. ASSUME NEW s \in Senders, BcastLock(s) PROVE TypeOK'
  <2>1. nsent[s] + 1 \in 0..MaxReqs
    <3>1. pc[s] = "bcast"
      BY <1>9 DEF BcastLock
    <3> HIDE DEF TypeOK
    <3> QED
      BY <3>1, Counters
  <2>2. {u \in members[room[s]] : UserName[u] # UserName[s]} \in SUBSET Clients
    BY <1>9, InRoom DEF BcastLock
  <2> QED
    BY <1>9, <2>1, <2>2 DEF BcastLock, Clients
<1>10. ASSUME NEW s \in Senders, NEW u \in Clients, BcastEnqueue(s, u) PROVE TypeOK'
  <2>1. Message(s, room[s][1], nsent[s]) \in Messages
    BY <1>10, CurrentMessageType DEF BcastEnqueue
  <2>2. Append(queue[u], Message(s, room[s][1], nsent[s])) \in Seq(Messages)
    BY <2>1, AppendProperties
  <2> QED
    BY <1>10, <2>2 DEF BcastEnqueue
<1>11. ASSUME NEW s \in Senders, BcastUnlock(s) PROVE TypeOK'
  BY <1>11 DEF BcastUnlock
<1>12. ASSUME NEW s \in Senders, SenderReply(s) PROVE TypeOK'
  BY <1>12 DEF SenderReply
<1>13. ASSUME NEW u \in Receivers,
              \/ \E r \in RoomNames : ReceiverJoin(u, r)
              \/ ReceiverBadJoin(u) \/ ReceiverReply(u)
       PROVE TypeOK'
  <2>1. u \in Clients
    BY DEF Clients
  <2>2. CASE \E r \in RoomNames : ReceiverJoin(u, r)
    <3>1. PICK r \in RoomNames : ReceiverJoin(u, r)
      BY <2>2
    <3>2. data' \in [Clients -> RoomNames \cup {""}]
      BY <2>1, <3>1 DEF ReceiverJoin
    <3> QED
      BY <2>1, <3>1, <3>2 DEF ReceiverJoin
  <2>3. CASE ReceiverBadJoin(u)
    BY <2>1, <2>3 DEF ReceiverBadJoin
  <2>4. CASE ReceiverReply(u)
    BY <2>1, <2>4 DEF ReceiverReply
  <2> QED
    BY <1>13, <2>2, <2>3, <2>4
<1>14. ASSUME NEW u \in Receivers, Dequeue(u) PROVE TypeOK'
  <2>1. u \in Clients
    BY DEF Clients
  <2>2. Head(queue[u]) \in Messages /\ Tail(queue[u]) \in Seq(Messages)
    BY <1>14, <2>1, HeadTailProperties DEF Dequeue
  <2> QED
    BY <1>14, <2>2 DEF Dequeue
<1>15. ASSUME NEW u \in Receivers, SendDelivery(u) PROVE TypeOK'
  <2>1. hand[u] \in Messages
    BY <1>15 DEF SendDelivery, IInv, Control, HandOK
  <2>2. Append(sentTo[u], hand[u]) \in Seq(Messages)
    BY <2>1, AppendProperties DEF Clients
  <2> QED
    BY <1>15, <2>2 DEF SendDelivery
<1>16. CASE UNCHANGED vars
  BY <1>16 DEF vars
<1> HIDE DEF TypeOK
<1> QED
  BY <1>1, <1>2, <1>4, <1>5, <1>6, <1>7, <1>8, <1>9, <1>10, <1>11, <1>12, <1>13,
     <1>14, <1>15, <1>16
     DEF Next, FromClient, WorkerStep, SenderStep, ReceiverStep
-----------------------------------------------------------------------------
\* A step of c that neither takes nor gives back a lock, and begins and ends
\* where c holds none.
Quiet(c) ==
  /\ UNCHANGED <<m_lock, lock>>
  /\ pc[c] \notin {"create", "enq"} /\ pc'[c] \notin {"create", "enq"}
  /\ \A d \in Clients : d # c => pc'[d] = pc[d] /\ room'[d] = room[d]

LEMMA QuietKeepsLocks ==
  ASSUME LocksOnlyInside, NEW c \in Clients, Quiet(c)
  PROVE  LocksOnlyInside'
BY DEF LocksOnlyInside, Broadcasting, Quiet

(* A mutex is held exactly by the worker that is inside. *)
LEMMA NextLocks == IInv /\ [Next]_vars => LocksOnlyInside'
<1> SUFFICES ASSUME IInv, [Next]_vars PROVE LocksOnlyInside'
  OBVIOUS
<1>0. /\ LocksOnlyInside
      /\ pc \in [Clients -> {"start", "recv", "rm", "find", "create",
           "add", "reply", "leave", "bcast", "enq", "rjoin", "loop", "send", "done"}]
      /\ lock \in [Rooms -> Clients \cup {Nobody}]
      /\ room \in [Clients -> RoomPtrs]
      /\ Nobody \notin Clients
      /\ Senders \subseteq Clients /\ Receivers \subseteq Clients
  BY ServerAssumption DEF IInv, TypeOK, Clients
<1> USE DEF Goto, netVars, serverVars, roomVars, frameVars, countVars, feedVars
<1>1. ASSUME NEW c \in Clients, ReadError(c)
      PROVE LocksOnlyInside'
  BY <1>0, <1>1 DEF ReadError, LocksOnlyInside, Broadcasting
<1>2. ASSUME NEW s \in Senders, Disconnect(s)
      PROVE LocksOnlyInside'
  BY <1>0, <1>2 DEF Disconnect, LocksOnlyInside, Broadcasting
<1>3. ASSUME NEW c \in Clients, Login(c) \/ LoginFails(c) \/ AddMember(c)
      PROVE LocksOnlyInside'
  <2>1. CASE Login(c)
    <3>1. (IF c \in Senders THEN "recv" ELSE "rjoin") \notin {"create", "enq"}
      OBVIOUS
    <3>2. Quiet(c)
      BY <1>0, <2>1, <3>1 DEF Login, Quiet
    <3> QED
      BY <1>0, <3>2, QuietKeepsLocks
  <2>2. CASE LoginFails(c) \/ AddMember(c)
    <3>1. Quiet(c)
      BY <1>0, <2>2 DEF LoginFails, AddMember, Quiet
    <3> QED
      BY <1>0, <3>1, QuietKeepsLocks
  <2> QED
    BY <1>3, <2>1, <2>2
<1>4. ASSUME NEW s \in Senders,
             \/ \E r \in RoomNames : ReceiveJoin(s, r)
             \/ ReceiveLeave(s) \/ ReceiveSendall(s) \/ ReceiveBad(s) \/ ReceiveQuit(s)
      PROVE LocksOnlyInside'
  <2>1. ASSUME NEW to, Receive(s, to), to \notin {"create", "enq"}
        PROVE  LocksOnlyInside'
    <3>1. Quiet(s)
      BY <1>0, <2>1 DEF Receive, Quiet
    <3> QED
      BY <1>0, <3>1, QuietKeepsLocks
  <2>2. CASE \E r \in RoomNames : ReceiveJoin(s, r)
    <3>1. (IF in_room[s] THEN "rm" ELSE "find") \notin {"create", "enq"}
      OBVIOUS
    <3> QED
      BY <2>1, <2>2, <3>1 DEF ReceiveJoin
  <2>3. CASE ReceiveLeave(s) \/ ReceiveSendall(s)
    BY <2>1, <2>3 DEF ReceiveLeave, ReceiveSendall
  <2>4. CASE ReceiveBad(s) \/ ReceiveQuit(s)
    BY <2>1, <2>4 DEF ReceiveBad, ReceiveQuit
  <2> QED
    BY <1>4, <2>2, <2>3, <2>4
<1>5. ASSUME NEW s \in Senders,
             \/ ReceiveEof(s) \/ RemoveForJoin(s) \/ RemoveForLeave(s)
             \/ SenderReply(s)
      PROVE LocksOnlyInside'
  <2>1. CASE ReceiveEof(s) \/ RemoveForJoin(s)
    <3>1. Quiet(s)
      BY <1>0, <2>1 DEF ReceiveEof, RemoveForJoin, Quiet
    <3> QED
      BY <1>0, <3>1, QuietKeepsLocks
  <2>2. CASE RemoveForLeave(s)
    <3>1. Quiet(s)
      BY <1>0, <2>2 DEF RemoveForLeave, Quiet
    <3> QED
      BY <1>0, <3>1, QuietKeepsLocks
  <2>3. CASE SenderReply(s)
    <3>1. Quiet(s)
      BY <1>0, <2>3 DEF SenderReply, Quiet
    <3> QED
      BY <1>0, <3>1, QuietKeepsLocks
  <2> QED
    BY <1>5, <2>1, <2>2, <2>3
<1>6. ASSUME NEW c \in Clients, FindRoom(c) PROVE LocksOnlyInside'
  <2>1. CASE m_rooms[data[c]] # NullRoom
    <3>1. Quiet(c)
      BY <1>0, <1>6, <2>1 DEF FindRoom, Quiet
    <3> QED
      BY <1>0, <3>1, QuietKeepsLocks
  <2>2. CASE m_rooms[data[c]] = NullRoom
    BY <1>0, <1>6, <2>2 DEF FindRoom, LocksOnlyInside, Broadcasting
  <2> QED
    BY <2>1, <2>2
<1>7. ASSUME NEW c \in Clients, CreateRoom(c) PROVE LocksOnlyInside'
  BY <1>0, <1>7 DEF CreateRoom, LocksOnlyInside, Broadcasting
<1>8. ASSUME NEW s \in Senders, BcastLock(s) PROVE LocksOnlyInside'
  <2>1. room[s] \in Rooms
    BY <1>8, InRoom DEF BcastLock
  <2> QED
    BY <1>0, <1>8, <2>1 DEF BcastLock, LocksOnlyInside, Broadcasting
<1>9. ASSUME NEW s \in Senders, NEW u \in Clients, BcastEnqueue(s, u)
      PROVE LocksOnlyInside'
  BY <1>0, <1>9 DEF BcastEnqueue, LocksOnlyInside, Broadcasting
<1>10. ASSUME NEW s \in Senders, BcastUnlock(s) PROVE LocksOnlyInside'
  <2>1. room[s] \in Rooms
    BY <1>10, InRoom DEF BcastUnlock
  <2> QED
    <3>1. pc[s] = "enq" /\ pc' = [pc EXCEPT ![s] = "reply"]
          /\ lock' = [lock EXCEPT ![room[s]] = Nobody]
          /\ room' = room /\ m_lock' = m_lock
      BY <1>10 DEF BcastUnlock
    <3>2. \A r \in Rooms, c \in Clients : lock'[r] = c <=> lock[r] = c /\ c # s
      BY <1>0, <2>1, <3>1 DEF LocksOnlyInside, Broadcasting
    <3> QED
      BY <1>0, <3>1, <3>2 DEF LocksOnlyInside, Broadcasting
<1>11. ASSUME NEW u \in Receivers,
              \/ \E r \in RoomNames : ReceiverJoin(u, r)
              \/ ReceiverBadJoin(u) \/ ReceiverReply(u) \/ Dequeue(u) \/ SendDelivery(u)
       PROVE LocksOnlyInside'
  <2>1. Quiet(u)
    BY <1>0, <1>11
       DEF ReceiverJoin, ReceiverBadJoin, ReceiverReply, Dequeue, SendDelivery, Quiet
  <2> QED
    BY <1>0, <2>1, QuietKeepsLocks
<1>12. CASE UNCHANGED vars
  BY <1>0, <1>12 DEF vars, LocksOnlyInside, Broadcasting
<1> QED
  BY <1>1, <1>2, <1>3, <1>4, <1>5, <1>6, <1>7, <1>8, <1>9, <1>10, <1>11, <1>12
     DEF Next, FromClient, WorkerStep, SenderStep, ReceiverStep
-----------------------------------------------------------------------------
(* The types the lemmas below need. *)
LEMMA Types ==
  ASSUME IInv
  PROVE  /\ pc \in [Clients -> {"start", "recv", "rm", "find", "create",
              "add", "reply", "leave", "bcast", "enq", "rjoin", "loop", "send", "done"}]
         /\ reply \in [Clients -> {"", "err", "join ok", "left ok", "message ok", "quit ok"}]
         /\ data \in [Clients -> RoomNames \cup {""}]
         /\ room \in [Clients -> RoomPtrs]
         /\ in_room \in [Senders -> BOOLEAN]
         /\ m_rooms \in [RoomNames -> Rooms \cup {NullRoom}]
         /\ members \in [Rooms -> SUBSET Clients]
         /\ Senders \subseteq Clients /\ Receivers \subseteq Clients
         /\ Senders \cap Receivers = {}
         /\ NullRoom \notin Rooms
BY ServerAssumption DEF IInv, TypeOK, Clients

\* A step of c to a place of its own code, with what that place relies on.
LocalStep(c) ==
  /\ \A d \in Clients : d # c => pc'[d] = pc[d] /\ data'[d] = data[d]
  /\ UNCHANGED <<in_room, hand>>
  /\ pc'[c] \notin {"start", "send"}
  /\ c \in Senders => pc'[c] \in SenderPc
  /\ c \in Receivers => pc'[c] \in ReceiverPc
  /\ pc'[c] \in {"rm", "leave", "bcast", "enq"} => in_room[c]
  /\ pc'[c] \in {"rm", "find", "create"} => data'[c] \in RoomNames

LEMMA LocalStepKeepsLocals ==
  ASSUME PcOK, DataOK, InRoomOK, HandOK, NEW c \in Clients, LocalStep(c)
  PROVE  PcOK' /\ DataOK' /\ InRoomOK' /\ HandOK'
<1> USE DEF LocalStep, Clients
<1>1. PcOK'
  BY DEF PcOK
<1>2. DataOK'
  BY DEF DataOK
<1>3. InRoomOK'
  BY DEF InRoomOK
<1>4. HandOK'
  BY DEF HandOK
<1> QED
  BY <1>1, <1>2, <1>3, <1>4

(* Each worker stays in the code of its kind, with what that code relies on. *)
LEMMA NextLocals ==
  IInv /\ [Next]_vars => PcOK' /\ DataOK' /\ InRoomOK' /\ HandOK'
<1> DEFINE Locals == PcOK /\ DataOK /\ InRoomOK /\ HandOK
<1> SUFFICES ASSUME IInv, [Next]_vars PROVE Locals'
  OBVIOUS
<1>0. /\ Locals
      /\ pc \in [Clients -> {"start", "recv", "rm", "find", "create",
           "add", "reply", "leave", "bcast", "enq", "rjoin", "loop", "send", "done"}]
      /\ data \in [Clients -> RoomNames \cup {""}]
      /\ in_room \in [Senders -> BOOLEAN]
      /\ hand \in [Receivers -> Messages \cup {NoMessage}]
      /\ Senders \cap Receivers = {}
      /\ Senders \subseteq Clients /\ Receivers \subseteq Clients
      /\ Clients = Senders \cup Receivers
  BY ServerAssumption DEF IInv, TypeOK, Control, Clients
<1> USE DEF Goto, Respond, netVars, serverVars, roomVars, frameVars, countVars, feedVars,
            PcOK, DataOK, InRoomOK, HandOK, SenderPc, ReceiverPc
<1>1. ASSUME NEW c \in Clients, ReadError(c) PROVE Locals'
  BY <1>0, <1>1 DEF ReadError
<1>2. ASSUME NEW s \in Senders, Disconnect(s) PROVE Locals'
  BY <1>0, <1>2 DEF Disconnect
<1>3. ASSUME NEW c \in Clients, Login(c) PROVE Locals'
  BY <1>0, <1>3 DEF Login
<1>4. ASSUME NEW c \in Clients, LoginFails(c) PROVE Locals'
  BY <1>0, <1>4 DEF LoginFails
<1>5. ASSUME NEW s \in Senders, NEW r \in RoomNames, ReceiveJoin(s, r) PROVE Locals'
  BY <1>0, <1>5 DEF ReceiveJoin, Receive
<1>6. ASSUME NEW s \in Senders, ReceiveLeave(s) \/ ReceiveSendall(s) PROVE Locals'
  <2>1. CASE ReceiveLeave(s)
    <3>1. LocalStep(s)
      BY <1>0, <2>1 DEF ReceiveLeave, LocalStep, Receive
    <3> QED
      BY <1>0, <3>1, LocalStepKeepsLocals
  <2>2. CASE ReceiveSendall(s)
    <3>1. LocalStep(s)
      BY <1>0, <2>2 DEF ReceiveSendall, LocalStep, Receive
    <3> QED
      BY <1>0, <3>1, LocalStepKeepsLocals
  <2> QED
    BY <1>6, <2>1, <2>2
<1>7. ASSUME NEW s \in Senders, ReceiveBad(s) \/ ReceiveQuit(s) \/ ReceiveEof(s)
      PROVE Locals'
  <2>1. CASE ReceiveBad(s)
    <3>1. LocalStep(s)
      BY <1>0, <2>1 DEF ReceiveBad, LocalStep, Receive
    <3> QED
      BY <1>0, <3>1, LocalStepKeepsLocals
  <2>2. CASE ReceiveQuit(s)
    <3>1. LocalStep(s)
      BY <1>0, <2>2 DEF ReceiveQuit, LocalStep, Receive
    <3> QED
      BY <1>0, <3>1, LocalStepKeepsLocals
  <2>3. CASE ReceiveEof(s)
    <3>1. LocalStep(s)
      BY <1>0, <2>3 DEF ReceiveEof, LocalStep
    <3> QED
      BY <1>0, <3>1, LocalStepKeepsLocals
  <2> QED
    BY <1>7, <2>1, <2>2, <2>3
<1>8. ASSUME NEW c \in Clients, FindRoom(c) PROVE Locals'
  <2>1. /\ pc[c] = "find" /\ data' = data /\ UNCHANGED <<in_room, hand>>
        /\ \/ pc' = [pc EXCEPT ![c] = "add"]
           \/ pc' = [pc EXCEPT ![c] = "create"]
    BY <1>8 DEF FindRoom
  <2>2. data[c] \in RoomNames
    BY <1>0, <2>1
  <2>3. LocalStep(c)
    BY <1>0, <2>1, <2>2 DEF LocalStep
  <2> QED
    BY <1>0, <2>3, LocalStepKeepsLocals
<1>9. ASSUME NEW c \in Clients, CreateRoom(c) \/ AddMember(c) PROVE Locals'
  <2>1. CASE CreateRoom(c)
    <3>1. LocalStep(c)
      BY <1>0, <2>1 DEF CreateRoom, LocalStep
    <3> QED
      BY <1>0, <3>1, LocalStepKeepsLocals
  <2>2. CASE AddMember(c)
    <3>1. LocalStep(c)
      BY <1>0, <2>2 DEF AddMember, LocalStep
    <3> QED
      BY <1>0, <3>1, LocalStepKeepsLocals
  <2> QED
    BY <1>9, <2>1, <2>2
<1>10. ASSUME NEW s \in Senders, RemoveForJoin(s) \/ RemoveForLeave(s) PROVE Locals'
  <2>1. CASE RemoveForJoin(s)
    <3>1. LocalStep(s)
      BY <1>0, <2>1 DEF RemoveForJoin, LocalStep
    <3> QED
      BY <1>0, <3>1, LocalStepKeepsLocals
  <2>2. CASE RemoveForLeave(s)
    <3>1. LocalStep(s)
      BY <1>0, <2>2 DEF RemoveForLeave, LocalStep
    <3> QED
      BY <1>0, <3>1, LocalStepKeepsLocals
  <2> QED
    BY <1>10, <2>1, <2>2
<1>11. ASSUME NEW s \in Senders, BcastLock(s) \/ BcastUnlock(s) PROVE Locals'
  <2>1. CASE BcastLock(s)
    <3>1. LocalStep(s)
      BY <1>0, <2>1 DEF BcastLock, LocalStep
    <3> QED
      BY <1>0, <3>1, LocalStepKeepsLocals
  <2>2. CASE BcastUnlock(s)
    <3>1. LocalStep(s)
      BY <1>0, <2>2 DEF BcastUnlock, LocalStep
    <3> QED
      BY <1>0, <3>1, LocalStepKeepsLocals
  <2> QED
    BY <1>11, <2>1, <2>2
<1>12. ASSUME NEW s \in Senders, NEW u \in Clients, BcastEnqueue(s, u) PROVE Locals'
  BY <1>0, <1>12 DEF BcastEnqueue
<1>13. ASSUME NEW s \in Senders, SenderReply(s) PROVE Locals'
  BY <1>0, <1>13 DEF SenderReply
<1>14. ASSUME NEW u \in Receivers, NEW r \in RoomNames, ReceiverJoin(u, r) PROVE Locals'
  BY <1>0, <1>14 DEF ReceiverJoin
<1>15. ASSUME NEW u \in Receivers, ReceiverBadJoin(u) \/ ReceiverReply(u) PROVE Locals'
  <2>1. CASE ReceiverBadJoin(u)
    BY <1>0, <2>1 DEF ReceiverBadJoin
  <2>2. CASE ReceiverReply(u)
    BY <1>0, <2>2 DEF ReceiverReply
  <2> QED
    BY <1>15, <2>1, <2>2
<1>16. ASSUME NEW u \in Receivers, Dequeue(u) PROVE Locals'
  <2>1. Head(queue[u]) \in Messages
    BY <1>16, HeadTailProperties DEF Dequeue, IInv, TypeOK, Clients
  <2> QED
    BY <1>0, <1>16, <2>1 DEF Dequeue
<1>17. ASSUME NEW u \in Receivers, SendDelivery(u) PROVE Locals'
  BY <1>0, <1>17 DEF SendDelivery
<1>18. CASE UNCHANGED vars
  BY <1>0, <1>18 DEF vars
<1> HIDE DEF Locals
<1> QED
  BY <1>1, <1>2, <1>3, <1>4, <1>5, <1>6, <1>7, <1>8, <1>9, <1>10, <1>11, <1>12,
     <1>13, <1>14, <1>15, <1>16, <1>17, <1>18
     DEF Next, FromClient, WorkerStep, SenderStep, ReceiverStep

(* A broadcast is begun for a request that was read, once. *)
LEMMA NextCount == IInv /\ [Next]_vars => CountOK'
<1> SUFFICES ASSUME IInv, [Next]_vars, NEW s \in Senders
             PROVE  (/\ nsent[s] <= nreq[s]
                     /\ pc[s] = "bcast" => nsent[s] < nreq[s]
                     /\ pc[s] = "enq" => nsent[s] >= 1)'
  BY DEF CountOK
<1> DEFINE Count == /\ nsent[s] <= nreq[s]
                    /\ pc[s] = "bcast" => nsent[s] < nreq[s]
                    /\ pc[s] = "enq" => nsent[s] >= 1
<1>0. Count /\ nreq[s] \in Nat /\ nsent[s] \in Nat
  BY Counters
<1>a. /\ s \in Clients
      /\ pc \in [Clients -> {"start", "recv", "rm", "find", "create",
           "add", "reply", "leave", "bcast", "enq", "rjoin", "loop", "send", "done"}]
      /\ nreq \in [Senders -> 0..MaxReqs] /\ nsent \in [Senders -> 0..MaxReqs]
  BY Types DEF IInv, TypeOK
\* Three ways to keep it: not to move the worker of s, to move it to another
\* place with the counters as they are, and to count a request.
<1>b. ASSUME nreq'[s] = nreq[s], nsent'[s] = nsent[s],
             pc'[s] = pc[s] \/ pc'[s] \notin {"bcast", "enq"}
      PROVE  Count'
  BY <1>0, <1>b
<1>c. ASSUME nreq'[s] = nreq[s] + 1, nsent'[s] = nsent[s], pc'[s] # "enq"
      PROVE  Count'
  BY <1>0, <1>c
<1> USE DEF Goto, netVars, serverVars, roomVars, frameVars, countVars, feedVars
<1> HIDE DEF Count
<1>1. ASSUME NEW c \in Clients,
             \/ ReadError(c) \/ Login(c) \/ LoginFails(c)
             \/ FindRoom(c) \/ CreateRoom(c) \/ AddMember(c)
      PROVE  Count'
  <2>1. nreq' = nreq /\ nsent' = nsent
    BY <1>1 DEF ReadError, Login, LoginFails, FindRoom, CreateRoom, AddMember
  <2>2. pc'[s] = pc[s] \/ pc'[s] \notin {"bcast", "enq"}
    BY <1>a, <1>1 DEF ReadError, Login, LoginFails, FindRoom, CreateRoom, AddMember
  <2> QED
    BY <1>b, <2>1, <2>2
<1>2. ASSUME NEW q \in Senders,
             \/ Disconnect(q) \/ ReceiveEof(q) \/ RemoveForJoin(q) \/ RemoveForLeave(q)
             \/ BcastUnlock(q) \/ SenderReply(q)
             \/ \E u \in Clients : BcastEnqueue(q, u)
      PROVE  Count'
  <2>1. nreq' = nreq /\ nsent' = nsent
    BY <1>2 DEF Disconnect, ReceiveEof, RemoveForJoin, RemoveForLeave, BcastUnlock,
                SenderReply, BcastEnqueue
  <2>2. pc'[s] = pc[s] \/ pc'[s] \notin {"bcast", "enq"}
    BY <1>a, <1>2 DEF Disconnect, ReceiveEof, RemoveForJoin, RemoveForLeave, BcastUnlock,
                SenderReply, BcastEnqueue
  <2> QED
    BY <1>b, <2>1, <2>2
<1>3. ASSUME NEW q \in Senders, NEW to, Receive(q, to), to # "enq" PROVE Count'
  <2>1. CASE q = s
    BY <1>a, <1>c, <1>3, <2>1 DEF Receive
  <2>2. CASE q # s
    BY <1>a, <1>b, <1>3, <2>2 DEF Receive
  <2> QED
    BY <2>1, <2>2
<1>4. ASSUME NEW q \in Senders,
             \/ \E r \in RoomNames : ReceiveJoin(q, r)
             \/ ReceiveLeave(q) \/ ReceiveSendall(q) \/ ReceiveBad(q) \/ ReceiveQuit(q)
      PROVE  Count'
  <2>1. (IF in_room[q] THEN "rm" ELSE "find") # "enq"
    OBVIOUS
  <2> QED
    BY <1>3, <1>4, <2>1
       DEF ReceiveJoin, ReceiveLeave, ReceiveSendall, ReceiveBad, ReceiveQuit
<1>5. ASSUME NEW q \in Senders, BcastLock(q) PROVE Count'
  <2>1. CASE q = s
    <3>1. /\ pc[s] = "bcast" /\ pc'[s] = "enq"
          /\ nsent'[s] = nsent[s] + 1 /\ nreq'[s] = nreq[s]
      BY <1>a, <1>5, <2>1 DEF BcastLock
    <3> QED
      BY <1>0, <3>1 DEF Count
  <2>2. CASE q # s
    BY <1>a, <1>b, <1>5, <2>2 DEF BcastLock
  <2> QED
    BY <2>1, <2>2
<1>6. ASSUME NEW u \in Receivers, ReceiverStep(u) \/ ReceiverBadJoin(u)
                                 \/ \E r \in RoomNames : ReceiverJoin(u, r)
      PROVE  Count'
  <2>1. nreq' = nreq /\ nsent' = nsent
    BY <1>6 DEF ReceiverStep, ReceiverReply, Dequeue, SendDelivery, ReceiverBadJoin, ReceiverJoin
  <2>2. pc'[s] = pc[s] \/ pc'[s] \notin {"bcast", "enq"}
    BY <1>a, <1>6
       DEF ReceiverStep, ReceiverReply, Dequeue, SendDelivery, ReceiverBadJoin, ReceiverJoin
  <2> QED
    BY <1>b, <2>1, <2>2
<1>7. ASSUME UNCHANGED vars PROVE Count'
  <2>1. nreq' = nreq /\ nsent' = nsent /\ pc' = pc
    BY <1>7 DEF vars
  <2>2. pc'[s] = pc[s] \/ pc'[s] \notin {"bcast", "enq"}
    BY <2>1
  <2> QED
    BY <1>b, <2>1, <2>2
<1>8. Count'
  <2>1. ASSUME NEW c \in Clients, FromClient(c) PROVE Count'
    BY <2>1, <1>1, <1>2, <1>4, <1>6 DEF FromClient
  <2>2. ASSUME NEW c \in Clients, WorkerStep(c) PROVE Count'
    BY <2>2, <1>1, <1>2, <1>5, <1>6 DEF WorkerStep, SenderStep
  <2>3. CASE Next
    <3>1. PICK c \in Clients : FromClient(c) \/ WorkerStep(c)
      BY <2>3 DEF Next
    <3> QED
      BY <2>1, <2>2, <3>1
  <2> QED
    BY <2>3, <1>7
<1> QED
  BY <1>8 DEF Count
-----------------------------------------------------------------------------
\* A step of c that does not touch the map, or the Room anybody points to.
MapStep(c) ==
  /\ UNCHANGED <<m_rooms, room>>
  /\ pc'[c] = "create" => (pc[c] = "create" /\ data'[c] = data[c])
  /\ \A d \in Clients : d # c => pc'[d] = pc[d] /\ data'[d] = data[d]

LEMMA MapStepKeepsMap ==
  ASSUME Map, NEW c \in Clients, MapStep(c)
  PROVE  Map'
BY DEF Map, MapSound, Missing, Pointers, MapStep

(* The map has at most one object for a name, and everybody uses that one. *)
LEMMA NextMap == IInv /\ [Next]_vars => Map'
<1> SUFFICES ASSUME IInv, [Next]_vars PROVE Map'
  OBVIOUS
<1>0. /\ Map /\ LocksOnlyInside /\ DataOK
      /\ pc \in [Clients -> {"start", "recv", "rm", "find", "create",
           "add", "reply", "leave", "bcast", "enq", "rjoin", "loop", "send", "done"}]
      /\ data \in [Clients -> RoomNames \cup {""}]
      /\ room \in [Clients -> RoomPtrs]
      /\ m_rooms \in [RoomNames -> Rooms \cup {NullRoom}]
      /\ NullRoom \notin Rooms
      /\ Senders \subseteq Clients /\ Receivers \subseteq Clients
  BY Types DEF IInv, Control
<1> USE DEF Goto, netVars, serverVars, roomVars, frameVars, countVars, feedVars
<1>1. ASSUME NEW c \in Clients, ReadError(c) \/ Login(c) \/ LoginFails(c) \/ AddMember(c)
      PROVE Map'
  <2>1. MapStep(c)
    BY <1>0, <1>1 DEF ReadError, Login, LoginFails, AddMember, MapStep
  <2> QED
    BY <1>0, <2>1, MapStepKeepsMap
<1>2. ASSUME NEW s \in Senders,
             \/ Disconnect(s) \/ ReceiveEof(s) \/ RemoveForJoin(s) \/ BcastLock(s)
             \/ (\E u \in Clients : BcastEnqueue(s, u)) \/ BcastUnlock(s) \/ SenderReply(s)
      PROVE Map'
  <2>1. MapStep(s)
    <3>1. CASE Disconnect(s) \/ ReceiveEof(s) \/ RemoveForJoin(s)
      BY <1>0, <3>1 DEF Disconnect, ReceiveEof, RemoveForJoin, MapStep
    <3>2. CASE BcastLock(s) \/ BcastUnlock(s)
      BY <1>0, <3>2 DEF BcastLock, BcastUnlock, MapStep
    <3>3. CASE \E u \in Clients : BcastEnqueue(s, u)
      BY <1>0, <3>3 DEF BcastEnqueue, MapStep
    <3>4. CASE SenderReply(s)
      <4>1. /\ pc' = [pc EXCEPT ![s] = IF reply[s] = "quit ok" THEN "done" ELSE "recv"]
            /\ data' = [data EXCEPT ![s] = ""] /\ UNCHANGED <<m_rooms, room>>
        BY <3>4 DEF SenderReply
      <4>2. (IF reply[s] = "quit ok" THEN "done" ELSE "recv") # "create"
        OBVIOUS
      <4> QED
        BY <1>0, <4>1, <4>2 DEF MapStep
    <3> QED
      BY <1>2, <3>1, <3>2, <3>3, <3>4
  <2> QED
    BY <1>0, <2>1, MapStepKeepsMap
<1>3. ASSUME NEW s \in Senders,
             \/ \E r \in RoomNames : ReceiveJoin(s, r)
             \/ ReceiveLeave(s) \/ ReceiveSendall(s) \/ ReceiveBad(s) \/ ReceiveQuit(s)
      PROVE Map'
  <2>1. MapStep(s)
    <3>1. CASE \E r \in RoomNames : ReceiveJoin(s, r)
      <4>1. PICK r \in RoomNames : ReceiveJoin(s, r)
        BY <3>1
      <4>2. /\ pc' = [pc EXCEPT ![s] = IF in_room[s] THEN "rm" ELSE "find"]
            /\ data' = [data EXCEPT ![s] = r] /\ UNCHANGED <<m_rooms, room>>
        BY <4>1 DEF ReceiveJoin, Receive
      <4>3. (IF in_room[s] THEN "rm" ELSE "find") # "create"
        OBVIOUS
      <4> QED
        BY <1>0, <4>2, <4>3 DEF MapStep
    <3>2. CASE ReceiveLeave(s) \/ ReceiveSendall(s)
      BY <1>0, <3>2 DEF ReceiveLeave, ReceiveSendall, Receive, MapStep
    <3>3. CASE ReceiveBad(s) \/ ReceiveQuit(s)
      BY <1>0, <3>3 DEF ReceiveBad, ReceiveQuit, Receive, MapStep
    <3> QED
      BY <1>3, <3>1, <3>2, <3>3
  <2> QED
    BY <1>0, <2>1, MapStepKeepsMap
<1>4. ASSUME NEW u \in Receivers,
             \/ \E r \in RoomNames : ReceiverJoin(u, r)
             \/ ReceiverBadJoin(u) \/ ReceiverReply(u) \/ Dequeue(u) \/ SendDelivery(u)
      PROVE Map'
  <2>1. MapStep(u)
    <3>1. CASE \E r \in RoomNames : ReceiverJoin(u, r)
      <4>1. PICK r \in RoomNames : ReceiverJoin(u, r)
        BY <3>1
      <4>2. /\ pc' = [pc EXCEPT ![u] = "find"]
            /\ data' = [data EXCEPT ![u] = r] /\ UNCHANGED <<m_rooms, room>>
        BY <4>1 DEF ReceiverJoin
      <4> QED
        BY <1>0, <4>2 DEF MapStep
    <3>2. CASE ReceiverBadJoin(u)
      BY <1>0, <3>2 DEF ReceiverBadJoin, MapStep
    <3>3. CASE ReceiverReply(u)
      <4>1. /\ pc' = [pc EXCEPT ![u] = IF reply[u] = "join ok" THEN "loop" ELSE "done"]
            /\ data' = [data EXCEPT ![u] = ""] /\ UNCHANGED <<m_rooms, room>>
        BY <3>3 DEF ReceiverReply
      <4>2. (IF reply[u] = "join ok" THEN "loop" ELSE "done") # "create"
        OBVIOUS
      <4> QED
        BY <1>0, <4>1, <4>2 DEF MapStep
    <3>4. CASE Dequeue(u) \/ SendDelivery(u)
      BY <1>0, <3>4 DEF Dequeue, SendDelivery, MapStep
    <3> QED
      BY <1>4, <3>1, <3>2, <3>3, <3>4
  <2> QED
    BY <1>0, <2>1, MapStepKeepsMap
<1>5. ASSUME NEW c \in Clients, FindRoom(c) PROVE Map'
  <2>1. data[c] \in RoomNames
    BY <1>0, <1>5 DEF FindRoom, DataOK
  <2>2. m_rooms[data[c]] \in Rooms => m_rooms[data[c]][1] = data[c]
    BY <1>0, <2>1 DEF Map, MapSound
  <2> QED
    <3>1. CASE m_rooms[data[c]] # NullRoom
      <4>1. /\ room' = [room EXCEPT ![c] = m_rooms[data[c]]]
            /\ pc' = [pc EXCEPT ![c] = "add"] /\ data' = data /\ m_rooms' = m_rooms
        BY <1>5, <3>1 DEF FindRoom
      <4> QED
        BY <1>0, <2>1, <2>2, <3>1, <4>1 DEF Map, MapSound, Missing, Pointers
    <3>2. CASE m_rooms[data[c]] = NullRoom
      <4>1. /\ room' = room /\ data' = data /\ m_rooms' = m_rooms
            /\ pc' = [pc EXCEPT ![c] = "create"]
        BY <1>5, <3>2 DEF FindRoom
      <4> QED
        BY <1>0, <2>1, <3>2, <4>1 DEF Map, MapSound, Missing, Pointers
    <3> QED
      BY <3>1, <3>2
<1>6. ASSUME NEW c \in Clients, CreateRoom(c) PROVE Map'
  <2> DEFINE new == <<data[c], c>>
  <2>1. /\ pc[c] = "create" /\ data[c] \in RoomNames
        /\ m_rooms[data[c]] = NullRoom
        /\ new \in Rooms /\ new[1] = data[c]
    BY <1>0, <1>6 DEF CreateRoom, DataOK, Map, Missing, Rooms
  <2>2. /\ m_rooms' = [m_rooms EXCEPT ![data[c]] = new]
        /\ room' = [room EXCEPT ![c] = new]
        /\ pc' = [pc EXCEPT ![c] = "add"] /\ data' = data
    BY <2>1, <1>6 DEF CreateRoom
  <2>3. \A d \in Clients : pc[d] = "create" => d = c
    <3>1. \A d \in Clients : m_lock = d <=> pc[d] = "create"
      BY <1>0 DEF LocksOnlyInside
    <3> QED
      BY <2>1, <3>1
  <2> HIDE DEF new
  <2>4. MapSound'
    BY <1>0, <2>1, <2>2 DEF Map, MapSound
  <2>5. Missing'
    BY <1>0, <2>1, <2>2, <2>3 DEF Missing
  <2>6. Pointers'
    <3> SUFFICES ASSUME NEW d \in Clients, room'[d] \in Rooms
                 PROVE  m_rooms'[room'[d][1]] = room'[d]
      BY DEF Pointers
    <3>1. CASE d = c
      BY <1>0, <2>1, <2>2, <3>1
    <3>2. CASE d # c
      <4>1. room'[d] = room[d]
        BY <1>0, <2>2, <3>2
      <4>2. m_rooms[room[d][1]] = room[d] /\ room[d][1] \in RoomNames
        BY <1>0, <4>1 DEF Map, Pointers, Rooms
      <4>3. room[d][1] # data[c]
        BY <1>0, <2>1, <4>1, <4>2
      <4> QED
        BY <1>0, <2>1, <2>2, <4>1, <4>2, <4>3
    <3> QED
      BY <3>1, <3>2
  <2> QED
    BY <2>4, <2>5, <2>6 DEF Map
<1>7. ASSUME NEW s \in Senders, RemoveForLeave(s) PROVE Map'
  BY <1>0, <1>7 DEF RemoveForLeave, Map, MapSound, Missing, Pointers
<1>8. CASE UNCHANGED vars
  BY <1>0, <1>8 DEF vars, Map, MapSound, Missing, Pointers
<1> QED
  BY <1>1, <1>2, <1>3, <1>4, <1>5, <1>6, <1>7, <1>8
     DEF Next, FromClient, WorkerStep, SenderStep, ReceiverStep
-----------------------------------------------------------------------------
\* A step that changes nobody's membership.
MemberStep ==
  /\ UNCHANGED <<members, room>>
  /\ \A d \in Clients : Joined(d)' <=> Joined(d)
  /\ \A d \in Clients : pc'[d] = "add" => pc[d] = "add"

LEMMA MemberStepKeepsMembers ==
  ASSUME Membership, JoinedRoom, MemberStep
  PROVE  Membership' /\ JoinedRoom'
<1>1. Membership'
  BY DEF Membership, MemberStep
<1>2. JoinedRoom'
  BY DEF JoinedRoom, MemberStep
<1> QED
  BY <1>1, <1>2

\* Nobody but c moves, joins or leaves.
OthersStay(c) ==
  /\ \A d \in Clients : d # c => /\ Joined(d)' <=> Joined(d)
                                /\ room'[d] = room[d] /\ pc'[d] = pc[d]
  /\ \A r \in Rooms : members'[r] \ {c} = members[r] \ {c}

LEMMA MemberStepOf ==
  ASSUME Membership, JoinedRoom, NEW c \in Clients, OthersStay(c),
         \A r \in Rooms : c \in members'[r] <=> Joined(c)' /\ room'[c] = r,
         Joined(c)' \/ pc'[c] = "add" => room'[c] \in Rooms
  PROVE  Membership' /\ JoinedRoom'
<1>1. Membership'
  <2> SUFFICES ASSUME NEW d \in Clients, NEW r \in Rooms
               PROVE  d \in members'[r] <=> Joined(d)' /\ room'[d] = r
    BY DEF Membership
  <2>1. CASE d = c
    BY <2>1
  <2>2. CASE d # c
    <3>1. d \in members'[r] <=> d \in members[r]
      BY <2>2 DEF OthersStay
    <3>2. (Joined(d)' <=> Joined(d)) /\ room'[d] = room[d]
      BY <2>2 DEF OthersStay
    <3>3. d \in members[r] <=> Joined(d) /\ room[d] = r
      BY DEF Membership
    <3> QED
      BY <3>1, <3>2, <3>3
  <2> QED
    BY <2>1, <2>2
<1>2. JoinedRoom'
  <2> SUFFICES ASSUME NEW d \in Clients, Joined(d)' \/ pc'[d] = "add"
               PROVE  room'[d] \in Rooms
    BY DEF JoinedRoom
  <2>1. CASE d = c
    BY <2>1
  <2>2. CASE d # c
    <3>1. (Joined(d)' <=> Joined(d)) /\ room'[d] = room[d] /\ pc'[d] = pc[d]
      BY <2>2 DEF OthersStay
    <3> QED
      BY <3>1 DEF JoinedRoom
  <2> QED
    BY <2>1, <2>2
<1> QED
  BY <1>1, <1>2

(* Membership changes with the place in the code that stands for it. *)
LEMMA NextMembers == IInv /\ [Next]_vars => Membership' /\ JoinedRoom'
<1> DEFINE Members == Membership /\ JoinedRoom
<1> SUFFICES ASSUME IInv, [Next]_vars PROVE Members'
  OBVIOUS
<1>0. /\ Membership /\ JoinedRoom /\ PcOK /\ HandOK
      /\ pc \in [Clients -> {"start", "recv", "rm", "find", "create",
           "add", "reply", "leave", "bcast", "enq", "rjoin", "loop", "send", "done"}]
      /\ reply \in [Clients -> {"", "err", "join ok", "left ok", "message ok", "quit ok"}]
      /\ room \in [Clients -> RoomPtrs]
      /\ in_room \in [Senders -> BOOLEAN]
      /\ members \in [Rooms -> SUBSET Clients]
      /\ Senders \cap Receivers = {}
      /\ Senders \subseteq Clients /\ Receivers \subseteq Clients
      /\ NullRoom \notin Rooms
  BY Types DEF IInv, Control
<1>a. ASSUME MemberStep PROVE Members'
  BY <1>0, <1>a, MemberStepKeepsMembers
<1> USE DEF Goto, Respond, netVars, serverVars, roomVars, frameVars, countVars, feedVars
<1> HIDE DEF Members
<1>1. ASSUME NEW c \in Clients, ReadError(c) PROVE Members'
  BY <1>1, <1>a DEF ReadError, MemberStep, Joined
<1>2. ASSUME NEW s \in Senders, Disconnect(s) PROVE Members'
  BY <1>2, <1>a DEF Disconnect, MemberStep, Joined
<1>3. ASSUME NEW c \in Clients, Login(c) \/ LoginFails(c) PROVE Members'
  <2>1. /\ pc[c] = "start" /\ pc'[c] \in {"recv", "rjoin", "done"}
        /\ \A d \in Clients : d # c => pc'[d] = pc[d]
        /\ UNCHANGED <<members, room, reply, in_room>>
        /\ c \in Senders \/ (c \in Receivers /\ pc'[c] \in {"rjoin", "done"})
    BY <1>0, <1>3 DEF Login, LoginFails, Clients
  <2>2. ~Joined(c) /\ ~Joined(c)'
    BY <1>0, <2>1 DEF Joined, IInv, Control, InRoomOK
  <2>3. \A d \in Clients : Joined(d)' <=> Joined(d)
    BY <2>1, <2>2 DEF Joined
  <2> QED
    BY <1>a, <2>1, <2>3 DEF MemberStep
<1>4. ASSUME NEW s \in Senders,
             \/ \E r \in RoomNames : ReceiveJoin(s, r)
             \/ ReceiveLeave(s) \/ ReceiveSendall(s) \/ ReceiveBad(s) \/ ReceiveQuit(s)
      PROVE Members'
  <2>1. CASE \E r \in RoomNames : ReceiveJoin(s, r)
    BY <1>0, <2>1, <1>a DEF ReceiveJoin, Receive, MemberStep, Joined
  <2>2. CASE ReceiveLeave(s)
    BY <1>0, <2>2, <1>a DEF ReceiveLeave, Receive, MemberStep, Joined
  <2>3. CASE ReceiveSendall(s)
    BY <1>0, <2>3, <1>a DEF ReceiveSendall, Receive, MemberStep, Joined
  <2>4. CASE ReceiveBad(s)
    BY <1>0, <2>4, <1>a DEF ReceiveBad, Receive, MemberStep, Joined
  <2>5. CASE ReceiveQuit(s)
    BY <1>0, <2>5, <1>a DEF ReceiveQuit, Receive, MemberStep, Joined
  <2> QED
    BY <1>4, <2>1, <2>2, <2>3, <2>4, <2>5
<1>5. ASSUME NEW s \in Senders, ReceiveEof(s) PROVE Members'
  BY <1>0, <1>5, <1>a DEF ReceiveEof, MemberStep, Joined
<1>b. ASSUME NEW c \in Clients, OthersStay(c),
             \A r \in Rooms : c \in members'[r] <=> Joined(c)' /\ room'[c] = r,
             Joined(c)' \/ pc'[c] = "add" => room'[c] \in Rooms
      PROVE Members'
  BY <1>0, <1>b, MemberStepOf DEF Members
\* A worker on its way to add_member is in no room.
<1>c. ASSUME NEW c \in Clients, pc[c] \in {"find", "create", "add"}
      PROVE  \A r \in Rooms : c \notin members[r]
  BY <1>0, <1>c DEF Membership, Joined
<1>6. ASSUME NEW c \in Clients, FindRoom(c) PROVE Members'
  <2>1. /\ pc[c] = "find" /\ members' = members
        /\ reply' = reply /\ in_room' = in_room
        /\ \/ /\ m_rooms[data[c]] # NullRoom
              /\ pc' = [pc EXCEPT ![c] = "add"]
              /\ room' = [room EXCEPT ![c] = m_rooms[data[c]]]
           \/ pc' = [pc EXCEPT ![c] = "create"] /\ room' = room
    BY <1>6 DEF FindRoom
  <2>2. data[c] \in RoomNames
    BY <2>1 DEF IInv, Control, DataOK
  <2>3. m_rooms[data[c]] # NullRoom => m_rooms[data[c]] \in Rooms
    BY <2>2, Types
  <2>4. ~Joined(c)'
    BY <1>0, <2>1 DEF Joined
  <2>5. OthersStay(c)
    BY <1>0, <2>1 DEF OthersStay, Joined
  <2>6. pc'[c] = "add" => room'[c] \in Rooms
    BY <1>0, <2>1, <2>3
  <2> QED
    BY <1>b, <1>c, <2>1, <2>4, <2>5, <2>6
<1>7. ASSUME NEW c \in Clients, CreateRoom(c) PROVE Members'
  <2>1. /\ pc[c] = "create" /\ pc' = [pc EXCEPT ![c] = "add"] /\ members' = members
        /\ reply' = reply /\ in_room' = in_room
        /\ room' = [room EXCEPT ![c] = <<data[c], c>>]
    BY <1>7 DEF CreateRoom
  <2>2. <<data[c], c>> \in Rooms
    BY <2>1 DEF IInv, Control, DataOK, Rooms
  <2>3. ~Joined(c)'
    BY <1>0, <2>1 DEF Joined
  <2>4. OthersStay(c)
    BY <1>0, <2>1 DEF OthersStay, Joined
  <2>5. room'[c] \in Rooms
    BY <1>0, <2>1, <2>2
  <2> QED
    BY <1>b, <1>c, <2>1, <2>3, <2>4, <2>5
<1>8. ASSUME NEW c \in Clients, AddMember(c) PROVE Members'
  <2>1. /\ pc[c] = "add" /\ pc' = [pc EXCEPT ![c] = "reply"]
        /\ reply' = [reply EXCEPT ![c] = "join ok"] /\ in_room' = in_room /\ room' = room
        /\ members' = [members EXCEPT ![room[c]] = @ \cup {c}]
    BY <1>8 DEF AddMember
  <2>2. room[c] \in Rooms
    BY <1>0, <2>1 DEF JoinedRoom
  <2>3. Joined(c)'
    BY <1>0, <2>1 DEF Joined
  <2>4. OthersStay(c)
    BY <1>0, <2>1, <2>2 DEF OthersStay, Joined
  <2>5. \A r \in Rooms : c \in members'[r] <=> room[c] = r
    BY <1>0, <1>c, <2>1, <2>2
  <2> QED
    BY <1>b, <2>1, <2>2, <2>3, <2>4, <2>5
\* remove_member takes a sender out of the only room it is in.
<1>9. ASSUME NEW s \in Senders, pc[s] \in {"rm", "leave"},
             members' = [members EXCEPT ![room[s]] = @ \ {s}]
      PROVE  \A r \in Rooms : /\ s \notin members'[r]
                             /\ members'[r] \ {s} = members[r] \ {s}
  <2>1. room[s] \in Rooms /\ Joined(s)
    BY <1>9, InRoom
  <2>2. \A r \in Rooms : s \in members[r] => room[s] = r
    BY <1>0 DEF Membership
  <2> QED
    BY <1>0, <1>9, <2>1, <2>2
<1>10. ASSUME NEW s \in Senders, RemoveForJoin(s) \/ RemoveForLeave(s) PROVE Members'
  <2>1. CASE RemoveForJoin(s)
    <3>1. /\ pc[s] = "rm" /\ pc' = [pc EXCEPT ![s] = "find"]
          /\ members' = [members EXCEPT ![room[s]] = @ \ {s}]
          /\ room' = room /\ reply' = reply /\ in_room' = in_room
      BY <2>1 DEF RemoveForJoin
    <3>2. ~Joined(s)' /\ pc'[s] # "add"
      BY <1>0, <3>1 DEF Joined
    <3>3. OthersStay(s)
      BY <1>0, <1>9, <3>1 DEF OthersStay, Joined
    <3> QED
      BY <1>0, <1>b, <1>9, <3>1, <3>2, <3>3
  <2>2. CASE RemoveForLeave(s)
    <3>1. /\ pc[s] = "leave" /\ pc' = [pc EXCEPT ![s] = "reply"]
          /\ members' = [members EXCEPT ![room[s]] = @ \ {s}]
          /\ room' = [room EXCEPT ![s] = NullRoom]
          /\ reply' = [reply EXCEPT ![s] = "left ok"] /\ in_room' = in_room
      BY <2>2 DEF RemoveForLeave
    <3>2. ~Joined(s)' /\ pc'[s] # "add"
      BY <1>0, <3>1 DEF Joined
    <3>3. OthersStay(s)
      BY <1>0, <1>9, <3>1 DEF OthersStay, Joined
    <3> QED
      BY <1>0, <1>b, <1>9, <3>1, <3>2, <3>3
  <2> QED
    BY <1>10, <2>1, <2>2
<1>11. ASSUME NEW s \in Senders, BcastLock(s) \/ BcastUnlock(s) PROVE Members'
  <2>1. CASE BcastLock(s)
    BY <1>0, <2>1, <1>a DEF BcastLock, MemberStep, Joined
  <2>2. CASE BcastUnlock(s)
    BY <1>0, <2>2, <1>a DEF BcastUnlock, MemberStep, Joined
  <2> QED
    BY <1>11, <2>1, <2>2
<1>12. ASSUME NEW s \in Senders, NEW u \in Clients, BcastEnqueue(s, u) PROVE Members'
  BY <1>0, <1>12, <1>a DEF BcastEnqueue, MemberStep, Joined
<1>13. ASSUME NEW s \in Senders, SenderReply(s) PROVE Members'
  BY <1>0, <1>13, <1>a DEF SenderReply, MemberStep, Joined
<1>14. ASSUME NEW u \in Receivers,
              \/ \E r \in RoomNames : ReceiverJoin(u, r)
              \/ ReceiverBadJoin(u) \/ ReceiverReply(u)
       PROVE Members'
  <2>1. CASE \E r \in RoomNames : ReceiverJoin(u, r)
    BY <1>0, <2>1, <1>a DEF ReceiverJoin, MemberStep, Joined
  <2>2. CASE ReceiverBadJoin(u)
    BY <1>0, <2>2, <1>a DEF ReceiverBadJoin, MemberStep, Joined
  <2>3. CASE ReceiverReply(u)
    BY <1>0, <2>3, <1>a DEF ReceiverReply, MemberStep, Joined
  <2> QED
    BY <1>14, <2>1, <2>2, <2>3
<1>15. ASSUME NEW u \in Receivers, Dequeue(u) PROVE Members'
  BY <1>0, <1>15, <1>a DEF Dequeue, MemberStep, Joined
\* The message in hand is a delivery, so the loop goes on.
<1>16. ASSUME NEW u \in Receivers, SendDelivery(u) PROVE Members'
  <2>1. hand[u].tag # "err"
    BY <1>0, <1>16 DEF SendDelivery, HandOK, Messages
  <2> QED
    BY <1>0, <1>16, <2>1, <1>a DEF SendDelivery, MemberStep, Joined
<1>17. ASSUME UNCHANGED vars PROVE Members'
  BY <1>17, <1>a DEF vars, MemberStep, Joined
<1> QED
  BY <1>1, <1>2, <1>3, <1>4, <1>5, <1>6, <1>7, <1>8, <1>10, <1>11, <1>12,
     <1>13, <1>14, <1>15, <1>16, <1>17
     DEF Next, FromClient, WorkerStep, SenderStep, ReceiverStep
-----------------------------------------------------------------------------
LEMMA Invariance == Spec => []IInv
<1>1. Init => IInv
  BY InitInv
<1>2. IInv /\ [Next]_vars => IInv'
  BY NextType, NextLocks, NextLocals, NextCount, NextMap, NextMembers
     DEF IInv, Control
<1> QED
  BY <1>1, <1>2, PTL DEF Spec

(* The variables keep their types: every Room that is created is in the map   *)
(* under a name, and every message in a queue or on a connection is one that  *)
(* broadcast_message built.                                                   *)
THEOREM TypesHold == Spec => []TypeOK
<1>1. IInv => TypeOK
  BY DEF IInv
<1> QED
  BY <1>1, Invariance, PTL

(* Server::m_lock and the locks of the rooms are held only inside              *)
(* find_or_create_room (server.cpp:235) and broadcast_message (room.cpp:32):   *)
(* never over a receive or a send, and never by a worker that has returned.    *)
THEOREM NoLockOverIO == Spec => []LocksOnlyInside
<1>1. IInv => LocksOnlyInside
  BY DEF IInv
<1> QED
  BY <1>1, Invariance, PTL

(* find_or_create_room returns the unique Room of a name (server.cpp:232-243), *)
(* and only that one ever has members.                                         *)
THEOREM RoomsAreUnique == Spec => []UniqueRoom
<1>1. IInv => UniqueRoom
  <2> SUFFICES ASSUME IInv PROVE UniqueRoom
    OBVIOUS
  <2>1. \A c \in Clients : room[c] \in Rooms => m_rooms[room[c][1]] = room[c]
    BY DEF IInv, Map, Pointers
  <2>2. ASSUME NEW r \in Rooms, members[r] # {} PROVE m_rooms[r[1]] = r
    <3>1. PICK c \in Clients : c \in members[r]
      BY <2>2, Types
    <3>2. room[c] = r
      BY <3>1 DEF IInv, Membership
    <3> QED
      BY <2>1, <3>2
  <2> QED
    BY <2>1, <2>2 DEF UniqueRoom
<1> QED
  BY <1>1, Invariance, PTL

(* chat_with_sender never calls a member function of Room through the          *)
(* uninitialised or null current_room (server.cpp:78, 101).                    *)
THEOREM RoomsAreReal == Spec => []NoWildRoom
<1>1. IInv => NoWildRoom
  <2> SUFFICES ASSUME IInv, NEW c \in Clients,
                      pc[c] \in {"rm", "leave", "bcast", "enq", "add"}
               PROVE  room[c] \in Rooms
    BY DEF NoWildRoom
  <2>1. CASE pc[c] = "add"
    BY <2>1 DEF IInv, JoinedRoom
  <2>2. CASE pc[c] # "add"
    <3>1. c \in Senders
      BY <2>2 DEF IInv, Control, PcOK, ReceiverPc, Clients
    <3> QED
      BY <2>2, <3>1, InRoom
  <2> QED
    BY <2>1, <2>2
<1> QED
  BY <1>1, Invariance, PTL

(* A user is in at most one room, and a sender waiting for its next request is *)
(* in the room in_room and current_room say (server.cpp:84-105).              *)
THEOREM OneRoom == Spec => []OneRoomAtATime
<1>1. IInv => OneRoomAtATime
  <2> SUFFICES ASSUME IInv PROVE OneRoomAtATime
    OBVIOUS
  <2>1. ASSUME NEW r \in Rooms, NEW q \in Rooms, members[r] \cap members[q] # {}
        PROVE  r = q
    <3>1. PICK c \in Clients : c \in members[r] /\ c \in members[q]
      BY <2>1, Types
    <3> QED
      BY <3>1 DEF IInv, Membership
  <2>2. ASSUME NEW s \in Senders, pc[s] = "recv", NEW r \in Rooms
        PROVE  s \in members[r] <=> in_room[s] /\ room[s] = r
    <3>1. Joined(s) <=> in_room[s]
      BY <2>2 DEF Joined
    <3> QED
      BY <3>1 DEF IInv, Membership, Clients
  <2> QED
    BY <2>1, <2>2 DEF OneRoomAtATime
<1> QED
  BY <1>1, Invariance, PTL
-----------------------------------------------------------------------------
(* The messages.  What is told of them depends on a few variables only, so a   *)
(* step is one of six kinds: most are of the first, OtherStep.                 *)

\* No delivery begins or ends, no broadcast begins, and none ends early.
StaysPut ==
  /\ \A u \in Receivers : pc'[u] = "send" <=> pc[u] = "send"
  /\ \A s \in Senders :
       /\ pc'[s] = "enq" => pc[s] = "enq" /\ room'[s] = room[s]
       /\ pc[s] = "enq" /\ todo[s] # {} => pc'[s] = "enq"

\* A Room that appears in the map has no members yet.
MapGrows ==
  \A r \in RoomNames :
    \/ m_rooms'[r] = m_rooms[r]
    \/ m_rooms[r] = NullRoom /\ m_rooms'[r] \in Rooms /\ members[m_rooms'[r]] = {}

OtherStep ==
  /\ UNCHANGED <<members, queue, hand, sentTo, todo, nsent>>
  /\ StaysPut
  /\ MapGrows

\* Only c moves, and not into or out of a broadcast or a delivery.
OnlyMoves(c) ==
  /\ \A d \in Clients : d # c => pc'[d] = pc[d] /\ room'[d] = room[d]
  /\ pc[c] \notin {"enq", "send"} /\ pc'[c] \notin {"enq", "send"}

LEMMA OnlyMovesStaysPut ==
  ASSUME NEW c \in Clients, OnlyMoves(c)
  PROVE  StaysPut
<1>1. Senders \subseteq Clients /\ Receivers \subseteq Clients
  BY DEF Clients
<1> QED
  BY <1>1 DEF OnlyMoves, StaysPut

LEMMA StepKinds ==
  ASSUME IInv, [Next]_vars
  PROVE  \/ OtherStep
         \/ \E c \in Clients : AddMember(c)
         \/ \E s \in Senders : RemoveForJoin(s) \/ RemoveForLeave(s)
         \/ \E s \in Senders : BcastLock(s)
         \/ \E s \in Senders, u \in Clients : BcastEnqueue(s, u)
         \/ \E u \in Receivers : Dequeue(u) \/ SendDelivery(u)
<1>0. /\ pc \in [Clients -> {"start", "recv", "rm", "find", "create",
           "add", "reply", "leave", "bcast", "enq", "rjoin", "loop", "send", "done"}]
      /\ room \in [Clients -> RoomPtrs]
      /\ Senders \subseteq Clients /\ Receivers \subseteq Clients
  BY Types
<1>a. ASSUME NEW c \in Clients, OnlyMoves(c),
             UNCHANGED <<m_rooms, members, queue, hand, sentTo, todo, nsent>>
      PROVE  OtherStep
  BY <1>a, OnlyMovesStaysPut DEF OtherStep, MapGrows
<1>b. ASSUME UNCHANGED <<m_rooms, members, queue, hand, sentTo, todo, nsent, pc, room>>
      PROVE  OtherStep
  BY <1>b DEF OtherStep, MapGrows, StaysPut
<1> USE DEF Goto, netVars, serverVars, roomVars, frameVars, countVars, feedVars
<1>1. ASSUME NEW c \in Clients, ReadError(c) PROVE OtherStep
  BY <1>1, <1>b DEF ReadError
<1>2. ASSUME NEW s \in Senders, Disconnect(s) PROVE OtherStep
  BY <1>2, <1>b DEF Disconnect
<1>3. ASSUME NEW c \in Clients, Login(c) \/ LoginFails(c) PROVE OtherStep
  <2>1. CASE Login(c)
    <3>1. pc[c] = "start" /\ pc'[c] \in {"recv", "rjoin"}
      BY <1>0, <2>1 DEF Login
    <3> QED
      BY <1>0, <1>a, <2>1, <3>1 DEF Login, OnlyMoves
  <2>2. CASE LoginFails(c)
    BY <1>0, <1>a, <2>2 DEF LoginFails, OnlyMoves
  <2> QED
    BY <1>3, <2>1, <2>2
<1>4. ASSUME NEW s \in Senders,
             \/ \E r \in RoomNames : ReceiveJoin(s, r)
             \/ ReceiveLeave(s) \/ ReceiveSendall(s) \/ ReceiveBad(s) \/ ReceiveQuit(s)
      PROVE OtherStep
  <2>1. ASSUME NEW to, Receive(s, to), to \notin {"enq", "send"} PROVE OtherStep
    BY <1>0, <1>a, <2>1 DEF Receive, OnlyMoves
  <2>2. CASE \E r \in RoomNames : ReceiveJoin(s, r)
    <3>1. (IF in_room[s] THEN "rm" ELSE "find") \notin {"enq", "send"}
      OBVIOUS
    <3> QED
      BY <2>1, <2>2, <3>1 DEF ReceiveJoin
  <2>3. CASE ReceiveLeave(s) \/ ReceiveSendall(s)
    BY <2>1, <2>3 DEF ReceiveLeave, ReceiveSendall
  <2>4. CASE ReceiveBad(s) \/ ReceiveQuit(s)
    BY <2>1, <2>4 DEF ReceiveBad, ReceiveQuit
  <2> QED
    BY <1>4, <2>2, <2>3, <2>4
<1>5. ASSUME NEW s \in Senders, ReceiveEof(s) PROVE OtherStep
  BY <1>0, <1>a, <1>5 DEF ReceiveEof, OnlyMoves
<1>6. ASSUME NEW c \in Clients, FindRoom(c) PROVE OtherStep
  <2>1. pc[c] = "find" /\ pc'[c] \in {"add", "create"}
    BY <1>0, <1>6 DEF FindRoom
  <2>2. \A d \in Clients : d # c => pc'[d] = pc[d] /\ room'[d] = room[d]
    BY <1>0, <1>6 DEF FindRoom
  <2> QED
    BY <1>a, <1>6, <2>1, <2>2 DEF FindRoom, OnlyMoves
\* By Missing and Pointers nobody points to the object, so nobody is its member.
<1>7. ASSUME NEW c \in Clients, CreateRoom(c) PROVE OtherStep
  <2>1. /\ pc[c] = "create" /\ pc' = [pc EXCEPT ![c] = "add"]
        /\ room' = [room EXCEPT ![c] = <<data[c], c>>]
        /\ m_rooms' = [m_rooms EXCEPT ![data[c]] = IF @ = NullRoom THEN <<data[c], c>> ELSE @]
        /\ UNCHANGED <<members, queue, hand, sentTo, todo, nsent>>
    BY <1>7 DEF CreateRoom
  <2>2. data[c] \in RoomNames /\ m_rooms[data[c]] = NullRoom
    BY <2>1 DEF IInv, Control, DataOK, Map, Missing
  <2>3. <<data[c], c>> \in Rooms
    BY <2>2 DEF Rooms
  <2>4. members[<<data[c], c>>] = {}
    <3>1. ASSUME NEW d \in Clients, d \in members[<<data[c], c>>] PROVE FALSE
      <4>1. room[d] = <<data[c], c>>
        BY <2>3, <3>1 DEF IInv, Membership
      <4>2. m_rooms[data[c]] = <<data[c], c>>
        BY <2>3, <4>1 DEF IInv, Map, Pointers
      <4> QED
        BY <2>2, <2>3, <4>2, Types
    <3> QED
      BY <2>3, <3>1, Types
  <2>5. MapGrows
    BY <2>1, <2>2, <2>3, <2>4, Types DEF MapGrows
  <2>6. StaysPut
    BY <1>0, <2>1, OnlyMovesStaysPut DEF OnlyMoves
  <2> QED
    BY <2>1, <2>5, <2>6 DEF OtherStep
<1>8. ASSUME NEW s \in Senders, BcastUnlock(s) PROVE OtherStep
  <2>1. /\ pc[s] = "enq" /\ pc' = [pc EXCEPT ![s] = "reply"] /\ todo[s] = {}
        /\ UNCHANGED <<m_rooms, members, queue, hand, sentTo, todo, nsent, room>>
    BY <1>8 DEF BcastUnlock
  <2>2. \A u \in Receivers : u # s
    BY Types
  <2>3. StaysPut
    BY <1>0, <2>1, <2>2 DEF StaysPut
  <2> QED
    BY <2>1, <2>3 DEF OtherStep, MapGrows
<1>9. ASSUME NEW s \in Senders, SenderReply(s) PROVE OtherStep
  <2>1. pc[s] = "reply" /\ pc'[s] \in {"done", "recv"}
    BY <1>0, <1>9 DEF SenderReply
  <2> QED
    BY <1>0, <1>a, <1>9, <2>1 DEF SenderReply, OnlyMoves
<1>10. ASSUME NEW u \in Receivers,
              \/ \E r \in RoomNames : ReceiverJoin(u, r)
              \/ ReceiverBadJoin(u) \/ ReceiverReply(u)
       PROVE OtherStep
  <2>1. CASE \E r \in RoomNames : ReceiverJoin(u, r)
    BY <1>0, <1>a, <2>1 DEF ReceiverJoin, OnlyMoves
  <2>2. CASE ReceiverBadJoin(u)
    BY <1>0, <1>a, <2>2 DEF ReceiverBadJoin, OnlyMoves
  <2>3. CASE ReceiverReply(u)
    <3>1. pc[u] = "reply" /\ pc'[u] \in {"done", "loop"}
      BY <1>0, <2>3 DEF ReceiverReply
    <3> QED
      BY <1>0, <1>a, <2>3, <3>1 DEF ReceiverReply, OnlyMoves
  <2> QED
    BY <1>10, <2>1, <2>2, <2>3
<1>11. ASSUME UNCHANGED vars PROVE OtherStep
  BY <1>11, <1>b DEF vars
<1> QED
  BY <1>1, <1>2, <1>3, <1>4, <1>5, <1>6, <1>7, <1>8, <1>9, <1>10, <1>11
     DEF Next, FromClient, WorkerStep, SenderStep, ReceiverStep
-----------------------------------------------------------------------------
LEMMA StreamType ==
  ASSUME IInv, NEW u \in Clients
  PROVE  /\ sentTo[u] \in Seq(Messages) /\ queue[u] \in Seq(Messages)
         /\ InHand(u) \in Seq(Messages)
         /\ Stream(u) \in Seq(Messages)
<1>1. sentTo[u] \in Seq(Messages) /\ queue[u] \in Seq(Messages)
  BY DEF IInv, TypeOK
<1>2. InHand(u) \in Seq(Messages)
  <2>1. CASE u \in Receivers /\ pc[u] = "send"
    <3>1. hand[u] \in Messages
      BY <2>1 DEF IInv, Control, HandOK
    <3>2. <<hand[u]>> \in Seq(Messages)
      BY <3>1
    <3> QED
      BY <2>1, <3>2 DEF InHand
  <2>2. CASE ~(u \in Receivers /\ pc[u] = "send")
    BY <2>2, EmptySeq DEF InHand
  <2> QED
    BY <2>1, <2>2
<1>3. Stream(u) \in Seq(Messages)
  <2>1. sentTo[u] \o InHand(u) \in Seq(Messages)
    BY <1>1, <1>2, ConcatProperties
  <2> QED
    BY <1>1, <2>1, ConcatProperties DEF Stream
<1> QED
  BY <1>1, <1>2, <1>3

(* What dequeue takes off the front is what the worker holds. *)
LEMMA HeadThenTail ==
  ASSUME NEW S, NEW q \in Seq(S), q # <<>>
  PROVE  <<Head(q)>> \o Tail(q) = q
<1> DEFINE h == <<Head(q)>>
           t == Tail(q)
<1>1. /\ Head(q) \in S /\ t \in Seq(S) /\ Len(t) = Len(q) - 1
      /\ \A i \in 1..Len(t) : t[i] = q[i + 1]
      /\ Head(q) = q[1]
  BY HeadTailProperties
<1>2. h \in Seq(S) /\ Len(h) = 1 /\ h[1] = q[1]
  BY <1>1
<1>3. Len(q) \in Nat \ {0}
  BY EmptySeq
<1> HIDE DEF h, t
<1>4. /\ h \o t \in Seq(S) /\ Len(h \o t) = Len(h) + Len(t)
      /\ \A i \in 1..(Len(h) + Len(t)) :
           (h \o t)[i] = IF i <= Len(h) THEN h[i] ELSE t[i - Len(h)]
  <2>1. h \in Seq(S) /\ t \in Seq(S)
    BY <1>1, <1>2
  <2> QED
    BY ONLY <2>1, ConcatProperties
<1>5. ASSUME NEW i \in 1..Len(q) PROVE (h \o t)[i] = q[i]
  <2>1. i \in 1..(Len(h) + Len(t))
    BY <1>1, <1>2, <1>3
  <2>2. CASE i = 1
    BY <1>2, <1>4, <2>1, <2>2
  <2>3. CASE i # 1
    <3>1. i - 1 \in 1..Len(t) /\ ~(i <= 1)
      BY <1>1, <1>3, <2>3
    <3>2. t[i - 1] = q[(i - 1) + 1]
      BY <1>1, <3>1
    <3>3. (i - 1) + 1 = i
      OBVIOUS
    <3> QED
      BY <1>2, <1>4, <2>1, <3>1, <3>2, <3>3
  <2> QED
    BY <2>2, <2>3
<1>6. Len(h \o t) = Len(q)
  BY <1>1, <1>2, <1>3, <1>4
<1>7. h \o t = q
  BY <1>3, <1>4, <1>5, <1>6, SeqEqual
<1> QED
  BY <1>7 DEF h, t

(* A delivery moves one message from the queue to the worker, then to the      *)
(* connection: it changes no stream.                                           *)
LEMMA DequeueStep ==
  ASSUME IInv, NEW u \in Receivers, Dequeue(u)
  PROVE  /\ InHand(u) = <<>> /\ InHand(u)' = <<Head(queue[u])>>
         /\ InHand(u)' \o queue'[u] = queue[u]
         /\ \A v \in Clients : v # u => /\ InHand(v)' = InHand(v)
                                       /\ queue'[v] = queue[v]
         /\ sentTo' = sentTo
<1>1. /\ pc[u] = "loop" /\ pc' = [pc EXCEPT ![u] = "send"] /\ queue[u] # <<>>
      /\ hand' = [hand EXCEPT ![u] = Head(queue[u])]
      /\ queue' = [queue EXCEPT ![u] = Tail(@)]
      /\ sentTo' = sentTo
  BY DEF Dequeue, Goto
<1>2. /\ u \in Clients /\ Receivers \subseteq Clients /\ queue[u] \in Seq(Messages)
      /\ pc \in [Clients -> {"start", "recv", "rm", "find", "create",
           "add", "reply", "leave", "bcast", "enq", "rjoin", "loop", "send", "done"}]
      /\ queue \in [Clients -> Seq(Messages)]
      /\ hand \in [Receivers -> Messages \cup {NoMessage}]
  BY Types DEF IInv, TypeOK
<1>3. InHand(u) = <<>> /\ InHand(u)' = <<Head(queue[u])>>
  BY <1>1, <1>2 DEF InHand
<1>4. queue'[u] = Tail(queue[u])
  BY <1>1, <1>2
<1>5. \A v \in Clients : v # u => InHand(v)' = InHand(v) /\ queue'[v] = queue[v]
  BY <1>1, <1>2 DEF InHand
<1> QED
  BY <1>1, <1>2, <1>3, <1>4, <1>5, HeadThenTail

LEMMA DeliveryStep ==
  ASSUME IInv, NEW u \in Receivers, SendDelivery(u)
  PROVE  /\ hand[u] \in Messages /\ InHand(u) = <<hand[u]>> /\ InHand(u)' = <<>>
         /\ sentTo' = [sentTo EXCEPT ![u] = Append(@, hand[u])]
         /\ \A v \in Clients : v # u => InHand(v)' = InHand(v)
         /\ queue' = queue
<1>1. hand[u] \in Messages
  BY DEF IInv, Control, HandOK, SendDelivery, Goto
<1>2. /\ pc[u] = "send" /\ pc' = [pc EXCEPT ![u] = "loop"]
      /\ hand' = [hand EXCEPT ![u] = NoMessage]
      /\ sentTo' = [sentTo EXCEPT ![u] = Append(@, hand[u])]
      /\ queue' = queue
  <2>1. hand[u].tag # "err"
    BY <1>1 DEF Messages
  <2> QED
    BY <2>1 DEF SendDelivery, Goto
<1>3. /\ u \in Clients /\ Receivers \subseteq Clients
      /\ pc \in [Clients -> {"start", "recv", "rm", "find", "create",
           "add", "reply", "leave", "bcast", "enq", "rjoin", "loop", "send", "done"}]
      /\ hand \in [Receivers -> Messages \cup {NoMessage}]
  BY Types DEF IInv, TypeOK
<1>4. InHand(u) = <<hand[u]>> /\ InHand(u)' = <<>>
  BY <1>2, <1>3 DEF InHand
<1>5. \A v \in Clients : v # u => InHand(v)' = InHand(v)
  BY <1>2, <1>3 DEF InHand
<1> QED
  BY <1>1, <1>2, <1>4, <1>5

LEMMA DeliveriesKeepStreams ==
  ASSUME IInv, NEW u \in Receivers, Dequeue(u) \/ SendDelivery(u),
         NEW v \in Clients
  PROVE  Stream(v)' = Stream(v)
<1>0. u \in Clients
  BY DEF Clients
<1>1. CASE v # u
  <2>1. InHand(v)' = InHand(v) /\ queue'[v] = queue[v]
    BY <1>1, DequeueStep, DeliveryStep
  <2>2. sentTo'[v] = sentTo[v]
    <3>1. sentTo \in [Clients -> Seq(Messages)]
      BY DEF IInv, TypeOK
    <3> QED
      BY <1>1, <3>1, DequeueStep, DeliveryStep
  <2> QED
    BY <2>1, <2>2 DEF Stream
<1>2. CASE v = u /\ Dequeue(u)
  <2> DEFINE held == InHand(u)'
  <2>1. /\ InHand(u) = <<>> /\ held \o queue'[u] = queue[u] /\ sentTo' = sentTo
        /\ held = <<Head(queue[u])>>
    BY <1>2, DequeueStep
  <2>2. sentTo[u] \in Seq(Messages) /\ queue[u] \in Seq(Messages)
    BY <1>0, StreamType
  <2>3. held \in Seq(Messages) /\ queue'[u] \in Seq(Messages)
    <3>1. queue[u] # <<>> /\ queue' = [queue EXCEPT ![u] = Tail(@)]
      BY <1>2 DEF Dequeue
    <3>2. queue'[u] = Tail(queue[u])
      <4>1. queue \in [Clients -> Seq(Messages)]
        BY DEF IInv, TypeOK
      <4> QED
        BY <1>0, <3>1, <4>1
    <3>3. Head(queue[u]) \in Messages /\ Tail(queue[u]) \in Seq(Messages)
      BY <2>2, <3>1, HeadTailProperties
    <3>4. <<Head(queue[u])>> \in Seq(Messages)
      BY <3>3
    <3> QED
      BY <2>1, <3>2, <3>3, <3>4
  <2> HIDE DEF held
  <2>4. (sentTo[u] \o held) \o queue'[u] = sentTo[u] \o (held \o queue'[u])
    <3>1. \A x, y, z \in Seq(Messages) : (x \o y) \o z = x \o (y \o z)
      BY ONLY ConcatAssociative
    <3> QED
      BY <2>2, <2>3, <3>1
  <2>5. sentTo[u] \o InHand(u) = sentTo[u]
    BY <2>1, <2>2, ConcatEmptySeq
  <2>6. Stream(u)' = (sentTo'[u] \o held) \o queue'[u]
    BY DEF Stream, held
  <2>7. Stream(u) = (sentTo[u] \o InHand(u)) \o queue[u]
    BY DEF Stream
  <2> QED
    BY <1>2, <2>1, <2>4, <2>5, <2>6, <2>7
<1>3. CASE v = u /\ SendDelivery(u)
  <2>1. /\ hand[u] \in Messages /\ InHand(u) = <<hand[u]>> /\ InHand(u)' = <<>>
        /\ sentTo' = [sentTo EXCEPT ![u] = Append(@, hand[u])] /\ queue' = queue
    BY <1>3, DeliveryStep
  <2>2. sentTo[u] \in Seq(Messages) /\ sentTo \in [Clients -> Seq(Messages)]
    BY <1>0 DEF IInv, TypeOK
  <2>3. sentTo'[u] = Append(sentTo[u], hand[u])
    BY <1>0, <2>1, <2>2
  <2>4. Append(sentTo[u], hand[u]) = sentTo[u] \o <<hand[u]>>
    BY <2>1, <2>2, AppendIsConcat
  <2>5. Append(sentTo[u], hand[u]) \o <<>> = Append(sentTo[u], hand[u])
    BY <2>1, <2>2, AppendProperties, ConcatEmptySeq
  <2>6. Stream(u)' = (sentTo'[u] \o InHand(u)') \o queue'[u]
    BY DEF Stream
  <2>7. Stream(u) = (sentTo[u] \o InHand(u)) \o queue[u]
    BY DEF Stream
  <2> QED
    BY <1>3, <2>1, <2>3, <2>4, <2>5, <2>6, <2>7
<1> QED
  BY <1>1, <1>2, <1>3

(* Broadcast: one stream grows by the current message of the sender. *)
LEMMA EnqueueStep ==
  ASSUME IInv, NEW s \in Senders, NEW u \in Clients, BcastEnqueue(s, u)
  PROVE  /\ pc[s] = "enq" /\ u \in todo[s]
         /\ todo' = [todo EXCEPT ![s] = @ \ {u}]
         /\ UNCHANGED <<pc, members, m_rooms, room, lock, nsent, sentTo>>
         /\ CurrentMessage(s) \in Messages
         /\ queue' = [queue EXCEPT ![u] = Append(@, CurrentMessage(s))]
         /\ \A v \in Clients : InHand(v)' = InHand(v)
         /\ Stream(u)' = Append(Stream(u), CurrentMessage(s))
         /\ \A v \in Clients : v # u => Stream(v)' = Stream(v)
<1>1. /\ pc[s] = "enq" /\ pc' = [pc EXCEPT ![s] = "enq"] /\ u \in todo[s]
      /\ todo' = [todo EXCEPT ![s] = @ \ {u}]
      /\ UNCHANGED <<members, m_rooms, room, lock, nsent, sentTo, hand>>
      /\ queue' = [queue EXCEPT ![u] = Append(@, CurrentMessage(s))]
  BY DEF BcastEnqueue, Goto, CurrentMessage, serverVars, roomVars, countVars
<1>2. pc' = pc
  <2>1. pc \in [Clients -> {"start", "recv", "rm", "find", "create",
           "add", "reply", "leave", "bcast", "enq", "rjoin", "loop", "send", "done"}]
    BY Types
  <2> QED
    BY <1>1, <2>1
<1>3. CurrentMessage(s) \in Messages
  BY <1>1, CurrentMessageType DEF CurrentMessage
<1>4. \A v \in Clients : InHand(v)' = InHand(v)
  BY <1>1, <1>2 DEF InHand
<1>5. queue \in [Clients -> Seq(Messages)]
  BY DEF IInv, TypeOK
<1>6. \A v \in Clients : v # u => Stream(v)' = Stream(v)
  BY <1>1, <1>4, <1>5 DEF Stream
<1>7. Stream(u)' = Append(Stream(u), CurrentMessage(s))
  <2> DEFINE m == CurrentMessage(s)
             before == sentTo[u] \o InHand(u)
  <2>1. queue'[u] = Append(queue[u], m)
    BY <1>1, <1>5
  <2>2. before \in Seq(Messages) /\ queue[u] \in Seq(Messages)
    BY StreamType, ConcatProperties
  <2> DEFINE last == <<m>>
  <2>3. last \in Seq(Messages)
    BY <1>3
  <2>4. Stream(u) = before \o queue[u]
    BY DEF Stream
  <2>5. Stream(u)' = before \o queue'[u]
    BY <1>1, <1>4 DEF Stream
  <2>6. m \in Messages
    BY <1>3
  <2> HIDE DEF m, before
  <2>7. Append(queue[u], m) = queue[u] \o last
    BY <2>2, <2>6, AppendIsConcat
  <2>9. Append(before \o queue[u], m) = (before \o queue[u]) \o last
    <3>1. before \o queue[u] \in Seq(Messages)
      BY <2>2, ConcatProperties
    <3> QED
      BY <2>6, <3>1, AppendIsConcat
  <2> HIDE DEF last
  <2>8. (before \o queue[u]) \o last = before \o (queue[u] \o last)
    <3>1. \A x, y, z \in Seq(Messages) : (x \o y) \o z = x \o (y \o z)
      BY ONLY ConcatAssociative
    <3> QED
      BY <2>2, <2>3, <3>1
  <2>10. Stream(u)' = Append(Stream(u), m)
    BY <2>1, <2>4, <2>5, <2>7, <2>8, <2>9
  <2> QED
    BY <2>10 DEF m
<1> QED
  BY <1>1, <1>2, <1>3, <1>4, <1>6, <1>7
-----------------------------------------------------------------------------
(* The holder of a Room's lock is the sender that broadcasts to it.            *)
LEMMA BroadcasterHoldsLock ==
  ASSUME IInv, NEW s \in Senders, pc[s] = "enq"
  PROVE  /\ room[s] \in Rooms /\ lock[room[s]] = s
         /\ m_rooms[room[s][1]] = room[s]
<1>1. room[s] \in Rooms /\ s \in Clients
  BY InRoom DEF Clients
<1> QED
  BY <1>1 DEF IInv, LocksOnlyInside, Broadcasting, Map, Pointers

(* At most one broadcast runs in the rooms of one name.                        *)
LEMMA OneBroadcast ==
  ASSUME IInv, NEW s \in Senders, NEW t \in Senders, pc[s] = "enq", pc[t] = "enq",
         room[s][1] = room[t][1]
  PROVE  s = t
BY BroadcasterHoldsLock

\* No message enters a queue and no broadcast begins; members come and go only
\* where no broadcast runs.
Still ==
  /\ UNCHANGED <<todo, nsent>>
  /\ \A v \in Clients : Stream(v)' = Stream(v)
  /\ \A s \in Senders :
       /\ pc'[s] = "enq" => /\ pc[s] = "enq" /\ room'[s] = room[s]
                            /\ members'[room[s]] = members[room[s]]
       /\ pc[s] = "enq" /\ todo[s] # {} => pc'[s] = "enq"

LEMMA StillSteps ==
  ASSUME IInv,
         \/ OtherStep
         \/ \E c \in Clients : AddMember(c)
         \/ \E s \in Senders : RemoveForJoin(s) \/ RemoveForLeave(s)
         \/ \E u \in Receivers : Dequeue(u) \/ SendDelivery(u)
  PROVE  Still
<1>0. /\ pc \in [Clients -> {"start", "recv", "rm", "find", "create",
           "add", "reply", "leave", "bcast", "enq", "rjoin", "loop", "send", "done"}]
      /\ room \in [Clients -> RoomPtrs]
      /\ members \in [Rooms -> SUBSET Clients]
      /\ Senders \subseteq Clients /\ Receivers \subseteq Clients
      /\ Senders \cap Receivers = {}
  BY Types
\* add_member and remove_member wait for the lock that a broadcast holds.
<1>a. ASSUME NEW c \in Clients, OnlyMoves(c), lock[room[c]] = Nobody,
             NEW S, members' = [members EXCEPT ![room[c]] = S],
             UNCHANGED <<queue, hand, sentTo, todo, nsent>>
      PROVE  Still
  <2>1. StaysPut
    BY <1>a, OnlyMovesStaysPut
  <2>2. \A v \in Clients : Stream(v)' = Stream(v)
    BY <1>a, <2>1 DEF Stream, InHand, StaysPut
  <2>3. ASSUME NEW s \in Senders, pc[s] = "enq"
        PROVE  members'[room[s]] = members[room[s]]
    <3>1. room[s] # room[c]
      <4>1. lock[room[s]] = s /\ s # Nobody
        BY <2>3, BroadcasterHoldsLock, ServerAssumption DEF Clients
      <4> QED
        BY <1>a, <4>1
    <3>2. room[s] \in Rooms
      BY <2>3, BroadcasterHoldsLock
    <3> QED
      BY <1>0, <1>a, <3>1, <3>2
  <2> QED
    BY <1>a, <2>1, <2>2, <2>3 DEF Still, StaysPut
<1> USE DEF Goto, netVars, serverVars, roomVars, frameVars, countVars, feedVars
<1>1. CASE OtherStep
  <2>1. \A v \in Clients : Stream(v)' = Stream(v)
    BY <1>1 DEF OtherStep, Stream, InHand, StaysPut
  <2> QED
    BY <1>1, <2>1 DEF OtherStep, Still, StaysPut
<1>2. ASSUME NEW c \in Clients, AddMember(c) PROVE Still
  <2>1. OnlyMoves(c)
    BY <1>0, <1>2 DEF AddMember, OnlyMoves
  <2>2. members' = [members EXCEPT ![room[c]] = members[room[c]] \cup {c}]
    BY <1>2 DEF AddMember
  <2> QED
    BY <1>2, <1>a, <2>1, <2>2 DEF AddMember
<1>3. ASSUME NEW s \in Senders, RemoveForJoin(s) \/ RemoveForLeave(s) PROVE Still
  <2>1. OnlyMoves(s)
    <3>1. CASE RemoveForJoin(s)
      BY <1>0, <3>1 DEF RemoveForJoin, OnlyMoves
    <3>2. CASE RemoveForLeave(s)
      BY <1>0, <3>2 DEF RemoveForLeave, OnlyMoves
    <3> QED
      BY <1>3, <3>1, <3>2
  <2>2. /\ members' = [members EXCEPT ![room[s]] = members[room[s]] \ {s}]
        /\ lock[room[s]] = Nobody /\ UNCHANGED <<queue, hand, sentTo, todo, nsent>>
    BY <1>3 DEF RemoveForJoin, RemoveForLeave
  <2> QED
    BY <1>0, <1>a, <2>1, <2>2
<1>4. ASSUME NEW u \in Receivers, Dequeue(u) \/ SendDelivery(u) PROVE Still
  <2>1. \A v \in Clients : Stream(v)' = Stream(v)
    BY <1>4, DeliveriesKeepStreams
  <2>2. /\ UNCHANGED <<todo, nsent, members, room>>
        /\ \A s \in Senders : pc'[s] = pc[s]
    <3>1. CASE Dequeue(u)
      BY <1>0, <3>1 DEF Dequeue
    <3>2. CASE SendDelivery(u)
      BY <1>0, <3>2 DEF SendDelivery
    <3> QED
      BY <1>4, <3>1, <3>2
  <2> QED
    BY <2>1, <2>2 DEF Still
<1> QED
  BY <1>1, <1>2, <1>3, <1>4

(* The lock of a Room taken by a broadcast.                                    *)
LEMMA LockStep ==
  ASSUME IInv, NEW s \in Senders, BcastLock(s)
  PROVE  /\ pc[s] = "bcast" /\ pc' = [pc EXCEPT ![s] = "enq"]
         /\ room[s] \in Rooms /\ m_rooms[room[s][1]] = room[s] /\ s \in members[room[s]]
         /\ nsent[s] \in Nat /\ nsent[s] < MaxReqs
         /\ nsent' = [nsent EXCEPT ![s] = @ + 1]
         /\ todo' = [todo EXCEPT ![s] =
                       {u \in members[room[s]] : UserName[u] # UserName[s]}]
         /\ UNCHANGED <<m_rooms, members, room, queue, sentTo>>
         /\ \A t \in Senders : pc[t] = "enq" => room[t] # room[s]
         /\ \A v \in Clients : InHand(v)' = InHand(v)
         /\ \A v \in Clients : Stream(v)' = Stream(v)
<1>1. /\ pc[s] = "bcast" /\ pc' = [pc EXCEPT ![s] = "enq"] /\ lock[room[s]] = Nobody
      /\ nsent' = [nsent EXCEPT ![s] = @ + 1]
      /\ todo' = [todo EXCEPT ![s] =
                    {u \in members[room[s]] : UserName[u] # UserName[s]}]
      /\ UNCHANGED <<m_rooms, members, room, queue, sentTo, hand>>
  BY DEF BcastLock, Goto, serverVars, feedVars
<1>2. room[s] \in Rooms /\ Joined(s) /\ s \in Clients
  BY <1>1, InRoom DEF Clients
<1>3. m_rooms[room[s][1]] = room[s] /\ s \in members[room[s]]
  BY <1>2 DEF IInv, Map, Pointers, Membership
<1>4. nsent[s] \in Nat /\ nsent[s] < MaxReqs
  BY <1>1, Counters
<1>5. ASSUME NEW t \in Senders, pc[t] = "enq" PROVE room[t] # room[s]
  <2>1. lock[room[t]] = t /\ t # Nobody
    BY <1>5, BroadcasterHoldsLock, ServerAssumption DEF Clients
  <2> QED
    BY <1>1, <2>1
<1>6. \A v \in Clients : InHand(v)' = InHand(v)
  <2>1. \A v \in Receivers : pc'[v] = pc[v]
    BY <1>1, Types
  <2> QED
    BY <1>1, <2>1 DEF InHand
<1>7. \A v \in Clients : Stream(v)' = Stream(v)
  BY <1>1, <1>6 DEF Stream
<1> QED
  BY <1>1, <1>2, <1>3, <1>4, <1>5, <1>6, <1>7
-----------------------------------------------------------------------------
TodoOK ==
  \A s \in Senders :
    /\ todo[s] # {} => Broadcasting(s)
    /\ Broadcasting(s) =>
         todo[s] \subseteq {u \in members[room[s]] : UserName[u] # UserName[s]}

\* No message is ahead of the count of its sender: a new one is new everywhere.
NumberBound ==
  \A u \in Clients : \A i \in DOMAIN Stream(u) :
    Stream(u)[i].n <= nsent[Stream(u)[i].from]

Once ==
  \A u \in Clients : \A i, j \in DOMAIN Stream(u) :
    Stream(u)[i] = Stream(u)[j] => i = j

\* While a broadcast runs, no other message to its room follows the one it sends.
CurrentLast ==
  \A s \in Senders, u \in Clients : Broadcasting(s) =>
    \A i, j \in DOMAIN Stream(u) :
      Stream(u)[i] = CurrentMessage(s) /\ i < j => Stream(u)[j].room # room[s][1]

OrderInv ==
  TodoOK /\ NumberBound /\ Once /\ CurrentLast /\ BroadcastReachesMembers /\ SameOrder

LEMMA OrderInit == Init => OrderInv
<1> SUFFICES ASSUME Init PROVE OrderInv
  OBVIOUS
<1>1. /\ \A s \in Senders : todo[s] = {} /\ ~Broadcasting(s)
      /\ \A u \in Clients : DOMAIN Stream(u) = {}
  <2>1. ASSUME NEW s \in Senders PROVE todo[s] = {} /\ ~Broadcasting(s)
    BY DEF Init, Broadcasting, Clients
  <2>2. ASSUME NEW u \in Clients PROVE DOMAIN Stream(u) = {}
    <3>1. sentTo[u] = <<>> /\ InHand(u) = <<>> /\ queue[u] = <<>>
      BY <2>2 DEF Init, InHand
    <3>2. Stream(u) = <<>>
      BY <3>1 DEF Stream
    <3> QED
      BY <3>2
  <2> QED
    BY <2>1, <2>2
<1> QED
  BY <1>1 DEF OrderInv, TodoOK, NumberBound, Once, CurrentLast,
              BroadcastReachesMembers, SameOrder

LEMMA StillKeepsOrder ==
  ASSUME IInv, OrderInv, Still
  PROVE  OrderInv'
<1> USE DEF Still, Broadcasting
<1>1. TodoOK'
  BY DEF OrderInv, TodoOK
<1>2. NumberBound'
  BY DEF OrderInv, NumberBound
<1>3. Once'
  BY DEF OrderInv, Once
<1>4. SameOrder'
  BY DEF OrderInv, SameOrder
<1>5. ASSUME NEW s \in Senders, Broadcasting(s)'
      PROVE  /\ Broadcasting(s) /\ CurrentMessage(s)' = CurrentMessage(s)
             /\ room'[s] = room[s] /\ members'[room[s]] = members[room[s]]
  BY <1>5 DEF CurrentMessage
<1>6. CurrentLast'
  BY <1>5 DEF OrderInv, CurrentLast
<1>7. BroadcastReachesMembers'
  BY <1>5 DEF OrderInv, BroadcastReachesMembers
<1> QED
  BY <1>1, <1>2, <1>3, <1>4, <1>6, <1>7 DEF OrderInv
(* A broadcast that begins is new: no stream has a message of its number.      *)
LEMMA LockKeepsOrder ==
  ASSUME IInv, OrderInv, NEW s \in Senders, BcastLock(s)
  PROVE  OrderInv'
<1> DEFINE others == {u \in members[room[s]] : UserName[u] # UserName[s]}
<1>0. /\ pc[s] = "bcast" /\ pc' = [pc EXCEPT ![s] = "enq"]
      /\ room[s] \in Rooms
      /\ nsent' = [nsent EXCEPT ![s] = @ + 1]
      /\ todo' = [todo EXCEPT ![s] = others]
      /\ UNCHANGED <<members, room>>
      /\ \A v \in Clients : Stream(v)' = Stream(v)
  BY LockStep
<1>1. /\ pc \in [Clients -> {"start", "recv", "rm", "find", "create",
           "add", "reply", "leave", "bcast", "enq", "rjoin", "loop", "send", "done"}]
      /\ Senders \subseteq Clients
      /\ nsent \in [Senders -> 0..MaxReqs] /\ todo \in [Senders -> SUBSET Clients]
      /\ others \subseteq Clients
  BY <1>0, Types DEF IInv, TypeOK
<1>2. /\ Broadcasting(s)' /\ todo'[s] = others
      /\ CurrentMessage(s)' = Message(s, room[s][1], nsent[s] + 1)
  BY <1>0, <1>1 DEF Broadcasting, CurrentMessage
<1>3. ASSUME NEW t \in Senders, t # s
      PROVE  /\ Broadcasting(t)' <=> Broadcasting(t)
             /\ todo'[t] = todo[t] /\ CurrentMessage(t)' = CurrentMessage(t)
  BY <1>0, <1>1, <1>3 DEF Broadcasting, CurrentMessage
<1>4. ASSUME NEW u \in Clients, NEW i \in DOMAIN Stream(u)
      PROVE  /\ Stream(u)[i] \in Messages
             /\ Stream(u)[i].from \in Senders /\ Stream(u)[i].n \in Nat
             /\ Stream(u)[i].n <= nsent[Stream(u)[i].from]
  <2>1. Stream(u) \in Seq(Messages)
    BY StreamType
  <2>2. Stream(u)[i] \in Messages
    BY <2>1
  <2>3. Stream(u)[i].from \in Senders /\ Stream(u)[i].n \in 1..MaxReqs
    BY <2>2 DEF Messages
  <2>4. MaxReqs \in Nat
    BY ServerAssumption
  <2>5. Stream(u)[i].n <= nsent[Stream(u)[i].from]
    BY DEF OrderInv, NumberBound
  <2> QED
    BY <2>2, <2>3, <2>4, <2>5
<1>5. ASSUME NEW u \in Clients, NEW i \in DOMAIN Stream(u)
      PROVE  Stream(u)[i] # CurrentMessage(s)'
  <2> SUFFICES ASSUME Stream(u)[i] = CurrentMessage(s)' PROVE FALSE
    OBVIOUS
  <2>1. Stream(u)[i].from = s /\ Stream(u)[i].n = nsent[s] + 1
    BY <1>2 DEF Message
  <2>2. nsent[s] \in Nat
    BY LockStep
  <2> QED
    BY <1>4, <2>1, <2>2
<1>6. TodoOK'
  <2> SUFFICES ASSUME NEW t \in Senders
               PROVE  /\ todo'[t] # {} => Broadcasting(t)'
                      /\ Broadcasting(t)' =>
                           todo'[t] \subseteq {u \in members'[room'[t]] :
                                                 UserName[u] # UserName[t]}
    BY DEF TodoOK
  <2>1. CASE t = s
    BY <1>0, <1>2, <2>1
  <2>2. CASE t # s
    BY <1>0, <1>3, <2>2 DEF OrderInv, TodoOK
  <2> QED
    BY <2>1, <2>2
<1>7. NumberBound'
  <2> SUFFICES ASSUME NEW u \in Clients, NEW i \in DOMAIN Stream(u)
               PROVE  Stream(u)[i].n <= nsent'[Stream(u)[i].from]
    BY <1>0 DEF NumberBound
  <2>1. ASSUME NEW t \in Senders PROVE nsent[t] \in Nat /\ nsent'[t] >= nsent[t]
    <3>1. nsent[t] \in Nat
      BY Counters
    <3>2. nsent'[t] = nsent[t] \/ nsent'[t] = nsent[t] + 1
      BY <1>0, <1>1
    <3> QED
      BY <3>1, <3>2
  <2>2. nsent'[Stream(u)[i].from] \in Nat
    <3>1. ASSUME NEW t \in Senders PROVE nsent'[t] \in Nat
      <4>1. nsent[t] \in Nat
        BY Counters
      <4>2. nsent'[t] = nsent[t] \/ nsent'[t] = nsent[t] + 1
        BY <1>0, <1>1
      <4> QED
        BY <4>1, <4>2
    <3> QED
      BY <1>4, <3>1
  <2> QED
    BY <1>4, <2>1, <2>2
<1>8. Once' /\ SameOrder'
  BY <1>0 DEF OrderInv, Once, SameOrder
<1>9. CurrentLast'
  <2> SUFFICES ASSUME NEW t \in Senders, NEW u \in Clients, Broadcasting(t)',
                      NEW i \in DOMAIN Stream(u), NEW j \in DOMAIN Stream(u),
                      Stream(u)[i] = CurrentMessage(t)', i < j
               PROVE  Stream(u)[j].room # room[t][1]
    BY <1>0 DEF CurrentLast
  <2>1. t # s
    BY <1>5
  <2> QED
    BY <1>3, <2>1 DEF OrderInv, CurrentLast
<1>10. BroadcastReachesMembers'
  <2> SUFFICES ASSUME NEW t \in Senders, Broadcasting(t)', NEW u \in Clients
               PROVE  LET has == \E i \in DOMAIN Stream(u) : Stream(u)[i] = CurrentMessage(t)'
                      IN  /\ u \in todo'[t] => ~has
                          /\ u \in todo'[t] \/ has
                               <=> u \in members[room[t]] /\ UserName[u] # UserName[t]
    BY <1>0 DEF BroadcastReachesMembers
  <2>1. CASE t = s
    BY <1>2, <1>5, <2>1
  <2>2. CASE t # s
    BY <1>3, <2>2 DEF OrderInv, BroadcastReachesMembers
  <2> QED
    BY <2>1, <2>2
<1> QED
  BY <1>6, <1>7, <1>8, <1>9, <1>10 DEF OrderInv
-----------------------------------------------------------------------------
(* A message put in a queue comes after all that are in the stream, and until  *)
(* the broadcast ends no other message of its room can follow it anywhere.     *)
LEMMA EnqueueKeepsOrder ==
  ASSUME IInv, OrderInv, NEW s \in Senders, NEW u \in Clients, BcastEnqueue(s, u)
  PROVE  OrderInv'
<1> DEFINE m == CurrentMessage(s)
           end == Len(Stream(u)) + 1
<1>0. /\ pc[s] = "enq" /\ u \in todo[s]
      /\ todo' = [todo EXCEPT ![s] = @ \ {u}]
      /\ UNCHANGED <<pc, members, room, nsent>>
      /\ m \in Messages
      /\ Stream(u)' = Append(Stream(u), m)
      /\ \A v \in Clients : v # u => Stream(v)' = Stream(v)
  BY EnqueueStep
<1>1. \A t \in Senders : /\ CurrentMessage(t)' = CurrentMessage(t)
                         /\ Broadcasting(t)' <=> Broadcasting(t)
  BY <1>0 DEF CurrentMessage, Broadcasting
<1>2. /\ m.from = s /\ m.n = nsent[s] /\ m.room = room[s][1] /\ Broadcasting(s)
  BY <1>0 DEF CurrentMessage, Message, Broadcasting
<1> HIDE DEF m
<1>3. /\ Len(Stream(u)) \in Nat /\ DOMAIN Stream(u) = 1..Len(Stream(u))
      /\ DOMAIN Stream(u)' = 1..end /\ Stream(u)'[end] = m
      /\ \A i \in 1..Len(Stream(u)) : Stream(u)'[i] = Stream(u)[i]
  <2>1. Stream(u) \in Seq(Messages)
    BY StreamType
  <2>2. Append(Stream(u), m) \in Seq(Messages)
    BY <1>0, <2>1, AppendProperties
  <2> QED
    BY <1>0, <2>1, <2>2, AppendProperties, LenProperties
<1> HIDE DEF end
<1>4. ASSUME NEW i \in DOMAIN Stream(u)'
      PROVE  i = end \/ (i \in DOMAIN Stream(u) /\ i < end /\ Stream(u)'[i] = Stream(u)[i])
  BY <1>3 DEF end
<1>5. \A i \in DOMAIN Stream(u) : Stream(u)[i] # m /\ i < end /\ i \in DOMAIN Stream(u)'
  <2>1. \A i \in DOMAIN Stream(u) : Stream(u)[i] # m
    BY <1>0, <1>2 DEF OrderInv, BroadcastReachesMembers, m
  <2> QED
    BY <1>3, <2>1 DEF end
<1>6. TodoOK'
  <2> SUFFICES ASSUME NEW t \in Senders
               PROVE  /\ todo'[t] # {} => Broadcasting(t)
                      /\ Broadcasting(t) =>
                           todo'[t] \subseteq {v \in members[room[t]] :
                                                 UserName[v] # UserName[t]}
    BY <1>0, <1>1 DEF TodoOK
  <2>1. todo'[t] \subseteq todo[t]
    <3>1. todo \in [Senders -> SUBSET Clients]
      BY DEF IInv, TypeOK
    <3> QED
      BY <1>0, <3>1
  <2> QED
    BY <2>1 DEF OrderInv, TodoOK
<1>7. NumberBound'
  <2> SUFFICES ASSUME NEW v \in Clients, NEW i \in DOMAIN Stream(v)'
               PROVE  Stream(v)'[i].n <= nsent[Stream(v)'[i].from]
    BY <1>0 DEF NumberBound
  <2>1. CASE v = u /\ i = end
    <3>1. nsent[s] \in Nat
      BY Counters
    <3> QED
      BY <1>2, <1>3, <2>1, <3>1
  <2>2. CASE ~(v = u /\ i = end)
    <3>1. i \in DOMAIN Stream(v) /\ Stream(v)'[i] = Stream(v)[i]
      BY <1>0, <1>4, <2>2
    <3> QED
      BY <3>1 DEF OrderInv, NumberBound
  <2> QED
    BY <2>1, <2>2
<1>8. Once'
  <2> SUFFICES ASSUME NEW v \in Clients, NEW i \in DOMAIN Stream(v)',
                      NEW j \in DOMAIN Stream(v)', Stream(v)'[i] = Stream(v)'[j]
               PROVE  i = j
    BY DEF Once
  <2>1. CASE v = u
    <3>1. CASE i = end \/ j = end
      BY <1>3, <1>4, <1>5, <2>1, <3>1
    <3>2. CASE i # end /\ j # end
      <4>1. /\ i \in DOMAIN Stream(u) /\ Stream(u)'[i] = Stream(u)[i]
            /\ j \in DOMAIN Stream(u) /\ Stream(u)'[j] = Stream(u)[j]
        BY <1>4, <2>1, <3>2
      <4> QED
        BY <2>1, <4>1 DEF OrderInv, Once
    <3> QED
      BY <3>1, <3>2
  <2>2. CASE v # u
    BY <1>0, <2>2 DEF OrderInv, Once
  <2> QED
    BY <2>1, <2>2
<1>9. CurrentLast'
  <2> SUFFICES ASSUME NEW t \in Senders, NEW v \in Clients, Broadcasting(t),
                      NEW i \in DOMAIN Stream(v)', NEW j \in DOMAIN Stream(v)',
                      Stream(v)'[i] = CurrentMessage(t), i < j
               PROVE  Stream(v)'[j].room # room[t][1]
    BY <1>0, <1>1 DEF CurrentLast
  <2>1. CASE v # u
    BY <1>0, <2>1 DEF OrderInv, CurrentLast
  <2>2. CASE v = u
    <3>1. i # end /\ i \in DOMAIN Stream(u) /\ Stream(u)[i] = CurrentMessage(t)
      <4>1. i # end
        <5>1. j = end \/ j < end
          BY <1>4, <2>2
        <5>2. end \in Nat
          BY <1>3 DEF end
        <5>3. j \in Nat
          BY <1>3, <2>2 DEF end
        <5> QED
          BY <5>1, <5>2, <5>3
      <4> QED
        BY <1>4, <2>2, <4>1
    <3>2. CASE j # end
      <4>1. j \in DOMAIN Stream(u) /\ Stream(u)'[j] = Stream(u)[j]
        BY <1>4, <2>2, <3>2
      <4> QED
        BY <2>2, <3>1, <4>1 DEF OrderInv, CurrentLast
    \* The new message is of another room: t is not s.
    <3>3. CASE j = end
      <4>1. t # s
        BY <1>5, <3>1 DEF m
      <4>2. room[s][1] # room[t][1]
        BY <1>0, <4>1, OneBroadcast DEF Broadcasting
      <4> QED
        BY <1>2, <1>3, <2>2, <3>3, <4>2
    <3> QED
      BY <3>2, <3>3
  <2> QED
    BY <2>1, <2>2
<1>10. BroadcastReachesMembers'
  <2> DEFINE Has(t, v) == \E i \in DOMAIN Stream(v) : Stream(v)[i] = CurrentMessage(t)
             HasNow(t, v) == \E i \in DOMAIN Stream(v)' : Stream(v)'[i] = CurrentMessage(t)
  <2> SUFFICES ASSUME NEW t \in Senders, Broadcasting(t), NEW v \in Clients
               PROVE  /\ v \in todo'[t] => ~HasNow(t, v)
                      /\ v \in todo'[t] \/ HasNow(t, v)
                           <=> v \in members[room[t]] /\ UserName[v] # UserName[t]
    BY <1>0, <1>1 DEF BroadcastReachesMembers
  <2>1. /\ v \in todo[t] => ~Has(t, v)
        /\ v \in todo[t] \/ Has(t, v)
             <=> v \in members[room[t]] /\ UserName[v] # UserName[t]
    BY DEF OrderInv, BroadcastReachesMembers
  <2>2. todo \in [Senders -> SUBSET Clients]
    BY DEF IInv, TypeOK
  <2>3. CASE v = u /\ t = s
    <3>1. HasNow(t, v)
      <4>1. end \in DOMAIN Stream(u)'
        BY <1>3 DEF end
      <4> QED
        BY <1>3, <2>3, <4>1 DEF m
    <3>2. v \notin todo'[t] /\ v \in todo[t]
      BY <1>0, <2>2, <2>3
    <3> QED
      BY <2>1, <3>1, <3>2
  <2>4. CASE v = u /\ t # s
    <3>1. CurrentMessage(t) # m
      BY <2>4 DEF m, CurrentMessage, Message
    <3>2. HasNow(t, v) <=> Has(t, v)
      BY <1>3, <1>4, <1>5, <2>4, <3>1
    <3>3. todo'[t] = todo[t]
      BY <1>0, <2>2, <2>4
    <3> QED
      BY <2>1, <3>2, <3>3
  <2>5. CASE v # u
    <3>1. HasNow(t, v) <=> Has(t, v)
      BY <1>0, <2>5
    <3>2. v \in todo'[t] <=> v \in todo[t]
      BY <1>0, <2>2, <2>5
    <3> QED
      BY <2>1, <3>1, <3>2
  <2> QED
    BY <2>3, <2>4, <2>5
<1>11. SameOrder'
  <2> SUFFICES ASSUME NEW v \in Clients, NEW w \in Clients,
                      NEW i \in DOMAIN Stream(v)', NEW j \in DOMAIN Stream(v)',
                      NEW k \in DOMAIN Stream(w)', NEW l \in DOMAIN Stream(w)',
                      Stream(v)'[i] = Stream(w)'[k], Stream(v)'[j] = Stream(w)'[l],
                      Stream(v)'[i].room = Stream(v)'[j].room, i < j
               PROVE  k < l
    BY DEF SameOrder
  <2>1. /\ i \in Nat /\ j \in Nat /\ k \in Nat /\ l \in Nat /\ end \in Nat
    <3>1. ASSUME NEW x \in Clients PROVE DOMAIN Stream(x)' \subseteq Nat
      <4>1. CASE x = u
        BY <1>3, <4>1 DEF end
      <4>2. CASE x # u
        <5>1. Stream(x) \in Seq(Messages)
          BY StreamType
        <5> QED
          BY <1>0, <4>2, <5>1
      <4> QED
        BY <4>1, <4>2
    <3> QED
      BY <1>3, <3>1 DEF end
  <2>2. k # l
    BY <1>8, <2>1 DEF Once
  <2>3. ASSUME NEW x \in Clients, NEW y \in DOMAIN Stream(x)', ~(x = u /\ y = end)
        PROVE  y \in DOMAIN Stream(x) /\ Stream(x)'[y] = Stream(x)[y]
    BY <1>0, <1>4, <2>3
  <2>4. CASE v = w
    BY <1>8, <2>4 DEF Once
  \* The later message of v is the new one: in w no message of the room follows it.
  <2>5. CASE v # w /\ v = u /\ j = end
    <3>1. Stream(w)[k].room = m.room /\ Stream(w)[l] = m
          /\ k \in DOMAIN Stream(w) /\ l \in DOMAIN Stream(w)
      <4>1. /\ k \in DOMAIN Stream(w) /\ Stream(w)'[k] = Stream(w)[k]
            /\ l \in DOMAIN Stream(w) /\ Stream(w)'[l] = Stream(w)[l]
        BY <2>3, <2>5
      <4> QED
        BY <1>3, <2>5, <4>1
    <3>2. ~(l < k)
      BY <1>2, <3>1 DEF OrderInv, CurrentLast, m
    <3> QED
      BY <2>1, <2>2, <3>2
  <2>6. CASE v # w /\ w = u /\ l = end
    BY <1>4, <2>1, <2>2, <2>6
  <2>7. CASE v # w /\ w = u /\ k = end
    <3>1. /\ Stream(v)[i] = m /\ Stream(v)[j].room = m.room
          /\ i \in DOMAIN Stream(v) /\ j \in DOMAIN Stream(v)
      <4>1. /\ i \in DOMAIN Stream(v) /\ Stream(v)'[i] = Stream(v)[i]
            /\ j \in DOMAIN Stream(v) /\ Stream(v)'[j] = Stream(v)[j]
        BY <2>3, <2>7
      <4> QED
        BY <1>3, <2>7, <4>1
    <3> QED
      BY <1>2, <3>1 DEF OrderInv, CurrentLast, m
  <2>8. CASE /\ ~(v = u /\ i = end) /\ ~(v = u /\ j = end)
             /\ ~(w = u /\ k = end) /\ ~(w = u /\ l = end)
    <3>1. /\ i \in DOMAIN Stream(v) /\ Stream(v)'[i] = Stream(v)[i]
          /\ j \in DOMAIN Stream(v) /\ Stream(v)'[j] = Stream(v)[j]
      BY <2>3, <2>8
    <3>2. /\ k \in DOMAIN Stream(w) /\ Stream(w)'[k] = Stream(w)[k]
          /\ l \in DOMAIN Stream(w) /\ Stream(w)'[l] = Stream(w)[l]
      BY <2>3, <2>8
    <3> QED
      BY <3>1, <3>2 DEF OrderInv, SameOrder
  <2>9. ~(v = u /\ i = end)
    BY <1>4, <2>1
  <2> QED
    BY <2>4, <2>5, <2>6, <2>7, <2>8, <2>9
<1> QED
  BY <1>6, <1>7, <1>8, <1>9, <1>10, <1>11 DEF OrderInv
-----------------------------------------------------------------------------
LEMMA OrderNext == IInv /\ OrderInv /\ [Next]_vars => OrderInv'
BY StepKinds, StillSteps, StillKeepsOrder, LockKeepsOrder, EnqueueKeepsOrder

LEMMA OrderInvariance == Spec => [](IInv /\ OrderInv)
<1>1. Init => OrderInv
  BY OrderInit
<1>2. IInv /\ OrderInv /\ [Next]_vars => OrderInv'
  BY OrderNext
<1> QED
  BY <1>1, <1>2, Invariance, PTL DEF Spec

(* broadcast_message (room.cpp:29-41) leaves out no member with another name,  *)
(* and puts the message in nobody's queue twice, however the queues are read   *)
(* and the other rooms change while it runs.                                   *)
THEOREM NobodySkipped == Spec => []BroadcastReachesMembers
<1>1. OrderInv => BroadcastReachesMembers
  BY DEF OrderInv
<1> QED
  BY <1>1, OrderInvariance, PTL

(* The lock of a Room (room.cpp:32) puts the broadcasts of its members in one  *)
(* order, which every queue, every worker and every connection keeps.          *)
THEOREM OneOrder == Spec => []SameOrder
<1>1. OrderInv => SameOrder
  BY DEF OrderInv
<1> QED
  BY <1>1, OrderInvariance, PTL
-----------------------------------------------------------------------------
(* The refinement of AtomicChat.                                               *)

\* What a room name and a user's queue are to AtomicChat.
Subs == [r \in RoomNames |-> IF m_rooms[r] = NullRoom THEN {} ELSE members[m_rooms[r]]]
Feed == [u \in Clients |-> InHand(u) \o queue[u] \o InFlight(u)]

\* What is in flight to a user: the message of the broadcast that has yet to
\* reach it, if one has.
InFlightOne ==
  \A u \in Clients, s \in Senders : u \in todo[s] =>
    InFlight(u) = <<CurrentMessage(s)>>

InFlightNone ==
  \A u \in Clients : (\A s \in Senders : u \notin todo[s]) => InFlight(u) = <<>>

LEMMA OneReaching == IInv /\ TodoOK => InFlightOne
<1> SUFFICES ASSUME IInv, TodoOK, NEW u \in Clients, NEW s \in Senders, u \in todo[s]
             PROVE  InFlight(u) = <<CurrentMessage(s)>>
  BY DEF InFlightOne
<1>1. ASSUME NEW t \in Senders, u \in todo[t]
      PROVE  pc[t] = "enq" /\ room[u] = room[t]
  <2>1. pc[t] = "enq" /\ u \in members[room[t]]
    BY <1>1 DEF TodoOK, Broadcasting
  <2>2. room[t] \in Rooms
    BY <2>1, BroadcasterHoldsLock
  <2> QED
    BY <2>1, <2>2 DEF IInv, Membership
<1>2. \A t \in Senders : u \in todo[t] => t = s
  BY <1>1, OneBroadcast
<1>3. Reaching(u) = {s}
  BY <1>2 DEF Reaching
<1>4. (CHOOSE t \in Reaching(u) : TRUE) = s
  BY <1>3
<1> QED
  BY <1>3, <1>4 DEF InFlight, CurrentMessage

LEMMA NoneReaching == InFlightNone
BY DEF InFlightNone, InFlight, Reaching

LEMMA InFlightType ==
  ASSUME IInv, TodoOK, NEW u \in Clients
  PROVE  InFlight(u) \in Seq(Messages)
<1>1. ASSUME NEW s \in Senders, u \in todo[s] PROVE InFlight(u) \in Seq(Messages)
  <2>1. pc[s] = "enq"
    BY <1>1 DEF TodoOK, Broadcasting
  <2>2. CurrentMessage(s) \in Messages
    BY <2>1, CurrentMessageType DEF CurrentMessage
  <2>3. <<CurrentMessage(s)>> \in Seq(Messages)
    BY <2>2
  <2> QED
    BY <1>1, <2>3, OneReaching DEF InFlightOne
<1>2. ASSUME \A s \in Senders : u \notin todo[s] PROVE InFlight(u) \in Seq(Messages)
  BY <1>2, NoneReaching, EmptySeq DEF InFlightNone
<1> QED
  BY <1>1, <1>2

\* What is still to be enqueued for u changes only with the broadcasts to it.
LEMMA InFlightKept ==
  ASSUME IInv, TodoOK, IInv', TodoOK', NEW u \in Clients,
         \A s \in Senders : u \in todo'[s] <=> u \in todo[s],
         \A s \in Senders : u \in todo[s] => CurrentMessage(s)' = CurrentMessage(s)
  PROVE  InFlight(u)' = InFlight(u)
<1>1. ASSUME NEW s \in Senders, u \in todo[s] PROVE InFlight(u)' = InFlight(u)
  <2>1. InFlight(u) = <<CurrentMessage(s)>>
    BY <1>1, OneReaching DEF InFlightOne
  <2>2. (IInv /\ TodoOK => InFlightOne)'
    BY OneReaching, PTL
  <2>3. InFlight(u)' = <<CurrentMessage(s)'>>
    BY <1>1, <2>2 DEF InFlightOne
  <2> QED
    BY <1>1, <2>1, <2>3
<1>2. ASSUME \A s \in Senders : u \notin todo[s] PROVE InFlight(u)' = InFlight(u)
  <2>1. InFlightNone'
    BY NoneReaching, PTL
  <2>2. InFlight(u)' = <<>>
    BY <1>2, <2>1 DEF InFlightNone
  <2> QED
    BY <1>2, <2>2, NoneReaching DEF InFlightNone
<1> QED
  BY <1>1, <1>2

LEMMA SubsChange ==
  ASSUME IInv, NEW c \in Clients, room[c] \in Rooms, NEW S, m_rooms' = m_rooms,
         members' = [members EXCEPT ![room[c]] = S]
  PROVE  /\ Subs' = [Subs EXCEPT ![room[c][1]] = S]
         /\ Subs[room[c][1]] = members[room[c]] /\ room[c][1] \in RoomNames
<1>1. /\ room[c][1] \in RoomNames /\ m_rooms[room[c][1]] = room[c]
      /\ NullRoom \notin Rooms
      /\ m_rooms \in [RoomNames -> Rooms \cup {NullRoom}]
      /\ members \in [Rooms -> SUBSET Clients]
  BY Types DEF IInv, Map, Pointers, Rooms
<1>2. ASSUME NEW r \in RoomNames, r # room[c][1], m_rooms[r] # NullRoom
      PROVE  m_rooms[r] \in Rooms /\ m_rooms[r] # room[c]
  BY <1>1, <1>2 DEF IInv, Map, MapSound
<1>3. Subs[room[c][1]] = members[room[c]]
  BY <1>1 DEF Subs
<1>4. ASSUME NEW r \in RoomNames
      PROVE  Subs'[r] = IF r = room[c][1] THEN S ELSE Subs[r]
  <2>1. CASE r = room[c][1]
    BY <1>1, <2>1 DEF Subs
  <2>2. CASE r # room[c][1]
    BY <1>1, <1>2, <2>2 DEF Subs
  <2> QED
    BY <2>1, <2>2
<1>5. Subs' = [Subs EXCEPT ![room[c][1]] = S]
  <2>1. /\ Subs' = [r \in RoomNames |-> Subs'[r]]
        /\ Subs = [r \in RoomNames |-> Subs[r]]
    BY DEF Subs
  <2> QED
    BY <1>4, <2>1
<1> QED
  BY <1>1, <1>3, <1>5

(* The head and the tail of a feed whose first message is in hand.             *)
LEMMA FirstAndRest ==
  ASSUME NEW S, NEW h \in S, NEW q \in Seq(S), NEW f \in Seq(S)
  PROVE  LET all == (<<h>> \o q) \o f
         IN  all # <<>> /\ Head(all) = h /\ Tail(all) = q \o f
<1> DEFINE one == <<h>>
           rest == q \o f
           all == one \o rest
<1>1. one \in Seq(S) /\ Len(one) = 1 /\ one[1] = h
  OBVIOUS
<1>2. rest \in Seq(S)
  BY ConcatProperties
<1> HIDE DEF one
<1>3. (one \o q) \o f = all
  <2>1. one \in Seq(S) /\ q \in Seq(S) /\ f \in Seq(S)
    BY <1>1
  <2>2. (one \o q) \o f = one \o (q \o f)
    BY ONLY <2>1, ConcatAssociative
  <2> QED
    BY <2>2
<1> HIDE DEF rest
<1>4. /\ all \in Seq(S) /\ Len(all) = Len(one) + Len(rest)
      /\ \A i \in 1..(Len(one) + Len(rest)) :
           all[i] = IF i <= Len(one) THEN one[i] ELSE rest[i - Len(one)]
  <2>1. one \in Seq(S) /\ rest \in Seq(S)
    BY <1>1, <1>2
  <2> QED
    BY ONLY <2>1, ConcatProperties
<1> HIDE DEF all
<1>5. Len(rest) \in Nat /\ Len(all) = Len(rest) + 1 /\ all[1] = h
  <2>1. Len(rest) \in Nat
    BY <1>2, LenProperties
  <2> QED
    BY <1>1, <1>4, <2>1
<1>6. all # <<>> /\ Head(all) = h
  BY <1>4, <1>5
<1>7. /\ Tail(all) \in Seq(S) /\ Len(Tail(all)) = Len(rest)
      /\ \A i \in 1..Len(rest) : Tail(all)[i] = all[i + 1]
  <2>1. /\ Tail(all) \in Seq(S) /\ Len(Tail(all)) = Len(all) - 1
        /\ \A i \in 1..Len(Tail(all)) : Tail(all)[i] = all[i + 1]
    BY <1>4, <1>6, HeadTailProperties
  <2> QED
    BY <1>5, <2>1
<1>8. ASSUME NEW i \in 1..Len(rest) PROVE Tail(all)[i] = rest[i]
  <2>1. i + 1 \in 1..(Len(one) + Len(rest)) /\ ~(i + 1 <= Len(one)) /\ (i + 1) - Len(one) = i
    BY <1>1, <1>5
  <2> QED
    BY <1>4, <1>7, <2>1
<1>9. Tail(all) = rest
  BY <1>2, <1>7, <1>8, SeqEqual
<1> QED
  BY <1>3, <1>6, <1>9 DEF one, rest
-----------------------------------------------------------------------------
\* One invariant for both states of a step.
ChatInv == IInv /\ OrderInv

LEMMA AtomicInit == Init => Chat!Init
<1> SUFFICES ASSUME Init PROVE Chat!Init
  OBVIOUS
<1>1. Subs = [r \in RoomNames |-> {}]
  BY DEF Init, Subs
<1>2. Feed = [u \in Clients |-> <<>>]
  <2>1. ASSUME NEW u \in Clients PROVE InHand(u) \o queue[u] \o InFlight(u) = <<>>
    <3>1. InHand(u) = <<>> /\ queue[u] = <<>> /\ InFlight(u) = <<>>
      BY <2>1, NoneReaching DEF Init, InHand, InFlightNone
    <3> QED
      BY <3>1
  <2> QED
    BY <2>1 DEF Feed
<1>3. sentTo = [u \in Clients |-> <<>>] /\ nsent = [s \in Senders |-> 0]
  BY DEF Init
<1> QED
  BY <1>1, <1>2, <1>3 DEF Chat!Init, Chat!Users, Subs, Feed, Clients

(* Where nothing is enqueued and nobody broadcasts, only what is in hand and   *)
(* queued can move.                                                            *)
LEMMA FeedOf ==
  ASSUME ChatInv, ChatInv', UNCHANGED <<todo, nsent>>,
         \A s \in Senders : pc[s] = "enq" => room'[s] = room[s],
         NEW u \in Clients
  PROVE  InFlight(u)' = InFlight(u)
<1>1. ASSUME NEW s \in Senders, u \in todo[s] PROVE CurrentMessage(s)' = CurrentMessage(s)
  <2>1. pc[s] = "enq"
    BY <1>1 DEF ChatInv, OrderInv, TodoOK, Broadcasting
  <2> QED
    BY <2>1 DEF CurrentMessage
<1>2. IInv /\ TodoOK /\ IInv' /\ TodoOK'
  BY DEF ChatInv, OrderInv
<1> QED
  BY <1>1, <1>2, InFlightKept

LEMMA AtomicStutter ==
  ASSUME ChatInv, ChatInv', OtherStep
  PROVE  UNCHANGED Chat!avars
<1>1. Subs' = Subs
  <2>1. ASSUME NEW r \in RoomNames PROVE Subs'[r] = Subs[r]
    BY DEF OtherStep, MapGrows, Subs
  <2> QED
    BY <2>1 DEF Subs
<1>2. Feed' = Feed
  <2>1. ASSUME NEW s \in Senders, pc[s] = "enq", todo[s] # {} PROVE room'[s] = room[s]
    BY <2>1 DEF OtherStep, StaysPut
  <2>2. ASSUME NEW u \in Clients PROVE InFlight(u)' = InFlight(u)
    <3>1. ASSUME NEW s \in Senders, u \in todo[s]
          PROVE  CurrentMessage(s)' = CurrentMessage(s)
      <4>1. pc[s] = "enq"
        BY <3>1 DEF ChatInv, OrderInv, TodoOK, Broadcasting
      <4>2. nsent' = nsent
        BY DEF OtherStep
      <4> QED
        BY <2>1, <3>1, <4>1, <4>2 DEF CurrentMessage
    <3>2. IInv /\ TodoOK /\ IInv' /\ TodoOK' /\ todo' = todo
      BY DEF ChatInv, OrderInv, OtherStep
    <3> QED
      BY <3>1, <3>2, InFlightKept
  <2>3. ASSUME NEW u \in Clients PROVE InHand(u)' = InHand(u) /\ queue'[u] = queue[u]
    BY DEF OtherStep, StaysPut, InHand
  <2> QED
    BY <2>2, <2>3 DEF Feed
<1>3. sentTo' = sentTo /\ nsent' = nsent
  BY DEF OtherStep
<1> QED
  BY <1>1, <1>2, <1>3 DEF Chat!avars, Subs, Feed

\* A step on members leaves the messages alone.
LEMMA MembersOnly ==
  ASSUME ChatInv, ChatInv', NEW c \in Clients, OnlyMoves(c),
         UNCHANGED <<queue, hand, sentTo, todo, nsent>>
  PROVE  Feed' = Feed
<1>1. StaysPut
  BY OnlyMovesStaysPut
<1>2. \A s \in Senders : pc[s] = "enq" => room'[s] = room[s]
  BY DEF OnlyMoves, Clients
<1>3. \A u \in Clients : InFlight(u)' = InFlight(u)
  BY <1>2, FeedOf
<1>4. \A u \in Clients : InHand(u)' = InHand(u)
  BY <1>1 DEF StaysPut, InHand
<1> QED
  BY <1>3, <1>4 DEF Feed

LEMMA AtomicSubscribe ==
  ASSUME ChatInv, ChatInv', NEW c \in Clients, AddMember(c)
  PROVE  Chat!Next
<1>0. /\ pc[c] = "add" /\ pc' = [pc EXCEPT ![c] = "reply"]
      /\ members' = [members EXCEPT ![room[c]] = members[room[c]] \cup {c}]
      /\ UNCHANGED <<m_rooms, room, queue, hand, sentTo, todo, nsent>>
  BY DEF AddMember, Goto, serverVars, countVars, feedVars
<1>1. IInv /\ room[c] \in Rooms
  BY <1>0 DEF ChatInv, IInv, JoinedRoom
<1>2. /\ Subs' = [Subs EXCEPT ![room[c][1]] = members[room[c]] \cup {c}]
      /\ Subs[room[c][1]] = members[room[c]] /\ room[c][1] \in RoomNames
  BY <1>0, <1>1, SubsChange
<1>3. ASSUME NEW q \in RoomNames PROVE c \notin Subs[q]
  <2>1. ~Joined(c)
    BY <1>0 DEF Joined
  <2>2. m_rooms[q] # NullRoom => m_rooms[q] \in Rooms
    BY <1>1, Types
  <2> QED
    BY <1>1, <2>1, <2>2 DEF Subs, IInv, Membership
<1>4. Feed' = Feed
  <2>1. OnlyMoves(c)
    BY <1>0, <1>1, Types DEF OnlyMoves
  <2> QED
    BY <1>0, <2>1, MembersOnly
<1>5. Subs' = [Subs EXCEPT ![room[c][1]] = Subs[room[c][1]] \cup {c}]
  BY <1>2
<1>6. PICK r \in RoomNames : r = room[c][1]
  BY <1>2
<1>7. Chat!Subscribe(c, r)
  BY <1>0, <1>3, <1>4, <1>5, <1>6 DEF Chat!Subscribe, Subs, Feed
<1> QED
  BY <1>7 DEF Chat!Next, Chat!Users, Clients

LEMMA AtomicUnsubscribe ==
  ASSUME ChatInv, ChatInv', NEW s \in Senders, RemoveForJoin(s) \/ RemoveForLeave(s)
  PROVE  Chat!Next
<1>0. /\ pc[s] \in {"rm", "leave"} /\ OnlyMoves(s)
      /\ members' = [members EXCEPT ![room[s]] = members[room[s]] \ {s}]
      /\ UNCHANGED <<m_rooms, queue, hand, sentTo, todo, nsent>>
  <2>1. /\ pc \in [Clients -> {"start", "recv", "rm", "find", "create",
             "add", "reply", "leave", "bcast", "enq", "rjoin", "loop", "send", "done"}]
        /\ room \in [Clients -> RoomPtrs] /\ s \in Clients
    BY Types DEF ChatInv, Clients
  <2> USE DEF Goto, serverVars, frameVars, countVars, feedVars
  <2>2. CASE RemoveForJoin(s)
    BY <2>1, <2>2 DEF RemoveForJoin, OnlyMoves
  <2>3. CASE RemoveForLeave(s)
    BY <2>1, <2>3 DEF RemoveForLeave, OnlyMoves
  <2> QED
    BY <2>2, <2>3
<1>1. IInv /\ room[s] \in Rooms /\ Joined(s) /\ s \in Clients
  BY <1>0, InRoom DEF ChatInv, Clients
<1>2. /\ Subs' = [Subs EXCEPT ![room[s][1]] = members[room[s]] \ {s}]
      /\ Subs[room[s][1]] = members[room[s]] /\ room[s][1] \in RoomNames
  BY <1>0, <1>1, SubsChange
<1>3. s \in Subs[room[s][1]]
  BY <1>1, <1>2 DEF IInv, Membership
<1>4. Feed' = Feed
  BY <1>0, <1>1, MembersOnly
<1>5. Subs' = [Subs EXCEPT ![room[s][1]] = Subs[room[s][1]] \ {s}]
  BY <1>2
<1>6. PICK r \in RoomNames : r = room[s][1]
  BY <1>2
<1>7. Chat!Unsubscribe(s, r)
  BY <1>0, <1>3, <1>4, <1>5, <1>6 DEF Chat!Unsubscribe, Subs, Feed
<1> QED
  BY <1>7 DEF Chat!Next
(* The broadcast takes effect when the lock is taken: from then on the message *)
(* is in flight to every member it is meant for.                               *)
LEMMA AtomicPublish ==
  ASSUME ChatInv, ChatInv', NEW s \in Senders, BcastLock(s)
  PROVE  Chat!Next
<1> DEFINE others == {u \in members[room[s]] : UserName[u] # UserName[s]}
<1>0. /\ pc[s] = "bcast" /\ pc' = [pc EXCEPT ![s] = "enq"]
      /\ room[s] \in Rooms /\ m_rooms[room[s][1]] = room[s] /\ s \in members[room[s]]
      /\ nsent[s] \in Nat /\ nsent[s] < MaxReqs
      /\ nsent' = [nsent EXCEPT ![s] = @ + 1]
      /\ todo' = [todo EXCEPT ![s] = others]
      /\ UNCHANGED <<m_rooms, members, room, queue, sentTo>>
      /\ \A t \in Senders : pc[t] = "enq" => room[t] # room[s]
      /\ \A v \in Clients : InHand(v)' = InHand(v)
  BY LockStep DEF ChatInv
<1>1. /\ IInv /\ TodoOK /\ IInv' /\ TodoOK'
      /\ nsent \in [Senders -> 0..MaxReqs] /\ todo \in [Senders -> SUBSET Clients]
      /\ members \in [Rooms -> SUBSET Clients] /\ NullRoom \notin Rooms
  BY Types DEF ChatInv, OrderInv, IInv, TypeOK
<1>2. nsent'[s] = nsent[s] + 1 /\ todo'[s] = others
  BY <1>0, <1>1
<1>3. ASSUME NEW t \in Senders, t # s
      PROVE  todo'[t] = todo[t] /\ CurrentMessage(t)' = CurrentMessage(t)
  BY <1>0, <1>1, <1>3 DEF CurrentMessage
<1>4. todo[s] = {}
  BY <1>0, <1>1 DEF TodoOK, Broadcasting
<1>5. PICK r \in RoomNames : r = room[s][1]
  BY <1>0 DEF Rooms
<1>6. Subs[r] = members[room[s]] /\ Subs' = Subs
  BY <1>0, <1>1, <1>5 DEF Subs
<1> DEFINE m == Chat!Message(s, r, nsent[s] + 1)
<1>7. CurrentMessage(s)' = m /\ m \in Messages
  <2>1. CurrentMessage(s)' = Message(s, r, nsent[s] + 1)
    BY <1>0, <1>2, <1>5 DEF CurrentMessage
  <2>2. nsent[s] + 1 \in 1..MaxReqs
    <3>1. MaxReqs \in Nat
      BY ServerAssumption
    <3> QED
      BY <1>0, <3>1
  <2>3. m = Message(s, r, nsent[s] + 1)
    BY DEF Chat!Message, Message
  <2> QED
    BY <2>1, <2>2, <2>3 DEF Message, Messages
<1> HIDE DEF m
\* Nobody who is about to get the message waits for another.
<1>8. ASSUME NEW u \in others, NEW t \in Senders PROVE u \notin todo[t]
  <2> SUFFICES ASSUME u \in todo[t] PROVE FALSE
    OBVIOUS
  <2>1. pc[t] = "enq" /\ u \in members[room[t]]
    BY <1>1 DEF TodoOK, Broadcasting
  <2>2. room[t] \in Rooms
    BY <1>1, <2>1, BroadcasterHoldsLock
  <2>3. room[u] = room[t] /\ room[u] = room[s]
    BY <1>0, <1>1, <1>8, <2>1, <2>2 DEF IInv, Membership
  <2> QED
    BY <1>0, <2>1, <2>3
<1>9. ASSUME NEW u \in Clients
      PROVE  Feed'[u] = IF u \in Subs[r] /\ UserName[u] # UserName[s]
                          THEN Append(Feed[u], m) ELSE Feed[u]
  <2>1. /\ InHand(u)' = InHand(u) /\ queue'[u] = queue[u]
        /\ Feed[u] = (InHand(u) \o queue[u]) \o InFlight(u)
        /\ Feed'[u] = (InHand(u)' \o queue'[u]) \o InFlight(u)'
    BY <1>0 DEF Feed
  <2>2. CASE u \in others
    <3>1. InFlight(u) = <<>>
      BY <1>8, <2>2, NoneReaching DEF InFlightNone
    <3>2. InFlight(u)' = <<m>>
      <4>1. (IInv /\ TodoOK => InFlightOne)'
        BY OneReaching, PTL
      <4>2. u \in todo'[s]
        BY <1>2, <2>2
      <4> QED
        BY <1>1, <1>7, <4>1, <4>2 DEF InFlightOne
    <3>3. InHand(u) \in Seq(Messages) /\ queue[u] \in Seq(Messages)
      BY <1>1, StreamType
    <3> DEFINE all == InHand(u) \o queue[u]
    <3>4. all \in Seq(Messages)
      BY <3>3, ConcatProperties
    <3>5. Feed[u] = all \o <<>> /\ Feed'[u] = all \o <<m>>
      BY <2>1, <3>1, <3>2
    <3> HIDE DEF all
    <3>6. Feed[u] = all
      BY <3>4, <3>5, ConcatEmptySeq
    <3>7. Append(all, m) = all \o <<m>>
      BY <1>7, <3>4, AppendIsConcat
    <3> QED
      BY <1>6, <2>2, <3>5, <3>6, <3>7
  <2>3. CASE u \notin others
    <3>1. \A t \in Senders : u \in todo'[t] <=> u \in todo[t]
      BY <1>2, <1>3, <1>4, <2>3
    <3>2. \A t \in Senders : u \in todo[t] => CurrentMessage(t)' = CurrentMessage(t)
      BY <1>3, <1>4
    <3>3. InFlight(u)' = InFlight(u)
      BY <1>1, <3>1, <3>2, InFlightKept
    <3> QED
      BY <1>6, <2>1, <2>3, <3>3
  <2> QED
    BY <2>2, <2>3
<1>10. /\ s \in Subs[r] /\ nsent[s] < MaxReqs
       /\ nsent' = [nsent EXCEPT ![s] = @ + 1]
       /\ Feed' = [u \in Clients |-> IF u \in Subs[r] /\ UserName[u] # UserName[s]
                                       THEN Append(Feed[u], m) ELSE Feed[u]]
       /\ Subs' = Subs /\ sentTo' = sentTo
  <2>1. Feed' = [u \in Clients |-> Feed'[u]]
    BY DEF Feed
  <2> QED
    BY <1>0, <1>6, <1>9, <2>1
<1>11. Chat!Publish(s, r)
  BY <1>10 DEF Chat!Publish, Chat!Users, Clients, Subs, Feed, m
<1> QED
  BY <1>11 DEF Chat!Next

(* The loop on the members moves the message from the broadcast to the queues: *)
(* no feed changes.                                                            *)
LEMMA AtomicEnqueue ==
  ASSUME ChatInv, ChatInv', NEW s \in Senders, NEW u \in Clients, BcastEnqueue(s, u)
  PROVE  UNCHANGED Chat!avars
<1> DEFINE m == CurrentMessage(s)
<1>0. /\ pc[s] = "enq" /\ u \in todo[s]
      /\ todo' = [todo EXCEPT ![s] = @ \ {u}]
      /\ UNCHANGED <<members, m_rooms, room, nsent, sentTo>>
      /\ m \in Messages
      /\ queue' = [queue EXCEPT ![u] = Append(@, m)]
      /\ \A v \in Clients : InHand(v)' = InHand(v)
  BY EnqueueStep DEF ChatInv
<1>1. /\ IInv /\ TodoOK /\ IInv' /\ TodoOK'
      /\ todo \in [Senders -> SUBSET Clients]
      /\ queue \in [Clients -> Seq(Messages)]
  BY DEF ChatInv, OrderInv, IInv, TypeOK
<1>2. \A t \in Senders : CurrentMessage(t)' = CurrentMessage(t)
  BY <1>0 DEF CurrentMessage
<1>3. ASSUME NEW v \in Clients, v # u
      PROVE  InFlight(v)' = InFlight(v) /\ queue'[v] = queue[v]
  <2>1. \A t \in Senders : v \in todo'[t] <=> v \in todo[t]
    BY <1>0, <1>1, <1>3
  <2>2. InFlight(v)' = InFlight(v)
    BY <1>1, <1>2, <2>1, InFlightKept
  <2> QED
    BY <1>0, <1>1, <1>3, <2>2
<1>4. InFlight(u) = <<m>> /\ InFlight(u)' = <<>>
  <2>1. InFlight(u) = <<m>>
    BY <1>0, <1>1, OneReaching DEF InFlightOne
  <2>2. ASSUME NEW t \in Senders PROVE u \notin todo'[t]
    <3>1. ASSUME u \in todo[t] PROVE t = s
      <4>1. <<CurrentMessage(t)>> = <<m>>
        BY <1>1, <2>1, <3>1, OneReaching DEF InFlightOne
      <4>2. CurrentMessage(t) = m
        BY <4>1
      <4> QED
        BY <4>2 DEF CurrentMessage, Message
    <3> QED
      BY <1>0, <1>1, <3>1
  <2>3. InFlightNone'
    BY NoneReaching, PTL
  <2> QED
    BY <2>1, <2>2, <2>3 DEF InFlightNone
<1> HIDE DEF m
<1>5. (InHand(u)' \o queue'[u]) \o InFlight(u)' = (InHand(u) \o queue[u]) \o InFlight(u)
  <2> DEFINE held == InHand(u)
             last == <<m>>
  <2>1. held \in Seq(Messages) /\ queue[u] \in Seq(Messages)
    BY <1>1, StreamType
  <2>2. last \in Seq(Messages)
    BY <1>0
  <2>3. queue'[u] = Append(queue[u], m)
    BY <1>0, <1>1
  <2>4. Append(queue[u], m) = queue[u] \o last
    BY <1>0, <2>1, AppendIsConcat
  <2>5. InHand(u)' = held /\ InFlight(u) = last /\ InFlight(u)' = <<>>
    BY <1>0, <1>4
  <2> HIDE DEF held, last
  <2>6. \A x, y, z \in Seq(Messages) : (x \o y) \o z = x \o (y \o z)
    BY ONLY ConcatAssociative
  <2>7. held \o (queue[u] \o last) = (held \o queue[u]) \o last
    BY <2>1, <2>2, <2>6
  <2>8. queue[u] \o last \in Seq(Messages)
    BY <2>1, <2>2, ConcatProperties
  <2>9. held \o (queue[u] \o last) \in Seq(Messages)
    BY <2>1, <2>8, ConcatProperties
  <2>10. (held \o (queue[u] \o last)) \o <<>> = held \o (queue[u] \o last)
    BY <2>9, ConcatEmptySeq
  <2>11. (held \o queue'[u]) \o <<>> = (held \o queue[u]) \o last
    BY <2>3, <2>4, <2>7, <2>10
  <2>12. (InHand(u)' \o queue'[u]) \o InFlight(u)' = (held \o queue[u]) \o last
    BY <2>5, <2>11
  <2> QED
    BY <2>5, <2>12 DEF held
<1>6. Feed' = Feed
  <2>1. ASSUME NEW v \in Clients
        PROVE  (InHand(v)' \o queue'[v]) \o InFlight(v)' = (InHand(v) \o queue[v]) \o InFlight(v)
    BY <1>0, <1>3, <1>5
  <2> QED
    BY <2>1 DEF Feed
<1>7. Subs' = Subs
  BY <1>0 DEF Subs
<1> QED
  BY <1>0, <1>6, <1>7 DEF Chat!avars, Subs, Feed

LEMMA AtomicDequeue ==
  ASSUME ChatInv, ChatInv', NEW u \in Receivers, Dequeue(u)
  PROVE  UNCHANGED Chat!avars
<1>0. UNCHANGED <<members, m_rooms, room, nsent, todo, sentTo>> /\ u \in Clients
  BY DEF Dequeue, serverVars, roomVars, frameVars, countVars, Clients
<1>1. /\ InHand(u) = <<>> /\ InHand(u)' \o queue'[u] = queue[u]
      /\ \A v \in Clients : v # u => InHand(v)' = InHand(v) /\ queue'[v] = queue[v]
  BY DequeueStep DEF ChatInv
<1>2. \A v \in Clients : InFlight(v)' = InFlight(v)
  BY <1>0, FeedOf
<1>3. InHand(u) \o queue[u] = queue[u]
  <2>1. queue[u] \in Seq(Messages)
    BY <1>0, StreamType DEF ChatInv
  <2> QED
    BY <1>1, <2>1, ConcatEmptySeq
<1>4. Feed' = Feed
  <2>1. ASSUME NEW v \in Clients
        PROVE  (InHand(v)' \o queue'[v]) \o InFlight(v)' = (InHand(v) \o queue[v]) \o InFlight(v)
    <3>1. CASE v = u
      BY <1>1, <1>2, <1>3, <3>1
    <3>2. CASE v # u
      BY <1>1, <1>2, <3>2
    <3> QED
      BY <3>1, <3>2
  <2> QED
    BY <2>1 DEF Feed
<1>5. Subs' = Subs
  BY <1>0 DEF Subs
<1> QED
  BY <1>0, <1>4, <1>5 DEF Chat!avars, Subs, Feed

LEMMA AtomicDeliver ==
  ASSUME ChatInv, ChatInv', NEW u \in Receivers, SendDelivery(u)
  PROVE  Chat!Next
<1>0. UNCHANGED <<members, m_rooms, room, nsent, todo>> /\ u \in Clients
  BY DEF SendDelivery, serverVars, roomVars, frameVars, countVars, Clients
<1>1. /\ hand[u] \in Messages /\ InHand(u) = <<hand[u]>> /\ InHand(u)' = <<>>
      /\ sentTo' = [sentTo EXCEPT ![u] = Append(@, hand[u])]
      /\ \A v \in Clients : v # u => InHand(v)' = InHand(v)
      /\ queue' = queue
  BY DeliveryStep DEF ChatInv
<1>2. \A v \in Clients : InFlight(v)' = InFlight(v)
  BY <1>0, FeedOf
<1>3. queue[u] \in Seq(Messages) /\ InFlight(u) \in Seq(Messages)
  BY <1>0, StreamType, InFlightType DEF ChatInv, OrderInv
<1>4. Feed[u] = (<<hand[u]>> \o queue[u]) \o InFlight(u)
  BY <1>0, <1>1 DEF Feed
<1>5. /\ Feed[u] # <<>> /\ Head(Feed[u]) = hand[u]
      /\ Tail(Feed[u]) = queue[u] \o InFlight(u)
  <2>1. \A h \in Messages : \A q, f \in Seq(Messages) :
          /\ (<<h>> \o q) \o f # <<>> /\ Head((<<h>> \o q) \o f) = h
          /\ Tail((<<h>> \o q) \o f) = q \o f
    BY FirstAndRest
  <2> DEFINE all == (<<hand[u]>> \o queue[u]) \o InFlight(u)
  <2>2. all # <<>> /\ Head(all) = hand[u] /\ Tail(all) = queue[u] \o InFlight(u)
    BY <1>1, <1>3, <2>1, Zenon
  <2>3. Feed[u] = all
    BY <1>4
  <2> HIDE DEF all
  <2> QED
    BY <2>2, <2>3
<1>6. Feed' = [Feed EXCEPT ![u] = Tail(Feed[u])]
  <2>1. ASSUME NEW v \in Clients
        PROVE  Feed'[v] = IF v = u THEN Tail(Feed[u]) ELSE Feed[v]
    <3>0. /\ Feed'[v] = (InHand(v)' \o queue'[v]) \o InFlight(v)'
          /\ Feed[v] = (InHand(v) \o queue[v]) \o InFlight(v)
      BY DEF Feed
    <3>1. CASE v = u
      <4>1. <<>> \o queue[u] = queue[u]
        BY <1>3, ConcatEmptySeq
      <4> QED
        BY <1>1, <1>2, <1>5, <3>0, <3>1, <4>1
    <3>2. CASE v # u
      BY <1>1, <1>2, <3>0, <3>2
    <3> QED
      BY <3>1, <3>2
  <2>2. /\ Feed' = [v \in Clients |-> Feed'[v]]
        /\ Feed = [v \in Clients |-> Feed[v]]
    BY DEF Feed
  <2> QED
    BY <2>1, <2>2
<1>7. Subs' = Subs
  BY <1>0 DEF Subs
<1>8. sentTo' = [sentTo EXCEPT ![u] = Append(@, Head(Feed[u]))]
  BY <1>1, <1>5
<1>9. Chat!Deliver(u)
  BY <1>0, <1>5, <1>6, <1>7, <1>8 DEF Chat!Deliver, Subs, Feed
<1> QED
  BY <1>9 DEF Chat!Next
-----------------------------------------------------------------------------
LEMMA AtomicStep ==
  ChatInv /\ ChatInv' /\ [Next]_vars => [Chat!Next]_Chat!avars
<1> SUFFICES ASSUME ChatInv, ChatInv', [Next]_vars
             PROVE  Chat!Next \/ UNCHANGED Chat!avars
  OBVIOUS
<1>1. IInv
  BY DEF ChatInv
<1> QED
  BY <1>1, StepKinds, AtomicStutter, AtomicSubscribe, AtomicUnsubscribe,
     AtomicPublish, AtomicEnqueue, AtomicDequeue, AtomicDeliver

(* The chat server implements AtomicChat, for any clients, names and rooms: to *)
(* the users a broadcast (room.cpp:29) is one instant, whatever the workers of *)
(* server.cpp do between its steps.                                            *)
THEOREM ServerIsAtomicChat == Spec => ImplementsAtomicChat
<1>1. Init => Chat!Init
  BY AtomicInit
<1>2. ChatInv /\ ChatInv' /\ [Next]_vars => [Chat!Next]_Chat!avars
  BY AtomicStep
<1>3. Spec => []ChatInv
  BY OrderInvariance, PTL DEF ChatInv
<1> QED
  BY <1>1, <1>2, <1>3, PTL DEF Spec, ImplementsAtomicChat, Chat!Spec
=============================================================================
