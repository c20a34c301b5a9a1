------------------------------ MODULE Session ------------------------------
(***************************************************************************)
(* The whole chat system seen from its users: one sender client            *)
(* (sender.cpp), one receiver client (receiver.cpp), a connection for each *)
(* and the worker that serves it, over the server of AtomicChat, which     *)
(* ChatServer implements.                                                  *)
(*                                                                         *)
(* A message is one line of at most MAX_LEN characters; Framing has its    *)
(* characters.  Here a line has a length: one that does not fit the buffer *)
(* of Connection::receive is read in parts, and each part is a message.  A *)
(* text is a stretch of the line typed: where it begins and its length.    *)
(* What a part that begins inside a text says is up to the text: Reads.    *)
(*                                                                         *)
(* MaxCmds bounds the lines the user types, MaxSignals the interrupts.     *)
(***************************************************************************)
EXTENDS Integers, Sequences, FiniteSets

CONSTANTS
  Sender, Receiver,     \* the clients
  RoomNames, RoomName,  \* the rooms; the one on the receiver's command line
  Texts, TextLen,       \* what the user types to be sent, and its length
  Reads,                \* Reads[t][n]: how t reads from its n-th character on: the
                        \* characters up to the first colon and with it, the tag
                        \* before it and the room behind it; no tag without a colon
  Tags,                 \* the tags that texts read as, among them ""
  NamesLen,             \* the lengths of RoomName and the user name together
  MAX_LEN,
  MaxCmds, MaxSignals,
  MaxPublished          \* at least the number of lines that can be sent

Clients == {Sender, Receiver}

\* currentRoomName is empty until the user names a room.
Names == RoomNames \cup {""}

\* Only texts can make a line too long.
ASSUME SessionAssumption ==
  /\ Sender # Receiver /\ RoomName \in RoomNames /\ "" \notin RoomNames
  /\ TextLen \in [Texts \cup {""} -> Nat] /\ TextLen[""] = 0
  /\ "" \in Tags /\ DOMAIN Reads = Texts \cup {""}
  /\ \A t \in Texts \cup {""} :
       Reads[t] \in [0..TextLen[t] -> [tag : Tags, room : Names, skip : Nat]]
  /\ NamesLen \in Nat /\ MAX_LEN \in Nat /\ MaxCmds \in Nat /\ MaxSignals \in Nat
  /\ 12 + NamesLen < MAX_LEN

VARIABLES
  pc,        \* pc[c]: where the client is
  running,   \* running[c]: still_running
  currentRoomName,
  msg,       \* "wild" while the pointer msg of the sender is uninitialised
  stdin,     \* the input of the sender is "open" or at "eof"
  conn,      \* conn[c]: "none", "open", "closed" by the client, or "reset"
  toServer, toClient,  \* [c]: the lines in transit, as they will be received
  up,        \* the server process is running
  w,         \* w[c]: where the worker of c is
  subs, feed, delivered, published,  \* the server: AtomicChat
  text,      \* text[n]: the text of the n-th message published, and its line
  typed,     \* history: typed[n]: the n-th request the sender made of its worker
  lines,     \* history: the lines that its requests are read as, one after another
  answers,   \* history: answers[n]: the line whose reply it took for that of n
  printed,   \* the texts the receiver has printed, and the lines they came in
  ncmd, signals, faults  \* bounds: lines typed, interrupts, resets

clientVars == <<pc, running, currentRoomName, msg, stdin>>
netVars == <<conn, toServer, toClient>>
chatVars == <<subs, feed, delivered, published>>
history == <<typed, lines, answers, printed>>
bounds == <<ncmd, signals, faults>>
vars == <<clientVars, netVars, up, w, chatVars, text, history, bounds>>

Chat == INSTANCE AtomicChat WITH
  Senders <- {Sender}, Receivers <- {Receiver}, RoomNames <- Names,
  UserName <- [c \in Clients |-> c], MaxReqs <- MaxPublished

Init ==
  /\ pc = [c \in Clients |-> "start"]
  /\ running = [c \in Clients |-> FALSE]
  /\ currentRoomName = "" /\ msg = "wild" /\ stdin = "open"
  /\ conn = [c \in Clients |-> "none"]
  /\ toServer = [c \in Clients |-> <<>>] /\ toClient = [c \in Clients |-> <<>>]
  /\ up = TRUE /\ w = [c \in Clients |-> "none"]
  /\ Chat!Init /\ text = <<>>
  /\ typed = <<>> /\ lines = <<>> /\ answers = <<>> /\ printed = <<>>
  /\ ncmd = 0 /\ signals = 0 /\ faults = 0

-----------------------------------------------------------------------------
(* Lines. *)

Text(t) == [of |-> t, from |-> 0, len |-> TextLen[t]]

\* A Message: it is a part of the request, or of the delivery, with the number for.
Message(tag, room, t, n) == [tag |-> tag, room |-> room, text |-> t, for |-> n, part |-> 1]

\* The characters before the text: tag, colons and names.  A text is all that is
\* counted of a line; the others are short.
Header(tag) == CASE tag = "sendall" -> 8 [] tag = "delivery" -> 11 + NamesLen [] OTHER -> 0

\* With the newline.
Length(m) == Header(m.tag) + m.text.len + 1

TooLong(m) == Length(m) >= MAX_LEN

\* The buffer has place for so many characters, and a line needs so many buffers.
Place == MAX_LEN - 1
Parts(m) == (Length(m) + Place - 1) \div Place

\* What follows the first part of a line: its tag is what stands before its first
\* colon, and it has none without a colon.
Rest(m, j) ==
  LET cut == (j - 1) * Place - Header(m.tag)
      left == m.text.len - cut
      len == IF left < Place THEN left ELSE Place
      from == m.text.from + cut
      read == Reads[m.text.of][from]
      skip == IF read.skip <= len THEN read.skip ELSE 0
  IN  [tag |-> IF read.skip <= len THEN read.tag ELSE "", room |-> read.room,
       text |-> [of |-> m.text.of, from |-> from + skip, len |-> len - skip],
       for |-> m.for, part |-> j]

First(m) == [m EXCEPT !.text.len = IF Length(m) <= Place THEN @ ELSE Place - Header(m.tag)]

\* What successive calls of receive make of one line.
Lines(m) == [j \in 1..Parts(m) |-> IF j = 1 THEN First(m) ELSE Rest(m, j)]

\* Which line a message is.
Id(m) == [for |-> m.for, part |-> m.part]
NoReply == [for |-> 0, part |-> 0]
Ids(m) == [j \in 1..Parts(m) |-> [for |-> m.for, part |-> j]]

ASSUME PublishedAssumption ==
  \A t \in Texts : MaxCmds * Parts(Message("sendall", "", Text(t), 1)) <= MaxPublished

\* A write to a connection that is gone fails, and its result is ignored.
Send(c, m) ==
  toServer' = [toServer EXCEPT ![c] =
                 IF up /\ conn[c] = "open" /\ w[c] # "done" THEN @ \o Lines(m) ELSE @]

Reply(c, m) ==
  toClient' = [toClient EXCEPT ![c] = IF conn[c] = "open" THEN @ \o Lines(m) ELSE @]

Goto(c, from, to) == pc[c] = from /\ pc' = [pc EXCEPT ![c] = to]

Ended(c) == pc[c] \in {"done", "exited", "ub"}
-----------------------------------------------------------------------------
(* The connections. *)

\* The server has closed its end of a connection.
Left(c) == ~up \/ w[c] = "done"

\* The end of file: nothing is left to read.
AtEof(c) == conn[c] = "open" /\ toClient[c] = <<>> /\ Left(c)

\* close.  It resets the connection if lines are unread that have arrived, unless
\* they are in the buffer of rio already.
CloseWith(c, unread) ==
  \E fate \in IF unread = <<>> THEN {"closed"} ELSE {"closed", "reset"} :
    conn' = [conn EXCEPT ![c] = IF @ = "open" THEN fate ELSE @]
Close(c) == CloseWith(c, toClient[c])

\* The network gives up: lines that have arrived can be read, others are lost.
Reset(c) ==
  /\ conn[c] = "open" /\ faults = 0
  /\ faults' = 1
  /\ conn' = [conn EXCEPT ![c] = "reset"]
  /\ \E rest \in {<<>>, toServer[c]} : toServer' = [toServer EXCEPT ![c] = rest]
  /\ \E rest \in {<<>>, toClient[c]} : toClient' = [toClient EXCEPT ![c] = rest]
  /\ UNCHANGED <<clientVars, up, w, chatVars, text, history, ncmd, signals>>

Reading(c) == pc[c] \in {"login", "join", "recv", "await", "quitting"}

\* A read of a client that fails: Rio_readlineb exits.  A server that closes with
\* lines unread may reset the connection.
ReadFails(c) ==
  /\ Reading(c) /\ toClient[c] = <<>>
  /\ conn[c] = "reset" \/ (Left(c) /\ toServer[c] # <<>>)
  /\ pc' = [pc EXCEPT ![c] = "exited"]
  /\ UNCHANGED <<running, currentRoomName, msg, stdin, netVars, up, w, chatVars, text,
                 history, bounds>>

\* The same in the worker ends the server.
WorkerReadFails(c) ==
  /\ up /\ conn[c] = "reset" /\ toServer[c] = <<>>
  /\ w[c] \in {"login", "join", "recv"}
  /\ up' = FALSE
  /\ UNCHANGED <<clientVars, netVars, w, chatVars, text, history, bounds>>
-----------------------------------------------------------------------------
(* Both clients: the connection, the login, still_running. *)

\* connect exits when there is no server.
Connect(c) ==
  /\ Goto(c, "start", IF up THEN "login" ELSE "exited")
  /\ IF up THEN /\ conn' = [conn EXCEPT ![c] = "open"]
                /\ toServer' = [toServer EXCEPT ![c] =
                     <<Message(IF c = Sender THEN "slogin" ELSE "rlogin", "", Text(""), 0)>>]
                /\ w' = [w EXCEPT ![c] = "login"]
     ELSE UNCHANGED <<conn, toServer, w>>
  /\ UNCHANGED <<running, currentRoomName, msg, stdin, toClient, up, chatVars, text,
                 history, bounds>>

\* The receiver sends its join when it has the response to its login, and returns
\* 1 when it cannot.
LoginAnswered(c) ==
  /\ toClient[c] # <<>>
  /\ Goto(c, "login", CASE c = Sender -> "begin"
                        [] c # Sender /\ conn[c] = "reset" -> "done"
                        [] OTHER -> "join")
  /\ toClient' = [toClient EXCEPT ![c] = Tail(@)]
  /\ IF c = Sender THEN UNCHANGED toServer
     ELSE Send(c, Message("join", RoomName, Text(""), 0))
  /\ UNCHANGED <<running, currentRoomName, msg, stdin, conn, up, w, chatVars, text,
                 history, bounds>>

JoinAnswered ==
  /\ toClient[Receiver] # <<>>
  /\ Goto(Receiver, "join", "begin")
  /\ toClient' = [toClient EXCEPT ![Receiver] = Tail(@)]
  /\ UNCHANGED <<running, currentRoomName, msg, stdin, conn, toServer, up, w, chatVars,
                 text, history, bounds>>

\* No response: the client closes and returns 1.
LoginFails(c) ==
  /\ pc[c] \in {"login", "join"} /\ AtEof(c)
  /\ pc' = [pc EXCEPT ![c] = "done"]
  /\ Close(c)
  /\ UNCHANGED <<running, currentRoomName, msg, stdin, toServer, toClient, up, w,
                 chatVars, text, history, bounds>>

\* still_running = true forgets an interrupt that came before.
Begin(c) ==
  /\ Goto(c, "begin", "test")
  /\ running' = [running EXCEPT ![c] = TRUE]
  /\ UNCHANGED <<currentRoomName, msg, stdin, netVars, up, w, chatVars, text, history,
                 bounds>>

\* The condition of the loop.  After it msg is deleted, which is undefined when
\* no message was ever made.
Test(c) ==
  /\ IF running[c]
       THEN Goto(c, "test", IF c = Sender THEN "getline" ELSE "recv") /\ UNCHANGED conn
       ELSE /\ Goto(c, "test", IF c = Sender /\ msg = "wild" THEN "ub" ELSE "done")
            /\ Close(c)
  /\ UNCHANGED <<running, currentRoomName, msg, stdin, toServer, toClient, up, w,
                 chatVars, text, history, bounds>>

\* Mistake: the read is not restarted after the handler, and the loop is left.
InterruptReading(c) ==
  /\ ~Ended(c) /\ signals < MaxSignals
  /\ running' = [running EXCEPT ![c] = FALSE]
  /\ pc' = [pc EXCEPT ![c] = IF pc[c] = "await" THEN "test" ELSE @]
  /\ signals' = signals + 1
  /\ UNCHANGED <<currentRoomName, msg, stdin, netVars, up, w, chatVars, text, history,
                 ncmd, faults>>

\* sigintHandler.  A read that it interrupts is restarted.
Interrupt(c) ==
  /\ ~Ended(c) /\ signals < MaxSignals
  /\ running' = [running EXCEPT ![c] = FALSE]
  /\ signals' = signals + 1
  /\ UNCHANGED <<pc, currentRoomName, msg, stdin, netVars, up, w, chatVars, text,
                 history, ncmd, faults>>
-----------------------------------------------------------------------------
(* sender.cpp: the loop over the commands of the user. *)

\* A new Message is sent, and its reply is waited for.
SendMessage(m) ==
  /\ Goto(Sender, "getline", "await")
  /\ msg' = "built"
  /\ typed' = Append(typed, m) /\ lines' = lines \o Ids(m)
  /\ Send(Sender, m)
  /\ UNCHANGED <<running, conn, toClient, up, w, chatVars, text, answers, printed,
                 signals, faults>>

NextNumber == Len(typed) + 1

Line == ncmd < MaxCmds /\ ncmd' = ncmd + 1

\* "/join" with a room, or with none: then currentRoomName is what it was.
TypeJoin(r) ==
  /\ Line /\ stdin = "open"
  /\ currentRoomName' = r
  /\ SendMessage(Message("join", r, Text(""), NextNumber))
  /\ UNCHANGED stdin

TypeLeave ==
  /\ Line /\ stdin = "open"
  /\ SendMessage(Message("leave", "", Text(""), NextNumber))
  /\ UNCHANGED <<currentRoomName, stdin>>

TypeText(t) ==
  /\ Line /\ stdin = "open"
  /\ SendMessage(Message("sendall", "", Text(t), NextNumber))
  /\ UNCHANGED <<currentRoomName, stdin>>

\* The result of getline is not tested: at the end of its input the sender sends
\* an empty text, each time round the loop.
TypeEof ==
  /\ Line /\ stdin' = "eof"
  /\ SendMessage(Message("sendall", "", Text(""), NextNumber))
  /\ UNCHANGED currentRoomName

\* A first word with a '/' that is none of the commands.
TypeUndefined ==
  /\ Line /\ stdin = "open"
  /\ Goto(Sender, "getline", "test")
  /\ UNCHANGED <<running, currentRoomName, msg, stdin, netVars, up, w, chatVars, text,
                 history, signals, faults>>

TypeQuit ==
  /\ Line /\ stdin = "open"
  /\ Goto(Sender, "getline", "quitting")
  /\ Send(Sender, Message("quit", "", Text(""), NextNumber))
  /\ UNCHANGED <<running, currentRoomName, msg, stdin, conn, toClient, up, w, chatVars,
                 text, history, signals, faults>>

Getline ==
  \/ \E r \in RoomNames \cup {currentRoomName} : TypeJoin(r)
  \/ \E t \in Texts : TypeText(t)
  \/ TypeLeave \/ TypeEof \/ TypeUndefined \/ TypeQuit

\* The next line is taken for the reply, ok or err; without one the loop goes on.
Answer ==
  /\ Goto(Sender, "await", "test")
  /\ \/ /\ toClient[Sender] # <<>>
        /\ answers' = Append(answers, Id(Head(toClient[Sender])))
        /\ toClient' = [toClient EXCEPT ![Sender] = Tail(@)]
     \/ /\ AtEof(Sender)
        /\ answers' = Append(answers, NoReply)
        /\ UNCHANGED toClient
  /\ UNCHANGED <<running, currentRoomName, msg, stdin, conn, toServer, up, w, chatVars,
                 text, typed, lines, printed, bounds>>

\* Whatever the reply, the connection is closed and msg deleted.
QuitAnswered ==
  /\ Goto(Sender, "quitting", IF msg = "wild" THEN "ub" ELSE "done")
  /\ \/ /\ toClient[Sender] # <<>>
        /\ toClient' = [toClient EXCEPT ![Sender] = Tail(@)]
     \/ AtEof(Sender) /\ UNCHANGED toClient
  /\ CloseWith(Sender, toClient'[Sender])
  /\ UNCHANGED <<running, currentRoomName, msg, stdin, toServer, up, w, chatVars, text,
                 history, bounds>>
-----------------------------------------------------------------------------
(* receiver.cpp: the loop over the deliveries. *)

Received(messages) ==
  /\ Goto(Receiver, "recv", "test")
  /\ printed' = printed \o messages
  /\ UNCHANGED <<running, currentRoomName, msg, stdin, conn, toServer, up, w, chatVars,
                 text, typed, lines, answers, bounds>>

TakeLine == /\ toClient[Receiver] # <<>>
            /\ toClient' = [toClient EXCEPT ![Receiver] = Tail(@)]

\* Of a part that reads as a delivery, text is all that follows the tag.
Shows(m) == [text |-> m.text, for |-> m.for, part |-> m.part]

\* Mistake: a line without a tag is taken for a delivery too.
RecvUntested == TakeLine /\ Received(<<Shows(Head(toClient[Receiver]))>>)

\* At the end of file receive fails at once, each time round the loop.
Recv ==
  \/ LET m == Head(toClient[Receiver])
     IN  TakeLine /\ Received(IF m.tag = "delivery" THEN <<Shows(m)>> ELSE <<>>)
  \/ AtEof(Receiver) /\ UNCHANGED toClient /\ Received(<<>>)
-----------------------------------------------------------------------------
(* server.cpp: the worker of the sender, a line at a time. *)

InRoom(r) == Sender \in subs[r]

\* The worker of c takes the first line, and goes on at to.
Takes(c, from, to) ==
  /\ up /\ w[c] = from /\ toServer[c] # <<>>
  /\ toServer' = [toServer EXCEPT ![c] = Tail(@)]
  /\ w' = [w EXCEPT ![c] = to]
  /\ UNCHANGED <<clientVars, conn, up, history, bounds>>

Line1(c) == Head(toServer[c])

Ack(c, status) ==
  Reply(c, [Line1(c) EXCEPT !.tag = status, !.room = "", !.text = Text("")])

\* Without a connection for the response the worker ends.
WLogin(c) ==
  /\ Takes(c, "login", IF conn[c] = "reset" THEN "done"
                       ELSE IF c = Sender THEN "recv" ELSE "join")
  /\ Ack(c, "ok")
  /\ UNCHANGED <<chatVars, text>>

\* Mistake: leaving the old room is answered too.
WLeaveForJoinAnswered ==
  /\ up /\ w[Sender] = "recv" /\ toServer[Sender] # <<>>
  /\ Line1(Sender).tag = "join"
  /\ \E r \in Names : InRoom(r) /\ Chat!Unsubscribe(Sender, r)
  /\ Ack(Sender, "ok")
  /\ UNCHANGED <<clientVars, conn, toServer, up, w, text, history, bounds>>

\* A sender in a room leaves it first; in between it is in none.
WLeaveForJoin ==
  /\ up /\ w[Sender] = "recv" /\ toServer[Sender] # <<>>
  /\ Line1(Sender).tag = "join"
  /\ \E r \in Names : InRoom(r) /\ Chat!Unsubscribe(Sender, r)
  /\ UNCHANGED <<clientVars, netVars, up, w, text, history, bounds>>

WJoin ==
  /\ Takes(Sender, "recv", "recv")
  /\ Line1(Sender).tag = "join"
  /\ Chat!Subscribe(Sender, Line1(Sender).room)
  /\ Ack(Sender, "ok")
  /\ UNCHANGED text

WLeave ==
  /\ Takes(Sender, "recv", "recv")
  /\ Line1(Sender).tag = "leave"
  /\ \E r \in Names : InRoom(r) /\ Chat!Unsubscribe(Sender, r)
  /\ Ack(Sender, "ok")
  /\ UNCHANGED text

WSendall ==
  /\ Takes(Sender, "recv", "recv")
  /\ Line1(Sender).tag = "sendall"
  /\ \E r \in Names : InRoom(r) /\ Chat!Publish(Sender, r)
  /\ text' = Append(text, Shows(Line1(Sender)))
  /\ Ack(Sender, "ok")

\* leave and sendall outside a room, and a line with any other tag or none.
Refused(m) ==
  \/ m.tag \in {"leave", "sendall"} /\ \A r \in Names : ~InRoom(r)
  \/ m.tag \notin {"join", "leave", "sendall", "quit"}

\* Mistake: what is refused is not answered.
WRefuseSilently ==
  /\ Takes(Sender, "recv", "recv")
  /\ Refused(Line1(Sender))
  /\ UNCHANGED <<toClient, chatVars, text>>

WRefuse ==
  /\ Takes(Sender, "recv", "recv")
  /\ Refused(Line1(Sender))
  /\ Ack(Sender, "err")
  /\ UNCHANGED <<chatVars, text>>

\* The sender stays a member of its room.
WQuit ==
  /\ Takes(Sender, "recv", "done")
  /\ Line1(Sender).tag = "quit"
  /\ Ack(Sender, "ok")
  /\ UNCHANGED <<chatVars, text>>
-----------------------------------------------------------------------------
(* server.cpp: the worker of the receiver. *)

RWJoin ==
  /\ Takes(Receiver, "join", "loop")
  /\ Chat!Subscribe(Receiver, Line1(Receiver).room)
  /\ Ack(Receiver, "ok")
  /\ UNCHANGED text

Delivery ==
  LET d == Head(feed[Receiver])
  IN  Message("delivery", d.room, text[d.n].text, Len(delivered[Receiver]) + 1)

\* Mistake: a delivery that is too long for a line is not sent.
RWSendShort ==
  /\ up /\ w[Receiver] = "loop"
  /\ Chat!Deliver(Receiver)
  /\ IF TooLong(Delivery) THEN UNCHANGED toClient ELSE Reply(Receiver, Delivery)
  /\ UNCHANGED <<clientVars, conn, toServer, up, w, text, history, bounds>>

\* The result of send is ignored.
RWSend ==
  /\ up /\ w[Receiver] = "loop"
  /\ Chat!Deliver(Receiver)
  /\ Reply(Receiver, Delivery)
  /\ UNCHANGED <<clientVars, conn, toServer, up, w, text, history, bounds>>
-----------------------------------------------------------------------------
Client(c) ==
  \/ LoginAnswered(c) \/ LoginFails(c) \/ ReadFails(c) \/ Begin(c) \/ Test(c)
  \/ c = Sender /\ (Answer \/ QuitAnswered)
  \/ c = Receiver /\ (JoinAnswered \/ Recv)

Worker(c) ==
  \/ WLogin(c) \/ WorkerReadFails(c)
  \/ c = Sender /\ (WLeaveForJoin \/ WJoin \/ WLeave \/ WSendall \/ WRefuse \/ WQuit)
  \/ c = Receiver /\ (RWJoin \/ RWSend)

Next ==
  \/ \E c \in Clients : Client(c) \/ Worker(c)
  \/ \E c \in Clients : Connect(c) \/ Interrupt(c) \/ Reset(c)
  \/ Getline

Spec == Init /\ [][Next]_vars

\* A process that can go on does.  Nobody has to start a client, type or interrupt.
FairSpec == Spec /\ \A c \in Clients : WF_vars(Client(c)) /\ WF_vars(Worker(c))
-----------------------------------------------------------------------------
\* What arrives of a text that is sent on to a receiver.
Shown(t) == [t EXCEPT !.len = IF 12 + NamesLen + @ >= MAX_LEN
                              THEN MAX_LEN - NamesLen - 12 ELSE @]

\* The requests up to the n-th that were read as more than one line.
Split(n) == {i \in 1..n : TooLong(typed[i])}

Before(a, b) == a.for < b.for \/ (a.for = b.for /\ a.part < b.part)

\* What stands at the beginning of the j-th part of the delivery of t.
CutAt(t, j) == t.from + (j - 1) * (MAX_LEN - 1) - (NamesLen + 11)

(* The receiver shows every message published in its room, in this order:      *)
(* stretches of texts the user has typed, each with all that a line of MAX_LEN *)
(* characters can take.  What else it shows is what follows in a line that was *)
(* cut, and only where this itself begins with the tag of a delivery.          *)
ScreenShowsDeliveries ==
  \A k \in DOMAIN printed :
    LET n == printed[k].for
        j == printed[k].part
        deliveries == delivered[Receiver]
        sent == text[deliveries[n].n]
        rest == Reads[sent.text.of][CutAt(sent.text, j)]
    IN  /\ n \in DOMAIN deliveries
        /\ typed[sent.for].tag = "sendall" /\ sent.text.of = typed[sent.for].text.of
        /\ n > 1 => Before(text[deliveries[n - 1].n], sent)
        /\ \/ j = 1 /\ printed[k].text = Shown(sent.text)
              /\ n = IF k = 1 THEN 1 ELSE printed[k - 1].for + 1
           \/ j > 1 /\ rest.tag = "delivery"
              /\ printed[k].text.of = sent.text.of
              /\ printed[k].text.from = CutAt(sent.text, j) + rest.skip
              /\ k > 1 /\ printed[k - 1].for = n /\ printed[k - 1].part < j

(* The k-th reply that a sender takes is that of the k-th line its requests     *)
(* were read as, or there is none after the connection has ended.  It is the   *)
(* reply to the k-th request as long as no request before was too long for a   *)
(* line, and after that never again: each part of it has a reply.              *)
RepliesInStep ==
  \A k \in DOMAIN answers :
    \/ \A i \in k..Len(answers) : answers[i] = NoReply
    \/ /\ k \in DOMAIN lines /\ answers[k] = lines[k]
       /\ answers[k].for = k <=> Split(k - 1) = {}

(* The server ends only when a connection is reset under a worker that reads:   *)
(* by the network, or by a sender that ends with a reply unread, which happens *)
(* only after a line that was too long.  No interrupt does it.                 *)
ServerSurvives == ~up => faults > 0 \/ Split(Len(typed)) # {}

(* A sender that is interrupted while it waits for a reply, or before it tests *)
(* still_running, ends: the reply comes, or the end of the connection.         *)
InterruptObeyed ==
  ~running[Sender] /\ pc[Sender] \in {"await", "test"} ~> Ended(Sender)

(* What the worker has taken from the feed of a receiver is printed, unless    *)
(* the receiver ends.                                                          *)
DeliveredIsPrinted ==
  LET Behind == printed = <<>> \/ printed[Len(printed)].for < Len(delivered[Receiver])
  IN  delivered[Receiver] # <<>> /\ Behind ~> ~Behind \/ Ended(Receiver)
=============================================================================
