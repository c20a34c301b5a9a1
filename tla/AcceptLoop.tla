----------------------------- MODULE AcceptLoop -----------------------------
(***************************************************************************)
(* The life of the server process of csf_assign05, its descriptors and its *)
(* server_connection objects: server_main.cpp, open_listenfd,              *)
(* handle_client_requests, and the frame of worker around the              *)
(* conversation that ChatServer has.  Clients walk their list of addresses *)
(* (open_clientfd), say one line and may close or be reset at any moment.  *)
(*                                                                         *)
(* MaxFds is the limit of open descriptors, without those of standard      *)
(* input and output; MaxFaults bounds the failures of system calls and the *)
(* resets.                                                                 *)
(***************************************************************************)
EXTENDS Naturals, Sequences, FiniteSets

CONSTANTS Clients, MaxFds, Addrs, MaxFaults, None

ASSUME LoopAssumption ==
  /\ IsFiniteSet(Clients) /\ MaxFds \in Nat \ {0} /\ Addrs \in Nat /\ MaxFaults \in Nat
  /\ None \notin Clients /\ "listener" \notin Clients /\ None # "listener"

Numbers == 1..MaxFds

VARIABLES
  main,     \* where main is: socket, bind, listen, accept, create, or ended
  addr,     \* open_listenfd: the address tried, then the one that is bound
  ssock,    \* listenfd, then m_ssock
  open,     \* open[n]: what the descriptor n stands for, or None
  connfd,   \* main: the descriptor accepted
  info,     \* info[c]: the server_connection of c is "none", "live" or "freed"
  conn_fd,  \* conn_fd[c]: the connfd in the server_connection of c, till it is read
  pc,       \* pc[c]: where the worker of c is
  m_fd,     \* m_fd[c]: the descriptor in the Connection of that worker, 0 for -1
  backlog,  \* the clients to be accepted
  client,   \* client[c]: "trying", "open", "closed", "reset", or "failed"
  try,      \* try[c]: the address that c tries
  refused,  \* accept has failed by an error of the kernel or a signal
  faults

serverVars == <<main, addr, ssock, connfd>>
heapVars == <<open, info, conn_fd, m_fd>>
clientVars == <<client, try>>
accidents == <<refused, faults>>
vars == <<serverVars, heapVars, pc, backlog, clientVars, accidents>>

Init ==
  /\ main = "socket" /\ addr = 1 /\ ssock = 0 /\ connfd = 0
  /\ open = [n \in Numbers |-> None]
  /\ info = [c \in Clients |-> "none"] /\ conn_fd = [c \in Clients |-> 0]
  /\ pc = [c \in Clients |-> "none"] /\ m_fd = [c \in Clients |-> 0]
  /\ backlog = <<>>
  /\ client = [c \in Clients |-> "trying"] /\ try = [c \in Clients |-> 1]
  /\ refused = FALSE /\ faults = 0

Free == {n \in Numbers : open[n] = None}

Fault == faults < MaxFaults /\ faults' = faults + 1

Listening == main \in {"accept", "create"}

Main(from, to) == main = from /\ main' = to
-----------------------------------------------------------------------------
(* open_listenfd, Server::listen and main. *)

Socket ==
  /\ addr <= Addrs
  /\ \E n \in Free :
       /\ Main("socket", "bind")
       /\ ssock' = n
       /\ open' = [open EXCEPT ![n] = "listener"]
  /\ UNCHANGED <<addr, connfd, info, conn_fd, m_fd, pc, backlog, clientVars, accidents>>

SocketFails ==
  /\ addr <= Addrs
  /\ Main("socket", "socket")
  /\ addr' = addr + 1
  /\ Fault
  /\ UNCHANGED <<ssock, connfd, heapVars, pc, backlog, clientVars, refused>>

Bind ==
  /\ Main("bind", "listen")
  /\ UNCHANGED <<addr, ssock, connfd, heapVars, pc, backlog, clientVars, accidents>>

\* The descriptor is closed and the next address tried.
BindFails ==
  /\ Main("bind", "socket")
  /\ open' = [open EXCEPT ![ssock] = None]
  /\ ssock' = 0
  /\ addr' = addr + 1
  /\ Fault
  /\ UNCHANGED <<connfd, info, conn_fd, m_fd, pc, backlog, clientVars, refused>>

Listen ==
  /\ Main("listen", "accept")
  /\ UNCHANGED <<addr, ssock, connfd, heapVars, pc, backlog, clientVars, accidents>>

ListenFails ==
  /\ Main("listen", "ended")
  /\ open' = [open EXCEPT ![ssock] = None]
  /\ ssock' = 0
  /\ Fault
  /\ UNCHANGED <<addr, connfd, info, conn_fd, m_fd, pc, backlog, clientVars, refused>>

\* No address worked: main returns 1.
NoAddress ==
  /\ addr > Addrs
  /\ Main("socket", "ended")
  /\ UNCHANGED <<addr, ssock, connfd, heapVars, pc, backlog, clientVars, accidents>>
-----------------------------------------------------------------------------
(* Server::handle_client_requests. *)

\* A server_connection and what it holds.
Delete(c) ==
  /\ info' = [info EXCEPT ![c] = "freed"]
  /\ conn_fd' = [conn_fd EXCEPT ![c] = 0]

\* accept gives a number that is free; a server_connection is made for it.
Accept ==
  /\ backlog # <<>>
  /\ \E n \in Free :
       /\ Main("accept", "create")
       /\ connfd' = n
       /\ open' = [open EXCEPT ![n] = Head(backlog)]
       /\ conn_fd' = [conn_fd EXCEPT ![Head(backlog)] = n]
  /\ info' = [info EXCEPT ![Head(backlog)] = "live"]
  /\ backlog' = Tail(backlog)
  /\ UNCHANGED <<addr, ssock, m_fd, pc, clientVars, accidents>>

\* With no descriptor left, or an aborted connection, Accept exits.
AcceptFails ==
  /\ Free = {} \/ (backlog # <<>> /\ client[Head(backlog)] = "reset")
  /\ Main("accept", "ended")
  /\ UNCHANGED <<addr, ssock, connfd, heapVars, pc, backlog, clientVars, accidents>>

\* accept fails for another reason (ENFILE, ENOBUFS, ENOMEM, EINTR): Accept exits.
AcceptRefused ==
  /\ Main("accept", "ended")
  /\ refused' = TRUE
  /\ Fault
  /\ UNCHANGED <<addr, ssock, connfd, heapVars, pc, backlog, clientVars>>

\* Mistake: server_conn is deleted although the thread has it.
CreateDeletes ==
  /\ Main("create", "accept")
  /\ pc' = [pc EXCEPT ![open[connfd]] = "start"]
  /\ Delete(open[connfd])
  /\ connfd' = 0
  /\ UNCHANGED <<addr, ssock, open, m_fd, backlog, clientVars, accidents>>

Create ==
  /\ Main("create", "accept")
  /\ pc' = [pc EXCEPT ![open[connfd]] = "start"]
  /\ connfd' = 0
  /\ UNCHANGED <<addr, ssock, heapVars, backlog, clientVars, accidents>>

\* Mistake: the loop is left.
CreateFailsReturns ==
  /\ Main("create", "ended")
  /\ pc' = [pc EXCEPT ![open[connfd]] = "failed"]
  /\ Delete(open[connfd])
  /\ connfd' = 0
  /\ Fault
  /\ UNCHANGED <<addr, ssock, open, m_fd, backlog, clientVars, refused>>

\* server_conn is deleted, but the descriptor stays open.
CreateFails ==
  /\ Main("create", "accept")
  /\ pc' = [pc EXCEPT ![open[connfd]] = "failed"]
  /\ Delete(open[connfd])
  /\ connfd' = 0
  /\ Fault
  /\ UNCHANGED <<addr, ssock, open, m_fd, backlog, clientVars, refused>>
-----------------------------------------------------------------------------
(* worker. *)

Goto(c, from, to) == main # "ended" /\ pc[c] = from /\ pc' = [pc EXCEPT ![c] = to]

\* Connection conn(server_conn->connfd): nothing looks at that connfd again.
Start(c) ==
  /\ Goto(c, "start", "login")
  /\ m_fd' = [m_fd EXCEPT ![c] = conn_fd[c]]
  /\ conn_fd' = [conn_fd EXCEPT ![c] = 0]
  /\ UNCHANGED <<serverVars, open, info, backlog, clientVars, accidents>>

\* The login is read, and the conversation begins.
Login(c) ==
  /\ Goto(c, "login", "chat")
  /\ UNCHANGED <<serverVars, heapVars, backlog, clientVars, accidents>>

\* Nothing to read, or no message: the worker returns.
NoLogin(c) ==
  /\ Goto(c, "login", "destroy")
  /\ UNCHANGED <<serverVars, heapVars, backlog, clientVars, accidents>>

\* "need login": when it cannot be sent the worker returns.
NeedLogin(c) ==
  /\ \/ Goto(c, "login", "close")
     \/ client[c] \in {"closed", "reset"} /\ Goto(c, "login", "destroy")
  /\ UNCHANGED <<serverVars, heapVars, backlog, clientVars, accidents>>

\* A read of a connection that was reset ends the process.
ReadError(c) ==
  /\ main # "ended" /\ client[c] = "reset" /\ pc[c] \in {"login", "chat"}
  /\ main' = "ended"
  /\ UNCHANGED <<addr, ssock, connfd, heapVars, pc, backlog, clientVars, accidents>>

\* Connection::close.
Close(c) ==
  /\ open' = IF m_fd[c] = 0 THEN open ELSE [open EXCEPT ![m_fd[c]] = None]
  /\ m_fd' = [m_fd EXCEPT ![c] = 0]

\* The response to the login cannot be sent.
ChatFails(c) ==
  /\ client[c] \in {"closed", "reset"}
  /\ Goto(c, "chat", "close")
  /\ Close(c)
  /\ UNCHANGED <<serverVars, info, conn_fd, backlog, clientVars, accidents>>

\* chat_with_sender or chat_with_receiver returns.
ChatEnds(c) ==
  /\ Goto(c, "chat", "close")
  /\ UNCHANGED <<serverVars, heapVars, backlog, clientVars, accidents>>

\* conn.close, and server_conn is deleted.
CloseAndDelete(c) ==
  /\ Goto(c, "close", "destroy")
  /\ Close(c)
  /\ Delete(c)
  /\ UNCHANGED <<serverVars, backlog, clientVars, accidents>>

\* Mistake: the destructor does nothing.
NotDestroyed(c) ==
  /\ Goto(c, "destroy", "done")
  /\ m_fd' = [m_fd EXCEPT ![c] = 0]
  /\ UNCHANGED <<serverVars, open, info, conn_fd, backlog, clientVars, accidents>>

\* Connection::~Connection, when the worker returns: what is open is closed.
Destroy(c) ==
  /\ Goto(c, "destroy", "done")
  /\ Close(c)
  /\ UNCHANGED <<serverVars, info, conn_fd, backlog, clientVars, accidents>>
-----------------------------------------------------------------------------
(* Clients. *)

\* Mistake: an address that does not answer ends the search.
ConnectOnce(c) ==
  /\ client[c] = "trying" /\ try[c] <= Addrs
  /\ IF Listening /\ addr = try[c]
       THEN /\ client' = [client EXCEPT ![c] = "open"]
            /\ backlog' = Append(backlog, c)
            /\ UNCHANGED try
       ELSE /\ try' = [try EXCEPT ![c] = Addrs + 1]
            /\ UNCHANGED <<client, backlog>>
  /\ UNCHANGED <<serverVars, heapVars, pc, accidents>>

\* The loop of open_clientfd: the next address when this one does not answer.
Connect(c) ==
  /\ client[c] = "trying" /\ try[c] <= Addrs
  /\ IF Listening /\ addr = try[c]
       THEN /\ client' = [client EXCEPT ![c] = "open"]
            /\ backlog' = Append(backlog, c)
            /\ UNCHANGED try
       ELSE /\ try' = [try EXCEPT ![c] = @ + 1]
            /\ UNCHANGED <<client, backlog>>
  /\ UNCHANGED <<serverVars, heapVars, pc, accidents>>

\* Connection::connect exits.
ConnectFails(c) ==
  /\ client[c] = "trying" /\ try[c] > Addrs
  /\ client' = [client EXCEPT ![c] = "failed"]
  /\ UNCHANGED <<serverVars, heapVars, pc, backlog, try, accidents>>

Disconnect(c) ==
  /\ client[c] = "open"
  /\ \/ client' = [client EXCEPT ![c] = "closed"] /\ UNCHANGED faults
     \/ client' = [client EXCEPT ![c] = "reset"] /\ Fault
  /\ UNCHANGED <<serverVars, heapVars, pc, backlog, try, refused>>
-----------------------------------------------------------------------------
ServerSetup ==
  \/ Socket \/ SocketFails \/ Bind \/ BindFails \/ Listen \/ ListenFails \/ NoAddress

ServerLoop == Accept \/ AcceptFails \/ Create \/ CreateFails

Worker(c) ==
  \/ Start(c) \/ Login(c) \/ NoLogin(c) \/ NeedLogin(c) \/ ReadError(c)
  \/ ChatFails(c) \/ ChatEnds(c) \/ CloseAndDelete(c) \/ Destroy(c)

Next ==
  \/ ServerSetup \/ ServerLoop \/ AcceptRefused
  \/ \E c \in Clients : Worker(c) \/ Connect(c) \/ ConnectFails(c) \/ Disconnect(c)

Spec == Init /\ [][Next]_vars

\* The main thread and the search of a client go on; accept need not be refused.
FairSpec ==
  /\ Spec /\ WF_vars(ServerLoop)
  /\ \A c \in Clients : WF_vars(Connect(c))
-----------------------------------------------------------------------------
AtWork(c) == pc[c] \in {"start", "login", "chat", "close", "destroy"}

InHand(c) == connfd # 0 /\ open[connfd] = c

(* What a worker uses is there and its own: the descriptor in its Connection is *)
(* that of its client, from the constructor to the destructor, and never one   *)
(* whose number another client has been given since; and its server_connection *)
(* is alive as long as the thread may look at it.                              *)
UsesItsOwn ==
  \A c \in Clients :
    /\ m_fd[c] # 0 => AtWork(c) /\ open[m_fd[c]] = c
    /\ InHand(c) \/ pc[c] \in {"start", "login", "chat", "close"} => info[c] = "live"

(* What clients leave behind.  A descriptor is open only for the listener, for  *)
(* a client whose worker has not ended or will be created, or for one whose    *)
(* thread could not be created, and such a thread has no server_connection.    *)
LeftBehind ==
  /\ \A n \in Numbers : open[n] = "listener" => n = ssock
  /\ \A c \in Clients :
       /\ Cardinality({n \in Numbers : open[n] = c}) <= 1
       /\ (\E n \in Numbers : open[n] = c) => InHand(c) \/ AtWork(c) \/ pc[c] = "failed"
       /\ pc[c] = "failed" => info[c] = "freed" /\ \E n \in Numbers : open[n] = c

(* Once it listens the server ends only when accept itself is refused, when a  *)
(* connection was reset, or when the descriptors of the clients at work and of *)
(* the threads that could not be created have used up all numbers: no client   *)
(* that closes, no message and no failing pthread_create ends it, and the      *)
(* numbers of clients that are gone are back.                                  *)
EndsOnlyBy ==
  main = "ended" /\ ssock # 0 =>
    \/ refused
    \/ \E c \in Clients : client[c] = "reset"
    \/ Cardinality({c \in Clients : AtWork(c) \/ pc[c] = "failed"}) + 1 >= MaxFds

(* A client that has not yet passed the address at which the server listens     *)
(* gets a thread or the attempt of one, unless the server ends.                *)
ClientIsServed ==
  \A c \in Clients :
    client[c] = "trying" /\ Listening /\ try[c] <= addr
      ~> pc[c] # "none" \/ main = "ended"
=============================================================================
