-------------------------- MODULE AcceptLoopProofs --------------------------
(* Proofs about AcceptLoop, for any number of clients, descriptors, addresses  *)
(* and failures.                                                               *)
EXTENDS AcceptLoop, FiniteSetTheorems, TLAPS

HasFd(c) == \E n \in Numbers : open[n] = c

\* A thread that has constructed its Connection.
Connected(c) == pc[c] \in {"login", "chat", "close", "destroy"}

Types ==
  /\ main \in {"socket", "bind", "listen", "accept", "create", "ended"}
  /\ ssock \in 0..MaxFds /\ connfd \in 0..MaxFds
  /\ open \in [Numbers -> Clients \cup {"listener", None}]
  /\ info \in [Clients -> {"none", "live", "freed"}]
  /\ pc \in [Clients -> {"none", "failed", "start", "login", "chat", "close", "destroy",
                        "done"}]
  /\ m_fd \in [Clients -> 0..MaxFds] /\ conn_fd \in [Clients -> 0..MaxFds]
  /\ backlog \in Seq(Clients)
  /\ client \in [Clients -> {"trying", "open", "closed", "reset", "failed"}]

\* What the main thread has in its hands.
InMain ==
  /\ \A n \in Numbers : open[n] = "listener" <=> n = ssock
  /\ main = "socket" <=> ssock = 0 /\ main # "ended"
  /\ connfd # 0 => main \in {"create", "ended"} /\ open[connfd] \in Clients
  /\ main = "create" => connfd # 0

\* A client is accepted once.
Accepting ==
  /\ \A j, k \in 1..Len(backlog) : backlog[j] = backlog[k] => j = k
  /\ \A j \in 1..Len(backlog) :
       /\ pc[backlog[j]] = "none" /\ client[backlog[j]] # "trying"
       /\ \A n \in Numbers : open[n] # backlog[j]
  /\ \A c \in Clients : client[c] = "trying" => pc[c] = "none" /\ ~HasFd(c)

\* A client has one descriptor at most, and the place of its thread says where.
Owning ==
  /\ \A n, m \in Numbers : open[n] = open[m] /\ open[n] \in Clients => n = m
  /\ \A n \in Numbers : open[n] \in Clients =>
       n = connfd \/ pc[open[n]] \in {"start", "failed"} \/ m_fd[open[n]] = n
  /\ \A c \in Clients : m_fd[c] # 0 => Connected(c) /\ open[m_fd[c]] = c
  /\ \A c \in Clients : pc[c] \in {"start", "failed"} => HasFd(c)
  /\ connfd # 0 => pc[open[connfd]] = "none" /\ conn_fd[open[connfd]] = connfd
  /\ \A c \in Clients : pc[c] = "start" => conn_fd[c] # 0 /\ open[conn_fd[c]] = c

Infos ==
  \A c \in Clients :
    /\ InHand(c) \/ pc[c] \in {"start", "login", "chat", "close"} => info[c] = "live"
    /\ pc[c] = "failed" => info[c] = "freed"

IInv == Types /\ InMain /\ Accepting /\ Owning /\ Infos
-----------------------------------------------------------------------------
LEMMA InitInv == Init => IInv
<1> SUFFICES ASSUME Init PROVE IInv
  OBVIOUS
<1>1. MaxFds \in Nat /\ None \notin Clients /\ None # "listener" /\ "listener" \notin Clients
  BY LoopAssumption
<1>2. Types
  BY <1>1 DEF Init, Types
<1>3. InMain
  BY <1>1 DEF Init, InMain, Numbers
<1>4. Accepting
  BY <1>1 DEF Init, Accepting, HasFd
<1>5. Owning
  BY <1>1 DEF Init, Owning
<1>6. Infos
  BY <1>1 DEF Init, Infos, InHand
<1> QED
  BY <1>2, <1>3, <1>4, <1>5, <1>6 DEF IInv

(* The steps that leave descriptors, threads and the backlog alone, up to the   *)
(* place of main between listening and its end.                                *)
LEMMA Quiet ==
  ASSUME IInv, UNCHANGED <<ssock, connfd, heapVars, pc, backlog>>,
         client' \in [Clients -> {"trying", "open", "closed", "reset", "failed"}],
         \A c \in Clients : client'[c] = "trying" => client[c] = "trying",
         main' \in {"socket", "bind", "listen", "accept", "create", "ended"},
         main' = "socket" <=> main = "socket" /\ main' # "ended",
         main' = "create" <=> main = "create" /\ main' # "ended",
         main = "ended" => main' = "ended"
  PROVE  IInv'
<1> USE DEF heapVars
<1>1. Types'
  BY DEF IInv, Types
<1>2. InMain'
  BY DEF IInv, InMain, Types
<1>3. Accepting'
  <2>1. \A j \in 1..Len(backlog) : backlog[j] \in Clients
    BY DEF IInv, Types
  <2> QED
    BY <2>1 DEF IInv, Accepting, HasFd
<1>4. Owning' /\ Infos'
  BY DEF IInv, Owning, Infos, HasFd, Connected, InHand
<1> QED
  BY <1>1, <1>2, <1>3, <1>4 DEF IInv

(* The steps of open_listenfd that open or close the socket. *)
LEMMA SetupStep ==
  ASSUME IInv, main # "ended", main # "create",
         UNCHANGED <<connfd, info, conn_fd, m_fd, pc, backlog, client>>,
         \/ \E n \in Free : /\ ssock = 0 /\ ssock' = n /\ main' = "bind"
                            /\ open' = [open EXCEPT ![n] = "listener"]
         \/ /\ ssock # 0 /\ ssock' = 0 /\ main' \in {"socket", "ended"}
            /\ open' = [open EXCEPT ![ssock] = None]
  PROVE  IInv'
<1>0. /\ Types /\ InMain /\ Accepting /\ Owning /\ Infos
      /\ MaxFds \in Nat /\ Numbers = 1..MaxFds
      /\ None \notin Clients /\ None # "listener" /\ "listener" \notin Clients
  BY LoopAssumption DEF IInv, Numbers
<1>1. connfd = 0
  BY <1>0 DEF InMain
<1>2. PICK n \in Numbers :
        \/ open[n] = None /\ ssock = 0 /\ ssock' = n /\ main' = "bind"
           /\ open' = [open EXCEPT ![n] = "listener"]
        \/ n = ssock /\ ssock' = 0 /\ main' \in {"socket", "ended"}
           /\ open' = [open EXCEPT ![n] = None]
  BY <1>0 DEF Free, Types
<1>3. /\ open[n] \notin Clients /\ open'[n] \notin Clients
      /\ \A k \in Numbers : k # n => open'[k] = open[k]
      /\ open' \in [Numbers -> Clients \cup {"listener", None}]
  BY <1>0, <1>2 DEF Types, InMain
<1>4. Types'
  BY <1>0, <1>2, <1>3 DEF Types
<1>5. InMain'
  BY <1>0, <1>1, <1>2, <1>3 DEF Types, InMain
<1>6. \A c \in Clients, k \in Numbers : open'[k] = c <=> open[k] = c
  BY <1>3
<1>7. \A c \in Clients : HasFd(c)' <=> HasFd(c)
  BY <1>6 DEF HasFd
<1>8. Accepting'
  <2>1. \A j \in 1..Len(backlog) : backlog[j] \in Clients
    BY <1>0 DEF Types
  <2> QED
    BY <1>0, <1>6, <1>7, <2>1 DEF Accepting
<1>9. Owning'
  <2>1. \A k \in Numbers : open'[k] \in Clients => open'[k] = open[k]
    BY <1>3
  <2>2. \A c \in Clients : /\ m_fd[c] # 0 => m_fd[c] \in Numbers
                           /\ conn_fd[c] # 0 => conn_fd[c] \in Numbers
    BY <1>0 DEF Types
  <2> QED
    BY <1>0, <1>1, <1>6, <1>7, <2>1, <2>2 DEF Owning, Connected
<1>10. Infos'
  BY <1>0, <1>1 DEF Infos, InHand
<1> QED
  BY <1>4, <1>5, <1>8, <1>9, <1>10 DEF IInv

LEMMA AcceptStep == IInv /\ Accept => IInv'
<1> SUFFICES ASSUME IInv, Accept PROVE IInv'
  OBVIOUS
<1> DEFINE c0 == Head(backlog)
<1>0. /\ Types /\ InMain /\ Accepting /\ Owning /\ Infos
      /\ MaxFds \in Nat /\ Numbers = 1..MaxFds
      /\ None \notin Clients /\ None # "listener" /\ "listener" \notin Clients
  BY LoopAssumption DEF IInv, Numbers
<1>1. PICK n \in Numbers :
        /\ open[n] = None /\ main = "accept" /\ main' = "create" /\ connfd' = n
        /\ open' = [open EXCEPT ![n] = c0] /\ conn_fd' = [conn_fd EXCEPT ![c0] = n]
  BY DEF Accept, Free, Main
<1>2. /\ backlog # <<>> /\ info' = [info EXCEPT ![c0] = "live"] /\ backlog' = Tail(backlog)
      /\ UNCHANGED <<ssock, m_fd, pc, client>>
  BY DEF Accept, clientVars
<1>3. /\ c0 \in Clients /\ c0 = backlog[1] /\ 1 \in 1..Len(backlog)
      /\ backlog' \in Seq(Clients) /\ Len(backlog') = Len(backlog) - 1
      /\ Len(backlog) \in Nat
      /\ \A j \in 1..(Len(backlog) - 1) : backlog'[j] = backlog[j + 1]
      /\ \A j \in 1..Len(backlog) : backlog[j] \in Clients
  BY <1>0, <1>2 DEF Types
<1> HIDE DEF c0
<1>4. pc[c0] = "none" /\ ~HasFd(c0) /\ client[c0] # "trying"
  BY <1>0, <1>3 DEF Accepting, HasFd
<1>5. connfd = 0
  BY <1>0, <1>1 DEF InMain
<1>6. /\ open'[n] = c0 /\ \A k \in Numbers : k # n => open'[k] = open[k]
      /\ open' \in [Numbers -> Clients \cup {"listener", None}]
  BY <1>0, <1>1, <1>3 DEF Types
<1>7. \A c \in Clients : c # c0 => (HasFd(c)' <=> HasFd(c))
  BY <1>0, <1>1, <1>6 DEF HasFd
<1>8. Types'
  BY <1>0, <1>1, <1>2, <1>3, <1>6 DEF Types
<1>9. InMain'
  BY <1>0, <1>1, <1>2, <1>3, <1>6 DEF Types, InMain
<1>10. Accepting'
  <2>1. ASSUME NEW j \in 1..Len(backlog') PROVE backlog'[j] = backlog[j + 1] /\ j + 1 \in 1..Len(backlog)
    BY <1>3
  <2>2. \A j, k \in 1..Len(backlog') : backlog'[j] = backlog'[k] => j = k
    <3> SUFFICES ASSUME NEW j \in 1..Len(backlog'), NEW k \in 1..Len(backlog'),
                        backlog'[j] = backlog'[k]
                 PROVE  j = k
      OBVIOUS
    <3>1. j + 1 = k + 1
      BY <1>0, <2>1 DEF Accepting
    <3> QED
      BY <1>3, <3>1
  <2>3. ASSUME NEW j \in 1..Len(backlog')
        PROVE  /\ pc'[backlog'[j]] = "none" /\ client'[backlog'[j]] # "trying"
               /\ \A k \in Numbers : open'[k] # backlog'[j]
    <3>1. backlog'[j] = backlog[j + 1] /\ j + 1 \in 1..Len(backlog) /\ j + 1 # 1
      BY <1>3, <2>1
    <3>2. backlog[j + 1] # c0
      BY <1>0, <1>3, <3>1 DEF Accepting
    <3>3. \A k \in Numbers : open[k] # backlog[j + 1]
      BY <1>0, <3>1 DEF Accepting
    <3>4. \A k \in Numbers : open'[k] # backlog'[j]
      BY <1>6, <3>1, <3>2, <3>3
    <3> QED
      BY <1>0, <1>2, <3>1, <3>4 DEF Accepting
  <2>4. \A c \in Clients : client'[c] = "trying" => pc'[c] = "none" /\ ~HasFd(c)'
    BY <1>0, <1>2, <1>4, <1>7 DEF Accepting
  <2> QED
    BY <2>2, <2>3, <2>4 DEF Accepting
<1>11. Owning'
  <2>1. \A k \in Numbers : open[k] # c0
    BY <1>4 DEF HasFd
  <2>2. \A k, m \in Numbers : open'[k] = open'[m] /\ open'[k] \in Clients => k = m
    BY <1>0, <1>6, <2>1 DEF Owning
  <2>3. \A k \in Numbers : open'[k] \in Clients =>
          k = connfd' \/ pc'[open'[k]] \in {"start", "failed"} \/ m_fd'[open'[k]] = k
    BY <1>0, <1>1, <1>2, <1>5, <1>6 DEF Owning
  <2>4. \A c \in Clients : m_fd[c] # 0 => m_fd[c] \in Numbers /\ m_fd[c] # n
    BY <1>0, <1>1 DEF Types, Owning
  <2>5. \A c \in Clients : m_fd'[c] # 0 => Connected(c)' /\ open'[m_fd'[c]] = c
    BY <1>0, <1>2, <1>6, <2>4 DEF Owning, Connected
  <2>6. \A c \in Clients : pc'[c] \in {"start", "failed"} => HasFd(c)'
    BY <1>0, <1>2, <1>4, <1>7 DEF Owning
  <2>7. pc'[open'[connfd']] = "none" /\ conn_fd'[open'[connfd']] = connfd'
    BY <1>0, <1>1, <1>2, <1>3, <1>4, <1>6 DEF Types
  <2>8. ASSUME NEW c \in Clients, pc'[c] = "start"
        PROVE  conn_fd'[c] # 0 /\ open'[conn_fd'[c]] = c
    <3>1. c # c0 /\ conn_fd[c] # 0 /\ open[conn_fd[c]] = c /\ conn_fd[c] \in Numbers
      BY <1>0, <1>2, <1>4, <2>8 DEF Owning, Types
    <3> QED
      BY <1>0, <1>1, <1>6, <3>1, <2>1 DEF Types
  <2> QED
    BY <2>2, <2>3, <2>5, <2>6, <2>7, <2>8 DEF Owning
<1>12. Infos'
  <2>1. \A c \in Clients : InHand(c)' <=> c = c0
    BY <1>0, <1>1, <1>6 DEF InHand
  <2>2. info'[c0] = "live" /\ \A c \in Clients : c # c0 => info'[c] = info[c]
    BY <1>0, <1>2, <1>3 DEF Types
  <2> QED
    BY <1>0, <1>2, <1>4, <2>1, <2>2 DEF Infos
<1> QED
  BY <1>8, <1>9, <1>10, <1>11, <1>12 DEF IInv

LEMMA CreateStep == IInv /\ (Create \/ CreateFails) => IInv'
<1> SUFFICES ASSUME IInv, Create \/ CreateFails PROVE IInv'
  OBVIOUS
<1> DEFINE c0 == open[connfd]
<1>0. /\ Types /\ InMain /\ Accepting /\ Owning /\ Infos
      /\ MaxFds \in Nat /\ Numbers = 1..MaxFds
      /\ None \notin Clients /\ None # "listener" /\ "listener" \notin Clients
  BY LoopAssumption DEF IInv, Numbers
<1>1. /\ main = "create" /\ main' = "accept" /\ connfd' = 0
      /\ UNCHANGED <<ssock, open, m_fd, backlog, client>>
      /\ \/ /\ pc' = [pc EXCEPT ![c0] = "start"] /\ info' = info
            /\ conn_fd' = conn_fd
         \/ /\ pc' = [pc EXCEPT ![c0] = "failed"] /\ info' = [info EXCEPT ![c0] = "freed"]
            /\ conn_fd' = [conn_fd EXCEPT ![c0] = 0]
  BY DEF Create, CreateFails, Delete, Main, heapVars, clientVars
<1>2. /\ connfd \in Numbers /\ c0 \in Clients /\ pc[c0] = "none"
      /\ \A n \in Numbers : open[n] = c0 <=> n = connfd
      /\ conn_fd[c0] = connfd
  BY <1>0, <1>1 DEF InMain, Owning, Types
<1>3. InHand(c0) /\ info[c0] = "live" /\ HasFd(c0)
  BY <1>0, <1>2 DEF InHand, Infos, HasFd
<1> HIDE DEF c0
<1>4. /\ pc'[c0] \in {"start", "failed"} /\ \A c \in Clients : c # c0 => pc'[c] = pc[c]
      /\ pc'[c0] = "start" => info'[c0] = "live"
      /\ pc'[c0] = "failed" => info'[c0] = "freed"
      /\ \A c \in Clients : c # c0 => info'[c] = info[c]
  <2>1. CASE pc' = [pc EXCEPT ![c0] = "start"] /\ info' = info
    BY <1>0, <1>2, <1>3, <2>1 DEF Types
  <2>2. CASE pc' = [pc EXCEPT ![c0] = "failed"] /\ info' = [info EXCEPT ![c0] = "freed"]
    BY <1>0, <1>2, <1>3, <2>2 DEF Types
  <2> QED
    BY <1>1, <2>1, <2>2
<1>5. Types'
  <2>1. /\ conn_fd' \in [Clients -> 0..MaxFds]
        /\ pc' \in [Clients -> {"none", "failed", "start", "login", "chat", "close",
                               "destroy", "done"}]
        /\ info' \in [Clients -> {"none", "live", "freed"}]
    <3>1. CASE pc' = [pc EXCEPT ![c0] = "start"] /\ info' = info /\ conn_fd' = conn_fd
      BY <1>0, <1>2, <3>1 DEF Types
    <3>2. CASE /\ pc' = [pc EXCEPT ![c0] = "failed"]
               /\ info' = [info EXCEPT ![c0] = "freed"]
               /\ conn_fd' = [conn_fd EXCEPT ![c0] = 0]
      BY <1>0, <1>2, <3>2 DEF Types
    <3> QED
      BY <1>1, <3>1, <3>2
  <2> QED
    BY <1>0, <1>1, <2>1 DEF Types
<1>6. InMain'
  BY <1>0, <1>1 DEF InMain
<1>7. \A c \in Clients : HasFd(c)' <=> HasFd(c)
  BY <1>1 DEF HasFd
<1>8. Accepting'
  <2>1. \A j \in 1..Len(backlog) : backlog[j] \in Clients /\ backlog[j] # c0
    <3>1. open[connfd] = c0 /\ connfd \in Numbers
      BY <1>2
    <3> QED
      BY <1>0, <3>1 DEF Types, Accepting
  <2>2. client[c0] # "trying"
    BY <1>0, <1>2, <1>3 DEF Accepting
  <2> QED
    BY <1>0, <1>1, <1>4, <1>7, <2>1, <2>2 DEF Accepting
<1>9. Owning'
  <2>1. \A n \in Numbers : open[n] \in Clients =>
          pc'[open[n]] \in {"start", "failed"} \/ m_fd[open[n]] = n
    BY <1>0, <1>2, <1>4 DEF Owning, c0
  <2>2. \A c \in Clients : m_fd[c] # 0 => Connected(c)' /\ open[m_fd[c]] = c
    <3>1. m_fd[c0] = 0
      BY <1>0, <1>2 DEF Owning, Connected
    <3> QED
      BY <1>0, <1>4, <3>1 DEF Owning, Connected
  <2>3. \A c \in Clients : pc'[c] \in {"start", "failed"} => HasFd(c)'
    BY <1>0, <1>3, <1>4, <1>7 DEF Owning
  <2>4. ASSUME NEW c \in Clients, pc'[c] = "start"
        PROVE  conn_fd'[c] # 0 /\ open[conn_fd'[c]] = c
    <3>1. CASE c = c0
      <4>1. conn_fd' = conn_fd
        BY <1>0, <1>1, <1>2, <2>4, <3>1 DEF Types
      <4> QED
        BY <1>0, <1>2, <3>1, <4>1
    <3>2. CASE c # c0
      BY <1>0, <1>1, <1>4, <2>4, <3>2 DEF Owning, Types
    <3> QED
      BY <3>1, <3>2
  <2> QED
    BY <1>0, <1>1, <2>1, <2>2, <2>3, <2>4 DEF Owning
<1>10. Infos'
  <2>1. \A c \in Clients : ~InHand(c)'
    BY <1>1 DEF InHand
  <2> QED
    BY <1>0, <1>4, <2>1 DEF Infos
<1> QED
  BY <1>5, <1>6, <1>8, <1>9, <1>10 DEF IInv

(* The constructor of Connection. *)
LEMMA StartStep == ASSUME NEW c \in Clients, IInv, Start(c) PROVE IInv'
<1> DEFINE n0 == conn_fd[c]
<1>0. /\ Types /\ InMain /\ Accepting /\ Owning /\ Infos
      /\ MaxFds \in Nat /\ Numbers = 1..MaxFds
      /\ None \notin Clients /\ None # "listener" /\ "listener" \notin Clients
  BY LoopAssumption DEF IInv, Numbers
<1>1. /\ pc[c] = "start" /\ pc' = [pc EXCEPT ![c] = "login"]
      /\ m_fd' = [m_fd EXCEPT ![c] = n0] /\ conn_fd' = [conn_fd EXCEPT ![c] = 0]
      /\ UNCHANGED <<main, ssock, connfd, open, info, backlog, client>>
  BY DEF Start, Goto, serverVars, clientVars
<1>2. n0 \in Numbers /\ open[n0] = c
  BY <1>0, <1>1 DEF Owning, Types
<1> HIDE DEF n0
<1>3. /\ pc'[c] = "login" /\ \A d \in Clients : d # c => pc'[d] = pc[d]
      /\ m_fd'[c] = n0 /\ \A d \in Clients : d # c => m_fd'[d] = m_fd[d]
      /\ n0 # 0 /\ n0 \in 0..MaxFds
  BY <1>0, <1>1, <1>2 DEF Types
<1>4. \A n \in Numbers : open[n] = c => n = n0
  BY <1>0, <1>2 DEF Owning
<1>5. Types'
  BY <1>0, <1>1, <1>2, <1>3 DEF Types
<1>6. InMain'
  BY <1>0, <1>1 DEF InMain
<1>7. \A d \in Clients : HasFd(d)' <=> HasFd(d)
  BY <1>1 DEF HasFd
<1>8. Accepting'
  <2>1. \A j \in 1..Len(backlog) : backlog[j] \in Clients /\ backlog[j] # c
    BY <1>0, <1>1 DEF Types, Accepting
  <2> QED
    BY <1>0, <1>1, <1>3, <1>7, <2>1 DEF Accepting
<1>9. Owning'
  <2>1. \A n \in Numbers : open[n] \in Clients =>
          n = connfd \/ pc'[open[n]] \in {"start", "failed"} \/ m_fd'[open[n]] = n
    BY <1>0, <1>3, <1>4 DEF Owning
  <2>2. \A d \in Clients : m_fd'[d] # 0 => Connected(d)' /\ open[m_fd'[d]] = d
    BY <1>0, <1>2, <1>3 DEF Owning, Connected
  <2>3. connfd # 0 => pc'[open[connfd]] = "none" /\ conn_fd'[open[connfd]] = connfd
    <3>1. connfd # 0 => /\ open[connfd] \in Clients /\ pc[open[connfd]] = "none"
                        /\ conn_fd[open[connfd]] = connfd
      BY <1>0 DEF Owning, InMain
    <3> QED
      BY <1>0, <1>1, <1>3, <3>1 DEF Types
  <2>4. \A d \in Clients : pc'[d] \in {"start", "failed"} => HasFd(d)'
    BY <1>0, <1>3, <1>7 DEF Owning
  <2>5. \A d \in Clients : pc'[d] = "start" => conn_fd'[d] # 0 /\ open[conn_fd'[d]] = d
    BY <1>0, <1>1, <1>3 DEF Owning, Types
  <2> QED
    BY <1>0, <1>1, <2>1, <2>2, <2>3, <2>4, <2>5 DEF Owning
<1>10. Infos'
  <2>1. \A d \in Clients : InHand(d)' <=> InHand(d)
    BY <1>1 DEF InHand
  <2> QED
    BY <1>0, <1>1, <1>3, <2>1 DEF Infos
<1> QED
  BY <1>5, <1>6, <1>8, <1>9, <1>10 DEF IInv

(* The steps of a worker that close nothing. *)
LEMMA MoveStep ==
  ASSUME NEW c \in Clients, IInv,
         Login(c) \/ NoLogin(c) \/ NeedLogin(c) \/ ChatEnds(c)
  PROVE  IInv'
<1>0. /\ Types /\ InMain /\ Accepting /\ Owning /\ Infos
      /\ MaxFds \in Nat /\ Numbers = 1..MaxFds
      /\ None \notin Clients /\ None # "listener" /\ "listener" \notin Clients
  BY LoopAssumption DEF IInv, Numbers
<1>1. PICK to \in {"chat", "close", "destroy"} :
        /\ pc[c] \in {"login", "chat"} /\ pc' = [pc EXCEPT ![c] = to]
        /\ UNCHANGED <<main, ssock, connfd, open, info, conn_fd, m_fd, backlog, client>>
  <2>1. CASE Login(c) \/ NoLogin(c)
    BY <2>1 DEF Login, NoLogin, Goto, serverVars, clientVars, heapVars
  <2>2. CASE NeedLogin(c)
    BY <2>2 DEF NeedLogin, Goto, serverVars, clientVars, heapVars
  <2>3. CASE ChatEnds(c)
    BY <2>3 DEF ChatEnds, Goto, serverVars, clientVars, heapVars
  <2> QED
    BY <2>1, <2>2, <2>3
<1>2. pc'[c] = to /\ \A d \in Clients : d # c => pc'[d] = pc[d]
  BY <1>0, <1>1 DEF Types
<1>3. Types'
  BY <1>0, <1>1 DEF Types
<1>4. InMain'
  BY <1>0, <1>1 DEF InMain
<1>5. \A d \in Clients : HasFd(d)' <=> HasFd(d)
  BY <1>1 DEF HasFd
<1>6. Accepting'
  <2>1. \A j \in 1..Len(backlog) : backlog[j] \in Clients /\ backlog[j] # c
    BY <1>0, <1>1 DEF Types, Accepting
  <2> QED
    BY <1>0, <1>1, <1>2, <1>5, <2>1 DEF Accepting
<1>7. Owning'
  <2>1. \A n \in Numbers : open[n] \in Clients =>
          n = connfd \/ pc'[open[n]] \in {"start", "failed"} \/ m_fd[open[n]] = n
    BY <1>0, <1>1, <1>2 DEF Owning
  <2>2. \A d \in Clients : m_fd[d] # 0 => Connected(d)' /\ open[m_fd[d]] = d
    BY <1>0, <1>2 DEF Owning, Connected
  <2>3. connfd # 0 => pc'[open[connfd]] = "none"
    <3>1. connfd # 0 => open[connfd] \in Clients /\ pc[open[connfd]] = "none"
      BY <1>0 DEF Owning, InMain
    <3> QED
      BY <1>1, <1>2, <3>1
  <2>4. \A d \in Clients : pc'[d] \in {"start", "failed"} => HasFd(d)'
    BY <1>0, <1>2, <1>5 DEF Owning
  <2> QED
    BY <1>0, <1>1, <2>1, <2>2, <2>3, <2>4 DEF Owning
<1>8. Infos'
  <2>1. \A d \in Clients : InHand(d)' <=> InHand(d)
    BY <1>1 DEF InHand
  <2> QED
    BY <1>0, <1>1, <1>2, <2>1 DEF Infos
<1> QED
  BY <1>3, <1>4, <1>6, <1>7, <1>8 DEF IInv

(* The steps of a worker that close its connection. *)
LEMMA CloseStep ==
  ASSUME NEW c \in Clients, IInv, ChatFails(c) \/ CloseAndDelete(c) \/ Destroy(c)
  PROVE  IInv'
<1>0. /\ Types /\ InMain /\ Accepting /\ Owning /\ Infos
      /\ MaxFds \in Nat /\ Numbers = 1..MaxFds
      /\ None \notin Clients /\ None # "listener" /\ "listener" \notin Clients
  BY LoopAssumption DEF IInv, Numbers
<1>1. PICK to \in {"close", "destroy", "done"}, i \in {"live", "freed", info[c]} :
        /\ pc[c] \in {"chat", "close", "destroy"} /\ pc' = [pc EXCEPT ![c] = to]
        /\ to = "close" => pc[c] = "chat" /\ i = info[c]
        /\ info' = [info EXCEPT ![c] = i]
        /\ conn_fd' \in {conn_fd, [conn_fd EXCEPT ![c] = 0]}
        /\ Close(c)
        /\ UNCHANGED <<main, ssock, connfd, backlog, client>>
  <2>0. info = [info EXCEPT ![c] = info[c]]
    BY <1>0 DEF Types
  <2>1. CASE ChatFails(c)
    BY <2>0, <2>1 DEF ChatFails, Goto, serverVars, clientVars
  <2>2. CASE CloseAndDelete(c)
    BY <2>2 DEF CloseAndDelete, Delete, Goto, serverVars, clientVars
  <2>3. CASE Destroy(c)
    BY <2>0, <2>3 DEF Destroy, Goto, serverVars, clientVars
  <2> QED
    BY <2>1, <2>2, <2>3
<1>2. /\ pc'[c] = to /\ \A d \in Clients : d # c => pc'[d] = pc[d]
      /\ m_fd'[c] = 0 /\ \A d \in Clients : d # c => m_fd'[d] = m_fd[d]
      /\ info'[c] = i /\ \A d \in Clients : d # c => info'[d] = info[d]
      /\ \A d \in Clients : d # c => conn_fd'[d] = conn_fd[d]
      /\ conn_fd' \in [Clients -> 0..MaxFds]
  <2>1. /\ \A d \in Clients : d # c => conn_fd'[d] = conn_fd[d]
        /\ conn_fd' \in [Clients -> 0..MaxFds]
    <3>1. CASE conn_fd' = conn_fd
      BY <1>0, <3>1 DEF Types
    <3>2. CASE conn_fd' = [conn_fd EXCEPT ![c] = 0]
      BY <1>0, <3>2 DEF Types
    <3> QED
      BY <1>1, <3>1, <3>2
  <2> QED
    BY <1>0, <1>1, <2>1 DEF Types, Close
<1>3. /\ \A n \in Numbers : open'[n] = IF open[n] = c THEN None ELSE open[n]
      /\ open' \in [Numbers -> Clients \cup {"listener", None}]
  <2>1. \A n \in Numbers : open[n] = c => n = m_fd[c] /\ m_fd[c] # 0
    <3>1. connfd # 0 => pc[open[connfd]] = "none"
      BY <1>0 DEF Owning
    <3> QED
      BY <1>0, <1>1, <3>1 DEF Owning
  <2>2. m_fd[c] # 0 => m_fd[c] \in Numbers /\ open[m_fd[c]] = c
    BY <1>0 DEF Types, Owning
  <2>3. CASE m_fd[c] = 0
    BY <1>0, <1>1, <2>1, <2>3 DEF Close, Types
  <2>4. CASE m_fd[c] # 0
    BY <1>0, <1>1, <2>1, <2>2, <2>4 DEF Close, Types
  <2> QED
    BY <2>3, <2>4
<1>4. connfd # 0 => open[connfd] \in Clients /\ open[connfd] # c /\ connfd \in Numbers
                   /\ pc[open[connfd]] = "none" /\ open'[connfd] = open[connfd]
  BY <1>0, <1>1, <1>3 DEF InMain, Owning, Types
<1>5. Types'
  <2>1. m_fd' \in [Clients -> 0..MaxFds]
    BY <1>0, <1>1 DEF Types, Close
  <2>2. /\ pc' \in [Clients -> {"none", "failed", "start", "login", "chat", "close",
                               "destroy", "done"}]
        /\ info' \in [Clients -> {"none", "live", "freed"}]
    BY <1>0, <1>1 DEF Types
  <2> QED
    BY <1>0, <1>1, <1>2, <1>3, <2>1, <2>2 DEF Types
<1>6. InMain'
  BY <1>0, <1>1, <1>3, <1>4 DEF InMain
<1>7. \A d \in Clients : d # c => (HasFd(d)' <=> HasFd(d))
  BY <1>0, <1>3 DEF HasFd
<1>8. Accepting'
  <2>1. \A j \in 1..Len(backlog) : backlog[j] \in Clients /\ backlog[j] # c
    BY <1>0, <1>1 DEF Types, Accepting
  <2>2. client[c] # "trying"
    BY <1>0, <1>1 DEF Accepting
  <2>3. \A j \in 1..Len(backlog), n \in Numbers : open'[n] # backlog[j]
    BY <1>0, <1>3, <2>1 DEF Accepting
  <2> QED
    BY <1>0, <1>1, <1>2, <1>7, <2>1, <2>2, <2>3 DEF Accepting
<1>9. Owning'
  <2>0. \A n \in Numbers : open'[n] \in Clients => open'[n] = open[n] /\ open[n] # c
    BY <1>0, <1>3
  <2>1. \A n \in Numbers : open'[n] \in Clients =>
          n = connfd \/ pc'[open'[n]] \in {"start", "failed"} \/ m_fd'[open'[n]] = n
    BY <1>0, <1>2, <2>0 DEF Owning
  <2>2. \A d \in Clients : m_fd'[d] # 0 => Connected(d)' /\ open'[m_fd'[d]] = d
    <3>1. \A d \in Clients : m_fd[d] # 0 => m_fd[d] \in Numbers /\ open[m_fd[d]] = d
      BY <1>0 DEF Owning, Types
    <3> QED
      BY <1>0, <1>2, <1>3, <3>1 DEF Owning, Connected
  <2>3. connfd # 0 => pc'[open'[connfd]] = "none" /\ conn_fd'[open'[connfd]] = connfd
    BY <1>0, <1>2, <1>4 DEF Owning
  <2>4. \A d \in Clients : pc'[d] \in {"start", "failed"} => HasFd(d)'
    BY <1>0, <1>2, <1>7 DEF Owning
  <2>5. \A n, m \in Numbers : open'[n] = open'[m] /\ open'[n] \in Clients => n = m
    BY <1>0, <2>0 DEF Owning
  <2>6. ASSUME NEW d \in Clients, pc'[d] = "start"
        PROVE  conn_fd'[d] # 0 /\ open'[conn_fd'[d]] = d
    <3>1. d # c /\ conn_fd[d] # 0 /\ open[conn_fd[d]] = d /\ conn_fd[d] \in Numbers
      BY <1>0, <1>1, <1>2, <2>6 DEF Owning, Types
    <3> QED
      BY <1>2, <1>3, <3>1
  <2> QED
    BY <1>1, <2>1, <2>2, <2>3, <2>4, <2>5, <2>6 DEF Owning
<1>10. Infos'
  <2>1. \A d \in Clients : InHand(d)' <=> InHand(d)
    BY <1>1, <1>4 DEF InHand
  <2>2. ~InHand(c)
    BY <1>4 DEF InHand
  <2> QED
    BY <1>0, <1>1, <1>2, <2>1, <2>2 DEF Infos
<1> QED
  BY <1>5, <1>6, <1>8, <1>9, <1>10 DEF IInv

(* A client that is connected goes to the end of the backlog. *)
LEMMA ConnectStep == ASSUME NEW c \in Clients, IInv, Connect(c) PROVE IInv'
<1>0. /\ Types /\ InMain /\ Accepting /\ Owning /\ Infos
  BY DEF IInv
<1>1. client[c] = "trying" /\ UNCHANGED <<main, ssock, connfd, heapVars, pc>>
  BY DEF Connect, serverVars
<1>2. CASE client' = client /\ backlog' = backlog
  BY <1>0, <1>1, <1>2, Quiet DEF Types, InMain
<1>3. CASE client' = [client EXCEPT ![c] = "open"] /\ backlog' = Append(backlog, c)
  <2>1. /\ client'[c] = "open" /\ \A d \in Clients : d # c => client'[d] = client[d]
        /\ client' \in [Clients -> {"trying", "open", "closed", "reset", "failed"}]
    BY <1>0, <1>3 DEF Types
  <2>2. /\ Len(backlog) \in Nat /\ Len(backlog') = Len(backlog) + 1
        /\ backlog' \in Seq(Clients) /\ backlog'[Len(backlog) + 1] = c
        /\ \A j \in 1..Len(backlog) : backlog'[j] = backlog[j] /\ backlog[j] \in Clients
    BY <1>0, <1>3 DEF Types
  <2>3. pc[c] = "none" /\ \A n \in Numbers : open[n] # c
    BY <1>0, <1>1 DEF Accepting, HasFd
  <2>4. \A j \in 1..Len(backlog) : backlog[j] # c
    BY <1>0, <1>1 DEF Accepting
  <2>5. \A j \in 1..Len(backlog') : j = Len(backlog) + 1 \/ j \in 1..Len(backlog)
    BY <2>2
  <2>6. Accepting'
    <3>1. \A j, k \in 1..Len(backlog') : backlog'[j] = backlog'[k] => j = k
      BY <1>0, <2>2, <2>4, <2>5 DEF Accepting
    <3>2. ASSUME NEW j \in 1..Len(backlog')
          PROVE  /\ pc'[backlog'[j]] = "none" /\ client'[backlog'[j]] # "trying"
                 /\ \A n \in Numbers : open'[n] # backlog'[j]
      <4>1. CASE j = Len(backlog) + 1
        BY <1>1, <2>1, <2>2, <2>3, <4>1 DEF heapVars
      <4>2. CASE j \in 1..Len(backlog)
        BY <1>0, <1>1, <2>1, <2>2, <2>4, <4>2 DEF heapVars, Accepting
      <4> QED
        BY <2>5, <4>1, <4>2
    <3>3. \A d \in Clients : client'[d] = "trying" => pc'[d] = "none" /\ ~HasFd(d)'
      BY <1>0, <1>1, <2>1 DEF heapVars, Accepting, HasFd
    <3> QED
      BY <3>1, <3>2, <3>3 DEF Accepting
  <2>7. Types'
    BY <1>0, <1>1, <2>1, <2>2 DEF Types, heapVars
  <2>8. InMain' /\ Owning' /\ Infos'
    BY <1>0, <1>1 DEF InMain, Owning, Infos, heapVars, HasFd, Connected, InHand
  <2> QED
    BY <2>6, <2>7, <2>8 DEF IInv
<1> QED
  BY <1>2, <1>3 DEF Connect
-----------------------------------------------------------------------------
(* Every step of the program preserves the invariant. *)
LEMMA NextInv == IInv /\ [Next]_vars => IInv'
<1> SUFFICES ASSUME IInv, [Next]_vars PROVE IInv'
  OBVIOUS
<1>0. Types /\ InMain
  BY DEF IInv
<1>1. CASE ServerSetup
  <2>1. CASE Socket
    BY <1>0, <2>1, SetupStep DEF Socket, Main, clientVars, InMain
  <2>2. CASE BindFails \/ ListenFails
    BY <1>0, <2>2, SetupStep DEF BindFails, ListenFails, Main, clientVars, InMain
  <2>3. CASE SocketFails
    BY <1>0, <2>3, Quiet DEF SocketFails, Main, clientVars, Types
  <2>4. CASE Bind \/ Listen
    BY <1>0, <2>4, Quiet DEF Bind, Listen, Main, clientVars, Types
  <2>5. CASE NoAddress
    BY <1>0, <2>5, Quiet DEF NoAddress, Main, clientVars, Types
  <2> QED
    BY <1>1, <2>1, <2>2, <2>3, <2>4, <2>5 DEF ServerSetup
<1>2. CASE ServerLoop \/ AcceptRefused
  <2>1. CASE AcceptFails
    BY <1>0, <2>1, Quiet DEF AcceptFails, Main, clientVars, Types
  <2>2. CASE AcceptRefused
    BY <1>0, <2>2, Quiet DEF AcceptRefused, Main, clientVars, Types
  <2> QED
    BY <1>2, <2>1, <2>2, AcceptStep, CreateStep DEF ServerLoop
<1>3. ASSUME NEW c \in Clients, Worker(c) PROVE IInv'
  <2>1. CASE ReadError(c)
    BY <1>0, <2>1, Quiet DEF ReadError, clientVars, Types
  <2> QED
    BY <1>3, <2>1, StartStep, MoveStep, CloseStep DEF Worker
<1>4. ASSUME NEW c \in Clients, ConnectFails(c) \/ Disconnect(c) PROVE IInv'
  <2>1. CASE ConnectFails(c)
    BY <1>0, <2>1, Quiet DEF ConnectFails, serverVars, Types, InMain
  <2>2. CASE Disconnect(c)
    BY <1>0, <2>2, Quiet DEF Disconnect, serverVars, Types, InMain
  <2> QED
    BY <1>4, <2>1, <2>2
<1>5. CASE UNCHANGED vars
  BY <1>0, <1>5, Quiet DEF vars, serverVars, clientVars, Types, InMain
<1> QED
  BY <1>1, <1>2, <1>3, <1>4, <1>5, ConnectStep DEF Next

LEMMA Invariance == Spec => []IInv
BY InitInv, NextInv, PTL DEF Spec

(* A worker uses its own descriptor and a server_connection that is alive, for *)
(* any number of clients and descriptors, whichever calls of main fail.        *)
THEOREM WorkersUseTheirOwn == Spec => []UsesItsOwn
<1>1. IInv => UsesItsOwn
  BY DEF IInv, Owning, Infos, UsesItsOwn, Connected, AtWork
<1> QED
  BY <1>1, Invariance, PTL

(* A client leaves no descriptor behind, unless its thread was never created.  *)
THEOREM DescriptorsComeBack == Spec => []LeftBehind
<1>1. ASSUME IInv PROVE LeftBehind
  <2>1. \A n \in Numbers : open[n] = "listener" => n = ssock
    BY <1>1 DEF IInv, InMain
  <2>2. ASSUME NEW c \in Clients
        PROVE  Cardinality({n \in Numbers : open[n] = c}) <= 1
    <3> DEFINE N == {n \in Numbers : open[n] = c}
    <3>1. CASE N = {}
      BY <3>1, FS_EmptySet
    <3>2. CASE N # {}
      <4>1. PICK n \in N : TRUE
        BY <3>2
      <4>2. N = {n}
        BY <1>1, <4>1 DEF IInv, Owning
      <4>3. Cardinality({n}) = 1
        BY FS_Singleton
      <4> QED
        BY <4>2, <4>3
    <3> QED
      BY <3>1, <3>2
  <2>3. ASSUME NEW c \in Clients, NEW n \in Numbers, open[n] = c
        PROVE  InHand(c) \/ AtWork(c) \/ pc[c] = "failed"
    <3>1. n = connfd \/ pc[c] \in {"start", "failed"} \/ m_fd[c] = n
      BY <1>1, <2>3 DEF IInv, Owning
    <3>2. n # 0
      BY LoopAssumption DEF Numbers
    <3> QED
      BY <1>1, <2>3, <3>1, <3>2 DEF IInv, Owning, Connected, InHand, AtWork
  <2>4. ASSUME NEW c \in Clients, pc[c] = "failed"
        PROVE  info[c] = "freed" /\ \E n \in Numbers : open[n] = c
    BY <1>1, <2>4 DEF IInv, Owning, Infos, HasFd
  <2> QED
    BY <2>1, <2>2, <2>3, <2>4 DEF LeftBehind
<1> QED
  BY <1>1, Invariance, PTL

(* What EndsOnlyBy says is preserved: where accept fails without being refused  *)
(* every number stands for the listener or for a client of the set.            *)
LEMMA EndingInv == IInv /\ EndsOnlyBy /\ [Next]_vars => EndsOnlyBy'
<1> SUFFICES ASSUME IInv, EndsOnlyBy, [Next]_vars, main' = "ended", ssock' # 0
             PROVE  EndsOnlyBy'
  BY DEF EndsOnlyBy
<1>0. Types /\ InMain
  BY DEF IInv
<1>1. CASE main = "ended"
  <2>1. /\ UNCHANGED <<pc, ssock, refused>>
        /\ \A c \in Clients : client[c] = "reset" => client'[c] = "reset"
    <3>1. CASE ServerSetup \/ ServerLoop \/ AcceptRefused
      BY <1>1, <3>1 DEF ServerSetup, ServerLoop, Socket, SocketFails, Bind, BindFails,
        Listen, ListenFails, NoAddress, Accept, AcceptFails, AcceptRefused, Create,
        CreateFails, Main, clientVars, accidents
    <3>2. ASSUME NEW c \in Clients, Worker(c)
          PROVE  FALSE
      BY <1>1, <3>2 DEF Worker, Start, Login, NoLogin, NeedLogin, ReadError, ChatFails,
        ChatEnds, CloseAndDelete, Destroy, Goto
    <3>3. ASSUME NEW c \in Clients, Connect(c) \/ ConnectFails(c) \/ Disconnect(c)
          PROVE  /\ UNCHANGED <<pc, ssock, refused>>
                 /\ \A d \in Clients : client[d] = "reset" => client'[d] = "reset"
      BY <1>0, <3>3 DEF Connect, ConnectFails, Disconnect, serverVars, accidents, Types
    <3>4. CASE UNCHANGED vars
      BY <3>4 DEF vars, serverVars, clientVars, accidents
    <3> QED
      BY <3>1, <3>2, <3>3, <3>4 DEF Next
  <2>2. \A c \in Clients : AtWork(c)' <=> AtWork(c)
    BY <2>1 DEF AtWork
  <2>3. {c \in Clients : AtWork(c) \/ pc[c] = "failed"}'
          = {c \in Clients : AtWork(c) \/ pc[c] = "failed"}
    BY <2>1, <2>2
  <2> QED
    BY <1>1, <2>1, <2>3 DEF EndsOnlyBy
<1>2. CASE main # "ended"
  <2>1. \/ AcceptFails \/ AcceptRefused
        \/ \E c \in Clients : ReadError(c)
    <3>1. CASE ServerSetup
      BY <1>0, <1>2, <3>1 DEF ServerSetup, Socket, SocketFails, Bind, BindFails, Listen,
        ListenFails, NoAddress, Main, InMain
    <3>2. CASE ServerLoop \/ AcceptRefused
      BY <3>2 DEF ServerLoop, Accept, Create, CreateFails, Main
    <3>3. ASSUME NEW c \in Clients, Worker(c)
          PROVE  ReadError(c)
      BY <1>2, <3>3 DEF Worker, Start, Login, NoLogin, NeedLogin, ChatFails, ChatEnds,
        CloseAndDelete, Destroy, serverVars
    <3>4. ASSUME NEW c \in Clients, Connect(c) \/ ConnectFails(c) \/ Disconnect(c)
          PROVE  FALSE
      BY <1>2, <3>4 DEF Connect, ConnectFails, Disconnect, serverVars
    <3>5. CASE UNCHANGED vars
      BY <1>2, <3>5 DEF vars, serverVars
    <3> QED
      BY <3>1, <3>2, <3>3, <3>4, <3>5 DEF Next
  <2>2. CASE refused' \/ \E c \in Clients : client'[c] = "reset"
    BY <2>2 DEF EndsOnlyBy
  <2>3. CASE ~refused' /\ ~ \E c \in Clients : client'[c] = "reset"
    <3> DEFINE S == {c \in Clients : AtWork(c) \/ pc[c] = "failed"}
               N == Numbers \ {ssock}
               f == [n \in N |-> open[n]]
    <3>1. AcceptFails /\ Free = {} /\ UNCHANGED <<client, pc, ssock>>
      <4>1. ASSUME NEW c \in Clients, ReadError(c) PROVE FALSE
        BY <2>3, <4>1 DEF ReadError, clientVars
      <4>2. AcceptFails /\ UNCHANGED <<client, pc, ssock>>
        BY <2>1, <2>3, <4>1 DEF AcceptFails, AcceptRefused, clientVars
      <4>3. backlog # <<>> => Head(backlog) \in Clients
        BY <1>0 DEF Types
      <4> QED
        BY <2>3, <4>2, <4>3 DEF AcceptFails
    <3>2. main = "accept" /\ connfd = 0 /\ ssock \in Numbers /\ MaxFds \in Nat
      <4>1. main = "accept"
        BY <3>1 DEF AcceptFails, Main
      <4>2. connfd = 0 /\ ssock # 0
        BY <1>0, <4>1 DEF InMain
      <4> QED
        BY <1>0, <4>1, <4>2, LoopAssumption DEF Types, Numbers
    <3>3. \A n \in N : open[n] \in S
      <4> SUFFICES ASSUME NEW n \in Numbers, n # ssock PROVE open[n] \in S
        OBVIOUS
      <4>1. open[n] # None /\ open[n] # "listener"
        BY <1>0, <3>1 DEF Free, InMain
      <4>2. open[n] \in Clients
        BY <1>0, <4>1 DEF Types
      <4>3. n # 0
        BY <3>2 DEF Numbers
      <4>4. pc[open[n]] \in {"start", "failed"} \/ m_fd[open[n]] = n
        BY <3>2, <4>2, <4>3 DEF IInv, Owning
      <4>5. m_fd[open[n]] = n => Connected(open[n])
        BY <4>2, <4>3 DEF IInv, Owning
      <4> QED
        BY <4>2, <4>4, <4>5 DEF Connected, AtWork
    <3>4. f \in Injection(N, S)
      <4>1. f \in [N -> S]
        BY <3>3
      <4>2. \A n, m \in N : f[n] = f[m] => n = m
        BY <3>3 DEF IInv, Owning
      <4> QED
        BY <4>1, <4>2 DEF Injection, IsInjective
    <3>5. IsFiniteSet(S) /\ Cardinality(S) \in Nat
      BY LoopAssumption, FS_Subset, FS_CardinalityType
    <3>6. IsFiniteSet(Numbers) /\ Cardinality(Numbers) = MaxFds
      BY <3>2, FS_Interval DEF Numbers
    <3>7. Cardinality(N) = MaxFds - 1
      BY <3>2, <3>6, FS_RemoveElement
    <3>8. Cardinality(N) <= Cardinality(S)
      <4> HIDE DEF f, S, N
      <4> QED
        BY <3>4, <3>5, FS_Injection DEF ExistsInjection
    <3>9. Cardinality(S) + 1 >= MaxFds
      BY <3>2, <3>5, <3>7, <3>8
    <3>10. {c \in Clients : AtWork(c) \/ pc[c] = "failed"}' = S
      BY <3>1 DEF AtWork
    <3> QED
      BY <3>1, <3>9, <3>10 DEF EndsOnlyBy
  <2> QED
    BY <2>2, <2>3
<1> QED
  BY <1>1, <1>2

(* Once it listens the server ends only when accept is refused, by a reset      *)
(* connection, or when all descriptors are in the hands of workers and of      *)
(* threads never created, for any number of clients, descriptors and failures. *)
THEOREM ServerGoesOn == Spec => []EndsOnlyBy
<1>1. Init => EndsOnlyBy
  BY DEF Init, EndsOnlyBy
<1> QED
  BY <1>1, EndingInv, Invariance, PTL DEF Spec
=============================================================================
