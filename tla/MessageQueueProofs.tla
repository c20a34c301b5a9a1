------------------------- MODULE MessageQueueProofs -------------------------
(* Proofs about MessageQueue, for any number of producers and consumers. *)
EXTENDS MessageQueue, FiniteSetTheorems, SequenceTheorems, TLAPS

IInv == TypeOK /\ LockHeldInside /\ TokensCountMessages

(* The two counted sets are finite. *)
LEMMA CountedSetsFinite ==
  /\ IsFiniteSet(TokenHolders) /\ Cardinality(TokenHolders) \in Nat
  /\ IsFiniteSet(Unposted) /\ Cardinality(Unposted) \in Nat
<1>1. TokenHolders \subseteq Consumers /\ Unposted \subseteq Producers
  BY DEF TokenHolders, Unposted
<1> QED
  BY <1>1, FS_Subset, FS_CardinalityType, QueueAssumption

(* Initially nobody holds a token or owes a post. *)
LEMMA InitInv == Init => IInv
<1> SUFFICES ASSUME Init PROVE IInv
  OBVIOUS
<1>1. TypeOK
  BY QueueAssumption DEF Init, TypeOK, Threads, MessageIds
<1>2. LockHeldInside
  BY QueueAssumption DEF Init, LockHeldInside, InCriticalSection, Threads
<1>3. TokenHolders = {} /\ Unposted = {}
  BY DEF Init, TokenHolders, Unposted, Threads
<1>4. TokensCountMessages
  BY <1>3, FS_EmptySet DEF Init, TokensCountMessages
<1> QED
  BY <1>1, <1>2, <1>4 DEF IInv

(* Every action keeps the variables in their types. *)
LEMMA NextType == TypeOK /\ [Next]_qvars => TypeOK'
<1> SUFFICES ASSUME TypeOK, [Next]_qvars PROVE TypeOK'
  OBVIOUS
<1> USE QueueAssumption DEF TypeOK, Threads, Goto, Lock, Unlock
<1>1. ASSUME NEW p \in Producers, EnqCall(p) PROVE TypeOK'
  <2>1. sent[p] + 1 \in 0..MaxEnq
    BY <1>1 DEF EnqCall
  <2> QED
    BY <1>1, <2>1 DEF EnqCall
<1>2. ASSUME NEW p \in Producers, EnqLock(p) PROVE TypeOK'
  BY <1>2 DEF EnqLock
<1>3. ASSUME NEW p \in Producers, EnqPush(p) PROVE TypeOK'
  <2>1. <<p, sent[p]>> \in MessageIds
    BY DEF MessageIds
  <2>2. Append(m_messages, <<p, sent[p]>>) \in Seq(MessageIds)
    BY <2>1
  <2> QED
    BY <1>3, <2>2 DEF EnqPush
<1>4. ASSUME NEW p \in Producers, EnqPost(p) PROVE TypeOK'
  BY <1>4 DEF EnqPost
<1>5. ASSUME NEW p \in Producers, EnqUnlock(p) PROVE TypeOK'
  BY <1>5 DEF EnqUnlock
<1>6. ASSUME NEW c \in Consumers, DeqCall(c) PROVE TypeOK'
  <2>1. CASE m_avail > 0
    <3>1. m_avail - 1 \in Nat
      BY <2>1
    <3> QED
      BY <1>6, <2>1, <3>1 DEF DeqCall
  <2>2. CASE ~(m_avail > 0)
    BY <1>6, <2>2 DEF DeqCall
  <2> QED
    BY <2>1, <2>2
<1>7. ASSUME NEW c \in Consumers, DeqWake(c) PROVE TypeOK'
  BY <1>7 DEF DeqWake
<1>8. ASSUME NEW c \in Consumers, DeqTimeOut(c) PROVE TypeOK'
  BY <1>8 DEF DeqTimeOut
<1>9. ASSUME NEW c \in Consumers, DeqLock(c) PROVE TypeOK'
  BY <1>9 DEF DeqLock
<1>10. ASSUME NEW c \in Consumers, DeqPop(c) PROVE TypeOK'
  <2>1. CASE m_messages # <<>>
    <3>1. /\ Head(m_messages) \in MessageIds
          /\ Tail(m_messages) \in Seq(MessageIds)
          /\ Append(returned[c], Head(m_messages)) \in Seq(MessageIds)
      BY <2>1
    <3>2. /\ m_messages' = Tail(m_messages)
          /\ returned' = [returned EXCEPT ![c] = Append(@, Head(m_messages))]
          /\ pc' = [pc EXCEPT ![c] = "d_unlock"]
          /\ UNCHANGED <<m_avail, m_lock, sent>>
      BY <1>10, <2>1 DEF DeqPop
    <3> QED
      BY <3>1, <3>2
  <2>2. CASE m_messages = <<>>
    BY <1>10, <2>2 DEF DeqPop
  <2> QED
    BY <2>1, <2>2
<1>11. ASSUME NEW c \in Consumers, DeqUnlock(c) PROVE TypeOK'
  BY <1>11 DEF DeqUnlock
<1>12. CASE UNCHANGED qvars
  BY <1>12 DEF qvars
<1> QED
  BY <1>1, <1>2, <1>3, <1>4, <1>5, <1>6, <1>7, <1>8, <1>9, <1>10, <1>11, <1>12
     DEF Next, Producer, Consumer

(* The mutex is held by exactly the thread in a critical section. *)
LEMMA NextLock == TypeOK /\ LockHeldInside /\ [Next]_qvars => LockHeldInside'
<1> SUFFICES ASSUME TypeOK, LockHeldInside, [Next]_qvars PROVE LockHeldInside'
  OBVIOUS
<1>0. pc \in [Threads -> {"idle", "e_lock", "push", "post", "e_unlock",
                         "wait", "d_lock", "pop", "d_unlock"}]
  BY DEF TypeOK
<1> USE <1>0, QueueAssumption
    DEF LockHeldInside, InCriticalSection, Threads, Goto, Lock, Unlock
<1>1. ASSUME NEW p \in Producers, Producer(p) PROVE LockHeldInside'
  BY <1>1 DEF Producer, EnqCall, EnqLock, EnqPush, EnqPost, EnqUnlock
<1>2. ASSUME NEW c \in Consumers, DeqCall(c) PROVE LockHeldInside'
  BY <1>2 DEF DeqCall
<1>3. ASSUME NEW c \in Consumers,
             DeqWake(c) \/ DeqTimeOut(c) \/ DeqLock(c) \/ DeqPop(c) \/ DeqUnlock(c)
      PROVE LockHeldInside'
  BY <1>3 DEF DeqWake, DeqTimeOut, DeqLock, DeqPop, DeqUnlock
<1>4. CASE UNCHANGED qvars
  BY <1>4 DEF qvars
<1> QED
  BY <1>1, <1>2, <1>3, <1>4 DEF Next, Consumer

(* The mutex allows one producer at a time between push_back and sem_post. *)
LEMMA UnpostedAlone ==
  ASSUME TypeOK, LockHeldInside, NEW p \in Producers, m_lock = p
  PROVE  Unposted = IF pc[p] = "post" THEN {p} ELSE {}
BY QueueAssumption
   DEF LockHeldInside, InCriticalSection, Unposted, Threads

(* What a step does to the two counted sets and to the counters it may touch. *)
LEMMA NextTokens ==
  TypeOK /\ LockHeldInside /\ TokensCountMessages /\ [Next]_qvars
    => TokensCountMessages'
<1> SUFFICES ASSUME TypeOK, LockHeldInside, TokensCountMessages, [Next]_qvars
             PROVE  TokensCountMessages'
  OBVIOUS
<1> USE QueueAssumption
<1>a. /\ pc \in [Threads -> {"idle", "e_lock", "push", "post", "e_unlock",
                            "wait", "d_lock", "pop", "d_unlock"}]
      /\ m_messages \in Seq(MessageIds) /\ m_avail \in Nat
      /\ sent \in [Producers -> 0..MaxEnq]
  BY DEF TypeOK
<1>b. /\ IsFiniteSet(TokenHolders) /\ Cardinality(TokenHolders) \in Nat
      /\ IsFiniteSet(Unposted) /\ Cardinality(Unposted) \in Nat
  BY CountedSetsFinite
<1>c. Len(m_messages) = m_avail + Cardinality(TokenHolders) + Cardinality(Unposted)
  BY DEF TokensCountMessages
\* It is enough to show what the step adds to each term.
<1>d. ASSUME NEW dl \in Int, NEW da \in Int, NEW dt \in Int, NEW du \in Int,
             Len(m_messages') = Len(m_messages) + dl, m_avail' = m_avail + da,
             Cardinality(TokenHolders') = Cardinality(TokenHolders) + dt,
             Cardinality(Unposted') = Cardinality(Unposted) + du,
             dl = da + dt + du
      PROVE  TokensCountMessages'
  <2>1. Len(m_messages) \in Nat
    BY <1>a
  <2> QED
    BY <1>a, <1>b, <1>c, <1>d, <2>1 DEF TokensCountMessages
<1>1. ASSUME NEW p \in Producers, EnqCall(p) \/ EnqLock(p) \/ EnqUnlock(p)
      PROVE TokensCountMessages'
  <2>1. TokenHolders' = TokenHolders /\ Unposted' = Unposted
    BY <1>1, <1>a DEF EnqCall, EnqLock, EnqUnlock, Goto, TokenHolders, Unposted, Threads
  <2>2. UNCHANGED <<m_messages, m_avail>>
    BY <1>1 DEF EnqCall, EnqLock, EnqUnlock
  <2> QED
    BY <1>c, <2>1, <2>2 DEF TokensCountMessages
<1>2. ASSUME NEW p \in Producers, EnqPush(p) PROVE TokensCountMessages'
  <2>1. pc[p] = "push" /\ m_lock = p
    BY <1>2 DEF EnqPush, Goto, LockHeldInside, InCriticalSection, Threads
  <2>2. Unposted = {} /\ Unposted' = {p}
    <3>1. Unposted = {}
      BY <2>1, UnpostedAlone
    <3>2. pc' = [pc EXCEPT ![p] = "post"]
      BY <1>2 DEF EnqPush, Goto
    <3> QED
      BY <3>1, <3>2, <1>a DEF Unposted, Threads
  <2>3. TokenHolders' = TokenHolders
    BY <1>2, <1>a DEF EnqPush, Goto, TokenHolders, Threads
  <2>4. Cardinality(Unposted) = 0 /\ Cardinality(Unposted') = 1
    BY <2>2, FS_EmptySet, FS_Singleton
  <2>5. Len(m_messages') = Len(m_messages) + 1
    BY <1>2, <1>a DEF EnqPush, MessageIds
  <2>6. m_avail' = m_avail
    BY <1>2 DEF EnqPush
  <2> QED
    BY <1>a, <1>b, <2>3, <2>4, <2>5, <2>6, <1>d
<1>3. ASSUME NEW p \in Producers, EnqPost(p) PROVE TokensCountMessages'
  <2>1. pc[p] = "post" /\ m_lock = p
    BY <1>3 DEF EnqPost, Goto, LockHeldInside, InCriticalSection, Threads
  <2>2. Unposted = {p} /\ Unposted' = {}
    <3>1. Unposted = {p}
      BY <2>1, UnpostedAlone
    <3>2. pc' = [pc EXCEPT ![p] = "e_unlock"]
      BY <1>3 DEF EnqPost, Goto
    <3> QED
      BY <3>1, <3>2, <1>a DEF Unposted, Threads
  <2>3. TokenHolders' = TokenHolders
    BY <1>3, <1>a DEF EnqPost, Goto, TokenHolders, Threads
  <2>4. Cardinality(Unposted) = 1 /\ Cardinality(Unposted') = 0
    BY <2>2, FS_EmptySet, FS_Singleton
  <2>5. m_messages' = m_messages /\ m_avail' = m_avail + 1
    BY <1>3 DEF EnqPost
  <2>6. Len(m_messages) \in Nat
    BY <1>a
  <2> QED
    BY <1>a, <1>b, <2>3, <2>4, <2>5, <2>6, <1>d
\* A consumer takes a token: by the fast path or after a wait.
<1>4. ASSUME NEW c \in Consumers, m_avail' = m_avail - 1,
             pc[c] \in {"idle", "wait"}, pc' = [pc EXCEPT ![c] = "d_lock"],
             m_messages' = m_messages
      PROVE  TokensCountMessages'
  <2>1. TokenHolders' = TokenHolders \cup {c} /\ c \notin TokenHolders
    BY <1>4, <1>a DEF TokenHolders, Threads
  <2>2. Cardinality(TokenHolders') = Cardinality(TokenHolders) + 1
    BY <2>1, <1>b, FS_AddElement
  <2>3. Unposted' = Unposted
    BY <1>4, <1>a DEF Unposted, Threads
  <2>4. Len(m_messages) \in Nat
    BY <1>a
  <2> QED
    BY <1>a, <1>b, <1>4, <2>2, <2>3, <2>4, <1>d
<1>5. ASSUME NEW c \in Consumers, DeqCall(c) PROVE TokensCountMessages'
  <2>1. CASE m_avail > 0
    <3>1. /\ m_avail' = m_avail - 1 /\ pc[c] = "idle"
          /\ pc' = [pc EXCEPT ![c] = "d_lock"] /\ m_messages' = m_messages
      BY <1>5, <2>1 DEF DeqCall, Goto
    <3> QED
      BY <3>1, <1>4
  <2>2. CASE ~(m_avail > 0)
    <3>1. TokenHolders' = TokenHolders /\ Unposted' = Unposted
      BY <1>5, <2>2, <1>a DEF DeqCall, Goto, TokenHolders, Unposted, Threads
    <3>2. UNCHANGED <<m_messages, m_avail>>
      BY <1>5, <2>2 DEF DeqCall
    <3> QED
      BY <1>c, <3>1, <3>2 DEF TokensCountMessages
  <2> QED
    BY <2>1, <2>2
<1>6. ASSUME NEW c \in Consumers, DeqWake(c) PROVE TokensCountMessages'
  <2>1. /\ m_avail' = m_avail - 1 /\ pc[c] = "wait"
        /\ pc' = [pc EXCEPT ![c] = "d_lock"] /\ m_messages' = m_messages
    BY <1>6 DEF DeqWake, Goto
  <2> QED
    BY <2>1, <1>4
<1>7. ASSUME NEW c \in Consumers, DeqTimeOut(c) \/ DeqLock(c) \/ DeqUnlock(c)
      PROVE TokensCountMessages'
  <2>1. TokenHolders' = TokenHolders /\ Unposted' = Unposted
    BY <1>7, <1>a DEF DeqTimeOut, DeqLock, DeqUnlock, Goto, TokenHolders, Unposted, Threads
  <2>2. UNCHANGED <<m_messages, m_avail>>
    BY <1>7 DEF DeqTimeOut, DeqLock, DeqUnlock
  <2> QED
    BY <1>c, <2>1, <2>2 DEF TokensCountMessages
\* The pop gives the token back; the count says a message was there to pop.
<1>8. ASSUME NEW c \in Consumers, DeqPop(c) PROVE TokensCountMessages'
  <2>1. pc[c] = "pop" /\ pc' = [pc EXCEPT ![c] = "d_unlock"]
    BY <1>8 DEF DeqPop, Goto
  <2>2. TokenHolders' = TokenHolders \ {c} /\ c \in TokenHolders
    BY <2>1, <1>a DEF TokenHolders, Threads
  <2>3. Cardinality(TokenHolders') = Cardinality(TokenHolders) - 1
    BY <2>2, <1>b, FS_RemoveElement
  <2>4. Unposted' = Unposted
    BY <2>1, <1>a DEF Unposted, Threads
  <2>5. Cardinality(TokenHolders) > 0
    BY <2>2, <1>b, FS_EmptySet
  <2>6. Len(m_messages) > 0
    BY <2>5, <1>a, <1>b, <1>c
  <2>7. m_messages' = Tail(m_messages) /\ m_avail' = m_avail
    BY <1>8, <2>6, <1>a DEF DeqPop
  <2>8. Len(m_messages') = Len(m_messages) - 1 /\ Len(m_messages) \in Nat
    BY <2>6, <2>7, <1>a
  <2> QED
    BY <1>a, <1>b, <1>c, <2>3, <2>4, <2>7, <2>8 DEF TokensCountMessages
<1>9. CASE UNCHANGED qvars
  BY <1>c, <1>9 DEF qvars, TokensCountMessages, TokenHolders, Unposted
<1> QED
  BY <1>1, <1>2, <1>3, <1>5, <1>6, <1>7, <1>8, <1>9 DEF Next, Producer, Consumer

(* TypeOK, the discipline of the mutex (message_queue.h:28) and the accounting *)
(* of the semaphore (message_queue.h:24-26) hold in every reachable state.     *)
THEOREM TokenAccounting == Spec => [](TypeOK /\ LockHeldInside /\ TokensCountMessages)
<1>1. Init => IInv
  BY InitInv
<1>2. IInv /\ [Next]_qvars => IInv'
  BY NextType, NextLock, NextTokens DEF IInv
<1>3. IInv => TypeOK /\ LockHeldInside /\ TokensCountMessages
  BY DEF IInv
<1> QED
  BY <1>1, <1>2, <1>3, PTL DEF Spec

(* dequeue never returns nullptr once it got past sem_timedwait                *)
(* (message_queue.cpp:62), for any number of consumers of one queue.           *)
THEOREM PopAlwaysFinds == Spec => []PopFindsMessage
<1>1. TypeOK /\ TokensCountMessages => PopFindsMessage
  <2> SUFFICES ASSUME TypeOK, TokensCountMessages, NEW c \in Consumers, pc[c] = "pop"
               PROVE  m_messages # <<>>
    BY DEF PopFindsMessage
  <2>1. c \in TokenHolders
    BY DEF TokenHolders
  <2>2. Cardinality(TokenHolders) > 0
    BY <2>1, CountedSetsFinite, FS_EmptySet
  <2>3. Len(m_messages) > 0
    BY <2>2, CountedSetsFinite DEF TypeOK, TokensCountMessages
  <2> QED
    BY <2>3
<1> QED
  BY <1>1, TokenAccounting, PTL
-----------------------------------------------------------------------------
(* What the mapping to FifoQueue needs besides: a producer between push_back   *)
(* and sem_post still finds its message at the back, for it holds the mutex.   *)
LastPushed ==
  \A p \in Producers : pc[p] = "post" =>
    m_messages # <<>> /\ m_messages[Len(m_messages)] = <<p, sent[p]>>

LEMMA LastPushedInit == Init => LastPushed
BY DEF Init, LastPushed, Threads

LEMMA LastPushedNext == IInv /\ LastPushed /\ [Next]_qvars => LastPushed'
<1> SUFFICES ASSUME IInv, LastPushed, [Next]_qvars PROVE LastPushed'
  OBVIOUS
<1>0. /\ pc \in [Threads -> {"idle", "e_lock", "push", "post", "e_unlock",
                            "wait", "d_lock", "pop", "d_unlock"}]
      /\ m_messages \in Seq(MessageIds) /\ sent \in [Producers -> 0..MaxEnq]
      /\ Producers \subseteq Threads /\ Consumers \subseteq Threads
      /\ Producers \cap Consumers = {}
  BY QueueAssumption DEF IInv, TypeOK, Threads
\* Two threads are never inside at once.
<1>1. ASSUME NEW t \in Threads, NEW p \in Producers,
             InCriticalSection(t), pc[p] = "post"
      PROVE  t = p
  BY <1>0, <1>1 DEF IInv, LockHeldInside, InCriticalSection
<1>2. ASSUME NEW p \in Producers, EnqPush(p) PROVE LastPushed'
  <2>1. /\ pc[p] = "push" /\ pc' = [pc EXCEPT ![p] = "post"]
        /\ m_messages' = Append(m_messages, <<p, sent[p]>>) /\ sent' = sent
    BY <1>2 DEF EnqPush, Goto
  <2>2. /\ m_messages' # <<>> /\ Len(m_messages') = Len(m_messages) + 1
        /\ m_messages'[Len(m_messages')] = <<p, sent[p]>>
    <3>1. <<p, sent[p]>> \in MessageIds
      BY <1>0 DEF MessageIds
    <3> DEFINE x == <<p, sent[p]>>
    <3>2. /\ Append(m_messages, x) # <<>> /\ Len(Append(m_messages, x)) = Len(m_messages) + 1
          /\ Append(m_messages, x)[Len(m_messages) + 1] = x
      <4> HIDE DEF x
      <4> QED
        BY <1>0, <3>1, AppendProperties DEF x
    <3> QED
      BY <2>1, <3>2
  <2>3. \A q \in Producers : pc'[q] = "post" => q = p
    BY <1>0, <1>1, <2>1 DEF InCriticalSection
  <2> QED
    BY <2>1, <2>2, <2>3 DEF LastPushed
<1>3. ASSUME NEW c \in Consumers, DeqPop(c) PROVE LastPushed'
  <2>1. pc[c] = "pop" /\ pc' = [pc EXCEPT ![c] = "d_unlock"]
    BY <1>3 DEF DeqPop, Goto
  <2>2. \A q \in Producers : pc'[q] # "post"
    BY <1>0, <1>1, <2>1 DEF InCriticalSection
  <2> QED
    BY <2>2 DEF LastPushed
<1>4. ASSUME m_messages' = m_messages,
             \A q \in Producers : pc'[q] = "post" => pc[q] = "post" /\ sent'[q] = sent[q]
      PROVE LastPushed'
  BY <1>4 DEF LastPushed
<1>5. ASSUME NEW p \in Producers, EnqCall(p) \/ EnqLock(p) \/ EnqPost(p) \/ EnqUnlock(p)
      PROVE LastPushed'
  BY <1>0, <1>4, <1>5 DEF EnqCall, EnqLock, EnqPost, EnqUnlock, Goto
<1>6. ASSUME NEW c \in Consumers,
             DeqCall(c) \/ DeqWake(c) \/ DeqTimeOut(c) \/ DeqLock(c) \/ DeqUnlock(c)
      PROVE LastPushed'
  BY <1>0, <1>4, <1>6 DEF DeqCall, DeqWake, DeqTimeOut, DeqLock, DeqUnlock, Goto
<1>7. CASE UNCHANGED qvars
  BY <1>4, <1>7 DEF qvars
<1> QED
  BY <1>2, <1>3, <1>5, <1>6, <1>7 DEF Next, Producer, Consumer

(* What FifoQueue's variables stand for. *)
Enqueued == [p \in Producers |->
               IF pc[p] \in {"e_lock", "push", "post"} THEN sent[p] - 1 ELSE sent[p]]
Calling == {c \in Consumers : pc[c] # "idle"}
SawEmpty == {c \in Consumers : pc[c] = "wait"}

\* The queue as its callers see it has one message per token.
LEMMA PostedLength ==
  ASSUME IInv
  PROVE  /\ PostedMessages \in Seq(MessageIds)
         /\ Len(PostedMessages) = m_avail + Cardinality(TokenHolders)
         /\ Unposted = {} => PostedMessages = m_messages
<1>1. m_messages \in Seq(MessageIds) /\ m_avail \in Nat /\ Len(m_messages) \in Nat
  BY DEF IInv, TypeOK
<1>2. Len(m_messages) = m_avail + Cardinality(TokenHolders) + Cardinality(Unposted)
  BY DEF IInv, TokensCountMessages
<1>3. Cardinality(TokenHolders) \in Nat /\ Cardinality(Unposted) \in Nat
  BY CountedSetsFinite
<1> DEFINE n == Len(m_messages) - Cardinality(Unposted)
<1>4. n \in Int /\ n <= Len(m_messages) /\ n = m_avail + Cardinality(TokenHolders) /\ n >= 0
  BY <1>1, <1>2, <1>3
<1>5. \A i \in 1..n : m_messages[i] \in MessageIds
  BY <1>1, <1>4, ElementOfSeq
<1>6. /\ SubSeq(m_messages, 1, n) \in Seq(MessageIds)
      /\ Len(SubSeq(m_messages, 1, n)) = IF 1 <= n THEN n - 1 + 1 ELSE 0
  <2> HIDE DEF n
  <2> QED
    BY <1>4, <1>5, SubSeqProperties
<1>7. Unposted = {} => n = Len(m_messages)
  BY <1>1, FS_EmptySet
<1>8. Unposted = {} => SubSeq(m_messages, 1, n) = m_messages
  BY <1>1, <1>7, SubSeqFull
<1> QED
  BY <1>4, <1>6, <1>8 DEF PostedMessages

(* A step that leaves the messages and the two counted sets alone. *)
LEMMA SameQueue ==
  ASSUME m_messages' = m_messages, Unposted' = Unposted
  PROVE  PostedMessages' = PostedMessages
BY DEF PostedMessages

LEMMA NothingUnposted == IInv /\ Unposted = {} => PostedMessages = m_messages
BY PostedLength

\* The Cardinality of FifoQueue is the one of this module.
LEMMA SameCardinality == \A S : Fifo!Cardinality(S) = Cardinality(S)
BY DEF Cardinality, Fifo!Cardinality

LEMMA FifoInit == Init => Fifo!Init
<1> SUFFICES ASSUME Init PROVE Fifo!Init
  OBVIOUS
<1>1. TokenHolders = {} /\ Calling = {} /\ SawEmpty = {} /\ Unposted = {}
  BY DEF Init, TokenHolders, Calling, SawEmpty, Unposted, Threads
<1>2. Enqueued = [p \in Producers |-> 0]
  BY DEF Init, Enqueued, Threads
<1>3. PostedMessages = <<>>
  BY <1>1, InitInv, PostedLength DEF Init
<1> QED
  BY <1>1, <1>2, <1>3 DEF Init, Fifo!Init, Enqueued, Calling, SawEmpty

(* Each step is a step of FifoQueue or leaves its variables alone. *)
LEMMA FifoStep == IInv /\ IInv' /\ LastPushed /\ [Next]_qvars => [Fifo!Next]_Fifo!fvars
<1> SUFFICES ASSUME IInv, IInv', LastPushed, [Next]_qvars PROVE [Fifo!Next]_Fifo!fvars
  OBVIOUS
<1>0. /\ pc \in [Threads -> {"idle", "e_lock", "push", "post", "e_unlock",
                            "wait", "d_lock", "pop", "d_unlock"}]
      /\ \A p \in Producers : pc[p] \in {"idle", "e_lock", "push", "post", "e_unlock"}
      /\ \A c \in Consumers : pc[c] \in {"idle", "wait", "d_lock", "pop", "d_unlock"}
      /\ m_messages \in Seq(MessageIds) /\ sent \in [Producers -> 0..MaxEnq]
      /\ m_avail \in Nat /\ MaxEnq \in Nat
      /\ Producers \subseteq Threads /\ Consumers \subseteq Threads
      /\ Producers \cap Consumers = {}
      /\ Cardinality(TokenHolders) \in Nat
  BY QueueAssumption, CountedSetsFinite DEF IInv, TypeOK, Threads
<1>a. ASSUME UNCHANGED <<Enqueued, PostedMessages, Calling, TokenHolders, SawEmpty, returned>>
      PROVE  UNCHANGED Fifo!fvars
  BY <1>a DEF Fifo!fvars, Enqueued, Calling, SawEmpty
\* What a producer's step leaves alone.
<1>b. ASSUME NEW p \in Producers, NEW to, pc' = [pc EXCEPT ![p] = to]
      PROVE  UNCHANGED <<Calling, TokenHolders, SawEmpty>>
  BY <1>0, <1>b DEF Calling, TokenHolders, SawEmpty
<1>c. ASSUME NEW c \in Consumers, NEW to, pc' = [pc EXCEPT ![c] = to], sent' = sent
      PROVE  Enqueued' = Enqueued /\ Unposted' = Unposted
  BY <1>0, <1>c DEF Enqueued, Unposted
<1>1. ASSUME NEW p \in Producers, EnqCall(p) \/ EnqLock(p) \/ EnqUnlock(p)
      PROVE UNCHANGED Fifo!fvars
  <2>1. Unposted' = Unposted /\ m_messages' = m_messages /\ returned' = returned
    BY <1>0, <1>1 DEF EnqCall, EnqLock, EnqUnlock, Goto, Unposted
  <2>2. Enqueued' = Enqueued
    <3>1. CASE EnqCall(p)
      <4>1. /\ pc[p] = "idle" /\ pc' = [pc EXCEPT ![p] = "e_lock"]
            /\ sent' = [sent EXCEPT ![p] = sent[p] + 1] /\ sent[p] \in Nat
        BY <1>0, <3>1 DEF EnqCall, Goto
      <4>2. sent'[p] - 1 = sent[p] /\ pc'[p] = "e_lock"
        BY <1>0, <4>1
      <4> QED
        BY <1>0, <4>1, <4>2 DEF Enqueued
    <3>2. CASE EnqLock(p) \/ EnqUnlock(p)
      BY <1>0, <3>2 DEF EnqLock, EnqUnlock, Goto, Enqueued
    <3> QED
      BY <1>1, <3>1, <3>2
  <2>3. UNCHANGED <<Calling, TokenHolders, SawEmpty>>
    BY <1>1, <1>b DEF EnqCall, EnqLock, EnqUnlock, Goto
  <2> QED
    BY <1>a, <2>1, <2>2, <2>3, SameQueue
\* The message is not posted yet.
<1>2. ASSUME NEW p \in Producers, EnqPush(p) PROVE UNCHANGED Fifo!fvars
  <2>1. /\ pc[p] = "push" /\ pc' = [pc EXCEPT ![p] = "post"] /\ m_lock = p
        /\ m_messages' = Append(m_messages, <<p, sent[p]>>)
        /\ sent' = sent /\ returned' = returned
    BY <1>2 DEF EnqPush, Goto, IInv, LockHeldInside, InCriticalSection, Threads
  <2>2. Unposted = {} /\ Unposted' = {p}
    <3>1. Unposted = {}
      BY <2>1, UnpostedAlone DEF IInv
    <3> QED
      BY <3>1, <2>1, <1>0 DEF Unposted
  <2>3. PostedMessages = m_messages
    BY <2>2, PostedLength
  <2>4. Cardinality(Unposted') = 1
    BY <2>2, FS_Singleton
  <2>5. PostedMessages' = m_messages
    <3> DEFINE x == <<p, sent[p]>>
    <3>1. x \in MessageIds /\ Len(m_messages) \in Nat
      BY <1>0 DEF MessageIds
    <3>2. Len(m_messages') - Cardinality(Unposted') = Len(m_messages)
      BY <1>0, <2>1, <2>4, <3>1, AppendProperties
    <3>3. SubSeq(Append(m_messages, x), 1, Len(m_messages)) = m_messages
      <4> HIDE DEF x
      <4> QED
        BY <1>0, <3>1
    <3> QED
      BY <2>1, <3>2, <3>3 DEF PostedMessages
  <2>6. Enqueued' = Enqueued
    BY <1>0, <2>1 DEF Enqueued
  <2> QED
    BY <1>a, <1>b, <2>1, <2>3, <2>5, <2>6
<1>3. ASSUME NEW p \in Producers, EnqPost(p) PROVE Fifo!Enqueue(p)
  <2>1. /\ pc[p] = "post" /\ pc' = [pc EXCEPT ![p] = "e_unlock"] /\ m_lock = p
        /\ m_messages' = m_messages /\ sent' = sent /\ returned' = returned
    BY <1>3 DEF EnqPost, Goto, IInv, LockHeldInside, InCriticalSection, Threads
  <2>2. Unposted = {p} /\ Unposted' = {}
    <3>1. Unposted = {p}
      BY <2>1, UnpostedAlone DEF IInv
    <3> QED
      BY <3>1, <2>1, <1>0 DEF Unposted
  <2>3. PostedMessages' = m_messages
    <3>1. (IInv /\ Unposted = {} => PostedMessages = m_messages)'
      BY NothingUnposted, PTL
    <3> QED
      BY <2>1, <2>2, <3>1
  <2>4. /\ m_messages # <<>> /\ m_messages[Len(m_messages)] = <<p, sent[p]>>
        /\ Len(m_messages) \in Nat \ {0}
    BY <1>0, <2>1, EmptySeq DEF LastPushed
  <2>5. PostedMessages = SubSeq(m_messages, 1, Len(m_messages) - 1)
    <3>1. Cardinality(Unposted) = 1
      BY <2>2, FS_Singleton
    <3> QED
      BY <3>1 DEF PostedMessages
  <2>6. PostedMessages' = Append(PostedMessages, <<p, sent[p]>>)
    <3>1. m_messages = Append(SubSeq(m_messages, 1, Len(m_messages) - 1),
                              m_messages[Len(m_messages)])
      BY <1>0, <2>4
    <3> QED
      BY <2>3, <2>4, <2>5, <3>1
  <2>7. /\ Enqueued[p] + 1 = sent[p] /\ Enqueued[p] < MaxEnq
        /\ Enqueued' = [Enqueued EXCEPT ![p] = sent[p]]
    <3>1. sent[p] \in 0..MaxEnq
      BY <1>0
    <3>2. Enqueued[p] = sent[p] - 1
      BY <2>1 DEF Enqueued
    <3>3. Enqueued' = [Enqueued EXCEPT ![p] = sent[p]]
      BY <1>0, <2>1 DEF Enqueued
    <3>4. sent[p] \in Nat /\ sent[p] <= MaxEnq /\ MaxEnq \in Nat
      BY <3>1, QueueAssumption
    <3>5. Enqueued[p] + 1 = sent[p] /\ Enqueued[p] < MaxEnq
      BY <3>2, <3>4
    <3> QED
      BY <3>3, <3>5
  <2>8. UNCHANGED <<Calling, TokenHolders, SawEmpty>>
    BY <1>b, <2>1
  <2>9. /\ Enqueued[p] < MaxEnq
        /\ Enqueued' = [Enqueued EXCEPT ![p] = Enqueued[p] + 1]
        /\ PostedMessages' = Append(PostedMessages, <<p, Enqueued[p] + 1>>)
    BY <2>6, <2>7
  <2> QED
    BY <2>1, <2>8, <2>9 DEF Fifo!Enqueue, Enqueued, Calling, SawEmpty
<1>4. ASSUME NEW c \in Consumers, DeqCall(c) PROVE Fifo!Call(c)
  <2>1. pc[c] = "idle" /\ UNCHANGED <<m_messages, sent, returned>>
    BY <1>4 DEF DeqCall
  <2>2. CASE m_avail > 0
    <3>1. pc' = [pc EXCEPT ![c] = "d_lock"]
      BY <1>4, <2>2 DEF DeqCall, Goto
    <3>2. /\ c \notin Calling /\ Calling' = Calling \cup {c}
          /\ TokenHolders' = TokenHolders \cup {c} /\ SawEmpty' = SawEmpty
      BY <1>0, <2>1, <3>1 DEF Calling, TokenHolders, SawEmpty
    <3>3. Cardinality(TokenHolders) < Len(PostedMessages)
      BY <1>0, <2>2, PostedLength
    <3>4. PostedMessages' = PostedMessages /\ Enqueued' = Enqueued
      BY <1>c, <2>1, <3>1, SameQueue
    <3> QED
      BY <2>1, <3>2, <3>3, <3>4, SameCardinality DEF Fifo!Call, Enqueued, Calling, SawEmpty
  <2>3. CASE ~(m_avail > 0)
    <3>1. pc' = [pc EXCEPT ![c] = "wait"]
      BY <1>4, <2>3 DEF DeqCall, Goto
    <3>2. /\ c \notin Calling /\ Calling' = Calling \cup {c}
          /\ SawEmpty' = SawEmpty \cup {c} /\ TokenHolders' = TokenHolders
      BY <1>0, <2>1, <3>1 DEF Calling, TokenHolders, SawEmpty
    <3>3. ~(Cardinality(TokenHolders) < Len(PostedMessages))
      BY <1>0, <2>3, PostedLength
    <3>4. PostedMessages' = PostedMessages /\ Enqueued' = Enqueued
      BY <1>c, <2>1, <3>1, SameQueue
    <3> QED
      BY <2>1, <3>2, <3>3, <3>4, SameCardinality DEF Fifo!Call, Enqueued, Calling, SawEmpty
  <2> QED
    BY <2>2, <2>3
<1>5. ASSUME NEW c \in Consumers, DeqWake(c) PROVE Fifo!Claim(c)
  <2>1. /\ m_avail > 0 /\ pc[c] = "wait" /\ pc' = [pc EXCEPT ![c] = "d_lock"]
        /\ UNCHANGED <<m_messages, sent, returned>>
    BY <1>5 DEF DeqWake, Goto
  <2>2. /\ c \in SawEmpty /\ SawEmpty' = SawEmpty \ {c} /\ Calling' = Calling
        /\ TokenHolders' = TokenHolders \cup {c}
    BY <1>0, <2>1 DEF Calling, TokenHolders, SawEmpty
  <2>3. Cardinality(TokenHolders) < Len(PostedMessages)
    BY <1>0, <2>1, PostedLength
  <2>4. PostedMessages' = PostedMessages /\ Enqueued' = Enqueued
    BY <1>c, <2>1, SameQueue
  <2> QED
    BY <2>1, <2>2, <2>3, <2>4, SameCardinality DEF Fifo!Claim, Enqueued, Calling, SawEmpty
<1>6. ASSUME NEW c \in Consumers, DeqTimeOut(c) PROVE Fifo!ReturnNull(c)
  <2>1. /\ pc[c] = "wait" /\ pc' = [pc EXCEPT ![c] = "idle"]
        /\ UNCHANGED <<m_messages, sent, returned>>
    BY <1>6 DEF DeqTimeOut, Goto
  <2>2. /\ c \in SawEmpty /\ SawEmpty' = SawEmpty \ {c} /\ Calling' = Calling \ {c}
        /\ TokenHolders' = TokenHolders
    BY <1>0, <2>1 DEF Calling, TokenHolders, SawEmpty
  <2>3. PostedMessages' = PostedMessages /\ Enqueued' = Enqueued
    BY <1>c, <2>1, SameQueue
  <2> QED
    BY <2>1, <2>2, <2>3 DEF Fifo!ReturnNull, Enqueued, Calling, SawEmpty
<1>7. ASSUME NEW c \in Consumers, DeqLock(c) PROVE UNCHANGED Fifo!fvars
  <2>1. /\ pc[c] = "d_lock" /\ pc' = [pc EXCEPT ![c] = "pop"]
        /\ UNCHANGED <<m_messages, sent, returned>>
    BY <1>7 DEF DeqLock, Goto
  <2>2. UNCHANGED <<Calling, TokenHolders, SawEmpty>>
    BY <1>0, <2>1 DEF Calling, TokenHolders, SawEmpty
  <2>3. PostedMessages' = PostedMessages /\ Enqueued' = Enqueued
    BY <1>c, <2>1, SameQueue
  <2> QED
    BY <1>a, <2>1, <2>2, <2>3
<1>8. ASSUME NEW c \in Consumers, DeqPop(c) PROVE Fifo!Take(c)
  <2>1. pc[c] = "pop" /\ pc' = [pc EXCEPT ![c] = "d_unlock"] /\ sent' = sent
    BY <1>8 DEF DeqPop, Goto
  <2>2. /\ c \in TokenHolders /\ TokenHolders' = TokenHolders \ {c}
        /\ UNCHANGED <<Calling, SawEmpty>>
    BY <1>0, <2>1 DEF Calling, TokenHolders, SawEmpty
  <2>3. Unposted = {} /\ Unposted' = {}
    <3>1. \A q \in Producers : pc[q] # "post"
      BY <1>0, <2>1 DEF IInv, LockHeldInside, InCriticalSection
    <3> QED
      BY <1>c, <2>1, <3>1 DEF Unposted
  <2>4. PostedMessages = m_messages /\ PostedMessages' = m_messages'
    <3>1. (IInv /\ Unposted = {} => PostedMessages = m_messages)'
      BY NothingUnposted, PTL
    <3> QED
      BY <2>3, <3>1, NothingUnposted
  <2>5. m_messages # <<>>
    <3>1. Cardinality(TokenHolders) > 0
      BY <2>2, CountedSetsFinite, FS_EmptySet
    <3>2. Len(PostedMessages) > 0
      BY <1>0, <3>1, PostedLength
    <3> QED
      BY <2>4, <3>2
  <2>6. /\ m_messages' = Tail(m_messages)
        /\ returned' = [returned EXCEPT ![c] = Append(@, Head(m_messages))]
    BY <1>8, <2>5 DEF DeqPop
  <2>7. Enqueued' = Enqueued
    BY <1>c, <2>1
  <2> QED
    BY <2>2, <2>4, <2>5, <2>6, <2>7 DEF Fifo!Take, Enqueued, Calling, SawEmpty
<1>9. ASSUME NEW c \in Consumers, DeqUnlock(c) PROVE Fifo!Return(c)
  <2>1. /\ pc[c] = "d_unlock" /\ pc' = [pc EXCEPT ![c] = "idle"]
        /\ UNCHANGED <<m_messages, sent, returned>>
    BY <1>9 DEF DeqUnlock, Goto
  <2>2. /\ c \in Calling /\ c \notin TokenHolders \cup SawEmpty
        /\ Calling' = Calling \ {c} /\ UNCHANGED <<TokenHolders, SawEmpty>>
    BY <1>0, <2>1 DEF Calling, TokenHolders, SawEmpty
  <2>3. PostedMessages' = PostedMessages /\ Enqueued' = Enqueued
    BY <1>c, <2>1, SameQueue
  <2> QED
    BY <2>1, <2>2, <2>3 DEF Fifo!Return, Enqueued, Calling, SawEmpty
<1>10. CASE UNCHANGED qvars
  BY <1>a, <1>10 DEF qvars, Enqueued, PostedMessages, Calling, TokenHolders, SawEmpty, Unposted
<1> QED
  BY <1>1, <1>2, <1>3, <1>4, <1>5, <1>6, <1>7, <1>8, <1>9, <1>10
     DEF Next, Producer, Consumer, Fifo!Next

(* MessageQueue implements FifoQueue: whatever the interleaving of mutex and   *)
(* semaphore, messages come out once and in the order of their posts, and a    *)
(* dequeue returns nullptr only if it saw every message claimed by others.     *)
THEOREM QueueIsFifo == Spec => ImplementsFifo
<1>1. Init => Fifo!Init
  BY FifoInit
<1>2. IInv /\ IInv' /\ LastPushed /\ [Next]_qvars => [Fifo!Next]_Fifo!fvars
  BY FifoStep
<1>3. Spec => []IInv
  BY TokenAccounting, PTL DEF IInv
<1>4. Spec => []LastPushed
  <2>1. IInv /\ LastPushed /\ [Next]_qvars => LastPushed'
    BY LastPushedNext
  <2> QED
    BY <1>3, <2>1, LastPushedInit, PTL DEF Spec
<1> QED
  BY <1>1, <1>2, <1>3, <1>4, PTL DEF Spec, ImplementsFifo, Fifo!Spec
=============================================================================
