---------------------------- MODULE MessageQueue ----------------------------
(***************************************************************************)
(* The class MessageQueue of csf_assign05: a deque guarded by a mutex and  *)
(* a semaphore that counts the messages.  Threads of the server call       *)
(* enqueue (through Room::broadcast_message) and dequeue (the loop of      *)
(* chat_with_receiver); one action here is one step of a call that another *)
(* thread can observe.  Messages are identified by their producer and      *)
(* their number in that producer's sequence of calls.                      *)
(*                                                                         *)
(* MaxEnq bounds how often each producer calls enqueue.                    *)
(***************************************************************************)
EXTENDS Naturals, Sequences, FiniteSets

CONSTANTS Producers, Consumers, MaxEnq, NoThread

ASSUME QueueAssumption ==
  /\ IsFiniteSet(Producers) /\ IsFiniteSet(Consumers)
  /\ Producers \cap Consumers = {}
  /\ NoThread \notin Producers \cup Consumers
  /\ MaxEnq \in Nat

Threads == Producers \cup Consumers
MessageIds == Producers \X Nat

VARIABLES
  m_lock,      \* the thread that holds the mutex, or NoThread
  m_avail,     \* the value of the semaphore
  m_messages,  \* the deque, front first
  pc,          \* pc[t]: where thread t is in the call it has in progress
  sent,        \* sent[p]: how many calls of enqueue p has begun
  returned     \* returned[c]: what dequeue has popped for c, in order

qvars == <<m_lock, m_avail, m_messages, pc, sent, returned>>

Init ==
  /\ m_lock = NoThread
  /\ m_avail = 0
  /\ m_messages = <<>>
  /\ pc = [t \in Threads |-> "idle"]
  /\ sent = [p \in Producers |-> 0]
  /\ returned = [c \in Consumers |-> <<>>]

Goto(t, from, to) ==
  /\ pc[t] = from
  /\ pc' = [pc EXCEPT ![t] = to]

\* Guard's constructor and destructor.
Lock(t) ==
  /\ m_lock = NoThread
  /\ m_lock' = t

Unlock(t) == m_lock' = NoThread
-----------------------------------------------------------------------------
EnqCall(p) ==
  /\ sent[p] < MaxEnq
  /\ Goto(p, "idle", "e_lock")
  /\ sent' = [sent EXCEPT ![p] = @ + 1]
  /\ UNCHANGED <<m_lock, m_avail, m_messages, returned>>

EnqLock(p) ==
  /\ Goto(p, "e_lock", "push")
  /\ Lock(p)
  /\ UNCHANGED <<m_avail, m_messages, sent, returned>>

\* Mistake: push_front.
EnqPushFront(p) ==
  /\ Goto(p, "push", "post")
  /\ m_messages' = <<<<p, sent[p]>>>> \o m_messages
  /\ UNCHANGED <<m_lock, m_avail, sent, returned>>

EnqPush(p) ==
  /\ Goto(p, "push", "post")
  /\ m_messages' = Append(m_messages, <<p, sent[p]>>)
  /\ UNCHANGED <<m_lock, m_avail, sent, returned>>

\* Mistake: sem_post only when the queue was empty.
EnqPostIfEmpty(p) ==
  /\ Goto(p, "post", "e_unlock")
  /\ m_avail' = IF Len(m_messages) = 1 THEN m_avail + 1 ELSE m_avail
  /\ UNCHANGED <<m_lock, m_messages, sent, returned>>

EnqPost(p) ==
  /\ Goto(p, "post", "e_unlock")
  /\ m_avail' = m_avail + 1
  /\ UNCHANGED <<m_lock, m_messages, sent, returned>>

EnqUnlock(p) ==
  /\ Goto(p, "e_unlock", "idle")
  /\ Unlock(p)
  /\ UNCHANGED <<m_avail, m_messages, sent, returned>>
-----------------------------------------------------------------------------
\* sem_timedwait: a positive count is decremented at once, whatever the
\* deadline; otherwise the caller sleeps until a post or the deadline.
DeqCall(c) ==
  /\ pc[c] = "idle"
  /\ IF m_avail > 0
       THEN /\ Goto(c, "idle", "d_lock")
            /\ m_avail' = m_avail - 1
       ELSE /\ Goto(c, "idle", "wait")
            /\ UNCHANGED m_avail
  /\ UNCHANGED <<m_lock, m_messages, sent, returned>>

DeqWake(c) ==
  /\ m_avail > 0
  /\ Goto(c, "wait", "d_lock")
  /\ m_avail' = m_avail - 1
  /\ UNCHANGED <<m_lock, m_messages, sent, returned>>

\* Mistake: the result of sem_timedwait is not tested.
DeqTimeOutUnchecked(c) ==
  /\ Goto(c, "wait", "d_lock")
  /\ UNCHANGED <<m_lock, m_avail, m_messages, sent, returned>>

\* The deadline may win over a post that comes at the same time.  The call
\* returns nullptr.
DeqTimeOut(c) ==
  /\ Goto(c, "wait", "idle")
  /\ UNCHANGED <<m_lock, m_avail, m_messages, sent, returned>>

DeqLock(c) ==
  /\ Goto(c, "d_lock", "pop")
  /\ Lock(c)
  /\ UNCHANGED <<m_avail, m_messages, sent, returned>>

\* The test of m_messages.empty() and the pop are one critical section; the
\* empty branch returns nullptr.
DeqPop(c) ==
  /\ Goto(c, "pop", "d_unlock")
  /\ IF m_messages # <<>>
       THEN /\ m_messages' = Tail(m_messages)
            /\ returned' = [returned EXCEPT ![c] = Append(@, Head(m_messages))]
       ELSE UNCHANGED <<m_messages, returned>>
  /\ UNCHANGED <<m_lock, m_avail, sent>>

\* Mistake: a return without unlock, as with pthread_mutex_lock for Guard.
DeqUnlockForgotten(c) ==
  /\ Goto(c, "d_unlock", "idle")
  /\ UNCHANGED <<m_lock, m_avail, m_messages, sent, returned>>

DeqUnlock(c) ==
  /\ Goto(c, "d_unlock", "idle")
  /\ Unlock(c)
  /\ UNCHANGED <<m_avail, m_messages, sent, returned>>
-----------------------------------------------------------------------------
Producer(p) ==
  EnqCall(p) \/ EnqLock(p) \/ EnqPush(p) \/ EnqPost(p) \/ EnqUnlock(p)

Consumer(c) ==
  \/ DeqCall(c) \/ DeqWake(c) \/ DeqTimeOut(c)
  \/ DeqLock(c) \/ DeqPop(c) \/ DeqUnlock(c)

Next == (\E p \in Producers : Producer(p)) \/ (\E c \in Consumers : Consumer(c))

Spec == Init /\ [][Next]_qvars

\* Every thread that can run does so eventually, a producer ends the call it
\* has begun (it need not begin another) and the receiver's loop calls dequeue
\* for ever.
Fairness ==
  /\ \A p \in Producers :
       WF_qvars(EnqLock(p) \/ EnqPush(p) \/ EnqPost(p) \/ EnqUnlock(p))
  /\ \A c \in Consumers : WF_qvars(Consumer(c))

FairSpec == Spec /\ Fairness
-----------------------------------------------------------------------------
InCriticalSection(t) == pc[t] \in {"push", "post", "e_unlock", "pop", "d_unlock"}

\* The consumers that have decremented the semaphore and not popped yet.
TokenHolders == {c \in Consumers : pc[c] \in {"d_lock", "pop"}}

\* The producer between push_back and sem_post.
Unposted == {p \in Producers : pc[p] = "post"}

TypeOK ==
  /\ m_lock \in Threads \cup {NoThread}
  /\ m_avail \in Nat
  /\ m_messages \in Seq(MessageIds)
  /\ pc \in [Threads -> {"idle", "e_lock", "push", "post", "e_unlock",
                         "wait", "d_lock", "pop", "d_unlock"}]
  /\ \A p \in Producers : pc[p] \in {"idle", "e_lock", "push", "post", "e_unlock"}
  /\ \A c \in Consumers : pc[c] \in {"idle", "wait", "d_lock", "pop", "d_unlock"}
  /\ sent \in [Producers -> 0..MaxEnq]
  /\ returned \in [Consumers -> Seq(MessageIds)]

\* A thread is in a critical section of enqueue or dequeue exactly when it
\* holds m_lock ("must be held while accessing queue", message_queue.h:28).
LockHeldInside == \A t \in Threads : InCriticalSection(t) <=> m_lock = t

\* The semaphore counts the messages (message_queue.h:24-26) up to the calls in
\* progress: those claimed by a consumer that has not popped yet, and the one
\* pushed and not posted yet.
TokensCountMessages ==
  Len(m_messages) = m_avail + Cardinality(TokenHolders) + Cardinality(Unposted)

\* A consumer that got past sem_timedwait always finds a message under the
\* lock: the nullptr of message_queue.cpp:62 is never returned, whatever other
\* consumers did between the two steps.
PopFindsMessage == \A c \in Consumers : pc[c] = "pop" => m_messages # <<>>

\* enqueue "will not block" and dequeue "blocks for at most a finite amount of
\* time" (message_queue.h:16-17): every call that begins returns.
CallsReturn == \A t \in Threads : pc[t] # "idle" ~> pc[t] = "idle"

\* No message is stranded: once enqueue begins with a message, some dequeue
\* returns it, even when every wait times out against the posts.
EveryMessageReturned ==
  \A p \in Producers : \A n \in 1..MaxEnq :
    sent[p] >= n ~>
      \E c \in Consumers : \E i \in DOMAIN returned[c] : returned[c][i] = <<p, n>>

\* The queue as the callers see it: a message is in it from its sem_post on.
PostedMessages ==
  SubSeq(m_messages, 1, Len(m_messages) - Cardinality(Unposted))

Fifo == INSTANCE FifoQueue WITH
  enqueued <- [p \in Producers |->
                 IF pc[p] \in {"e_lock", "push", "post"} THEN sent[p] - 1 ELSE sent[p]],
  queue    <- PostedMessages,
  calling  <- {c \in Consumers : pc[c] # "idle"},
  claims   <- TokenHolders,
  sawEmpty <- {c \in Consumers : pc[c] = "wait"}

\* Every execution is one of FifoQueue: messages come out exactly once, in the
\* order of their posts, and nullptr is returned only by a call that saw no
\* message left to claim.
ImplementsFifo == Fifo!Spec
=============================================================================
