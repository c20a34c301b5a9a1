------------------------------ MODULE FifoQueue ------------------------------
(***************************************************************************)
(* What csf_assign05/message_queue.h promises, with every call of a        *)
(* MessageQueue reduced to the instant at which it takes effect:           *)
(*  - enqueue puts the message at the back of the queue;                   *)
(*  - dequeue claims a message and then takes the oldest one, or returns   *)
(*    nothing, and then only if at some instant of that very call every    *)
(*    message of the queue was claimed by another call.                    *)
(* No thread, lock or semaphore appears here.  MessageQueue implements it. *)
(***************************************************************************)
EXTENDS Naturals, Sequences, FiniteSets

CONSTANTS Producers, Consumers, MaxEnq

VARIABLES
  enqueued,   \* enqueued[p]: how many messages p has put in the queue
  queue,      \* the messages, oldest first
  calling,    \* the consumers inside dequeue
  claims,     \* the callers that are sure of a message
  sawEmpty,   \* the callers that saw nothing left to claim
  returned    \* returned[c]: the messages dequeue has given to c, in order

fvars == <<enqueued, queue, calling, claims, sawEmpty, returned>>

Init ==
  /\ enqueued = [p \in Producers |-> 0]
  /\ queue = <<>>
  /\ calling = {} /\ claims = {} /\ sawEmpty = {}
  /\ returned = [c \in Consumers |-> <<>>]

Enqueue(p) ==
  /\ enqueued[p] < MaxEnq
  /\ enqueued' = [enqueued EXCEPT ![p] = @ + 1]
  /\ queue' = Append(queue, <<p, enqueued[p] + 1>>)
  /\ UNCHANGED <<calling, claims, sawEmpty, returned>>

\* The call of dequeue looks at the queue: it claims a message if one is left.
Call(c) ==
  /\ c \notin calling
  /\ calling' = calling \cup {c}
  /\ IF Cardinality(claims) < Len(queue)
       THEN /\ claims' = claims \cup {c}
            /\ UNCHANGED sawEmpty
       ELSE /\ sawEmpty' = sawEmpty \cup {c}
            /\ UNCHANGED claims
  /\ UNCHANGED <<enqueued, queue, returned>>

\* A message arrived while the caller waited for one.
Claim(c) ==
  /\ c \in sawEmpty
  /\ Cardinality(claims) < Len(queue)
  /\ claims' = claims \cup {c}
  /\ sawEmpty' = sawEmpty \ {c}
  /\ UNCHANGED <<enqueued, queue, calling, returned>>

Take(c) ==
  /\ c \in claims
  /\ queue # <<>>
  /\ queue' = Tail(queue)
  /\ returned' = [returned EXCEPT ![c] = Append(@, Head(queue))]
  /\ claims' = claims \ {c}
  /\ UNCHANGED <<enqueued, calling, sawEmpty>>

\* The call that took a message returns it.
Return(c) ==
  /\ c \in calling
  /\ c \notin claims \cup sawEmpty
  /\ calling' = calling \ {c}
  /\ UNCHANGED <<enqueued, queue, claims, sawEmpty, returned>>

ReturnNull(c) ==
  /\ c \in sawEmpty
  /\ sawEmpty' = sawEmpty \ {c}
  /\ calling' = calling \ {c}
  /\ UNCHANGED <<enqueued, queue, claims, returned>>

Next ==
  \/ \E p \in Producers : Enqueue(p)
  \/ \E c \in Consumers :
       Call(c) \/ Claim(c) \/ Take(c) \/ Return(c) \/ ReturnNull(c)

Spec == Init /\ [][Next]_fvars
=============================================================================
