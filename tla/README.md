# A verification of the course programs of jhucsf-fa23

The repository holds four C and C++ programs and some assembly exercises. This
directory holds TLA+ models of the parts that have logic of their own, TLC runs
that check them on small instances, and proofs, checked by TLAPS, of what holds
for every instance. Line numbers refer to the files under `src/`.

## 1. Inventory

### The chat system, `csf_assign05` (C++, POSIX threads, sockets)

One server, any number of *sender* and *receiver* clients, each on a connection
of its own that carries lines `tag:data\n`.

| component | state | operations | interaction |
|---|---|---|---|
| `MessageQueue` (`message_queue.cpp`, `guard.h`) | deque, mutex `m_lock`, semaphore `m_avail` | `enqueue`; `dequeue`, which waits at most one second | one per `User`; any worker that broadcasts enqueues, the worker of the user dequeues |
| `Room` (`room.cpp`) | set of `User *`, `lock` | `add_member`, `remove_member`, `broadcast_message` | shared by the workers; holds `lock` while it enqueues |
| `Server` (`server.cpp`) | map of rooms, `m_lock` | `listen`, `handle_client_requests`, `find_or_create_room` | accepts, starts one detached thread per client |
| worker (`server.cpp:33-173`) | `current_room`, `in_room`, the `User` | `worker`, `chat_with_sender`, `chat_with_receiver` | reads requests, calls `Server` and `Room`, writes responses and deliveries |
| `Connection`, `Message` (`connection.cpp`, `message.h`, robust I/O in `csapp.c`) | descriptor, read buffer, `m_last_result` | `send`, `receive`, `close` | the same code in clients and server |
| `sender.cpp`, `receiver.cpp` | `still_running`, the current message | the command loop; login, join and the delivery loop | a request-reply dialogue with the worker; SIGINT |
| `client_util.cpp`, unused wrappers in `csapp.c` | none | trimming of strings, wrappers | not called |

What makes it hard: the workers interleave on three kinds of locks; `dequeue`
takes its token from the semaphore before it takes the mutex; the time-out races
with the post; a broadcast visits a set that others want to change; membership is
recorded in the room, in `current_room` and in `in_room`, which change at
different times; clients disappear in the middle of a message; a failing read
calls `exit` in one thread of the server; the clients count on exactly one reply
per request although a line may be received as several; a descriptor is owned by the
accept loop, then by a `Connection`, and its number is given out again.

What makes it correct: locks exclude and are never held over I/O; messages are
neither lost, duplicated nor reordered on their way from a broadcast to the
members; there is one `Room` per name; a user is in at most one room; no call goes
through a dead `current_room`; requests are answered and queued messages sent;
lines that fit arrive whole; the reply a user sees is that of the command as long as
they fit; an interrupted client ends; a worker uses only the descriptor and the `server_connection` of its
own client, and what a client leaves behind is known.

### The cache simulator, `csf_assign03/main.cpp`

State: an array of sets of slots (valid, dirty, tag, two timestamps), seven
counters, three options. Operations: `Cache::access` per line of the trace, with
`updateAccessTS` and `updateLoadTS`. Hard: timestamps are updated in the loop that
looks for the hit; victims are chosen from them. Correct: ages of a set are a
permutation, the slot just used is the newest, tags identify blocks, no block is
cached twice.
`1.cpp` and `2.cpp` are earlier versions that the Makefile does not build.

### 256-bit integers, `csf_assign01/uint256.c`

Pure functions on eight 32-bit words: create, add, sub, negate, rotate, parse and
format hexadecimal. Hard: the carry is inferred from a wrapped sum; bits cross word
boundaries; zero words are written at an offset that depends on another word.

### Word counter, `csf_assign02`

`c_wcmain.c` reads words, normalises them, counts them in a hash table of chains
and reports totals and the most frequent word. It is linked with the functions of
`c_wcfuncs.c` or with those of `asm_wcfuncs.S`. Hard: the word limit, chains, words
that hold a NUL or no letter, and in the assembly the width of stores. `asm_wcmain.S` is an unfinished fragment.

### The rest

`tctest`, the framework of the unit tests (the same files in `csf_assign01` and
`csf_assign02`): macros that keep their state in globals and leave a crashing or
failing test with `siglongjmp`. Hard: a signal may come anywhere in a test, in its
cleanup and in a callback too, several times. Correct: it is caught, reported with a
line of its own test, and cleaned up after; the program fails exactly when a test
was reported as failed. The tests themselves are read for what
they claim. `asmMini-soln` holds three counting loops given with the course.

`PROJECT.json` lists every component with its status, every hazard with the line
where it bites and the properties that watch it, and for each definition the
lines it stands for.

## 2. Modules

| module | models | uses |
|---|---|---|
| `FifoQueue` | abstract: what `message_queue.h` promises its callers | |
| `MessageQueue` | the class, one action per step another thread can see | implements `FifoQueue` |
| `MessageQueueProofs` | proofs | `MessageQueue` |
| `AtomicChat` | abstract: rooms as sets of subscribers, a message reaches all feeds at once | |
| `ChatServer` | workers, server, rooms, users and their queues | implements `AtomicChat` |
| `ChatServerProofs` | proofs | `ChatServer` |
| `Framing` | one direction of a `Connection`, character by character | |
| `FramingProofs` | proofs | `Framing` |
| `Session` | a sender and a receiver client, their connections and workers, line by line | composes with `AtomicChat` |
| `SessionProofs` | proofs | `Session` |
| `AcceptLoop` | the server process: start, accept, threads, descriptors, `server_connection`s | |
| `AcceptLoopProofs` | proofs | `AcceptLoop` |
| `CacheSim` | the cache simulator | |
| `CacheSimProofs` | proofs | `CacheSim` |
| `UInt256` | the 256-bit integers | |
| `WordCount` | the main program with either library | |
| `SequentialProofs` | proofs | `WordCount` and `UInt256` |
| `TcTest` | the framework of the unit tests | |
| `TcTestProofs` | proofs | `TcTest` |
| `MC*` | constants of the small instances | the module named |

In a module a definition that follows the comment `Mistake:` is a plausible bug. It
is used nowhere in the specification; the mutants of `PROJECT.json` put it in the
place of the right definition to show that the property named there notices.

### MessageQueue

`pc[t]` is the place of a thread in the call it has in progress. `EnqCall`,
`EnqLock`, `EnqPush`, `EnqPost`, `EnqUnlock` are the statements of `enqueue`;
`DeqCall` is `sem_timedwait` up to its decision (a token at once, or a wait),
`DeqWake` and `DeqTimeOut` its two outcomes, and `DeqLock`, `DeqPop`, `DeqUnlock`
the critical section. The deadline is not a clock: a waiting caller may time out at
any moment, also when a token has just been posted. `MaxEnq` bounds the calls of
each producer.

`FifoQueue` promises more than "messages come out in order": a `dequeue` returns
nothing only if, during that very call, there was a moment when every message was
claimed by another caller. The refinement mapping counts a message as enqueued from
its `sem_post` on, and takes a consumer between the semaphore and the pop for one
that holds a claim.

### ChatServer

A client is identified with its worker and its `User`; a `Room` object with its
name and the worker that constructed it, so that two objects of one name are
possible. `pc[c]` names what the worker does next:

    start, recv | rjoin      waiting for the login, for a request | a join
    rm, find, create, add    the calls made by a join: remove_member (senders that
                             are in a room), find_or_create_room (two steps when
                             the room is new), add_member
    leave                    the remove_member of a leave
    bcast, enq               broadcast_message before and inside the lock
    reply                    about to send the response, then the assignments after it
    loop, send               chat_with_receiver around dequeue and send
    done                     the thread has returned

`members[r]`, `lock[r]`, `m_rooms`, `m_lock`, `queue[u]`, `room[c]`
(`current_room`) and `in_room` are the variables of the code. `enqueue` and
`dequeue` are atomic here; that this is right is what the run of `MessageQueue`
shows. The mutex of a queue, which a broadcast takes inside the lock of a room, is
therefore not a lock of this module: `MessageQueue` has it, and takes no other lock
while it is held, so that it cannot be part of a cycle. `BcastEnqueue` takes the members in any order, for the set is ordered by
address. `ReadError` is the `exit` below `Rio_readlineb`. Not in the model:
`send` that fails (the code ignores the result after the login, and `LoginFails`
covers the login) and the texts.

`AtomicChat` has no threads, locks or objects: `Publish` appends the message to the
feeds of all subscribers with another user name in one step. The mapping lets a
broadcast happen when it gets the lock: members it has still to reach have the
message in their feed already (`InFlight`).

### Framing

`Send` encodes, `WriteSome` is a `write` of any length, `wire` the bytes in
transit, `Refill` a `read` of any length into the buffer of `rio_read`, `ReadChar`
one character of `rio_readlineb`, `Receive` and `Decode` the rest of
`Connection::receive` with `Message::from_string`. The peer may `Close` at any
moment, also with half a message written, and the connection may `Reset`.

### Session

The system as its users see it. `Sender` and `Receiver` name the clients, their
connections and their workers. `pc[c]` is the place of a client (`login`, `join`,
`begin`, `test`, then `getline`, `await`, `quitting` for the sender and `recv` for
the receiver; `done`, `exited`, or `ub` after a `delete` of the uninitialised
`msg`), `w[c]` that of its worker. Behind the workers is `AtomicChat`, which
`ChatServer` implements: a join, a leave or a sendall is a step of it. `toServer`
and `toClient` hold the lines in transit *as they will be received*: `Lines` cuts a
line into as many parts as it fills buffers of `receive`, which is what `Framing`
shows of characters. A text is a stretch of the line the user typed: where it begins
and how long it is. A later part of a line begins somewhere in the text, and
`from_string` takes for its tag what stands before its first colon; `Reads`, a
constant, says what that is for each text and each place in it, so that a part may
have any tag, `sendall`, `quit` and `delivery` included, or none.

`TypeJoin` ... `TypeQuit` are the branches of the command loop, each with the send
that follows, `Answer` the receive after it. `TypeEof` is `getline` at the end of
its input, whose result nobody tests. `Interrupt` sets `still_running` and nothing
else: `signal` restarts the read it interrupts. `Close` with lines unread, and a
server that ends with lines unread, reset the connection, and `ReadFails` and
`WorkerReadFails` are the `exit` below `Rio_readlineb`. `typed` (the requests),
`lines` (the lines they were cut into, in order), `answers` (for each request the
line whose reply was taken for its own) and the fields `for` and `part` of a line are
history.

### AcceptLoop

`open[n]` is what the descriptor `n` stands for, `info[c]` the `server_connection`
of a client and `conn_fd[c]` the number that the accept loop has put into it
(`server.cpp:217`), `m_fd[c]` the descriptor in the `Connection` of its worker, which
`Start` takes from `conn_fd[c]` (`server.cpp:137`). `Socket`
... `NoAddress` are `open_listenfd` with its walk over the addresses, `Accept` to
`CreateFails` the loop, `Start` to `Destroy` the frame of `worker` with the
constructor and the destructor of `Connection`; the conversation is one action here
(`ChatEnds`, `ChatFails`). Clients walk the addresses too (`Connect`), and close or
are reset at any time. `accept` may fail because no number is free or the head of the
backlog was reset (`AcceptFails`), or for a reason of its own such as `ENFILE` or
`EINTR` (`AcceptRefused`); `Accept` exits in either case. `CreateFails` deletes the `server_connection` and leaves the
descriptor open; `NoLogin` leaves the `server_connection`.

### TcTest

One test object, the globals of `tctest.c`, and the actions a test consists of: up
to `sigsetjmp` (`Begin`), `Setup`, the body (`Assert`, `AssertFails`, `Fail`), the
call of the callback with 1 (`Passed`) and its return (`Told`), the other branch of
`sigsetjmp` with its call (`Failed`) and return (`Report`), the call of the cleanup
(`Cleanup`) and its return (`End`). `Crash(s)` is a signal in any function called,
with the handler, its message and its jump. The history counts calls when they are
made, so that one that crashes is counted too; `lost` counts the cleanups that did. `env` is the signal mask that `sigsetjmp`
saves and `siglongjmp` restores: while a handler runs its signal is blocked.

### CacheSim

`BeginAccess`, then one action per slot the loop visits (`ScanHit`, `ScanOther`,
`ScanEmpty`), then one for the miss. Options are chosen initially. `OutOfBounds` is
the access to `slots[-1]` when no slot is empty and the option is not `lru`; nothing
is said of the program after it; under `lru` it never comes. `lastUse` and `held` are
history.

### UInt256 and WordCount

`UInt256` keeps a value and the integer it should be and applies any operation to
any operand. The number of words, the digits of a word and the bits of a digit are
constants; the algorithms do not depend on them. In `WordCount` the state is that
of `main` between calls of library functions, which are operators; `lib` says which
library is linked, and an operator `asm_f` is there where the assembly computes
the result of `wc_f` in another way. A text is any sequence of bytes. A NUL is a
character like any other to `wc_readnext`, and ends the string that the other
functions see (`CString`). `low` and `high` remember the range of indices
written in the word buffers.

## 3. Runs

| run | instance | states | what it shows |
|---|---|---|---|
| `mq` | 2 producers, 2 consumers, 2 messages each | 7,474 | token accounting, no `nullptr` after a token, FIFO refinement, every call returns, every message is returned |
| `chat` | 2 senders, 2 receivers, 1 room, 2 requests each, symmetric clients | 528,000 | locks only inside, broadcasts reach exactly the members, same order for all, refinement of `AtomicChat` |
| `chat_rooms` | 1 sender with 4 requests, 1 receiver of another name, 2 rooms | 23,000 | one `Room` per name, no wild pointer, one room at a time, requests answered, queued is sent |
| `session` | 1 sender with 3 lines, 1 receiver, 1 room, 1 interrupt, 1 reset; a text that is too long for a delivery and one that a request needs three buffers for | 693,000 | what the receiver prints, which reply is taken for which command, when the server ends, interrupts obeyed, deliveries printed |
| `accept_loop` | 3 clients, 3 descriptors, 2 addresses, 2 failures | 881,000 | what a worker uses is its own, what is left behind, what ends the server, clients are accepted |
| `framing` | 2 messages of at most 4 characters, `MAX_LEN` 5 | 9,000 | every cut by write, network and read, with close and reset |
| `cache` | 2 sets of 3 slots, 5 addresses, 5 accesses, all options | 1.7 million | tags identify blocks, ages, the newest, and that `lru` has a slot to fill |
| `uint256` | 4 words of 2 bits, all 256 values and operands, all rotations | 256 | exact arithmetic, formatting and parsing |
| `wordcount` | all texts of up to 5 characters over `a b B 1` and space and of up to 4 over `a 1`, space and NUL, words of 2, both libraries | 67,000 | the table is a dictionary, the report is true, writes are bounded |
| `tctest` | 3 tests, 2 signals, 4 crashes | 122,000 | crashes are caught, named and cleaned up after, and the summary is true of them |
| `framing_maxlen`, `wordcount_lost` | | | violations, section 4 |

Why these bounds are enough for what they ask. *mq*: two consumers are needed for a
token taken and a message popped by different calls, two producers for two posts,
two messages for order; more of either only repeats the pairs, and the theorems
cover every number for the safety part. *chat*: two senders in one room give two
broadcasts that compete, two receivers give two places to compare orders, and two
requests a join and a sendall each; leaving and moving need more requests and are
the business of *chat_rooms*, where four are a join, a sendall, a move and a
sendall. The race for a new room needs any two clients. *framing*: two messages are
needed for one to run into the next, and lengths stay below `MAX_LEN` on purpose, as
the violation at `MAX_LEN` is a run of its own. *session*: three lines are a join, a
text that is too long and a command whose reply is then late; one text is cut into
three, of which the second reads as a `sendall` and the third as a `quit`, and its
delivery is cut where it reads as a `delivery`; one interrupt and one
reset meet every place of both clients. *accept_loop*: with three numbers the
listener and two clients fill the table, so that the third client finds it full or
is given a number that was closed; two failures are a thread not created and a
reset or an `accept` that is refused, or both addresses lost. *tctest*: the same signal
must come twice in one test and once in another; four crashes are two of a body, each
followed by one of its cleanup. *cache*: five accesses fill a set of
three and evict twice. *uint256*: every pair of operands is tried, so that the only
abstraction is the width of a word. *wordcount*: five characters hold two words that
meet in a bucket and one that is cut; four have a NUL at the beginning, within and at
the end of a word before another word.

Symmetry is used in `chat` only, where every client has a name of its own and no
temporal property with fairness is checked; its one PROPERTY is a refinement
without liveness, whose mapping is symmetric.

`CHECK_DEADLOCK FALSE` stands where the program really ends: the server when
`exit` was called or when every client has done its requests and each worker has
returned, or when `listen` failed; the trace; the text; the connection; the
clients; the test program. `mq` and `uint256` check for
deadlock.

Fairness. `mq`: a thread that is inside a call goes on (a scheduler runs every
ready thread), and a consumer calls `dequeue` for ever because
`chat_with_receiver` loops; a producer need not begin a call. Weak fairness of the
steps is enough even at the mutex. `chat_rooms`: `WF` of what a worker does without
waiting for its client; clients owe nothing but to read what is sent to them, or to
close. `framing`: a `send` that has begun goes on writing, and the reader calls
`receive` for ever; the peer need not send, close or stay. `session`: `WF` of each
client process and of each worker, that is, of a process that can go on; nobody has
to start a client, type a line or interrupt. `accept_loop`: `WF` of the accept loop
and of the walk of each client; workers, failures and disconnections need not
happen, and `AcceptRefused` in particular is no part of the loop that has to go on.

## 4. What the violations show

1. `framing_maxlen`: a line of exactly `MAX_LEN` characters is received as two
   messages (`connection.cpp:80` hands `MAX_LEN` to `Rio_readlineb`, which keeps one
   place for the NUL), although `message.h:8-12` says that `MAX_LEN` does not
   include it.
2. `wordcount_lost`: when a word reaches `MAX_WORDLEN`, the character already taken
   from the stream is dropped (`c_wcfuncs.c:112`); the test at `wctests.c:241-242`
   expects it in the next word.

Four more disagreements have a property and a configuration of their own, which are
kept beside the runs of `PROJECT.json`; TLC refutes each (`tlc -config X.cfg M`).
No property of a passing run states them as if they were right:
- `WritesInBuffer`, `MCWordCountAsm.cfg`: the assembly functions store a character as
  four bytes and a terminator as eight, and so write behind a word that fills its
  buffer (`asm_wcfuncs.S:297, 314, 398, 151`), which `asm_wcfuncs.S:257-258` gives
  `MAX_WORDLEN + 1` elements. Below the buffer they write when a word has two
  characters or more and no letter, or is empty. The run `wordcount` keeps an upper
  bound on the damage, which correct code meets too: `WritesBounded`, at most seven
  bytes on either side.
- `WritesInBuffer`, `MCWordCountNul.cfg`: a word that begins with a NUL is an empty
  string, of which `wc_trim_non_alpha` reads and writes the byte before the buffer
  (`c_wcfuncs.c:138-154`). By `WritesBounded` it is that byte and no other, and only
  after such a word.
- `LruReplacesLeastRecentlyUsed`, `MCCacheSimLru.cfg`: under `lru` a full set gives up
  a block although another was used before it: always the one in slot 0, because
  `access` updates the timestamp of every valid slot it passes (`main.cpp:86`).
  `2.cpp:116` calls the choice "LRU policy". Of the order of uses the run `cache` keeps
  that the slot used last is the newest (`JustUsedIsNewest`).
- `NumPassedIsTrue`, `MCTcTestTotals.cfg`: a crash in `cleanup`, or in the callback of
  a test that passed, counts as a failure each time, so that the number of tests
  passed, as `tctest.h:62-65` calls what is handed to `tctest_on_complete`, is too
  small. The run `tctest` keeps what remains true: `SummaryIsTrue`, in which that
  number does not occur.

Seen in the models, and described by properties that say when it happens:
- A read that fails ends the process (`csapp.c:938` calls `unix_error`), although
  `connection.h:37-40` promises a result for an I/O error: one connection reset under a
  worker that reads ends the server of all clients, and so does any failure of
  `accept` (`csapp.c:591-592`). `ServerSurvives` and `EndsOnlyBy` say when.
- A request that is too long for a line gets a reply for each part of it, and from
  then on the sender shows the reply of an earlier command; a part may be a request of
  its own, if the text reads so. A text that fits a request but not its delivery is
  printed cut, and what is cut off is printed too if it reads as a delivery:
  `RepliesInStep`, `ScreenShowsDeliveries`.
- A sender that ends with a reply unread resets its connection, which ends the
  server: `ServerSurvives`.
- A descriptor whose thread could not be created stays open: `LeftBehind`.
- After a crash in `cleanup`, `cleanup` is called again with the same object:
  `CleanedOnce` has one call more for each one that crashed, and no other.

Seen without a property, because no text of the repository claims the contrary:
senders are members of their room and get queues nobody reads; a receiver with the
sender's name is skipped (`room.cpp:37`); a sender that quits stays a member; after
end of file a sender's worker answers "undefined command" for ever, a receiver's
worker goes on sending, a receiver spins, and a sender whose input has ended sends
empty texts for ever; `msg` is deleted uninitialised when a sender ends before its
first command; a failed login leaks the `server_connection`; any replacement word
but `lru` ends at `slots[-1]`; a load miss replaces a dirty block without paying for
the write.

## 5. Proofs

`tlapm` checks every step; the assumptions are the named ASSUMEs of the modules
(finite and disjoint thread sets, distinct special values, bounds in `Nat`), and
TLC evaluates these on the small instances.

**MessageQueue**, for all finite sets of producers and consumers.
`TokenAccounting`: type, exclusion, and *messages = semaphore + tokens taken and not
yet used + posts still owed*. The conjunction is inductive; exclusion is needed
because only it makes "posts still owed" at most one, so that a push and the post
after it change it from 0 to 1 and back. Cardinalities are handled by one lemma per
way a set can change. `PopAlwaysFinds` follows: a consumer at the pop holds a token,
so the count of messages is positive. `QueueIsFifo`: every step of the class is a
step of `FifoQueue` or none. The abstract queue holds the messages that have been
posted, and by the token count it is `m_avail` longer than there are claims, so that
`sem_timedwait` finds a token exactly when a message is unclaimed (`PostedLength`).
A pop takes the oldest message of both because exclusion leaves no post owed then,
and a post adds the right one because a producer between `push_back` and `sem_post`
still finds its message at the back (`LastPushed`).

**ChatServer**, for all sets of clients and rooms and any number of requests.
`NoLockOverIO`, `RoomsAreUnique`, `RoomsAreReal`, `OneRoom`, `TypesHold`. None is
inductive. The invariant `IInv` adds
- *Control*: where a worker can be, and what it has there (a worker in
  `find_or_create_room` has the name of a room; one that uses a room has `in_room`);
- *Map*: an entry is filed under the name of its room; a worker about to create a
  room holds the lock and the entry is missing; what a worker points to is what the
  map has. This gives uniqueness: the entry cannot appear between find and insert;
- *Membership*: a client is in the set of a room if and only if that is its
  `current_room` and its place in the code says so (`Joined`). `in_room` alone would
  be false, because it is assigned after the response is sent;
- *JoinedRoom*: who is joined, or about to be, points to a real room.

Each conjunct has a lemma with one step per action; steps that leave the conjunct's
variables alone share a frame lemma (`Quiet`, `LocalStep`, `MapStep`, `MemberStep`).

The order of messages comes from a second invariant, `OrderInv`. `StepKinds` first
sorts the actions into six kinds (the set of a room grows or shrinks, a broadcast
gets its lock, it reaches one member, a message leaves a queue, and all the rest),
so that each conjunct is proved for six cases and not for thirty. The stream of a
user, what it was given and what is still in its queue, changes in `BcastEnqueue`
only. The invariant says that a message in a stream has a number the room has given
out, that none is there twice, that the message of a broadcast in progress is the
last of its room, and that the broadcast has to reach exactly the other members who
do not have it (`NobodySkipped`). Then the new message is the newest in every stream
that gets it, and `OneOrder` follows. `ServerIsAtomicChat` uses both: a broadcast is
published when it gets the lock, the users it has still to reach have the message in
their abstract feed (`InFlight`), and when it reaches one the feed stays as it is: a user
is in one room, whose lock keeps other broadcasts out, so that at most one is on its
way to the user and nothing comes between.

**Framing**, for every set of characters, every `MAX_LEN` and every script of
messages that fit: `Fits` says that no encoded message has more than `MAX_LEN - 1`
characters, and the violation `framing_maxlen` shows that it is needed. The
invariant, `Flowing`, is that line, buffer, wire and what is still to be written are
together the messages that have not been received, cut (`Cut`) where the encodings
end. Then write and refill move bytes without changing the whole (concatenation is
associative), a line being read is the beginning of the next message, so that its
first newline is the end of it, and `Decode` undoes `Encode` because no tag has a
colon. The only way out is `Broken`: the peer went away within a message, what it
wrote of it has been taken for one, and nothing comes after.

**Session**, for all texts, rooms, names, bounds on lines, interrupts and resets.
`SenderEffect` and `ReceiverEffect` first say what each step may change, so that a
conjunct about one dialogue is undisturbed by the other in one line.
`RepliesKeepStep`: the lines that the requests are cut into are numbered through
(`lines`), and the `k`-th reply is that of the `k`-th line. *Flight*: while the sender is
in its loop the lines in transit, the replies and then the lines to be answered, are
those that follow the last reply taken, without a gap; *Answered* is the same of the
replies already taken. *Counted* says that line `k` is that of request `k` as long as no
request before was cut: each has a line at least, and one that is cut puts the lines
ahead for good. *LoopPhase* is needed for it: the worker stays in its loop because no
`quit` is on its way unless a line was cut, and the sender types nothing before it has
taken a reply.
`OnlyResetsStop`: `CalmHolds` says that as long as the network holds and no line was
too long, the server runs and a sender that quits has at most one line in transit,
so that its `close` leaves nothing unread. It follows from the count in *Flight*, for
there are as many lines as requests then. The connection of a receiver may be reset: its worker only
writes to it. `ScreenIsTrue`: a text that is published, or on its way to the worker, is
a stretch of what the user typed in the request it is a part of, and such texts are
in the order of their requests and parts (*TextsOwned*: `Published`, `Pending`). In
*Screen* the lines in transit to the receiver follow one another without a gap, each
the next part of a delivery or the first part of the next one (`Ordered`); they begin
behind what was printed last, and end, while the connection is open, at the
deliveries taken from the feed (`Reached`). What was printed is in turn (`InTurn`: every
delivery is there, and of the later parts of one those that read as a delivery) and
shows the stretch of the text that its delivery and part name (`Right`), and so does what
will be printed. The printed texts alone would not be inductive: what is printed next
is decided by the lines in transit.

**CacheSim**, for every size of cache, trace and option. `AgesPermute`: through
every step the access timestamps of a set are a permutation of `0..NumBlocks-1`; the
heart is a lemma about `updateAccessTS`, which moves one slot to 0 and shifts exactly
the younger ones. `LRUFindsVictim`: therefore under `lru` a full set always has an
oldest slot and `slots[-1]` is never touched. `HitsAreTrue`: the invariant adds that no tag is twice
in a set, that a slot is valid exactly when it holds a block, which its place and tag
determine, and that the loop has not passed a slot with the tag it looks for, so that
a fill makes no second copy; the arithmetic is that dividing by `BlockSize * NumSets`
is dividing by one and then the other. `NewestIsJustUsed`: no slot has been used
later than now, and none by the access in progress until it is over.

**AcceptLoop**, for all finite sets of clients and any numbers of descriptors,
addresses and failures. `WorkersUseTheirOwn` and `DescriptorsComeBack` follow from
one invariant, which says who owns what at every moment: the main thread the
listener and the number just accepted (*InMain*); a client in the backlog has
nothing yet and is in it once (*Accepting*); a client has one number at most, and
the place of its thread says whether the number is still in the
`server_connection` (`start`, or for good in `failed`) or in `m_fd` (*Owning*); which
`server_connection`s are alive (*Infos*). The descriptor that `close` closes is
therefore the client's own although numbers are reused: `m_fd` is reset by the
`close` that frees the number. `ServerGoesOn` adds a count: when no number is free
and nobody was reset, every number but the listener's stands for a client that is at
work or whose thread failed, and no two for the same one, so that there are at
least `MaxFds - 1` such clients. Otherwise `accept` was refused or a connection reset.

**TcTest**, for any number of tests, signals and crashes. `CrashesAreCaught`: when a
test runs no signal is blocked, and the mask that `sigsetjmp` has saved is empty, so
that the jump out of a handler unblocks what the handler had blocked. `LinesAreOwn`:
the line is reset before each test. `ObjectsAreCleaned`: an object is there from its
setup on, and of the calls of `cleanup` in a test all have crashed but the one in
progress or the last. `SummaryIsRight`: `executed` is the number of selected tests
begun, a test that is left has a verdict, and `failures` is 0 exactly while no test
has been reported as failed (*Totals*). That the number of tests passed is right is
not true (section 4).

**Loops.** What a loop over a sequence computes is a fold in the models, and a
statement about it needs induction, for which the library's theorems cannot be used
here. `SequentialProofs` begins with its own: `Induction` follows from the fact that an
injection of a finite set into itself is onto (the numbers outside the set would be
mapped to their predecessors), and `LeastNatural` and `BoundedInduction` from it. The
community modules define a fold by CHOOSE of a recursive function; `FoldExists` says
that there is such a function and `FoldSteps` that its value at the whole is reached by
one step per element (`IsRun`). All that follows is about such runs.

**WordCount**, for every text, NULs included, length of a word, number of buckets and hash modulus,
and both libraries. `CountsNormalWords`, `WritesStayInBounds`, `TableStaysDictionary`
and `ReportsTheTruth` are consequences of `IInv`. Its heart is `TableOf`: every entry is
in the bucket that the hash of its word names and has the number of its occurrences
(`FiledIn`), no bucket has two entries of one word (`SingleIn`), and every word counted
has one (`FoundIn`). Without the first the other two are not inductive: an equal word in
another bucket would not be found. `Tally` says what the report has added up when it has
passed `i` buckets: all of the total, as many different words as have a hash below `i`
(a bucket has one entry for each of its words, `KnownGrows`), and the best count among
those words. `Phase` is where `main` can be with what in `i`, `AllNormal` and `Within` are
about the words and the indices written.

**UInt256**, for any number of words, digits of a word and bits of a digit (not 0).
`CarryIsExact`: the test in `uint256_add` yields 1 exactly when the sum of the two words
and the carry does not fit. `ArithmeticIsExact`: `val` is well typed and its value is
`int`, which is inductive because each operation is exact on its own. The value of an
array is a sum of digits (`IsSum`, `ValueSum`), and so is the value of a string. The
sum of two arrays is followed word by word, the carry out of the words so far being the
only difference (`AddIs`); a negation is the complement and one. A rotation is an `x = l +
h * Q` that becomes `h + l * P` (`IsRot`); moving words is one (`WordsMoved`), moving
bits is one (`BitsMoved`), and rotations compose (`RotCompose`), the one to the right
being the one to the left by the rest of the bits. `create_from_hex` cuts a sum into
parts (`SumPart`) and drops the part above 2^256. `HexRoundTrips`: after each word the
string has the digits of the words so far and zeros elsewhere, and below the next word
are as many zeros as the last string formatted left out (`Progress`, `LeftOut`). The
second part is what makes the first inductive: the zeros of a zero word are written
at the wrong place, over these zeros (`ZerosIs`). An array is determined by its value
(`ValueInjective`). The prover knows nothing of exponentiation; that `2^(n + 1)` is twice
`2^n` is proved from the number of subsets of a finite set (`PowerStep`). What the
theorems assume of the constants, `UInt256Assumption`, TLC evaluates in the run
`uint256`: operands are arrays of words, strings are digits (`strtoul` stops at any
other character) and the three sizes are not 0. The specification of `UInt256` has
names of its own (`UInt256Spec`), so that one module can prove about it and `WordCount`.

So every invariant of the passing runs is a theorem, and so are the two refinements
(`ImplementsFifo`, `ImplementsAtomicChat`). Only model-checked is liveness, because fairness
and ENABLED are outside the prover: `CallsReturn`, `EveryMessageReturned`,
`RequestsAnswered`, `QueuedIsSent`, `WrittenMessageArrives`, `InterruptObeyed`,
`DeliveredIsPrinted` and `ClientIsServed`.

## 6. Not modelled, and why

- Destructors of `Room`, `Server` and `MessageQueue`: no execution reaches them.
- `client_util.cpp` and unused wrappers of `csapp.c`: nothing calls them.
- `1.cpp`, `2.cpp`, `asm_wcmain.S`, `asmMini-soln`: superseded, unfinished or without
  state. The tests `uint256_tests.c` and `wctests.c`: straight-line calls.
- The parsing of traces and addresses, of command-line arguments that are not the
  option words of the cache, and the printing of results: formatting. Memory, except
  where its life is the question (`server_connection`, `msg`, `targetSlot`).
- `getaddrinfo` and failures of `close`; in `Session` names of rooms and users that
  alone fill a line or have a colon, and texts with a NUL, at which the C strings of
  `receive` would end. `NamesLen` is the length of the receiver's room and the sender's
  name together, because no other deliveries reach a receiver.
- In `WordCount` what a write outside a buffer destroys: the model has the range of
  the writes and goes on as if nothing else were kept there.

## 7. Plan

Done, in this order: the queue and its abstraction, the server and its abstraction,
framing, the cache, the word counter and the integers; then the clients over the
abstract server, the life of the server process, and the test framework; and the
proofs of section 5, those of the two refinements, of framing and of `Session` last.

Next:
1. Composition: `ChatServer` over `MessageQueue` without the assumption that calls
   are atomic (`queue <- Fifo!queue`), on a small instance.

The runs are few and each asks one question; a new module brings a passing run of
its own and its properties join an existing run where the instance is the same.
