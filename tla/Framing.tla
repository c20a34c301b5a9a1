------------------------------ MODULE Framing ------------------------------
(***************************************************************************)
(* One direction of a Connection of csf_assign05: messages encoded as      *)
(* lines by Connection::send, written piecewise by rio_writen, carried by  *)
(* a byte stream, read piecewise into the buffer of rio_read, cut into     *)
(* lines by rio_readlineb and decoded by Connection::receive and           *)
(* Message::from_string.  It is the same code in clients and server.       *)
(*                                                                         *)
(* The peer may close or be killed at any point, also within a message;    *)
(* then what it wrote is still delivered, followed by the end of file.  A  *)
(* reset loses what is in transit and makes the next read fail.            *)
(***************************************************************************)
EXTENDS Naturals, Sequences, SequencesExt

CONSTANTS
  Chars,      \* the characters, with ":" and "\n"
  Scripts,    \* the sequences of messages the peer may send
  MAX_LEN,
  ErrTag      \* TAG_ERR

\* Tags and data are sequences of characters; no tag has a colon or a newline,
\* and no data a newline.
MessagesToSend == [tag : Seq(Chars \ {":", "\n"}), data : Seq(Chars \ {"\n"})]

ASSUME FramingAssumption ==
  /\ MAX_LEN \in Nat \ {0}
  /\ {":", "\n"} \subseteq Chars
  /\ Scripts \subseteq Seq(MessagesToSend)

VARIABLES
  script,      \* the messages to send
  started,     \* how many sends have begun
  out,         \* the rest of the message being written (rio_writen's bufp)
  wire,        \* bytes in transit
  peer,        \* "open", "closed" or "reset"
  rio_buf,     \* bytes read and not yet consumed
  line,        \* the characters of the line being read
  got,         \* history: what each receive that read a line stored and returned
  last_result, \* m_last_result of the reader
  exited       \* the reading process has called exit

vars == <<script, started, out, wire, peer, rio_buf, line, got, last_result, exited>>

Init ==
  /\ script \in Scripts /\ started = 0 /\ out = <<>> /\ wire = <<>> /\ peer = "open"
  /\ rio_buf = <<>> /\ line = <<>> /\ got = <<>>
  /\ last_result = "SUCCESS" /\ exited = FALSE

Encode(m) == m.tag \o <<":">> \o m.data \o <<"\n">>
-----------------------------------------------------------------------------
(* The sending side. *)

Send ==
  /\ peer = "open" /\ out = <<>> /\ started < Len(script)
  /\ started' = started + 1
  /\ out' = Encode(script[started + 1])
  /\ UNCHANGED <<script, wire, peer, rio_buf, line, got, last_result, exited>>

\* Mistake: a short write is taken for a complete one.
WriteOnce(n) ==
  /\ peer = "open" /\ n \in 1..Len(out)
  /\ wire' = wire \o SubSeq(out, 1, n)
  /\ out' = <<>>
  /\ UNCHANGED <<script, started, peer, rio_buf, line, got, last_result, exited>>

\* write takes any positive number of the bytes it is given.
WriteSome(n) ==
  /\ peer = "open" /\ n \in 1..Len(out)
  /\ wire' = wire \o SubSeq(out, 1, n)
  /\ out' = SubSeq(out, n + 1, Len(out))
  /\ UNCHANGED <<script, started, peer, rio_buf, line, got, last_result, exited>>

Close ==
  /\ peer = "open"
  /\ peer' = "closed"
  /\ UNCHANGED <<script, started, out, wire, rio_buf, line, got, last_result, exited>>

Reset ==
  /\ peer # "reset"
  /\ peer' = "reset" /\ wire' = <<>>
  /\ UNCHANGED <<script, started, out, rio_buf, line, got, last_result, exited>>
-----------------------------------------------------------------------------
(* The receiving side. *)

\* Mistake: read waits for more bytes than a message may have left.
RefillFull(n) ==
  /\ ~exited /\ rio_buf = <<>> /\ n \in 4..Len(wire)
  /\ rio_buf' = SubSeq(wire, 1, n)
  /\ wire' = SubSeq(wire, n + 1, Len(wire))
  /\ UNCHANGED <<script, started, out, peer, line, got, last_result, exited>>

\* read returns any positive number of the bytes that are there.
Refill(n) ==
  /\ ~exited /\ rio_buf = <<>> /\ n \in 1..Len(wire)
  /\ rio_buf' = SubSeq(wire, 1, n)
  /\ wire' = SubSeq(wire, n + 1, Len(wire))
  /\ UNCHANGED <<script, started, out, peer, line, got, last_result, exited>>

\* Message::from_string and the tests of Connection::receive.
Decode(s) ==
  IF ~Contains(s, ":") THEN [result |-> "INVALID_MSG", tag |-> <<>>, data |-> <<>>]
  ELSE LET colon == SelectInSeq(s, LAMBDA c : c = ":")
           tag == SubSeq(s, 1, colon - 1)
           rest == SubSeq(s, colon + 1, Len(s))
       IN  [result |-> IF tag = ErrTag THEN "EOF_OR_ERROR" ELSE "SUCCESS",
            tag |-> tag,
            data |-> IF rest # <<>> /\ Last(rest) = "\n" THEN Front(rest) ELSE rest]

Receive(s) ==
  /\ got' = Append(got, Decode(s))
  /\ last_result' = Decode(s).result
  /\ line' = <<>>

\* One character of rio_readlineb; a line ends with its newline or when it has
\* MAX_LEN - 1 characters, for receive asks for MAX_LEN with the terminator.
ReadChar ==
  /\ ~exited /\ rio_buf # <<>>
  /\ LET read == Append(line, Head(rio_buf))
     IN  IF Last(read) = "\n" \/ Len(read) = MAX_LEN - 1
           THEN Receive(read)
           ELSE line' = read /\ UNCHANGED <<got, last_result>>
  /\ rio_buf' = Tail(rio_buf)
  /\ UNCHANGED <<script, started, out, wire, peer, exited>>

AtEnd == ~exited /\ rio_buf = <<>> /\ wire = <<>>

\* At end of file a line that has begun is decoded like a whole one; without
\* one, receive fails, each time it is called.
EndOfFile ==
  /\ AtEnd /\ peer = "closed"
  /\ IF line # <<>> THEN Receive(line)
     ELSE last_result' = "EOF_OR_ERROR" /\ UNCHANGED <<line, got>>
  /\ UNCHANGED <<script, started, out, wire, peer, rio_buf, exited>>

\* Rio_readlineb does not return when a read fails.
ReadFails ==
  /\ AtEnd /\ peer = "reset"
  /\ exited' = TRUE
  /\ UNCHANGED <<script, started, out, wire, peer, rio_buf, line, got, last_result>>

Reader == (\E n \in 1..Len(wire) : Refill(n)) \/ ReadChar \/ EndOfFile \/ ReadFails
Writer == Send \/ (\E n \in 1..Len(out) : WriteSome(n))

Next == Writer \/ Close \/ Reset \/ Reader

Spec == Init /\ [][Next]_vars

\* A send that has begun goes on writing, and the reader calls receive for ever,
\* as every loop over receive in client and server does.
FairSpec ==
  Spec /\ WF_vars(\E n \in 1..Len(out) : WriteSome(n)) /\ WF_vars(Reader)
-----------------------------------------------------------------------------
\* What receive makes of message m when it gets all of it.
Whole(m) ==
  [result |-> IF m.tag = ErrTag THEN "EOF_OR_ERROR" ELSE "SUCCESS",
   tag |-> m.tag, data |-> m.data]

\* However the bytes are cut by write, network and read, each receive returns
\* one message, whole and in order; only the last one may be less, when the
\* peer went away while it was writing it.
MessagesArriveWhole ==
  \A k \in DOMAIN got :
    /\ k <= started
    /\ \/ got[k] = Whole(script[k])
       \/ k = Len(got) /\ k = started /\ peer # "open" /\ out # <<>>

\* A message that has been written arrives, also when no further byte follows
\* it, unless the connection is reset.
WrittenMessageArrives ==
  \A k \in 1..2 :
    started >= k /\ (started > k \/ out = <<>>) ~> Len(got) >= k \/ peer = "reset"

=============================================================================
