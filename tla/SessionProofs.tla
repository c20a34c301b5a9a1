--------------------------- MODULE SessionProofs ---------------------------
(***************************************************************************)
(* Proofs about Session: the safety properties that its run checks, for    *)
(* any texts of any length and whatever their parts read as, any rooms,    *)
(* buffer and numbers of commands.                                         *)
(*                                                                         *)
(* A step is described twice, by what it does to the sender's dialogue and *)
(* by what it does to the receiver's (SenderEffect, ReceiverEffect); each  *)
(* part of the invariant is then kept by one kind of effect at a time.     *)
(***************************************************************************)
EXTENDS Session, SequenceTheorems, FiniteSetTheorems, TLAPS

TextLines ==
  {t \in [of : Texts \cup {""}, from : Nat, len : Nat] : t.from + t.len <= TextLen[t.of]}
LineTags == {"slogin", "rlogin", "join", "leave", "sendall", "quit", "ok", "err",
             "delivery"} \cup Tags
AllLines == [tag : LineTags, room : Names, text : TextLines, for : Nat, part : Nat]
LineIds == [for : Nat, part : Nat]
ShownLines == [text : TextLines, for : Nat, part : Nat]
ChatMessages == [tag : {"delivery"}, room : Names, from : {Sender}, n : Nat]

TypeOK ==
  /\ pc \in [Clients -> {"start", "login", "join", "begin", "test", "getline", "await",
                         "quitting", "recv", "done", "exited", "ub"}]
  /\ conn \in [Clients -> {"none", "open", "closed", "reset"}]
  /\ toServer \in [Clients -> Seq(AllLines)] /\ toClient \in [Clients -> Seq(AllLines)]
  /\ up \in BOOLEAN
  /\ w \in [Clients -> {"none", "login", "join", "recv", "loop", "done"}]
  /\ currentRoomName \in Names
  /\ typed \in Seq(AllLines) /\ lines \in Seq(LineIds) /\ answers \in Seq(LineIds)
  /\ faults \in Nat
  /\ text \in Seq(ShownLines)
  /\ published \in [{Sender} -> Nat]
  /\ feed \in [Clients -> Seq(ChatMessages)] /\ delivered \in [Clients -> Seq(ChatMessages)]
  /\ printed \in Seq(ShownLines)

-----------------------------------------------------------------------------
LEMMA TextRecord ==
  ASSUME NEW t, NEW n \in Nat, NEW x, x = [of |-> t, from |-> 0, len |-> n]
  PROVE  x.of = t /\ x.from = 0 /\ x.len = n /\ x.from + x.len = n /\ n <= n
OBVIOUS

LEMMA TextType ==
  ASSUME NEW t \in Texts \cup {""}
  PROVE  Text(t) \in TextLines /\ Text(t).of = t /\ Text(t).from = 0
<1>1. PICK n \in Nat : n = TextLen[t]
  BY SessionAssumption
<1>2. PICK x : x = Text(t)
  OBVIOUS
<1>3. x = [of |-> t, from |-> 0, len |-> n]
  BY <1>1, <1>2 DEF Text
<1>4. x.of = t /\ x.from = 0 /\ x.len = n /\ x.from + x.len = n /\ n <= n
  BY ONLY n \in Nat, <1>3, TextRecord
<1>5. x \in [of : Texts \cup {""}, from : Nat, len : Nat]
  BY <1>3
<1>6. x.from + x.len <= TextLen[x.of]
  BY <1>1, <1>4
<1> QED
  BY <1>2, <1>4, <1>5, <1>6 DEF TextLines

LEMMA NoTextType == Text("") \in TextLines /\ Text("").len = 0
<1>1. Text("") \in TextLines
  BY TextType
<1> QED
  BY <1>1, SessionAssumption DEF Text

LEMMA MessageType ==
  ASSUME NEW tag \in LineTags, NEW room \in Names, NEW t \in TextLines, NEW n \in Nat
  PROVE  /\ Message(tag, room, t, n) \in AllLines
         /\ Message(tag, room, t, n).tag = tag
         /\ Message(tag, room, t, n).text = t
         /\ Message(tag, room, t, n).for = n
         /\ Message(tag, room, t, n).part = 1
BY DEF Message, AllLines

\* What a worker answers to m.
Answering(m, status) == [m EXCEPT !.tag = status, !.room = "", !.text = Text("")]

LEMMA AnsweringType ==
  ASSUME NEW m \in AllLines, NEW status \in {"ok", "err"}
  PROVE  /\ Answering(m, status) \in AllLines
         /\ Answering(m, status).tag = status
         /\ Answering(m, status).text.len = 0
         /\ Id(Answering(m, status)) = Id(m)
<1>1. PICK t \in TextLines : t = Text("") /\ t.len = 0
  BY NoTextType
<1>2. "" \in Names /\ status \in LineTags
  BY DEF Names, LineTags
<1>3. Answering(m, status) = [m EXCEPT !.tag = status, !.room = "", !.text = t]
  BY <1>1 DEF Answering
<1> QED
  BY <1>1, <1>2, <1>3 DEF AllLines, Id

(* A message is longer than the buffer exactly when it is too long.            *)
LEMMA LengthType ==
  ASSUME NEW m \in AllLines
  PROVE  /\ Header(m.tag) \in Nat /\ Place \in Nat \ {0} /\ Header(m.tag) < Place
         /\ m.text.len \in Nat /\ Length(m) = Header(m.tag) + m.text.len + 1
         /\ TooLong(m) <=> Length(m) > Place
         /\ m.tag = "delivery" => Header(m.tag) = 11 + NamesLen
         /\ m.tag \notin {"sendall", "delivery"} => Header(m.tag) = 0
<1>1. m.text.len \in Nat /\ NamesLen \in Nat /\ MAX_LEN \in Nat /\ 12 + NamesLen < MAX_LEN
  BY SessionAssumption DEF AllLines, TextLines
<1>2. /\ m.tag = "sendall" => Header(m.tag) = 8
      /\ m.tag = "delivery" => Header(m.tag) = 11 + NamesLen
      /\ m.tag \notin {"sendall", "delivery"} => Header(m.tag) = 0
  BY DEF Header
<1>3. PICK h \in Nat : h = Header(m.tag) /\ h < MAX_LEN - 1
  BY <1>1, <1>2
<1>4. Length(m) = h + m.text.len + 1 /\ Place = MAX_LEN - 1
  BY <1>3 DEF Length, Place
<1>5. TooLong(m) <=> Length(m) > Place
  BY <1>1, <1>3, <1>4 DEF TooLong
<1> QED
  BY <1>1, <1>2, <1>3, <1>4, <1>5

LEMMA Ceiling ==
  ASSUME NEW a \in Nat \ {0}, NEW b \in Nat \ {0}
  PROVE  /\ (a + b - 1) \div b \in Nat \ {0}
         /\ (((a + b - 1) \div b) - 1) * b < a
         /\ a > b <=> (a + b - 1) \div b > 1
<1>1. PICK x \in Nat : x = a + b - 1
  OBVIOUS
<1>2. PICK q \in Int : q = x \div b
  OBVIOUS
<1>3. q * b <= x /\ x < q * b + b
  BY <1>2
<1>4. q >= 1
  <2> SUFFICES ASSUME q <= 0 PROVE FALSE
    BY <1>2
  <2>1. q * b <= 0
    OBVIOUS
  <2> QED
    BY <1>1, <1>3, <2>1
<1>5. (q - 1) * b < a
  <2>1. (q - 1) * b = q * b - b
    OBVIOUS
  <2> QED
    BY <1>1, <1>3, <2>1
<1>6. ASSUME a > b PROVE q > 1
  <2>1. q = 1 => q * b = b
    OBVIOUS
  <2> QED
    BY <1>1, <1>3, <1>4, <1>6, <2>1
<1>7. ASSUME q > 1 PROVE a > b
  <2>1. (q - 1) * b >= b
    <3>1. PICK p \in Nat : q - 1 = p + 1
      BY <1>7
    <3>2. (p + 1) * b = p * b + b /\ p * b >= 0
      OBVIOUS
    <3> QED
      BY <3>1, <3>2
  <2>2. (q - 1) * b \in Int
    OBVIOUS
  <2> QED
    BY <1>5, <2>1, <2>2
<1> QED
  BY <1>1, <1>2, <1>4, <1>5, <1>6, <1>7

(* A line needs several buffers exactly when it is too long.                   *)
LEMMA PartsType ==
  ASSUME NEW m \in AllLines
  PROVE  /\ Parts(m) \in Nat \ {0}
         /\ TooLong(m) <=> Parts(m) > 1
         /\ (Parts(m) - 1) * Place < Length(m)
<1>1. PICK a \in Nat \ {0} : a = Length(m)
  BY LengthType
<1>2. PICK b \in Nat \ {0} : b = Place
  BY LengthType
<1>3. Parts(m) = (a + b - 1) \div b
  BY <1>1, <1>2 DEF Parts
<1>4. /\ Parts(m) \in Nat \ {0} /\ (Parts(m) - 1) * b < a
      /\ a > b <=> Parts(m) > 1
  BY <1>3, Ceiling
<1>5. TooLong(m) <=> a > b
  BY <1>1, <1>2, LengthType
<1> QED
  BY <1>1, <1>2, <1>4, <1>5

\* Where the j-th part of m begins.
Cut(m, j) == m.text.from + ((j - 1) * Place - Header(m.tag))

(* A part behind the first lies in the text, and has the tag that the text     *)
(* reads as from there, or none.                                               *)
LEMMA RestType ==
  ASSUME NEW m \in AllLines, NEW j \in 2..Parts(m)
  PROVE  /\ Rest(m, j) \in AllLines
         /\ Rest(m, j).for = m.for /\ Rest(m, j).part = j
         /\ Rest(m, j).text.of = m.text.of
         /\ Rest(m, j).tag # "" =>
              /\ Rest(m, j).tag = Reads[m.text.of][Cut(m, j)].tag
              /\ Rest(m, j).text.from = Cut(m, j) + Reads[m.text.of][Cut(m, j)].skip
<1>1. PICK h, place \in Nat :
        /\ h = Header(m.tag) /\ place = Place /\ h < place
        /\ Length(m) = h + m.text.len + 1
  BY LengthType
<1>2. PICK n \in Nat \ {0} : n = Parts(m) /\ (n - 1) * place < Length(m)
  BY <1>1, PartsType
<1>3. PICK from0, len0, max \in Nat :
        /\ from0 = m.text.from /\ len0 = m.text.len /\ max = TextLen[m.text.of]
        /\ from0 + len0 <= max
  BY SessionAssumption DEF AllLines, TextLines
<1>4. m.text \in TextLines /\ m.text.of \in Texts \cup {""} /\ m.for \in Nat
  BY DEF AllLines, TextLines
<1>5. PICK x \in Nat : x = (j - 1) * place /\ place <= x /\ x <= h + len0
  <2>1. PICK i \in Nat : j = i + 2 /\ i + 2 <= n
    <3>1. j \in 2..n
      BY <1>2
    <3>2. j = (j - 2) + 2 /\ j - 2 \in Nat
      BY <3>1
    <3> QED
      BY <3>1, <3>2
  <2>2. PICK k \in Nat : n = (i + 2) + k
    <3>1. n - (i + 2) \in Nat /\ n = (i + 2) + (n - (i + 2))
      BY <2>1
    <3> QED
      BY <3>1
  <2>3. PICK a \in Nat : a = i * place
    OBVIOUS
  <2>4. PICK b \in Nat : b = k * place
    OBVIOUS
  <2>5. (j - 1) * place = a + place
    BY <2>1, <2>3
  <2>6. (n - 1) * place = a + place + b
    BY <2>2, <2>3, <2>4
  <2>7. (n - 1) * place < h + len0 + 1
    BY <1>1, <1>2, <1>3
  <2> QED
    BY <2>3, <2>4, <2>5, <2>6, <2>7
<1>6. PICK cut, left \in Nat : cut = x - h /\ left = len0 - cut
  BY <1>1, <1>5
<1>7. PICK len \in Nat : len = (IF left < place THEN left ELSE place) /\ len <= left
  OBVIOUS
<1>8. PICK from \in Nat : from = from0 + cut /\ from + len <= max
  BY <1>3, <1>6, <1>7
<1>9. PICK read : read = Reads[m.text.of][from]
  OBVIOUS
<1>10. read \in [tag : Tags, room : Names, skip : Nat]
  <2>1. from \in 0..TextLen[m.text.of]
    BY <1>3, <1>7, <1>8
  <2>2. Reads[m.text.of] \in [0..TextLen[m.text.of] -> [tag : Tags, room : Names, skip : Nat]]
    BY <1>4, SessionAssumption
  <2> QED
    BY <1>9, <2>1, <2>2
<1>11. PICK skip \in Nat : skip = (IF read.skip <= len THEN read.skip ELSE 0) /\ skip <= len
  BY <1>10
<1>12. PICK of, begin, rest : of = m.text.of /\ begin = from + skip /\ rest = len - skip
  OBVIOUS
<1>13. PICK t : t = [of |-> of, from |-> begin, len |-> rest]
  OBVIOUS
<1>14. t \in TextLines /\ t.of = m.text.of /\ t.from = from + skip
  <2>1. begin \in Nat /\ rest \in Nat /\ begin + rest <= max
    BY <1>8, <1>11, <1>12
  <2> QED
    BY <1>3, <1>4, <1>12, <1>13, <2>1 DEF TextLines
<1>15. PICK tag : tag = IF read.skip <= len THEN read.tag ELSE ""
  OBVIOUS
<1>16. PICK room, for : room = read.room /\ for = m.for
  OBVIOUS
<1>17. Rest(m, j) = [tag |-> tag, room |-> room, text |-> t, for |-> for, part |-> j]
  <2>1. /\ (j - 1) * Place - Header(m.tag) = cut /\ m.text.len - cut = left
        /\ m.text.from + cut = from
    BY <1>1, <1>3, <1>5, <1>6, <1>8
  <2> QED
    BY <1>1, <1>7, <1>9, <1>11, <1>12, <1>13, <1>15, <1>16, <2>1 DEF Rest
<1>18. Cut(m, j) = from
  BY <1>1, <1>3, <1>5, <1>6, <1>8 DEF Cut
<1>19. tag \in LineTags /\ room \in Names /\ for \in Nat
  BY <1>4, <1>10, <1>15, <1>16, SessionAssumption DEF LineTags
<1>20. j \in Nat
  BY <1>2
<1>21. /\ Rest(m, j) \in AllLines /\ Rest(m, j).for = for /\ Rest(m, j).part = j
       /\ Rest(m, j).text = t /\ Rest(m, j).tag = tag
  BY <1>14, <1>17, <1>19, <1>20 DEF AllLines
<1>22. tag # "" => tag = read.tag /\ skip = read.skip
  BY <1>11, <1>15
<1> QED
  BY <1>9, <1>14, <1>18, <1>21, <1>22, <1>16

(* The first part of a line: its text is cut where the buffer is full.         *)
LEMMA FirstType ==
  ASSUME NEW m \in AllLines
  PROVE  /\ First(m) \in AllLines
         /\ First(m).tag = m.tag /\ First(m).for = m.for /\ First(m).part = m.part
         /\ First(m).text = [m.text EXCEPT !.len = IF Length(m) <= Place THEN @
                                                   ELSE Place - Header(m.tag)]
         /\ First(m).text.of = m.text.of
         /\ Length(m) <= Place => First(m) = m
<1>1. PICK h, place \in Nat :
        /\ h = Header(m.tag) /\ place = Place /\ h < place
        /\ Length(m) = h + m.text.len + 1
  BY LengthType
<1>2. PICK t \in TextLines : t = m.text
  BY DEF AllLines
<1>3. t.len \in Nat /\ t.from \in Nat /\ t.from + t.len <= TextLen[t.of] /\ TextLen[t.of] \in Nat
  BY SessionAssumption DEF TextLines
<1>4. PICK n \in Nat : /\ n = (IF Length(m) <= Place THEN t.len ELSE place - h)
                       /\ n <= t.len
  BY <1>1, <1>2, <1>3
<1>5. PICK s : s = [t EXCEPT !.len = n]
  OBVIOUS
<1>6. s \in TextLines /\ s.of = t.of
  <2>1. /\ s.of = t.of /\ s.from = t.from /\ s.len = n
        /\ s \in [of : Texts \cup {""}, from : Nat, len : Nat]
    BY <1>4, <1>5 DEF TextLines
  <2>2. t.from + n <= TextLen[t.of]
    BY <1>3, <1>4
  <2> QED
    BY <2>1, <2>2 DEF TextLines
<1>7. First(m) = [m EXCEPT !.text = s]
  BY <1>1, <1>2, <1>4, <1>5 DEF First, AllLines
<1>8. s = [m.text EXCEPT !.len = IF Length(m) <= Place THEN @ ELSE Place - Header(m.tag)]
  BY <1>1, <1>2, <1>4, <1>5
<1>9. ASSUME Length(m) <= Place PROVE First(m) = m
  <2>1. s = t
    BY <1>4, <1>5, <1>9 DEF TextLines
  <2> QED
    BY <1>2, <1>7, <2>1 DEF AllLines
<1>10. [m EXCEPT !.text = s] \in AllLines /\ [m EXCEPT !.text = s].text = s
       /\ [m EXCEPT !.text = s].tag = m.tag /\ [m EXCEPT !.text = s].for = m.for
       /\ [m EXCEPT !.text = s].part = m.part
  BY <1>6 DEF AllLines
<1> QED
  BY <1>2, <1>6, <1>7, <1>8, <1>9, <1>10

LEMMA LinesType ==
  ASSUME NEW m \in AllLines
  PROVE  /\ Lines(m) \in Seq(AllLines)
         /\ Len(Lines(m)) = Parts(m) /\ Parts(m) \in Nat \ {0}
         /\ TooLong(m) <=> Parts(m) > 1
         /\ Lines(m)[1] = First(m)
         /\ \A i \in 2..Parts(m) : Lines(m)[i] = Rest(m, i)
         /\ ~TooLong(m) => Lines(m) = <<m>>
<1>1. PICK n \in Nat \ {0} : n = Parts(m) /\ (TooLong(m) <=> n > 1)
  BY PartsType
<1>2. Lines(m) = [j \in 1..n |-> IF j = 1 THEN First(m) ELSE Rest(m, j)]
  BY <1>1 DEF Lines
<1>3. ASSUME NEW j \in 1..n
      PROVE  (IF j = 1 THEN First(m) ELSE Rest(m, j)) \in AllLines
  <2>1. j # 1 => j \in 2..n
    OBVIOUS
  <2> QED
    BY <1>1, <2>1, FirstType, RestType
<1>4. Lines(m) \in [1..n -> AllLines]
  BY <1>2, <1>3
<1>5. Lines(m) \in Seq(AllLines) /\ Len(Lines(m)) = n
  BY <1>4
<1>6. Lines(m)[1] = First(m) /\ \A i \in 2..n : Lines(m)[i] = Rest(m, i)
  BY <1>2
<1>7. ASSUME ~TooLong(m) PROVE Lines(m) = <<m>>
  <2>1. Length(m) <= Place
    <3>1. Length(m) \in Nat /\ Place \in Nat /\ ~(Length(m) > Place)
      BY <1>7, LengthType
    <3> QED
      BY <3>1
  <2>2. First(m) = m
    BY <2>1, FirstType
  <2>3. n = 1
    BY <1>1, <1>7
  <2> QED
    BY <1>5, <1>6, <2>2, <2>3
<1> QED
  BY <1>1, <1>5, <1>6, <1>7

(* A request without a text fits a line.                                       *)
LEMMA RequestFits ==
  ASSUME NEW m \in AllLines, m.tag \notin {"sendall", "delivery"}, m.text.len = 0
  PROVE  ~TooLong(m) /\ Parts(m) = 1 /\ Lines(m) = <<m>>
<1>1. Length(m) = 1
  <2>1. Header(m.tag) = 0
    BY LengthType
  <2> QED
    BY <2>1 DEF Length
<1>2. ~TooLong(m)
  <2>1. NamesLen \in Nat /\ MAX_LEN \in Nat /\ 12 + NamesLen < MAX_LEN
    BY SessionAssumption
  <2>2. ~(1 >= MAX_LEN)
    BY <2>1
  <2> QED
    BY <1>1, <2>2 DEF TooLong
<1>3. PICK n \in Nat \ {0} : n = Parts(m) /\ ~(n > 1)
  BY <1>2, LinesType
<1> QED
  BY <1>2, <1>3, LinesType

(* The numbers of the lines that a request is read as.                         *)
LEMMA IdsType ==
  ASSUME NEW m \in AllLines, m.part = 1
  PROVE  /\ Ids(m) \in Seq(LineIds) /\ Len(Ids(m)) = Parts(m)
         /\ \A i \in 1..Parts(m) : /\ Ids(m)[i] = Id(Lines(m)[i])
                                   /\ Ids(m)[i].for = m.for /\ Ids(m)[i].part = i
<1>1. PICK n \in Nat \ {0} : n = Parts(m)
  BY PartsType
<1>2. Ids(m) = [j \in 1..n |-> [for |-> m.for, part |-> j]] /\ m.for \in Nat
  BY <1>1 DEF Ids, AllLines
<1>3. Ids(m) \in [1..n -> LineIds]
  BY <1>2 DEF LineIds
<1>4. Ids(m) \in Seq(LineIds) /\ Len(Ids(m)) = n
  BY <1>3
<1>5. ASSUME NEW i \in 1..n
      PROVE  /\ Ids(m)[i] = Id(Lines(m)[i])
             /\ Ids(m)[i].for = m.for /\ Ids(m)[i].part = i
  <2>1. Ids(m)[i] = [for |-> m.for, part |-> i]
    BY <1>2
  <2>2. Lines(m)[i].for = m.for /\ Lines(m)[i].part = i
    <3>1. CASE i = 1
      BY <3>1, LinesType, FirstType
    <3>2. CASE i # 1
      <4>1. i \in 2..Parts(m)
        BY <1>1, <3>2
      <4>2. Lines(m)[i] = Rest(m, i)
        BY <4>1, LinesType
      <4>3. Rest(m, i).for = m.for /\ Rest(m, i).part = i
        BY <4>1, RestType
      <4> QED
        BY <4>2, <4>3
    <3> QED
      BY <3>1, <3>2
  <2> QED
    BY <2>1, <2>2 DEF Id
<1> QED
  BY <1>1, <1>4, <1>5
-----------------------------------------------------------------------------
(* Who moves: the steps of the sender, its connection and its worker, and those *)
(* of the receiver's, leave the other side alone.                              *)
SenderSame ==
  /\ pc'[Sender] = pc[Sender] /\ conn'[Sender] = conn[Sender] /\ w'[Sender] = w[Sender]
  /\ toServer'[Sender] = toServer[Sender] /\ toClient'[Sender] = toClient[Sender]
  /\ typed' = typed /\ lines' = lines /\ answers' = answers
  /\ text' = text /\ published' = published

ReceiverSame ==
  /\ pc'[Receiver] = pc[Receiver] /\ conn'[Receiver] = conn[Receiver]
  /\ w'[Receiver] = w[Receiver]
  /\ toServer'[Receiver] = toServer[Receiver] /\ toClient'[Receiver] = toClient[Receiver]
  /\ printed' = printed /\ delivered' = delivered

\* A step of the worker that answers a request of the loop.
Serves == WJoin \/ WLeave \/ WSendall \/ WRefuse

SenderMoves ==
  \/ LoginAnswered(Sender) \/ LoginFails(Sender) \/ ReadFails(Sender) \/ Begin(Sender)
  \/ Test(Sender) \/ Answer \/ QuitAnswered
  \/ WLogin(Sender) \/ WLeaveForJoin \/ Serves \/ WQuit
  \/ Connect(Sender) \/ Reset(Sender) \/ Getline

ReceiverMoves ==
  \/ LoginAnswered(Receiver) \/ LoginFails(Receiver) \/ ReadFails(Receiver)
  \/ Begin(Receiver) \/ Test(Receiver) \/ JoinAnswered \/ Recv
  \/ WLogin(Receiver) \/ RWJoin \/ RWSend \/ Connect(Receiver) \/ Reset(Receiver)

\* An interrupt, a failing read of a worker, or nothing.
OthersMove ==
  \/ \E c \in Clients : Interrupt(c) \/ WorkerReadFails(c)
  \/ UNCHANGED vars

LEMMA Movers == [Next]_vars => SenderMoves \/ ReceiverMoves \/ OthersMove
<1> SUFFICES ASSUME [Next]_vars PROVE SenderMoves \/ ReceiverMoves \/ OthersMove
  OBVIOUS
<1> USE DEF SenderMoves, ReceiverMoves, OthersMove
<1>1. CASE \E c \in Clients : Client(c)
  BY <1>1 DEF Client, Clients
<1>2. CASE \E c \in Clients : Worker(c)
  BY <1>2 DEF Worker, Clients, Serves
<1>3. CASE \E c \in Clients : Connect(c) \/ Interrupt(c) \/ Reset(c)
  BY <1>3 DEF Clients
<1>4. CASE Getline \/ UNCHANGED vars
  BY <1>4
<1> QED
  BY <1>1, <1>2, <1>3, <1>4 DEF Next

LEMMA Two == Sender \in Clients /\ Receiver \in Clients /\ Sender # Receiver
BY SessionAssumption DEF Clients

LEMMA Functions ==
  ASSUME TypeOK
  PROVE  /\ pc = [c \in Clients |-> pc[c]] /\ conn = [c \in Clients |-> conn[c]]
         /\ w = [c \in Clients |-> w[c]]
         /\ toServer = [c \in Clients |-> toServer[c]]
         /\ toClient = [c \in Clients |-> toClient[c]]
         /\ feed = [c \in Clients |-> feed[c]]
         /\ delivered = [c \in Clients |-> delivered[c]]
BY DEF TypeOK

LEMMA SenderKept == TypeOK /\ ReceiverMoves => SenderSame
<1> SUFFICES ASSUME TypeOK, ReceiverMoves PROVE SenderSame
  OBVIOUS
<1> USE Two, Functions DEF SenderSame, clientVars, netVars, chatVars, history, bounds
<1>1. CASE LoginAnswered(Receiver)
  BY <1>1 DEF LoginAnswered, Goto, Send
<1>2. CASE LoginFails(Receiver)
  BY <1>2 DEF LoginFails, Close, CloseWith
<1>3. CASE ReadFails(Receiver)
  BY <1>3 DEF ReadFails
<1>4. CASE Begin(Receiver)
  BY <1>4 DEF Begin, Goto
<1>5. CASE Test(Receiver)
  BY <1>5 DEF Test, Goto, Close, CloseWith
<1>6. CASE JoinAnswered
  BY <1>6 DEF JoinAnswered, Goto
<1>7. CASE Recv
  BY <1>7 DEF Recv, TakeLine, Received, Goto
<1>8. CASE WLogin(Receiver)
  BY <1>8 DEF WLogin, Takes, Ack, Reply
<1>9. CASE RWJoin
  BY <1>9 DEF RWJoin, Takes, Ack, Reply, Chat!Subscribe
<1>10. CASE RWSend
  BY <1>10 DEF RWSend, Reply, Chat!Deliver
<1>11. CASE Connect(Receiver)
  BY <1>11 DEF Connect, Goto
<1>12. CASE Reset(Receiver)
  BY <1>12 DEF Reset
<1> QED
  BY <1>1, <1>2, <1>3, <1>4, <1>5, <1>6, <1>7, <1>8, <1>9, <1>10, <1>11, <1>12
     DEF ReceiverMoves

LEMMA ReceiverKept == TypeOK /\ SenderMoves => ReceiverSame
<1> SUFFICES ASSUME TypeOK, SenderMoves PROVE ReceiverSame
  OBVIOUS
<1> USE Two, Functions DEF ReceiverSame, clientVars, netVars, chatVars, history, bounds
<1>1. CASE LoginAnswered(Sender)
  BY <1>1 DEF LoginAnswered, Goto
<1>2. CASE LoginFails(Sender)
  BY <1>2 DEF LoginFails, Close, CloseWith
<1>3. CASE ReadFails(Sender)
  BY <1>3 DEF ReadFails
<1>4. CASE Begin(Sender)
  BY <1>4 DEF Begin, Goto
<1>5. CASE Test(Sender)
  BY <1>5 DEF Test, Goto, Close, CloseWith
<1>6. CASE Answer
  BY <1>6 DEF Answer, Goto
<1>7. CASE QuitAnswered
  BY <1>7 DEF QuitAnswered, Goto, CloseWith
<1>8. CASE WLogin(Sender)
  BY <1>8 DEF WLogin, Takes, Ack, Reply
<1>9. CASE WLeaveForJoin
  BY <1>9 DEF WLeaveForJoin, Chat!Unsubscribe
<1>10. CASE Serves
  <2>1. CASE WJoin
    BY <2>1 DEF WJoin, Takes, Ack, Reply, Chat!Subscribe
  <2>2. CASE WLeave
    BY <2>2 DEF WLeave, Takes, Ack, Reply, Chat!Unsubscribe
  <2>3. CASE WSendall
    BY <2>3 DEF WSendall, Takes, Ack, Reply, Chat!Publish
  <2>4. CASE WRefuse
    BY <2>4 DEF WRefuse, Takes, Ack, Reply
  <2> QED
    BY <1>10, <2>1, <2>2, <2>3, <2>4 DEF Serves
<1>11. CASE WQuit
  BY <1>11 DEF WQuit, Takes, Ack, Reply
<1>12. CASE Connect(Sender)
  BY <1>12 DEF Connect, Goto
<1>13. CASE Reset(Sender)
  BY <1>13 DEF Reset
<1>14. CASE Getline
  <2> USE DEF SendMessage, Send, Goto
  <2>1. CASE \E r \in RoomNames \cup {currentRoomName} : TypeJoin(r)
    BY <2>1 DEF TypeJoin
  <2>2. CASE \E t \in Texts : TypeText(t)
    BY <2>2 DEF TypeText
  <2>3. CASE TypeLeave
    BY <2>3 DEF TypeLeave
  <2>4. CASE TypeEof
    BY <2>4 DEF TypeEof
  <2>5. CASE TypeUndefined
    BY <2>5 DEF TypeUndefined
  <2>6. CASE TypeQuit
    BY <2>6 DEF TypeQuit
  <2> QED
    BY <1>14, <2>1, <2>2, <2>3, <2>4, <2>5, <2>6 DEF Getline
<1> QED
  BY <1>1, <1>2, <1>3, <1>4, <1>5, <1>6, <1>7, <1>8, <1>9, <1>10, <1>11, <1>12,
     <1>13, <1>14 DEF SenderMoves

LEMMA OthersKeep == TypeOK /\ OthersMove => SenderSame /\ ReceiverSame /\ feed' = feed
<1> SUFFICES ASSUME TypeOK, OthersMove PROVE SenderSame /\ ReceiverSame /\ feed' = feed
  OBVIOUS
<1> USE DEF SenderSame, ReceiverSame, vars, clientVars, netVars, chatVars, history, bounds
<1>1. CASE \E c \in Clients : Interrupt(c)
  BY <1>1 DEF Interrupt
<1>2. CASE \E c \in Clients : WorkerReadFails(c)
  BY <1>2 DEF WorkerReadFails
<1>3. CASE UNCHANGED vars
  BY <1>3
<1> QED
  BY <1>1, <1>2, <1>3 DEF OthersMove

(* The server ends when a worker fails to read, and does not come back; faults *)
(* are not forgotten.                                                          *)
UpKept ==
  /\ up' = up \/ \E c \in Clients : WorkerReadFails(c)
  /\ (up' => up) /\ (faults' = 0 => faults = 0)

LEMMA UpFalls == TypeOK /\ [Next]_vars => UpKept
<1> SUFFICES ASSUME TypeOK, [Next]_vars PROVE UpKept
  OBVIOUS
<1> USE DEF vars, clientVars, netVars, chatVars, history, bounds
<1>0. ASSUME NEW c \in Clients,
             \/ LoginAnswered(c) \/ LoginFails(c) \/ ReadFails(c) \/ Begin(c) \/ Test(c)
             \/ WLogin(c) \/ Connect(c) \/ Reset(c)
      PROVE  up' = up /\ (faults' = 0 => faults = 0)
  <2>1. CASE LoginAnswered(c)
    BY <2>1 DEF LoginAnswered
  <2>2. CASE LoginFails(c) \/ ReadFails(c) \/ Begin(c)
    BY <2>2 DEF LoginFails, ReadFails, Begin
  <2>3. CASE Test(c)
    BY <2>3 DEF Test
  <2>4. CASE WLogin(c)
    BY <2>4 DEF WLogin, Takes
  <2>5. CASE Connect(c)
    BY <2>5 DEF Connect
  <2>6. CASE Reset(c)
    BY <2>6 DEF Reset
  <2> QED
    BY <1>0, <2>1, <2>2, <2>3, <2>4, <2>5, <2>6
<1>1. ASSUME SenderMoves PROVE up' = up /\ (faults' = 0 => faults = 0)
  <2>1. CASE Answer \/ QuitAnswered
    BY <2>1 DEF Answer, QuitAnswered
  <2>2. CASE WLeaveForJoin \/ Serves \/ WQuit
    BY <2>2 DEF WLeaveForJoin, Serves, WQuit, WJoin, WLeave, WSendall, WRefuse, Takes
  <2>3. CASE Getline
    <3>1. CASE TypeUndefined
      BY <3>1 DEF TypeUndefined
    <3>2. CASE TypeQuit
      BY <3>2 DEF TypeQuit
    <3>3. CASE \E m : SendMessage(m)
      BY <3>3 DEF SendMessage
    <3> QED
      BY <2>3, <3>1, <3>2, <3>3 DEF Getline, TypeJoin, TypeText, TypeLeave, TypeEof
  <2> QED
    BY <1>0, <1>1, <2>1, <2>2, <2>3, Two DEF SenderMoves
<1>2. ASSUME ReceiverMoves PROVE up' = up /\ (faults' = 0 => faults = 0)
  <2>1. CASE JoinAnswered \/ Recv
    BY <2>1 DEF JoinAnswered, Recv, Received
  <2>2. CASE RWJoin \/ RWSend
    BY <2>2 DEF RWJoin, RWSend, Takes
  <2> QED
    BY <1>0, <1>2, <2>1, <2>2, Two DEF ReceiverMoves
<1>3. CASE OthersMove
  BY <1>3 DEF OthersMove, Interrupt, WorkerReadFails, UpKept
<1> QED
  BY <1>1, <1>2, <1>3, Movers DEF UpKept
-----------------------------------------------------------------------------
(* What the messages of the chat are about.                                    *)
Increasing(s) == \A i, j \in 1..Len(s) : i < j => s[i].n < s[j].n

InOrder ==
  /\ Len(text) = published[Sender]
  /\ \A i \in 1..Len(feed[Receiver]) : feed[Receiver][i].n \in 1..Len(text)
  /\ \A i \in 1..Len(delivered[Receiver]) : delivered[Receiver][i].n \in 1..Len(text)
  /\ Increasing(feed[Receiver]) /\ Increasing(delivered[Receiver])
  /\ \A i \in 1..Len(delivered[Receiver]), j \in 1..Len(feed[Receiver]) :
       delivered[Receiver][i].n < feed[Receiver][j].n
-----------------------------------------------------------------------------
LEMMA TailType ==
  ASSUME NEW S, NEW q \in Seq(S), q # <<>>
  PROVE  /\ Head(q) \in S /\ Tail(q) \in Seq(S) /\ Head(q) = q[1]
         /\ Len(q) \in Nat \ {0} /\ Len(Tail(q)) = Len(q) - 1
         /\ \A i \in 1..(Len(q) - 1) : Tail(q)[i] = q[i + 1]
<1>1. Len(q) \in Nat \ {0}
  BY EmptySeq
<1>2. /\ Head(q) \in S /\ Tail(q) \in Seq(S) /\ Head(q) = q[1]
      /\ Len(Tail(q)) = Len(q) - 1
      /\ \A i \in 1..Len(Tail(q)) : Tail(q)[i] = q[i + 1]
  BY HeadTailProperties
<1> QED
  BY <1>1, <1>2

LEMMA SendEffect ==
  ASSUME TypeOK, NEW c \in Clients, NEW m \in AllLines, Send(c, m)
  PROVE  /\ toServer' \in [Clients -> Seq(AllLines)]
         /\ toServer'[c] = IF up /\ conn[c] = "open" /\ w[c] # "done"
                           THEN toServer[c] \o Lines(m) ELSE toServer[c]
<1>1. toServer \in [Clients -> Seq(AllLines)]
  BY DEF TypeOK
<1>2. toServer[c] \in Seq(AllLines) /\ Lines(m) \in Seq(AllLines)
  BY <1>1, LinesType
<1>3. toServer[c] \o Lines(m) \in Seq(AllLines)
  BY <1>2, ConcatProperties
<1> QED
  BY <1>1, <1>2, <1>3 DEF Send

LEMMA ReplyEffect ==
  ASSUME TypeOK, NEW c \in Clients, NEW m \in AllLines, Reply(c, m)
  PROVE  /\ toClient' \in [Clients -> Seq(AllLines)]
         /\ toClient'[c] = IF conn[c] = "open" THEN toClient[c] \o Lines(m) ELSE toClient[c]
<1>1. toClient \in [Clients -> Seq(AllLines)]
  BY DEF TypeOK
<1>2. toClient[c] \in Seq(AllLines) /\ Lines(m) \in Seq(AllLines)
  BY <1>1, LinesType
<1>3. toClient[c] \o Lines(m) \in Seq(AllLines)
  BY <1>2, ConcatProperties
<1> QED
  BY <1>1, <1>2, <1>3 DEF Reply

LEMMA TakesEffect ==
  ASSUME TypeOK, NEW c \in Clients, NEW from, NEW to \in {"join", "recv", "loop", "done"},
         Takes(c, from, to)
  PROVE  /\ toServer[c] \in Seq(AllLines) /\ toServer[c] # <<>>
         /\ Line1(c) \in AllLines /\ Line1(c) = toServer[c][1]
         /\ toServer' \in [Clients -> Seq(AllLines)] /\ toServer'[c] = Tail(toServer[c])
         /\ w' \in [Clients -> {"none", "login", "join", "recv", "loop", "done"}]
         /\ w[c] = from /\ w'[c] = to /\ up
<1>1. toServer \in [Clients -> Seq(AllLines)] /\ toServer[c] # <<>>
  BY DEF TypeOK, Takes
<1>2. Line1(c) \in AllLines /\ Line1(c) = toServer[c][1] /\ Tail(toServer[c]) \in Seq(AllLines)
  BY <1>1, TailType DEF Line1
<1>3. w \in [Clients -> {"none", "login", "join", "recv", "loop", "done"}]
  BY DEF TypeOK
<1> QED
  BY <1>1, <1>2, <1>3 DEF Takes

LEMMA AckEffect ==
  ASSUME TypeOK, NEW c \in Clients, NEW status \in {"ok", "err"}, Line1(c) \in AllLines,
         Ack(c, status)
  PROVE  /\ toClient' \in [Clients -> Seq(AllLines)]
         /\ \E m \in AllLines :
              /\ m.tag = status /\ Id(m) = Id(Line1(c))
              /\ toClient'[c] = IF conn[c] = "open" THEN Append(toClient[c], m)
                                ELSE toClient[c]
<1> DEFINE m == Answering(Line1(c), status)
<1>1. m \in AllLines /\ m.tag = status /\ m.text.len = 0 /\ Id(m) = Id(Line1(c))
  BY AnsweringType
<1>2. Reply(c, m)
  BY DEF Ack, Answering
<1> HIDE DEF m
<1>3. ~TooLong(m)
  <2>1. m.tag \notin {"sendall", "delivery"}
    BY <1>1
  <2>2. Header(m.tag) = 0 /\ Length(m) = Header(m.tag) + m.text.len + 1 /\ Place \in Nat \ {0}
        /\ (TooLong(m) <=> Length(m) > Place)
    BY <1>1, <2>1, LengthType
  <2>3. Length(m) = 1
    BY <1>1, <2>2
  <2> QED
    BY <2>2, <2>3
<1>4. Lines(m) = <<m>>
  BY <1>1, <1>3, LinesType
<1>5. toClient[c] \in Seq(AllLines)
  BY DEF TypeOK
<1>6. toClient[c] \o <<m>> = Append(toClient[c], m)
  BY <1>1, <1>5, AppendIsConcat
<1>7. /\ toClient' \in [Clients -> Seq(AllLines)]
      /\ toClient'[c] = IF conn[c] = "open" THEN toClient[c] \o Lines(m) ELSE toClient[c]
  BY <1>1, <1>2, ReplyEffect
<1> QED
  BY <1>1, <1>4, <1>6, <1>7

(* The delivery a worker sends.                                                *)
LEMMA DeliveryType ==
  ASSUME TypeOK, InOrder, feed[Receiver] # <<>>
  PROVE  /\ Delivery \in AllLines /\ Delivery.tag = "delivery"
         /\ Head(feed[Receiver]).n \in 1..Len(text)
         /\ Delivery.text = text[Head(feed[Receiver]).n].text
         /\ Delivery.for = Len(delivered[Receiver]) + 1 /\ Delivery.part = 1
<1>1. feed[Receiver] \in Seq(ChatMessages) /\ delivered[Receiver] \in Seq(ChatMessages)
  BY Two DEF TypeOK
<1>2. /\ Head(feed[Receiver]) \in ChatMessages /\ Len(feed[Receiver]) \in Nat \ {0}
      /\ Head(feed[Receiver]) = feed[Receiver][1]
  BY <1>1, TailType
<1>3. Head(feed[Receiver]).n \in 1..Len(text) /\ Head(feed[Receiver]).room \in Names
  BY <1>2 DEF InOrder, ChatMessages
<1>4. text[Head(feed[Receiver]).n].text \in TextLines
  <2>1. text \in Seq(ShownLines)
    BY DEF TypeOK
  <2>2. text[Head(feed[Receiver]).n] \in ShownLines
    BY <1>3, <2>1, ElementOfSeq
  <2> QED
    BY <2>2 DEF ShownLines
<1>5. Len(delivered[Receiver]) + 1 \in Nat
  BY <1>1
<1> DEFINE d == Head(feed[Receiver])
           n == Len(delivered[Receiver]) + 1
<1>6. Delivery = Message("delivery", d.room, text[d.n].text, n)
  BY DEF Delivery
<1>7. /\ "delivery" \in LineTags /\ d.room \in Names /\ text[d.n].text \in TextLines
      /\ n \in Nat
  BY <1>3, <1>4, <1>5 DEF LineTags
<1>8. /\ Message("delivery", d.room, text[d.n].text, n) \in AllLines
      /\ Message("delivery", d.room, text[d.n].text, n).tag = "delivery"
      /\ Message("delivery", d.room, text[d.n].text, n).text = text[d.n].text
      /\ Message("delivery", d.room, text[d.n].text, n).for = n
      /\ Message("delivery", d.room, text[d.n].text, n).part = 1
  BY ONLY <1>7, MessageType
<1> QED
  BY <1>3, <1>6, <1>8
-----------------------------------------------------------------------------
LEMMA PublishEffect ==
  ASSUME TypeOK, NEW r \in Names, Chat!Publish(Sender, r)
  PROVE  /\ feed' \in [Clients -> Seq(ChatMessages)] /\ delivered' = delivered
         /\ published' \in [{Sender} -> Nat] /\ published'[Sender] = published[Sender] + 1
         /\ \/ feed'[Receiver] = feed[Receiver]
            \/ \E m \in ChatMessages : /\ m.n = published[Sender] + 1
                                       /\ feed'[Receiver] = Append(feed[Receiver], m)
<1> DEFINE m == [tag |-> "delivery", room |-> r, from |-> Sender, n |-> published[Sender] + 1]
<1>1. m \in ChatMessages /\ m.n = published[Sender] + 1
  BY DEF TypeOK, ChatMessages
<1>2. /\ feed' = [u \in Chat!Users |->
                    IF u \in subs[r] /\ [c \in Clients |-> c][u] # [c \in Clients |-> c][Sender]
                    THEN Append(feed[u], m) ELSE feed[u]]
      /\ published' = [published EXCEPT ![Sender] = @ + 1] /\ delivered' = delivered
  BY DEF Chat!Publish, Chat!Message
<1>3. Chat!Users = Clients
  BY DEF Chat!Users, Clients
<1> HIDE DEF m
<1>4. ASSUME NEW u \in Clients PROVE Append(feed[u], m) \in Seq(ChatMessages) /\ feed[u] \in Seq(ChatMessages)
  <2>1. feed[u] \in Seq(ChatMessages)
    BY DEF TypeOK
  <2> QED
    BY <1>1, <2>1, AppendProperties
<1>5. feed' \in [Clients -> Seq(ChatMessages)]
  BY <1>2, <1>3, <1>4
<1>6. feed'[Receiver] = feed[Receiver] \/ feed'[Receiver] = Append(feed[Receiver], m)
  BY <1>2, <1>3, Two
<1>7. published' \in [{Sender} -> Nat] /\ published'[Sender] = published[Sender] + 1
  BY <1>2 DEF TypeOK
<1> QED
  BY <1>1, <1>2, <1>5, <1>6, <1>7

LEMMA DeliverEffect ==
  ASSUME TypeOK, Chat!Deliver(Receiver)
  PROVE  /\ feed[Receiver] # <<>> /\ feed[Receiver] \in Seq(ChatMessages)
         /\ feed' \in [Clients -> Seq(ChatMessages)]
         /\ delivered' \in [Clients -> Seq(ChatMessages)]
         /\ feed'[Receiver] = Tail(feed[Receiver])
         /\ delivered'[Receiver] = Append(delivered[Receiver], Head(feed[Receiver]))
         /\ published' = published
<1>1. /\ feed[Receiver] # <<>> /\ feed' = [feed EXCEPT ![Receiver] = Tail(@)]
      /\ delivered' = [delivered EXCEPT ![Receiver] = Append(@, Head(feed[Receiver]))]
      /\ published' = published
  BY DEF Chat!Deliver
<1>2. feed \in [Clients -> Seq(ChatMessages)] /\ delivered \in [Clients -> Seq(ChatMessages)]
  BY DEF TypeOK
<1>3. feed[Receiver] \in Seq(ChatMessages) /\ delivered[Receiver] \in Seq(ChatMessages)
  BY <1>2, Two
<1>4. Head(feed[Receiver]) \in ChatMessages /\ Tail(feed[Receiver]) \in Seq(ChatMessages)
  BY <1>1, <1>3, TailType
<1>5. Append(delivered[Receiver], Head(feed[Receiver])) \in Seq(ChatMessages)
  BY <1>3, <1>4, AppendProperties
<1> QED
  BY <1>1, <1>2, <1>3, <1>4, <1>5, Two

(* A request of the user is typed, and then sent.                              *)
LEMMA SendMessageEffect ==
  ASSUME TypeOK, NEW m \in AllLines, m.part = 1, SendMessage(m)
  PROVE  /\ pc[Sender] = "getline" /\ pc' = [pc EXCEPT ![Sender] = "await"]
         /\ typed' = Append(typed, m) /\ typed' \in Seq(AllLines)
         /\ lines' = lines \o Ids(m) /\ lines' \in Seq(LineIds)
         /\ Send(Sender, m)
         /\ UNCHANGED <<conn, toClient, up, w, subs, feed, delivered, published, text,
                        answers, printed, faults>>
<1>1. typed \in Seq(AllLines) /\ lines \in Seq(LineIds)
  BY DEF TypeOK
<1>2. Append(typed, m) \in Seq(AllLines)
  BY <1>1, AppendProperties
<1>3. lines \o Ids(m) \in Seq(LineIds)
  BY <1>1, IdsType, ConcatProperties
<1> QED
  BY <1>2, <1>3 DEF SendMessage, Goto, chatVars

Requests == {"join", "leave", "sendall"}

\* The next request, or the quit.  Only a text has a length.
IsNext(m) == /\ m.for = Len(typed) + 1 /\ m.part = 1
             /\ m.tag # "sendall" => m.text.len = 0

LEMMA GetlineEffect ==
  ASSUME TypeOK, Getline
  PROVE  \/ /\ \E m \in AllLines :
                 IsNext(m) /\ m.tag \in Requests /\ SendMessage(m)
            /\ currentRoomName' \in Names
         \/ TypeUndefined
         \/ \E m \in AllLines : /\ IsNext(m) /\ m.tag = "quit"
                                /\ TypeQuit /\ Send(Sender, m)
<1>1. /\ currentRoomName \in Names /\ "" \in Names /\ RoomNames \subseteq Names
      /\ Len(typed) + 1 \in Nat /\ NextNumber = Len(typed) + 1
      /\ Text("") \in TextLines /\ Text("").len = 0
  <2>1. currentRoomName \in Names /\ "" \in Names /\ RoomNames \subseteq Names
    BY DEF TypeOK, Names
  <2>2. Len(typed) + 1 \in Nat
    BY LenProperties DEF TypeOK
  <2>3. Text("") \in TextLines /\ Text("").len = 0
    BY NoTextType
  <2> QED
    BY <2>1, <2>2, <2>3 DEF NextNumber
<1>2. ASSUME NEW tag \in LineTags, NEW room \in Names, NEW t \in TextLines,
             tag # "sendall" => t.len = 0
      PROVE  /\ Message(tag, room, t, NextNumber) \in AllLines
             /\ IsNext(Message(tag, room, t, NextNumber))
             /\ Message(tag, room, t, NextNumber).tag = tag
  <2>1. NextNumber \in Nat
    BY <1>1
  <2>2. /\ Message(tag, room, t, NextNumber) \in AllLines
        /\ Message(tag, room, t, NextNumber).tag = tag
        /\ Message(tag, room, t, NextNumber).for = NextNumber
        /\ Message(tag, room, t, NextNumber).text = t
        /\ Message(tag, room, t, NextNumber).part = 1
    BY ONLY <2>1, MessageType, tag \in LineTags, room \in Names, t \in TextLines
  <2> QED
    BY <1>1, <1>2, <2>2 DEF IsNext
<1>3. ASSUME NEW r \in RoomNames \cup {currentRoomName}, TypeJoin(r)
      PROVE  /\ \E m \in AllLines :
                  IsNext(m) /\ m.tag \in Requests /\ SendMessage(m)
             /\ currentRoomName' \in Names
  <2>1. r \in Names /\ "join" \in LineTags
    BY <1>1 DEF LineTags
  <2> DEFINE m == Message("join", r, Text(""), NextNumber)
  <2>2. m \in AllLines /\ IsNext(m) /\ m.tag = "join"
    BY <1>1, <1>2, <2>1
  <2>3. SendMessage(m) /\ currentRoomName' = r
    BY <1>3 DEF TypeJoin
  <2> QED
    BY <2>1, <2>2, <2>3 DEF Requests
<1>4. ASSUME TypeLeave
      PROVE  /\ \E m \in AllLines :
                  IsNext(m) /\ m.tag \in Requests /\ SendMessage(m)
             /\ currentRoomName' \in Names
  <2>1. "leave" \in LineTags
    BY DEF LineTags
  <2> DEFINE m == Message("leave", "", Text(""), NextNumber)
  <2>2. m \in AllLines /\ IsNext(m) /\ m.tag = "leave"
    BY <1>1, <1>2, <2>1
  <2>3. SendMessage(m) /\ currentRoomName' = currentRoomName
    BY <1>4 DEF TypeLeave
  <2> QED
    BY <1>1, <2>2, <2>3 DEF Requests
<1>5. ASSUME (\E t \in Texts : TypeText(t)) \/ TypeEof
      PROVE  /\ \E m \in AllLines :
                  IsNext(m) /\ m.tag \in Requests /\ SendMessage(m)
             /\ currentRoomName' \in Names
  <2>1. "sendall" \in LineTags
    BY DEF LineTags
  <2>2. PICK t \in Texts \cup {""} :
          /\ SendMessage(Message("sendall", "", Text(t), NextNumber))
          /\ currentRoomName' = currentRoomName
    <3>1. CASE \E t \in Texts : TypeText(t)
      BY <3>1 DEF TypeText
    <3>2. CASE TypeEof
      BY <3>2 DEF TypeEof
    <3> QED
      BY <1>5, <3>1, <3>2
  <2> DEFINE m == Message("sendall", "", Text(t), NextNumber)
  <2>3. m \in AllLines /\ IsNext(m) /\ m.tag = "sendall"
    <3>1. Text(t) \in TextLines
      BY TextType
    <3> QED
      BY <1>1, <1>2, <2>1, <3>1
  <2> QED
    BY <1>1, <2>2, <2>3 DEF Requests
<1>6. ASSUME TypeQuit
      PROVE  \E m \in AllLines : /\ IsNext(m) /\ m.tag = "quit"
                                 /\ TypeQuit /\ Send(Sender, m)
  <2>1. "quit" \in LineTags
    BY DEF LineTags
  <2> DEFINE m == Message("quit", "", Text(""), NextNumber)
  <2>2. m \in AllLines /\ IsNext(m) /\ m.tag = "quit"
    BY <1>1, <1>2, <2>1
  <2>3. TypeQuit /\ Send(Sender, m)
    BY <1>6 DEF TypeQuit
  <2> QED
    BY <2>2, <2>3
<1> QED
  BY <1>3, <1>4, <1>5, <1>6 DEF Getline
-----------------------------------------------------------------------------
LEMMA NextType == TypeOK /\ InOrder /\ [Next]_vars => TypeOK'
<1> SUFFICES ASSUME TypeOK, InOrder, [Next]_vars PROVE TypeOK'
  OBVIOUS
<1> USE DEF clientVars, netVars, chatVars, history, bounds
<1>1. ASSUME NEW c \in Clients, toClient[c] # <<>>
      PROVE  [toClient EXCEPT ![c] = Tail(@)] \in [Clients -> Seq(AllLines)]
  <2>1. toClient \in [Clients -> Seq(AllLines)]
    BY DEF TypeOK
  <2>2. Tail(toClient[c]) \in Seq(AllLines)
    BY <1>1, <2>1, TailType
  <2> QED
    BY <2>1, <2>2
<1>2. ASSUME NEW c \in Clients, LoginAnswered(c) PROVE TypeOK'
  <2>1. toServer' \in [Clients -> Seq(AllLines)]
    <3>1. CASE c = Sender
      BY <1>2, <3>1 DEF LoginAnswered, TypeOK
    <3>2. CASE c # Sender
      <4>1. RoomName \in Names /\ Text("") \in TextLines /\ "join" \in LineTags
        BY SessionAssumption, TextType DEF Names, LineTags
      <4>2. Message("join", RoomName, Text(""), 0) \in AllLines
        BY <4>1, MessageType
      <4>3. Send(c, Message("join", RoomName, Text(""), 0))
        BY <1>2, <3>2 DEF LoginAnswered
      <4> QED
        BY <4>2, <4>3, SendEffect
    <3> QED
      BY <3>1, <3>2
  <2>2. toClient' \in [Clients -> Seq(AllLines)]
    BY <1>1, <1>2 DEF LoginAnswered
  <2> QED
    BY <1>2, <2>1, <2>2 DEF LoginAnswered, Goto, TypeOK
<1>3. ASSUME NEW c \in Clients, LoginFails(c) \/ ReadFails(c) \/ Begin(c) PROVE TypeOK'
  <2>1. CASE LoginFails(c)
    BY <2>1 DEF LoginFails, Close, CloseWith, TypeOK
  <2>2. CASE ReadFails(c)
    BY <2>2 DEF ReadFails, TypeOK
  <2>3. CASE Begin(c)
    BY <2>3 DEF Begin, Goto, TypeOK
  <2> QED
    BY <1>3, <2>1, <2>2, <2>3
<1>4. ASSUME NEW c \in Clients, Test(c) PROVE TypeOK'
  BY <1>4 DEF Test, Goto, Close, CloseWith, TypeOK
<1>5. CASE Answer
  <2>1. toClient' \in [Clients -> Seq(AllLines)] /\ answers' \in Seq(LineIds)
    <3>1. answers \in Seq(LineIds)
      BY DEF TypeOK
    <3>2. CASE /\ toClient[Sender] # <<>>
               /\ answers' = Append(answers, Id(Head(toClient[Sender])))
               /\ toClient' = [toClient EXCEPT ![Sender] = Tail(@)]
      <4>1. Head(toClient[Sender]) \in AllLines
        BY <3>2, Two, TailType DEF TypeOK
      <4>2. Id(Head(toClient[Sender])) \in LineIds
        BY <4>1 DEF AllLines, LineIds, Id
      <4>3. Append(answers, Id(Head(toClient[Sender]))) \in Seq(LineIds)
        BY <3>1, <4>2, AppendProperties
      <4> QED
        BY <1>1, <3>2, <4>3, Two
    <3>3. CASE answers' = Append(answers, NoReply) /\ UNCHANGED toClient
      <4>1. NoReply \in LineIds
        BY DEF NoReply, LineIds
      <4>2. Append(answers, NoReply) \in Seq(LineIds)
        BY <3>1, <4>1, AppendProperties
      <4> QED
        BY <3>3, <4>2 DEF TypeOK
    <3> QED
      BY <1>5, <3>2, <3>3 DEF Answer
  <2> QED
    BY <1>5, <2>1 DEF Answer, Goto, TypeOK
<1>6. CASE QuitAnswered
  <2>1. toClient' \in [Clients -> Seq(AllLines)]
    <3>1. CASE toClient[Sender] # <<>> /\ toClient' = [toClient EXCEPT ![Sender] = Tail(@)]
      BY <1>1, <3>1, Two
    <3>2. CASE UNCHANGED toClient
      BY <3>2 DEF TypeOK
    <3> QED
      BY <1>6, <3>1, <3>2 DEF QuitAnswered
  <2>2. conn' \in [Clients -> {"none", "open", "closed", "reset"}]
    <3>1. PICK fate \in {"closed", "reset"} :
            conn' = [conn EXCEPT ![Sender] = IF @ = "open" THEN fate ELSE @]
      BY <1>6 DEF QuitAnswered, CloseWith
    <3> QED
      BY <3>1 DEF TypeOK
  <2> QED
    BY <1>6, <2>1, <2>2 DEF QuitAnswered, Goto, TypeOK
<1>7. CASE JoinAnswered
  <2>1. toClient' \in [Clients -> Seq(AllLines)]
    BY <1>1, <1>7, Two DEF JoinAnswered
  <2> QED
    BY <1>7, <2>1 DEF JoinAnswered, Goto, TypeOK
<1>8. CASE Recv
  <2>1. toClient' \in [Clients -> Seq(AllLines)] /\ printed' \in Seq(ShownLines)
    <3>1. printed \in Seq(ShownLines)
      BY DEF TypeOK
    <3> DEFINE m == Head(toClient[Receiver])
    <3>2. CASE TakeLine /\ Received(IF m.tag = "delivery" THEN <<Shows(m)>> ELSE <<>>)
      <4>1. m \in AllLines /\ toClient[Receiver] # <<>>
        BY <3>2, Two, TailType DEF TypeOK, TakeLine
      <4>2. Shows(m) \in ShownLines
        BY <4>1 DEF AllLines, ShownLines, Shows
      <4>3. (IF m.tag = "delivery" THEN <<Shows(m)>> ELSE <<>>) \in Seq(ShownLines)
        <5> DEFINE x == Shows(m)
        <5>1. x \in ShownLines
          BY <4>2
        <5> HIDE DEF x
        <5>2. <<x>> \in Seq(ShownLines) /\ <<>> \in Seq(ShownLines)
          BY <5>1
        <5> QED
          BY <5>2 DEF x
      <4> DEFINE q == IF m.tag = "delivery" THEN <<Shows(m)>> ELSE <<>>
      <4>4. printed' = printed \o q
        BY <3>2 DEF Received
      <4> HIDE DEF q
      <4>5. printed \o q \in Seq(ShownLines)
        BY <3>1, <4>3, ConcatProperties DEF q
      <4>6. toClient' \in [Clients -> Seq(AllLines)]
        BY <1>1, <3>2, <4>1, Two DEF TakeLine
      <4> QED
        BY <4>4, <4>5, <4>6
    <3>3. CASE UNCHANGED toClient /\ Received(<<>>)
      <4>1. printed' = printed \o <<>>
        BY <3>3 DEF Received
      <4>2. printed \o <<>> = printed
        BY <3>1, ConcatEmptySeq
      <4> QED
        BY <3>1, <3>3, <4>1, <4>2 DEF TypeOK
    <3> QED
      BY <1>8, <3>2, <3>3 DEF Recv
  <2>2. pc' = [pc EXCEPT ![Receiver] = "test"]
        /\ UNCHANGED <<conn, toServer, up, w, subs, feed, delivered, published, text,
                       currentRoomName, typed, lines, answers, faults>>
    BY <1>8 DEF Recv, Received, Goto
  <2> QED
    BY <2>1, <2>2 DEF TypeOK
<1>9. ASSUME NEW c \in Clients, WLogin(c) PROVE TypeOK'
  <2> DEFINE to == IF conn[c] = "reset" THEN "done" ELSE IF c = Sender THEN "recv" ELSE "join"
  <2>1. Takes(c, "login", to) /\ Ack(c, "ok")
    BY <1>9 DEF WLogin
  <2>2. to \in {"join", "recv", "loop", "done"}
    OBVIOUS
  <2> HIDE DEF to
  <2>3. /\ toServer' \in [Clients -> Seq(AllLines)] /\ Line1(c) \in AllLines
        /\ w' \in [Clients -> {"none", "login", "join", "recv", "loop", "done"}]
    BY <2>1, <2>2, TakesEffect
  <2>4. toClient' \in [Clients -> Seq(AllLines)]
    BY <2>1, <2>3, AckEffect
  <2> QED
    BY <1>9, <2>3, <2>4 DEF WLogin, Takes, TypeOK
<1>10. ASSUME NEW to \in {"recv", "done"}, NEW status \in {"ok", "err"},
              Takes(Sender, "recv", to), Ack(Sender, status)
       PROVE  /\ toServer' \in [Clients -> Seq(AllLines)] /\ Line1(Sender) \in AllLines
              /\ w' \in [Clients -> {"none", "login", "join", "recv", "loop", "done"}]
              /\ toClient' \in [Clients -> Seq(AllLines)]
  <2>1. /\ toServer' \in [Clients -> Seq(AllLines)] /\ Line1(Sender) \in AllLines
        /\ w' \in [Clients -> {"none", "login", "join", "recv", "loop", "done"}]
    BY <1>10, TakesEffect, Two
  <2> QED
    BY <1>10, <2>1, AckEffect, Two
<1>11. CASE WLeaveForJoin
  BY <1>11 DEF WLeaveForJoin, Chat!Unsubscribe, TypeOK
<1>12. CASE WJoin
  BY <1>10, <1>12 DEF WJoin, Takes, Chat!Subscribe, TypeOK
<1>13. CASE WLeave
  BY <1>10, <1>13 DEF WLeave, Takes, Chat!Unsubscribe, TypeOK
<1>14. CASE WSendall
  <2>1. PICK r \in Names : Chat!Publish(Sender, r)
    BY <1>14 DEF WSendall
  <2>2. /\ feed' \in [Clients -> Seq(ChatMessages)] /\ delivered' = delivered
        /\ published' \in [{Sender} -> Nat]
    BY <2>1, PublishEffect
  <2>3. /\ toServer' \in [Clients -> Seq(AllLines)] /\ Line1(Sender) \in AllLines
        /\ w' \in [Clients -> {"none", "login", "join", "recv", "loop", "done"}]
        /\ toClient' \in [Clients -> Seq(AllLines)]
    BY <1>10, <1>14 DEF WSendall
  <2>4. text' \in Seq(ShownLines)
    <3> DEFINE x == Shows(Line1(Sender))
    <3>1. x \in ShownLines
      BY <2>3 DEF AllLines, ShownLines, Shows
    <3>2. text' = Append(text, x)
      BY <1>14 DEF WSendall
    <3> HIDE DEF x
    <3> QED
      BY <3>1, <3>2, AppendProperties DEF TypeOK
  <2> QED
    BY <1>14, <2>2, <2>3, <2>4 DEF WSendall, Takes, TypeOK
<1>15. CASE WRefuse
  BY <1>10, <1>15 DEF WRefuse, Takes, TypeOK
<1>16. CASE WQuit
  BY <1>10, <1>16 DEF WQuit, Takes, TypeOK
<1>17. CASE RWJoin
  <2>1. Takes(Receiver, "join", "loop") /\ Ack(Receiver, "ok")
    BY <1>17 DEF RWJoin
  <2>2. /\ toServer' \in [Clients -> Seq(AllLines)] /\ Line1(Receiver) \in AllLines
        /\ w' \in [Clients -> {"none", "login", "join", "recv", "loop", "done"}]
    BY <2>1, TakesEffect, Two
  <2>3. toClient' \in [Clients -> Seq(AllLines)]
    BY <2>1, <2>2, AckEffect, Two
  <2> QED
    BY <1>17, <2>2, <2>3 DEF RWJoin, Takes, Chat!Subscribe, TypeOK
<1>18. CASE RWSend
  <2>1. /\ feed[Receiver] # <<>> /\ feed' \in [Clients -> Seq(ChatMessages)]
        /\ delivered' \in [Clients -> Seq(ChatMessages)] /\ published' = published
    BY <1>18, DeliverEffect DEF RWSend
  <2>2. toClient' \in [Clients -> Seq(AllLines)]
    BY <1>18, <2>1, DeliveryType, ReplyEffect, Two DEF RWSend
  <2> QED
    BY <1>18, <2>1, <2>2 DEF RWSend, TypeOK
<1>19. ASSUME NEW c \in Clients, Connect(c) PROVE TypeOK'
  <2>1. toServer' \in [Clients -> Seq(AllLines)]
    <3> DEFINE tag == IF c = Sender THEN "slogin" ELSE "rlogin"
    <3>1. tag \in LineTags /\ "" \in Names /\ Text("") \in TextLines
      BY TextType DEF LineTags, Names
    <3> DEFINE m == Message(tag, "", Text(""), 0)
    <3>2. m \in AllLines
      BY <3>1, MessageType
    <3>3. toServer' = [toServer EXCEPT ![c] = <<m>>] \/ toServer' = toServer
      BY <1>19 DEF Connect
    <3> HIDE DEF m
    <3>4. <<m>> \in Seq(AllLines)
      BY <3>2
    <3> QED
      BY <3>3, <3>4 DEF TypeOK
  <2>2. /\ conn' \in [Clients -> {"none", "open", "closed", "reset"}]
        /\ w' \in [Clients -> {"none", "login", "join", "recv", "loop", "done"}]
    BY <1>19 DEF Connect, TypeOK
  <2> QED
    BY <1>19, <2>1, <2>2 DEF Connect, Goto, TypeOK
<1>20. ASSUME NEW c \in Clients, Reset(c) PROVE TypeOK'
  <2>1. toServer' \in [Clients -> Seq(AllLines)]
    <3>1. PICK rest \in {<<>>, toServer[c]} : toServer' = [toServer EXCEPT ![c] = rest]
      BY <1>20 DEF Reset
    <3>2. rest \in Seq(AllLines)
      <4>1. toServer[c] \in Seq(AllLines) /\ <<>> \in Seq(AllLines)
        BY EmptySeq DEF TypeOK
      <4> QED
        BY <4>1
    <3> QED
      BY <3>1, <3>2 DEF TypeOK
  <2>2. toClient' \in [Clients -> Seq(AllLines)]
    <3>1. PICK rest \in {<<>>, toClient[c]} : toClient' = [toClient EXCEPT ![c] = rest]
      BY <1>20 DEF Reset
    <3>2. rest \in Seq(AllLines)
      <4>1. toClient[c] \in Seq(AllLines) /\ <<>> \in Seq(AllLines)
        BY EmptySeq DEF TypeOK
      <4> QED
        BY <4>1
    <3> QED
      BY <3>1, <3>2 DEF TypeOK
  <2> QED
    BY <1>20, <2>1, <2>2 DEF Reset, TypeOK
<1>21. CASE Getline
  <2>1. ASSUME NEW m \in AllLines, IsNext(m), SendMessage(m), currentRoomName' \in Names
        PROVE  TypeOK'
    <3>1. /\ toServer' \in [Clients -> Seq(AllLines)] /\ typed' \in Seq(AllLines)
          /\ lines' \in Seq(LineIds)
      BY <2>1, SendMessageEffect, SendEffect, Two DEF IsNext
    <3> QED
      BY <2>1, <3>1, SendMessageEffect DEF IsNext, TypeOK
  <2>2. CASE TypeUndefined
    BY <2>2 DEF TypeUndefined, Goto, TypeOK
  <2>3. ASSUME NEW m \in AllLines, TypeQuit, Send(Sender, m) PROVE TypeOK'
    <3>1. toServer' \in [Clients -> Seq(AllLines)]
      BY <2>3, SendEffect, Two
    <3> QED
      BY <2>3, <3>1 DEF TypeQuit, Goto, TypeOK
  <2> QED
    BY <1>21, <2>1, <2>2, <2>3, GetlineEffect
<1>22. CASE OthersMove
  <2>1. CASE \E c \in Clients : Interrupt(c)
    BY <2>1 DEF Interrupt, TypeOK
  <2>2. CASE \E c \in Clients : WorkerReadFails(c)
    BY <2>2 DEF WorkerReadFails, TypeOK
  <2>3. CASE UNCHANGED vars
    BY <2>3 DEF vars, TypeOK
  <2> QED
    BY <1>22, <2>1, <2>2, <2>3 DEF OthersMove
<1>23. CASE SenderMoves
  BY <1>2, <1>3, <1>4, <1>5, <1>6, <1>9, <1>11, <1>12, <1>13, <1>14, <1>15, <1>16,
     <1>19, <1>20, <1>21, <1>23, Two DEF SenderMoves, Serves
<1>24. CASE ReceiverMoves
  BY <1>2, <1>3, <1>4, <1>7, <1>8, <1>9, <1>17, <1>18, <1>19, <1>20, <1>24, Two
     DEF ReceiverMoves
<1> QED
  BY <1>22, <1>23, <1>24, Movers
-----------------------------------------------------------------------------
LEMMA InitType == Init => TypeOK /\ InOrder
<1> SUFFICES ASSUME Init PROVE TypeOK /\ InOrder
  OBVIOUS
<1>1. Chat!Users = Clients
  BY DEF Chat!Users, Clients
<1>2. \A S : <<>> \in Seq(S)
  BY EmptySeq
<1>3. /\ feed = [u \in Clients |-> <<>>] /\ delivered = [u \in Clients |-> <<>>]
      /\ published = [s \in {Sender} |-> 0]
  BY <1>1 DEF Init, Chat!Init
<1>4. TypeOK
  BY <1>2, <1>3 DEF Init, TypeOK, Names
<1>5. /\ feed[Receiver] = <<>> /\ delivered[Receiver] = <<>> /\ text = <<>>
      /\ published[Sender] = 0
  BY <1>3, Two DEF Init
<1> QED
  BY <1>4, <1>5 DEF InOrder, Increasing

(* A step that leaves the chat alone.                                          *)
LEMMA ChatAlone ==
  ASSUME TypeOK, [Next]_vars, ~WSendall, ~RWSend
  PROVE  /\ feed'[Receiver] = feed[Receiver] /\ delivered' = delivered /\ text' = text
         /\ published' = published
<1> USE DEF clientVars, netVars, chatVars, history, bounds
<1>0. ASSUME NEW c \in Clients,
             \/ LoginAnswered(c) \/ LoginFails(c) \/ ReadFails(c) \/ Begin(c) \/ Test(c)
             \/ WLogin(c) \/ Connect(c) \/ Reset(c)
      PROVE  feed' = feed /\ delivered' = delivered /\ text' = text /\ published' = published
  <2>1. CASE LoginAnswered(c)
    BY <2>1 DEF LoginAnswered
  <2>2. CASE LoginFails(c) \/ ReadFails(c) \/ Begin(c)
    BY <2>2 DEF LoginFails, ReadFails, Begin
  <2>3. CASE Test(c)
    BY <2>3 DEF Test
  <2>4. CASE WLogin(c)
    BY <2>4 DEF WLogin
  <2>5. CASE Connect(c)
    BY <2>5 DEF Connect
  <2>6. CASE Reset(c)
    BY <2>6 DEF Reset
  <2> QED
    BY <1>0, <2>1, <2>2, <2>3, <2>4, <2>5, <2>6
<1>1. CASE SenderMoves
  <2>1. CASE Answer \/ QuitAnswered
    BY <2>1 DEF Answer, QuitAnswered
  <2>2. CASE WLeaveForJoin \/ WLeave
    BY <2>2 DEF WLeaveForJoin, WLeave, Chat!Unsubscribe
  <2>3. CASE WJoin
    BY <2>3 DEF WJoin, Chat!Subscribe
  <2>4. CASE WRefuse \/ WQuit
    BY <2>4 DEF WRefuse, WQuit
  <2>5. CASE Getline
    <3>1. CASE TypeUndefined
      BY <3>1 DEF TypeUndefined
    <3>2. CASE TypeQuit
      BY <3>2 DEF TypeQuit
    <3>3. CASE \E m : SendMessage(m)
      BY <3>3 DEF SendMessage
    <3> QED
      BY <2>5, <3>1, <3>2, <3>3 DEF Getline, TypeJoin, TypeText, TypeLeave, TypeEof
  <2> QED
    BY <1>0, <1>1, <2>1, <2>2, <2>3, <2>4, <2>5, Two DEF SenderMoves, Serves
<1>2. CASE ReceiverMoves
  <2>1. CASE JoinAnswered \/ Recv
    BY <2>1 DEF JoinAnswered, Recv, Received
  <2>2. CASE RWJoin
    BY <2>2 DEF RWJoin, Chat!Subscribe
  <2> QED
    BY <1>0, <1>2, <2>1, <2>2, Two DEF ReceiverMoves
<1>3. CASE OthersMove
  BY <1>3, OthersKeep DEF SenderSame, ReceiverSame, OthersMove, Interrupt, WorkerReadFails,
     vars
<1> QED
  BY <1>1, <1>2, <1>3, Movers

LEMMA NextOrder == TypeOK /\ InOrder /\ [Next]_vars => InOrder'
<1> SUFFICES ASSUME TypeOK, InOrder, [Next]_vars PROVE InOrder'
  OBVIOUS
<1> DEFINE fd == feed[Receiver]
           dl == delivered[Receiver]
<1>1. /\ fd \in Seq(ChatMessages) /\ dl \in Seq(ChatMessages)
      /\ text \in Seq(ShownLines)
  BY Two DEF TypeOK
<1>2. CASE WSendall
  <2>1. PICK r \in Names : Chat!Publish(Sender, r)
    BY <1>2 DEF WSendall
  <2>2. /\ delivered' = delivered /\ published'[Sender] = published[Sender] + 1
        /\ \/ feed'[Receiver] = feed[Receiver]
           \/ \E m \in ChatMessages : /\ m.n = published[Sender] + 1
                                      /\ feed'[Receiver] = Append(feed[Receiver], m)
    BY <2>1, PublishEffect
  <2>3. Len(text') = Len(text) + 1 /\ Len(text) \in Nat /\ Len(text) = published[Sender]
    <3> DEFINE x == Shows(Line1(Sender))
    <3>1. text' = Append(text, x)
      BY <1>2 DEF WSendall
    <3> HIDE DEF x
    <3>2. Len(Append(text, x)) = Len(text) + 1 /\ Len(text) \in Nat
      BY <1>1
    <3> QED
      BY <3>1, <3>2 DEF InOrder
  <2>4. CASE feed'[Receiver] = feed[Receiver]
    <3>1. \A i : i \in 1..Len(text) => i \in 1..Len(text')
      BY <2>3
    <3>2. Len(text') = published'[Sender]
      BY <2>2, <2>3
    <3> QED
      BY <2>2, <2>4, <3>1, <3>2, Zenon DEF InOrder, Increasing
  <2>5. ASSUME NEW m \in ChatMessages, m.n = published[Sender] + 1,
               feed'[Receiver] = Append(feed[Receiver], m)
        PROVE  InOrder'
    <3> DEFINE fp == feed'[Receiver]
    <3>1. /\ Len(fd) \in Nat /\ Len(fp) = Len(fd) + 1 /\ fp[Len(fd) + 1] = m
          /\ \A i \in 1..Len(fd) : fp[i] = fd[i]
      BY <1>1, <2>5, AppendProperties
    <3>2. ASSUME NEW i \in 1..Len(fp)
          PROVE  (i \in 1..Len(fd) /\ fp[i] = fd[i]) \/ (i = Len(fd) + 1 /\ fp[i] = m)
      BY <3>1
    <3>3. \A i \in 1..Len(fd) : fd[i].n \in 1..Len(text)
      BY DEF InOrder
    <3>4. \A i \in 1..Len(dl) : dl[i].n \in 1..Len(text)
      BY DEF InOrder
    <3> HIDE DEF fp
    <3>5. \A i \in 1..Len(fp) : fp[i].n \in 1..Len(text')
      <4> SUFFICES ASSUME NEW i \in 1..Len(fp)
                   PROVE  fp[i].n \in 1..Len(text')
        OBVIOUS
      <4>1. CASE i \in 1..Len(fd) /\ fp[i] = fd[i]
        BY <2>3, <3>3, <4>1
      <4>2. CASE fp[i] = m
        BY <2>3, <2>5, <4>2
      <4> QED
        BY <3>2, <4>1, <4>2
    <3>6. Increasing(fp)
      <4> SUFFICES ASSUME NEW i \in 1..Len(fp), NEW j \in 1..Len(fp), i < j
                   PROVE  fp[i].n < fp[j].n
        BY DEF Increasing
      <4>1. i \in 1..Len(fd) /\ fp[i] = fd[i]
        BY <3>1, <3>2
      <4>2. CASE j \in 1..Len(fd) /\ fp[j] = fd[j]
        BY <4>1, <4>2 DEF InOrder, Increasing
      <4>3. CASE fp[j] = m
        BY <2>3, <2>5, <3>3, <4>1, <4>3
      <4> QED
        BY <3>2, <4>2, <4>3
    <3>7. \A i \in 1..Len(dl), j \in 1..Len(fp) : dl[i].n < fp[j].n
      <4> SUFFICES ASSUME NEW i \in 1..Len(dl), NEW j \in 1..Len(fp)
                   PROVE  dl[i].n < fp[j].n
        OBVIOUS
      <4>1. dl[i].n \in 1..Len(text)
        BY <3>4
      <4>2. CASE j \in 1..Len(fd) /\ fp[j] = fd[j]
        BY <4>2 DEF InOrder
      <4>3. CASE fp[j] = m
        BY <2>3, <2>5, <4>1, <4>3
      <4> QED
        BY <3>2, <4>2, <4>3
    <3>8. \A i \in 1..Len(dl) : dl[i].n \in 1..Len(text')
      BY <2>3, <3>4
    <3> QED
      BY <2>2, <2>3, <3>5, <3>6, <3>7, <3>8 DEF InOrder, fp
  <2> QED
    BY <2>2, <2>4, <2>5
<1>3. CASE RWSend
  <2>1. /\ fd # <<>> /\ feed'[Receiver] = Tail(fd)
        /\ delivered'[Receiver] = Append(dl, Head(fd)) /\ published' = published
    BY <1>3, DeliverEffect DEF RWSend
  <2>2. text' = text
    BY <1>3 DEF RWSend
  <2> DEFINE fp == feed'[Receiver]
             dp == delivered'[Receiver]
  <2>3. /\ Len(fd) \in Nat \ {0} /\ Len(fp) = Len(fd) - 1 /\ Head(fd) = fd[1]
        /\ \A i \in 1..(Len(fd) - 1) : fp[i] = fd[i + 1]
    BY <1>1, <2>1, TailType
  <2>4. /\ Len(dl) \in Nat /\ Len(dp) = Len(dl) + 1 /\ dp[Len(dl) + 1] = fd[1]
        /\ \A i \in 1..Len(dl) : dp[i] = dl[i]
    BY <1>1, <2>1, <2>3, TailType, AppendProperties
  <2>5. /\ \A i \in 1..Len(fd) : fd[i].n \in 1..Len(text)
        /\ \A i \in 1..Len(dl) : dl[i].n \in 1..Len(text)
        /\ \A i, j \in 1..Len(fd) : i < j => fd[i].n < fd[j].n
        /\ \A i, j \in 1..Len(dl) : i < j => dl[i].n < dl[j].n
        /\ \A i \in 1..Len(dl), j \in 1..Len(fd) : dl[i].n < fd[j].n
    BY DEF InOrder, Increasing
  <2> HIDE DEF fp, dp, fd, dl
  <2>6. ASSUME NEW i \in 1..Len(fp) PROVE i + 1 \in 2..Len(fd) /\ fp[i] = fd[i + 1]
    BY <2>3
  <2>7. ASSUME NEW i \in 1..Len(dp)
        PROVE  (i \in 1..Len(dl) /\ dp[i] = dl[i]) \/ (i = Len(dl) + 1 /\ dp[i] = fd[1])
    BY <2>4
  <2>8. \A i \in 1..Len(fp) : fp[i].n \in 1..Len(text)
    BY <2>5, <2>6
  <2>9. 1 \in 1..Len(fd)
    BY <2>3
  <2>10. \A i \in 1..Len(dp) : dp[i].n \in 1..Len(text)
    BY <2>5, <2>7, <2>9
  <2>11. Increasing(fp)
    <3> SUFFICES ASSUME NEW i \in 1..Len(fp), NEW j \in 1..Len(fp), i < j
                 PROVE  fp[i].n < fp[j].n
      BY DEF Increasing
    <3>1. fp[i] = fd[i + 1] /\ fp[j] = fd[j + 1] /\ i + 1 \in 1..Len(fd) /\ j + 1 \in 1..Len(fd)
          /\ i + 1 < j + 1
      BY <2>6
    <3> QED
      BY <2>5, <3>1
  <2>12. Increasing(dp)
    <3> SUFFICES ASSUME NEW i \in 1..Len(dp), NEW j \in 1..Len(dp), i < j
                 PROVE  dp[i].n < dp[j].n
      BY DEF Increasing
    <3>1. i \in 1..Len(dl) /\ dp[i] = dl[i]
      BY <2>4, <2>7
    <3>2. CASE j \in 1..Len(dl) /\ dp[j] = dl[j]
      BY <2>5, <3>1, <3>2
    <3>3. CASE dp[j] = fd[1]
      BY <2>5, <2>9, <3>1, <3>3
    <3> QED
      BY <2>7, <3>2, <3>3
  <2>13. \A i \in 1..Len(dp), j \in 1..Len(fp) : dp[i].n < fp[j].n
    <3> SUFFICES ASSUME NEW i \in 1..Len(dp), NEW j \in 1..Len(fp)
                 PROVE  dp[i].n < fp[j].n
      OBVIOUS
    <3>1. fp[j] = fd[j + 1] /\ j + 1 \in 1..Len(fd) /\ 1 < j + 1
      BY <2>6
    <3>2. CASE i \in 1..Len(dl) /\ dp[i] = dl[i]
      BY <2>5, <3>1, <3>2
    <3>3. CASE dp[i] = fd[1]
      BY <2>5, <2>9, <3>1, <3>3
    <3> QED
      BY <2>7, <3>2, <3>3
  <2> QED
    BY <2>1, <2>2, <2>8, <2>10, <2>11, <2>12, <2>13 DEF InOrder, fp, dp
<1>4. CASE ~WSendall /\ ~RWSend
  BY <1>4, ChatAlone DEF InOrder, Increasing
<1> QED
  BY <1>2, <1>3, <1>4
-----------------------------------------------------------------------------
(* What a step does to the dialogue of the sender and its worker.              *)
LoopPlaces == {"begin", "test", "getline"}

DialogueSame == typed' = typed /\ lines' = lines /\ answers' = answers

LinesSame == toServer'[Sender] = toServer[Sender] /\ toClient'[Sender] = toClient[Sender]

SenderPasses ==
  /\ \/ pc'[Sender] = pc[Sender]
     \/ pc[Sender] \in LoopPlaces /\ pc'[Sender] \in LoopPlaces
  /\ conn'[Sender] = conn[Sender] /\ w'[Sender] = w[Sender] /\ LinesSame /\ DialogueSame

SenderEnds ==
  /\ pc'[Sender] \in {"done", "exited", "ub"}
  /\ w'[Sender] = w[Sender] /\ toServer'[Sender] = toServer[Sender] /\ DialogueSame
  /\ up' = up /\ faults' = faults
  /\ \/ toClient'[Sender] = toClient[Sender]
     \/ /\ pc[Sender] = "quitting" /\ toClient[Sender] # <<>>
        /\ toClient'[Sender] = Tail(toClient[Sender])
  /\ \/ conn'[Sender] = conn[Sender]
     \/ conn'[Sender] = "closed"
     \/ /\ conn[Sender] = "open" /\ conn'[Sender] = "reset"
        /\ toClient'[Sender] # <<>>
        /\ \/ pc[Sender] = "test" /\ toClient'[Sender] = toClient[Sender]
           \/ /\ pc[Sender] = "quitting" /\ toClient[Sender] # <<>>
              /\ toClient'[Sender] = Tail(toClient[Sender])

SenderConnects ==
  /\ pc[Sender] = "start" /\ pc'[Sender] = "login"
  /\ conn'[Sender] = "open" /\ w'[Sender] = "login" /\ up' = up /\ faults' = faults
  /\ Len(toServer'[Sender]) = 1 /\ toServer'[Sender][1].tag = "slogin"
  /\ toClient'[Sender] = toClient[Sender] /\ DialogueSame

SenderTakes ==
  /\ toClient[Sender] # <<>> /\ toClient'[Sender] = Tail(toClient[Sender])
  /\ toServer'[Sender] = toServer[Sender]
  /\ conn'[Sender] = conn[Sender] /\ w'[Sender] = w[Sender] /\ up' = up /\ faults' = faults
  /\ typed' = typed /\ lines' = lines
  /\ \/ pc[Sender] = "login" /\ pc'[Sender] = "begin" /\ answers' = answers
     \/ /\ pc[Sender] = "await" /\ pc'[Sender] = "test"
        /\ answers' = Append(answers, Id(toClient[Sender][1]))

SenderMisses ==
  /\ pc[Sender] = "await" /\ pc'[Sender] = "test" /\ AtEof(Sender)
  /\ answers' = Append(answers, NoReply) /\ typed' = typed /\ lines' = lines /\ LinesSame
  /\ conn'[Sender] = conn[Sender] /\ w'[Sender] = w[Sender] /\ up' = up /\ faults' = faults

Puts(m) ==
  /\ IsNext(m)
  /\ toServer'[Sender] = IF up /\ conn[Sender] = "open" /\ w[Sender] # "done"
                         THEN toServer[Sender] \o Lines(m) ELSE toServer[Sender]
  /\ toClient'[Sender] = toClient[Sender] /\ answers' = answers
  /\ conn'[Sender] = conn[Sender] /\ w'[Sender] = w[Sender] /\ up' = up /\ faults' = faults
  /\ pc[Sender] = "getline"

SenderTypes ==
  \E m \in AllLines : /\ Puts(m) /\ m.tag \in Requests
                      /\ pc'[Sender] = "await" /\ typed' = Append(typed, m)
                      /\ lines' = lines \o Ids(m)

SenderQuits ==
  \E m \in AllLines : /\ Puts(m) /\ m.tag = "quit"
                      /\ pc'[Sender] = "quitting" /\ typed' = typed /\ lines' = lines

\* The worker takes the first line and answers it.
Serving ==
  /\ up /\ up' = up /\ faults' = faults
  /\ toServer[Sender] # <<>> /\ toServer'[Sender] = Tail(toServer[Sender])
  /\ pc'[Sender] = pc[Sender] /\ conn'[Sender] = conn[Sender] /\ DialogueSame
  /\ \E m \in AllLines :
       /\ Id(m) = Id(toServer[Sender][1])
       /\ toClient'[Sender] = IF conn[Sender] = "open" THEN Append(toClient[Sender], m)
                              ELSE toClient[Sender]

WorkerServes ==
  /\ Serving
  /\ \/ /\ w[Sender] = "login"
        /\ w'[Sender] = IF conn[Sender] = "reset" THEN "done" ELSE "recv"
     \/ w[Sender] = "recv" /\ w'[Sender] = "recv"
     \/ w[Sender] = "recv" /\ w'[Sender] = "done" /\ toServer[Sender][1].tag = "quit"

SenderReset ==
  /\ conn[Sender] = "open" /\ conn'[Sender] = "reset" /\ faults' = 1
  /\ pc'[Sender] = pc[Sender] /\ w'[Sender] = w[Sender] /\ up' = up /\ DialogueSame
  /\ toServer'[Sender] \in {<<>>, toServer[Sender]}
  /\ toClient'[Sender] \in {<<>>, toClient[Sender]}
-----------------------------------------------------------------------------
LEMMA ServesEffect ==
  ASSUME TypeOK, NEW to \in {"recv", "done"}, NEW from, NEW status \in {"ok", "err"},
         Takes(Sender, from, to), Ack(Sender, status)
  PROVE  /\ Serving /\ w[Sender] = from /\ w'[Sender] = to
         /\ Line1(Sender) = toServer[Sender][1]
<1>1. /\ toServer[Sender] # <<>>
      /\ Line1(Sender) \in AllLines /\ Line1(Sender) = toServer[Sender][1]
      /\ toServer'[Sender] = Tail(toServer[Sender])
      /\ w[Sender] = from /\ w'[Sender] = to /\ up
  BY TakesEffect, Two
<1>2. \E m \in AllLines :
        /\ Id(m) = Id(Line1(Sender))
        /\ toClient'[Sender] = IF conn[Sender] = "open" THEN Append(toClient[Sender], m)
                               ELSE toClient[Sender]
  BY <1>1, AckEffect, Two
<1>3. /\ pc' = pc /\ conn' = conn /\ up' = up /\ faults' = faults /\ DialogueSame
  BY DEF Takes, clientVars, history, bounds, DialogueSame
<1> QED
  BY <1>1, <1>2, <1>3 DEF Serving

LEMMA SenderEffect ==
  ASSUME TypeOK, [Next]_vars
  PROVE  \/ SenderPasses \/ SenderEnds \/ SenderConnects \/ SenderTakes \/ SenderMisses
         \/ SenderTypes \/ SenderQuits \/ WorkerServes \/ SenderReset
<1> USE Two, Functions DEF clientVars, netVars, chatVars, history, bounds, DialogueSame,
      LinesSame, LoopPlaces
<1>1. CASE ReceiverMoves \/ OthersMove
  BY <1>1, SenderKept, OthersKeep DEF SenderSame, SenderPasses
<1>2. CASE LoginAnswered(Sender)
  BY <1>2 DEF LoginAnswered, Goto, SenderTakes, TypeOK
<1>3. CASE LoginFails(Sender)
  BY <1>3 DEF LoginFails, AtEof, Close, CloseWith, SenderEnds, TypeOK
<1>4. CASE ReadFails(Sender)
  BY <1>4 DEF ReadFails, SenderEnds, TypeOK
<1>5. CASE Begin(Sender)
  BY <1>5 DEF Begin, Goto, SenderPasses, TypeOK
<1>6. CASE Test(Sender)
  <2>1. CASE running[Sender]
    BY <1>6, <2>1 DEF Test, Goto, SenderPasses, TypeOK
  <2>2. CASE ~running[Sender]
    <3>1. /\ pc[Sender] = "test" /\ pc'[Sender] \in {"ub", "done"}
          /\ UNCHANGED <<toServer, toClient, up, w, typed, lines, answers, faults>>
      BY <1>6, <2>2 DEF Test, Goto, TypeOK
    <3>2. PICK fate \in IF toClient[Sender] = <<>> THEN {"closed"} ELSE {"closed", "reset"} :
            conn' = [conn EXCEPT ![Sender] = IF @ = "open" THEN fate ELSE @]
      BY <1>6, <2>2 DEF Test, Close, CloseWith
    <3>3. conn'[Sender] = IF conn[Sender] = "open" THEN fate ELSE conn[Sender]
      BY <3>2
    <3>4. fate = "closed" \/ (fate = "reset" /\ toClient[Sender] # <<>>)
      BY <3>2
    <3> QED
      BY <3>1, <3>3, <3>4 DEF SenderEnds
  <2> QED
    BY <2>1, <2>2
<1>7. CASE Answer
  <2>1. /\ pc[Sender] = "await" /\ pc'[Sender] = "test" /\ conn' = conn /\ w' = w /\ up' = up
        /\ toServer' = toServer /\ typed' = typed /\ lines' = lines /\ faults' = faults
    BY <1>7 DEF Answer, Goto, TypeOK
  <2>2. CASE /\ toClient[Sender] # <<>>
             /\ answers' = Append(answers, Id(Head(toClient[Sender])))
             /\ toClient' = [toClient EXCEPT ![Sender] = Tail(@)]
    <3>1. Head(toClient[Sender]) = toClient[Sender][1]
      BY <2>2, TailType DEF TypeOK
    <3>2. toClient'[Sender] = Tail(toClient[Sender])
      BY <2>2
    <3> QED
      BY <2>1, <2>2, <3>1, <3>2 DEF SenderTakes
  <2>3. CASE AtEof(Sender) /\ answers' = Append(answers, NoReply) /\ UNCHANGED toClient
    BY <2>1, <2>3 DEF SenderMisses
  <2> QED
    BY <1>7, <2>2, <2>3 DEF Answer
<1>8. CASE QuitAnswered
  <2>1. /\ pc[Sender] = "quitting" /\ pc'[Sender] \in {"done", "ub"} /\ w' = w /\ up' = up
        /\ toServer' = toServer /\ typed' = typed /\ lines' = lines /\ answers' = answers
        /\ faults' = faults
    BY <1>8 DEF QuitAnswered, Goto, TypeOK
  <2>2. \/ toClient'[Sender] = toClient[Sender] /\ toClient[Sender] = <<>>
        \/ toClient[Sender] # <<>> /\ toClient'[Sender] = Tail(toClient[Sender])
    <3>1. CASE toClient[Sender] # <<>> /\ toClient' = [toClient EXCEPT ![Sender] = Tail(@)]
      BY <3>1
    <3>2. CASE AtEof(Sender) /\ UNCHANGED toClient
      BY <3>2 DEF AtEof
    <3> QED
      BY <1>8, <3>1, <3>2 DEF QuitAnswered
  <2>3. PICK fate \in IF toClient'[Sender] = <<>> THEN {"closed"} ELSE {"closed", "reset"} :
          conn' = [conn EXCEPT ![Sender] = IF @ = "open" THEN fate ELSE @]
    BY <1>8 DEF QuitAnswered, CloseWith
  <2>4. conn'[Sender] = IF conn[Sender] = "open" THEN fate ELSE conn[Sender]
    BY <2>3
  <2>5. fate = "closed" \/ (fate = "reset" /\ toClient'[Sender] # <<>>)
    BY <2>3
  <2> QED
    BY <2>1, <2>2, <2>4, <2>5 DEF SenderEnds
<1>9. CASE WLogin(Sender)
  <2> DEFINE to == IF conn[Sender] = "reset" THEN "done" ELSE "recv"
  <2>1. Takes(Sender, "login", to) /\ Ack(Sender, "ok") /\ to \in {"recv", "done"}
    BY <1>9 DEF WLogin
  <2> HIDE DEF to
  <2>2. Serving /\ w[Sender] = "login" /\ w'[Sender] = to
    BY ONLY <2>1, ServesEffect, TypeOK
  <2> QED
    BY <2>2 DEF WorkerServes, to
<1>10. CASE WLeaveForJoin
  BY <1>10 DEF WLeaveForJoin, SenderPasses
<1>11. CASE Serves
  <2>1. \E status \in {"ok", "err"} : Takes(Sender, "recv", "recv") /\ Ack(Sender, status)
    BY <1>11 DEF Serves, WJoin, WLeave, WSendall, WRefuse
  <2>2. Serving /\ w[Sender] = "recv" /\ w'[Sender] = "recv"
    BY ONLY <2>1, ServesEffect, TypeOK
  <2> QED
    BY <2>2 DEF WorkerServes
<1>12. CASE WQuit
  <2>1. Takes(Sender, "recv", "done") /\ Ack(Sender, "ok") /\ Line1(Sender).tag = "quit"
    BY <1>12 DEF WQuit
  <2>2. /\ Serving /\ w[Sender] = "recv" /\ w'[Sender] = "done"
        /\ Line1(Sender) = toServer[Sender][1]
    BY ONLY <2>1, ServesEffect, TypeOK
  <2> QED
    BY <2>1, <2>2 DEF WorkerServes
<1>13. CASE Connect(Sender)
  <2>1. CASE up
    <3> DEFINE m == Message("slogin", "", Text(""), 0)
    <3>1. toServer' = [toServer EXCEPT ![Sender] = <<m>>] /\ m.tag = "slogin"
      BY <1>13, <2>1 DEF Connect, Message
    <3>2. /\ pc[Sender] = "start" /\ pc'[Sender] = "login" /\ conn'[Sender] = "open"
          /\ w'[Sender] = "login" /\ UNCHANGED <<toClient, typed, lines, answers, up, faults>>
      BY <1>13, <2>1 DEF Connect, Goto, TypeOK
    <3> HIDE DEF m
    <3>3. toServer'[Sender] = <<m>>
      BY <3>1 DEF TypeOK
    <3>4. Len(toServer'[Sender]) = 1 /\ toServer'[Sender][1] = m
      BY <3>3
    <3> QED
      BY <3>1, <3>2, <3>4 DEF SenderConnects
  <2>2. CASE ~up
    BY <1>13, <2>2 DEF Connect, Goto, SenderEnds, TypeOK
  <2> QED
    BY <2>1, <2>2
<1>14. CASE Reset(Sender)
  <2>1. /\ \E rest \in {<<>>, toServer[Sender]} : toServer' = [toServer EXCEPT ![Sender] = rest]
        /\ \E rest \in {<<>>, toClient[Sender]} : toClient' = [toClient EXCEPT ![Sender] = rest]
    BY <1>14 DEF Reset
  <2>2. toServer'[Sender] \in {<<>>, toServer[Sender]}
    BY <2>1
  <2>3. toClient'[Sender] \in {<<>>, toClient[Sender]}
    BY <2>1
  <2> QED
    BY <1>14, <2>2, <2>3 DEF Reset, SenderReset, TypeOK
<1>15. CASE Getline
  <2>1. ASSUME NEW m \in AllLines, IsNext(m), m.tag \in Requests, SendMessage(m)
        PROVE  SenderTypes
    <3>1. /\ pc[Sender] = "getline" /\ pc'[Sender] = "await" /\ typed' = Append(typed, m)
          /\ lines' = lines \o Ids(m) /\ Send(Sender, m)
          /\ UNCHANGED <<conn, toClient, up, w, answers, faults>>
      BY <2>1, SendMessageEffect DEF TypeOK, IsNext
    <3>2. toServer'[Sender] = IF up /\ conn[Sender] = "open" /\ w[Sender] # "done"
                              THEN toServer[Sender] \o Lines(m) ELSE toServer[Sender]
      BY <3>1, SendEffect
    <3> QED
      BY <2>1, <3>1, <3>2 DEF SenderTypes, Puts, IsNext
  <2>2. CASE TypeUndefined
    BY <2>2 DEF TypeUndefined, Goto, SenderPasses, TypeOK
  <2>3. ASSUME NEW m \in AllLines, IsNext(m), m.tag = "quit", TypeQuit, Send(Sender, m)
        PROVE  SenderQuits
    <3>1. /\ pc[Sender] = "getline" /\ pc'[Sender] = "quitting"
          /\ UNCHANGED <<conn, toClient, up, w, typed, lines, answers, faults>>
      BY <2>3 DEF TypeQuit, Goto, TypeOK
    <3>2. toServer'[Sender] = IF up /\ conn[Sender] = "open" /\ w[Sender] # "done"
                              THEN toServer[Sender] \o Lines(m) ELSE toServer[Sender]
      BY <2>3, SendEffect
    <3> QED
      BY <2>3, <3>1, <3>2 DEF SenderQuits, Puts, IsNext
  <2> QED
    BY <1>15, <2>1, <2>2, <2>3, GetlineEffect
<1> QED
  BY <1>1, <1>2, <1>3, <1>4, <1>5, <1>6, <1>7, <1>8, <1>9, <1>10, <1>11, <1>12, <1>13,
     <1>14, <1>15, Movers DEF SenderMoves
-----------------------------------------------------------------------------
(* What was typed stays.                                                       *)
LEMMA TypedStays ==
  ASSUME TypeOK, typed' = typed \/ \E m \in AllLines : typed' = Append(typed, m)
  PROVE  /\ Len(typed) \in Nat /\ Len(typed') \in Nat /\ Len(typed) <= Len(typed')
         /\ \A i \in 1..Len(typed) : typed'[i] = typed[i]
         /\ \A n \in 0..Len(typed) : Split(n)' = Split(n)
         /\ Split(Len(typed)) \subseteq Split(Len(typed))'
<1>1. /\ Len(typed) \in Nat /\ Len(typed') \in Nat /\ Len(typed) <= Len(typed')
      /\ \A i \in 1..Len(typed) : typed'[i] = typed[i]
  <2>1. typed \in Seq(AllLines)
    BY DEF TypeOK
  <2>2. CASE typed' = typed
    BY <2>1, <2>2
  <2>3. ASSUME NEW m \in AllLines, typed' = Append(typed, m)
        PROVE  /\ Len(typed) \in Nat /\ Len(typed') \in Nat /\ Len(typed) <= Len(typed')
               /\ \A i \in 1..Len(typed) : typed'[i] = typed[i]
    BY <2>1, <2>3, AppendProperties
  <2> QED
    BY <2>2, <2>3
<1>2. ASSUME NEW n \in 0..Len(typed) PROVE Split(n)' = Split(n)
  <2>1. \A i \in 1..n : typed'[i] = typed[i]
    BY <1>1
  <2> QED
    BY <2>1 DEF Split
<1>3. Split(Len(typed)) \subseteq Split(Len(typed))'
  BY <1>1 DEF Split
<1> QED
  BY <1>1, <1>2, <1>3

\* A request is typed, with the lines that it is read as, or none is.
RequestsGrow ==
  \/ typed' = typed /\ lines' = lines
  \/ \E m \in AllLines : /\ m.for = Len(typed) + 1 /\ m.part = 1
                         /\ typed' = Append(typed, m) /\ lines' = lines \o Ids(m)

LEMMA EffectTyped ==
  ASSUME TypeOK, [Next]_vars
  PROVE  /\ RequestsGrow
         /\ typed' = typed \/ \E m \in AllLines : typed' = Append(typed, m)
<1>1. RequestsGrow
  BY SenderEffect DEF SenderPasses, SenderEnds, SenderConnects, SenderTakes, SenderMisses,
     SenderTypes, SenderQuits, Puts, IsNext, WorkerServes, Serving, SenderReset,
     DialogueSame, RequestsGrow
<1> QED
  BY <1>1 DEF RequestsGrow
-----------------------------------------------------------------------------
(* The dialogue of the sender before its loop.                                 *)
LoginPhase ==
  /\ pc[Sender] = "start" =>
       conn[Sender] = "none" /\ toServer[Sender] = <<>> /\ toClient[Sender] = <<>>
  /\ pc[Sender] \in {"start", "login"} => typed = <<>> /\ lines = <<>> /\ answers = <<>>
  /\ pc[Sender] = "login" =>
       /\ conn[Sender] \in {"open", "reset"}
       /\ w[Sender] \in {"login", "recv", "done"}
       /\ w[Sender] = "login" => toClient[Sender] = <<>> /\ Len(toServer[Sender]) <= 1
       /\ w[Sender] = "recv" => toServer[Sender] = <<>> /\ Len(toClient[Sender]) <= 1
       /\ w[Sender] = "done" => toClient[Sender] = <<>>

InLoop == pc[Sender] \in LoopPlaces \cup {"await"}

\* The worker has ended, or a line will make it end.
Quitting ==
  \/ w[Sender] = "done"
  \/ \E i \in 1..Len(toServer[Sender]) : toServer[Sender][i].tag = "quit"

(* In the loop: each request is answered before the next is typed, and only a  *)
(* part of a line that was too long can be a quit.                             *)
LoopPhase ==
  /\ InLoop => /\ w[Sender] \in {"recv", "done"} /\ conn[Sender] \in {"open", "reset"}
               /\ Quitting => Split(Len(typed)) # {}
  /\ pc[Sender] \in LoopPlaces => Len(typed) = Len(answers)
  /\ pc[Sender] = "await" => Len(typed) = Len(answers) + 1
  /\ Len(answers) <= Len(typed)

(* The k-th line is that of the k-th request as long as all had one line.      *)
Counted ==
  /\ Len(typed) <= Len(lines)
  /\ Len(lines) = Len(typed) <=> Split(Len(typed)) = {}
  /\ \A k \in 1..Len(lines) :
       /\ lines[k].for \in 1..Len(typed)
       /\ k <= Len(typed) => (lines[k].for = k <=> Split(k - 1) = {})

Nth(x, k) == k \in 1..Len(lines) /\ x = lines[k]

\* q are the lines that follow the first base ones.
Waiting(q, base) == \A i \in 1..Len(q) : Nth(Id(q[i]), base + i)

(* The lines in transit are the next replies, and the next lines to be         *)
(* answered.                                                                   *)
Flight ==
  InLoop =>
    /\ Waiting(toClient[Sender], Len(answers))
    /\ conn[Sender] = "open" /\ ~Left(Sender) =>
         /\ Waiting(toServer[Sender], Len(answers) + Len(toClient[Sender]))
         /\ Len(answers) + Len(toClient[Sender]) + Len(toServer[Sender]) = Len(lines)

(* A reply is taken in its turn; after the end of the connection there is none.*)
Answered ==
  \A k \in 1..Len(answers) :
    \/ Nth(answers[k], k)
    \/ /\ Left(Sender) /\ toClient[Sender] = <<>>
       /\ \A i \in k..Len(answers) : answers[i] = NoReply

Dialogue == LoginPhase /\ LoopPhase /\ Counted /\ Flight /\ Answered
-----------------------------------------------------------------------------
(* The two directions of the connection are sequences of lines.                *)
LEMMA SenderLines ==
  ASSUME TypeOK
  PROVE  /\ toServer[Sender] \in Seq(AllLines) /\ toClient[Sender] \in Seq(AllLines)
         /\ Len(toServer[Sender]) \in Nat /\ Len(toClient[Sender]) \in Nat
         /\ typed \in Seq(AllLines) /\ answers \in Seq(LineIds) /\ lines \in Seq(LineIds)
         /\ Len(typed) \in Nat /\ Len(answers) \in Nat /\ Len(lines) \in Nat
<1>1. /\ toServer[Sender] \in Seq(AllLines) /\ toClient[Sender] \in Seq(AllLines)
      /\ typed \in Seq(AllLines) /\ answers \in Seq(LineIds) /\ lines \in Seq(LineIds)
  BY Two DEF TypeOK
<1> QED
  BY <1>1

LEMMA NextLines ==
  ASSUME TypeOK'
  PROVE  /\ toServer'[Sender] \in Seq(AllLines) /\ toClient'[Sender] \in Seq(AllLines)
         /\ Len(toServer'[Sender]) \in Nat /\ Len(toClient'[Sender]) \in Nat
         /\ Len(answers') \in Nat /\ Len(lines') \in Nat
<1>1. /\ toServer'[Sender] \in Seq(AllLines) /\ toClient'[Sender] \in Seq(AllLines)
      /\ answers' \in Seq(LineIds) /\ lines' \in Seq(LineIds)
  BY Two DEF TypeOK
<1> QED
  BY <1>1

LEMMA IdType ==
  ASSUME NEW m \in AllLines
  PROVE  Id(m) \in LineIds /\ Id(m).for = m.for /\ Id(m).part = m.part
BY DEF AllLines, LineIds, Id

(* A line keeps its number.                                                    *)
LEMMA LinesStay ==
  ASSUME TypeOK, [Next]_vars
  PROVE  /\ Len(lines) <= Len(lines')
         /\ \A x, k : Nth(x, k) => Nth(x, k)'
         /\ \A m \in AllLines : lines' = lines \o Ids(m) /\ m.part = 1 =>
              /\ Len(lines') = Len(lines) + Parts(m)
              /\ \A i \in 1..Parts(m) : /\ Len(lines) + i \in 1..Len(lines')
                                        /\ lines'[Len(lines) + i] = Ids(m)[i]
<1>1. lines \in Seq(LineIds) /\ Len(lines) \in Nat
  BY SenderLines
<1>2. ASSUME NEW m \in AllLines, lines' = lines \o Ids(m), m.part = 1
      PROVE  /\ Len(lines') = Len(lines) + Parts(m) /\ Len(lines) <= Len(lines')
             /\ \A i \in 1..Parts(m) : /\ Len(lines) + i \in 1..Len(lines')
                                       /\ lines'[Len(lines) + i] = Ids(m)[i]
             /\ \A k \in 1..Len(lines) : k \in 1..Len(lines') /\ lines'[k] = lines[k]
  <2>1. PICK s : s = Ids(m)
    OBVIOUS
  <2>2. s \in Seq(LineIds) /\ Len(s) = Parts(m) /\ Parts(m) \in Nat
    BY <1>2, <2>1, IdsType, PartsType
  <2>3. /\ Len(lines \o s) = Len(lines) + Len(s)
        /\ \A i \in 1..(Len(lines) + Len(s)) :
             (lines \o s)[i] = IF i <= Len(lines) THEN lines[i] ELSE s[i - Len(lines)]
    BY <1>1, <2>2, ConcatProperties
  <2>4. lines' = lines \o s
    BY <1>2, <2>1
  <2>5. Len(lines') = Len(lines) + Parts(m)
    BY <2>2, <2>3, <2>4
  <2>6. ASSUME NEW i \in 1..Parts(m)
        PROVE  Len(lines) + i \in 1..Len(lines') /\ lines'[Len(lines) + i] = Ids(m)[i]
    <3>1. PICK l \in Nat : l = Len(lines)
      BY <1>1
    <3>2. l + i \in 1..(l + Parts(m)) /\ ~(l + i <= l) /\ (l + i) - l = i
      BY <2>2
    <3>3. lines'[l + i] = s[i]
      BY <2>2, <2>3, <2>4, <3>1, <3>2
    <3> QED
      BY <2>1, <2>5, <3>1, <3>2, <3>3
  <2>7. ASSUME NEW k \in 1..Len(lines) PROVE k \in 1..Len(lines') /\ lines'[k] = lines[k]
    BY <1>1, <2>2, <2>3, <2>4
  <2> QED
    BY <1>1, <2>2, <2>5, <2>6, <2>7
<1>3. Len(lines) <= Len(lines') /\ \A k \in 1..Len(lines) : k \in 1..Len(lines') /\ lines'[k] = lines[k]
  <2>1. CASE lines' = lines
    BY <1>1, <2>1
  <2>2. CASE lines' # lines
    <3>1. PICK m \in AllLines : m.part = 1 /\ lines' = lines \o Ids(m)
      BY <2>2, EffectTyped DEF RequestsGrow
    <3> QED
      BY <1>2, <3>1
  <2> QED
    BY <2>1, <2>2
<1>4. ASSUME NEW x, NEW k, Nth(x, k) PROVE Nth(x, k)'
  BY <1>3, <1>4 DEF Nth
<1> QED
  BY <1>2, <1>3, <1>4

(* What Serving does to the lines.                                             *)
LEMMA ServingLines ==
  ASSUME TypeOK, Serving
  PROVE  /\ Len(toServer[Sender]) \in Nat \ {0} /\ Len(toClient[Sender]) \in Nat
         /\ Len(toServer'[Sender]) = Len(toServer[Sender]) - 1
         /\ \A i \in 1..(Len(toServer[Sender]) - 1) :
              toServer'[Sender][i] = toServer[Sender][i + 1]
         /\ conn[Sender] # "open" => toClient'[Sender] = toClient[Sender]
         /\ conn[Sender] = "open" =>
              /\ Len(toClient'[Sender]) = Len(toClient[Sender]) + 1
              /\ \A i \in 1..Len(toClient[Sender]) : toClient'[Sender][i] = toClient[Sender][i]
              /\ Id(toClient'[Sender][Len(toClient[Sender]) + 1]) = Id(toServer[Sender][1])
<1>1. /\ toServer[Sender] \in Seq(AllLines) /\ toClient[Sender] \in Seq(AllLines)
      /\ toServer[Sender] # <<>> /\ toServer'[Sender] = Tail(toServer[Sender])
  BY SenderLines DEF Serving
<1>2. /\ Len(toServer[Sender]) \in Nat \ {0}
      /\ Len(toServer'[Sender]) = Len(toServer[Sender]) - 1
      /\ \A i \in 1..(Len(toServer[Sender]) - 1) :
              toServer'[Sender][i] = toServer[Sender][i + 1]
  BY <1>1, TailType
<1>3. PICK m \in AllLines :
        /\ Id(m) = Id(toServer[Sender][1])
        /\ toClient'[Sender] = IF conn[Sender] = "open" THEN Append(toClient[Sender], m)
                               ELSE toClient[Sender]
  BY DEF Serving
<1>4. conn[Sender] = "open" =>
        /\ Len(toClient'[Sender]) = Len(toClient[Sender]) + 1
        /\ \A i \in 1..Len(toClient[Sender]) : toClient'[Sender][i] = toClient[Sender][i]
        /\ toClient'[Sender][Len(toClient[Sender]) + 1] = m
  BY <1>1, <1>3, AppendProperties
<1> QED
  BY <1>1, <1>2, <1>3, <1>4, LenProperties

(* The i-th of the lines that m is read as, on the way to the worker.          *)
LEMMA PutsLines ==
  ASSUME TypeOK, NEW m \in AllLines, Puts(m),
         up, conn[Sender] = "open", w[Sender] # "done"
  PROVE  /\ Parts(m) \in Nat \ {0} /\ (TooLong(m) <=> Parts(m) > 1)
         /\ Len(toServer'[Sender]) = Len(toServer[Sender]) + Parts(m)
         /\ \A i \in 1..Len(toServer[Sender]) : toServer'[Sender][i] = toServer[Sender][i]
         /\ \A i \in 1..Parts(m) :
              /\ toServer'[Sender][Len(toServer[Sender]) + i] = Lines(m)[i]
              /\ Id(Lines(m)[i]) = Ids(m)[i]
<1>1. PICK s \in Seq(AllLines), l \in Seq(AllLines), n \in Nat, p \in Nat \ {0} :
        /\ s = toServer[Sender] /\ l = Lines(m) /\ n = Len(s) /\ p = Parts(m) /\ p = Len(l)
  BY SenderLines, LinesType
<1>2. toServer'[Sender] = s \o l /\ m.part = 1
  BY <1>1 DEF Puts, IsNext
<1>3. /\ Len(s \o l) = n + p
      /\ \A i \in 1..(n + p) : (s \o l)[i] = IF i <= n THEN s[i] ELSE l[i - n]
  BY <1>1, ConcatProperties
<1>4. \A i \in 1..n : (s \o l)[i] = s[i]
  BY <1>1, <1>3
<1>5. ASSUME NEW i \in 1..p PROVE (s \o l)[n + i] = l[i]
  <2>1. n + i \in 1..(n + p) /\ ~(n + i <= n) /\ (n + i) - n = i
    BY <1>1
  <2> QED
    BY <1>3, <2>1
<1>6. \A i \in 1..p : Id(Lines(m)[i]) = Ids(m)[i]
  BY <1>1, <1>2, IdsType
<1> QED
  BY <1>1, <1>2, <1>3, <1>4, <1>5, <1>6, LinesType
-----------------------------------------------------------------------------
LEMMA LoginPhaseKept ==
  ASSUME TypeOK, TypeOK', LoginPhase, [Next]_vars
  PROVE  LoginPhase'
<1>1. CASE SenderPasses
  BY <1>1 DEF SenderPasses, LoopPlaces, LinesSame, DialogueSame, LoginPhase
<1>2. CASE SenderConnects
  BY <1>2 DEF SenderConnects, DialogueSame, LoginPhase
<1>3. CASE WorkerServes
  <2>1. pc[Sender] = "start" => FALSE
    BY <1>3 DEF WorkerServes, Serving, LoginPhase
  <2>2. ASSUME pc[Sender] = "login" PROVE LoginPhase'
    <3>1. /\ w[Sender] = "login" /\ toClient[Sender] = <<>> /\ Len(toServer[Sender]) <= 1
          /\ w'[Sender] = IF conn[Sender] = "reset" THEN "done" ELSE "recv"
      BY <1>3, <2>2 DEF WorkerServes, Serving, LoginPhase
    <3>2. Len(toServer'[Sender]) = 0 /\ toServer'[Sender] \in Seq(AllLines)
      <4>1. toServer'[Sender] \in Seq(AllLines)
        BY Two DEF TypeOK
      <4>2. Len(toServer[Sender]) \in Nat \ {0} /\ Len(toServer'[Sender]) = Len(toServer[Sender]) - 1
        BY <1>3, ServingLines DEF WorkerServes
      <4>3. Len(toServer[Sender]) <= 1
        BY <3>1
      <4>4. Len(toServer'[Sender]) = 0
        <5> DEFINE a == Len(toServer[Sender])
                   b == Len(toServer'[Sender])
        <5>1. a \in Nat \ {0} /\ b = a - 1 /\ a <= 1
          BY <4>2, <4>3
        <5> HIDE DEF a, b
        <5>2. b = 0
          BY ONLY <5>1
        <5> QED
          BY <5>2 DEF b
      <4> QED
        BY <4>1, <4>4
    <3>3. toServer'[Sender] = <<>>
      BY <3>2, EmptySeq
    <3>4. IF conn[Sender] = "open" THEN Len(toClient'[Sender]) = 1 ELSE toClient'[Sender] = <<>>
      BY <1>3, <3>1, ServingLines DEF WorkerServes
    <3> QED
      BY <1>3, <2>2, <3>1, <3>3, <3>4 DEF WorkerServes, Serving, DialogueSame, LoginPhase
  <2> QED
    BY <1>3, <2>1, <2>2 DEF WorkerServes, Serving, DialogueSame, LoginPhase
<1>4. CASE SenderReset
  <2>1. /\ pc'[Sender] = pc[Sender] /\ w'[Sender] = w[Sender] /\ conn[Sender] = "open"
        /\ conn'[Sender] = "reset" /\ DialogueSame /\ pc[Sender] # "start"
    BY <1>4 DEF SenderReset, LoginPhase
  <2>2. Len(toServer'[Sender]) <= Len(toServer[Sender]) /\ Len(toClient'[Sender]) <= Len(toClient[Sender])
        /\ (toServer[Sender] = <<>> => toServer'[Sender] = <<>>)
        /\ (toClient[Sender] = <<>> => toClient'[Sender] = <<>>)
        /\ Len(toServer[Sender]) \in Nat /\ Len(toClient[Sender]) \in Nat
        /\ Len(toServer'[Sender]) \in Nat /\ Len(toClient'[Sender]) \in Nat
    <3>1. Len(<<>>) = 0
      OBVIOUS
    <3> QED
      BY <1>4, <3>1, SenderLines DEF SenderReset
  <2> QED
    BY <2>1, <2>2 DEF DialogueSame, LoginPhase
<1>5. CASE SenderEnds \/ SenderTakes \/ SenderMisses \/ SenderTypes \/ SenderQuits
  BY <1>5 DEF SenderEnds, SenderTakes, SenderMisses, SenderTypes, SenderQuits, LoginPhase
<1> QED
  BY <1>1, <1>2, <1>3, <1>4, <1>5, SenderEffect
-----------------------------------------------------------------------------
LEMMA CountedKept ==
  ASSUME TypeOK, Counted, [Next]_vars
  PROVE  Counted'
<1>1. CASE typed' = typed /\ lines' = lines
  BY <1>1 DEF Counted, Split
<1>2. ASSUME NEW m \in AllLines, m.for = Len(typed) + 1, m.part = 1,
             typed' = Append(typed, m), lines' = lines \o Ids(m)
      PROVE  Counted'
  <2>1. PICK n \in Nat, l \in Nat, p \in Nat \ {0} :
          /\ n = Len(typed) /\ l = Len(lines) /\ p = Parts(m) /\ (TooLong(m) <=> p > 1)
    BY SenderLines, PartsType
  <2>2. Len(typed') = n + 1 /\ typed'[n + 1] = m
    <3>1. typed \in Seq(AllLines)
      BY SenderLines
    <3> QED
      BY <1>2, <2>1, <3>1, AppendProperties
  <2>3. /\ Len(lines') = l + p
        /\ \A k \in 1..l : lines'[k] = lines[k]
        /\ \A i \in 1..p : lines'[l + i] = Ids(m)[i] /\ Ids(m)[i].for = n + 1
    <3>1. Len(lines') = l + p /\ \A i \in 1..p : lines'[l + i] = Ids(m)[i]
      BY <1>2, <2>1, LinesStay
    <3>2. \A x, k : Nth(x, k) => Nth(x, k)'
      BY LinesStay
    <3>3. ASSUME NEW k \in 1..l PROVE lines'[k] = lines[k]
      <4>1. Nth(lines[k], k)
        BY <2>1 DEF Nth
      <4>2. PICK x : x = lines[k]
        OBVIOUS
      <4>3. Nth(x, k)'
        BY <3>2, <4>1, <4>2
      <4> QED
        BY <4>2, <4>3 DEF Nth
    <3>4. \A i \in 1..p : Ids(m)[i].for = n + 1
      BY <1>2, <2>1, IdsType
    <3> QED
      BY <3>1, <3>3, <3>4
  <2>4. \A k \in 0..n : Split(k)' = Split(k)
    BY <1>2, <2>1, TypedStays
  <2>5. Split(n + 1)' = {} <=> Split(n) = {} /\ ~TooLong(m)
    <3>1. Split(n + 1)' = Split(n)' \cup (IF TooLong(m) THEN {n + 1} ELSE {})
      BY <2>2 DEF Split
    <3>2. Split(n)' = Split(n)
      BY <2>4
    <3> QED
      BY <3>1, <3>2
  <2>6. /\ n <= l /\ (l = n <=> Split(n) = {})
        /\ \A k \in 1..l : lines[k].for \in 1..n /\ (k <= n => (lines[k].for = k <=> Split(k - 1) = {}))
    BY <2>1 DEF Counted
  <2>7. n + 1 <= l + p /\ (l + p = n + 1 <=> Split(n + 1)' = {})
    BY <2>1, <2>5, <2>6
  <2>8. ASSUME NEW k \in 1..(l + p)
        PROVE  /\ lines'[k].for \in 1..(n + 1)
               /\ k <= n + 1 => (lines'[k].for = k <=> Split(k - 1)' = {})
    <3>1. CASE k \in 1..l /\ k <= n
      <4>1. Split(k - 1)' = Split(k - 1)
        BY <2>4, <3>1
      <4> QED
        BY <2>3, <2>6, <3>1, <4>1
    <3>2. CASE k \in 1..l /\ k > n
      <4>1. lines'[k].for \in 1..n /\ lines'[k].for # k
        BY <2>3, <2>6, <3>2
      <4>2. ASSUME k <= n + 1 PROVE Split(k - 1)' # {}
        <5>1. k - 1 = n /\ l # n
          BY <3>2, <4>2
        <5>2. Split(n)' # {}
          BY <2>4, <2>6, <5>1
        <5> QED
          BY <5>1, <5>2
      <4> QED
        BY <4>1, <4>2
    <3>3. CASE k > l
      <4>1. PICK i \in 1..p : k = l + i
        <5>1. k - l \in 1..p /\ k = l + (k - l)
          BY <3>3
        <5> QED
          BY <5>1
      <4>2. lines'[k].for = n + 1
        BY <2>3, <4>1
      <4>3. ASSUME k <= n + 1 PROVE k = n + 1 /\ Split(k - 1)' = {}
        <5>1. l = n /\ k = n + 1
          BY <2>6, <4>1, <4>3
        <5>2. Split(n)' = {} /\ k - 1 = n
          BY <2>4, <2>6, <5>1
        <5> QED
          BY <5>1, <5>2
      <4> QED
        BY <4>2, <4>3
    <3> QED
      BY <3>1, <3>2, <3>3
  <2>9. Split(Len(typed))' = Split(n + 1)'
    BY <2>2 DEF Split
  <2> QED
    BY <2>2, <2>3, <2>7, <2>8, <2>9 DEF Counted
<1> QED
  BY <1>1, <1>2, EffectTyped DEF RequestsGrow
-----------------------------------------------------------------------------
LEMMA LoopPhaseKept ==
  ASSUME TypeOK, TypeOK', LoginPhase, LoopPhase, [Next]_vars
  PROVE  LoopPhase'
<1> USE DEF LoopPlaces, InLoop
<1>0. toServer'[Sender] \in Seq(AllLines) /\ Len(toServer'[Sender]) \in Nat
  BY NextLines
<1>1. typed' = typed => Split(Len(typed))' = Split(Len(typed))
  BY DEF Split
<1>2. CASE SenderPasses
  BY <1>1, <1>2 DEF SenderPasses, LinesSame, DialogueSame, LoopPhase, Quitting
<1>3. CASE SenderTakes
  <2>1. CASE pc[Sender] = "login"
    <3>1. w[Sender] = "recv" /\ toServer[Sender] = <<>> /\ conn[Sender] \in {"open", "reset"}
          /\ typed = <<>> /\ answers = <<>>
      BY <1>3, <2>1 DEF SenderTakes, LoginPhase
    <3>2. pc'[Sender] = "begin" /\ toServer'[Sender] = <<>> /\ w'[Sender] = "recv"
          /\ conn'[Sender] = conn[Sender] /\ typed' = <<>> /\ answers' = <<>>
      BY <1>3, <2>1, <3>1 DEF SenderTakes
    <3>3. Len(typed') = 0 /\ Len(answers') = 0 /\ Len(toServer'[Sender]) = 0
      BY <3>2
    <3>4. ~Quitting'
      BY <3>2, <3>3 DEF Quitting
    <3> QED
      BY <3>1, <3>2, <3>3, <3>4 DEF LoopPhase
  <2>2. CASE pc[Sender] = "await"
    <3>1. Len(answers') = Len(answers) + 1
      <4> DEFINE x == Id(toClient[Sender][1])
      <4>1. answers' = Append(answers, x)
        BY <1>3, <2>2 DEF SenderTakes
      <4> HIDE DEF x
      <4> QED
        BY <4>1, SenderLines
    <3> QED
      BY <1>1, <1>3, <2>2, <3>1, SenderLines DEF SenderTakes, LoopPhase, Quitting
  <2> QED
    BY <1>3, <2>1, <2>2 DEF SenderTakes
<1>4. CASE SenderMisses
  <2>1. Len(answers') = Len(answers) + 1
    BY <1>4, SenderLines DEF SenderMisses
  <2> QED
    BY <1>1, <1>4, <2>1, SenderLines DEF SenderMisses, LinesSame, LoopPhase, Quitting
<1>5. CASE SenderTypes
  <2>1. PICK m \in AllLines : /\ Puts(m) /\ m.tag \in Requests
                              /\ pc'[Sender] = "await" /\ typed' = Append(typed, m)
    BY <1>5 DEF SenderTypes
  <2>2. Len(typed') = Len(typed) + 1 /\ typed'[Len(typed) + 1] = m
    <3>1. typed \in Seq(AllLines)
      BY SenderLines
    <3> QED
      BY <2>1, <3>1, AppendProperties
  <2>3. pc[Sender] = "getline" /\ w'[Sender] = w[Sender] /\ conn'[Sender] = conn[Sender]
        /\ answers' = answers
    BY <2>1 DEF Puts
  <2>4. ASSUME TooLong(m) PROVE Split(Len(typed))' # {}
    <3>1. Len(typed) + 1 \in Split(Len(typed))'
      BY <2>2, <2>4, SenderLines DEF Split
    <3> QED
      BY <3>1
  <2>5. Split(Len(typed)) \subseteq Split(Len(typed))'
    BY <2>1, TypedStays
  <2>6. ASSUME Quitting' PROVE Split(Len(typed))' # {}
    <3>1. CASE w[Sender] = "done"
      BY <2>3, <2>5, <3>1 DEF LoopPhase, Quitting
    <3>2. CASE w[Sender] # "done" /\ up /\ conn[Sender] = "open"
      <4>1. PICK i \in 1..Len(toServer'[Sender]) : toServer'[Sender][i].tag = "quit"
        BY <2>3, <2>6, <3>2 DEF Quitting
      <4>2. PICK k \in Nat, p \in Nat \ {0} :
              /\ k = Len(toServer[Sender]) /\ p = Parts(m) /\ (TooLong(m) <=> p > 1)
              /\ Len(toServer'[Sender]) = k + p
              /\ \A j \in 1..k : toServer'[Sender][j] = toServer[Sender][j]
              /\ \A j \in 1..p : toServer'[Sender][k + j] = Lines(m)[j]
        BY <2>1, <3>2, PutsLines, SenderLines
      <4>3. CASE i \in 1..k
        <5>1. Quitting
          BY <4>1, <4>2, <4>3 DEF Quitting
        <5> QED
          BY <2>3, <2>5, <5>1 DEF LoopPhase
      <4>4. CASE i \notin 1..k
        <5>1. PICK j \in 1..p : i = k + j
          <6>1. i - k \in 1..p /\ i = k + (i - k)
            BY <4>1, <4>2, <4>4
          <6> QED
            BY <6>1
        <5>2. j = 1 => toServer'[Sender][i].tag \in Requests
          <6>1. Lines(m)[1].tag = m.tag
            BY LinesType, FirstType
          <6> QED
            BY <2>1, <4>2, <5>1, <6>1
        <5>3. j # 1
          BY <4>1, <5>2 DEF Requests
        <5>4. p > 1
          BY <5>3
        <5> QED
          BY <2>4, <4>2, <5>4
      <4> QED
        BY <4>3, <4>4
    <3>3. CASE ~(w[Sender] # "done" /\ up /\ conn[Sender] = "open")
      <4>1. toServer'[Sender] = toServer[Sender]
        BY <2>1, <3>3 DEF Puts
      <4>2. Quitting
        BY <2>3, <2>6, <4>1 DEF Quitting
      <4> QED
        BY <2>3, <2>5, <4>2 DEF LoopPhase
    <3> QED
      BY <3>1, <3>2, <3>3
  <2> QED
    BY <2>1, <2>2, <2>3, <2>6, SenderLines DEF LoopPhase
<1>6. CASE WorkerServes
  <2>1. /\ pc'[Sender] = pc[Sender] /\ conn'[Sender] = conn[Sender] /\ typed' = typed
        /\ answers' = answers
    BY <1>6 DEF WorkerServes, Serving, DialogueSame
  <2>2. /\ Len(toServer[Sender]) \in Nat \ {0}
        /\ Len(toServer'[Sender]) = Len(toServer[Sender]) - 1
        /\ \A i \in 1..(Len(toServer[Sender]) - 1) :
              toServer'[Sender][i] = toServer[Sender][i + 1]
    BY <1>6, ServingLines DEF WorkerServes
  <2>3. ASSUME InLoop, Quitting' PROVE Quitting
    <3>1. CASE w'[Sender] = "done"
      <4>1. 1 \in 1..Len(toServer[Sender])
        BY <2>2
      <4>2. w[Sender] # "login"
        BY <2>3 DEF LoopPhase
      <4> QED
        BY <1>6, <3>1, <4>1, <4>2 DEF WorkerServes, Quitting
    <3>2. CASE w'[Sender] # "done"
      <4>1. PICK i \in 1..Len(toServer'[Sender]) : toServer'[Sender][i].tag = "quit"
        BY <2>3, <3>2 DEF Quitting
      <4>2. toServer'[Sender][i] = toServer[Sender][i + 1] /\ i + 1 \in 1..Len(toServer[Sender])
        BY <2>2
      <4> QED
        BY <4>1, <4>2 DEF Quitting
    <3> QED
      BY <3>1, <3>2
  <2>4. InLoop => w'[Sender] \in {"recv", "done"}
    BY <1>6 DEF WorkerServes, LoopPhase
  <2> QED
    BY <1>1, <2>1, <2>3, <2>4 DEF LoopPhase
<1>7. CASE SenderReset
  <2>1. toServer'[Sender] = <<>> \/ toServer'[Sender] = toServer[Sender]
    BY <1>7 DEF SenderReset
  <2>2. ASSUME Quitting' PROVE Quitting
    <3>1. CASE toServer'[Sender] = <<>>
      <4>1. Len(toServer'[Sender]) = 0
        BY <3>1
      <4> QED
        BY <1>7, <2>2, <4>1 DEF SenderReset, Quitting
    <3>2. CASE toServer'[Sender] = toServer[Sender]
      BY <1>7, <2>2, <3>2 DEF SenderReset, Quitting
    <3> QED
      BY <2>1, <3>1, <3>2
  <2> QED
    BY <1>1, <1>7, <2>2 DEF SenderReset, DialogueSame, LoopPhase
<1>8. CASE SenderEnds \/ SenderConnects \/ SenderQuits
  BY <1>8 DEF SenderEnds, SenderConnects, SenderQuits, Puts, DialogueSame, LoopPhase
<1> QED
  BY <1>2, <1>3, <1>4, <1>5, <1>6, <1>7, <1>8, SenderEffect
-----------------------------------------------------------------------------
(* The server does not come back to a connection it has closed.                *)
LEMMA LeftStays ==
  ASSUME TypeOK, [Next]_vars, Left(Sender), pc[Sender] # "start"
  PROVE  Left(Sender)' /\ (toClient[Sender] = <<>> => toClient'[Sender] = <<>>)
<1>1. up' => up
  BY UpFalls DEF UpKept
<1>2. CASE SenderPasses \/ SenderEnds \/ SenderTakes \/ SenderMisses \/ SenderReset
  BY <1>1, <1>2 DEF SenderPasses, SenderEnds, SenderTakes, SenderMisses, SenderReset,
     LinesSame, Left
<1>3. CASE SenderTypes \/ SenderQuits
  BY <1>1, <1>3 DEF SenderTypes, SenderQuits, Puts, Left
<1>4. CASE WorkerServes
  BY <1>4 DEF WorkerServes, Serving, Left
<1>5. CASE SenderConnects
  BY <1>5 DEF SenderConnects
<1> QED
  BY <1>2, <1>3, <1>4, <1>5, SenderEffect

LEMMA AnsweredKept ==
  ASSUME TypeOK, TypeOK', LoginPhase, LoopPhase, Flight, Answered, [Next]_vars
  PROVE  Answered'
<1>1. \A x, k : Nth(x, k) => Nth(x, k)'
  BY LinesStay
<1>2. PICK l \in Nat : l = Len(answers) /\ answers \in Seq(LineIds)
  BY SenderLines
<1>3. ASSUME NEW k \in 1..l, NEW r \in Nat, r = Len(answers'), l <= r,
             \A i \in 1..l : answers'[i] = answers[i],
             \A i \in 1..r : i > l => answers'[i] = NoReply \/ toClient[Sender] # <<>>
      PROVE  (\/ Nth(answers[k], k)
              \/ /\ Left(Sender) /\ toClient[Sender] = <<>>
                 /\ \A i \in k..Len(answers) : answers[i] = NoReply)'
  <2>1. CASE Nth(answers[k], k)
    <3>1. PICK x : x = answers[k]
      OBVIOUS
    <3>2. Nth(x, k)'
      BY <1>1, <2>1, <3>1
    <3>3. answers'[k] = x
      BY <1>3, <3>1
    <3> QED
      BY <3>2, <3>3
  <2>2. CASE /\ Left(Sender) /\ toClient[Sender] = <<>>
             /\ \A i \in k..Len(answers) : answers[i] = NoReply
    <3>1. pc[Sender] # "start"
      <4>1. Len(<<>>) = 0
        OBVIOUS
      <4> QED
        BY <1>2, <4>1 DEF LoginPhase
    <3>2. Left(Sender)' /\ toClient'[Sender] = <<>>
      BY <2>2, <3>1, LeftStays
    <3>3. ASSUME NEW i \in k..r PROVE answers'[i] = NoReply
      <4>1. (i \in 1..l /\ i \in k..l) \/ (i \in 1..r /\ i > l)
        OBVIOUS
      <4> QED
        BY <1>2, <1>3, <2>2, <4>1
    <3> QED
      BY <1>3, <3>2, <3>3
  <2> QED
    BY <1>2, <2>1, <2>2 DEF Answered
<1>4. CASE answers' = answers
  <2>1. \A i \in 1..l : ~(i > l)
    OBVIOUS
  <2>2. Len(answers') = l
    BY <1>2, <1>4
  <2> QED
    BY <1>2, <1>3, <1>4, <2>1, <2>2 DEF Answered
<1>5. ASSUME NEW x \in LineIds, answers' = Append(answers, x),
             \/ Nth(x, l + 1) /\ toClient[Sender] # <<>>
             \/ x = NoReply /\ Left(Sender) /\ toClient[Sender] = <<>>
                /\ pc[Sender] # "start"
      PROVE  Answered'
  <2>1. /\ Len(answers') = l + 1 /\ answers'[l + 1] = x
        /\ \A k \in 1..l : answers'[k] = answers[k]
    BY <1>2, <1>5, AppendProperties
  <2>2. \A i \in 1..(l + 1) : i > l => answers'[i] = NoReply \/ toClient[Sender] # <<>>
    <3>1. \A i \in 1..(l + 1) : i > l => i = l + 1
      OBVIOUS
    <3> QED
      BY <1>5, <2>1, <3>1
  <2> SUFFICES ASSUME NEW k \in 1..(l + 1)
               PROVE  (\/ Nth(answers[k], k)
                       \/ /\ Left(Sender) /\ toClient[Sender] = <<>>
                          /\ \A i \in k..Len(answers) : answers[i] = NoReply)'
    BY <2>1 DEF Answered
  <2>3. CASE k \in 1..l
    <3>1. l + 1 \in Nat /\ l <= l + 1
      OBVIOUS
    <3> QED
      BY <1>3, <2>1, <2>2, <2>3, <3>1
  <2>4. CASE k = l + 1
    <3>1. CASE Nth(x, l + 1)
      <4>1. PICK z : z = l + 1
        OBVIOUS
      <4>2. Nth(x, z)'
        BY <1>1, <3>1, <4>1
      <4>3. answers'[k] = x /\ k = z
        BY <2>1, <2>4, <4>1
      <4> QED
        BY <4>2, <4>3
    <3>2. CASE x = NoReply /\ Left(Sender) /\ toClient[Sender] = <<>> /\ pc[Sender] # "start"
      <4>1. \A i \in k..(l + 1) : i = l + 1
        BY <2>4
      <4>2. Left(Sender)' /\ toClient'[Sender] = <<>>
        BY <3>2, LeftStays
      <4>3. \A i \in k..Len(answers') : answers'[i] = NoReply
        BY <2>1, <3>2, <4>1
      <4> QED
        BY <4>2, <4>3
    <3> QED
      BY <1>5, <3>1, <3>2
  <2> QED
    BY <2>3, <2>4
<1>6. CASE SenderTakes /\ pc[Sender] = "await"
  <2>1. PICK q \in Seq(AllLines) : q = toClient[Sender] /\ q # <<>>
    BY <1>6, SenderLines DEF SenderTakes
  <2>2. Len(q) \in Nat \ {0} /\ q[1] \in AllLines
    BY <2>1, TailType
  <2>3. PICK x \in LineIds : x = Id(q[1])
    BY <2>2, IdType
  <2>4. Nth(x, l + 1)
    <3>1. 1 \in 1..Len(q)
      BY <2>2
    <3>2. Waiting(q, l)
      BY <1>2, <1>6, <2>1 DEF Flight, InLoop
    <3> QED
      BY <2>3, <3>1, <3>2 DEF Waiting
  <2>5. answers' = Append(answers, x)
    BY <1>6, <2>1, <2>3 DEF SenderTakes
  <2> QED
    BY <1>5, <2>1, <2>4, <2>5
<1>7. CASE SenderMisses
  <2>1. Left(Sender) /\ toClient[Sender] = <<>> /\ answers' = Append(answers, NoReply)
        /\ pc[Sender] # "start"
    BY <1>7 DEF SenderMisses, AtEof
  <2>2. NoReply \in LineIds
    BY DEF NoReply, LineIds
  <2> QED
    BY <1>5, <2>1, <2>2
<1>8. CASE ~SenderMisses /\ ~(SenderTakes /\ pc[Sender] = "await")
  <2>1. answers' = answers
    BY <1>8, SenderEffect DEF SenderPasses, SenderEnds, SenderConnects, SenderTakes,
       SenderTypes, SenderQuits, Puts, WorkerServes, Serving, SenderReset, DialogueSame
  <2> QED
    BY <1>4, <2>1
<1> QED
  BY <1>6, <1>7, <1>8
-----------------------------------------------------------------------------
LEMMA WaitingTail ==
  ASSUME NEW q \in Seq(AllLines), NEW r \in Seq(AllLines), NEW base \in Nat,
         Waiting(q, base), Len(q) \in Nat \ {0}, Len(r) = Len(q) - 1,
         \A i \in 1..(Len(q) - 1) : r[i] = q[i + 1]
  PROVE  Waiting(r, base + 1)
<1> SUFFICES ASSUME NEW i \in 1..Len(r) PROVE Nth(Id(r[i]), base + 1 + i)
  BY DEF Waiting
<1>1. i + 1 \in 1..Len(q) /\ r[i] = q[i + 1] /\ base + (i + 1) = base + 1 + i
  OBVIOUS
<1> QED
  BY <1>1 DEF Waiting

LEMMA WaitingEmpty ==
  ASSUME NEW base
  PROVE  Waiting(<<>>, base)
<1>1. Len(<<>>) = 0
  OBVIOUS
<1> QED
  BY <1>1 DEF Waiting

LEMMA WaitingStays ==
  ASSUME TypeOK, [Next]_vars, NEW q \in Seq(AllLines), NEW base \in Nat, Waiting(q, base)
  PROVE  Waiting(q, base)'
<1>1. \A x, k : Nth(x, k) => Nth(x, k)'
  BY LinesStay
<1> SUFFICES ASSUME NEW i \in 1..Len(q) PROVE Nth(Id(q[i]), base + i)'
  BY DEF Waiting
<1>2. Nth(Id(q[i]), base + i)
  BY DEF Waiting
<1>3. PICK x, k : x = Id(q[i]) /\ k = base + i
  OBVIOUS
<1>4. Nth(x, k)'
  BY <1>1, <1>2, <1>3
<1> QED
  BY <1>3, <1>4

\* Flight, with the lines and lengths as parameters.
InFlight(q, s, a) ==
  InLoop =>
    /\ Waiting(q, a)
    /\ conn[Sender] = "open" /\ ~Left(Sender) =>
         /\ Waiting(s, a + Len(q))
         /\ a + Len(q) + Len(s) = Len(lines)

LEMMA FlightIsNext ==
  ASSUME NEW q, NEW s, NEW a,
         q = toClient'[Sender], s = toServer'[Sender], a = Len(answers'), InFlight(q, s, a)'
  PROVE  Flight'
BY DEF Flight, Waiting, InFlight

LEMMA FlightKept ==
  ASSUME TypeOK, TypeOK', LoginPhase, LoopPhase, Flight, [Next]_vars
  PROVE  Flight'
<1> USE DEF LoopPlaces, InLoop
<1>0. PICK q \in Seq(AllLines), s \in Seq(AllLines), a \in Nat,
           r \in Seq(AllLines), t \in Seq(AllLines), b \in Nat, n \in Nat :
        /\ q = toClient[Sender] /\ s = toServer[Sender] /\ a = Len(answers)
        /\ r = toClient'[Sender] /\ t = toServer'[Sender] /\ b = Len(answers')
        /\ n = Len(lines)
  BY SenderLines, NextLines
<1>1. InLoop => /\ Waiting(q, a)
                /\ conn[Sender] = "open" /\ ~Left(Sender) =>
                     Waiting(s, a + Len(q)) /\ a + Len(q) + Len(s) = n
  BY <1>0 DEF Flight
<1>2. Len(q) \in Nat /\ Len(s) \in Nat /\ Len(r) \in Nat /\ Len(t) \in Nat /\ a + Len(q) \in Nat
  OBVIOUS
<1>3. \A x \in Seq(AllLines), k \in Nat : Waiting(x, k) => Waiting(x, k)'
  BY WaitingStays
<1>4. Left(Sender) /\ pc[Sender] # "start" => Left(Sender)'
  BY LeftStays
<1>5. SUFFICES ASSUME InLoop'
               PROVE  /\ Waiting(r, b)'
                      /\ conn'[Sender] = "open" /\ ~Left(Sender)' =>
                           Waiting(t, b + Len(r))' /\ b + Len(r) + Len(t) = Len(lines')
  <2>1. InFlight(r, t, b)'
    BY <1>5 DEF InFlight
  <2> QED
    BY <1>0, <2>1, FlightIsNext
<1>6. CASE SenderPasses
  <2>1. InLoop /\ r = q /\ s = t /\ a = b /\ conn'[Sender] = conn[Sender] /\ lines' = lines
        /\ pc[Sender] # "start"
    BY <1>0, <1>5, <1>6 DEF SenderPasses, LinesSame, DialogueSame
  <2> QED
    BY <1>0, <1>1, <1>2, <1>3, <1>4, <2>1
<1>7. CASE SenderTakes /\ pc[Sender] = "login"
  <2>1. /\ w[Sender] = "recv" /\ s = <<>> /\ Len(q) <= 1
        /\ lines = <<>> /\ answers = <<>> /\ t = s /\ answers' = answers /\ lines' = lines
        /\ q # <<>> /\ r = Tail(q)
    BY <1>0, <1>7 DEF SenderTakes, LoginPhase
  <2>2. Len(r) = 0 /\ r = <<>>
    <3>1. Len(q) \in Nat \ {0} /\ Len(r) = Len(q) - 1
      BY <2>1, TailType
    <3>2. Len(r) = 0
      BY <2>1, <3>1
    <3> QED
      BY <3>2, EmptySeq
  <2>3. Len(s) = 0 /\ b = 0 /\ n = 0 /\ Len(lines') = 0
    <3>1. Len(<<>>) = 0
      OBVIOUS
    <3> QED
      BY <1>0, <2>1, <3>1
  <2>4. Waiting(r, b) /\ Waiting(t, b + Len(r))
    BY <2>1, <2>2, WaitingEmpty
  <2>5. b + Len(r) = 0 /\ b + Len(r) + Len(t) = 0
    BY <2>1, <2>2, <2>3
  <2>6. Waiting(r, b)' /\ Waiting(t, b + Len(r))'
    BY <1>2, <1>3, <2>4, <2>5
  <2> QED
    BY <2>3, <2>5, <2>6
<1>8. CASE SenderTakes /\ pc[Sender] = "await"
  <2>1. /\ s = t /\ lines' = lines /\ q # <<>> /\ r = Tail(q) /\ conn'[Sender] = conn[Sender]
        /\ InLoop /\ pc[Sender] # "start"
    BY <1>0, <1>8 DEF SenderTakes
  <2>2. b = a + 1
    <3> DEFINE x == Id(toClient[Sender][1])
    <3>1. answers' = Append(answers, x)
      BY <1>8 DEF SenderTakes
    <3> HIDE DEF x
    <3> QED
      BY <1>0, <3>1, SenderLines
  <2>3. Len(q) \in Nat \ {0} /\ Len(r) = Len(q) - 1
        /\ \A i \in 1..(Len(q) - 1) : r[i] = q[i + 1]
    BY <2>1, TailType
  <2>4. Waiting(r, b)
    BY <1>1, <2>1, <2>2, <2>3, WaitingTail
  <2>5. b + Len(r) = a + Len(q)
    BY <2>2, <2>3
  <2> QED
    BY <1>0, <1>1, <1>2, <1>3, <1>4, <2>1, <2>4, <2>5
<1>9. CASE SenderMisses
  <2>1. q = <<>> /\ r = q /\ Left(Sender)' /\ b \in Nat
    BY <1>0, <1>4, <1>9 DEF SenderMisses, LinesSame, AtEof
  <2> QED
    BY <1>3, <2>1, WaitingEmpty
<1>10. CASE SenderTypes
  <2>1. PICK m \in AllLines : /\ Puts(m) /\ m.part = 1 /\ lines' = lines \o Ids(m)
    BY <1>10 DEF SenderTypes, Puts, IsNext
  <2>2. /\ InLoop /\ r = q /\ b = a /\ conn'[Sender] = conn[Sender] /\ up' = up
        /\ w'[Sender] = w[Sender]
    BY <1>0, <2>1 DEF Puts
  <2>3. ASSUME conn'[Sender] = "open", ~Left(Sender)'
        PROVE  Waiting(t, b + Len(r))' /\ b + Len(r) + Len(t) = Len(lines')
    <3>1. up /\ w[Sender] # "done" /\ conn[Sender] = "open"
      BY <2>2, <2>3 DEF Left
    <3>2. PICK y \in Nat, p \in Nat \ {0}, k \in Nat :
            y = Len(s) /\ p = Parts(m) /\ k = a + Len(q)
      BY <1>2, PartsType
    <3>3. /\ Len(t) = y + p /\ \A i \in 1..y : t[i] = s[i]
          /\ \A i \in 1..p : Id(t[y + i]) = Ids(m)[i]
      <4>1. /\ Len(t) = y + p /\ \A i \in 1..y : t[i] = s[i]
            /\ \A i \in 1..p : t[y + i] = Lines(m)[i] /\ Id(Lines(m)[i]) = Ids(m)[i]
        BY <1>0, <2>1, <3>1, <3>2, PutsLines
      <4> QED
        BY <4>1
    <3>4. Waiting(s, k) /\ k + y = n
      BY <1>1, <2>2, <3>1, <3>2 DEF Left
    <3>5. /\ Len(lines') = n + p
          /\ \A i \in 1..p : n + i \in 1..Len(lines') /\ lines'[n + i] = Ids(m)[i]
      BY <1>0, <2>1, <3>2, LinesStay
    <3>6. Waiting(s, k)'
      BY <1>3, <3>4
    <3>7. ASSUME NEW i \in 1..Len(t) PROVE Nth(Id(t[i]), k + i)'
      <4>1. CASE i \in 1..y
        BY <3>2, <3>3, <3>6, <4>1 DEF Waiting
      <4>2. CASE i > y
        <5>1. PICK j \in 1..p : i = y + j
          <6>1. i - y \in 1..p /\ i = y + (i - y)
            BY <3>3, <4>2
          <6> QED
            BY <6>1
        <5>2. k + i = n + j
          BY <3>4, <5>1
        <5> QED
          BY <3>3, <3>5, <5>1, <5>2 DEF Nth
      <4> QED
        BY <3>3, <4>1, <4>2
    <3>8. Waiting(t, k)'
      BY <3>7 DEF Waiting
    <3>9. b + Len(r) = k /\ k + Len(t) = n + p
      BY <2>2, <3>2, <3>3, <3>4
    <3> QED
      BY <3>5, <3>8, <3>9
  <2> QED
    BY <1>1, <1>3, <2>2, <2>3
<1>11. CASE WorkerServes
  <2>1. /\ InLoop /\ a = b /\ conn'[Sender] = conn[Sender] /\ lines' = lines /\ up /\ Serving
        /\ ~Left(Sender) /\ pc[Sender] # "start"
    BY <1>0, <1>5, <1>11 DEF WorkerServes, Serving, DialogueSame, Left
  <2>2. /\ Len(s) \in Nat \ {0} /\ Len(t) = Len(s) - 1
        /\ \A i \in 1..(Len(s) - 1) : t[i] = s[i + 1]
        /\ conn[Sender] # "open" => r = q
        /\ conn[Sender] = "open" =>
             /\ Len(r) = Len(q) + 1
             /\ \A i \in 1..Len(q) : r[i] = q[i]
             /\ Id(r[Len(q) + 1]) = Id(s[1])
    BY <1>0, <2>1, ServingLines
  <2>3. CASE conn[Sender] # "open"
    BY <1>1, <1>3, <2>1, <2>2, <2>3
  <2>4. CASE conn[Sender] = "open"
    <3>1. Waiting(r, a)
      <4> SUFFICES ASSUME NEW i \in 1..Len(r) PROVE Nth(Id(r[i]), a + i)
        BY DEF Waiting
      <4>1. CASE i \in 1..Len(q)
        BY <1>1, <2>1, <2>2, <2>4, <4>1 DEF Waiting
      <4>2. CASE i = Len(q) + 1
        <5>1. Id(r[i]) = Id(s[1]) /\ a + Len(q) + 1 = a + i /\ 1 \in 1..Len(s)
          BY <1>2, <2>2, <2>4, <4>2
        <5>2. Nth(Id(s[1]), a + Len(q) + 1)
          BY <1>1, <2>1, <2>4, <5>1 DEF Waiting
        <5> QED
          BY <5>1, <5>2
      <4> QED
        BY <1>2, <2>2, <2>4, <4>1, <4>2
    <3>2. Waiting(t, a + Len(q) + 1)
      BY <1>1, <1>2, <2>1, <2>2, <2>4, WaitingTail
    <3>3. a + Len(q) + 1 = b + Len(r) /\ b + Len(r) + Len(t) = a + Len(q) + Len(s)
      <4> DEFINE x == Len(q)
                 y == Len(s)
                 v == Len(r)
                 z == Len(t)
      <4>1. x \in Nat /\ y \in Nat /\ z = y - 1 /\ v = x + 1 /\ a = b
        BY <1>2, <2>1, <2>2, <2>4
      <4> HIDE DEF x, y, v, z
      <4>2. a + x + 1 = b + v /\ b + v + z = a + x + y
        BY <4>1
      <4> QED
        BY <4>2 DEF x, y, v, z
    <3>4. b + Len(r) \in Nat
      BY <1>2
    <3> QED
      BY <1>0, <1>1, <1>2, <1>3, <2>1, <2>4, <3>1, <3>2, <3>3, <3>4
  <2> QED
    BY <2>3, <2>4
<1>12. CASE SenderReset
  <2>1. InLoop /\ a = b /\ conn'[Sender] = "reset" /\ (r = q \/ r = <<>>)
    BY <1>0, <1>5, <1>12 DEF SenderReset, DialogueSame
  <2>2. Waiting(r, b)
    BY <1>1, <2>1, WaitingEmpty
  <2> QED
    BY <1>3, <2>1, <2>2
<1>13. CASE SenderEnds \/ SenderConnects \/ SenderQuits
  BY <1>5, <1>13 DEF SenderEnds, SenderConnects, SenderQuits
<1> QED
  BY <1>6, <1>7, <1>8, <1>9, <1>10, <1>11, <1>12, <1>13, SenderEffect DEF SenderTakes
-----------------------------------------------------------------------------
(* What a step does to the receiver, its connection and its worker.            *)
ShowPlaces == {"begin", "test", "recv"}

FirstId == [for |-> 0, part |-> 1]

ShownSame == printed' = printed /\ delivered'[Receiver] = delivered[Receiver]

ReceiverPasses ==
  /\ \/ pc'[Receiver] = pc[Receiver]
     \/ pc[Receiver] \in ShowPlaces /\ pc'[Receiver] \in ShowPlaces
  /\ conn'[Receiver] = conn[Receiver] /\ w'[Receiver] = w[Receiver] /\ ShownSame
  /\ toServer'[Receiver] = toServer[Receiver] /\ toClient'[Receiver] = toClient[Receiver]

ReceiverEnds ==
  /\ pc'[Receiver] \in {"done", "exited", "ub"}
  /\ w'[Receiver] = w[Receiver] /\ toClient'[Receiver] = toClient[Receiver] /\ ShownSame
  /\ toServer'[Receiver] = toServer[Receiver]
  /\ \/ conn'[Receiver] = conn[Receiver]
     \/ conn'[Receiver] = "closed"
     \/ conn'[Receiver] = "reset" /\ pc[Receiver] = "test"

ReceiverConnects ==
  /\ pc[Receiver] = "start" /\ pc'[Receiver] = "login"
  /\ conn'[Receiver] = "open" /\ w'[Receiver] = "login" /\ ShownSame
  /\ \E m \in AllLines : Id(m) = FirstId /\ toServer'[Receiver] = <<m>>
  /\ toClient'[Receiver] = toClient[Receiver]

ReceiverAnswered ==
  /\ toClient[Receiver] # <<>> /\ toClient'[Receiver] = Tail(toClient[Receiver])
  /\ conn'[Receiver] = conn[Receiver] /\ w'[Receiver] = w[Receiver] /\ ShownSame
  /\ \/ pc[Receiver] = "login" /\ pc'[Receiver] \in {"join", "done"}
     \/ pc[Receiver] = "join" /\ pc'[Receiver] = "begin"
  /\ \/ toServer'[Receiver] = toServer[Receiver]
     \/ \E m \in AllLines : /\ Id(m) = FirstId
                            /\ toServer'[Receiver] = Append(toServer[Receiver], m)

ReceiverPrints ==
  /\ pc[Receiver] = "recv" /\ pc'[Receiver] = "test"
  /\ toClient[Receiver] # <<>> /\ toClient'[Receiver] = Tail(toClient[Receiver])
  /\ conn'[Receiver] = conn[Receiver] /\ w'[Receiver] = w[Receiver]
  /\ delivered'[Receiver] = delivered[Receiver] /\ toServer'[Receiver] = toServer[Receiver]
  /\ printed' = IF toClient[Receiver][1].tag = "delivery"
                THEN Append(printed, Shows(toClient[Receiver][1])) ELSE printed

\* The worker takes the first line and acknowledges it.
Acknowledges ==
  /\ toServer[Receiver] # <<>> /\ toServer'[Receiver] = Tail(toServer[Receiver])
  /\ pc'[Receiver] = pc[Receiver] /\ conn'[Receiver] = conn[Receiver] /\ ShownSame
  /\ \E m \in AllLines :
       /\ m.tag = "ok" /\ Id(m) = Id(toServer[Receiver][1])
       /\ toClient'[Receiver] = IF conn[Receiver] = "open" THEN Append(toClient[Receiver], m)
                                ELSE toClient[Receiver]
  /\ \/ /\ w[Receiver] = "login"
        /\ w'[Receiver] = IF conn[Receiver] = "reset" THEN "done" ELSE "join"
     \/ w[Receiver] = "join" /\ w'[Receiver] = "loop"

WorkerDelivers ==
  /\ w[Receiver] = "loop" /\ w'[Receiver] = "loop" /\ feed[Receiver] # <<>>
  /\ pc'[Receiver] = pc[Receiver] /\ conn'[Receiver] = conn[Receiver] /\ printed' = printed
  /\ toServer'[Receiver] = toServer[Receiver]
  /\ toClient'[Receiver] = IF conn[Receiver] = "open"
                           THEN toClient[Receiver] \o Lines(Delivery) ELSE toClient[Receiver]
  /\ delivered'[Receiver] = Append(delivered[Receiver], Head(feed[Receiver]))

ReceiverReset ==
  /\ conn[Receiver] = "open" /\ conn'[Receiver] = "reset" /\ faults' = 1
  /\ pc'[Receiver] = pc[Receiver] /\ w'[Receiver] = w[Receiver] /\ ShownSame
  /\ toServer'[Receiver] \in {<<>>, toServer[Receiver]}
  /\ toClient'[Receiver] \in {<<>>, toClient[Receiver]}
-----------------------------------------------------------------------------
LEMMA AcknowledgesEffect ==
  ASSUME TypeOK, NEW to \in {"join", "loop", "done"}, NEW from,
         Takes(Receiver, from, to), Ack(Receiver, "ok")
  PROVE  /\ w[Receiver] = from /\ w'[Receiver] = to
         /\ toServer[Receiver] # <<>> /\ toServer'[Receiver] = Tail(toServer[Receiver])
         /\ pc'[Receiver] = pc[Receiver] /\ conn'[Receiver] = conn[Receiver]
         /\ printed' = printed
         /\ \E m \in AllLines :
              /\ m.tag = "ok" /\ Id(m) = Id(toServer[Receiver][1])
              /\ toClient'[Receiver] = IF conn[Receiver] = "open"
                                       THEN Append(toClient[Receiver], m)
                                       ELSE toClient[Receiver]
<1>1. /\ toServer[Receiver] # <<>> /\ Line1(Receiver) \in AllLines
      /\ Line1(Receiver) = toServer[Receiver][1]
      /\ toServer'[Receiver] = Tail(toServer[Receiver])
      /\ w[Receiver] = from /\ w'[Receiver] = to
  BY TakesEffect, Two
<1>2. \E m \in AllLines :
        /\ m.tag = "ok" /\ Id(m) = Id(toServer[Receiver][1])
        /\ toClient'[Receiver] = IF conn[Receiver] = "open" THEN Append(toClient[Receiver], m)
                                 ELSE toClient[Receiver]
  BY <1>1, AckEffect, Two
<1>3. pc' = pc /\ conn' = conn /\ printed' = printed
  BY DEF Takes, clientVars, history
<1> QED
  BY <1>1, <1>2, <1>3

(* The join of the receiver fits a line.                                       *)
LEMMA JoinFits ==
  \E m \in AllLines : /\ m = Message("join", RoomName, Text(""), 0)
                      /\ Id(m) = FirstId /\ Lines(m) = <<m>>
<1> DEFINE m == Message("join", RoomName, Text(""), 0)
<1>1. RoomName \in Names /\ 0 \in Nat /\ "join" \in LineTags
  BY SessionAssumption DEF Names, LineTags
<1>2. m \in AllLines /\ m.tag = "join" /\ m.text = Text("")
  <2>1. PICK t \in TextLines : t = Text("")
    BY NoTextType
  <2>2. Message("join", RoomName, t, 0) \in AllLines
    BY <1>1, MessageType
  <2> QED
    BY <2>1, <2>2 DEF Message
<1>3. Id(m) = FirstId
  BY DEF Message, Id, FirstId
<1> HIDE DEF m
<1>5. Lines(m) = <<m>>
  <2>1. m.text.len = 0
    BY <1>2, NoTextType
  <2> QED
    BY <1>2, <2>1, RequestFits
<1> QED
  BY <1>2, <1>3, <1>5 DEF m

LEMMA ReceiverEffect ==
  ASSUME TypeOK, InOrder, [Next]_vars
  PROVE  \/ ReceiverPasses \/ ReceiverEnds \/ ReceiverConnects \/ ReceiverAnswered
         \/ ReceiverPrints \/ Acknowledges \/ WorkerDelivers \/ ReceiverReset
<1> USE Two, Functions DEF clientVars, netVars, chatVars, history, bounds, ShownSame,
      ShowPlaces
<1>1. CASE SenderMoves \/ OthersMove
  BY <1>1, ReceiverKept, OthersKeep DEF ReceiverSame, ReceiverPasses
<1>2. CASE LoginAnswered(Receiver)
  <2>1. PICK m \in AllLines : /\ m = Message("join", RoomName, Text(""), 0)
                             /\ Id(m) = FirstId /\ Lines(m) = <<m>>
    BY JoinFits
  <2>2. Send(Receiver, m)
    BY <1>2, <2>1 DEF LoginAnswered
  <2>3. toServer'[Receiver] = toServer[Receiver] \/ toServer'[Receiver] = Append(toServer[Receiver], m)
    <3>1. toServer'[Receiver] \in {toServer[Receiver], toServer[Receiver] \o <<m>>}
      BY <2>1, <2>2, SendEffect
    <3>2. toServer[Receiver] \in Seq(AllLines)
      BY DEF TypeOK
    <3>3. toServer[Receiver] \o <<m>> = Append(toServer[Receiver], m)
      BY <3>2, AppendIsConcat
    <3> QED
      BY <3>1, <3>3
  <2>4. /\ toClient[Receiver] # <<>> /\ toClient'[Receiver] = Tail(toClient[Receiver])
        /\ conn'[Receiver] = conn[Receiver] /\ w'[Receiver] = w[Receiver] /\ ShownSame
        /\ pc[Receiver] = "login" /\ pc'[Receiver] \in {"join", "done"}
    BY <1>2 DEF LoginAnswered, Goto, TypeOK
  <2> QED
    BY <2>1, <2>3, <2>4 DEF ReceiverAnswered
<1>3. CASE LoginFails(Receiver)
  BY <1>3 DEF LoginFails, AtEof, Close, CloseWith, ReceiverEnds, TypeOK
<1>4. CASE ReadFails(Receiver)
  BY <1>4 DEF ReadFails, ReceiverEnds, TypeOK
<1>5. CASE Begin(Receiver)
  BY <1>5 DEF Begin, Goto, ReceiverPasses, TypeOK
<1>6. CASE Test(Receiver)
  <2>1. CASE running[Receiver]
    BY <1>6, <2>1 DEF Test, Goto, ReceiverPasses, TypeOK
  <2>2. CASE ~running[Receiver]
    BY <1>6, <2>2 DEF Test, Goto, Close, CloseWith, ReceiverEnds, TypeOK
  <2> QED
    BY <2>1, <2>2
<1>7. CASE JoinAnswered
  BY <1>7 DEF JoinAnswered, Goto, ReceiverAnswered, TypeOK
<1>8. CASE Recv
  <2>1. /\ pc[Receiver] = "recv" /\ pc'[Receiver] = "test"
        /\ UNCHANGED <<conn, toServer, w, delivered>>
    BY <1>8 DEF Recv, Received, Goto, TypeOK
  <2> DEFINE m == Head(toClient[Receiver])
             q == IF m.tag = "delivery" THEN <<Shows(m)>> ELSE <<>>
  <2>2. printed \in Seq(ShownLines)
    BY DEF TypeOK
  <2>3. CASE TakeLine /\ Received(q)
    <3>1. /\ toClient[Receiver] # <<>> /\ toClient'[Receiver] = Tail(toClient[Receiver])
          /\ toClient[Receiver] \in Seq(AllLines)
      BY <2>3 DEF TakeLine, TypeOK
    <3>2. m = toClient[Receiver][1] /\ m \in AllLines
      BY <3>1, TailType
    <3>3. printed' = printed \o q
      BY <2>3 DEF Received
    <3>4. CASE m.tag = "delivery"
      <4>1. q = <<Shows(m)>> /\ Shows(m) \in ShownLines
        BY <3>2, <3>4 DEF AllLines, Shows, ShownLines
      <4> DEFINE x == Shows(m)
      <4> HIDE DEF m, q
      <4>2. printed \o <<x>> = Append(printed, x)
        BY <2>2, <4>1, AppendIsConcat
      <4> QED
        BY <2>1, <3>1, <3>2, <3>3, <3>4, <4>1, <4>2 DEF ReceiverPrints
    <3>5. CASE m.tag # "delivery"
      <4>1. q = <<>>
        BY <3>5
      <4>2. printed \o <<>> = printed
        BY <2>2, ConcatEmptySeq
      <4> HIDE DEF m, q
      <4> QED
        BY <2>1, <3>1, <3>2, <3>3, <3>5, <4>1, <4>2 DEF ReceiverPrints
    <3> QED
      BY <3>4, <3>5
  <2>4. CASE UNCHANGED toClient /\ Received(<<>>)
    <3>1. printed' = printed \o <<>>
      BY <2>4 DEF Received
    <3>2. printed \o <<>> = printed
      BY <2>2, ConcatEmptySeq
    <3> QED
      BY <2>1, <2>4, <3>1, <3>2 DEF ReceiverPasses
  <2> QED
    BY <1>8, <2>3, <2>4 DEF Recv
<1>9. CASE WLogin(Receiver)
  <2> DEFINE to == IF conn[Receiver] = "reset" THEN "done" ELSE "join"
  <2>1. /\ Takes(Receiver, "login", to) /\ Ack(Receiver, "ok") /\ to \in {"join", "loop", "done"}
        /\ delivered' = delivered
    BY <1>9 DEF WLogin
  <2> HIDE DEF to
  <2>2. /\ w[Receiver] = "login" /\ w'[Receiver] = to
         /\ toServer[Receiver] # <<>> /\ toServer'[Receiver] = Tail(toServer[Receiver])
         /\ pc'[Receiver] = pc[Receiver] /\ conn'[Receiver] = conn[Receiver]
         /\ printed' = printed
         /\ \E m \in AllLines :
              /\ m.tag = "ok" /\ Id(m) = Id(toServer[Receiver][1])
              /\ toClient'[Receiver] = IF conn[Receiver] = "open"
                                       THEN Append(toClient[Receiver], m)
                                       ELSE toClient[Receiver]
    BY ONLY <2>1, AcknowledgesEffect, TypeOK
  <2> QED
    BY <2>1, <2>2 DEF Acknowledges, to
<1>10. CASE RWJoin
  <2>1. /\ Takes(Receiver, "join", "loop") /\ Ack(Receiver, "ok")
        /\ delivered' = delivered
    BY <1>10 DEF RWJoin, Chat!Subscribe
  <2>2. /\ w[Receiver] = "join" /\ w'[Receiver] = "loop"
         /\ toServer[Receiver] # <<>> /\ toServer'[Receiver] = Tail(toServer[Receiver])
         /\ pc'[Receiver] = pc[Receiver] /\ conn'[Receiver] = conn[Receiver]
         /\ printed' = printed
         /\ \E m \in AllLines :
              /\ m.tag = "ok" /\ Id(m) = Id(toServer[Receiver][1])
              /\ toClient'[Receiver] = IF conn[Receiver] = "open"
                                       THEN Append(toClient[Receiver], m)
                                       ELSE toClient[Receiver]
    BY ONLY <2>1, AcknowledgesEffect, TypeOK
  <2> QED
    BY <2>1, <2>2 DEF Acknowledges
<1>11. CASE RWSend
  <2>1. /\ feed[Receiver] # <<>>
        /\ delivered'[Receiver] = Append(delivered[Receiver], Head(feed[Receiver]))
    BY <1>11, DeliverEffect DEF RWSend
  <2>2. Delivery \in AllLines /\ Reply(Receiver, Delivery)
    BY <1>11, <2>1, DeliveryType DEF RWSend
  <2>3. toClient'[Receiver] = IF conn[Receiver] = "open"
                              THEN toClient[Receiver] \o Lines(Delivery) ELSE toClient[Receiver]
    BY <2>2, ReplyEffect
  <2>4. /\ w[Receiver] = "loop" /\ UNCHANGED <<w, pc, conn, printed, toServer>>
    BY <1>11 DEF RWSend
  <2> QED
    BY <2>1, <2>3, <2>4 DEF WorkerDelivers
<1>12. CASE Connect(Receiver)
  <2>1. CASE up
    <3> DEFINE m == Message("rlogin", "", Text(""), 0)
    <3>1. toServer' = [toServer EXCEPT ![Receiver] = <<m>>]
      BY <1>12, <2>1 DEF Connect
    <3>5. m \in AllLines /\ Id(m) = FirstId
      <4>1. "" \in Names /\ 0 \in Nat /\ "rlogin" \in LineTags
        BY DEF Names, LineTags
      <4>2. Message("rlogin", "", Text(""), 0) \in AllLines
        BY <4>1, NoTextType, MessageType
      <4>3. Id(m) = FirstId
        BY DEF Message, Id, FirstId
      <4> QED
        BY <4>2, <4>3
    <3>2. /\ pc[Receiver] = "start" /\ pc'[Receiver] = "login" /\ conn'[Receiver] = "open"
          /\ w'[Receiver] = "login" /\ UNCHANGED <<toClient, printed, delivered>>
      BY <1>12, <2>1 DEF Connect, Goto, TypeOK
    <3> HIDE DEF m
    <3>3. toServer'[Receiver] = <<m>>
      BY <3>1 DEF TypeOK
    <3> QED
      BY <3>2, <3>3, <3>5 DEF ReceiverConnects
  <2>2. CASE ~up
    BY <1>12, <2>2 DEF Connect, Goto, ReceiverEnds, TypeOK
  <2> QED
    BY <2>1, <2>2
<1>13. CASE Reset(Receiver)
  <2>1. /\ \E rest \in {<<>>, toServer[Receiver]} :
              toServer' = [toServer EXCEPT ![Receiver] = rest]
        /\ \E rest \in {<<>>, toClient[Receiver]} :
              toClient' = [toClient EXCEPT ![Receiver] = rest]
    BY <1>13 DEF Reset
  <2>2. toServer'[Receiver] \in {<<>>, toServer[Receiver]}
    BY <2>1
  <2>3. toClient'[Receiver] \in {<<>>, toClient[Receiver]}
    BY <2>1
  <2> QED
    BY <1>13, <2>2, <2>3 DEF Reset, ReceiverReset, TypeOK
<1> QED
  BY <1>1, <1>2, <1>3, <1>4, <1>5, <1>6, <1>7, <1>8, <1>9, <1>10, <1>11, <1>12, <1>13,
     Movers DEF ReceiverMoves
-----------------------------------------------------------------------------
\* All of q are first parts of lines that are no delivery.
AllFirst(q) == \A i \in 1..Len(q) : Id(q[i]) = FirstId

(* The dialogue of the receiver: two responses, and then only deliveries.      *)
ReceiverPhase ==
  /\ pc[Receiver] = "start" =>
       /\ conn[Receiver] = "none" /\ w[Receiver] = "none"
       /\ toServer[Receiver] = <<>> /\ toClient[Receiver] = <<>>
  /\ pc[Receiver] = "login" =>
       /\ w[Receiver] \in {"login", "join", "done"}
       /\ w[Receiver] = "login" => toClient[Receiver] = <<>> /\ Len(toServer[Receiver]) <= 1
       /\ w[Receiver] = "join" => toServer[Receiver] = <<>> /\ Len(toClient[Receiver]) <= 1
       /\ w[Receiver] = "done" => toClient[Receiver] = <<>>
  /\ pc[Receiver] = "join" =>
       /\ w[Receiver] \in {"join", "loop"}
       /\ w[Receiver] = "join" => toClient[Receiver] = <<>>
       /\ w[Receiver] = "loop" /\ conn[Receiver] = "open" => toClient[Receiver] # <<>>
  /\ pc[Receiver] \in {"login", "join"} /\ toClient[Receiver] # <<>> =>
       toClient[Receiver][1].tag # "delivery"
  /\ pc[Receiver] \in ShowPlaces => w[Receiver] = "loop"
  /\ pc[Receiver] \in {"start", "login", "join"} => printed = <<>>
  /\ w[Receiver] # "loop" => delivered[Receiver] = <<>>
  /\ AllFirst(toServer[Receiver])
  /\ pc[Receiver] \notin {"getline", "await", "quitting"}

LEMMA ReceiverLines ==
  ASSUME TypeOK
  PROVE  /\ toServer[Receiver] \in Seq(AllLines) /\ toClient[Receiver] \in Seq(AllLines)
         /\ Len(toServer[Receiver]) \in Nat /\ Len(toClient[Receiver]) \in Nat
         /\ printed \in Seq(ShownLines) /\ delivered[Receiver] \in Seq(ChatMessages)
<1>1. /\ toServer[Receiver] \in Seq(AllLines) /\ toClient[Receiver] \in Seq(AllLines)
      /\ printed \in Seq(ShownLines) /\ delivered[Receiver] \in Seq(ChatMessages)
  BY Two DEF TypeOK
<1> QED
  BY <1>1

(* The last line of a sequence of at most one is taken.                        *)
LEMMA LastTaken ==
  ASSUME NEW q \in Seq(AllLines), q # <<>>, Len(q) <= 1
  PROVE  Tail(q) = <<>>
<1>1. /\ Len(q) \in Nat \ {0} /\ Tail(q) \in Seq(AllLines)
      /\ Len(Tail(q)) = Len(q) - 1
  BY TailType
<1>2. Len(Tail(q)) = 0
  <2> DEFINE a == Len(q)
             b == Len(Tail(q))
  <2>1. a \in Nat \ {0} /\ a <= 1 /\ b = a - 1
    BY <1>1
  <2> HIDE DEF a, b
  <2>2. b = 0
    BY <2>1
  <2> QED
    BY <2>2 DEF b
<1> QED
  BY <1>1, <1>2, EmptySeq

LEMMA AllFirstKept ==
  ASSUME TypeOK, InOrder, AllFirst(toServer[Receiver]), [Next]_vars
  PROVE  AllFirst(toServer'[Receiver])
<1>1. PICK s \in Seq(AllLines) : s = toServer[Receiver]
  BY ReceiverLines
<1>2. CASE ReceiverConnects
  <2>1. PICK m \in AllLines : Id(m) = FirstId /\ toServer'[Receiver] = <<m>>
    BY <1>2 DEF ReceiverConnects
  <2>2. Len(<<m>>) = 1 /\ <<m>>[1] = m
    OBVIOUS
  <2> QED
    BY <2>1, <2>2 DEF AllFirst
<1>3. CASE \E m \in AllLines : /\ Id(m) = FirstId
                              /\ toServer'[Receiver] = Append(toServer[Receiver], m)
  <2>1. PICK m \in AllLines : Id(m) = FirstId /\ toServer'[Receiver] = Append(s, m)
    BY <1>1, <1>3
  <2>2. /\ Len(Append(s, m)) = Len(s) + 1 /\ Append(s, m)[Len(s) + 1] = m
        /\ \A i \in 1..Len(s) : Append(s, m)[i] = s[i]
    BY <1>1, AppendProperties
  <2> QED
    BY <1>1, <2>1, <2>2 DEF AllFirst
<1>4. CASE toServer[Receiver] # <<>> /\ toServer'[Receiver] = Tail(toServer[Receiver])
  <2>1. /\ Len(s) \in Nat \ {0} /\ Len(Tail(s)) = Len(s) - 1
        /\ \A i \in 1..(Len(s) - 1) : Tail(s)[i] = s[i + 1]
    BY <1>1, <1>4, TailType
  <2>2. ASSUME NEW i \in 1..Len(Tail(s)) PROVE Id(Tail(s)[i]) = FirstId
    <3>1. Tail(s)[i] = s[i + 1] /\ i + 1 \in 1..Len(s)
      BY <2>1
    <3> QED
      BY <1>1, <3>1 DEF AllFirst
  <2> QED
    BY <1>1, <1>4, <2>2 DEF AllFirst
<1>5. CASE toServer'[Receiver] = <<>> \/ toServer'[Receiver] = toServer[Receiver]
  <2>1. Len(<<>>) = 0
    OBVIOUS
  <2> QED
    BY <1>5, <2>1 DEF AllFirst
<1> QED
  BY <1>2, <1>3, <1>4, <1>5, ReceiverEffect DEF ReceiverPasses, ReceiverEnds,
     ReceiverAnswered, ReceiverPrints, Acknowledges, WorkerDelivers, ReceiverReset

LEMMA ReceiverPhaseKept ==
  ASSUME TypeOK, TypeOK', InOrder, ReceiverPhase, [Next]_vars
  PROVE  ReceiverPhase'
<1> USE DEF ShowPlaces, ShownSame
<1> DEFINE q == toClient[Receiver]
           s == toServer[Receiver]
<1>0. /\ q \in Seq(AllLines) /\ s \in Seq(AllLines)
      /\ Len(<<>>) = 0
  BY ReceiverLines
<1>9. AllFirst(toServer'[Receiver])
  BY AllFirstKept DEF ReceiverPhase
<1>1. CASE ReceiverPasses
  BY <1>1, <1>9 DEF ReceiverPasses, ReceiverPhase
<1>2. CASE ReceiverEnds
  BY <1>2, <1>9 DEF ReceiverEnds, ReceiverPhase
<1>3. CASE ReceiverConnects
  <2>1. PICK m \in AllLines : toServer'[Receiver] = <<m>>
    BY <1>3 DEF ReceiverConnects
  <2>2. Len(<<m>>) = 1
    OBVIOUS
  <2> QED
    BY <1>3, <1>9, <2>1, <2>2 DEF ReceiverConnects, ReceiverPhase
<1>4. CASE ReceiverAnswered
  <2>1. CASE pc[Receiver] = "login"
    <3>1. w[Receiver] = "join" /\ Len(q) <= 1 /\ q # <<>>
      BY <1>4, <2>1 DEF ReceiverAnswered, ReceiverPhase
    <3>2. toClient'[Receiver] = <<>>
      BY <1>0, <1>4, <3>1, LastTaken DEF ReceiverAnswered
    <3> QED
      BY <1>4, <1>9, <2>1, <3>1, <3>2 DEF ReceiverAnswered, ReceiverPhase
  <2>2. CASE pc[Receiver] = "join"
    BY <1>4, <2>2, <1>9 DEF ReceiverAnswered, ReceiverPhase
  <2> QED
    BY <1>4, <2>1, <2>2 DEF ReceiverAnswered
<1>5. CASE ReceiverPrints
  BY <1>5, <1>9 DEF ReceiverPrints, ReceiverPhase
<1>6. CASE Acknowledges
  <2>1. PICK m \in AllLines :
          /\ m.tag = "ok"
          /\ toClient'[Receiver] = IF conn[Receiver] = "open" THEN Append(q, m) ELSE q
    BY <1>6 DEF Acknowledges
  <2>2. pc'[Receiver] = pc[Receiver] /\ s # <<>> /\ conn'[Receiver] = conn[Receiver]
        /\ toServer'[Receiver] = Tail(s)
    BY <1>6 DEF Acknowledges
  <2>3. pc[Receiver] # "start" /\ (pc[Receiver] \in ShowPlaces => FALSE)
    BY <1>6, <2>2 DEF Acknowledges, ReceiverPhase
  <2>4. q = <<>> => Append(q, m) # <<>> /\ Len(Append(q, m)) = 1 /\ Append(q, m)[1] = m
    <3>1. Append(<<>>, m) # <<>> /\ Len(Append(<<>>, m)) = 1 /\ Append(<<>>, m)[1] = m
      OBVIOUS
    <3> QED
      BY <3>1
  <2>5. CASE pc[Receiver] = "login"
    <3>1. /\ w[Receiver] = "login" /\ q = <<>> /\ Len(s) <= 1
          /\ w'[Receiver] = IF conn[Receiver] = "reset" THEN "done" ELSE "join"
      BY <1>6, <2>2, <2>5 DEF Acknowledges, ReceiverPhase
    <3>2. toServer'[Receiver] = <<>>
      BY <1>0, <2>2, <3>1, LastTaken
    <3> HIDE DEF q, s
    <3>3. toClient'[Receiver] = <<>> \/ (toClient'[Receiver] = Append(q, m) /\ conn[Receiver] = "open")
      BY <2>1, <3>1
    <3>4. /\ Len(toClient'[Receiver]) <= 1
          /\ toClient'[Receiver] # <<>> => toClient'[Receiver][1].tag # "delivery"
          /\ toClient'[Receiver] # <<>> => conn[Receiver] = "open"
      <4>1. CASE toClient'[Receiver] = <<>>
        BY <1>0, <4>1
      <4>2. CASE toClient'[Receiver] = Append(q, m) /\ conn[Receiver] = "open"
        BY <2>1, <2>4, <3>1, <4>2
      <4> QED
        BY <3>3, <4>1, <4>2
    <3> QED
      BY <1>6, <1>9, <2>2, <2>5, <3>1, <3>2, <3>4 DEF Acknowledges, ReceiverPhase
  <2>6. CASE pc[Receiver] = "join"
    <3>1. w[Receiver] = "join" /\ q = <<>> /\ w'[Receiver] = "loop"
      BY <1>6, <2>6 DEF Acknowledges, ReceiverPhase
    <3> HIDE DEF q, s
    <3>2. toClient'[Receiver] = <<>> \/ toClient'[Receiver] = Append(q, m)
      BY <2>1, <3>1
    <3>3. toClient'[Receiver] # <<>> => toClient'[Receiver][1].tag # "delivery"
      BY <2>1, <2>4, <3>1, <3>2
    <3>4. conn[Receiver] = "open" => toClient'[Receiver] # <<>>
      BY <2>1, <2>4, <3>1
    <3> QED
      BY <1>6, <1>9, <2>2, <2>6, <3>1, <3>3, <3>4 DEF Acknowledges, ReceiverPhase
  <2> QED
    BY <1>6, <1>9, <2>2, <2>3, <2>5, <2>6 DEF Acknowledges, ReceiverPhase
<1>7. CASE WorkerDelivers
  <2>1. pc'[Receiver] = pc[Receiver] /\ pc[Receiver] \notin {"start", "login"}
        /\ w'[Receiver] = "loop" /\ conn'[Receiver] = conn[Receiver] /\ printed' = printed
    BY <1>7 DEF WorkerDelivers, ReceiverPhase
  <2>2. CASE pc[Receiver] = "join" /\ conn[Receiver] = "open"
    <3>1. q # <<>> /\ q[1].tag # "delivery"
      BY <1>7, <2>2 DEF WorkerDelivers, ReceiverPhase
    <3>2. toClient'[Receiver] = q \o Lines(Delivery) /\ Lines(Delivery) \in Seq(AllLines)
      BY <1>7, <2>2, DeliveryType, LinesType DEF WorkerDelivers
    <3>3. Len(q) \in Nat \ {0}
      BY <1>0, <3>1, TailType
    <3>4. toClient'[Receiver][1] = q[1] /\ Len(toClient'[Receiver]) # 0
      <4> DEFINE l == Lines(Delivery)
      <4>1. l \in Seq(AllLines) /\ toClient'[Receiver] = q \o l
        BY <3>2
      <4> HIDE DEF l, q
      <4>2. Len(q \o l) = Len(q) + Len(l) /\ (q \o l)[1] = q[1] /\ Len(l) \in Nat
        BY <1>0, <3>3, <4>1, ConcatProperties
      <4> QED
        BY <3>3, <4>1, <4>2
    <3>5. toClient'[Receiver] # <<>>
      BY <1>0, <3>4
    <3> QED
      BY <1>9, <2>1, <2>2, <3>1, <3>4, <3>5 DEF ReceiverPhase
  <2>3. CASE pc[Receiver] = "join" /\ conn[Receiver] # "open"
    BY <1>7, <1>9, <2>1, <2>3 DEF WorkerDelivers, ReceiverPhase
  <2>4. CASE pc[Receiver] # "join"
    BY <1>9, <2>1, <2>4 DEF ReceiverPhase
  <2> QED
    BY <2>2, <2>3, <2>4
<1>8. CASE ReceiverReset
  <2>1. /\ pc'[Receiver] = pc[Receiver] /\ w'[Receiver] = w[Receiver]
        /\ conn'[Receiver] = "reset" /\ pc[Receiver] # "start"
        /\ (toServer'[Receiver] = s \/ toServer'[Receiver] = <<>>)
        /\ (toClient'[Receiver] = q \/ toClient'[Receiver] = <<>>)
        /\ printed' = printed /\ delivered'[Receiver] = delivered[Receiver]
    BY <1>8 DEF ReceiverReset, ReceiverPhase
  <2>2. /\ (q = <<>> => toClient'[Receiver] = <<>>) /\ (s = <<>> => toServer'[Receiver] = <<>>)
        /\ (Len(q) <= 1 => Len(toClient'[Receiver]) <= 1)
        /\ (Len(s) <= 1 => Len(toServer'[Receiver]) <= 1)
        /\ (toClient'[Receiver] # <<>> => toClient'[Receiver] = q)
    BY <1>0, <2>1
  <2> QED
    BY <1>9, <2>1, <2>2 DEF ReceiverPhase
<1> QED
  BY <1>1, <1>2, <1>3, <1>4, <1>5, <1>6, <1>7, <1>8, ReceiverEffect
-----------------------------------------------------------------------------
(* As long as the network holds and no line is too long, the server runs.      *)
Calm == faults = 0 /\ Split(Len(typed)) = {}

CalmHolds ==
  Calm =>
    /\ up /\ conn[Sender] # "reset"
    /\ conn[Receiver] = "reset" => w[Receiver] = "loop"
    /\ pc[Sender] = "quitting" => Len(toServer[Sender]) + Len(toClient[Sender]) <= 1

LEMMA CalmBefore ==
  ASSUME TypeOK, [Next]_vars, Calm'
  PROVE  Calm
BY EffectTyped, TypedStays, UpFalls DEF Calm, UpKept

LEMMA CalmReceiver ==
  ASSUME TypeOK, TypeOK', InOrder, ReceiverPhase, CalmHolds, [Next]_vars, Calm'
  PROVE  conn'[Receiver] = "reset" => w'[Receiver] = "loop"
<1>1. Calm /\ faults' = 0
  BY CalmBefore DEF Calm
<1>2. conn[Receiver] = "reset" => w[Receiver] = "loop"
  BY <1>1 DEF CalmHolds
<1>3. CASE ReceiverPasses \/ ReceiverConnects \/ ReceiverAnswered \/ ReceiverPrints
  BY <1>2, <1>3 DEF ReceiverPasses, ReceiverConnects, ReceiverAnswered, ReceiverPrints
<1>4. CASE ReceiverEnds
  BY <1>2, <1>4 DEF ReceiverEnds, ReceiverPhase, ShowPlaces
<1>5. CASE Acknowledges \/ WorkerDelivers
  BY <1>2, <1>5 DEF Acknowledges, WorkerDelivers
<1>6. CASE ReceiverReset
  BY <1>1, <1>6 DEF ReceiverReset
<1> QED
  BY <1>3, <1>4, <1>5, <1>6, ReceiverEffect

(* In the loop, without lines that are too long, what has been asked and not   *)
(* answered is on its way.                                                     *)
LEMMA CalmFlight ==
  ASSUME TypeOK, Dialogue, CalmHolds, Calm, pc[Sender] \in LoopPlaces
  PROVE  /\ conn[Sender] = "open" /\ w[Sender] # "done"
         /\ Len(toServer[Sender]) = 0 /\ Len(toClient[Sender]) = 0
<1>1. conn[Sender] = "open" /\ up /\ Len(typed) = Len(answers) /\ InLoop
  BY DEF CalmHolds, Dialogue, LoopPhase, InLoop
<1>2. w[Sender] # "done"
  BY <1>1 DEF Calm, Dialogue, LoopPhase, Quitting
<1>3. Len(answers) + Len(toClient[Sender]) + Len(toServer[Sender]) = Len(lines)
  BY <1>1, <1>2 DEF Dialogue, Flight, Left
<1>4. Len(lines) = Len(typed)
  BY DEF Calm, Dialogue, Counted
<1>5. PICK x \in Nat, y \in Nat, n \in Nat :
        x = Len(toServer[Sender]) /\ y = Len(toClient[Sender]) /\ n = Len(typed)
  BY SenderLines
<1>6. n + y + x = n
  BY <1>1, <1>3, <1>4, <1>5
<1>7. x = 0 /\ y = 0
  BY <1>6
<1> QED
  BY <1>1, <1>2, <1>5, <1>7

LEMMA CalmKept ==
  ASSUME TypeOK, TypeOK', InOrder, Dialogue, ReceiverPhase, CalmHolds, [Next]_vars
  PROVE  CalmHolds'
<1> SUFFICES ASSUME Calm'
             PROVE  /\ up' /\ conn'[Sender] # "reset"
                    /\ conn'[Receiver] = "reset" => w'[Receiver] = "loop"
                    /\ pc'[Sender] = "quitting" =>
                         Len(toServer'[Sender]) + Len(toClient'[Sender]) <= 1
  BY DEF CalmHolds
<1>1. Calm /\ faults' = 0
  BY CalmBefore DEF Calm
<1>2. /\ up /\ conn[Sender] # "reset"
      /\ conn[Receiver] = "reset" => w[Receiver] = "loop"
      /\ pc[Sender] = "quitting" => Len(toServer[Sender]) + Len(toClient[Sender]) <= 1
  BY <1>1 DEF CalmHolds
<1>3. up'
  <2>1. ASSUME NEW c \in Clients, WorkerReadFails(c) PROVE FALSE
    BY <1>2, <2>1, Two DEF WorkerReadFails, Clients
  <2> QED
    BY <1>2, <2>1, UpFalls DEF UpKept
<1>4. conn'[Receiver] = "reset" => w'[Receiver] = "loop"
  BY CalmReceiver
<1>5. /\ Len(toServer[Sender]) \in Nat /\ Len(toClient[Sender]) \in Nat
      /\ toClient[Sender] \in Seq(AllLines)
  BY SenderLines
<1>6. conn'[Sender] # "reset"
  <2>1. CASE SenderEnds
    <3> SUFFICES ASSUME /\ toClient'[Sender] # <<>>
                        /\ \/ pc[Sender] = "test" /\ toClient'[Sender] = toClient[Sender]
                           \/ /\ pc[Sender] = "quitting" /\ toClient[Sender] # <<>>
                              /\ toClient'[Sender] = Tail(toClient[Sender])
                 PROVE  FALSE
      BY <1>2, <2>1 DEF SenderEnds
    <3>1. CASE pc[Sender] = "test" /\ toClient'[Sender] = toClient[Sender]
      <4>1. Len(toClient[Sender]) = 0
        BY <1>1, <3>1, CalmFlight DEF LoopPlaces
      <4> QED
        BY <1>5, <3>1, <4>1, EmptySeq
    <3>2. CASE /\ pc[Sender] = "quitting" /\ toClient[Sender] # <<>>
               /\ toClient'[Sender] = Tail(toClient[Sender])
      <4>1. Len(toClient[Sender]) <= 1
        <5> DEFINE x == Len(toServer[Sender])
                   y == Len(toClient[Sender])
        <5>1. x \in Nat /\ y \in Nat /\ x + y <= 1
          BY <1>2, <1>5, <3>2
        <5> HIDE DEF x, y
        <5>2. y <= 1
          BY <5>1
        <5> QED
          BY <5>2 DEF y
      <4> QED
        BY <1>5, <3>2, <4>1, LastTaken
    <3> QED
      BY <3>1, <3>2
  <2>2. CASE SenderReset
    BY <1>1, <2>2 DEF SenderReset
  <2>3. CASE ~SenderEnds /\ ~SenderReset
    BY <1>2, <2>3, SenderEffect DEF SenderPasses, SenderConnects, SenderTakes, SenderMisses,
       SenderTypes, SenderQuits, Puts, WorkerServes, Serving
  <2> QED
    BY <2>1, <2>2, <2>3
<1>7. ASSUME pc'[Sender] = "quitting"
      PROVE  Len(toServer'[Sender]) + Len(toClient'[Sender]) <= 1
  <2>1. CASE SenderPasses
    BY <1>2, <1>7, <2>1 DEF SenderPasses, LinesSame, LoopPlaces
  <2>2. CASE SenderQuits
    <3>1. PICK m \in AllLines : Puts(m) /\ m.tag = "quit"
      BY <2>2 DEF SenderQuits
    <3>2. /\ conn[Sender] = "open" /\ Len(toServer[Sender]) = 0 /\ Len(toClient[Sender]) = 0
          /\ w[Sender] # "done"
      BY <1>1, <3>1, CalmFlight DEF Puts, LoopPlaces
    <3>3. Len(toServer'[Sender]) = Len(toServer[Sender]) + Parts(m) /\ Parts(m) = 1
      BY <1>2, <3>1, <3>2, PutsLines, RequestFits DEF Puts, IsNext
    <3>4. toClient'[Sender] = toClient[Sender]
      BY <3>1 DEF Puts
    <3> QED
      BY <3>2, <3>3, <3>4
  <2>3. CASE WorkerServes
    <3>1. Len(toServer[Sender]) + Len(toClient[Sender]) <= 1
      BY <1>2, <1>7, <2>3 DEF WorkerServes, Serving
    <3>2. /\ Len(toServer'[Sender]) = Len(toServer[Sender]) - 1
          /\ Len(toServer[Sender]) \in Nat \ {0}
          /\ \/ Len(toClient'[Sender]) = Len(toClient[Sender])
             \/ Len(toClient'[Sender]) = Len(toClient[Sender]) + 1
      BY <2>3, ServingLines DEF WorkerServes
    <3> DEFINE x == Len(toServer[Sender])
               y == Len(toClient[Sender])
               u == Len(toServer'[Sender])
               v == Len(toClient'[Sender])
    <3>3. x \in Nat \ {0} /\ y \in Nat /\ x + y <= 1 /\ u = x - 1 /\ (v = y \/ v = y + 1)
      BY <1>5, <3>1, <3>2
    <3> HIDE DEF x, y, u, v
    <3>4. u + v <= 1
      BY <3>3
    <3> QED
      BY <3>4 DEF u, v
  <2>4. CASE SenderReset
    BY <1>1, <2>4 DEF SenderReset
  <2>5. CASE SenderEnds \/ SenderConnects \/ SenderTakes \/ SenderMisses \/ SenderTypes
    BY <1>7, <2>5 DEF SenderEnds, SenderConnects, SenderTakes, SenderMisses, SenderTypes
  <2> QED
    BY <2>1, <2>2, <2>3, <2>4, <2>5, SenderEffect
<1> QED
  BY <1>3, <1>4, <1>6, <1>7
-----------------------------------------------------------------------------
(* The inductive invariant of both dialogues.                                  *)
Sessions == TypeOK /\ InOrder /\ Dialogue /\ ReceiverPhase /\ CalmHolds

LEMMA SessionsInit == Init => Sessions
<1> SUFFICES ASSUME Init PROVE Sessions
  OBVIOUS
<1>1. TypeOK /\ InOrder
  BY InitType
<1>2. /\ pc[Sender] = "start" /\ conn[Sender] = "none" /\ toServer[Sender] = <<>>
      /\ toClient[Sender] = <<>> /\ typed = <<>> /\ lines = <<>> /\ answers = <<>>
      /\ pc[Receiver] = "start" /\ conn[Receiver] = "none" /\ toServer[Receiver] = <<>>
      /\ toClient[Receiver] = <<>> /\ w[Receiver] = "none" /\ printed = <<>> /\ up
  BY Two DEF Init
<1>3. delivered[Receiver] = <<>>
  BY Two DEF Init, Chat!Init, Chat!Users, Clients
<1>4. LoginPhase /\ LoopPhase /\ Counted /\ Flight
  <2>1. Len(<<>>) = 0 /\ Split(0) = {}
    BY DEF Split
  <2>2. Counted
    BY <1>2, <2>1 DEF Counted
  <2> QED
    BY <1>2, <2>1, <2>2 DEF LoginPhase, LoopPhase, Flight, InLoop, LoopPlaces
<1>5. Answered
  <2>1. Len(<<>>) = 0
    OBVIOUS
  <2> QED
    BY <1>2, <2>1 DEF Answered
<1>6. ReceiverPhase /\ CalmHolds
  <2>1. Len(<<>>) = 0
    OBVIOUS
  <2>2. AllFirst(toServer[Receiver])
    BY <1>2, <2>1 DEF AllFirst
  <2> QED
    BY <1>2, <1>3, <2>2 DEF ReceiverPhase, ShowPlaces, CalmHolds
<1> QED
  BY <1>1, <1>4, <1>5, <1>6 DEF Sessions, Dialogue

LEMMA SessionsKept == Sessions /\ [Next]_vars => Sessions'
<1> SUFFICES ASSUME Sessions, [Next]_vars PROVE Sessions'
  OBVIOUS
<1>1. TypeOK /\ InOrder /\ Dialogue /\ ReceiverPhase /\ CalmHolds
      /\ LoginPhase /\ LoopPhase /\ Counted /\ Flight /\ Answered
  BY DEF Sessions, Dialogue
<1>2. TypeOK' /\ InOrder'
  BY <1>1, NextType, NextOrder
<1>3. LoginPhase' /\ LoopPhase' /\ Counted' /\ Flight' /\ Answered'
  BY <1>1, <1>2, LoginPhaseKept, LoopPhaseKept, CountedKept, FlightKept, AnsweredKept
<1>4. ReceiverPhase' /\ CalmHolds'
  BY <1>1, <1>2, ReceiverPhaseKept, CalmKept
<1> QED
  BY <1>2, <1>3, <1>4 DEF Sessions, Dialogue

LEMMA SessionsInvariant == Spec => []Sessions
BY SessionsInit, SessionsKept, PTL DEF Spec

(* The server ends only when a connection is reset under a worker that reads.  *)
(* Close resets it only with a reply unread, and CalmFlight shows that, without*)
(* a line that was too long, none is when the sender leaves its loop.          *)
THEOREM OnlyResetsStop == Spec => []ServerSurvives
<1>1. Sessions => ServerSurvives
  BY DEF Sessions, CalmHolds, Calm, ServerSurvives, TypeOK
<1> QED
  BY <1>1, SessionsInvariant, PTL

(* Each reply the sender takes for that of its k-th request is that of the     *)
(* k-th line that its requests were read as, however many lines a request may  *)
(* be: what is in transit (Flight) are the replies that follow, without a gap. *)
THEOREM RepliesKeepStep == Spec => []RepliesInStep
<1>1. Sessions => RepliesInStep
  <2> SUFFICES ASSUME Sessions, NEW k \in DOMAIN answers
               PROVE  \/ \A i \in k..Len(answers) : answers[i] = NoReply
                      \/ /\ k \in DOMAIN lines /\ answers[k] = lines[k]
                         /\ answers[k].for = k <=> Split(k - 1) = {}
    BY DEF RepliesInStep
  <2>1. /\ k \in 1..Len(answers) /\ DOMAIN lines = 1..Len(lines)
        /\ Len(answers) \in Nat /\ Len(typed) \in Nat
    BY SenderLines DEF Sessions
  <2>2. CASE Nth(answers[k], k)
    <3>1. k \in 1..Len(lines) /\ answers[k] = lines[k]
      BY <2>2 DEF Nth
    <3>2. k <= Len(typed)
      BY <2>1 DEF Sessions, Dialogue, LoopPhase
    <3>3. lines[k].for = k <=> Split(k - 1) = {}
      BY <3>1, <3>2 DEF Sessions, Dialogue, Counted
    <3> QED
      BY <2>1, <3>1, <3>3
  <2>3. CASE ~Nth(answers[k], k)
    BY <2>1, <2>3 DEF Sessions, Dialogue, Answered
  <2> QED
    BY <2>2, <2>3
<1> QED
  BY <1>1, SessionsInvariant, PTL
-----------------------------------------------------------------------------
(* A text belongs to a request that the user typed to be sent.                 *)
Truthful(x) ==
  /\ x.for \in 1..Len(typed)
  /\ typed[x.for].tag = "sendall" /\ x.text.of = typed[x.for].text.of

(* The texts on their way to the worker are later than the published ones.     *)
Pending(l) ==
  \A i \in 1..Len(l) :
    l[i].tag = "sendall" =>
      /\ Truthful(l[i])
      /\ \A n \in 1..Len(text) : Before(text[n], l[i])
      /\ \A j \in 1..Len(l) : j > i /\ l[j].tag = "sendall" => Before(l[i], l[j])

Published ==
  /\ \A n \in 1..Len(text) : Truthful(text[n])
  /\ \A i, j \in 1..Len(text) : i < j => Before(text[i], text[j])

TextsOwned == Published /\ Pending(toServer[Sender])

LEMMA PendingTail ==
  ASSUME NEW q \in Seq(AllLines), q # <<>>, Pending(q)
  PROVE  Pending(Tail(q))
<1>1. /\ Len(q) \in Nat \ {0} /\ Len(Tail(q)) = Len(q) - 1
      /\ \A i \in 1..(Len(q) - 1) : Tail(q)[i] = q[i + 1]
  BY TailType
<1> DEFINE r == Tail(q)
<1>2. ASSUME NEW i \in 1..Len(r) PROVE i + 1 \in 1..Len(q) /\ r[i] = q[i + 1]
  BY <1>1
<1> HIDE DEF r
<1>3. SUFFICES ASSUME NEW i \in 1..Len(r), r[i].tag = "sendall"
               PROVE  /\ Truthful(r[i])
                      /\ \A n \in 1..Len(text) : Before(text[n], r[i])
                      /\ \A j \in 1..Len(r) : j > i /\ r[j].tag = "sendall" => Before(r[i], r[j])
  BY DEF Pending, r
<1>4. /\ Truthful(q[i + 1])
      /\ \A n \in 1..Len(text) : Before(text[n], q[i + 1])
      /\ \A j \in 1..Len(q) : j > i + 1 /\ q[j].tag = "sendall" => Before(q[i + 1], q[j])
  BY <1>2, <1>3 DEF Pending
<1>5. ASSUME NEW j \in 1..Len(r), j > i, r[j].tag = "sendall" PROVE Before(r[i], r[j])
  <2>1. j + 1 \in 1..Len(q) /\ r[j] = q[j + 1] /\ j + 1 > i + 1
    BY <1>2, <1>5
  <2> QED
    BY <1>2, <1>4, <1>5, <2>1
<1> QED
  BY <1>2, <1>4, <1>5

LEMMA PendingStays ==
  ASSUME TypeOK, [Next]_vars, NEW q \in Seq(AllLines), Pending(q), text' = text
  PROVE  Pending(q)'
<1>1. /\ Len(typed) \in Nat /\ Len(typed') \in Nat /\ Len(typed) <= Len(typed')
      /\ \A i \in 1..Len(typed) : typed'[i] = typed[i]
  BY EffectTyped, TypedStays
<1> SUFFICES ASSUME NEW i \in 1..Len(q), q[i].tag = "sendall"
             PROVE  (/\ Truthful(q[i])
                     /\ \A n \in 1..Len(text) : Before(text[n], q[i])
                     /\ \A j \in 1..Len(q) : j > i /\ q[j].tag = "sendall" => Before(q[i], q[j]))'
  BY DEF Pending
<1>2. /\ Truthful(q[i])
      /\ \A n \in 1..Len(text) : Before(text[n], q[i])
      /\ \A j \in 1..Len(q) : j > i /\ q[j].tag = "sendall" => Before(q[i], q[j])
  BY DEF Pending
<1>3. Truthful(q[i])'
  BY <1>1, <1>2 DEF Truthful
<1>4. \A n \in 1..Len(text') : Before(text'[n], q[i])
  BY <1>2
<1> QED
  BY <1>2, <1>3, <1>4 DEF Before

LEMMA NothingPending ==
  ASSUME NEW l, Len(l) \in Nat, \A i \in 1..Len(l) : l[i].tag # "sendall"
  PROVE  Pending(l)
BY DEF Pending

LEMMA PendingKept ==
  ASSUME TypeOK, TypeOK', [Next]_vars, TextsOwned, text' = text
  PROVE  Pending(toServer[Sender])'
<1>1. PICK s \in Seq(AllLines), t \in Seq(AllLines), n \in Nat :
        s = toServer[Sender] /\ t = toServer'[Sender] /\ n = Len(typed)
  <2>1. toServer'[Sender] \in Seq(AllLines)
    BY Two DEF TypeOK
  <2> QED
    BY <2>1, SenderLines
<1>2. SUFFICES Pending(t)'
  BY <1>1 DEF Pending, Truthful, Before
<1>3. \A q \in Seq(AllLines) : Pending(q) => Pending(q)'
  BY PendingStays
<1>4. Pending(s) /\ Len(s) \in Nat /\ Len(t) \in Nat /\ Len(<<>>) = 0
  BY <1>1 DEF TextsOwned
<1>5. CASE t = s
  BY <1>3, <1>4, <1>5
<1>6. CASE SenderConnects
  <2>1. Len(t) = 1 /\ t[1].tag = "slogin"
    BY <1>1, <1>6 DEF SenderConnects
  <2>2. \A i \in 1..Len(t) : t[i].tag # "sendall"
    <3>1. \A i \in 1..Len(t) : i = 1
      BY <2>1
    <3> QED
      BY <2>1, <3>1
  <2> QED
    BY <1>3, <1>4, <2>2, NothingPending
<1>7. CASE t = <<>>
  <2>1. \A i \in 1..Len(t) : t[i].tag # "sendall"
    BY <1>4, <1>7
  <2> QED
    BY <1>3, <1>4, <2>1, NothingPending
<1>8. CASE WorkerServes
  <2>1. s # <<>> /\ t = Tail(s)
    BY <1>1, <1>8 DEF WorkerServes, Serving
  <2> QED
    BY <1>3, <1>4, <2>1, PendingTail
<1>9. ASSUME NEW m \in AllLines, Puts(m), t # s, m.tag # "delivery",
             m.tag = "quit" \/ typed' = Append(typed, m)
      PROVE  Pending(t)'
  <2>1. up /\ conn[Sender] = "open" /\ w[Sender] # "done" /\ IsNext(m) /\ m.for = n + 1
    BY <1>1, <1>9 DEF Puts, IsNext
  <2>2. PICK k \in Nat, p \in Nat \ {0} :
          /\ k = Len(s) /\ p = Parts(m) /\ (TooLong(m) <=> p > 1)
          /\ Len(t) = k + p
          /\ \A i \in 1..k : t[i] = s[i]
          /\ \A i \in 1..p : t[k + i] = Lines(m)[i]
    <3>1. /\ Parts(m) \in Nat \ {0} /\ (TooLong(m) <=> Parts(m) > 1)
          /\ Len(t) = Len(s) + Parts(m)
          /\ \A i \in 1..Len(s) : t[i] = s[i]
          /\ \A i \in 1..Parts(m) : t[Len(s) + i] = Lines(m)[i]
      BY <1>1, <1>9, <2>1, PutsLines
    <3> QED
      BY <1>4, <3>1
  <2>3. ASSUME NEW i \in 1..Len(t), i > k
        PROVE  /\ t[i].for = n + 1 /\ t[i].part = i - k /\ t[i].text.of = m.text.of
               /\ t[i].tag = "sendall" => m.tag = "sendall"
    <3>1. PICK j \in 1..p : i = k + j
      <4>1. i - k \in 1..p /\ i = k + (i - k)
        BY <2>2, <2>3
      <4> QED
        BY <4>1
    <3>2. t[i] = Lines(m)[j] /\ j = i - k /\ j \in 1..Parts(m)
      BY <2>2, <3>1
    <3>3. m.part = 1
      BY <2>1 DEF IsNext
    <3>4. CASE j = 1
      <4>1. Lines(m)[1] = First(m)
        BY LinesType
      <4>2. First(m).tag = m.tag /\ First(m).for = m.for /\ First(m).part = m.part
            /\ First(m).text.of = m.text.of
        BY FirstType
      <4> QED
        BY <2>1, <3>2, <3>3, <3>4, <4>1, <4>2
    <3>5. CASE j # 1
      <4>1. TooLong(m) /\ j \in 2..Parts(m)
        BY <2>2, <3>1, <3>5
      <4>2. m.tag = "sendall"
        BY <1>9, <2>1, <4>1, RequestFits DEF IsNext
      <4>3. Lines(m)[j] = Rest(m, j)
        BY <4>1, LinesType
      <4>4. Rest(m, j).for = m.for /\ Rest(m, j).part = j /\ Rest(m, j).text.of = m.text.of
        BY <4>1, RestType
      <4> QED
        BY <2>1, <3>2, <4>2, <4>3, <4>4
    <3> QED
      BY <3>4, <3>5
  <2>4. Pending(s)'
    BY <1>3, <1>4
  <2>5. \A j \in 1..Len(text) : text[j].for <= n
    BY <1>1 DEF TextsOwned, Published, Truthful
  <2>6. \A i \in 1..k : s[i].tag = "sendall" => s[i].for <= n /\ s[i].for \in Nat
    BY <1>1, <1>4, <2>2 DEF Pending, Truthful
  <2>7. SUFFICES ASSUME NEW i \in 1..Len(t), t[i].tag = "sendall"
                 PROVE  (/\ Truthful(t[i])
                         /\ \A j \in 1..Len(text) : Before(text[j], t[i])
                         /\ \A j \in 1..Len(t) : j > i /\ t[j].tag = "sendall" => Before(t[i], t[j]))'
    BY DEF Pending
  <2>8. CASE i \in 1..k
    <3>1. t[i] = s[i] /\ s[i].tag = "sendall"
      BY <2>2, <2>7, <2>8
    <3>2. (/\ Truthful(s[i])
           /\ \A j \in 1..Len(text) : Before(text[j], s[i])
           /\ \A j \in 1..Len(s) : j > i /\ s[j].tag = "sendall" => Before(s[i], s[j]))'
      BY <2>2, <2>4, <2>8, <3>1 DEF Pending
    <3>3. ASSUME NEW j \in 1..Len(t), j > i, t[j].tag = "sendall" PROVE Before(t[i], t[j])
      <4>1. CASE j \in 1..k
        BY <2>2, <3>1, <3>2, <3>3, <4>1 DEF Before
      <4>2. CASE j > k
        <5>1. t[j].for = n + 1
          BY <2>3, <4>2
        <5>2. s[i].for <= n /\ s[i].for \in Nat
          BY <2>6, <2>8, <3>1
        <5> QED
          BY <3>1, <5>1, <5>2 DEF Before
      <4> QED
        BY <2>2, <4>1, <4>2
    <3> QED
      BY <3>1, <3>2, <3>3 DEF Before
  <2>9. CASE i > k
    <3>1. /\ m.tag = "sendall" /\ t[i].text.of = m.text.of /\ t[i].for = n + 1
          /\ t[i].part = i - k
      BY <2>3, <2>7, <2>9
    <3>2. Len(typed') = n + 1 /\ typed'[n + 1] = m
      <4>1. typed' = Append(typed, m) /\ typed \in Seq(AllLines)
        BY <1>9, <3>1, SenderLines
      <4> QED
        BY <1>1, <4>1, AppendProperties
    <3>3. Truthful(t[i])'
      BY <3>1, <3>2 DEF Truthful
    <3>4. \A j \in 1..Len(text') : Before(text'[j], t[i])
      <4>1. ASSUME NEW j \in 1..Len(text) PROVE text[j].for < n + 1
        <5>1. text[j].for <= n /\ text[j].for \in Nat
          BY <1>1, <2>5 DEF TextsOwned, Published, Truthful
        <5> QED
          BY <5>1
      <4> QED
        BY <3>1, <4>1 DEF Before
    <3>5. ASSUME NEW j \in 1..Len(t), j > i, t[j].tag = "sendall" PROVE Before(t[i], t[j])
      <4>1. t[j].for = n + 1 /\ t[j].part = j - k
        BY <2>2, <2>3, <2>9, <3>5
      <4>2. i - k < j - k
        BY <2>2, <3>5
      <4> QED
        BY <3>1, <4>1, <4>2 DEF Before
    <3> QED
      BY <3>3, <3>4, <3>5 DEF Before
  <2> QED
    BY <2>2, <2>8, <2>9
<1>10. CASE SenderTypes
  BY <1>5, <1>9, <1>10 DEF SenderTypes, Requests
<1>11. CASE SenderQuits
  BY <1>5, <1>9, <1>11 DEF SenderQuits
<1>12. CASE SenderPasses \/ SenderEnds \/ SenderTakes \/ SenderMisses \/ SenderReset
  <2>1. t = s \/ t = <<>>
    BY <1>1, <1>12 DEF SenderPasses, SenderEnds, SenderTakes, SenderMisses, SenderReset, LinesSame
  <2> QED
    BY <1>5, <1>7, <2>1
<1> QED
  BY <1>6, <1>8, <1>10, <1>11, <1>12, SenderEffect

LEMMA TextsKept ==
  ASSUME TypeOK, TypeOK', InOrder, [Next]_vars, TextsOwned
  PROVE  TextsOwned'
<1>1. CASE text' = text
  <2>1. /\ Len(typed) \in Nat /\ Len(typed') \in Nat /\ Len(typed) <= Len(typed')
        /\ \A i \in 1..Len(typed) : typed'[i] = typed[i]
    BY EffectTyped, TypedStays
  <2>2. Published'
    <3>1. ASSUME NEW n \in 1..Len(text') PROVE Truthful(text[n])'
      <4>1. Truthful(text[n])
        BY <1>1 DEF TextsOwned, Published
      <4> QED
        BY <1>1, <2>1, <4>1 DEF Truthful
    <3>2. \A i, j \in 1..Len(text') : i < j => Before(text'[i], text'[j])
      BY <1>1 DEF TextsOwned, Published
    <3> QED
      BY <1>1, <3>1, <3>2 DEF Published, Before
  <2> QED
    BY <1>1, <2>2, PendingKept DEF TextsOwned
<1>2. CASE WSendall
  <2>1. Takes(Sender, "recv", "recv") /\ Line1(Sender).tag = "sendall"
        /\ text' = Append(text, Shows(Line1(Sender)))
    BY <1>2 DEF WSendall
  <2>2. PICK s \in Seq(AllLines), l \in AllLines :
          /\ s = toServer[Sender] /\ s # <<>> /\ l = Line1(Sender) /\ l = s[1]
          /\ toServer'[Sender] = Tail(s)
    BY <2>1, Two, TakesEffect
  <2>3. typed' = typed
    BY <2>1 DEF Takes, history
  <2> DEFINE x == Shows(l)
  <2>4. /\ x \in ShownLines /\ x.text = l.text /\ x.for = l.for /\ x.part = l.part
        /\ text \in Seq(ShownLines)
        /\ text' = Append(text, x)
    BY <2>1, <2>2 DEF AllLines, TypeOK, Shows, ShownLines
  <2> HIDE DEF x
  <2>5. /\ Len(text) \in Nat /\ Len(text') = Len(text) + 1 /\ text'[Len(text) + 1] = x
        /\ \A n \in 1..Len(text) : text'[n] = text[n]
    BY <2>4, AppendProperties
  <2>6. /\ Len(s) \in Nat \ {0} /\ 1 \in 1..Len(s) /\ Len(Tail(s)) = Len(s) - 1
        /\ \A i \in 1..(Len(s) - 1) : Tail(s)[i] = s[i + 1]
    BY <2>2, TailType
  <2>7. /\ Truthful(l) /\ \A n \in 1..Len(text) : Before(text[n], l)
        /\ \A j \in 1..Len(s) : j > 1 /\ s[j].tag = "sendall" => Before(l, s[j])
    BY <2>1, <2>2, <2>6 DEF TextsOwned, Pending
  <2>8. ASSUME NEW n \in 1..Len(text')
        PROVE  (n \in 1..Len(text) /\ text'[n] = text[n]) \/ (n = Len(text) + 1 /\ text'[n] = x)
    BY <2>5
  <2>9. Truthful(x)'
    BY <2>3, <2>4, <2>7 DEF Truthful
  <2>10. \A n \in 1..Len(text') : Truthful(text'[n])
    BY <2>3, <2>4, <2>7, <2>8 DEF TextsOwned, Published, Truthful
  <2>11. \A n \in 1..Len(text') : text'[n].for \in 1..Len(typed') /\ typed'[text'[n].for].tag = "sendall"
             /\ text'[n].text.of = typed'[text'[n].for].text.of
    BY <2>3, <2>10 DEF Truthful
  <2>12. \A i, j \in 1..Len(text') : i < j => Before(text'[i], text'[j])
    <3> SUFFICES ASSUME NEW i \in 1..Len(text'), NEW j \in 1..Len(text'), i < j
                 PROVE  Before(text'[i], text'[j])
      OBVIOUS
    <3>1. i \in 1..Len(text) /\ text'[i] = text[i]
      BY <2>5, <2>8
    <3>2. CASE j \in 1..Len(text) /\ text'[j] = text[j]
      BY <3>1, <3>2 DEF TextsOwned, Published
    <3>3. CASE text'[j] = x
      BY <2>4, <2>7, <3>1, <3>3 DEF Before
    <3> QED
      BY <2>8, <3>2, <3>3
  <2>13. Published'
    BY <2>11, <2>12 DEF Published, Truthful, Before
  <2>14. PICK t \in Seq(AllLines) : t = Tail(s)
    BY <2>2, TailType
  <2>15. Pending(t)
    BY <2>2, <2>14, PendingTail DEF TextsOwned
  <2>16. Pending(t)'
    <3> SUFFICES ASSUME NEW i \in 1..Len(t), t[i].tag = "sendall"
                 PROVE  (/\ Truthful(t[i])
                         /\ \A n \in 1..Len(text) : Before(text[n], t[i])
                         /\ \A j \in 1..Len(t) : j > i /\ t[j].tag = "sendall" => Before(t[i], t[j]))'
      BY DEF Pending
    <3>1. /\ Truthful(t[i])
          /\ \A n \in 1..Len(text) : Before(text[n], t[i])
          /\ \A j \in 1..Len(t) : j > i /\ t[j].tag = "sendall" => Before(t[i], t[j])
      BY <2>15 DEF Pending
    <3>2. Before(x, t[i])
      <4>1. i + 1 \in 1..Len(s) /\ t[i] = s[i + 1] /\ i + 1 > 1
        BY <2>6, <2>14
      <4> QED
        BY <2>4, <2>7, <4>1 DEF Before
    <3>3. \A n \in 1..Len(text') : Before(text'[n], t[i])
      BY <2>8, <3>1, <3>2
    <3>4. Truthful(t[i])'
      BY <2>3, <3>1 DEF Truthful
    <3> QED
      BY <3>1, <3>3, <3>4 DEF Before
  <2>17. Pending(toServer[Sender])'
    <3>1. toServer'[Sender] = t
      BY <2>2, <2>14
    <3> QED
      BY <2>16, <3>1 DEF Pending, Truthful, Before
  <2> QED
    BY <2>13, <2>17 DEF TextsOwned
<1>3. CASE RWSend
  BY <1>1, <1>3 DEF RWSend
<1> QED
  BY <1>1, <1>2, <1>3, ChatAlone
-----------------------------------------------------------------------------
(* What x, a part of the delivery of t that reads as a delivery, shows of it.   *)
Cuts(t, x) ==
  \/ x.part = 1 /\ x.text = Shown(t)
  \/ /\ x.part > 1 /\ Reads[t.of][CutAt(t, x.part)].tag = "delivery"
     /\ x.text.of = t.of
     /\ x.text.from = CutAt(t, x.part) + Reads[t.of][CutAt(t, x.part)].skip

\* x is of a delivery in d, of one of the texts s.
Right(d, s, x) == x.for \in 1..Len(d) /\ Cuts(s[d[x.for].n].text, x)

\* Of the lines that follow one another b may be read after a, and printed after it.
Follows(a, b) == \/ b.part = 1 /\ b.for = a.for + 1
                 \/ b.for = a.for /\ b.part = a.part + 1

Ahead(a, b) == \/ b.part = 1 /\ b.for = a.for + 1
               \/ b.for = a.for /\ a.part < b.part

Turn(a, b) == \/ b.part = 1 /\ b.for = a.for + 1
              \/ b.part > 1 /\ b.for = a.for /\ a.part < b.part

InTurn(p) == \A k \in 1..Len(p) : Turn(IF k = 1 THEN NoReply ELSE p[k - 1], p[k])

LastShown(p) == IF p = <<>> THEN NoReply ELSE p[Len(p)]

\* The lines q come after a without a gap among them.
Ordered(q, a) ==
  /\ \A i \in 1..Len(q) : q[i].part = 1 /\ q[i].for > 0 => q[i].tag = "delivery"
  /\ \A i \in 1..(Len(q) - 1) : Follows(q[i], q[i + 1])
  /\ q # <<>> => Ahead(a, q[1])

Reached(q, a) == IF q = <<>> THEN a.for ELSE q[Len(q)].for

(* What is printed is right, and what will be read is all that was delivered.  *)
Screen ==
  /\ \A k \in 1..Len(printed) : Right(delivered[Receiver], text, printed[k])
  /\ InTurn(printed)
  /\ ~Ended(Receiver) =>
       /\ \A i \in 1..Len(toClient[Receiver]) :
            toClient[Receiver][i].tag = "delivery" =>
              Right(delivered[Receiver], text, toClient[Receiver][i])
       /\ Ordered(toClient[Receiver], LastShown(printed))
       /\ conn[Receiver] = "open" =>
            Len(delivered[Receiver]) = Reached(toClient[Receiver], LastShown(printed))
-----------------------------------------------------------------------------
LEMMA LastShownType ==
  ASSUME NEW p \in Seq(ShownLines), InTurn(p)
  PROVE  /\ LastShown(p).for \in Nat /\ LastShown(p).part \in Nat
         /\ LastShown(p).part = 0 => LastShown(p).for = 0
<1>1. CASE p = <<>>
  BY <1>1 DEF LastShown, NoReply
<1>2. CASE p # <<>>
  <2>1. Len(p) \in 1..Len(p) /\ p[Len(p)] \in ShownLines
    BY <1>2
  <2>2. LastShown(p) = p[Len(p)] /\ p[Len(p)].part # 0
    BY <1>2, <2>1 DEF LastShown, InTurn, Turn
  <2> QED
    BY <2>1, <2>2 DEF ShownLines
<1> QED
  BY <1>1, <1>2

LEMMA InTurnAppend ==
  ASSUME NEW p \in Seq(ShownLines), InTurn(p), NEW x \in ShownLines, Turn(LastShown(p), x)
  PROVE  InTurn(Append(p, x)) /\ LastShown(Append(p, x)) = x
<1>1. PICK n \in Nat : n = Len(p)
  OBVIOUS
<1>2. PICK r : r = Append(p, x)
  OBVIOUS
<1>3. /\ r \in Seq(ShownLines) /\ Len(r) = n + 1 /\ r[n + 1] = x
      /\ \A k \in 1..n : r[k] = p[k]
  BY <1>1, <1>2, AppendProperties
<1>4. r # <<>>
  BY <1>3
<1>5. LastShown(r) = x
  BY <1>3, <1>4 DEF LastShown
<1>6. ASSUME NEW k \in 1..(n + 1) PROVE Turn(IF k = 1 THEN NoReply ELSE r[k - 1], r[k])
  <2>1. CASE k \in 1..n
    <3>1. r[k] = p[k] /\ (k # 1 => r[k - 1] = p[k - 1])
      BY <1>3, <2>1
    <3> QED
      BY <1>1, <2>1, <3>1 DEF InTurn
  <2>2. CASE k = n + 1
    <3>1. CASE n = 0
      <4>1. Len(p) = 0 /\ k = 1
        BY <1>1, <2>2, <3>1
      <4>2. p = <<>>
        BY <4>1, EmptySeq
      <4> QED
        BY <1>3, <2>2, <3>1, <4>1, <4>2 DEF LastShown
    <3>2. CASE n # 0
      <4>1. p # <<>> /\ k # 1 /\ r[k - 1] = p[Len(p)]
        BY <1>1, <1>3, <2>2, <3>2
      <4> QED
        BY <1>3, <2>2, <4>1 DEF LastShown
    <3> QED
      BY <3>1, <3>2
  <2> QED
    BY <2>1, <2>2
<1> QED
  BY <1>2, <1>3, <1>5, <1>6 DEF InTurn

LEMMA OrderedEmpty ==
  ASSUME NEW a
  PROVE  Ordered(<<>>, a) /\ Reached(<<>>, a) = a.for
<1>1. Len(<<>>) = 0
  OBVIOUS
<1> QED
  BY <1>1 DEF Ordered, Reached

(* The first line is taken: what comes then is after it, and, when it is none  *)
(* that is printed, also after what was printed before.                        *)
LEMMA OrderedTail ==
  ASSUME NEW q \in Seq(AllLines), q # <<>>, NEW a, a.for \in Nat, a.part \in Nat,
         Ordered(q, a)
  PROVE  /\ \A b : b.for = q[1].for /\ b.part = q[1].part =>
              Ordered(Tail(q), b) /\ Reached(Tail(q), b) = Reached(q, a)
         /\ q[1].tag # "delivery" =>
              Ordered(Tail(q), a) /\ Reached(Tail(q), a) = Reached(q, a)
         /\ Ahead(a, q[1])
<1>1. PICK n \in Nat \ {0}, r \in Seq(AllLines) :
        /\ n = Len(q) /\ r = Tail(q) /\ Len(r) = n - 1 /\ q[1] \in AllLines
        /\ \A i \in 1..(n - 1) : r[i] = q[i + 1]
  <2>1. /\ Head(q) \in AllLines /\ q[1] = Head(q)
        /\ Tail(q) \in Seq(AllLines) /\ Len(q) \in Nat \ {0} /\ Len(Tail(q)) = Len(q) - 1
        /\ \A i \in 1..(Len(q) - 1) : Tail(q)[i] = q[i + 1]
    BY TailType
  <2> QED
    BY ONLY <2>1
<1>2. q[1].for \in Nat /\ q[1].part \in Nat /\ Ahead(a, q[1])
  BY <1>1 DEF AllLines, Ordered
<1>3. \A i \in 1..(n - 1) : i + 1 \in 1..n
  OBVIOUS
<1>4. \A i \in 1..Len(r) : r[i].part = 1 /\ r[i].for > 0 => r[i].tag = "delivery"
  BY <1>1, <1>3 DEF Ordered
<1>5. ASSUME NEW i \in 1..(Len(r) - 1) PROVE Follows(r[i], r[i + 1])
  <2>1. i \in 1..(n - 1) /\ i + 1 \in 1..(n - 1)
    BY <1>1
  <2> QED
    BY <1>1, <2>1 DEF Ordered
<1>6. ASSUME NEW b, b.for = q[1].for \/ n > 1, n > 1 => Ahead(b, q[2])
      PROVE  Ordered(r, b) /\ Reached(r, b) = Reached(q, a)
  <2>1. CASE n = 1
    <3>1. r = <<>>
      BY <1>1, <2>1, EmptySeq
    <3>2. Reached(q, a) = q[1].for
      BY <1>1, <2>1 DEF Reached
    <3> QED
      BY <1>6, <2>1, <3>1, <3>2, OrderedEmpty
  <2>2. CASE n > 1
    <3>1. r # <<>> /\ r[1] = q[2] /\ r[n - 1] = q[n]
      <4>1. 1 \in 1..(n - 1) /\ n - 1 \in 1..(n - 1) /\ 1 + 1 = 2 /\ (n - 1) + 1 = n
        BY <2>2
      <4>2. r[1] = q[1 + 1] /\ r[n - 1] = q[(n - 1) + 1]
        BY <1>1, <4>1
      <4>3. Len(r) # 0 /\ Len(<<>>) = 0
        BY <1>1, <4>1
      <4> QED
        BY <4>1, <4>2, <4>3
    <3>2. Reached(r, b) = Reached(q, a)
      BY <1>1, <3>1 DEF Reached
    <3>3. Ordered(r, b)
      BY <1>4, <1>5, <1>6, <2>2, <3>1 DEF Ordered
    <3> QED
      BY <3>2, <3>3
  <2> QED
    BY <2>1, <2>2
<1>7. ASSUME n > 1
      PROVE  Follows(q[1], q[2]) /\ q[2].for \in Nat /\ q[2].part \in Nat
  <2>1. 1 \in 1..(n - 1) /\ 2 \in 1..n
    BY <1>7
  <2>2. q[2] \in AllLines
    BY <1>1, <2>1
  <2> QED
    BY <1>1, <2>1, <2>2 DEF AllLines, Ordered
<1>8. ASSUME NEW b, b.for = q[1].for, b.part = q[1].part
      PROVE  Ordered(r, b) /\ Reached(r, b) = Reached(q, a)
  <2>1. n > 1 => Ahead(b, q[2])
    BY <1>2, <1>7, <1>8 DEF Follows, Ahead
  <2> QED
    BY <1>6, <1>8, <2>1
<1>9. ASSUME q[1].tag # "delivery"
      PROVE  Ordered(r, a) /\ Reached(r, a) = Reached(q, a)
  <2>1. q[1].for = a.for /\ a.part < q[1].part
    <3>1. ~(q[1].part = 1 /\ q[1].for > 0)
      BY <1>1, <1>9 DEF Ordered
    <3> QED
      BY <1>2, <3>1 DEF Ahead
  <2>2. n > 1 => Ahead(a, q[2])
    BY <1>2, <1>7, <2>1 DEF Follows, Ahead
  <2> QED
    BY <1>6, <2>1, <2>2
<1> QED
  BY <1>1, <1>2, <1>8, <1>9

LEMMA OrderedConcat ==
  ASSUME NEW q \in Seq(AllLines), NEW l \in Seq(AllLines), NEW a, NEW z,
         Ordered(q, a), Ordered(l, z), l # <<>>,
         IF q = <<>> THEN Ahead(a, l[1]) ELSE Follows(q[Len(q)], l[1])
  PROVE  Ordered(q \o l, a) /\ Reached(q \o l, a) = l[Len(l)].for
<1>1. PICK n \in Nat, p \in Nat \ {0}, r \in Seq(AllLines) : n = Len(q) /\ p = Len(l) /\ r = q \o l
  <2>1. Len(q) \in Nat /\ Len(l) \in Nat
    OBVIOUS
  <2>2. Len(l) # 0
    BY EmptySeq
  <2>3. q \o l \in Seq(AllLines)
    BY ConcatProperties
  <2> QED
    BY <2>1, <2>2, <2>3
<1>2. /\ r \in Seq(AllLines) /\ Len(r) = n + p
      /\ \A i \in 1..(n + p) : r[i] = IF i <= n THEN q[i] ELSE l[i - n]
  BY <1>1, ConcatProperties
<1>3. \A i \in 1..n : r[i] = q[i]
  BY <1>2
<1>4. ASSUME NEW j \in 1..p PROVE r[n + j] = l[j]
  <2>1. n + j \in 1..(n + p) /\ ~(n + j <= n) /\ (n + j) - n = j
    OBVIOUS
  <2> QED
    BY <1>2, <2>1
<1>5. ASSUME NEW i \in 1..(n + p)
      PROVE  i \in 1..n \/ \E j \in 1..p : i = n + j
  <2>1. i > n => i - n \in 1..p /\ i = n + (i - n)
    OBVIOUS
  <2> QED
    BY <2>1
<1>6. ASSUME NEW i \in 1..(n + p), r[i].part = 1, r[i].for > 0 PROVE r[i].tag = "delivery"
  <2>1. CASE i \in 1..n
    BY <1>1, <1>3, <1>6, <2>1 DEF Ordered
  <2>2. ASSUME NEW j \in 1..p, i = n + j PROVE r[i].tag = "delivery"
    BY <1>1, <1>4, <1>6, <2>2 DEF Ordered
  <2> QED
    BY <1>5, <2>1, <2>2
<1>7. ASSUME NEW i \in 1..(n + p - 1) PROVE Follows(r[i], r[i + 1])
  <2>1. CASE i + 1 \in 1..n
    <3>1. i \in 1..(n - 1) /\ r[i] = q[i] /\ r[i + 1] = q[i + 1]
      BY <1>3, <2>1
    <3> QED
      BY <1>1, <3>1 DEF Ordered
  <2>2. CASE i = n
    <3>1. r[i] = q[n] /\ r[i + 1] = l[1] /\ q # <<>>
      <4>1. n # 0 /\ 1 \in 1..p
        BY <2>2
      <4>2. r[n + 1] = l[1]
        BY <1>4, <4>1
      <4> QED
        BY <1>1, <1>3, <2>2, <4>1, <4>2
    <3> QED
      BY <1>1, <3>1
  <2>3. CASE i > n
    <3>1. PICK j \in 1..p : i = n + j
      BY <1>5, <2>3
    <3>2. j + 1 \in 1..p /\ j \in 1..(p - 1) /\ i + 1 = n + (j + 1)
      BY <3>1
    <3>3. r[i] = l[j] /\ r[i + 1] = l[j + 1]
      BY <1>4, <3>1, <3>2
    <3> QED
      BY <1>1, <3>2, <3>3 DEF Ordered
  <2> QED
    BY <2>1, <2>2, <2>3
<1>8. r # <<>> /\ Ahead(a, r[1])
  <2>1. CASE q = <<>>
    <3>1. n = 0 /\ 1 \in 1..p
      BY <1>1, <2>1
    <3>2. r[0 + 1] = l[1]
      BY <1>4, <3>1
    <3> QED
      BY <1>2, <2>1, <3>1, <3>2
  <2>2. CASE q # <<>>
    <3>1. 1 \in 1..n
      BY <1>1, <2>2
    <3> QED
      BY <1>2, <1>3, <2>2, <3>1 DEF Ordered
  <2> QED
    BY <2>1, <2>2
<1>9. Ordered(r, a)
  BY <1>2, <1>6, <1>7, <1>8 DEF Ordered
<1>10. Reached(r, a) = l[p].for
  <2>1. p \in 1..p
    OBVIOUS
  <2>2. r[n + p] = l[p]
    BY <1>4, <2>1
  <2> QED
    BY <1>2, <1>8, <2>2 DEF Reached
<1> QED
  BY <1>1, <1>9, <1>10
-----------------------------------------------------------------------------
(* The parts of a delivery: what each shows, if it reads as a delivery.        *)
LEMMA DeliveryParts ==
  ASSUME NEW m \in AllLines, m.tag = "delivery", m.part = 1, NEW i \in 1..Parts(m),
         NEW x, x = Lines(m)[i]
  PROVE  /\ x \in AllLines /\ x.for = m.for /\ x.part = i
         /\ i = 1 => x.tag = "delivery"
         /\ x.tag = "delivery" => Cuts(m.text, x)
<1>1. /\ Header(m.tag) = 11 + NamesLen /\ NamesLen \in Nat /\ MAX_LEN \in Nat
      /\ Length(m) = Header(m.tag) + m.text.len + 1 /\ m.text.len \in Nat
      /\ Place = MAX_LEN - 1 /\ m.text.from \in Nat /\ Parts(m) \in Nat \ {0}
  BY LengthType, PartsType, SessionAssumption DEF Place, AllLines, TextLines
<1>2. CASE i = 1
  <2>1. x = First(m)
    BY <1>2, LinesType
  <2>2. /\ x \in AllLines /\ x.tag = m.tag /\ x.for = m.for /\ x.part = m.part
        /\ x.text = [m.text EXCEPT !.len = IF Length(m) <= Place THEN @
                                           ELSE Place - Header(m.tag)]
    BY <2>1, FirstType
  <2>3. /\ Length(m) <= Place <=> ~(12 + NamesLen + m.text.len >= MAX_LEN)
        /\ Place - Header(m.tag) = MAX_LEN - NamesLen - 12
    BY <1>1
  <2>4. x.text = Shown(m.text)
    BY <2>2, <2>3 DEF Shown
  <2> QED
    BY <1>2, <2>2, <2>4 DEF Cuts
<1>3. CASE i # 1
  <2>0. i > 1
    <3>1. PICK n \in Nat : n = Parts(m)
      BY <1>1
    <3>2. i \in 1..n
      BY <3>1
    <3> QED
      BY <1>3, <3>2
  <2>1. i \in 2..Parts(m)
    BY <1>1, <1>3
  <2>2. x = Rest(m, i)
    BY <2>1, LinesType
  <2>3. /\ x \in AllLines /\ x.for = m.for /\ x.part = i
        /\ x.text.of = m.text.of
        /\ x.tag # "" => /\ x.tag = Reads[m.text.of][Cut(m, i)].tag
                         /\ x.text.from = Cut(m, i) + Reads[m.text.of][Cut(m, i)].skip
    <3>1. /\ Rest(m, i) \in AllLines
          /\ Rest(m, i).for = m.for /\ Rest(m, i).part = i
          /\ Rest(m, i).text.of = m.text.of
          /\ Rest(m, i).tag # "" =>
               /\ Rest(m, i).tag = Reads[m.text.of][Cut(m, i)].tag
               /\ Rest(m, i).text.from = Cut(m, i) + Reads[m.text.of][Cut(m, i)].skip
      BY ONLY <2>1, m \in AllLines, RestType
    <3> QED
      BY ONLY <2>2, <3>1
  <2>4. Cut(m, i) = CutAt(m.text, i)
    <3>1. PICK e \in Int : e = (i - 1) * Place
      <4>1. i - 1 \in Int /\ Place \in Int
        BY <1>1, <2>1
      <4> QED
        BY <4>1
    <3>2. e = (i - 1) * (MAX_LEN - 1)
      BY <1>1, <3>1
    <3>3. Cut(m, i) = m.text.from + (e - (11 + NamesLen))
      BY <1>1, <3>1 DEF Cut
    <3>4. CutAt(m.text, i) = m.text.from + e - (NamesLen + 11)
      BY <3>2 DEF CutAt
    <3> QED
      BY <1>1, <3>1, <3>3, <3>4
  <2>5. ASSUME x.tag = "delivery" PROVE Cuts(m.text, x)
    <3>1. x.part > 1
      BY <2>0, <2>3
    <3> QED
      BY <2>3, <2>4, <2>5, <3>1 DEF Cuts
  <2> QED
    BY <1>3, <2>3, <2>5
<1> QED
  BY <1>2, <1>3

LEMMA DeliveryLines ==
  ASSUME NEW m \in AllLines, m.tag = "delivery", m.part = 1, NEW n \in Nat, m.for = n + 1
  PROVE  /\ Lines(m) \in Seq(AllLines) /\ Lines(m) # <<>>
         /\ Ordered(Lines(m), [for |-> n, part |-> 1])
         /\ Lines(m)[1].for = n + 1 /\ Lines(m)[1].part = 1
         /\ Lines(m)[Len(Lines(m))].for = n + 1
<1>1. PICK l \in Seq(AllLines), p \in Nat \ {0} :
        l = Lines(m) /\ p = Parts(m) /\ Len(l) = p
  BY LinesType
<1>2. ASSUME NEW i \in 1..p
      PROVE  l[i].for = n + 1 /\ l[i].part = i /\ (i = 1 => l[i].tag = "delivery")
  BY <1>1, DeliveryParts
<1>3. /\ 1 \in 1..p /\ p \in 1..p /\ l # <<>>
  BY <1>1
<1>4. \A i \in 1..(p - 1) : Follows(l[i], l[i + 1])
  <2> SUFFICES ASSUME NEW i \in 1..(p - 1) PROVE Follows(l[i], l[i + 1])
    OBVIOUS
  <2>1. i \in 1..p /\ i + 1 \in 1..p
    OBVIOUS
  <2> QED
    BY <1>2, <2>1 DEF Follows
<1>5. Ahead([for |-> n, part |-> 1], l[1])
  BY <1>2, <1>3 DEF Ahead
<1>6. Ordered(l, [for |-> n, part |-> 1])
  BY <1>1, <1>2, <1>4, <1>5 DEF Ordered
<1> QED
  BY <1>1, <1>2, <1>3, <1>6

(* What was delivered, and its text, stays.                                    *)
LEMMA RightStays ==
  ASSUME TypeOK, TypeOK', InOrder, [Next]_vars
  PROVE  \A x : Right(delivered[Receiver], text, x) =>
                  Right(delivered'[Receiver], text', x)
<1>0. PICK d, e, s, u : /\ d = delivered[Receiver] /\ e = delivered'[Receiver]
                        /\ s = text /\ u = text'
  OBVIOUS
<1>1. d \in Seq(ChatMessages) /\ Len(d) \in Nat
      /\ \A k \in 1..Len(d) : d[k].n \in 1..Len(s)
  BY <1>0, ReceiverLines DEF InOrder
<1>2. Len(e) \in Nat /\ Len(d) <= Len(e) /\ \A k \in 1..Len(d) : e[k] = d[k]
  <2>1. CASE e = d
    BY <1>1, <2>1
  <2>2. CASE RWSend
    <3>1. /\ feed[Receiver] # <<>> /\ feed[Receiver] \in Seq(ChatMessages)
          /\ e = Append(d, Head(feed[Receiver]))
      BY <1>0, <2>2, DeliverEffect DEF RWSend
    <3>2. Head(feed[Receiver]) \in ChatMessages
      BY <3>1, TailType
    <3> QED
      BY <1>1, <3>1, <3>2, AppendProperties
  <2>3. CASE WSendall
    BY <1>0, <2>1, <2>3, PublishEffect DEF WSendall
  <2> QED
    BY <1>0, <2>1, <2>2, <2>3, ChatAlone
<1>3. \A n \in 1..Len(s) : u[n] = s[n]
  <2>1. s \in Seq(ShownLines) /\ u \in Seq(ShownLines)
    BY <1>0 DEF TypeOK
  <2>2. CASE WSendall
    <3>1. PICK x : u = Append(s, x)
      BY <1>0, <2>2 DEF WSendall
    <3> QED
      BY <2>1, <3>1, AppendProperties
  <2>3. CASE RWSend
    BY <1>0, <2>3 DEF RWSend
  <2> QED
    BY <1>0, <2>2, <2>3, ChatAlone
<1>4. ASSUME NEW x, Right(d, s, x) PROVE Right(e, u, x)
  <2>1. x.for \in 1..Len(d) /\ Cuts(s[d[x.for].n].text, x)
    BY <1>4 DEF Right
  <2>2. x.for \in 1..Len(e) /\ e[x.for] = d[x.for] /\ u[d[x.for].n] = s[d[x.for].n]
    BY <1>1, <1>2, <1>3, <2>1
  <2> QED
    BY <2>1, <2>2 DEF Right
<1> QED
  BY <1>0, <1>4

(* A line that is printed is the next in turn.                                 *)
LEMMA NextInTurn ==
  ASSUME NEW p \in Seq(ShownLines), InTurn(p), NEW x \in AllLines, x.for > 0,
         Ahead(LastShown(p), x)
  PROVE  Turn(LastShown(p), Shows(x))
<1>1. /\ LastShown(p).for \in Nat /\ LastShown(p).part \in Nat
      /\ LastShown(p).part = 0 => LastShown(p).for = 0
  BY LastShownType
<1>2. Shows(x).for = x.for /\ Shows(x).part = x.part /\ x.for \in Nat /\ x.part \in Nat
  BY DEF Shows, AllLines
<1> QED
  BY <1>1, <1>2 DEF Ahead, Turn

LEMMA ScreenKept ==
  ASSUME TypeOK, TypeOK', InOrder, ReceiverPhase, Screen, [Next]_vars
  PROVE  Screen'
<1>1. PICK p \in Seq(ShownLines), r \in Seq(ShownLines), q \in Seq(AllLines),
           t \in Seq(AllLines), d \in Seq(ChatMessages), e \in Seq(ChatMessages),
           s \in Seq(ShownLines), u \in Seq(ShownLines) :
        /\ p = printed /\ r = printed' /\ q = toClient[Receiver] /\ t = toClient'[Receiver]
        /\ d = delivered[Receiver] /\ e = delivered'[Receiver] /\ s = text /\ u = text'
  <2>1. /\ printed' \in Seq(ShownLines) /\ toClient'[Receiver] \in Seq(AllLines)
        /\ delivered'[Receiver] \in Seq(ChatMessages)
        /\ text \in Seq(ShownLines) /\ text' \in Seq(ShownLines)
    BY Two DEF TypeOK
  <2> QED
    BY <2>1, ReceiverLines
<1>2. /\ \A k \in 1..Len(p) : Right(d, s, p[k])
      /\ InTurn(p)
      /\ ~Ended(Receiver) =>
           /\ \A i \in 1..Len(q) : q[i].tag = "delivery" => Right(d, s, q[i])
           /\ Ordered(q, LastShown(p))
           /\ conn[Receiver] = "open" => Len(d) = Reached(q, LastShown(p))
  BY <1>1 DEF Screen
<1>3. \A x : Right(d, s, x) => Right(e, u, x)
  BY <1>1, RightStays
<1>4. SUFFICES /\ \A k \in 1..Len(r) : Right(e, u, r[k])
               /\ InTurn(r)
               /\ ~Ended(Receiver)' =>
                    /\ \A i \in 1..Len(t) : t[i].tag = "delivery" => Right(e, u, t[i])
                    /\ Ordered(t, LastShown(r))
                    /\ conn'[Receiver] = "open" => Len(e) = Reached(t, LastShown(r))
  BY <1>1 DEF Screen
<1>5. /\ LastShown(p).for \in Nat /\ LastShown(p).part \in Nat
      /\ Len(p) \in Nat /\ Len(q) \in Nat /\ Len(t) \in Nat /\ Len(d) \in Nat /\ Len(<<>>) = 0
  BY <1>2, LastShownType
<1>6. r = p => (\A k \in 1..Len(r) : Right(e, u, r[k])) /\ InTurn(r)
  BY <1>2, <1>3
<1>7. \A i \in 1..Len(q) : ~Ended(Receiver) /\ q[i].tag = "delivery" => Right(e, u, q[i])
  BY <1>2, <1>3
\* The first line of q is taken.
<1>8. ASSUME q # <<>>, t = Tail(q), ~Ended(Receiver)
      PROVE  /\ \A i \in 1..Len(t) : t[i].tag = "delivery" => Right(e, u, t[i])
             /\ q[1].tag = "delivery" => Right(d, s, q[1])
             /\ \A b : b.for = q[1].for /\ b.part = q[1].part =>
                  Ordered(t, b) /\ Reached(t, b) = Reached(q, LastShown(p))
             /\ q[1].tag # "delivery" =>
                  Ordered(t, LastShown(p)) /\ Reached(t, LastShown(p)) = Reached(q, LastShown(p))
             /\ Ahead(LastShown(p), q[1]) /\ q[1] \in AllLines
  <2>1. /\ q[1] \in AllLines /\ Len(q) \in Nat \ {0} /\ Len(t) = Len(q) - 1
        /\ \A i \in 1..(Len(q) - 1) : t[i] = q[i + 1]
    <3>1. /\ Head(q) \in AllLines /\ Head(q) = q[1]
          /\ Len(q) \in Nat \ {0} /\ Len(Tail(q)) = Len(q) - 1
          /\ \A i \in 1..(Len(q) - 1) : Tail(q)[i] = q[i + 1]
      BY ONLY <1>8, q \in Seq(AllLines), TailType
    <3> QED
      BY ONLY <1>8, <3>1
  <2>2. ASSUME NEW i \in 1..Len(t), t[i].tag = "delivery" PROVE Right(e, u, t[i])
    <3>1. i + 1 \in 1..Len(q) /\ t[i] = q[i + 1]
      BY <2>1
    <3> QED
      BY <1>7, <1>8, <2>2, <3>1
  <2>3. q[1].tag = "delivery" => Right(d, s, q[1])
    <3>1. 1 \in 1..Len(q)
      BY <2>1
    <3> QED
      BY <1>2, <1>8, <3>1
  <2>4. Ordered(q, LastShown(p))
    BY <1>2, <1>8
  <2> QED
    BY <1>5, <1>8, <2>1, <2>2, <2>3, <2>4, OrderedTail
<1>11. CASE ReceiverPasses
  <2>1. r = p /\ t = q /\ e = d /\ conn'[Receiver] = conn[Receiver]
    BY <1>1, <1>11 DEF ReceiverPasses, ShownSame
  <2>2. ~Ended(Receiver)' => ~Ended(Receiver)
    BY <1>11 DEF ReceiverPasses, Ended, ShowPlaces
  <2> QED
    BY <1>2, <1>6, <1>7, <2>1, <2>2
<1>12. CASE ReceiverEnds
  <2>1. r = p /\ Ended(Receiver)'
    BY <1>1, <1>12 DEF ReceiverEnds, ShownSame, Ended
  <2> QED
    BY <1>6, <2>1
<1>13. CASE ReceiverConnects
  <2>1. r = p /\ t = q /\ e = d /\ p = <<>> /\ q = <<>> /\ d = <<>>
    BY <1>1, <1>13 DEF ReceiverConnects, ShownSame, ReceiverPhase
  <2>2. Ordered(t, LastShown(r)) /\ Reached(t, LastShown(r)) = Len(e)
    <3>1. LastShown(r) = NoReply
      BY <2>1 DEF LastShown
    <3> QED
      BY <1>5, <2>1, <3>1, OrderedEmpty DEF NoReply
  <2>3. \A i \in 1..Len(t) : FALSE
    BY <1>5, <2>1
  <2> QED
    BY <1>6, <2>1, <2>2, <2>3
<1>14. CASE ReceiverAnswered
  <2>1. /\ r = p /\ q # <<>> /\ t = Tail(q) /\ e = d /\ q[1].tag # "delivery"
        /\ conn'[Receiver] = conn[Receiver] /\ ~Ended(Receiver)
    BY <1>1, <1>14 DEF ReceiverAnswered, ShownSame, ReceiverPhase, Ended
  <2> QED
    BY <1>2, <1>6, <1>8, <2>1
<1>15. CASE ReceiverPrints
  <2>1. /\ q # <<>> /\ t = Tail(q) /\ e = d
        /\ conn'[Receiver] = conn[Receiver] /\ ~Ended(Receiver)
        /\ r = IF q[1].tag = "delivery" THEN Append(p, Shows(q[1])) ELSE p
    BY <1>1, <1>15 DEF ReceiverPrints, Ended
  <2>2. CASE q[1].tag # "delivery"
    BY <1>2, <1>6, <1>8, <2>1, <2>2
  <2>3. CASE q[1].tag = "delivery"
    <3>1. PICK x \in AllLines, y \in ShownLines : x = q[1] /\ y = Shows(x)
      <4>1. q[1] \in AllLines /\ Shows(q[1]) \in ShownLines
        BY <1>8, <2>1 DEF Shows, ShownLines, AllLines
      <4> QED
        BY <4>1
    <3>2. r = Append(p, y) /\ y.for = x.for /\ y.part = x.part /\ y.text = x.text
      BY <2>1, <2>3, <3>1 DEF Shows
    <3>3. Right(d, s, x)
      BY <1>8, <2>1, <2>3, <3>1
    <3>4. Right(d, s, y)
      BY <3>2, <3>3 DEF Right, Cuts
    <3>5. Turn(LastShown(p), y)
      <4>1. x.for > 0
        BY <1>5, <3>3 DEF Right
      <4>2. Ahead(LastShown(p), x)
        BY <1>8, <2>1, <3>1
      <4> QED
        BY <1>2, <3>1, <4>1, <4>2, NextInTurn
    <3>6. InTurn(r) /\ LastShown(r) = y
      BY <1>2, <3>2, <3>5, InTurnAppend
    <3>7. \A k \in 1..Len(r) : Right(e, u, r[k])
      <4>1. /\ Len(r) = Len(p) + 1 /\ r[Len(p) + 1] = y
            /\ \A k \in 1..Len(p) : r[k] = p[k]
        BY <3>2, AppendProperties
      <4>2. ASSUME NEW k \in 1..Len(r) PROVE k \in 1..Len(p) \/ r[k] = y
        BY <1>5, <4>1
      <4>3. Right(e, u, y) /\ \A k \in 1..Len(p) : Right(e, u, p[k])
        BY <1>2, <1>3, <3>4
      <4> QED
        BY <4>1, <4>2, <4>3
    <3>8. Ordered(t, y) /\ Reached(t, y) = Reached(q, LastShown(p))
      BY <1>8, <2>1, <3>1, <3>2
    <3> QED
      BY <1>2, <1>8, <2>1, <3>6, <3>7, <3>8
  <2> QED
    BY <2>2, <2>3
<1>16. CASE Acknowledges
  <2>1. PICK m \in AllLines :
          /\ m.tag = "ok" /\ Id(m) = Id(toServer[Receiver][1])
          /\ t = IF conn[Receiver] = "open" THEN Append(q, m) ELSE q
    BY <1>1, <1>16 DEF Acknowledges
  <2>2. m.for = 0 /\ m.part = 1
    <3>1. PICK z \in Seq(AllLines) : z = toServer[Receiver]
      BY ReceiverLines
    <3>2. z # <<>> /\ AllFirst(z)
      BY <1>16, <3>1 DEF Acknowledges, ReceiverPhase
    <3>3. 1 \in 1..Len(z)
      BY <3>2, EmptySeq
    <3> QED
      BY <2>1, <3>1, <3>2, <3>3 DEF AllFirst, Id, FirstId
  <2>3. r = p /\ e = d /\ conn'[Receiver] = conn[Receiver] /\ pc'[Receiver] = pc[Receiver]
    BY <1>1, <1>16 DEF Acknowledges, ShownSame
  <2>4. CASE conn[Receiver] = "open" /\ ~Ended(Receiver)
    <3>1. p = <<>> /\ q = <<>> /\ d = <<>>
      <4>1. /\ w[Receiver] \in {"login", "join"} /\ toServer[Receiver] # <<>>
        BY <1>16 DEF Acknowledges
      <4>2. pc[Receiver] \in {"login", "join"}
        BY <2>4, <4>1, Two DEF ReceiverPhase, Ended, ShowPlaces, TypeOK
      <4> QED
        BY <1>1, <4>1, <4>2 DEF ReceiverPhase
    <3>2. t = <<m>>
      BY <2>1, <2>4, <3>1
    <3>3. LastShown(r) = NoReply
      BY <2>3, <3>1 DEF LastShown
    <3>4. Len(<<m>>) = 1 /\ <<m>>[1] = m
      OBVIOUS
    <3>5. Ordered(<<m>>, NoReply) /\ Reached(<<m>>, NoReply) = 0
      <4>1. Ahead(NoReply, m)
        BY <2>2 DEF Ahead, NoReply
      <4>2. /\ \A i \in 1..Len(<<m>>) : i = 1
            /\ \A i \in 1..(Len(<<m>>) - 1) : FALSE
            /\ <<m>> # <<>>
        BY <3>4
      <4> QED
        BY <2>2, <3>4, <4>1, <4>2 DEF Ordered, Reached
    <3>6. \A i \in 1..Len(t) : t[i].tag # "delivery"
      <4> SUFFICES ASSUME NEW i \in 1..Len(t) PROVE t[i].tag # "delivery"
        OBVIOUS
      <4>1. i = 1
        BY ONLY i \in 1..Len(t), <3>2, <3>4
      <4>2. t[i] = m
        BY ONLY <4>1, <3>2, <3>4
      <4> QED
        BY ONLY <2>1, <4>2
    <3> QED
      BY <1>5, <1>6, <2>3, <3>1, <3>2, <3>3, <3>5, <3>6
  <2>5. CASE ~(conn[Receiver] = "open" /\ ~Ended(Receiver))
    <3>1. CASE Ended(Receiver)
      BY <1>6, <2>3, <3>1 DEF Ended
    <3>2. CASE conn[Receiver] # "open"
      <4>1. t = q /\ (~Ended(Receiver)' => ~Ended(Receiver))
        BY <2>1, <2>3, <3>2 DEF Ended
      <4> QED
        BY <1>2, <1>6, <1>7, <2>3, <3>2, <4>1
    <3> QED
      BY <2>5, <3>1, <3>2
  <2> QED
    BY <2>4, <2>5
<1>17. CASE WorkerDelivers
  <2>1. /\ r = p /\ conn'[Receiver] = conn[Receiver] /\ feed[Receiver] # <<>>
        /\ (~Ended(Receiver)' => ~Ended(Receiver))
        /\ t = IF conn[Receiver] = "open" THEN q \o Lines(Delivery) ELSE q
        /\ e = Append(d, Head(feed[Receiver]))
    BY <1>1, <1>17 DEF WorkerDelivers, Ended
  <2>2. CASE conn[Receiver] # "open" \/ Ended(Receiver)'
    BY <1>2, <1>6, <1>7, <2>1, <2>2
  <2>3. CASE conn[Receiver] = "open" /\ ~Ended(Receiver)'
    <3>1. PICK m \in AllLines, h \in ChatMessages :
            /\ m = Delivery /\ h = Head(feed[Receiver])
            /\ m.tag = "delivery" /\ m.part = 1 /\ m.for = Len(d) + 1
            /\ m.text = s[h.n].text
      <4>1. Head(feed[Receiver]) \in ChatMessages
        <5>1. feed[Receiver] \in Seq(ChatMessages)
          BY Two DEF TypeOK
        <5> QED
          BY <2>1, <5>1, TailType
      <4> QED
        BY <1>1, <2>1, <4>1, DeliveryType
    <3>z. PICK z : z = [for |-> Len(d), part |-> 1]
      OBVIOUS
    <3>2. PICK l \in Seq(AllLines) :
            /\ l = Lines(m) /\ l # <<>> /\ Ordered(l, z)
            /\ l[1].for = Len(d) + 1 /\ l[1].part = 1 /\ l[Len(l)].for = Len(d) + 1
      BY ONLY <1>5, <3>1, <3>z, DeliveryLines
    <3>3. t = q \o l /\ e = Append(d, h) /\ ~Ended(Receiver)
      BY <2>1, <2>3, <3>1, <3>2
    <3>4. Len(e) = Len(d) + 1 /\ e[Len(d) + 1] = h
      BY <3>3, AppendProperties
    <3>5. u = s
      <4>1. RWSend \/ ~RWSend
        OBVIOUS
      <4>2. ~WSendall
        <5>1. WSendall => delivered' = delivered
          BY PublishEffect DEF WSendall
        <5>2. e # d
          BY <1>5, <3>4
        <5> QED
          BY <1>1, <5>1, <5>2
      <4> QED
        BY <1>1, <4>2, ChatAlone DEF RWSend
    <3>6. \A i \in 1..Len(t) : t[i].tag = "delivery" => Right(e, u, t[i])
      <4>0. SUFFICES ASSUME NEW i \in 1..Len(t), t[i].tag = "delivery"
                     PROVE  Right(e, u, t[i])
        OBVIOUS
      <4>1. /\ Len(t) = Len(q) + Len(l) /\ Len(l) \in Nat
            /\ t[i] = IF i <= Len(q) THEN q[i] ELSE l[i - Len(q)]
        BY <3>3, ConcatProperties
      <4>2. CASE i <= Len(q)
        <5>1. i \in 1..Len(q) /\ t[i] = q[i]
          BY <1>5, <4>1, <4>2
        <5> QED
          BY <1>7, <3>3, <4>0, <5>1
      <4>3. CASE ~(i <= Len(q))
        <5>1. PICK j \in 1..Len(l) : j = i - Len(q)
          BY <1>5, <4>1, <4>3
        <5>2. t[i] = l[j] /\ j \in 1..Parts(m)
          BY <3>2, <4>1, <4>3, <5>1, LinesType
        <5>3. l[j].for = Len(d) + 1 /\ (l[j].tag = "delivery" => Cuts(m.text, l[j]))
          <6>1. l[j] = Lines(m)[j]
            BY <3>2
          <6> QED
            BY ONLY <3>1, <5>2, <6>1, DeliveryParts
        <5>4. Len(d) + 1 \in 1..Len(e)
          BY <1>5, <3>4
        <5> QED
          BY <3>1, <3>4, <3>5, <4>0, <5>2, <5>3, <5>4 DEF Right
      <4> QED
        BY <4>2, <4>3
    <3>7. /\ Ordered(q, LastShown(p))
          /\ Len(d) = Reached(q, LastShown(p))
      BY <1>2, <2>3, <3>3
    <3>8. IF q = <<>> THEN Ahead(LastShown(p), l[1]) ELSE Follows(q[Len(q)], l[1])
      BY <3>2, <3>7 DEF Reached, Ahead, Follows
    <3>9. Ordered(t, LastShown(p)) /\ Reached(t, LastShown(p)) = Len(e)
      BY <3>2, <3>3, <3>4, <3>7, <3>8, OrderedConcat
    <3> QED
      BY <1>6, <2>1, <3>6, <3>9
  <2> QED
    BY <2>2, <2>3
<1>18. CASE ReceiverReset
  <2>1. /\ r = p /\ e = d /\ t \in {<<>>, q} /\ conn'[Receiver] = "reset"
        /\ (~Ended(Receiver)' => ~Ended(Receiver))
    BY <1>1, <1>18 DEF ReceiverReset, ShownSame, Ended
  <2>2. Ordered(<<>>, LastShown(p)) /\ \A i \in 1..Len(<<>>) : FALSE
    BY <1>5, OrderedEmpty
  <2> QED
    BY <1>2, <1>6, <1>7, <2>1, <2>2
<1> QED
  BY <1>11, <1>12, <1>13, <1>14, <1>15, <1>16, <1>17, <1>18, ReceiverEffect
-----------------------------------------------------------------------------
(* What the screen shows, which the steps keep where both dialogues are right. *)
Displays == TextsOwned /\ Screen

LEMMA DisplaysInit == Init => Displays
<1> SUFFICES ASSUME Init PROVE Displays
  OBVIOUS
<1>1. /\ text = <<>> /\ printed = <<>> /\ toServer[Sender] = <<>> /\ toClient[Receiver] = <<>>
      /\ conn[Receiver] = "none" /\ delivered[Receiver] = <<>> /\ Len(<<>>) = 0
  BY Two DEF Init, Chat!Init, Chat!Users, Clients
<1>2. TextsOwned
  BY <1>1 DEF TextsOwned, Published, Pending
<1>3. Ordered(<<>>, LastShown(<<>>)) /\ InTurn(<<>>)
  BY <1>1, OrderedEmpty DEF InTurn
<1> QED
  BY <1>1, <1>2, <1>3 DEF Displays, Screen

LEMMA DisplaysInvariant == Spec => []Displays
<1>1. Sessions /\ Sessions' /\ [Next]_vars /\ Displays => Displays'
  BY TextsKept, ScreenKept DEF Sessions, Displays
<1> QED
  BY <1>1, DisplaysInit, SessionsInvariant, PTL DEF Spec

LEMMA ScreenTruthful == Sessions /\ Displays => ScreenShowsDeliveries
<1> SUFFICES ASSUME Sessions, Displays, NEW k \in DOMAIN printed
             PROVE
    LET n == printed[k].for
        j == printed[k].part
        deliveries == delivered[Receiver]
        sent == text[deliveries[n].n]
        rest == Reads[sent.text.of][CutAt(sent.text, j)]
    IN  /\ n \in DOMAIN deliveries
        /\ typed[sent.for].tag = "sendall" /\ sent.text.of = typed[sent.for].text.of
        /\ n > 1 => Before(text[deliveries[n - 1].n], sent)
        /\ \/ j = 1 /\ printed[k].text = Shown(sent.text)
              /\ n = IF k = 1 THEN 1 ELSE printed[k - 1].for + 1
           \/ j > 1 /\ rest.tag = "delivery"
              /\ printed[k].text.of = sent.text.of
              /\ printed[k].text.from = CutAt(sent.text, j) + rest.skip
              /\ k > 1 /\ printed[k - 1].for = n /\ printed[k - 1].part < j
  BY DEF ScreenShowsDeliveries
<1>1. PICK p \in Seq(ShownLines), d \in Seq(ChatMessages) :
        p = printed /\ d = delivered[Receiver]
  BY ReceiverLines DEF Sessions
<1>2. /\ Len(p) \in Nat /\ Len(d) \in Nat
      /\ DOMAIN printed = 1..Len(p) /\ DOMAIN d = 1..Len(d) /\ k \in 1..Len(p)
  BY <1>1, LenProperties
<1>3. PICK x \in ShownLines : x = p[k] /\ x = printed[k]
  BY <1>1, <1>2
<1>4. Right(d, text, x) /\ Turn(IF k = 1 THEN NoReply ELSE p[k - 1], x)
  BY <1>1, <1>2, <1>3 DEF Displays, Screen, InTurn
<1>n. PICK n \in 1..Len(d) : n = x.for /\ Cuts(text[d[n].n].text, x)
  BY <1>4 DEF Right
<1>5. PICK sent : n = x.for /\ sent = text[d[n].n] /\ Cuts(sent.text, x)
  BY <1>n
<1>6. ASSUME NEW i \in 1..Len(d)
      PROVE  d[i].n \in 1..Len(text) /\ Truthful(text[d[i].n])
  BY <1>1, <1>6 DEF Sessions, InOrder, Displays, TextsOwned, Published
<1>7. typed[sent.for].tag = "sendall" /\ sent.text.of = typed[sent.for].text.of
  BY <1>5, <1>6 DEF Truthful
<1>8. ASSUME n > 1 PROVE Before(text[d[n - 1].n], sent)
  <2>1. n - 1 \in 1..Len(d) /\ n - 1 < n
    BY <1>2, <1>8
  <2>2. d[n - 1].n < d[n].n
    BY <1>1, <2>1 DEF Sessions, InOrder, Increasing
  <2>3. d[n - 1].n \in 1..Len(text) /\ d[n].n \in 1..Len(text)
    BY <1>6, <2>1
  <2> QED
    BY <1>5, <2>2, <2>3 DEF Displays, TextsOwned, Published
<1>9. \/ /\ x.part = 1 /\ x.text = Shown(sent.text)
         /\ n = IF k = 1 THEN 1 ELSE p[k - 1].for + 1
      \/ /\ x.part > 1
         /\ Reads[sent.text.of][CutAt(sent.text, x.part)].tag = "delivery"
         /\ x.text.of = sent.text.of
         /\ x.text.from = CutAt(sent.text, x.part)
                            + Reads[sent.text.of][CutAt(sent.text, x.part)].skip
         /\ k > 1 /\ p[k - 1].for = n /\ p[k - 1].part < x.part
  <2>1. x.part \in Nat
    BY DEF ShownLines
  <2>2. CASE x.part = 1
    <3>1. x.text = Shown(sent.text)
      BY <1>5, <2>2 DEF Cuts
    <3>2. CASE k = 1
      BY <1>4, <1>5, <2>2, <3>1, <3>2 DEF Turn, NoReply
    <3>3. CASE k # 1
      BY <1>4, <1>5, <2>2, <3>1, <3>3 DEF Turn
    <3> QED
      BY <3>2, <3>3
  <2>3. CASE x.part # 1
    <3>1. /\ x.part > 1
          /\ Reads[sent.text.of][CutAt(sent.text, x.part)].tag = "delivery"
          /\ x.text.of = sent.text.of
          /\ x.text.from = CutAt(sent.text, x.part)
                             + Reads[sent.text.of][CutAt(sent.text, x.part)].skip
      BY <1>5, <2>3 DEF Cuts
    <3>2. k # 1
      BY <1>4, <1>5, <2>3 DEF Turn, NoReply
    <3>3. p[k - 1].for = n /\ p[k - 1].part < x.part /\ k > 1
      BY <1>2, <1>4, <1>5, <2>3, <3>2 DEF Turn
    <3> QED
      BY <3>1, <3>3
  <2> QED
    BY <2>2, <2>3
<1> QED
  BY <1>1, <1>2, <1>3, <1>5, <1>7, <1>8, <1>9

(* What the receiver prints are the published texts in their order, each the   *)
(* beginning of one the user typed; and, after one that was cut, those of its  *)
(* other parts that themselves begin with the tag of a delivery.  InTurn is    *)
(* the order of what is printed, Ordered that of what is in transit: nothing   *)
(* is left out between the two.                                                *)
THEOREM ScreenIsTrue == Spec => []ScreenShowsDeliveries
BY ScreenTruthful, SessionsInvariant, DisplaysInvariant, PTL
=============================================================================
