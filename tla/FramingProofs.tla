---------------------------- MODULE FramingProofs ----------------------------
(***************************************************************************)
(* Proofs about Framing, for any scripts of messages that fit in a line,   *)
(* however write, the network and read cut the bytes.                      *)
(***************************************************************************)
EXTENDS Framing, SequenceTheorems, TLAPS

\* Every encoded message is shorter than the line receive asks for
\* (connection.cpp): with one more character the last one is cut off.
Fits == \A s \in Scripts : \A k \in DOMAIN s : Len(Encode(s[k])) <= MAX_LEN - 1
-----------------------------------------------------------------------------
(* The elements of a concatenation, counted from where each part begins.       *)
LEMMA Concat ==
  ASSUME NEW S, NEW x \in Seq(S), NEW y \in Seq(S)
  PROVE  /\ x \o y \in Seq(S)
         /\ Len(x) \in Nat /\ Len(y) \in Nat
         /\ Len(x \o y) = Len(x) + Len(y)
         /\ \A i \in 1..Len(x) : (x \o y)[i] = x[i]
         /\ \A i \in 1..Len(y) : (x \o y)[Len(x) + i] = y[i]
<1>1. Len(x) \in Nat /\ Len(y) \in Nat
  BY LenProperties
<1>2. /\ x \o y \in Seq(S) /\ Len(x \o y) = Len(x) + Len(y)
      /\ \A i \in 1..(Len(x) + Len(y)) :
           (x \o y)[i] = IF i <= Len(x) THEN x[i] ELSE y[i - Len(x)]
  BY ConcatProperties
<1>3. ASSUME NEW i \in 1..Len(x) PROVE (x \o y)[i] = x[i]
  BY <1>1, <1>2
<1>4. ASSUME NEW i \in 1..Len(y) PROVE (x \o y)[Len(x) + i] = y[i]
  <2>1. /\ Len(x) + i \in 1..(Len(x) + Len(y)) /\ ~(Len(x) + i <= Len(x))
        /\ (Len(x) + i) - Len(x) = i
    BY <1>1
  <2> QED
    BY <1>2, <2>1
<1> QED
  BY <1>1, <1>2, <1>3, <1>4

(* An encoded message ends with its only newline, and its first colon is the   *)
(* one after the tag.                                                          *)
LEMMA EncodeProperties ==
  ASSUME NEW m \in MessagesToSend
  PROVE  /\ Encode(m) \in Seq(Chars)
         /\ Len(m.tag) \in Nat /\ Len(m.data) \in Nat
         /\ Len(Encode(m)) = Len(m.tag) + Len(m.data) + 2
         /\ \A i \in 1..Len(m.tag) :
              Encode(m)[i] = m.tag[i] /\ Encode(m)[i] \notin {":", "\n"}
         /\ Encode(m)[Len(m.tag) + 1] = ":"
         /\ \A i \in 1..Len(m.data) :
              /\ Encode(m)[Len(m.tag) + 1 + i] = m.data[i]
              /\ m.data[i] # "\n"
         /\ Encode(m)[Len(Encode(m))] = "\n"
<1> DEFINE t == m.tag
           d == m.data
           colon == <<":">>
           newline == <<"\n">>
           a == t \o colon
           b == a \o d
<1>1. ":" \in Chars /\ "\n" \in Chars
  BY FramingAssumption
<1>2. t \in Seq(Chars \ {":", "\n"}) /\ d \in Seq(Chars \ {"\n"})
  BY DEF MessagesToSend
<1>3. /\ t \in Seq(Chars) /\ Len(t) \in Nat
      /\ \A i \in 1..Len(t) : t[i] \notin {":", "\n"}
  BY <1>2
<1>4. d \in Seq(Chars) /\ Len(d) \in Nat /\ \A i \in 1..Len(d) : d[i] # "\n"
  BY <1>2
<1>5. colon \in Seq(Chars) /\ Len(colon) = 1 /\ colon[1] = ":"
  BY <1>1
<1>6. newline \in Seq(Chars) /\ Len(newline) = 1 /\ newline[1] = "\n"
  BY <1>1
<1>7. Encode(m) = b \o newline
  BY DEF Encode
<1> HIDE DEF t, d, colon, newline
<1>8. /\ a \in Seq(Chars) /\ Len(a) = Len(t) + 1
      /\ \A i \in 1..Len(t) : a[i] = t[i]
      /\ a[Len(t) + 1] = ":"
  <2>1. t \in Seq(Chars) /\ colon \in Seq(Chars)
    BY <1>3, <1>5
  <2>2. /\ a \in Seq(Chars) /\ Len(a) = Len(t) + Len(colon)
        /\ \A i \in 1..Len(t) : a[i] = t[i]
        /\ \A i \in 1..Len(colon) : a[Len(t) + i] = colon[i]
    BY ONLY <2>1, Concat
  <2> QED
    BY <1>3, <1>5, <2>2
<1> HIDE DEF a
<1>9. /\ b \in Seq(Chars) /\ Len(b) = Len(t) + 1 + Len(d)
      /\ \A i \in 1..(Len(t) + 1) : b[i] = a[i]
      /\ \A i \in 1..Len(d) : b[Len(t) + 1 + i] = d[i]
  <2>1. a \in Seq(Chars) /\ d \in Seq(Chars)
    BY <1>4, <1>8
  <2>2. /\ b \in Seq(Chars) /\ Len(b) = Len(a) + Len(d)
        /\ \A i \in 1..Len(a) : b[i] = a[i]
        /\ \A i \in 1..Len(d) : b[Len(a) + i] = d[i]
    BY ONLY <2>1, Concat
  <2> QED
    BY <1>3, <1>4, <1>8, <2>2
<1> HIDE DEF b
<1>10. /\ Encode(m) \in Seq(Chars) /\ Len(Encode(m)) = Len(t) + Len(d) + 2
       /\ \A i \in 1..(Len(t) + 1 + Len(d)) : Encode(m)[i] = b[i]
       /\ Encode(m)[Len(t) + 1 + Len(d) + 1] = "\n"
  <2>1. b \in Seq(Chars) /\ newline \in Seq(Chars)
    BY <1>6, <1>9
  <2>2. /\ b \o newline \in Seq(Chars) /\ Len(b \o newline) = Len(b) + Len(newline)
        /\ \A i \in 1..Len(b) : (b \o newline)[i] = b[i]
        /\ \A i \in 1..Len(newline) : (b \o newline)[Len(b) + i] = newline[i]
    BY ONLY <2>1, Concat
  <2>3. Len(b) + 1 = Len(t) + Len(d) + 2 /\ Len(b) = Len(t) + 1 + Len(d)
    BY <1>3, <1>4, <1>9
  <2> QED
    BY <1>6, <1>7, <2>2, <2>3
<1>11. \A i \in 1..Len(t) : Encode(m)[i] = t[i]
  BY <1>3, <1>4, <1>8, <1>9, <1>10
<1>12. Encode(m)[Len(t) + 1] = ":"
  BY <1>3, <1>4, <1>8, <1>9, <1>10
<1>13. \A i \in 1..Len(d) : Encode(m)[Len(t) + 1 + i] = d[i]
  BY <1>3, <1>4, <1>9, <1>10
<1>14. Encode(m)[Len(Encode(m))] = "\n"
  <2>1. Len(Encode(m)) = Len(t) + 1 + Len(d) + 1
    BY <1>3, <1>4, <1>10
  <2> QED
    BY <1>10, <2>1
<1>15. /\ \A i \in 1..Len(t) : Encode(m)[i] = t[i] /\ Encode(m)[i] \notin {":", "\n"}
       /\ \A i \in 1..Len(d) : Encode(m)[Len(t) + 1 + i] = d[i] /\ d[i] # "\n"
  BY <1>3, <1>4, <1>11, <1>13
<1> QED
  BY <1>3, <1>4, <1>10, <1>12, <1>14, <1>15 DEF t, d

(* Only the last character of an encoded message is a newline.                 *)
LEMMA NewlineLast ==
  ASSUME NEW m \in MessagesToSend, NEW i \in 1..Len(Encode(m)), Encode(m)[i] = "\n"
  PROVE  i = Len(Encode(m))
<1> DEFINE T == Len(m.tag)
           D == Len(m.data)
<1>1. T \in Nat /\ D \in Nat /\ Len(Encode(m)) = T + D + 2
  BY EncodeProperties
<1>2. i \in Nat /\ i >= 1 /\ i <= T + D + 2
  <2> HIDE DEF T, D
  <2>1. i \in 1..(T + D + 2)
    BY <1>1
  <2> QED
    BY <1>1, <2>1
<1>3. ~(i \in 1..T)
  BY EncodeProperties
<1>4. i # T + 1
  <2>1. Encode(m)[T + 1] = ":"
    BY EncodeProperties
  <2> QED
    BY <2>1
<1>5. ASSUME NEW j \in 1..D PROVE i # T + 1 + j
  <2>1. Encode(m)[T + 1 + j] # "\n"
    BY EncodeProperties
  <2> QED
    BY <2>1
<1> HIDE DEF T, D
<1>6. CASE i > T + 1 /\ i <= T + 1 + D
  <2>1. i - (T + 1) \in 1..D /\ i = T + 1 + (i - (T + 1))
    BY <1>1, <1>2, <1>6
  <2> QED
    BY <1>5, <2>1
<1> QED
  BY <1>1, <1>2, <1>3, <1>4, <1>6

(* receive undoes send.                                                        *)
LEMMA DecodeEncode ==
  ASSUME NEW m \in MessagesToSend
  PROVE  Decode(Encode(m)) = Whole(m)
<1> DEFINE e == Encode(m)
           T == Len(m.tag)
           D == Len(m.data)
           I == {i \in 1..Len(e) : e[i] = ":"}
           rest == SubSeq(e, (T + 1) + 1, Len(e))
<1>1. /\ e \in Seq(Chars) /\ T \in Nat /\ D \in Nat /\ Len(e) = T + D + 2
      /\ \A i \in 1..T : e[i] = m.tag[i] /\ e[i] # ":"
      /\ e[T + 1] = ":"
      /\ \A i \in 1..D : e[T + 1 + i] = m.data[i]
      /\ e[Len(e)] = "\n"
  BY EncodeProperties
<1>2. m.tag \in Seq(Chars) /\ m.data \in Seq(Chars)
  BY DEF MessagesToSend
<1> HIDE DEF e, T, D
<1>3. T + 1 \in I /\ \A i \in I : T + 1 <= i
  <2>1. \A i \in 1..T : i \notin I
    BY <1>1
  <2> QED
    BY <1>1, <2>1
<1>4. SelectInSeq(e, LAMBDA c : c = ":") = T + 1
  <2>1. SelectInSeq(e, LAMBDA c : c = ":") = IF I # {} THEN Min(I) ELSE 0
    BY DEF SelectInSeq
  <2>2. \A q \in I : (\A i \in I : q <= i) => q = T + 1
    BY <1>1, <1>3
  <2>3. Min(I) = T + 1
    BY <1>3, <2>2 DEF Min
  <2> QED
    BY <1>3, <2>1, <2>3
<1>5. Contains(e, ":")
  BY <1>3 DEF Contains
<1>6. SubSeq(e, 1, (T + 1) - 1) = m.tag
  <2> DEFINE s == SubSeq(e, 1, T)
  <2>1. s \in Seq(Chars) /\ Len(s) = T /\ \A i \in 1..T : s[i] = e[i]
    BY <1>1
  <2>2. Len(m.tag) = T
    BY DEF T
  <2> HIDE DEF s
  <2>3. s = m.tag
    BY <1>1, <1>2, <2>1, <2>2, SeqEqual
  <2>4. (T + 1) - 1 = T
    BY <1>1
  <2> QED
    BY <2>3, <2>4 DEF s
<1>7. /\ rest \in Seq(Chars) /\ Len(rest) = D + 1
      /\ \A i \in 1..(D + 1) : rest[i] = e[T + 1 + i]
  BY <1>1
<1>8. rest[D + 1] = "\n"
  <2>1. T + 1 + (D + 1) = Len(e)
    BY <1>1
  <2>2. D + 1 \in 1..(D + 1)
    BY <1>1
  <2> QED
    BY <1>1, <1>7, <2>1, <2>2
<1> HIDE DEF rest
<1>9. rest # <<>> /\ Last(rest) = "\n"
  BY <1>1, <1>7, <1>8 DEF Last
<1>10. Front(rest) = m.data
  <2> DEFINE s == SubSeq(rest, 1, D)
  <2>1. s \in Seq(Chars) /\ Len(s) = D /\ \A i \in 1..D : s[i] = rest[i]
    BY <1>1, <1>7
  <2>2. Len(m.data) = D
    BY DEF D
  <2>3. Front(rest) = s
    <3>1. Len(rest) - 1 = D
      BY <1>1, <1>7
    <3> QED
      BY <3>1 DEF Front
  <2> HIDE DEF s
  <2>4. ASSUME NEW i \in 1..D PROVE s[i] = m.data[i]
    <3>1. i \in 1..(D + 1)
      BY <1>1
    <3> QED
      BY <1>1, <1>7, <2>1, <3>1
  <2>5. s = m.data
    BY <1>1, <1>2, <2>1, <2>2, <2>4, SeqEqual
  <2> QED
    BY <2>3, <2>5
<1>11. Decode(e) = [result |-> IF m.tag = ErrTag THEN "EOF_OR_ERROR" ELSE "SUCCESS",
                    tag |-> m.tag, data |-> m.data]
  BY <1>4, <1>5, <1>6, <1>9, <1>10 DEF Decode, rest
<1> QED
  BY <1>11 DEF Whole, e
-----------------------------------------------------------------------------
LEMMA Associative ==
  ASSUME NEW S, NEW x \in Seq(S), NEW y \in Seq(S), NEW z \in Seq(S)
  PROVE  (x \o y) \o z = x \o (y \o z)
BY ConcatAssociative

(* A sequence cut in two, as write and read do.                                *)
LEMMA Split ==
  ASSUME NEW S, NEW q \in Seq(S), NEW n \in 1..Len(q)
  PROVE  /\ SubSeq(q, 1, n) \in Seq(S) /\ SubSeq(q, n + 1, Len(q)) \in Seq(S)
         /\ Len(SubSeq(q, 1, n)) = n
         /\ SubSeq(q, 1, n) \o SubSeq(q, n + 1, Len(q)) = q
<1> DEFINE x == SubSeq(q, 1, n)
           y == SubSeq(q, n + 1, Len(q))
<1>1. Len(q) \in Nat /\ n \in Nat /\ n >= 1 /\ n <= Len(q)
  OBVIOUS
<1>2. x \in Seq(S) /\ Len(x) = n /\ \A i \in 1..n : x[i] = q[i]
  BY <1>1
<1>3. /\ y \in Seq(S) /\ Len(y) = Len(q) - n
      /\ \A i \in 1..(Len(q) - n) : y[i] = q[n + i]
  BY <1>1
<1> HIDE DEF x, y
<1>4. /\ x \o y \in Seq(S) /\ Len(x \o y) = Len(q)
      /\ \A i \in 1..n : (x \o y)[i] = x[i]
      /\ \A i \in 1..(Len(q) - n) : (x \o y)[n + i] = y[i]
  <2>1. x \in Seq(S) /\ y \in Seq(S)
    BY <1>2, <1>3
  <2>2. /\ x \o y \in Seq(S) /\ Len(x \o y) = Len(x) + Len(y)
        /\ \A i \in 1..Len(x) : (x \o y)[i] = x[i]
        /\ \A i \in 1..Len(y) : (x \o y)[Len(x) + i] = y[i]
    BY ONLY <2>1, Concat
  <2> QED
    BY <1>1, <1>2, <1>3, <2>2
<1>5. ASSUME NEW i \in 1..Len(q) PROVE (x \o y)[i] = q[i]
  <2>1. CASE i <= n
    BY <1>1, <1>2, <1>4, <2>1
  <2>2. CASE i > n
    <3>1. i - n \in 1..(Len(q) - n) /\ n + (i - n) = i
      BY <1>1, <2>2
    <3> QED
      BY <1>3, <1>4, <3>1
  <2>3. i <= n \/ i > n
    BY <1>1
  <2> QED
    BY <2>1, <2>2, <2>3
<1>6. x \o y = q
  BY <1>4, <1>5, SeqEqual
<1> QED
  BY <1>2, <1>3, <1>6 DEF x, y
-----------------------------------------------------------------------------
\* The bytes v are messages lo + 1 to hi of the script, message k ending at c[k].
Cut(scr, v, c, lo, hi) ==
  /\ c[lo] = 0 /\ c[hi] = Len(v)
  /\ \A j, k \in lo..hi : j < k => c[j] < c[k]
  /\ \A k \in lo..hi : k # lo =>
       /\ c[k] = c[k - 1] + Len(Encode(scr[k]))
       /\ \A i \in 1..Len(Encode(scr[k])) : v[c[k - 1] + i] = Encode(scr[k])[i]

\* The messages end where they did, but for the n bytes that have left.
Shifted(c, d, n, lo, hi) == \A k \in lo..hi : d[k] = c[k] - n

(* A send adds a message at the end.                                           *)
LEMMA CutExtend ==
  ASSUME NEW scr \in Seq(MessagesToSend), NEW v \in Seq(Chars),
         NEW lo \in Nat, NEW hi \in Nat, lo <= hi, hi < Len(scr),
         NEW c \in [lo..hi -> Nat], Cut(scr, v, c, lo, hi)
  PROVE  \E d \in [lo..(hi + 1) -> Nat] :
           /\ Cut(scr, v \o Encode(scr[hi + 1]), d, lo, hi + 1)
           /\ Shifted(c, d, 0, lo, hi)
<1> DEFINE e == Encode(scr[hi + 1])
           w == v \o e
           d == [k \in lo..(hi + 1) |-> IF k <= hi THEN c[k] ELSE Len(v) + Len(e)]
<1>1. scr[hi + 1] \in MessagesToSend
  <2>1. hi + 1 \in 1..Len(scr)
    BY LenProperties
  <2> QED
    BY <2>1, ElementOfSeq
<1>2. e \in Seq(Chars) /\ Len(e) \in Nat /\ Len(e) >= 2
  <2> DEFINE T == Len(scr[hi + 1].tag)
             D == Len(scr[hi + 1].data)
  <2>1. e \in Seq(Chars) /\ T \in Nat /\ D \in Nat /\ Len(e) = T + D + 2
    BY <1>1, EncodeProperties
  <2> HIDE DEF e, T, D
  <2> QED
    BY <2>1
<1>3. Len(v) \in Nat /\ c[lo] = 0 /\ c[hi] = Len(v) /\ lo \in lo..hi /\ hi \in lo..hi
  BY LenProperties DEF Cut
<1> HIDE DEF e
<1>4. /\ w \in Seq(Chars) /\ Len(w) = Len(v) + Len(e)
      /\ \A i \in 1..Len(v) : w[i] = v[i]
      /\ \A i \in 1..Len(e) : w[Len(v) + i] = e[i]
  BY <1>2, Concat
<1> HIDE DEF w
<1>5. d \in [lo..(hi + 1) -> Nat] /\ d[hi + 1] = Len(v) + Len(e)
      /\ \A k \in lo..hi : d[k] = c[k]
  BY <1>2, <1>3
<1> HIDE DEF d
<1>6. ASSUME NEW j \in lo..(hi + 1), NEW k \in lo..(hi + 1), j < k PROVE d[j] < d[k]
  <2>1. j \in lo..hi
    BY <1>6
  <2>2. CASE k \in lo..hi
    BY <1>5, <1>6, <2>1, <2>2 DEF Cut
  <2>3. CASE k = hi + 1
    <3>1. c[j] <= Len(v)
      <4>1. j = hi \/ j < hi
        BY <2>1
      <4>2. j < hi => c[j] < c[hi]
        BY <1>3, <2>1 DEF Cut
      <4>3. c[j] \in Nat
        BY <2>1
      <4> QED
        BY <1>3, <4>1, <4>2, <4>3
    <3>2. d[j] = c[j] /\ c[j] \in Nat
      BY <1>5, <2>1
    <3> QED
      BY <1>2, <1>3, <1>5, <2>3, <3>1, <3>2
  <2> QED
    BY <2>2, <2>3
<1>7. ASSUME NEW k \in lo..(hi + 1), k # lo
      PROVE  /\ d[k] = d[k - 1] + Len(Encode(scr[k]))
             /\ \A i \in 1..Len(Encode(scr[k])) : w[d[k - 1] + i] = Encode(scr[k])[i]
  <2>1. k - 1 \in lo..hi
    BY <1>7
  <2>2. CASE k \in lo..hi
    <3>1. /\ c[k] = c[k - 1] + Len(Encode(scr[k]))
          /\ \A i \in 1..Len(Encode(scr[k])) : v[c[k - 1] + i] = Encode(scr[k])[i]
      BY <1>7, <2>2 DEF Cut
    <3>2. d[k] = c[k] /\ d[k - 1] = c[k - 1]
      BY <1>5, <2>1, <2>2
    <3>3. ASSUME NEW i \in 1..Len(Encode(scr[k]))
          PROVE  w[c[k - 1] + i] = v[c[k - 1] + i]
      <4>1. c[k] <= Len(v)
        <5>1. k = hi \/ k < hi
          BY <2>2
        <5>2. k < hi => c[k] < c[hi]
          BY <1>3, <2>2 DEF Cut
        <5>3. c[k] \in Nat
          BY <2>2
        <5> QED
          BY <1>3, <5>1, <5>2, <5>3
      <4>2. c[k - 1] \in Nat /\ c[k] \in Nat
        BY <2>1, <2>2
      <4>3. i \in Nat /\ i >= 1
        OBVIOUS
      <4>4. Len(Encode(scr[k])) = c[k] - c[k - 1]
        <5>1. Len(Encode(scr[k])) \in Int
          <6>1. scr[k] \in MessagesToSend
            <7>1. k \in 1..Len(scr)
              BY <1>7, <2>2, LenProperties
            <7> QED
              BY <7>1, ElementOfSeq
          <6>2. Encode(scr[k]) \in Seq(Chars)
            BY <6>1, EncodeProperties
          <6> QED
            BY <6>2, LenProperties
        <5> DEFINE x == c[k - 1]
                   y == c[k]
                   z == Len(Encode(scr[k]))
        <5>2. y = x + z /\ x \in Nat /\ y \in Nat /\ z \in Int
          BY <3>1, <4>2, <5>1
        <5> HIDE DEF x, y, z
        <5>3. z = y - x
          BY <5>2
        <5> QED
          BY <5>3 DEF x, y, z
      <4>5. c[k - 1] + i \in 1..Len(v)
        <5> DEFINE x == c[k - 1]
                   y == c[k]
                   z == Len(v)
        <5>1. i \in Nat /\ i >= 1 /\ i <= y - x
          BY <4>3, <4>4
        <5>2. x \in Nat /\ y \in Nat /\ z \in Nat /\ y <= z
          BY <1>3, <4>1, <4>2
        <5> HIDE DEF x, y, z
        <5>3. x + i \in 1..z
          BY ONLY <5>1, <5>2
        <5> QED
          BY <5>3 DEF x, z
      <4> QED
        BY <1>4, <4>5
    <3> QED
      BY <3>1, <3>2, <3>3
  <2>3. CASE k = hi + 1
    <3>1. k - 1 = hi /\ d[k - 1] = Len(v) /\ Encode(scr[k]) = e
      BY <1>3, <1>5, <2>3 DEF e
    <3> QED
      BY <1>4, <1>5, <2>3, <3>1
  <2> QED
    BY <2>2, <2>3
<1>8. Cut(scr, w, d, lo, hi + 1)
  <2>1. d[lo] = 0 /\ d[hi + 1] = Len(w)
    BY <1>3, <1>4, <1>5
  <2> QED
    BY <1>6, <1>7, <2>1 DEF Cut
<1>9. Shifted(c, d, 0, lo, hi)
  <2>1. ASSUME NEW k \in lo..hi PROVE d[k] = c[k] - 0
    BY <1>5
  <2> QED
    BY <2>1 DEF Shifted
<1> QED
  BY <1>5, <1>8, <1>9 DEF w, e

StartsWith(v, e) == \A i \in 1..Len(e) : v[i] = e[i]

(* The bytes begin with the first message.                                     *)
LEMMA CutFirst ==
  ASSUME NEW scr \in Seq(MessagesToSend), NEW v \in Seq(Chars),
         NEW lo \in Nat, NEW hi \in Nat, lo < hi, hi <= Len(scr),
         NEW c \in [lo..hi -> Nat], Cut(scr, v, c, lo, hi)
  PROVE  /\ scr[lo + 1] \in MessagesToSend
         /\ c[lo + 1] = Len(Encode(scr[lo + 1])) /\ c[lo + 1] <= Len(v)
         /\ c[lo + 1] \in Nat
         /\ StartsWith(v, Encode(scr[lo + 1]))
<1>1. lo + 1 \in lo..hi /\ lo + 1 # lo /\ (lo + 1) - 1 = lo /\ hi \in lo..hi
  OBVIOUS
<1>2. scr[lo + 1] \in MessagesToSend
  <2>1. lo + 1 \in 1..Len(scr)
    BY LenProperties
  <2> QED
    BY <2>1, ElementOfSeq
<1>3. Len(Encode(scr[lo + 1])) \in Nat
  <2>1. Encode(scr[lo + 1]) \in Seq(Chars)
    BY <1>2, EncodeProperties
  <2> QED
    BY <2>1, LenProperties
<1>4. c[lo] = 0 /\ c[hi] = Len(v)
  BY DEF Cut
<1>5. /\ c[lo + 1] = c[lo] + Len(Encode(scr[lo + 1]))
      /\ \A i \in 1..Len(Encode(scr[lo + 1])) : v[c[lo] + i] = Encode(scr[lo + 1])[i]
  <2> DEFINE k == lo + 1
  <2>1. k \in lo..hi /\ k # lo /\ k - 1 = lo
    BY <1>1
  <2> HIDE DEF k
  <2>2. /\ c[k] = c[k - 1] + Len(Encode(scr[k]))
        /\ \A i \in 1..Len(Encode(scr[k])) : v[c[k - 1] + i] = Encode(scr[k])[i]
    BY <2>1 DEF Cut
  <2> QED
    BY <2>1, <2>2 DEF k
<1>6. c[lo + 1] = Len(Encode(scr[lo + 1]))
  BY <1>3, <1>4, <1>5
<1>7. c[lo + 1] <= Len(v)
  <2>1. lo + 1 = hi \/ lo + 1 < hi
    OBVIOUS
  <2>2. lo + 1 < hi => c[lo + 1] < c[hi]
    BY <1>1 DEF Cut
  <2>3. c[lo + 1] \in Nat /\ c[hi] \in Nat
    BY <1>1
  <2> QED
    BY <1>4, <2>1, <2>2, <2>3
<1>8. ASSUME NEW i \in 1..Len(Encode(scr[lo + 1])) PROVE v[i] = Encode(scr[lo + 1])[i]
  <2>1. c[lo] + i = i
    BY <1>3, <1>4
  <2> QED
    BY <1>5, <2>1
<1> QED
  BY <1>1, <1>2, <1>6, <1>7, <1>8 DEF StartsWith

(* Without it, they are the messages that follow.                              *)
LEMMA CutRest ==
  ASSUME NEW scr \in Seq(MessagesToSend), NEW v \in Seq(Chars), NEW w \in Seq(Chars),
         NEW lo \in Nat, NEW hi \in Nat, lo < hi,
         NEW c \in [lo..hi -> Nat], Cut(scr, v, c, lo, hi),
         Len(v) = c[lo + 1] + Len(w),
         \A i \in 1..Len(w) : w[i] = v[c[lo + 1] + i],
         hi <= Len(scr)
  PROVE  \E d \in [(lo + 1)..hi -> Nat] :
           /\ Cut(scr, w, d, lo + 1, hi)
           /\ Shifted(c, d, c[lo + 1], lo + 1, hi)
<1> DEFINE n == c[lo + 1]
           d == [k \in (lo + 1)..hi |-> c[k] - n]
<1>1. lo + 1 \in lo..hi /\ hi \in lo..hi /\ hi \in (lo + 1)..hi /\ lo + 1 \in (lo + 1)..hi
  OBVIOUS
<1>2. n \in Nat /\ c[hi] = Len(v) /\ Len(w) \in Nat
  BY <1>1, LenProperties DEF Cut
<1>3. ASSUME NEW k \in (lo + 1)..hi
      PROVE  k \in lo..hi /\ c[k] \in Nat /\ n <= c[k]
  <2>1. k \in lo..hi
    BY <1>3
  <2>2. c[k] \in Nat
    BY <2>1
  <2>3. k = lo + 1 \/ lo + 1 < k
    BY <1>3
  <2>4. lo + 1 < k => n < c[k]
    BY <1>1, <2>1 DEF Cut
  <2> QED
    BY <1>2, <2>1, <2>2, <2>3, <2>4
<1> HIDE DEF n
<1>4. d \in [(lo + 1)..hi -> Nat]
  <2>1. ASSUME NEW k \in (lo + 1)..hi PROVE c[k] - n \in Nat
    BY <1>2, <1>3
  <2> QED
    BY <2>1
<1>5. \A k \in (lo + 1)..hi : d[k] = c[k] - n
  OBVIOUS
<1> HIDE DEF d
<1>6. d[lo + 1] = 0 /\ d[hi] = Len(w)
  BY <1>1, <1>2, <1>5 DEF n
<1>7. ASSUME NEW j \in (lo + 1)..hi, NEW k \in (lo + 1)..hi, j < k PROVE d[j] < d[k]
  <2>1. c[j] < c[k]
    BY <1>3, <1>7 DEF Cut
  <2>2. d[j] = c[j] - n /\ d[k] = c[k] - n
    BY <1>5
  <2>3. c[j] \in Nat /\ c[k] \in Nat /\ n \in Nat
    BY <1>2, <1>3
  <2> QED
    BY ONLY <2>1, <2>2, <2>3
<1>8. ASSUME NEW k \in (lo + 1)..hi, k # lo + 1
      PROVE  /\ d[k] = d[k - 1] + Len(Encode(scr[k]))
             /\ \A i \in 1..Len(Encode(scr[k])) : w[d[k - 1] + i] = Encode(scr[k])[i]
  <2>1. k - 1 \in (lo + 1)..hi /\ k # lo
    BY <1>8
  <2>2. /\ c[k] = c[k - 1] + Len(Encode(scr[k]))
        /\ \A i \in 1..Len(Encode(scr[k])) : v[c[k - 1] + i] = Encode(scr[k])[i]
    BY <1>3, <2>1 DEF Cut
  <2>3. d[k] = c[k] - n /\ d[k - 1] = c[k - 1] - n
    BY <1>5, <2>1
  <2>4. c[k] \in Nat /\ c[k - 1] \in Nat /\ n <= c[k - 1] /\ c[k] <= Len(v)
    <3>1. k = hi \/ k < hi
      BY <1>8
    <3>2. k < hi => c[k] < c[hi]
      BY <1>1, <1>3 DEF Cut
    <3>3. c[k] \in Nat /\ c[k - 1] \in Nat /\ n <= c[k - 1]
      BY <1>3, <2>1
    <3>4. c[k] <= c[hi]
      BY <3>1, <3>2, <3>3
    <3> QED
      BY <1>2, <3>3, <3>4
  <2> DEFINE e == Encode(scr[k])
  <2>5. Len(e) \in Nat
    <3>1. scr[k] \in MessagesToSend
      <4>1. k \in 1..Len(scr)
        BY <1>8, LenProperties
      <4> QED
        BY <4>1, ElementOfSeq
    <3>2. e \in Seq(Chars)
      BY <3>1, EncodeProperties
    <3> QED
      BY <3>2, LenProperties
  <2> HIDE DEF e
  <2>6. c[k] = c[k - 1] + Len(e) /\ \A i \in 1..Len(e) : v[c[k - 1] + i] = e[i]
    BY <2>2 DEF e
  <2>7. ASSUME NEW i \in 1..Len(e) PROVE w[d[k - 1] + i] = e[i]
    <3> DEFINE x == c[k - 1]
               y == d[k - 1]
    <3>1. /\ n \in Nat /\ x \in Nat /\ n <= x /\ y = x - n
          /\ Len(v) \in Nat /\ Len(w) \in Nat /\ Len(e) \in Nat
          /\ Len(v) = n + Len(w) /\ x + Len(e) <= Len(v)
      <4>1. Len(v) = n + Len(w) /\ Len(v) \in Nat
        BY LenProperties DEF n
      <4>2. x + Len(e) <= Len(v)
        BY <2>4, <2>6
      <4>3. n \in Nat /\ Len(w) \in Nat /\ Len(e) \in Nat
        BY <1>2, <2>5
      <4>4. x \in Nat /\ n <= x /\ y = x - n
        BY <2>3, <2>4
      <4> QED
        BY <4>1, <4>2, <4>3, <4>4
    <3>2. i \in Nat /\ i >= 1 /\ i <= Len(e)
      BY <2>5
    <3> HIDE DEF x, y
    <3>3. y + i \in 1..Len(w) /\ n + (y + i) = x + i
      <4>1. i <= Len(w) - y
        BY ONLY <3>1, <3>2
      <4> QED
        BY ONLY <3>1, <3>2, <4>1
    <3>4. d[k - 1] + i \in 1..Len(w) /\ n + (d[k - 1] + i) = c[k - 1] + i
      BY <3>3 DEF x, y
    <3>5. w[d[k - 1] + i] = v[n + (d[k - 1] + i)]
      BY <3>4 DEF n
    <3> QED
      BY <2>6, <3>4, <3>5
  <2>8. d[k] = d[k - 1] + Len(e)
    BY <1>2, <2>3, <2>4, <2>5, <2>6
  <2> QED
    BY <2>7, <2>8 DEF e
<1>9. Cut(scr, w, d, lo + 1, hi)
  BY <1>6, <1>7, <1>8 DEF Cut
<1>10. Shifted(c, d, n, lo + 1, hi)
  BY <1>5 DEF Shifted
<1> QED
  BY <1>4, <1>9, <1>10 DEF n

-----------------------------------------------------------------------------
TypeOK ==
  /\ script \in Scripts /\ script \in Seq(MessagesToSend)
  /\ started \in 0..Len(script)
  /\ out \in Seq(Chars) /\ wire \in Seq(Chars)
  /\ rio_buf \in Seq(Chars) /\ line \in Seq(Chars)
  /\ peer \in {"open", "closed", "reset"}
  /\ got \in Seq({Decode(s) : s \in Seq(Chars)})

\* What has been written and not yet returned by receive, unless it is lost.
Arriving == (line \o rio_buf) \o wire

\* With what is still to be written (or lost in a reset) it is the messages that
\* have not been received, cut as c says.  The line is a part of the first, and
\* the part still to be written is of the last.
Flow(rest, c) ==
  /\ Cut(script, Arriving \o rest, c, Len(got), started)
  /\ peer # "reset" => rest = out
  /\ Len(got) < started => /\ Len(line) < c[Len(got) + 1]
                           /\ peer # "reset" => c[started - 1] <= Len(Arriving)

Flowing ==
  /\ Len(got) <= started
  /\ \A k \in 1..Len(got) : got[k] = Whole(script[k])
  /\ \E rest \in Seq(Chars) : \E c \in [Len(got)..started -> Nat] : Flow(rest, c)

\* The peer went away within a message, and what it wrote of it has been taken
\* for a message.
Broken ==
  /\ peer # "open" /\ out # <<>>
  /\ line = <<>> /\ rio_buf = <<>> /\ wire = <<>>
  /\ Len(got) = started
  /\ \A k \in 1..Len(got) : k # started => got[k] = Whole(script[k])

IInv == TypeOK /\ (Flowing \/ Broken)

LEMMA FlowInit == Init => IInv
<1> SUFFICES ASSUME Init PROVE IInv
  OBVIOUS
<1>1. TypeOK
  <2>1. script \in Scripts /\ script \in Seq(MessagesToSend)
    BY FramingAssumption DEF Init
  <2>2. 0 \in 0..Len(script)
    BY <2>1, LenProperties
  <2> QED
    BY <2>1, <2>2, EmptySeq DEF Init, TypeOK
<1>2. Len(got) = 0 /\ started = 0 /\ line = <<>> /\ out = <<>>
      /\ rio_buf = <<>> /\ wire = <<>>
  BY DEF Init
<1>3. Arriving \o <<>> = <<>>
  BY <1>2 DEF Arriving
<1> DEFINE c == [k \in 0..0 |-> 0]
<1>4. c \in [Len(got)..started -> Nat] /\ Flow(<<>>, c)
  <2>1. c \in [0..0 -> Nat] /\ c[0] = 0
    OBVIOUS
  <2> HIDE DEF c
  <2>2. Cut(script, Arriving \o <<>>, c, 0, 0)
    BY <1>3, <2>1 DEF Cut
  <2> QED
    BY <1>2, <2>1, <2>2 DEF Flow
<1>5. Flowing
  BY <1>2, <1>4, EmptySeq DEF Flowing
<1> QED
  BY <1>1, <1>5 DEF IInv

(* The types the steps keep.                                                   *)
LEMMA Bytes ==
  ASSUME TypeOK
  PROVE  /\ script \in Seq(MessagesToSend) /\ started \in Nat /\ started <= Len(script)
         /\ line \in Seq(Chars) /\ rio_buf \in Seq(Chars) /\ wire \in Seq(Chars)
         /\ out \in Seq(Chars)
         /\ line \o rio_buf \in Seq(Chars) /\ Arriving \in Seq(Chars)
         /\ got \in Seq({Decode(s) : s \in Seq(Chars)})
         /\ Len(got) \in Nat /\ DOMAIN got = 1..Len(got)
         /\ Len(line) \in Nat /\ Len(script) \in Nat
<1>1. Len(script) \in Nat /\ started \in 0..Len(script)
  BY LenProperties DEF TypeOK
<1>2. line \in Seq(Chars) /\ rio_buf \in Seq(Chars) /\ wire \in Seq(Chars)
  BY DEF TypeOK
<1>3. line \o rio_buf \in Seq(Chars)
  BY <1>2, ConcatProperties
<1>4. Arriving \in Seq(Chars)
  BY <1>2, <1>3, ConcatProperties DEF Arriving
<1>5. Len(got) \in Nat /\ DOMAIN got = 1..Len(got) /\ Len(line) \in Nat
  BY <1>2, LenProperties DEF TypeOK
<1> QED
  BY <1>1, <1>2, <1>3, <1>4, <1>5 DEF TypeOK

(* The first byte of the buffer joins the line.                                *)
LEMMA OneChar ==
  ASSUME NEW S, NEW l \in Seq(S), NEW b \in Seq(S), b # <<>>
  PROVE  /\ Append(l, Head(b)) \in Seq(S) /\ Tail(b) \in Seq(S)
         /\ Append(l, Head(b)) \o Tail(b) = l \o b
<1> DEFINE h == <<Head(b)>>
           t == Tail(b)
<1>1. Head(b) \in S /\ t \in Seq(S) /\ Head(b) = b[1]
      /\ Len(t) = Len(b) - 1 /\ \A i \in 1..Len(t) : t[i] = b[i + 1]
  BY HeadTailProperties
<1>2. h \in Seq(S) /\ Len(h) = 1 /\ h[1] = b[1]
  BY <1>1
<1>3. Len(b) \in Nat \ {0}
  BY EmptySeq
<1>4. Append(l, Head(b)) = l \o h /\ Append(l, Head(b)) \in Seq(S)
  BY <1>1, AppendIsConcat, AppendProperties
<1> HIDE DEF h, t
<1>5. h \o t = b
  <2>1. h \in Seq(S) /\ t \in Seq(S)
    BY <1>1, <1>2
  <2>2. /\ h \o t \in Seq(S) /\ Len(h \o t) = Len(h) + Len(t)
        /\ \A i \in 1..Len(h) : (h \o t)[i] = h[i]
        /\ \A i \in 1..Len(t) : (h \o t)[Len(h) + i] = t[i]
    BY ONLY <2>1, Concat
  <2>3. Len(h \o t) = Len(b)
    BY <1>1, <1>2, <1>3, <2>2
  <2>4. ASSUME NEW i \in 1..Len(b) PROVE (h \o t)[i] = b[i]
    <3>1. CASE i = 1
      BY <1>2, <2>2, <3>1
    <3>2. CASE i # 1
      <4>1. i - 1 \in 1..Len(t) /\ 1 + (i - 1) = i /\ (i - 1) + 1 = i
        BY <1>1, <1>3, <3>2
      <4>2. t[i - 1] = b[i]
        BY <1>1, <4>1
      <4>3. (h \o t)[i] = t[i - 1]
        BY <1>2, <2>2, <4>1
      <4> QED
        BY <4>2, <4>3
    <3> QED
      BY <3>1, <3>2
  <2> QED
    BY <2>2, <2>3, <2>4, SeqEqual
<1>6. (l \o h) \o t = l \o (h \o t)
  <2>1. l \in Seq(S) /\ h \in Seq(S) /\ t \in Seq(S)
    BY <1>1, <1>2
  <2> QED
    BY ONLY <2>1, Associative, SMTT(40)
<1>7. Append(l, Head(b)) \o t = l \o b
  BY <1>4, <1>5, <1>6
<1> QED
  BY <1>1, <1>4, <1>7 DEF t
-----------------------------------------------------------------------------
LEMMA NextType == TypeOK /\ [Next]_vars => TypeOK'
<1> SUFFICES ASSUME TypeOK, [Next]_vars PROVE TypeOK'
  OBVIOUS
<1>0. /\ script \in Seq(MessagesToSend) /\ started \in Nat /\ started <= Len(script)
      /\ Len(script) \in Nat
      /\ line \in Seq(Chars) /\ rio_buf \in Seq(Chars) /\ wire \in Seq(Chars)
      /\ out \in Seq(Chars)
  BY Bytes
<1>1. CASE Send
  <2>1. started + 1 \in 1..Len(script) /\ started + 1 \in 0..Len(script)
    BY <1>0, <1>1 DEF Send
  <2>2. Encode(script[started + 1]) \in Seq(Chars)
    <3>1. script[started + 1] \in MessagesToSend
      BY <1>0, <2>1, ElementOfSeq
    <3> QED
      BY <3>1, EncodeProperties
  <2> QED
    BY <1>1, <2>1, <2>2 DEF Send, TypeOK
<1>2. CASE \E n \in 1..Len(out) : WriteSome(n)
  <2>1. PICK n \in 1..Len(out) : WriteSome(n)
    BY <1>2
  <2>2. SubSeq(out, 1, n) \in Seq(Chars) /\ SubSeq(out, n + 1, Len(out)) \in Seq(Chars)
    BY <1>0, Split
  <2>3. wire \o SubSeq(out, 1, n) \in Seq(Chars)
    BY <1>0, <2>2, ConcatProperties
  <2> QED
    BY <2>1, <2>2, <2>3 DEF WriteSome, TypeOK
<1>3. CASE Close \/ Reset
  <2>1. CASE Close
    BY <2>1 DEF Close, TypeOK
  <2>2. CASE Reset
    BY <2>2, EmptySeq DEF Reset, TypeOK
  <2> QED
    BY <1>3, <2>1, <2>2
<1>4. CASE \E n \in 1..Len(wire) : Refill(n)
  <2>1. PICK n \in 1..Len(wire) : Refill(n)
    BY <1>4
  <2>2. SubSeq(wire, 1, n) \in Seq(Chars) /\ SubSeq(wire, n + 1, Len(wire)) \in Seq(Chars)
    BY <1>0, Split
  <2> QED
    BY <2>1, <2>2 DEF Refill, TypeOK
<1>5. ASSUME NEW s \in Seq(Chars), Receive(s)
      PROVE  /\ got' \in Seq({Decode(q) : q \in Seq(Chars)})
             /\ line' \in Seq(Chars)
  <2>1. Decode(s) \in {Decode(q) : q \in Seq(Chars)}
    OBVIOUS
  <2>2. got \in Seq({Decode(q) : q \in Seq(Chars)})
    BY DEF TypeOK
  <2>3. Append(got, Decode(s)) \in Seq({Decode(q) : q \in Seq(Chars)})
    BY <2>1, <2>2, AppendProperties
  <2> QED
    BY <1>5, <2>3, EmptySeq DEF Receive
<1>6. CASE ReadChar
  <2> DEFINE read == Append(line, Head(rio_buf))
  <2>1. read \in Seq(Chars) /\ Tail(rio_buf) \in Seq(Chars)
    BY <1>0, <1>6, OneChar DEF ReadChar
  <2> HIDE DEF read
  <2>2. Receive(read) \/ (line' = read /\ got' = got)
    BY <1>6 DEF ReadChar, read
  <2>3. /\ got' \in Seq({Decode(q) : q \in Seq(Chars)})
        /\ line' \in Seq(Chars)
    BY <1>5, <2>1, <2>2 DEF TypeOK
  <2> QED
    BY <1>6, <2>1, <2>3 DEF ReadChar, TypeOK
<1>7. CASE EndOfFile
  <2>1. /\ got' \in Seq({Decode(q) : q \in Seq(Chars)})
        /\ line' \in Seq(Chars)
    BY <1>0, <1>5, <1>7 DEF EndOfFile, TypeOK
  <2> QED
    BY <1>7, <2>1 DEF EndOfFile, TypeOK
<1>8. CASE ReadFails
  BY <1>8 DEF ReadFails, TypeOK
<1>9. CASE UNCHANGED vars
  BY <1>9 DEF vars, TypeOK
<1> QED
  BY <1>1, <1>2, <1>3, <1>4, <1>6, <1>7, <1>8, <1>9 DEF Next, Writer, Reader

-----------------------------------------------------------------------------
(* A step that neither begins nor ends a message moves its bytes.              *)
LEMMA Moves ==
  ASSUME TypeOK, TypeOK', Flowing, NEW rest \in Seq(Chars),
         NEW c \in [Len(got)..started -> Nat], Flow(rest, c),
         script' = script, started' = started, got' = got,
         NEW after \in Seq(Chars), Arriving' \o after = Arriving \o rest,
         peer' # "reset" => /\ after = out' /\ peer # "reset"
                            /\ Len(Arriving) <= Len(Arriving'),
         Len(got) < started => Len(line') < c[Len(got) + 1]
  PROVE  Flowing'
<1>1. /\ Len(got) <= started /\ Len(got) \in Nat /\ started \in Nat
      /\ \A k \in 1..Len(got) : got[k] = Whole(script[k])
  BY Bytes DEF Flowing
<1>2. Cut(script, Arriving' \o after, c, Len(got), started)
  BY DEF Flow
<1>3. ASSUME peer' # "reset", Len(got) < started
      PROVE  c[started - 1] <= Len(Arriving')
  <2>1. c[started - 1] <= Len(Arriving) /\ Len(Arriving) <= Len(Arriving')
    BY <1>3 DEF Flow
  <2>2. Len(Arriving) \in Nat
    BY Bytes, LenProperties
  <2>3. Len(Arriving') \in Nat
    <3>1. Arriving' \in Seq(Chars)
      <4>1. (TypeOK => Arriving \in Seq(Chars))'
        BY Bytes, PTL
      <4> QED
        BY <4>1
    <3> QED
      BY <3>1, LenProperties
  <2>4. c[started - 1] \in Nat
    <3>1. started - 1 \in Len(got)..started
      BY <1>1, <1>3
    <3> QED
      BY <3>1
  <2> QED
    BY <2>1, <2>2, <2>3, <2>4
<1>4. Flow(after, c)'
  BY <1>2, <1>3 DEF Flow
<1>5. c \in [Len(got')..started' -> Nat]
  OBVIOUS
<1> QED
  BY <1>1, <1>4, <1>5 DEF Flowing
-----------------------------------------------------------------------------
LEMMA SendFlows ==
  ASSUME TypeOK, TypeOK', Flowing, Send
  PROVE  Flowing'
<1>1. PICK rest \in Seq(Chars), c \in [Len(got)..started -> Nat] : Flow(rest, c)
  BY DEF Flowing
<1>2. /\ Len(got) <= started /\ Len(got) \in Nat /\ started \in Nat
      /\ started < Len(script) /\ script \in Seq(MessagesToSend)
      /\ \A k \in 1..Len(got) : got[k] = Whole(script[k])
  BY Bytes DEF Flowing, Send
<1>3. /\ script' = script /\ started' = started + 1 /\ got' = got /\ line' = line
      /\ out' = Encode(script[started + 1]) /\ peer' = "open" /\ peer = "open"
      /\ Arriving' = Arriving
  BY DEF Send, Arriving
<1>4. rest = <<>> /\ Arriving \in Seq(Chars)
  BY <1>1, Bytes DEF Send, Flow
<1>5. Arriving \o rest = Arriving
  BY <1>4, ConcatEmptySeq
<1>6. Cut(script, Arriving, c, Len(got), started)
  BY <1>1, <1>5 DEF Flow
<1>7. PICK d \in [Len(got)..(started + 1) -> Nat] :
        /\ Cut(script, Arriving \o Encode(script[started + 1]), d, Len(got), started + 1)
        /\ Shifted(c, d, 0, Len(got), started)
  <2> DEFINE lo == Len(got)
  <2>1. /\ script \in Seq(MessagesToSend) /\ Arriving \in Seq(Chars) /\ lo \in Nat
        /\ started \in Nat /\ lo <= started /\ started < Len(script)
        /\ c \in [lo..started -> Nat] /\ Cut(script, Arriving, c, lo, started)
    BY <1>1, <1>2, <1>4, <1>6
  <2> HIDE DEF lo
  <2>2. \E d \in [lo..(started + 1) -> Nat] :
          /\ Cut(script, Arriving \o Encode(script[started + 1]), d, lo, started + 1)
          /\ Shifted(c, d, 0, lo, started)
    BY ONLY <2>1, CutExtend
  <2> QED
    BY <2>2 DEF lo
<1>8. d[started] = Len(Arriving) /\ Len(Arriving) \in Nat
  <2>1. started \in Len(got)..started
    BY <1>2
  <2>2. d[started] = c[started] - 0 /\ c[started] = Len(Arriving)
    BY <1>6, <1>7, <2>1 DEF Cut, Shifted
  <2>3. Len(Arriving) \in Nat
    BY <1>4, LenProperties
  <2> QED
    BY <2>2, <2>3
<1>9. Len(line) < d[Len(got) + 1]
  <2>1. CASE Len(got) < started
    <3>1. Len(got) + 1 \in Len(got)..started
      BY <1>2, <2>1
    <3>2. d[Len(got) + 1] = c[Len(got) + 1] - 0 /\ c[Len(got) + 1] \in Nat
      BY <1>7, <3>1 DEF Shifted
    <3>3. Len(line) < c[Len(got) + 1]
      BY <1>1, <2>1 DEF Flow
    <3> QED
      BY <3>2, <3>3
  <2>2. CASE Len(got) = started
    <3>1. d[Len(got)] < d[Len(got) + 1]
      <4>1. /\ Len(got) \in Len(got)..(started + 1)
            /\ Len(got) + 1 \in Len(got)..(started + 1) /\ Len(got) < Len(got) + 1
        BY <1>2
      <4> QED
        BY <1>7, <4>1 DEF Cut
    <3>2. d[Len(got)] = 0
      BY <1>7 DEF Cut
    <3>3. Len(line) = 0
      <4>1. Len(Arriving) = 0
        BY <1>8, <2>2, <3>2
      <4>2. /\ Len(Arriving) = Len(line \o rio_buf) + Len(wire)
            /\ Len(line \o rio_buf) = Len(line) + Len(rio_buf)
            /\ Len(line) \in Nat /\ Len(rio_buf) \in Nat /\ Len(wire) \in Nat
        BY Bytes, Concat DEF Arriving
      <4> DEFINE p == Len(line)
                 q == Len(rio_buf)
                 r == Len(wire)
                 s == Len(line \o rio_buf)
                 t == Len(Arriving)
      <4>3. t = 0 /\ t = s + r /\ s = p + q /\ p \in Nat /\ q \in Nat /\ r \in Nat
        BY <4>1, <4>2
      <4> HIDE DEF p, q, r, s, t
      <4>4. p = 0
        BY <4>3
      <4> QED
        BY <4>4 DEF p
    <3> QED
      BY <3>1, <3>2, <3>3
  <2> QED
    BY <1>2, <2>1, <2>2
<1>10. PICK e \in Seq(Chars) : e = Encode(script[started + 1])
  <2>1. out' \in Seq(Chars)
    BY DEF TypeOK
  <2> QED
    BY <1>3, <2>1
<1>11. Flow(e, d)'
  <2>1. (started + 1) - 1 = started
    BY <1>2
  <2>2. d[(started + 1) - 1] <= Len(Arriving)
    BY <1>8, <2>1
  <2> QED
    BY <1>3, <1>7, <1>9, <1>10, <2>2 DEF Flow
<1>12. d \in [Len(got')..started' -> Nat]
  BY <1>3
<1>13. /\ Len(got') <= started'
       /\ \A k \in 1..Len(got') : got'[k] = Whole(script'[k])
  BY <1>2, <1>3
<1> QED
  BY <1>11, <1>12, <1>13 DEF Flowing

LEMMA WriteFlows ==
  ASSUME TypeOK, TypeOK', Flowing, NEW n \in 1..Len(out), WriteSome(n)
  PROVE  Flowing'
<1>1. PICK rest \in Seq(Chars), c \in [Len(got)..started -> Nat] : Flow(rest, c)
  BY DEF Flowing
<1> DEFINE x == SubSeq(out, 1, n)
           y == SubSeq(out, n + 1, Len(out))
           a == line \o rio_buf
<1>2. /\ x \in Seq(Chars) /\ y \in Seq(Chars) /\ x \o y = out
      /\ a \in Seq(Chars) /\ wire \in Seq(Chars) /\ Arriving = a \o wire
  BY Bytes, Split DEF Arriving
<1>3. /\ script' = script /\ started' = started /\ got' = got /\ line' = line
      /\ peer = "open" /\ peer' = "open" /\ out' = y
      /\ Arriving' = a \o (wire \o x)
  BY DEF WriteSome, Arriving
<1>4. rest = x \o y
  BY <1>1, <1>2, <1>3 DEF Flow
<1> HIDE DEF x, y, a
<1>5. Arriving' = Arriving \o x
  <2>1. a \in Seq(Chars) /\ wire \in Seq(Chars) /\ x \in Seq(Chars)
    BY <1>2
  <2>2. (a \o wire) \o x = a \o (wire \o x)
    BY ONLY <2>1, Associative, SMTT(40)
  <2> QED
    BY <1>2, <1>3, <2>2
<1>6. Arriving' \o y = Arriving \o rest
  <2>1. Arriving \in Seq(Chars) /\ x \in Seq(Chars) /\ y \in Seq(Chars)
    BY <1>2, Bytes
  <2>2. (Arriving \o x) \o y = Arriving \o (x \o y)
    BY ONLY <2>1, Associative, SMTT(40)
  <2> QED
    BY <1>4, <1>5, <2>2
<1>7. Len(Arriving) <= Len(Arriving')
  <2>1. Arriving \in Seq(Chars) /\ x \in Seq(Chars)
    BY <1>2, Bytes
  <2>2. /\ Len(Arriving \o x) = Len(Arriving) + Len(x)
        /\ Len(Arriving) \in Nat /\ Len(x) \in Nat
    BY ONLY <2>1, Concat
  <2> QED
    BY <1>5, <2>2
<1>8. Len(got) < started => Len(line') < c[Len(got) + 1]
  BY <1>1, <1>3 DEF Flow
<1> QED
  BY <1>1, <1>2, <1>3, <1>6, <1>7, <1>8, Moves

LEMMA CloseFlows ==
  ASSUME TypeOK, TypeOK', Flowing, Close
  PROVE  Flowing'
<1>1. PICK rest \in Seq(Chars), c \in [Len(got)..started -> Nat] : Flow(rest, c)
  BY DEF Flowing
<1>2. /\ script' = script /\ started' = started /\ got' = got /\ line' = line
      /\ peer = "open" /\ out' = out /\ Arriving' = Arriving
  BY DEF Close, Arriving
<1>3. rest = out /\ (Len(got) < started => Len(line') < c[Len(got) + 1])
  BY <1>1, <1>2 DEF Flow
<1>4. Len(Arriving) <= Len(Arriving')
  BY <1>2, Bytes, LenProperties
<1> QED
  BY <1>1, <1>2, <1>3, <1>4, Moves

LEMMA ResetFlows ==
  ASSUME TypeOK, TypeOK', Flowing, Reset
  PROVE  Flowing'
<1>1. PICK rest \in Seq(Chars), c \in [Len(got)..started -> Nat] : Flow(rest, c)
  BY DEF Flowing
<1> DEFINE a == line \o rio_buf
<1>2. /\ script' = script /\ started' = started /\ got' = got /\ line' = line
      /\ peer' = "reset" /\ Arriving' = a \o <<>>
      /\ Arriving = a \o wire /\ a \in Seq(Chars) /\ wire \in Seq(Chars)
  BY Bytes DEF Reset, Arriving
<1> HIDE DEF a
<1>3. Arriving' = a
  BY <1>2, ConcatEmptySeq
<1>4. wire \o rest \in Seq(Chars)
  BY <1>1, <1>2, ConcatProperties
<1>5. Arriving' \o (wire \o rest) = Arriving \o rest
  <2>1. a \in Seq(Chars) /\ wire \in Seq(Chars) /\ rest \in Seq(Chars)
    BY <1>1, <1>2
  <2>2. (a \o wire) \o rest = a \o (wire \o rest)
    BY ONLY <2>1, Associative, SMTT(40)
  <2> QED
    BY <1>2, <1>3, <2>2
<1>6. Len(got) < started => Len(line') < c[Len(got) + 1]
  BY <1>1, <1>2 DEF Flow
<1> QED
  BY <1>1, <1>2, <1>4, <1>5, <1>6, Moves

LEMMA RefillFlows ==
  ASSUME TypeOK, TypeOK', Flowing, NEW n \in 1..Len(wire), Refill(n)
  PROVE  Flowing'
<1>1. PICK rest \in Seq(Chars), c \in [Len(got)..started -> Nat] : Flow(rest, c)
  BY DEF Flowing
<1> DEFINE x == SubSeq(wire, 1, n)
           y == SubSeq(wire, n + 1, Len(wire))
<1>2. /\ x \in Seq(Chars) /\ y \in Seq(Chars) /\ x \o y = wire
      /\ line \in Seq(Chars) /\ rio_buf = <<>>
  BY Bytes, Split DEF Refill
<1>3. /\ script' = script /\ started' = started /\ got' = got /\ line' = line
      /\ peer' = peer /\ out' = out
      /\ Arriving' = (line \o x) \o y /\ Arriving = (line \o <<>>) \o wire
  BY <1>2 DEF Refill, Arriving
<1> HIDE DEF x, y
<1>4. Arriving' = Arriving
  <2>1. line \in Seq(Chars) /\ x \in Seq(Chars) /\ y \in Seq(Chars)
    BY <1>2
  <2>2. (line \o x) \o y = line \o (x \o y)
    BY ONLY <2>1, Associative, SMTT(40)
  <2>3. line \o <<>> = line
    BY <1>2, ConcatEmptySeq
  <2> QED
    BY <1>2, <1>3, <2>2, <2>3
<1>5. /\ Arriving' \o rest = Arriving \o rest
      /\ Len(Arriving) <= Len(Arriving')
      /\ peer # "reset" => rest = out
      /\ Len(got) < started => Len(line') < c[Len(got) + 1]
  BY <1>1, <1>3, <1>4, Bytes, LenProperties DEF Flow
<1> QED
  BY <1>1, <1>3, <1>5, Moves

-----------------------------------------------------------------------------
(* What has arrived of a line is the beginning of the next message.            *)
LEMMA Beginning ==
  ASSUME TypeOK, Flowing, NEW rest \in Seq(Chars),
         NEW c \in [Len(got)..started -> Nat], Flow(rest, c),
         NEW read \in Seq(Chars), NEW later \in Seq(Chars),
         Arriving = read \o later, read # <<>>, Len(read) <= Len(line) + 1
  PROVE  /\ Len(got) < started
         /\ script[Len(got) + 1] \in MessagesToSend
         /\ c[Len(got) + 1] = Len(Encode(script[Len(got) + 1]))
         /\ c[Len(got) + 1] \in Nat /\ Len(read) \in Nat \ {0}
         /\ Len(read) <= c[Len(got) + 1]
         /\ \A i \in 1..Len(read) : read[i] = Encode(script[Len(got) + 1])[i]
<1> DEFINE g == Len(got)
           v == Arriving \o rest
           after == later \o rest
<1>1. /\ g <= started /\ g \in Nat /\ started \in Nat /\ started <= Len(script)
      /\ script \in Seq(MessagesToSend) /\ Arriving \in Seq(Chars) /\ Len(line) \in Nat
  BY Bytes DEF Flowing
<1>2. after \in Seq(Chars) /\ v \in Seq(Chars)
  BY <1>1, ConcatProperties
<1>3. v = read \o after
  <2>1. read \in Seq(Chars) /\ later \in Seq(Chars) /\ rest \in Seq(Chars)
    OBVIOUS
  <2>2. (read \o later) \o rest = read \o (later \o rest)
    BY ONLY <2>1, Associative, SMTT(40)
  <2> QED
    BY <2>2
<1> HIDE DEF after
<1>4. /\ Len(read) \in Nat /\ Len(after) \in Nat /\ Len(v) = Len(read) + Len(after)
      /\ \A i \in 1..Len(read) : v[i] = read[i]
  <2>1. read \in Seq(Chars) /\ after \in Seq(Chars)
    BY <1>2
  <2>2. /\ Len(read) \in Nat /\ Len(after) \in Nat
        /\ Len(read \o after) = Len(read) + Len(after)
        /\ \A i \in 1..Len(read) : (read \o after)[i] = read[i]
    BY ONLY <2>1, Concat
  <2> QED
    BY <1>3, <2>2
<1>5. Len(read) \in Nat \ {0}
  BY <1>4, EmptySeq
<1> HIDE DEF v, g
<1>6. Cut(script, v, c, g, started) /\ c \in [g..started -> Nat]
  BY DEF Flow, v, g
<1>7. g < started
  <2>1. CASE g = started
    <3>1. Len(v) = 0
      BY <1>6, <2>1 DEF Cut
    <3>2. Len(v) # 0
      BY ONLY <1>4, <1>5
    <3> QED
      BY <3>1, <3>2
  <2> QED
    BY <1>1, <2>1
<1>8. /\ script[g + 1] \in MessagesToSend
      /\ c[g + 1] = Len(Encode(script[g + 1]))
      /\ c[g + 1] \in Nat
      /\ StartsWith(v, Encode(script[g + 1]))
  <2>1. /\ script \in Seq(MessagesToSend) /\ v \in Seq(Chars)
        /\ g \in Nat /\ started \in Nat /\ g < started /\ started <= Len(script)
        /\ c \in [g..started -> Nat] /\ Cut(script, v, c, g, started)
    BY <1>1, <1>2, <1>6, <1>7
  <2>2. /\ script[g + 1] \in MessagesToSend
        /\ c[g + 1] = Len(Encode(script[g + 1])) /\ c[g + 1] <= Len(v)
        /\ c[g + 1] \in Nat
        /\ StartsWith(v, Encode(script[g + 1]))
    BY ONLY <2>1, CutFirst
  <2> QED
    BY <2>2
<1>9. Len(read) <= c[g + 1]
  <2>1. Len(line) < c[g + 1]
    BY <1>7 DEF Flow, g
  <2> QED
    BY <1>1, <1>4, <1>8, <2>1
<1>10. ASSUME NEW i \in 1..Len(read) PROVE read[i] = Encode(script[g + 1])[i]
  <2>1. i \in 1..Len(Encode(script[g + 1]))
    BY <1>4, <1>8, <1>9
  <2> QED
    BY <1>4, <1>8, <2>1 DEF StartsWith
<1> QED
  BY <1>5, <1>7, <1>8, <1>9, <1>10 DEF g

(* A line that is a whole message is returned as that message.                 *)
LEMMA WholeLine ==
  ASSUME TypeOK, Flowing, NEW rest \in Seq(Chars),
         NEW c \in [Len(got)..started -> Nat], Flow(rest, c),
         NEW read \in Seq(Chars), NEW later \in Seq(Chars),
         Arriving = read \o later, Len(got) < started,
         script[Len(got) + 1] \in MessagesToSend,
         read = Encode(script[Len(got) + 1]), Len(read) = c[Len(got) + 1],
         Receive(read), Arriving' = later, line' = <<>>,
         script' = script, started' = started, peer' = peer, out' = out
  PROVE  Flowing'
<1> DEFINE g == Len(got)
           v == Arriving \o rest
           w == later \o rest
<1>1. /\ g <= started /\ g \in Nat /\ started \in Nat /\ started <= Len(script)
      /\ g < started
      /\ script \in Seq(MessagesToSend) /\ Arriving \in Seq(Chars) /\ Len(line) \in Nat
      /\ got \in Seq({Decode(s) : s \in Seq(Chars)})
      /\ \A k \in 1..Len(got) : got[k] = Whole(script[k])
  BY Bytes DEF Flowing
<1>2. w \in Seq(Chars) /\ v \in Seq(Chars)
  BY <1>1, ConcatProperties
<1>3. v = read \o w
  <2>1. read \in Seq(Chars) /\ later \in Seq(Chars) /\ rest \in Seq(Chars)
    OBVIOUS
  <2>2. (read \o later) \o rest = read \o (later \o rest)
    BY ONLY <2>1, Associative, SMTT(40)
  <2> QED
    BY <2>2
<1>4. Arriving' \o rest = w
  OBVIOUS
<1> HIDE DEF w
<1>5. /\ Len(v) = Len(read) + Len(w)
      /\ \A i \in 1..Len(w) : w[i] = v[Len(read) + i]
  <2>1. read \in Seq(Chars) /\ w \in Seq(Chars)
    BY <1>2
  <2>2. /\ Len(read \o w) = Len(read) + Len(w)
        /\ \A i \in 1..Len(w) : (read \o w)[Len(read) + i] = w[i]
    BY ONLY <2>1, Concat
  <2> QED
    BY <1>3, <2>2
<1>6. /\ Len(got') = g + 1
      /\ got'[g + 1] = Whole(script[g + 1])
      /\ \A k \in 1..g : got'[k] = got[k]
  <2>1. got' = Append(got, Decode(read)) /\ Decode(read) = Whole(script[g + 1])
    BY DecodeEncode DEF Receive
  <2>2. Decode(read) \in {Decode(s) : s \in Seq(Chars)}
    OBVIOUS
  <2> QED
    BY <1>1, <2>1, <2>2, AppendProperties
<1>7. /\ Len(Arriving) = Len(read) + Len(later)
      /\ Len(read) \in Nat /\ Len(later) \in Nat
  <2>1. read \in Seq(Chars) /\ later \in Seq(Chars)
    OBVIOUS
  <2>2. /\ Len(read \o later) = Len(read) + Len(later)
        /\ Len(read) \in Nat /\ Len(later) \in Nat
    BY ONLY <2>1, Concat
  <2> QED
    BY <2>2
<1> HIDE DEF v, g
<1>8. /\ Cut(script, v, c, g, started) /\ c \in [g..started -> Nat]
      /\ Len(read) = c[g + 1]
  BY DEF Flow, v, g
<1>9. PICK d \in [(g + 1)..started -> Nat] :
        /\ Cut(script, w, d, g + 1, started)
        /\ Shifted(c, d, c[g + 1], g + 1, started)
  <2>1. /\ Len(v) = c[g + 1] + Len(w)
        /\ \A i \in 1..Len(w) : w[i] = v[c[g + 1] + i]
    BY <1>5, <1>8
  <2> QED
    BY <1>1, <1>2, <1>8, <2>1, CutRest
<1>10. ASSUME g + 1 < started
       PROVE  0 < d[(g + 1) + 1]
  <2>1. g + 1 \in (g + 1)..started /\ (g + 1) + 1 \in (g + 1)..started
        /\ g + 1 < (g + 1) + 1
    BY <1>1, <1>10
  <2> QED
    BY <1>9, <2>1 DEF Cut
<1>11. ASSUME g + 1 < started, peer # "reset"
       PROVE  d[started - 1] <= Len(later)
  <2>1. started - 1 \in (g + 1)..started /\ started - 1 \in g..started
        /\ g + 1 \in g..started
    BY <1>1, <1>11
  <2>2. d[started - 1] = c[started - 1] - c[g + 1]
    BY <1>9, <2>1 DEF Shifted
  <2>3. c[started - 1] <= Len(Arriving)
    BY <1>1, <1>11 DEF Flow, g
  <2>4. c[started - 1] \in Nat /\ c[g + 1] \in Nat
    BY <1>8, <2>1
  <2> QED
    BY <1>7, <1>8, <2>2, <2>3, <2>4
<1>12. Flow(rest, d)'
  <2>1. Cut(script', Arriving' \o rest, d, Len(got'), started')
    BY <1>4, <1>6, <1>9
  <2>2. peer' # "reset" => rest = out'
    BY DEF Flow
  <2>3. ASSUME Len(got') < started'
        PROVE  /\ Len(line') < d[Len(got') + 1]
               /\ peer' # "reset" => d[started' - 1] <= Len(Arriving')
    <3>1. g + 1 < started /\ Len(line') = 0
      BY <1>6, <2>3, EmptySeq
    <3> QED
      BY <1>6, <1>10, <1>11, <3>1
  <2> QED
    BY <2>1, <2>2, <2>3 DEF Flow
<1>13. d \in [Len(got')..started' -> Nat] /\ Len(got') <= started'
  <2>1. Len(got') = g + 1 /\ started' = started
    BY <1>6
  <2>2. g + 1 <= started
    BY <1>1
  <2> QED
    BY <2>1, <2>2
<1>14. ASSUME NEW k \in 1..Len(got') PROVE got'[k] = Whole(script'[k])
  <2>1. k \in 1..g \/ k = g + 1
    BY <1>1, <1>6
  <2>2. CASE k \in 1..g
    BY <1>1, <1>6, <2>2 DEF g
  <2>3. CASE k = g + 1
    BY <1>6, <2>3
  <2> QED
    BY <2>1, <2>2, <2>3
<1> QED
  BY <1>12, <1>13, <1>14 DEF Flowing

-----------------------------------------------------------------------------
LEMMA ReadFlows ==
  ASSUME Fits, TypeOK, TypeOK', Flowing, ReadChar
  PROVE  Flowing'
<1>1. PICK rest \in Seq(Chars), c \in [Len(got)..started -> Nat] : Flow(rest, c)
  BY DEF Flowing
<1> DEFINE read == Append(line, Head(rio_buf))
           later == Tail(rio_buf) \o wire
           e == Encode(script[Len(got) + 1])
<1>2. /\ line \in Seq(Chars) /\ rio_buf \in Seq(Chars) /\ wire \in Seq(Chars)
      /\ Tail(rio_buf) \in Seq(Chars) /\ rio_buf # <<>>
      /\ Len(line) \in Nat /\ Len(got) \in Nat /\ started \in Nat
      /\ script \in Seq(MessagesToSend) /\ started <= Len(script)
      /\ read \in Seq(Chars) /\ read \o Tail(rio_buf) = line \o rio_buf
      /\ Arriving \in Seq(Chars)
  BY Bytes, OneChar DEF ReadChar
<1>3. Len(read) = Len(line) + 1 /\ read # <<>> /\ Last(read) = read[Len(read)]
  <2>1. Head(rio_buf) \in Chars
    BY <1>2, HeadTailProperties
  <2>2. Len(read) = Len(line) + 1
    BY <1>2, <2>1, AppendProperties
  <2>3. Last(read) = read[Len(read)]
    BY DEF Last
  <2> HIDE DEF read
  <2>4. read # <<>>
    BY <1>2, <2>2, EmptySeq
  <2> QED
    BY <2>2, <2>3, <2>4
<1>4. /\ IF Last(read) = "\n" \/ Len(read) = MAX_LEN - 1
           THEN Receive(read)
           ELSE line' = read /\ UNCHANGED <<got, last_result>>
      /\ rio_buf' = Tail(rio_buf)
      /\ script' = script /\ started' = started /\ out' = out /\ wire' = wire
      /\ peer' = peer
  BY DEF ReadChar
<1> HIDE DEF read
<1>5. later \in Seq(Chars)
  BY <1>2, ConcatProperties
<1>6. Arriving = read \o later
  <2>1. read \in Seq(Chars) /\ Tail(rio_buf) \in Seq(Chars) /\ wire \in Seq(Chars)
    BY <1>2
  <2>2. (read \o Tail(rio_buf)) \o wire = read \o (Tail(rio_buf) \o wire)
    BY ONLY <2>1, Associative, SMTT(40)
  <2>3. Arriving = (read \o Tail(rio_buf)) \o wire
    BY <1>2 DEF Arriving
  <2> QED
    BY <2>2, <2>3
<1> HIDE DEF later
<1>7. /\ Len(got) < started
      /\ script[Len(got) + 1] \in MessagesToSend
      /\ c[Len(got) + 1] = Len(e)
      /\ c[Len(got) + 1] \in Nat /\ Len(read) \in Nat \ {0}
      /\ Len(read) <= c[Len(got) + 1]
      /\ \A i \in 1..Len(read) : read[i] = e[i]
  <2>1. Len(read) <= Len(line) + 1
    BY <1>2, <1>3
  <2> QED
    BY <1>1, <1>2, <1>3, <1>5, <1>6, <2>1, Beginning
<1>8. e \in Seq(Chars) /\ Len(e) \in Nat /\ e[Len(e)] = "\n"
  BY <1>7, EncodeProperties, LenProperties
<1>9. Len(e) <= MAX_LEN - 1 /\ MAX_LEN \in Nat
  <2>1. script \in Scripts
    BY DEF TypeOK
  <2>2. Len(got) + 1 \in DOMAIN script
    BY <1>2, <1>7
  <2> QED
    BY <2>1, <2>2, FramingAssumption DEF Fits
<1>10. CASE Len(read) = Len(e)
  <2>1. read = e
    BY <1>2, <1>7, <1>8, <1>10, SeqEqual
  <2>2. Receive(read)
    <3>1. Last(read) = "\n"
      BY <1>3, <1>8, <2>1
    <3> QED
      BY <1>4, <3>1
  <2>3. line' = <<>>
    BY <2>2 DEF Receive
  <2>4. Arriving' = later
    <3>1. Arriving' = (<<>> \o Tail(rio_buf)) \o wire
      BY <1>4, <2>3 DEF Arriving
    <3>2. <<>> \o Tail(rio_buf) = Tail(rio_buf)
      BY <1>2, ConcatEmptySeq
    <3> QED
      BY <3>1, <3>2 DEF later
  <2>5. Len(read) = c[Len(got) + 1] /\ read = Encode(script[Len(got) + 1])
    BY <1>7, <1>10, <2>1
  <2> QED
    BY <1>1, <1>2, <1>4, <1>5, <1>6, <1>7, <2>2, <2>3, <2>4, <2>5, WholeLine
<1>11. CASE Len(read) # Len(e)
  <2>1. Len(read) < Len(e)
    BY <1>7, <1>8, <1>11
  <2>2. Last(read) # "\n"
    <3>1. Len(read) \in 1..Len(Encode(script[Len(got) + 1]))
      BY <1>7, <1>8, <2>1
    <3>2. e[Len(read)] # "\n"
      BY <1>7, <1>11, <3>1, NewlineLast
    <3>3. read[Len(read)] = e[Len(read)]
      BY <1>7
    <3> QED
      BY <1>3, <3>2, <3>3
  <2>3. Len(read) # MAX_LEN - 1
    BY <1>7, <1>8, <1>9, <2>1
  <2>4. line' = read /\ got' = got
    BY <1>4, <2>2, <2>3
  <2>5. Arriving' = Arriving
    <3>1. Arriving' = (read \o Tail(rio_buf)) \o wire
      BY <1>4, <2>4 DEF Arriving
    <3>2. Arriving = (read \o Tail(rio_buf)) \o wire
      BY <1>2 DEF Arriving
    <3> QED
      BY <3>1, <3>2
  <2>6. /\ Arriving' \o rest = Arriving \o rest
        /\ Len(Arriving) <= Len(Arriving')
        /\ peer # "reset" => rest = out
        /\ Len(line') < c[Len(got) + 1]
    BY <1>1, <1>2, <1>7, <2>1, <2>4, <2>5, LenProperties DEF Flow
  <2> QED
    BY <1>1, <1>4, <2>4, <2>6, Moves
<1> QED
  BY <1>10, <1>11

LEMMA EndFlows ==
  ASSUME TypeOK, TypeOK', Flowing, EndOfFile
  PROVE  Flowing' \/ Broken'
<1>1. PICK rest \in Seq(Chars), c \in [Len(got)..started -> Nat] : Flow(rest, c)
  BY DEF Flowing
<1>2. /\ line \in Seq(Chars) /\ Len(line) \in Nat /\ Len(got) \in Nat
      /\ started \in Nat /\ Arriving \in Seq(Chars)
      /\ got \in Seq({Decode(s) : s \in Seq(Chars)})
  BY Bytes
<1>3. /\ rio_buf = <<>> /\ wire = <<>> /\ peer = "closed"
      /\ script' = script /\ started' = started /\ out' = out /\ wire' = <<>>
      /\ peer' = peer /\ rio_buf' = <<>>
  BY DEF EndOfFile, AtEnd
<1>4. rest = out
  BY <1>1, <1>3 DEF Flow
<1>5. Arriving = line
  <2>1. line \o <<>> = line
    BY <1>2, ConcatEmptySeq
  <2> QED
    BY <1>3, <2>1 DEF Arriving
<1>6. CASE line = <<>>
  <2>1. line' = line /\ got' = got
    BY <1>6 DEF EndOfFile
  <2>2. Arriving' = Arriving
    BY <1>3, <2>1 DEF Arriving
  <2>3. /\ Arriving' \o rest = Arriving \o rest
        /\ Len(Arriving) <= Len(Arriving')
        /\ Len(got) < started => Len(line') < c[Len(got) + 1]
    BY <1>1, <1>2, <2>1, <2>2, LenProperties DEF Flow
  <2> QED
    BY <1>1, <1>3, <1>4, <2>1, <2>3, Moves
<1>7. CASE line # <<>>
  <2>1. Receive(line)
    BY <1>7 DEF EndOfFile
  <2>2. <<>> \in Seq(Chars) /\ Arriving = line \o <<>>
    BY <1>2, <1>5, EmptySeq, ConcatEmptySeq
  <2>3. /\ Len(got) < started
        /\ c[Len(got) + 1] \in Nat
    <3>1. Len(line) <= Len(line) + 1
      BY <1>2
    <3> QED
      BY <1>1, <1>2, <1>7, <2>2, <3>1, Beginning
  <2>4. /\ Len(line) < c[Len(got) + 1] /\ c[started - 1] <= Len(line)
        /\ Cut(script, line \o out, c, Len(got), started)
    BY <1>1, <1>3, <1>4, <1>5, <2>3 DEF Flow
  <2>5. started = Len(got) + 1
    <3>1. SUFFICES ASSUME Len(got) + 1 < started PROVE FALSE
      BY <1>2, <2>3
    <3>2. Len(got) + 1 \in Len(got)..started /\ started - 1 \in Len(got)..started
      BY <1>2, <3>1
    <3>3. Len(got) + 1 = started - 1 \/ Len(got) + 1 < started - 1
      BY <1>2, <3>1
    <3>4. Len(got) + 1 < started - 1 => c[Len(got) + 1] < c[started - 1]
      BY <2>4, <3>2 DEF Cut
    <3>5. c[Len(got) + 1] \in Nat /\ c[started - 1] \in Nat
      BY <1>1, <3>2
    <3> QED
      BY <1>2, <2>4, <3>3, <3>4, <3>5
  <2>6. out # <<>>
    <3>1. SUFFICES ASSUME out = <<>> PROVE FALSE
      OBVIOUS
    <3>2. line \o out = line
      BY <1>2, <3>1, ConcatEmptySeq
    <3>3. c[started] = Len(line)
      BY <2>4, <3>2 DEF Cut
    <3> QED
      BY <1>2, <2>4, <2>5, <3>3
  <2>7. /\ Len(got') = Len(got) + 1
        /\ \A k \in 1..Len(got) : got'[k] = got[k]
        /\ line' = <<>>
    <3>1. got' = Append(got, Decode(line)) /\ line' = <<>>
      BY <2>1 DEF Receive
    <3>2. Decode(line) \in {Decode(s) : s \in Seq(Chars)}
      BY <1>2
    <3> QED
      BY <1>2, <3>1, <3>2, AppendProperties
  <2>8. ASSUME NEW k \in 1..Len(got'), k # started'
        PROVE  got'[k] = Whole(script'[k])
    <3>1. k \in 1..Len(got)
      BY <1>2, <1>3, <2>5, <2>7, <2>8
    <3> QED
      BY <1>3, <2>7, <3>1 DEF Flowing
  <2>9. Broken'
    BY <1>3, <2>5, <2>6, <2>7, <2>8 DEF Broken
  <2> QED
    BY <2>9
<1> QED
  BY <1>6, <1>7

(* After that nothing more is written or read.                                 *)
LEMMA BrokenStays ==
  ASSUME TypeOK, Broken, [Next]_vars
  PROVE  Broken'
<1>1. CASE Send \/ Close \/ (\E n \in 1..Len(out) : WriteSome(n))
  BY <1>1 DEF Broken, Send, Close, WriteSome
<1>2. CASE Reset
  BY <1>2 DEF Broken, Reset
<1>3. CASE \E n \in 1..Len(wire) : Refill(n)
  <2>1. Len(wire) = 0
    BY EmptySeq DEF Broken
  <2> QED
    BY <1>3, <2>1
<1>4. CASE ReadChar
  BY <1>4 DEF Broken, ReadChar
<1>5. CASE EndOfFile
  BY <1>5 DEF Broken, EndOfFile
<1>6. CASE ReadFails
  BY <1>6 DEF Broken, ReadFails
<1>7. CASE UNCHANGED vars
  BY <1>7 DEF Broken, vars
<1> QED
  BY <1>1, <1>2, <1>3, <1>4, <1>5, <1>6, <1>7 DEF Next, Writer, Reader

LEMMA Stays ==
  ASSUME TypeOK, TypeOK', Flowing, ReadFails \/ UNCHANGED vars
  PROVE  Flowing'
<1>1. PICK rest \in Seq(Chars), c \in [Len(got)..started -> Nat] : Flow(rest, c)
  BY DEF Flowing
<1>2. /\ script' = script /\ started' = started /\ got' = got /\ line' = line
      /\ peer' = peer /\ out' = out /\ Arriving' = Arriving
  BY DEF ReadFails, vars, Arriving
<1>3. /\ peer # "reset" => rest = out
      /\ Len(got) < started => Len(line') < c[Len(got) + 1]
  BY <1>1, <1>2 DEF Flow
<1>4. Len(Arriving) <= Len(Arriving')
  BY <1>2, Bytes, LenProperties
<1> QED
  BY <1>1, <1>2, <1>3, <1>4, Moves

LEMMA Invariance ==
  ASSUME Fits
  PROVE  Spec => []IInv
<1>1. ASSUME IInv, [Next]_vars PROVE IInv'
  <2>1. TypeOK /\ TypeOK'
    BY <1>1, NextType DEF IInv
  <2>2. CASE Broken
    BY <1>1, <2>1, <2>2, BrokenStays DEF IInv
  <2>3. CASE Flowing
    <3>1. CASE Send
      BY <2>1, <2>3, <3>1, SendFlows DEF IInv
    <3>2. CASE \E n \in 1..Len(out) : WriteSome(n)
      BY <2>1, <2>3, <3>2, WriteFlows DEF IInv
    <3>3. CASE Close
      BY <2>1, <2>3, <3>3, CloseFlows DEF IInv
    <3>4. CASE Reset
      BY <2>1, <2>3, <3>4, ResetFlows DEF IInv
    <3>5. CASE \E n \in 1..Len(wire) : Refill(n)
      BY <2>1, <2>3, <3>5, RefillFlows DEF IInv
    <3>6. CASE ReadChar
      BY <2>1, <2>3, <3>6, ReadFlows DEF IInv
    <3>7. CASE EndOfFile
      BY <2>1, <2>3, <3>7, EndFlows DEF IInv
    <3>8. CASE ReadFails \/ UNCHANGED vars
      BY <2>1, <2>3, <3>8, Stays DEF IInv
    <3> QED
      BY <1>1, <3>1, <3>2, <3>3, <3>4, <3>5, <3>6, <3>7, <3>8 DEF Next, Writer, Reader
  <2> QED
    BY <1>1, <2>2, <2>3 DEF IInv
<1> QED
  BY <1>1, FlowInit, PTL DEF Spec

(* However write, the network and read cut the bytes, Connection::receive      *)
(* returns the messages that Connection::send was given, each whole and in     *)
(* order, and only when the peer goes away within a message is the last one    *)
(* less: for every set of characters, every script whose messages fit, and     *)
(* every MAX_LEN.  The run framing_maxlen shows what happens to a message that *)
(* does not fit.                                                               *)
THEOREM MessagesWhole ==
  ASSUME Fits
  PROVE  Spec => []MessagesArriveWhole
<1>1. IInv => MessagesArriveWhole
  <2> SUFFICES ASSUME IInv PROVE MessagesArriveWhole
    OBVIOUS
  <2>1. DOMAIN got = 1..Len(got) /\ Len(got) \in Nat /\ started \in Nat
    BY Bytes DEF IInv
  <2>2. CASE Flowing
    <3>1. Len(got) <= started /\ \A k \in 1..Len(got) : got[k] = Whole(script[k])
      BY <2>2 DEF Flowing
    <3> QED
      BY <2>1, <3>1 DEF MessagesArriveWhole
  <2>3. CASE Broken
    <3>1. /\ Len(got) = started /\ peer # "open" /\ out # <<>>
          /\ \A k \in 1..Len(got) : k # started => got[k] = Whole(script[k])
      BY <2>3 DEF Broken
    <3>2. ASSUME NEW k \in 1..Len(got)
          PROVE  /\ k <= started
                 /\ \/ got[k] = Whole(script[k])
                    \/ k = Len(got) /\ k = started /\ peer # "open" /\ out # <<>>
      BY <2>1, <3>1
    <3> QED
      BY <2>1, <3>2 DEF MessagesArriveWhole
  <2> QED
    BY <2>2, <2>3 DEF IInv
<1> QED
  BY <1>1, Invariance, PTL
=============================================================================
