-------------------------- MODULE SequentialProofs --------------------------
(***************************************************************************)
(* Proofs about the two sequential programs: the word counter (WordCount), *)
(* for every text, length of a word, number of buckets and either library, *)
(* and the 256-bit integers (UInt256), for any number of words, digits of  *)
(* a word and bits of a digit.                                             *)
(*                                                                         *)
(* Both compute with loops over sequences, which the models write as folds *)
(* of the community modules.  The first part says what a fold returns; all *)
(* of it rests on one lemma, Induction, which is proved from the theorems  *)
(* on finite sets.                                                         *)
(*                                                                         *)
(* The argument about the integers: the value of an array of words is a    *)
(* sum of digits (IsSum), each of the operations is an identity between    *)
(* such sums, shown by induction over the words or the digits, and what    *)
(* must be known of powers of 2 is proved from the number of subsets.      *)
(***************************************************************************)
EXTENDS WordCount, UInt256, FiniteSetTheorems, TLAPS

-----------------------------------------------------------------------------
(* Induction and folds. *)

(* Induction: the numbers below one outside S would be mapped into themselves *)
(* by the predecessor, which a finite set does not allow.                     *)
LEMMA Induction ==
  ASSUME NEW S, 0 \in S, \A n \in Nat : n \in S => n + 1 \in S
  PROVE  Nat \subseteq S
<1> SUFFICES ASSUME NEW x \in Nat, x \notin S
             PROVE  FALSE
  OBVIOUS
<1> DEFINE T == {n \in 0..x : n \notin S}
           pred == [n \in T |-> n - 1]
<1>1. IsFiniteSet(T) /\ x \in T /\ T \subseteq Nat
  <2>1. IsFiniteSet(0..x) /\ T \in SUBSET (0..x)
    BY FS_Interval
  <2> QED
    BY <2>1, FS_Subset
<1>2. \A n \in T : n - 1 \in T
  <2> SUFFICES ASSUME NEW n \in T PROVE n - 1 \in T
    OBVIOUS
  <2>1. n # 0 /\ n - 1 \in Nat /\ (n - 1) + 1 = n
    OBVIOUS
  <2> QED
    BY <2>1
<1>3. pred \in Injection(T, T)
  BY <1>1, <1>2 DEF Injection, IsInjective
<1>4. pred \in Surjection(T, T)
  BY <1>1, <1>3, FS_Injection
<1>5. PICK y \in T : pred[y] = x
  BY <1>1, <1>4 DEF Surjection
<1> QED
  BY <1>5

(* Every set of naturals that has an element has a least one.                  *)
LEMMA LeastNatural ==
  ASSUME NEW S \in SUBSET Nat, NEW x \in S
  PROVE  \E m \in S : \A k \in S : m <= k
<1> SUFFICES ASSUME \A m \in S : \E k \in S : k < m
             PROVE  FALSE
  OBVIOUS
<1> DEFINE T == {n \in Nat : \A k \in 0..n : k \notin S}
<1>1. 0 \in T
  OBVIOUS
<1>2. \A n \in Nat : n \in T => n + 1 \in T
  OBVIOUS
<1> HIDE DEF T
<1>3. x \in T
  BY <1>1, <1>2, Induction
<1> QED
  BY <1>3 DEF T

(* The Max of the community modules, named by its element, and found among the *)
(* first n numbers.                                                            *)
LEMMA MaxIs ==
  ASSUME NEW x \in SUBSET Int, NEW m \in x, \A y \in x : m >= y
  PROVE  Max(x) = m
<1>1. Max(x) \in x /\ \A y \in x : Max(x) >= y
  BY DEF Max
<1>2. Max(x) >= m /\ m >= Max(x) /\ Max(x) \in Int /\ m \in Int
  BY <1>1
<1> QED
  BY <1>2

LEMMA LargestIn ==
  ASSUME NEW n \in Nat, NEW x \in SUBSET (1..n), x # {}
  PROVE  Max(x) \in x /\ Max(x) \in 1..n
<1> DEFINE S == {m \in Nat : n - m \in x}
<1>1. PICK y \in x : n - y \in S
  <2>1. \A y \in x : n - y \in Nat /\ n - (n - y) = y
    OBVIOUS
  <2> QED
    BY <2>1
<1>2. S \in SUBSET Nat
  OBVIOUS
<1>3. PICK m \in S : \A k \in S : m <= k
  <2> HIDE DEF S
  <2> QED
    BY <1>1, <1>2, LeastNatural
<1>4. n - m \in x /\ x \in SUBSET Int
  BY <1>3
<1>5. \A z \in x : n - m >= z
  <2> SUFFICES ASSUME NEW z \in x PROVE n - m >= z
    OBVIOUS
  <2>1. n - z \in S
    <3>1. n - z \in Nat /\ n - (n - z) = z
      OBVIOUS
    <3> QED
      BY <3>1
  <2>2. m <= n - z /\ m \in Nat
    BY <1>3, <2>1
  <2> QED
    BY <2>2
<1>6. Max(x) = n - m
  BY ONLY <1>4, <1>5, MaxIs
<1> QED
  BY <1>4, <1>6

(* What the folds of the community modules compute.  For a fold over 1..n that *)
(* starts with b and whose step k takes v to G[k][v], f has the results over   *)
(* all parts of 1..n, and r the one after every step.                          *)
IsFold(f, n, V, b, G) ==
  /\ f \in [SUBSET (1..n) -> V]
  /\ \A x \in SUBSET (1..n) : f[x] = IF x = {} THEN b ELSE G[Max(x)][f[x \ {Max(x)}]]

Unfolds(it, n, V, b, G) ==
  /\ it[{}] = b
  /\ \A x \in SUBSET (1..n) :
       x # {} /\ it[x \ {Max(x)}] \in V => it[x] = G[Max(x)][it[x \ {Max(x)}]]

IsRun(r, n, V, b, G) ==
  /\ r \in [0..n -> V] /\ r[0] = b
  /\ \A k \in 1..n : r[k] = G[k][r[k - 1]]

IsReached(v, n, V, b, G) == \E r : IsRun(r, n, V, b, G) /\ r[n] = v

(* A fold exists.                                                              *)
LEMMA FoldExists ==
  ASSUME NEW n \in Nat, NEW V, NEW b \in V, NEW G \in [1..n -> [V -> V]]
  PROVE  \E f : IsFold(f, n, V, b, G)
<1> DEFINE Fold(f, m) ==
             /\ f \in [SUBSET (1..m) -> V]
             /\ \A x \in SUBSET (1..m) :
                  f[x] = IF x = {} THEN b ELSE G[Max(x)][f[x \ {Max(x)}]]
           Some(m) == \E f : Fold(f, m)
           S == {m \in Nat : m <= n => Some(m)}
<1>1. 0 \in S
  <2>1. Fold([x \in {{}} |-> b], 0)
    <3>1. 1..0 = {} /\ SUBSET {} = {{}}
      OBVIOUS
    <3> QED
      BY <3>1
  <2>2. Some(0)
    BY <2>1
  <2> QED
    BY <2>2
<1>2. ASSUME NEW m \in Nat, Some(m), m + 1 <= n PROVE Some(m + 1)
  <2>1. PICK f : Fold(f, m)
    BY <1>2
  <2> DEFINE g == [x \in SUBSET (1..(m + 1)) |->
                     IF m + 1 \in x THEN G[m + 1][f[x \ {m + 1}]] ELSE f[x]]
  <2>2. \A x \in SUBSET (1..(m + 1)) : /\ m + 1 \notin x => x \in SUBSET (1..m)
                                       /\ x \ {m + 1} \in SUBSET (1..m)
    OBVIOUS
  <2>3. g \in [SUBSET (1..(m + 1)) -> V]
    BY <1>2, <2>1, <2>2
  <2>4. ASSUME NEW x \in SUBSET (1..(m + 1))
        PROVE  g[x] = IF x = {} THEN b ELSE G[Max(x)][g[x \ {Max(x)}]]
    <3>1. x \ {Max(x)} \in SUBSET (1..(m + 1))
      OBVIOUS
    <3>2. CASE m + 1 \in x
      <4>1. Max(x) = m + 1
        BY <3>2, MaxIs
      <4>2. g[x \ {m + 1}] = f[x \ {m + 1}]
        BY <2>2
      <4> QED
        BY <3>2, <4>1, <4>2
    <3>3. CASE m + 1 \notin x
      <4>1. g[x] = f[x] /\ g[x \ {Max(x)}] = f[x \ {Max(x)}]
        BY <3>1, <3>3
      <4> QED
        BY <2>1, <2>2, <3>3, <4>1
    <3> QED
      BY <3>2, <3>3
  <2> HIDE DEF g
  <2>5. Fold(g, m + 1)
    BY <2>3, <2>4
  <2> QED
    BY <2>5
<1>3. \A m \in Nat : m \in S => m + 1 \in S
  <2> HIDE DEF Some
  <2> QED
    BY <1>2
<1>4. Some(n)
  <2> HIDE DEF Some
  <2> HIDE DEF S
  <2>1. n \in S
    BY <1>1, <1>3, Induction
  <2> QED
    BY <2>1 DEF S
<1> QED
  BY <1>4 DEF IsFold

(* What a fold returns is reached step by step.                                *)
LEMMA FoldSteps ==
  ASSUME NEW n \in Nat, NEW V, NEW b \in V, NEW G \in [1..n -> [V -> V]],
         NEW it, Unfolds(it, n, V, b, G)
  PROVE  IsReached(it[1..n], n, V, b, G)
<1> DEFINE S == {k \in Nat : k <= n => it[1..k] \in V}
           r == [k \in 0..n |-> it[1..k]]
<1>1. 1..0 = {}
  OBVIOUS
<1>2. ASSUME NEW k \in 1..n, it[1..(k - 1)] \in V
      PROVE  it[1..k] = G[k][it[1..(k - 1)]]
  <2>1. 1..k \in SUBSET (1..n) /\ 1..k # {} /\ k \in 1..k
    <3>1. k \in 1..k /\ \A y \in 1..k : y \in 1..n
      OBVIOUS
    <3> QED
      BY <3>1
  <2>2. Max(1..k) = k
    <3>1. 1..k \in SUBSET Int /\ \A y \in 1..k : k >= y
      OBVIOUS
    <3> QED
      BY <2>1, <3>1, MaxIs
  <2>3. (1..k) \ {k} = 1..(k - 1)
    OBVIOUS
  <2> QED
    BY <1>2, <2>1, <2>2, <2>3 DEF Unfolds
<1>3. 0 \in S
  BY <1>1 DEF Unfolds
<1>4. ASSUME NEW k \in Nat, k \in S PROVE k + 1 \in S
  <2> SUFFICES ASSUME k + 1 <= n PROVE it[1..(k + 1)] \in V
    OBVIOUS
  <2>1. k + 1 \in 1..n /\ (k + 1) - 1 = k /\ it[1..k] \in V
    BY <1>4
  <2>2. it[1..(k + 1)] = G[k + 1][it[1..k]]
    BY <1>2, <2>1
  <2> QED
    BY <2>1, <2>2
<1> HIDE DEF S
<1>5. \A k \in 0..n : it[1..k] \in V
  <2>1. Nat \subseteq S
    BY <1>3, <1>4, Induction
  <2> QED
    BY <2>1 DEF S
<1>6. r \in [0..n -> V]
  BY <1>5
<1>7. r[0] = b /\ r[n] = it[1..n]
  BY <1>1 DEF Unfolds
<1>8. ASSUME NEW k \in 1..n PROVE r[k] = G[k][r[k - 1]]
  <2>1. k \in 0..n /\ k - 1 \in 0..n
    OBVIOUS
  <2>2. it[1..k] = G[k][it[1..(k - 1)]]
    BY <1>2, <1>5, <2>1
  <2> QED
    BY <2>1, <2>2
<1> HIDE DEF r
<1> QED
  BY <1>6, <1>7, <1>8 DEF IsRun, IsReached

-----------------------------------------------------------------------------
(* The word counter: characters, strings and the functions on them. *)

Bytes == 0..255
Chars == 1..255
Strings == Seq(Chars)

(* Characters are positive numbers: the terminator is none of them.            *)
LEMMA CharFacts == Chars \subseteq Nat /\ Chars \subseteq Int /\ 0 \notin Chars
BY DEF Chars

(* What the provers need of a sequence, as plain facts of a function.          *)
LEMMA SeqFacts ==
  ASSUME NEW S, NEW s \in Seq(S)
  PROVE  /\ Len(s) \in Nat /\ DOMAIN s = 1..Len(s)
         /\ \A k \in 1..Len(s) : s[k] \in S
OBVIOUS

\* Both hash functions are this fold.
HashFold(s, b, M) == FoldLeft(LAMBDA h, c : (h * 33 + c) % M, b, s)

(* The fold returns a natural, so that every hash is that of a bucket.         *)
LEMMA HashFoldType ==
  ASSUME NEW s \in Strings, NEW b \in Nat, NEW M \in Nat \ {0}
  PROVE  HashFold(s, b, M) \in Nat
<1>1. PICK n \in Nat : n = Len(s) /\ DOMAIN s = 1..n /\ \A k \in 1..n : s[k] \in Nat
  <2>1. Len(s) \in Nat /\ DOMAIN s = 1..Len(s) /\ \A k \in 1..Len(s) : s[k] \in Chars
    BY SeqFacts DEF Strings
  <2>2. ASSUME NEW k \in 1..Len(s) PROVE s[k] \in Nat
    BY <2>1, CharFacts
  <2> QED
    BY <2>1, <2>2
<1>3. \A x \in Int : x % M \in Nat
  OBVIOUS
<1>0. PICK V : V = Nat
  OBVIOUS
<1> DEFINE body(f, x) == IF x = {} THEN b ELSE (f[x \ {Max(x)}] * 33 + s[Max(x)]) % M
           it == CHOOSE f : f = [x \in SUBSET (1..n) |-> body(f, x)]
           G == [k \in 1..n |-> [v \in V |-> (v * 33 + s[k]) % M]]
<1>5. HashFold(s, b, M) = it[1..n]
  BY <1>1 DEF HashFold, FoldLeft, MapThenFoldSet
<1>6. G \in [1..n -> [V -> V]]
  <2>1. \A k \in 1..n, v \in Nat : (v * 33 + s[k]) % M \in Nat
    <3> SUFFICES ASSUME NEW k \in 1..n, NEW v \in Nat PROVE (v * 33 + s[k]) % M \in Nat
      OBVIOUS
    <3>1. v * 33 + s[k] \in Int
      BY <1>1
    <3> QED
      BY <1>3, <3>1
  <2> QED
    BY <1>0, <2>1
<1>15. n \in Nat /\ b \in V
  BY <1>0
<1>7. ASSUME NEW f, NEW x \in SUBSET (1..n), x # {}, f[x \ {Max(x)}] \in V
      PROVE  body(f, x) = G[Max(x)][f[x \ {Max(x)}]]
  <2>1. Max(x) \in 1..n
    BY <1>0, <1>7, LargestIn
  <2> QED
    BY <1>0, <1>7, <2>1
<1>8. \A f : body(f, {}) = b
  OBVIOUS
<1> HIDE DEF G, body
<1>9. \E f : f = [x \in SUBSET (1..n) |-> body(f, x)]
  <2>1. PICK f : IsFold(f, n, V, b, G)
    BY ONLY <1>15, <1>6, FoldExists
  <2>2. \A x \in SUBSET (1..n) : f[x] = body(f, x)
    BY <1>7, <1>8, <2>1 DEF IsFold
  <2> QED
    BY <2>1, <2>2 DEF IsFold
<1>10. it = [x \in SUBSET (1..n) |-> body(it, x)]
  BY <1>9
<1> HIDE DEF it
<1>12. Unfolds(it, n, V, b, G)
  BY <1>7, <1>8, <1>10 DEF Unfolds
<1>13. IsReached(it[1..n], n, V, b, G)
  BY ONLY <1>15, <1>6, <1>12, FoldSteps
<1> QED
  BY <1>0, <1>5, <1>13 DEF IsRun, IsReached

Hash(s) == Linked(wc_hash(s), asm_hash(s)) % NumBuckets

LEMMA HashType ==
  ASSUME NEW s \in Strings
  PROVE  Hash(s) \in Buckets
<1>1. PICK M \in Nat \ {0} : M = HashModulus
  BY WordCountAssumption
<1>2. PICK n \in Nat \ {0} : n = NumBuckets
  BY WordCountAssumption
<1>3. PICK q \in Nat \ {0} : q = M * M
  OBVIOUS
<1>4. wc_hash(s) \in Nat
  <2>1. PICK b \in Nat : b = 5381 % M
    OBVIOUS
  <2>2. wc_hash(s) = HashFold(s, b, M)
    BY <1>1, <2>1 DEF wc_hash, HashFold, FoldLeft, MapThenFoldSet
  <2> QED
    BY <2>2, HashFoldType
<1>5. asm_hash(s) \in Nat
  <2>1. PICK b \in Nat : b = 5381
    OBVIOUS
  <2>2. asm_hash(s) = HashFold(s, b, q) % M
    BY <1>1, <1>3, <2>1 DEF asm_hash, HashFold, FoldLeft, MapThenFoldSet
  <2>3. HashFold(s, b, q) \in Nat
    BY HashFoldType
  <2> QED
    BY <2>2, <2>3
<1>6. PICK h \in Nat : h = Linked(wc_hash(s), asm_hash(s))
  BY <1>4, <1>5 DEF Linked
<1>7. h % n \in 0..(n - 1)
  OBVIOUS
<1> QED
  BY <1>2, <1>6, <1>7 DEF Hash, Buckets

(* The next word begins at the first character that is no space.               *)
LEMMA SkipSpacesIs ==
  ASSUME text \in Seq(Bytes), NEW from \in 0..Len(text)
  PROVE  /\ SkipSpaces(from) \in from..Len(text)
         /\ \A k \in (from + 1)..SkipSpaces(from) : wc_isspace(text[k])
         /\ SkipSpaces(from) = Len(text) \/ ~wc_isspace(text[SkipSpaces(from) + 1])
<1>1. PICK n \in Nat : n = Len(text)
  BY SeqFacts
<1> DEFINE stop(k) == k = n \/ ~wc_isspace(text[k + 1])
           S == {k \in from..n : stop(k)}
<1>2. n \in S /\ S \in SUBSET Nat
  BY <1>1
<1>3. PICK m \in S : \A k \in S : m <= k
  <2> HIDE DEF S
  <2> QED
    BY <1>2, LeastNatural
<1>4. ASSUME NEW k \in (from + 1)..m PROVE wc_isspace(text[k])
  <2>1. k - 1 \in from..n /\ ~(m <= k - 1) /\ (k - 1) + 1 = k
    BY <1>1, <1>3
  <2>2. ~stop(k - 1)
    BY <1>3, <2>1
  <2> QED
    BY <2>1, <2>2
<1>5. m \in from..n /\ stop(m)
  BY <1>3
<1>6. \E k \in from..Len(text) :
        /\ \A j \in (from + 1)..k : wc_isspace(text[j])
        /\ k = Len(text) \/ ~wc_isspace(text[k + 1])
  BY <1>1, <1>4, <1>5
<1> QED
  BY <1>6 DEF SkipSpaces

(* A word read has MAX_WORDLEN characters at most, lies in the text, and ends  *)
(* for a reason.                                                               *)
LEMMA WordEndIs ==
  ASSUME text \in Seq(Bytes), NEW from \in 0..Len(text)
  PROVE  /\ WordEnd(from) \in from..Len(text) /\ WordEnd(from) - from <= MAX_WORDLEN
         /\ \/ WordEnd(from) = Len(text) \/ WordEnd(from) - from = MAX_WORDLEN
            \/ wc_isspace(text[WordEnd(from) + 1])
<1>1. PICK n \in Nat : n = Len(text)
  BY SeqFacts
<1>0. PICK max \in Nat : max = MAX_WORDLEN
  BY WordCountAssumption
<1> DEFINE stop(k) == k = n \/ k - from = max \/ wc_isspace(text[k + 1])
           S == {k \in from..n : stop(k)}
<1>2. n \in S /\ S \in SUBSET Nat
  BY <1>1
<1>3. PICK m \in S : \A k \in S : m <= k
  <2> HIDE DEF S
  <2> QED
    BY <1>2, LeastNatural
<1>4. ASSUME NEW k \in (from + 1)..m PROVE ~wc_isspace(text[k])
  <2>1. k - 1 \in from..n /\ ~(m <= k - 1) /\ (k - 1) + 1 = k
    BY <1>1, <1>3
  <2>2. ~stop(k - 1)
    BY <1>3, <2>1
  <2> QED
    BY <2>1, <2>2
<1>5. m \in from..n /\ stop(m)
  BY <1>3
<1>6. m - from <= max
  <2> SUFFICES ASSUME m - from > max PROVE FALSE
    BY <1>1, <1>5
  <2>1. from + max \in from..n /\ (from + max) - from = max
    BY <1>1, <1>5
  <2>2. from + max \in S
    BY <2>1
  <2> QED
    BY <1>1, <1>3, <2>2
<1>7. \E k \in from..Len(text) :
        /\ k - from <= MAX_WORDLEN
        /\ \A j \in (from + 1)..k : ~wc_isspace(text[j])
        /\ k = Len(text) \/ k - from = MAX_WORDLEN \/ wc_isspace(text[k + 1])
  BY <1>0, <1>1, <1>4, <1>5, <1>6
<1> QED
  BY <1>7 DEF WordEnd

(* What a function sees of the bytes of a buffer is a string, an empty one     *)
(* only if the first of them is a NUL.                                         *)
LEMMA CStringIs ==
  ASSUME NEW s \in Seq(Bytes)
  PROVE  /\ CString(s) \in Strings /\ Len(CString(s)) <= Len(s)
         /\ CString(s) = <<>> /\ s # <<>> => s[1] = 0
<1>1. PICK n \in Nat : n = Len(s)
  BY SeqFacts
<1>2. \A k \in 1..n : s[k] \in Bytes
  BY <1>1, SeqFacts
<1> DEFINE stop(k) == k = n \/ s[k + 1] = 0
           S == {k \in 0..n : stop(k)}
           end == CHOOSE m \in 0..Len(s) :
                    /\ \A k \in 1..m : s[k] # 0
                    /\ m = Len(s) \/ s[m + 1] = 0
<1>3. n \in S /\ S \in SUBSET Nat
  OBVIOUS
<1>4. PICK m \in S : \A k \in S : m <= k
  <2> HIDE DEF S
  <2> QED
    BY <1>3, LeastNatural
<1>5. ASSUME NEW k \in 1..m PROVE s[k] # 0
  <2>1. k - 1 \in 0..n /\ ~(m <= k - 1) /\ (k - 1) + 1 = k
    BY <1>4
  <2>2. ~stop(k - 1)
    BY <1>4, <2>1
  <2> QED
    BY <2>1, <2>2
<1>6. m \in 0..n /\ stop(m)
  BY <1>4
<1>7. /\ end \in 0..n /\ (\A k \in 1..end : s[k] # 0)
      /\ end = n \/ s[end + 1] = 0
  BY <1>1, <1>5, <1>6
<1>8. CString(s) = SubSeq(s, 1, end)
  BY DEF CString
<1> HIDE DEF end
<1>9. \A k \in 1..end : s[k] \in Chars
  <2>1. \A c \in Bytes : c # 0 => c \in Chars
    BY DEF Bytes, Chars
  <2> QED
    BY <1>2, <1>7, <2>1
<1>10. SubSeq(s, 1, end) = [k \in 1..end |-> s[k]]
  BY <1>1, <1>7
<1>11. SubSeq(s, 1, end) \in Seq(Chars) /\ Len(SubSeq(s, 1, end)) = end
  BY <1>7, <1>9, <1>10
<1>12. CString(s) = <<>> => end = 0
  BY <1>8, <1>11
<1>13. s # <<>> => n # 0
  BY <1>1
<1> QED
  BY <1>1, <1>7, <1>8, <1>11, <1>12, <1>13 DEF Strings

(* What is left of a word ends with its last letter.                           *)
LEMMA TrimIs ==
  ASSUME NEW s \in Strings
  PROVE  /\ wc_trim_non_alpha(s) \in Strings
         /\ Len(wc_trim_non_alpha(s)) <= Len(s)
         /\ wc_trim_non_alpha(s) # <<>> =>
              wc_isalpha(wc_trim_non_alpha(s)[Len(wc_trim_non_alpha(s))])
<1>1. PICK n \in Nat : n = Len(s)
  BY SeqFacts DEF Strings
<1> DEFINE S == {m \in 0..n : m = n \/ wc_isalpha(s[n - m])}
           last == CHOOSE k \in 0..Len(s) :
                     /\ k = 0 \/ wc_isalpha(s[k])
                     /\ \A j \in (k + 1)..Len(s) : ~wc_isalpha(s[j])
<1>2. n \in S /\ S \in SUBSET Nat
  OBVIOUS
<1>3. PICK m \in S : \A k \in S : m <= k
  <2> HIDE DEF S
  <2> QED
    BY <1>2, LeastNatural
<1>4. ASSUME NEW j \in ((n - m) + 1)..n PROVE ~wc_isalpha(s[j])
  <2>1. n - j \in 0..n /\ ~(m <= n - j) /\ n - (n - j) = j
    BY <1>3
  <2> QED
    BY <1>3, <2>1
<1>5. n - m \in 0..n /\ (n - m = 0 \/ wc_isalpha(s[n - m]))
  BY <1>3
<1>6. last \in 0..n /\ (last = 0 \/ wc_isalpha(s[last]))
  BY <1>1, <1>4, <1>5
<1>7. wc_trim_non_alpha(s) = SubSeq(s, 1, last)
  BY DEF wc_trim_non_alpha
<1> HIDE DEF last
<1>8. /\ SubSeq(s, 1, last) \in Seq(Chars) /\ Len(SubSeq(s, 1, last)) = last
      /\ \A k \in 1..last : SubSeq(s, 1, last)[k] = s[k]
  BY <1>1, <1>6 DEF Strings
<1>9. SubSeq(s, 1, last) # <<>> => last \in 1..last
  BY <1>6, <1>8
<1> QED
  BY <1>1, <1>6, <1>7, <1>8, <1>9 DEF Strings

(* wc_tolower changes the capitals, character by character.                    *)
LEMMA LowerIs ==
  ASSUME NEW s \in Strings
  PROVE  /\ wc_tolower(s) \in Strings /\ Len(wc_tolower(s)) = Len(s)
         /\ \A k \in 1..Len(s) :
              wc_tolower(s)[k] = IF s[k] \in 65..90 THEN s[k] + 32 ELSE s[k]
<1>1. PICK n \in Nat : n = Len(s) /\ DOMAIN s = 1..n
  BY SeqFacts DEF Strings
<1>2. \A k \in 1..n : s[k] \in Chars
  BY <1>1, SeqFacts DEF Strings
<1>3. wc_tolower(s) = [k \in 1..n |-> IF s[k] \in 65..90 THEN s[k] + 32 ELSE s[k]]
  BY <1>1 DEF wc_tolower
<1>4. \A c \in Chars : (IF c \in 65..90 THEN c + 32 ELSE c) \in Chars
  BY DEF Chars
<1>5. wc_tolower(s) \in [1..n -> Chars]
  BY <1>2, <1>3, <1>4
<1>6. wc_tolower(s) \in Seq(Chars) /\ Len(wc_tolower(s)) = n
  BY <1>5
<1> QED
  BY <1>1, <1>3, <1>6 DEF Strings

(* The comparisons of both libraries tell exactly the same strings apart.      *)
LEMMA SameIsEqual ==
  ASSUME lib \in {"c", "asm"}, NEW l \in Strings, NEW r \in Strings
  PROVE  Same(l, r) <=> l = r
<1>1. \A x, y \in Strings :
        /\ FirstDifference(x, y) \in 1..(Len(x) + 1)
        /\ CharAt(x, FirstDifference(x, y)) = CharAt(y, FirstDifference(x, y)) => x = y
        /\ x = y => CharAt(x, FirstDifference(x, y)) = 0
        /\ CharAt(x, FirstDifference(x, y)) = CharAt(y, FirstDifference(x, y)) =>
             CharAt(x, FirstDifference(x, y)) = 0
        /\ CharAt(x, FirstDifference(x, y)) \in Nat
        /\ CharAt(y, FirstDifference(x, y)) \in Nat
  <2> SUFFICES ASSUME NEW x \in Strings, NEW y \in Strings
               PROVE  LET k == FirstDifference(x, y)
                      IN  /\ k \in 1..(Len(x) + 1)
                          /\ CharAt(x, k) = CharAt(y, k) => x = y
                          /\ x = y => CharAt(x, k) = 0
                          /\ CharAt(x, k) = CharAt(y, k) => CharAt(x, k) = 0
                          /\ CharAt(x, k) \in Nat /\ CharAt(y, k) \in Nat
    OBVIOUS
  <2>1. PICK n \in Nat : n = Len(x) /\ DOMAIN x = 1..n
    BY SeqFacts DEF Strings
  <2>2. PICK m \in Nat : m = Len(y) /\ DOMAIN y = 1..m
    BY SeqFacts DEF Strings
  <2>3. /\ \A k \in 1..n : x[k] \in Chars
        /\ \A k \in 1..m : y[k] \in Chars
    BY <2>1, <2>2, SeqFacts DEF Strings
  <2>4. /\ \A k \in Int : CharAt(x, k) = IF k \in 1..n THEN x[k] ELSE 0
        /\ \A k \in Int : CharAt(y, k) = IF k \in 1..m THEN y[k] ELSE 0
    BY <2>1, <2>2 DEF CharAt
  <2> DEFINE differ(k) == CharAt(x, k) # CharAt(y, k) \/ k = n + 1
             S == {k \in 1..(n + 1) : differ(k)}
  <2>5. n + 1 \in S /\ S \in SUBSET Nat
    OBVIOUS
  <2>6. PICK f \in S : \A k \in S : f <= k
    <3> HIDE DEF S
    <3> QED
      BY <2>5, LeastNatural
  <2>7. \A j \in 1..(f - 1) : CharAt(x, j) = CharAt(y, j)
    <3> SUFFICES ASSUME NEW j \in 1..(f - 1) PROVE ~differ(j)
      OBVIOUS
    <3>1. j \in 1..(n + 1) /\ ~(f <= j)
      BY <2>6
    <3> QED
      BY <2>6, <3>1
  <2> DEFINE d == FirstDifference(x, y)
  <2>8. /\ d \in 1..(n + 1) /\ differ(d)
        /\ \A j \in 1..(d - 1) : CharAt(x, j) = CharAt(y, j)
    <3>1. \E k \in 1..(Len(x) + 1) :
            /\ CharAt(x, k) # CharAt(y, k) \/ k = Len(x) + 1
            /\ \A j \in 1..(k - 1) : CharAt(x, j) = CharAt(y, j)
      BY <2>1, <2>6, <2>7
    <3> QED
      BY <2>1, <3>1 DEF FirstDifference
  <2> HIDE DEF d
  <2>9. \A c \in Chars : c \in Nat /\ c # 0
    BY CharFacts
  <2>10. CharAt(x, d) \in Nat /\ CharAt(y, d) \in Nat
    BY <2>3, <2>4, <2>8, <2>9
  <2>11. ASSUME CharAt(x, d) = CharAt(y, d)
         PROVE  CharAt(x, d) = 0 /\ x = y
    <3>1. d = n + 1
      BY <2>8, <2>11
    <3>2. CharAt(x, d) = 0
      BY <2>4, <3>1
    <3>3. m <= n
      <4> SUFFICES ASSUME m > n PROVE FALSE
        OBVIOUS
      <4>1. n + 1 \in 1..m
        OBVIOUS
      <4> QED
        BY <2>3, <2>4, <2>9, <2>11, <3>1, <3>2, <4>1
    <3>4. \A j \in 1..n : CharAt(x, j) = CharAt(y, j)
      BY <2>8, <3>1
    <3>5. \A j \in 1..n : j \in 1..m /\ x[j] = y[j]
      <4> SUFFICES ASSUME NEW j \in 1..n PROVE j \in 1..m /\ x[j] = y[j]
        OBVIOUS
      <4>1. CharAt(x, j) = x[j] /\ x[j] # 0 /\ CharAt(y, j) = CharAt(x, j)
        BY <2>3, <2>4, <2>9, <3>4
      <4> QED
        BY <2>4, <4>1
    <3>6. m = n
      BY <3>3, <3>5
    <3>7. x = [j \in 1..n |-> x[j]] /\ y = [j \in 1..m |-> y[j]]
      BY <2>1, <2>2 DEF Strings
    <3> QED
      BY <3>2, <3>5, <3>6, <3>7
  <2>12. x = y => CharAt(x, d) = 0
    BY <2>11
  <2> QED
    BY <2>1, <2>8, <2>10, <2>11, <2>12 DEF d
<1>2. wc_str_compare(l, r) = 0 <=> l = r
  <2> DEFINE k == FirstDifference(l, r)
  <2>1. wc_str_compare(l, r) = CharAt(l, k) - CharAt(r, k)
    BY DEF wc_str_compare
  <2>2. CharAt(l, k) \in Nat /\ CharAt(r, k) \in Nat
        /\ (CharAt(l, k) = CharAt(r, k) => l = r)
    BY <1>1
  <2> HIDE DEF k
  <2> QED
    BY <2>1, <2>2
<1>3. asm_str_compare(r, l) = 0 <=> l = r
  <2> DEFINE k == FirstDifference(r, l)
             a == CharAt(r, k)
             b == CharAt(l, k)
  <2>1. asm_str_compare(r, l) =
          IF a = 0 THEN IF b = 0 THEN 0 ELSE -1
          ELSE IF b = 0 \/ b < a THEN 1 ELSE -1
    BY DEF asm_str_compare
  <2>2. a \in Nat /\ b \in Nat /\ (a = b => l = r) /\ (l = r => a = 0)
    BY <1>1
  <2>3. l = r => a = b
    OBVIOUS
  <2> HIDE DEF k, a, b
  <2> QED
    BY <2>1, <2>2, <2>3
<1> QED
  BY <1>2, <1>3 DEF Same, Linked

-----------------------------------------------------------------------------
(* The invariant. *)

Words == {s \in Strings : Len(s) <= MAX_WORDLEN}
Entries == [word : Words, count : Nat]

TypeOK ==
  /\ lib \in {"c", "asm"} /\ pc \in {"read", "count", "report", "done"}
  /\ text \in Seq(Bytes) /\ pos \in 0..Len(text) /\ w \in Words
  /\ buckets \in [Buckets -> Seq(Entries)] /\ counted \in Seq(Words)
  /\ total_words \in Nat /\ unique_words \in Nat /\ i \in 0..NumBuckets
  /\ best_word \in Words /\ best_word_count \in Nat
  /\ low \in Int /\ high \in Int /\ raw \in Seq(Seq(Bytes))

\* How often x is in q.
Occ(q, x) == Cardinality({k \in DOMAIN q : q[k] = x})

\* The table B of the words c: every entry is in the list of its hash and counts
\* a word of c, no word has two entries in a list, every word has one, and no
\* list is longer than c.
FiledIn(B, c) ==
  \A b \in Buckets : \A k \in 1..Len(B[b]) :
    /\ Hash(B[b][k].word) = b
    /\ B[b][k].word \in Range(c)
    /\ B[b][k].count = Occ(c, B[b][k].word)

SingleIn(B) ==
  \A b \in Buckets : \A j, k \in 1..Len(B[b]) : B[b][j].word = B[b][k].word => j = k

FoundIn(B, c) ==
  \A s \in Range(c) : \E k \in 1..Len(B[Hash(s)]) : B[Hash(s)][k].word = s

ShortIn(B, c) == \A b \in Buckets : Len(B[b]) <= Len(c)

TableOf(B, c) == FiledIn(B, c) /\ SingleIn(B) /\ FoundIn(B, c) /\ ShortIn(B, c)

\* The words in the buckets below n.
KnownIn(c, n) == {s \in Range(c) : Hash(s) < n}

\* What the report says when it has passed n buckets.
TallyOf(c, n, total, unique, best, count) ==
  /\ total = Len(c)
  /\ unique = Cardinality(KnownIn(c, n))
  /\ count # 0 => best \in Range(c) /\ count = Occ(c, best)
  /\ \A s \in KnownIn(c, n) : Occ(c, s) <= count

Tally == TallyOf(counted, i, total_words, unique_words, best_word, best_word_count)

\* The report has not begun while words are read, and ends behind the last bucket.
Phase ==
  /\ pc \in {"read", "count"} => i = 0 /\ best_word_count = 0
  /\ pc = "done" => i = NumBuckets

Normal(s) ==
  /\ \A k \in 1..Len(s) : s[k] \notin 65..90
  /\ s # <<>> => wc_isalpha(s[Len(s)])

AllNormal == \A s \in Range(counted) : Normal(s)

\* The lowest and the highest index that may be written.
Floor == IF lib = "c" THEN -1 ELSE -7
Limit == IF lib = "c" THEN MAX_WORDLEN ELSE MAX_WORDLEN + 7

Within(l, h) == Floor <= l /\ l <= 0 /\ h <= Limit

\* A string that is empty, or a write of C below the buffer, is due to a NUL.
NulRead == \E k \in DOMAIN raw : raw[k][1] = 0

NulCauses ==
  /\ pc = "count" /\ w = <<>> => NulRead
  /\ lib = "c" /\ low # 0 => low = -1 /\ NulRead

IInv == /\ TypeOK /\ TableOf(buckets, counted) /\ Tally /\ Phase /\ AllNormal
        /\ Within(low, high) /\ NulCauses
-----------------------------------------------------------------------------
(* Lemmas about the operations. *)

Bests == [word : Words, count : Nat, high : Int]

Better(e, f) ==
  IF f.count <= e.count THEN e
  ELSE LET copied == Linked(wc_str_copy(f.word), asm_str_copy(f.word))
       IN  [word |-> f.word, count |-> f.count,
            high |-> IF copied > e.high THEN copied ELSE e.high]

\* The loop over one list of the report.
BestFold(base, q) ==
  FoldLeft(LAMBDA e, f :
             IF f.count <= e.count THEN e
             ELSE LET copied == Linked(wc_str_copy(f.word), asm_str_copy(f.word))
                  IN  [word |-> f.word, count |-> f.count,
                       high |-> IF copied > e.high THEN copied ELSE e.high],
           base, q)

(* A word fits its buffer.                                                     *)
LEMMA WordsFacts ==
  ASSUME NEW s \in Words
  PROVE  s \in Strings /\ Len(s) \in Nat /\ Len(s) <= MAX_WORDLEN /\ MAX_WORDLEN \in Nat
BY SeqFacts, WordCountAssumption DEF Words, Strings

(* One step of the report's loop keeps the more frequent of two words, and     *)
(* writes within the limit when it copies.                                     *)
LEMMA BetterType ==
  ASSUME lib \in {"c", "asm"}, NEW e \in Bests, NEW f \in Entries
  PROVE  /\ Better(e, f) \in Bests
         /\ Better(e, f).count >= e.count /\ Better(e, f).count >= f.count
         /\ \/ Better(e, f).word = e.word /\ Better(e, f).count = e.count
            \/ Better(e, f).word = f.word /\ Better(e, f).count = f.count
         /\ e.high <= Limit => Better(e, f).high <= Limit
<1>1. f.word \in Words /\ f.count \in Nat
  BY DEF Entries
<1>2. e.word \in Words /\ e.count \in Nat /\ e.high \in Int
  BY DEF Bests
<1> DEFINE copied == Linked(wc_str_copy(f.word), asm_str_copy(f.word))
<1>3. copied \in Int /\ copied <= Limit
  BY <1>1, WordsFacts DEF Linked, wc_str_copy, asm_str_copy, Limit
<1>4. CASE f.count <= e.count
  BY <1>1, <1>2, <1>4 DEF Better
<1>5. CASE ~(f.count <= e.count)
  <2>1. Better(e, f) = [word |-> f.word, count |-> f.count,
                        high |-> IF copied > e.high THEN copied ELSE e.high]
    BY <1>5 DEF Better
  <2> HIDE DEF copied
  <2>2. (IF copied > e.high THEN copied ELSE e.high) \in Int
    BY <1>2, <1>3
  <2> QED
    BY <1>1, <1>2, <1>3, <1>5, <2>1, <2>2 DEF Bests
<1> QED
  BY <1>4, <1>5

(* The loop goes through its list entry by entry.                              *)
LEMMA BestFoldRun ==
  ASSUME lib \in {"c", "asm"}, NEW base \in Bests, NEW q \in Seq(Entries)
  PROVE  \E r : /\ r \in [0..Len(q) -> Bests] /\ r[0] = base
                /\ \A k \in 1..Len(q) : r[k] = Better(r[k - 1], q[k])
                /\ r[Len(q)] = BestFold(base, q)
<1>1. PICK n \in Nat : n = Len(q) /\ DOMAIN q = 1..n
  BY SeqFacts
<1>2. \A k \in 1..n : q[k] \in Entries
  BY <1>1, SeqFacts
<1>0. PICK V : V = Bests
  OBVIOUS
<1> DEFINE body(f, x) == IF x = {} THEN base ELSE Better(f[x \ {Max(x)}], q[Max(x)])
           it == CHOOSE f : f = [x \in SUBSET (1..n) |-> body(f, x)]
           G == [k \in 1..n |-> [v \in V |-> Better(v, q[k])]]
<1>3. BestFold(base, q) = it[1..n]
  BY <1>1 DEF BestFold, FoldLeft, MapThenFoldSet, Better
<1>4. G \in [1..n -> [V -> V]] /\ n \in Nat /\ base \in V
  BY <1>0, <1>2, BetterType
<1>5. ASSUME NEW f, NEW x \in SUBSET (1..n), x # {}, f[x \ {Max(x)}] \in V
      PROVE  body(f, x) = G[Max(x)][f[x \ {Max(x)}]]
  <2>1. Max(x) \in 1..n
    BY <1>5, LargestIn
  <2> QED
    BY <1>5, <2>1
<1>6. \A f : body(f, {}) = base
  OBVIOUS
<1>7. \A k \in 1..n, v \in V : G[k][v] = Better(v, q[k])
  OBVIOUS
<1> HIDE DEF G, body
<1>8. \E f : f = [x \in SUBSET (1..n) |-> body(f, x)]
  <2>1. PICK f : IsFold(f, n, V, base, G)
    BY ONLY <1>4, FoldExists
  <2>2. \A x \in SUBSET (1..n) : f[x] = body(f, x)
    BY <1>5, <1>6, <2>1 DEF IsFold
  <2> QED
    BY <2>1, <2>2 DEF IsFold
<1>9. it = [x \in SUBSET (1..n) |-> body(it, x)]
  BY <1>8
<1> HIDE DEF it
<1>10. Unfolds(it, n, V, base, G)
  BY <1>5, <1>6, <1>9 DEF Unfolds
<1>11. IsReached(it[1..n], n, V, base, G)
  BY ONLY <1>4, <1>10, FoldSteps
<1>12. PICK r : IsRun(r, n, V, base, G) /\ r[n] = it[1..n]
  BY <1>11 DEF IsReached
<1>13. \A k \in 1..n : r[k] = Better(r[k - 1], q[k])
  <2> SUFFICES ASSUME NEW k \in 1..n PROVE r[k] = Better(r[k - 1], q[k])
    OBVIOUS
  <2>1. k - 1 \in 0..n /\ r[k - 1] \in V
    BY <1>12 DEF IsRun
  <2> QED
    BY <1>7, <1>12, <2>1 DEF IsRun
<1> QED
  BY <1>0, <1>1, <1>3, <1>12, <1>13 DEF IsRun

(* It finds the most frequent of its words, or keeps the one it has.           *)
LEMMA BestFoldIs ==
  ASSUME lib \in {"c", "asm"}, NEW base \in Bests, NEW q \in Seq(Entries)
  PROVE  /\ BestFold(base, q) \in Bests
         /\ BestFold(base, q).count >= base.count
         /\ \A k \in 1..Len(q) : q[k].count <= BestFold(base, q).count
         /\ \/ BestFold(base, q).word = base.word /\ BestFold(base, q).count = base.count
            \/ \E k \in 1..Len(q) : /\ BestFold(base, q).word = q[k].word
                                    /\ BestFold(base, q).count = q[k].count
         /\ base.high <= Limit => BestFold(base, q).high <= Limit
<1>1. PICK n \in Nat : n = Len(q)
  BY SeqFacts
<1>2. PICK r : /\ r \in [0..n -> Bests] /\ r[0] = base
               /\ \A k \in 1..n : r[k] = Better(r[k - 1], q[k])
               /\ r[n] = BestFold(base, q)
  BY <1>1, BestFoldRun
<1>3. \A k \in 1..n : q[k] \in Entries /\ q[k].count \in Nat
  <2>1. \A e \in Entries : e.count \in Nat
    BY DEF Entries
  <2>2. \A k \in 1..n : q[k] \in Entries
    BY <1>1, SeqFacts
  <2> QED
    BY <2>1, <2>2
<1> DEFINE Good(v, k) ==
             /\ v \in Bests /\ v.count >= base.count
             /\ \A j \in 1..k : q[j].count <= v.count
             /\ \/ v.word = base.word /\ v.count = base.count
                \/ \E j \in 1..k : v.word = q[j].word /\ v.count = q[j].count
             /\ base.high <= Limit => v.high <= Limit
           S == {k \in Nat : k <= n => Good(r[k], k)}
<1>4. 0 \in S
  <2>1. Good(base, 0)
    BY DEF Bests
  <2> HIDE DEF Good
  <2> QED
    BY <1>2, <2>1
<1>5. ASSUME NEW k \in Nat, k \in S PROVE k + 1 \in S
  <2> SUFFICES ASSUME k + 1 <= n PROVE Good(r[k + 1], k + 1)
    OBVIOUS
  <2>1. k + 1 \in 1..n /\ (k + 1) - 1 = k /\ Good(r[k], k)
    BY <1>5
  <2>2. PICK v \in Bests, f \in Entries : v = r[k] /\ f = q[k + 1]
    BY <1>3, <2>1
  <2>0. PICK u : u = r[k + 1]
    OBVIOUS
  <2>3. u = Better(v, f)
    BY <1>2, <2>0, <2>1, <2>2
  <2>4. /\ u \in Bests /\ u.count >= v.count /\ u.count >= f.count
        /\ (u.word = v.word /\ u.count = v.count) \/ (u.word = f.word /\ u.count = f.count)
        /\ v.high <= Limit => u.high <= Limit
    BY <2>3, BetterType
  <2>5. u.count \in Nat /\ v.count \in Nat /\ base.count \in Nat
    BY <2>4 DEF Bests
  <2>6. \A j \in 1..(k + 1) : j \in 1..k \/ j = k + 1
    OBVIOUS
  <2>7. \A j \in 1..(k + 1) : q[j].count <= u.count
    <3> SUFFICES ASSUME NEW j \in 1..(k + 1) PROVE q[j].count <= u.count
      OBVIOUS
    <3>1. CASE j \in 1..k
      <4>1. q[j].count <= v.count /\ q[j].count \in Nat
        BY <1>3, <2>1, <2>2, <3>1
      <4> QED
        BY <2>4, <2>5, <4>1
    <3>2. CASE j = k + 1
      BY <2>2, <2>4, <3>2
    <3> QED
      BY <2>6, <3>1, <3>2
  <2>8. \/ u.word = base.word /\ u.count = base.count
        \/ \E j \in 1..(k + 1) : u.word = q[j].word /\ u.count = q[j].count
    BY <2>1, <2>2, <2>4
  <2>9. u.count >= base.count /\ (base.high <= Limit => u.high <= Limit)
    BY <2>1, <2>2, <2>4, <2>5
  <2> QED
    BY <2>0, <2>2, <2>4, <2>7, <2>8, <2>9
<1>6. Good(r[n], n)
  <2> HIDE DEF Good
  <2>1. \A k \in Nat : k \in S => k + 1 \in S
    BY <1>5
  <2>2. n \in S
    <3> HIDE DEF S
    <3> QED
      BY <1>4, <2>1, Induction
  <2> QED
    BY <2>2
<1> QED
  BY <1>1, <1>2, <1>6

(* A word occurs in a sequence some number of times, 0 exactly if it is not in *)
(* its range.                                                                  *)
LEMMA OccType ==
  ASSUME NEW S, NEW q \in Seq(S), NEW x
  PROVE  Occ(q, x) \in Nat /\ (x \notin Range(q) => Occ(q, x) = 0)
         /\ (x \in Range(q) => Occ(q, x) # 0)
<1> DEFINE T == {k \in DOMAIN q : q[k] = x}
<1>1. IsFiniteSet(T)
  <2>1. PICK n \in Nat : DOMAIN q = 1..n
    BY SeqFacts
  <2>2. IsFiniteSet(1..n)
    <3>1. 1 \in Int /\ n \in Int
      OBVIOUS
    <3> QED
      BY ONLY <3>1, FS_Interval
  <2>3. T \in SUBSET (1..n)
    BY <2>1
  <2> QED
    BY ONLY <2>2, <2>3, FS_Subset
<1>2. x \notin Range(q) => T = {}
  BY DEF Range
<1>3. x \in Range(q) => T # {}
  BY DEF Range
<1> HIDE DEF T
<1>4. Cardinality(T) \in Nat /\ (Cardinality(T) = 0 <=> T = {})
  BY <1>1, FS_CardinalityType, FS_EmptySet
<1> QED
  BY <1>2, <1>3, <1>4 DEF Occ, T

(* Appending a word adds one to its own number of occurrences.                 *)
LEMMA OccAppend ==
  ASSUME NEW S, NEW q \in Seq(S), NEW s \in S, NEW x
  PROVE  Occ(Append(q, s), x) = IF x = s THEN Occ(q, x) + 1 ELSE Occ(q, x)
<1> DEFINE T == {k \in DOMAIN q : q[k] = x}
           U == {k \in DOMAIN Append(q, s) : Append(q, s)[k] = x}
<1>1. PICK n \in Nat : n = Len(q) /\ DOMAIN q = 1..n
  BY SeqFacts
<1>2. /\ DOMAIN Append(q, s) = 1..(n + 1) /\ Append(q, s)[n + 1] = s
      /\ \A k \in 1..n : Append(q, s)[k] = q[k]
  BY <1>1
<1>3. IsFiniteSet(T) /\ n + 1 \notin T
  <2>1. IsFiniteSet(1..n)
    <3>1. 1 \in Int /\ n \in Int
      OBVIOUS
    <3> QED
      BY ONLY <3>1, FS_Interval
  <2>2. T \in SUBSET (1..n)
    BY <1>1
  <2>3. n + 1 \notin 1..n
    OBVIOUS
  <2>4. IsFiniteSet(T)
    BY ONLY <2>1, <2>2, FS_Subset
  <2> QED
    BY <2>2, <2>3, <2>4
<1>4. \A k : k \in 1..(n + 1) <=> k \in 1..n \/ k = n + 1
  OBVIOUS
<1>5. x = s => U = T \cup {n + 1}
  BY <1>1, <1>2, <1>4
<1>6. x # s => U = T
  BY <1>1, <1>2, <1>4
<1> HIDE DEF T, U
<1>7. Cardinality(T \cup {n + 1}) = Cardinality(T) + 1
  BY <1>3, FS_AddElement
<1> QED
  BY <1>5, <1>6, <1>7 DEF Occ, T, U

(* Appending a word adds it to the range.                                      *)
LEMMA RangeAppend ==
  ASSUME NEW S, NEW q \in Seq(S), NEW s \in S
  PROVE  Range(Append(q, s)) = Range(q) \cup {s}
<1>1. PICK n \in Nat : n = Len(q) /\ DOMAIN q = 1..n
  BY SeqFacts
<1>2. /\ DOMAIN Append(q, s) = 1..(n + 1) /\ Append(q, s)[n + 1] = s
      /\ \A k \in 1..n : Append(q, s)[k] = q[k]
  BY <1>1
<1>3. \A k : k \in 1..(n + 1) <=> k \in 1..n \/ k = n + 1
  OBVIOUS
<1> QED
  BY <1>1, <1>2, <1>3 DEF Range

(* What find-or-insert and the increment make of a list in which s is once at  *)
(* most, with the count n.                                                     *)
Counted(new, chain, s, n) ==
  /\ new \in Seq(Entries) /\ Len(new) <= Len(chain) + 1
  /\ \E k \in 1..Len(new) : new[k].word = s
  /\ \A j \in 1..Len(chain) : \E k \in 1..Len(new) : new[k].word = chain[j].word
  /\ \A k \in 1..Len(new) :
       \/ new[k].word = s /\ new[k].count = n + 1
       \/ new[k].word # s /\ \E j \in 1..Len(chain) : new[k] = chain[j]
  /\ \A j, k \in 1..Len(new) : new[j].word = new[k].word => j = k

(* The fields of an entry.                                                     *)
LEMMA EntryFacts ==
  ASSUME NEW e \in Entries
  PROVE  e.word \in Words /\ e.word \in Strings /\ e.count \in Nat
BY DEF Entries, Words

(* wc_dict_find_or_insert and the increment do that, with either comparison.   *)
LEMMA CountingIs ==
  ASSUME lib \in {"c", "asm"}, NEW chain \in Seq(Entries), NEW s \in Words, NEW n \in Nat,
         \A k \in 1..Len(chain) : chain[k].word = s => chain[k].count = n,
         (\A k \in 1..Len(chain) : chain[k].word # s) => n = 0,
         \A j, k \in 1..Len(chain) : chain[j].word = chain[k].word => j = k
  PROVE  Counted(Counting(chain, s), chain, s, n)
<1>1. PICK m \in Nat : m = Len(chain) /\ DOMAIN chain = 1..m
  BY SeqFacts
<1>2. \A k \in 1..m : chain[k] \in Entries
  BY <1>1, SeqFacts
<1>3. \A k \in 1..m : Same(chain[k].word, s) <=> chain[k].word = s
  BY <1>2, EntryFacts, WordsFacts, SameIsEqual
<1> DEFINE new == Counting(chain, s)
<1>4. CASE \E k \in 1..m : chain[k].word = s
  <2>1. new = [k \in 1..m |-> IF chain[k].word = s THEN [chain[k] EXCEPT !.count = @ + 1]
                              ELSE chain[k]]
    BY <1>1, <1>3, <1>4 DEF Counting
  <2>2. \A k \in 1..m : chain[k].word = s =>
          /\ [chain[k] EXCEPT !.count = @ + 1] \in Entries
          /\ [chain[k] EXCEPT !.count = @ + 1].word = s
          /\ [chain[k] EXCEPT !.count = @ + 1].count = n + 1
    BY <1>1, <1>2 DEF Entries
  <2>3. \A k \in 1..m : /\ new[k] \in Entries /\ new[k].word = chain[k].word
                        /\ chain[k].word = s => new[k].count = n + 1
                        /\ chain[k].word # s => new[k] = chain[k]
    BY <1>2, <2>1, <2>2
  <2>4. new \in [1..m -> Entries]
    BY <2>1, <2>3
  <2>5. new \in Seq(Entries) /\ Len(new) = m
    BY <2>4
  <2> HIDE DEF new
  <2> QED
    BY <1>1, <1>4, <2>3, <2>5 DEF Counted, new
<1>5. CASE ~ \E k \in 1..m : chain[k].word = s
  <2> DEFINE e == [word |-> s, count |-> 1]
  <2>1. new = <<e>> \o chain
    BY <1>1, <1>3, <1>5 DEF Counting
  <2>2. n = 0 /\ e \in Entries /\ e.word = s /\ e.count = n + 1
    BY <1>1, <1>5 DEF Entries
  <2> HIDE DEF e
  <2>3. /\ new \in Seq(Entries) /\ Len(new) = m + 1 /\ new[1] = e
        /\ \A k \in 1..m : new[k + 1] = chain[k]
    BY <1>1, <2>1, <2>2
  <2> HIDE DEF new
  <2>4. 1 \in 1..(m + 1) /\ \A k \in 1..m : k + 1 \in 1..(m + 1)
    OBVIOUS
  <2>5. ASSUME NEW k \in 1..(m + 1)
        PROVE  \/ k = 1 /\ new[k] = e
               \/ k - 1 \in 1..m /\ new[k] = chain[k - 1] /\ new[k].word # s
    <3>1. CASE k = 1
      BY <2>3, <3>1
    <3>2. CASE k # 1
      <4>1. k - 1 \in 1..m /\ (k - 1) + 1 = k
        BY <3>2
      <4>2. new[k] = chain[k - 1]
        BY <2>3, <4>1
      <4> QED
        BY <1>5, <4>1, <4>2
    <3> QED
      BY <3>1, <3>2
  <2>6. \E k \in 1..(m + 1) : new[k].word = s
    BY <2>2, <2>3, <2>4
  <2>7. \A j \in 1..m : \E k \in 1..(m + 1) : new[k].word = chain[j].word
    BY <2>3, <2>4
  <2>8. \A k \in 1..(m + 1) :
          \/ new[k].word = s /\ new[k].count = n + 1
          \/ new[k].word # s /\ \E j \in 1..m : new[k] = chain[j]
    BY <2>2, <2>5
  <2>9. ASSUME NEW j \in 1..(m + 1), NEW k \in 1..(m + 1), new[j].word = new[k].word
        PROVE  j = k
    <3>1. CASE j = 1 /\ new[j] = e
      BY <2>2, <2>5, <2>9, <3>1
    <3>2. CASE k = 1 /\ new[k] = e
      BY <2>2, <2>5, <2>9, <3>2
    <3>3. CASE /\ j - 1 \in 1..m /\ new[j] = chain[j - 1]
               /\ k - 1 \in 1..m /\ new[k] = chain[k - 1]
      <4>1. j - 1 = k - 1
        BY <1>1, <2>9, <3>3
      <4> QED
        BY <4>1
    <3> QED
      BY <2>5, <3>1, <3>2, <3>3
  <2>10. Len(new) <= Len(chain) + 1
    BY <1>1, <2>3
  <2> QED
    BY <1>1, <2>3, <2>6, <2>7, <2>8, <2>9, <2>10 DEF Counted, new
<1> QED
  BY <1>4, <1>5

(* What is counted has no capitals and ends with a letter.                     *)
LEMMA NormalIs ==
  ASSUME NEW v \in Words
  PROVE  /\ wc_trim_non_alpha(v) \in Words
         /\ wc_tolower(wc_trim_non_alpha(v)) \in Words
         /\ Normal(wc_tolower(wc_trim_non_alpha(v)))
<1>1. v \in Strings /\ Len(v) <= MAX_WORDLEN /\ Len(v) \in Nat /\ MAX_WORDLEN \in Nat
  BY WordsFacts
<1>2. PICK t : t = wc_trim_non_alpha(v)
  OBVIOUS
<1>3. t \in Strings /\ Len(t) <= Len(v) /\ (t # <<>> => wc_isalpha(t[Len(t)]))
  BY <1>1, <1>2, TrimIs
<1>4. PICK n \in Nat : n = Len(t)
  BY <1>3, SeqFacts DEF Strings
<1>5. PICK s : s = wc_tolower(t)
  OBVIOUS
<1>6. /\ s \in Strings /\ Len(s) = n
      /\ \A k \in 1..n : s[k] = IF t[k] \in 65..90 THEN t[k] + 32 ELSE t[k]
  BY <1>3, <1>4, <1>5, LowerIs
<1>7. n <= MAX_WORDLEN
  BY <1>1, <1>3, <1>4
<1>8. \A k \in 1..n : t[k] \in Chars
  BY <1>3, <1>4, SeqFacts DEF Strings
<1>9. ASSUME NEW k \in 1..n PROVE s[k] \notin 65..90
  <2>1. PICK c \in Chars : c = t[k]
    BY <1>8
  <2>2. (IF c \in 65..90 THEN c + 32 ELSE c) \notin 65..90
    BY DEF Chars
  <2> QED
    BY <1>6, <2>1, <2>2
<1>10. ASSUME s # <<>> PROVE wc_isalpha(s[n])
  <2>1. n # 0 /\ n \in 1..n
    <3>1. s \in Seq(Chars)
      BY <1>6 DEF Strings
    <3>2. n # 0
      BY <1>6, <1>10, <3>1
    <3> QED
      BY <3>2
  <2>2. t # <<>>
    BY <1>4, <2>1
  <2>3. PICK c \in Chars : c = t[n]
    BY <1>8, <2>1
  <2>4. wc_isalpha(c)
    BY <1>3, <1>4, <2>2, <2>3
  <2>5. wc_isalpha(IF c \in 65..90 THEN c + 32 ELSE c)
    BY <2>4 DEF wc_isalpha
  <2> QED
    BY <1>6, <2>1, <2>3, <2>5
<1> QED
  BY <1>2, <1>3, <1>4, <1>5, <1>6, <1>7, <1>9, <1>10 DEF Words, Normal

\* How a step that counts a word changes the table.
Counts(s) ==
  /\ s \in Words /\ Normal(s)
  /\ buckets' = [buckets EXCEPT ![Hash(s)] = Counting(@, s)]
  /\ counted' = Append(counted, s)

(* A step of CountWord counts a normal word and writes where it may.           *)
LEMMA CountEffect ==
  ASSUME TypeOK, CountWord
  PROVE  /\ \E s : Counts(s)
         /\ low' \in Int /\ high' \in Int
         /\ Within(low, high) => Within(low', high')
         /\ lib = "c" => low' = low \/ (w = <<>> /\ low' = -1) \/ (low > 0 /\ low' >= 0)
<1>1. lib \in {"c", "asm"} /\ w \in Words /\ low \in Int /\ high \in Int
  BY DEF TypeOK
<1>2. PICK v, word : v = w /\ word = wc_trim_non_alpha(v)
  OBVIOUS
<1>3. v \in Words /\ word \in Words /\ wc_tolower(word) \in Words /\ Normal(wc_tolower(word))
  BY <1>1, <1>2, NormalIs
<1>4. PICK max \in Nat : max = MAX_WORDLEN
  BY WordCountAssumption
<1>5. PICK n \in Nat : n = Len(word) /\ n <= max
  BY <1>3, <1>4, WordsFacts
<1> DEFINE trimmed == Linked(c_trim(v), asm_trim(v))
<1>6. trimmed.word = word
  BY <1>2 DEF c_trim, asm_trim, Linked
<1>7. lib = "c" => \/ v = <<>> /\ trimmed.first = -1 /\ trimmed.last = -1
                   \/ trimmed.first = n /\ trimmed.last = n
  BY <1>2, <1>5 DEF Linked, c_trim
<1>8. lib = "asm" => \/ trimmed.first = -1 /\ trimmed.last = 6
                     \/ trimmed.first = -7 /\ trimmed.last = 0
                     \/ trimmed.first = n /\ trimmed.last = n + 7
  BY <1>2, <1>5 DEF Linked, asm_trim
<1>9. /\ low' = IF trimmed.first < low THEN trimmed.first ELSE low
      /\ high' = IF trimmed.last > high THEN trimmed.last ELSE high
  BY <1>2 DEF CountWord, Highest
<1>10. Counts(wc_tolower(word))
  <2>1. PICK s : s = wc_tolower(word)
    OBVIOUS
  <2>2. /\ buckets' = [buckets EXCEPT ![Linked(wc_hash(s), asm_hash(s)) % NumBuckets]
                                        = Counting(@, s)]
        /\ counted' = Append(counted, s)
    BY <1>2, <1>6, <2>1 DEF CountWord
  <2> QED
    BY <1>3, <2>1, <2>2 DEF Counts, Hash
<1> HIDE DEF trimmed
<1>11. trimmed.first \in Int /\ trimmed.last \in Int
  BY <1>1, <1>7, <1>8
<1>12. low' \in Int /\ high' \in Int
  BY <1>1, <1>9, <1>11
<1>13. CASE lib = "c"
  <2>1. Floor = -1 /\ Limit = max
    BY <1>4, <1>13 DEF Floor, Limit
  <2>2. low' = low \/ (w = <<>> /\ low' = -1) \/ (low > 0 /\ low' >= 0)
    BY <1>1, <1>2, <1>5, <1>7, <1>9, <1>13
  <2> QED
    BY <1>1, <1>5, <1>7, <1>9, <1>10, <1>12, <1>13, <2>1, <2>2 DEF Within
<1>14. CASE lib = "asm"
  <2>1. Floor = -7 /\ Limit = max + 7
    BY <1>4, <1>14 DEF Floor, Limit
  <2> QED
    BY <1>1, <1>5, <1>8, <1>9, <1>10, <1>12, <1>14, <2>1 DEF Within
<1> QED
  BY <1>1, <1>13, <1>14

(* A step of ReadNext reads a word that fits, and writes where it may; what it *)
(* leaves in w is empty only if the word begins with a NUL.                    *)
LEMMA ReadEffect ==
  ASSUME TypeOK, ReadNext
  PROVE  /\ w' \in Words /\ pos' \in 0..Len(text) /\ pc' \in {"count", "report"}
         /\ high' \in Int
         /\ Within(low, high) => Within(low, high')
         /\ \/ pc' = "report" /\ raw' = raw
            \/ \E characters \in Seq(Bytes) :
                 /\ raw' = Append(raw, characters)
                 /\ w' = <<>> => characters[1] = 0
<1>1. PICK n \in Nat : n = Len(text)
  BY SeqFacts DEF TypeOK
<1>2. PICK max \in Nat \ {0} : max = MAX_WORDLEN
  BY WordCountAssumption
<1>3. /\ text \in Seq(Bytes) /\ pos \in 0..n /\ lib \in {"c", "asm"} /\ w \in Words
      /\ low \in Int /\ high \in Int
  BY <1>1 DEF TypeOK
<1>4. PICK start : start = SkipSpaces(pos)
  OBVIOUS
<1>5. /\ start \in pos..n /\ start \in 0..n
      /\ start = n \/ ~wc_isspace(text[start + 1])
  <2>1. start \in pos..n /\ (start = n \/ ~wc_isspace(text[start + 1]))
    BY <1>1, <1>3, <1>4, SkipSpacesIs
  <2> QED
    BY <1>3, <2>1
<1>6. PICK end : end = WordEnd(start)
  OBVIOUS
<1>7. /\ end \in start..n /\ end - start <= max
      /\ end = n \/ end - start = max \/ wc_isspace(text[end + 1])
  BY <1>1, <1>2, <1>3, <1>5, <1>6, WordEndIs
<1> DEFINE read == Linked(wc_readnext(start, end), asm_readnext(start, end))
<1>8. CASE start = n
  <2>1. w' = w /\ pos' = n /\ pc' = "report" /\ high' = high /\ raw' = raw
    BY <1>1, <1>4, <1>8 DEF ReadNext
  <2> QED
    BY <1>1, <1>3, <2>1
<1>9. CASE start # n
  <2>0. PICK characters : characters = SubSeq(text, start + 1, end)
    OBVIOUS
  <2>1. /\ w' = CString(characters) /\ raw' = Append(raw, characters)
        /\ pos' = read.pos /\ pc' = "count"
        /\ high' = IF read.last > high THEN read.last ELSE high
    BY <1>1, <1>4, <1>6, <1>9, <2>0 DEF ReadNext, Highest
  <2>2. read.pos \in 0..n
    BY <1>1, <1>2, <1>5, <1>7 DEF Linked, wc_readnext, asm_readnext
  <2>3. /\ read.last \in 0..(max + 2)
        /\ lib = "c" => read.last \in 0..max
    BY <1>5, <1>7 DEF Linked, wc_readnext, asm_readnext
  <2>4. /\ characters \in Seq(Bytes) /\ Len(characters) = end - start
    BY <1>1, <1>3, <1>5, <1>7, <2>0
  <2>5. characters # <<>>
    <3>1. end # start
      BY <1>2, <1>5, <1>7, <1>9
    <3> QED
      BY <1>5, <1>7, <2>4, <3>1
  <2>6. CString(characters) \in Words /\ (CString(characters) = <<>> => characters[1] = 0)
    <3>1. PICK l \in Nat : l = Len(CString(characters))
      BY <2>4, CStringIs, SeqFacts DEF Strings
    <3>2. l <= max
      BY <1>5, <1>7, <2>4, <3>1, CStringIs
    <3> QED
      BY <1>2, <2>4, <2>5, <3>1, <3>2, CStringIs DEF Words
  <2> HIDE DEF read
  <2>7. Limit = IF lib = "c" THEN max ELSE max + 7
    BY <1>2 DEF Limit
  <2>8. high' \in Int
    BY <1>3, <2>1, <2>3
  <2>9. high <= Limit => high' <= Limit
    BY <1>3, <2>1, <2>3, <2>7
  <2> QED
    BY <1>1, <2>1, <2>2, <2>4, <2>6, <2>8, <2>9 DEF Within
<1> QED
  BY <1>8, <1>9

(* What has been read stays read, and a NUL at the start of the word added is  *)
(* seen.                                                                       *)
LEMMA NulStays ==
  ASSUME NEW q \in Seq(Seq(Bytes)), NEW s \in Seq(Bytes)
  PROVE  /\ Append(q, s) \in Seq(Seq(Bytes))
         /\ \/ \E k \in DOMAIN q : q[k][1] = 0
            \/ s[1] = 0
            => \E k \in DOMAIN Append(q, s) : Append(q, s)[k][1] = 0
<1>1. PICK S : S = Seq(Bytes)
  OBVIOUS
<1>2. PICK n \in Nat : n = Len(q) /\ DOMAIN q = 1..n
  BY SeqFacts
<1>3. /\ Append(q, s) \in Seq(S) /\ DOMAIN Append(q, s) = 1..(n + 1)
      /\ Append(q, s)[n + 1] = s /\ \A k \in 1..n : Append(q, s)[k] = q[k]
  BY <1>1, <1>2
<1>4. n + 1 \in 1..(n + 1) /\ \A k \in 1..n : k \in 1..(n + 1)
  OBVIOUS
<1> QED
  BY <1>1, <1>2, <1>3, <1>4

(* A step of ReportBucket takes the most frequent word of one bucket more.     *)
LEMMA ReportEffect ==
  ASSUME TypeOK, ReportBucket
  PROVE  /\ i \in Buckets /\ i' = i + 1 /\ i' \in 0..NumBuckets
         /\ pc' \in {"report", "done"} /\ (pc' = "done" => i' = NumBuckets)
         /\ unique_words' = unique_words + Len(buckets[i])
         /\ best_word' \in Words /\ best_word_count' \in Nat /\ high' \in Int
         /\ best_word_count' >= best_word_count
         /\ \A k \in 1..Len(buckets[i]) : buckets[i][k].count <= best_word_count'
         /\ \/ best_word' = best_word /\ best_word_count' = best_word_count
            \/ \E k \in 1..Len(buckets[i]) : /\ best_word' = buckets[i][k].word
                                             /\ best_word_count' = buckets[i][k].count
         /\ Within(low, high) => Within(low, high')
<1>1. PICK n \in Nat \ {0} : n = NumBuckets
  BY WordCountAssumption
<1>2. i \in 0..(n - 1) /\ i \in Buckets /\ i + 1 \in 0..n
  <2>1. i \in 0..n
    BY <1>1 DEF TypeOK
  <2>2. i < n
    BY <1>1 DEF ReportBucket
  <2> QED
    BY <1>1, <2>1, <2>2 DEF Buckets
<1>3. i' = i + 1 /\ unique_words' = unique_words + Len(buckets[i])
      /\ pc' = IF i + 1 = n THEN "done" ELSE "report"
  BY <1>1 DEF ReportBucket
<1>4. PICK q : q = buckets[i]
  OBVIOUS
<1>5. q \in Seq(Entries)
  BY <1>2, <1>4 DEF TypeOK
<1>6. PICK base : base = [word |-> best_word, count |-> best_word_count, high |-> high]
  OBVIOUS
<1>7. base \in Bests /\ base.word = best_word /\ base.count = best_word_count
      /\ base.high = high
  BY <1>6 DEF TypeOK, Bests
<1>8. PICK best : best = BestFold(base, q)
  OBVIOUS
<1>9. best_word' = best.word /\ best_word_count' = best.count /\ high' = best.high
  BY <1>4, <1>6, <1>8, ZenonT(60) DEF ReportBucket, BestFold, FoldLeft, MapThenFoldSet
<1>10. /\ best \in Bests /\ best.count >= base.count
       /\ \A k \in 1..Len(q) : q[k].count <= best.count
       /\ \/ best.word = base.word /\ best.count = base.count
          \/ \E k \in 1..Len(q) : best.word = q[k].word /\ best.count = q[k].count
       /\ base.high <= Limit => best.high <= Limit
  BY <1>5, <1>7, <1>8, BestFoldIs DEF TypeOK
<1>11. best.word \in Words /\ best.count \in Nat /\ best.high \in Int
  BY <1>10 DEF Bests
<1> QED
  BY <1>1, <1>2, <1>3, <1>4, <1>7, <1>9, <1>10, <1>11 DEF Within

(* Finding or inserting a word and counting it keeps the table right.          *)
LEMMA TableGrows ==
  ASSUME lib \in {"c", "asm"}, NEW B \in [Buckets -> Seq(Entries)],
         NEW c \in Seq(Words), NEW s \in Words, TableOf(B, c)
  PROVE  /\ [B EXCEPT ![Hash(s)] = Counting(@, s)] \in [Buckets -> Seq(Entries)]
         /\ TableOf([B EXCEPT ![Hash(s)] = Counting(@, s)], Append(c, s))
<1>1. PICK h : h = Hash(s)
  OBVIOUS
<1>2. h \in Buckets
  BY <1>1, HashType, WordsFacts
<1>3. PICK chain : chain = B[h]
  OBVIOUS
<1>4. chain \in Seq(Entries)
  BY <1>2, <1>3
<1>5. PICK n : n = Occ(c, s)
  OBVIOUS
<1>6. n \in Nat /\ (s \notin Range(c) => n = 0)
  BY <1>5, OccType
<1>7. PICK d : d = Append(c, s)
  OBVIOUS
<1>8. d \in Seq(Words) /\ Range(d) = Range(c) \cup {s} /\ Len(d) = Len(c) + 1
  BY <1>7, RangeAppend
<1>9. Occ(d, s) = n + 1 /\ \A x : x # s => Occ(d, x) = Occ(c, x)
  BY <1>5, <1>7, OccAppend
<1>10. PICK new : new = Counting(chain, s)
  OBVIOUS
<1>11. Counted(new, chain, s, n)
  <2>1. \A k \in 1..Len(chain) : chain[k].word = s => chain[k].count = n
    BY <1>2, <1>3, <1>5 DEF TableOf, FiledIn
  <2>2. (\A k \in 1..Len(chain) : chain[k].word # s) => n = 0
    BY <1>1, <1>3, <1>6 DEF TableOf, FoundIn
  <2>3. \A j, k \in 1..Len(chain) : chain[j].word = chain[k].word => j = k
    BY <1>2, <1>3 DEF TableOf, SingleIn
  <2> QED
    BY <1>4, <1>6, <1>10, <2>1, <2>2, <2>3, CountingIs
<1>12. PICK C : C = [B EXCEPT ![Hash(s)] = Counting(@, s)]
  OBVIOUS
<1>13. C[h] = new /\ \A b \in Buckets : b # h => C[b] = B[b]
  BY <1>1, <1>2, <1>3, <1>10, <1>12
<1>14. C \in [Buckets -> Seq(Entries)]
  BY <1>1, <1>2, <1>3, <1>10, <1>11, <1>12 DEF Counted
<1>15. ASSUME NEW b \in Buckets, NEW k \in 1..Len(B[b]), B[b][k].word # s
       PROVE  /\ Hash(B[b][k].word) = b /\ B[b][k].word \in Range(d)
              /\ B[b][k].count = Occ(d, B[b][k].word)
  BY <1>8, <1>9, <1>15 DEF TableOf, FiledIn
<1>16. FiledIn(C, d)
  <2> SUFFICES ASSUME NEW b \in Buckets, NEW k \in 1..Len(C[b])
               PROVE  /\ Hash(C[b][k].word) = b /\ C[b][k].word \in Range(d)
                      /\ C[b][k].count = Occ(d, C[b][k].word)
    BY DEF FiledIn
  <2>1. CASE b # h
    <3>1. C[b] = B[b] /\ Hash(B[b][k].word) = b /\ k \in 1..Len(B[b])
      BY <1>13, <2>1 DEF TableOf, FiledIn
    <3>2. B[b][k].word # s
      BY <1>1, <2>1, <3>1
    <3> QED
      BY <1>15, <3>1, <3>2
  <2>2. CASE b = h
    <3>1. \/ new[k].word = s /\ new[k].count = n + 1
          \/ new[k].word # s /\ \E j \in 1..Len(chain) : new[k] = chain[j]
      BY <1>11, <1>13, <2>2 DEF Counted
    <3>2. CASE new[k].word = s /\ new[k].count = n + 1
      BY <1>1, <1>8, <1>9, <1>13, <2>2, <3>2
    <3>3. CASE new[k].word # s /\ \E j \in 1..Len(chain) : new[k] = chain[j]
      <4>1. PICK j \in 1..Len(B[b]) : new[k] = B[b][j] /\ B[b][j].word # s
        BY <1>3, <2>2, <3>3
      <4> QED
        BY <1>13, <1>15, <2>2, <4>1
    <3> QED
      BY <3>1, <3>2, <3>3
  <2> QED
    BY <2>1, <2>2
<1>17. SingleIn(C)
  <2> SUFFICES ASSUME NEW b \in Buckets, NEW j \in 1..Len(C[b]), NEW k \in 1..Len(C[b]),
                      C[b][j].word = C[b][k].word
               PROVE  j = k
    BY DEF SingleIn
  <2>1. CASE b = h
    BY <1>11, <1>13, <2>1 DEF Counted
  <2>2. CASE b # h
    BY <1>13, <2>2 DEF TableOf, SingleIn
  <2> QED
    BY <2>1, <2>2
<1>18. FoundIn(C, d)
  <2> SUFFICES ASSUME NEW x \in Range(d)
               PROVE  \E k \in 1..Len(C[Hash(x)]) : C[Hash(x)][k].word = x
    BY DEF FoundIn
  <2>1. CASE x = s
    BY <1>1, <1>11, <1>13, <2>1 DEF Counted
  <2>2. CASE x \in Range(c)
    <3>0. PICK b : b = Hash(x)
      OBVIOUS
    <3>1. PICK k \in 1..Len(B[b]) : B[b][k].word = x
      BY <2>2, <3>0 DEF TableOf, FoundIn
    <3>2. b \in Buckets
      <4>1. x \in Words
        BY <1>8 DEF Range
      <4> QED
        BY <3>0, <4>1, HashType, WordsFacts
    <3> QED
      BY <1>3, <1>11, <1>13, <3>0, <3>1, <3>2 DEF Counted
  <2> QED
    BY <1>8, <2>1, <2>2
<1>19. ShortIn(C, d)
  <2> SUFFICES ASSUME NEW b \in Buckets PROVE Len(C[b]) <= Len(d)
    BY DEF ShortIn
  <2>1. PICK l \in Nat : l = Len(B[b])
    BY SeqFacts
  <2>2. PICK m \in Nat : m = Len(c)
    BY SeqFacts
  <2>3. l <= m
    BY <2>1, <2>2 DEF TableOf, ShortIn
  <2>4. b = h => Len(C[b]) \in Nat /\ Len(C[b]) <= l + 1
    BY <1>3, <1>11, <1>13, <2>1, SeqFacts DEF Counted
  <2>5. b # h => Len(C[b]) = l
    BY <1>13, <2>1
  <2> QED
    BY <1>8, <2>1, <2>2, <2>3, <2>4, <2>5
<1> QED
  BY <1>7, <1>12, <1>14, <1>16, <1>17, <1>18, <1>19 DEF TableOf

(* The words of a sequence are finitely many.                                  *)
LEMMA RangeFinite ==
  ASSUME NEW S, NEW q \in Seq(S)
  PROVE  IsFiniteSet(Range(q)) /\ Range(q) \subseteq S
<1>1. PICK n \in Nat : DOMAIN q = 1..n
  BY SeqFacts
<1>2. q \in Surjection(1..n, Range(q))
  BY <1>1 DEF Surjection, Range
<1>3. IsFiniteSet(1..n)
  <2>1. 1 \in Int /\ n \in Int
    OBVIOUS
  <2> QED
    BY ONLY <2>1, FS_Interval
<1>4. IsFiniteSet(Range(q))
  BY ONLY <1>2, <1>3, FS_Surjection
<1>5. Range(q) \subseteq S
  BY SeqFacts DEF Range
<1> QED
  BY <1>4, <1>5

(* A bucket has as many entries as there are counted words with its hash.      *)
LEMMA KnownGrows ==
  ASSUME lib \in {"c", "asm"}, NEW B \in [Buckets -> Seq(Entries)],
         NEW c \in Seq(Words), TableOf(B, c), NEW b \in Buckets
  PROVE  /\ Cardinality(KnownIn(c, b)) \in Nat
         /\ Cardinality(KnownIn(c, b + 1)) = Cardinality(KnownIn(c, b)) + Len(B[b])
         /\ \A x \in KnownIn(c, b + 1) :
              x \in KnownIn(c, b) \/ \E k \in 1..Len(B[b]) : B[b][k].word = x
<1>1. b \in Nat
  BY WordCountAssumption DEF Buckets
<1>2. \A x \in Range(c) : Hash(x) \in Nat
  <2> SUFFICES ASSUME NEW x \in Range(c) PROVE Hash(x) \in Nat
    OBVIOUS
  <2>1. x \in Words
    BY RangeFinite
  <2>2. Hash(x) \in Buckets
    BY <2>1, HashType, WordsFacts
  <2> QED
    BY <2>2, WordCountAssumption DEF Buckets
<1> DEFINE S == {x \in Range(c) : Hash(x) = b}
<1>3. PICK old : old = KnownIn(c, b)
  OBVIOUS
<1>4. KnownIn(c, b + 1) = old \cup S /\ old \cap S = {}
  BY <1>1, <1>2, <1>3 DEF KnownIn
<1>5. IsFiniteSet(old) /\ IsFiniteSet(S)
  <2>1. IsFiniteSet(Range(c))
    BY RangeFinite
  <2>2. old \in SUBSET Range(c) /\ S \in SUBSET Range(c)
    BY <1>3 DEF KnownIn
  <2> QED
    BY ONLY <2>1, <2>2, FS_Subset
<1>15. PICK q : q = B[b] /\ q \in Seq(Entries)
  OBVIOUS
<1>6. PICK n \in Nat : q = B[b] /\ n = Len(q) /\ DOMAIN q = 1..n
  BY <1>15, SeqFacts
<1>7. \A x \in S : \E k \in 1..n : q[k].word = x
  BY <1>6 DEF TableOf, FoundIn
<1>8. \A k \in 1..n : q[k].word \in S
  BY <1>6 DEF TableOf, FiledIn
<1>9. \A j, k \in 1..n : q[j].word = q[k].word => j = k
  BY <1>6 DEF TableOf, SingleIn
<1>10. Cardinality(S) = n
  <2> DEFINE f == [k \in 1..n |-> q[k].word]
  <2>1. f \in Bijection(1..n, S)
    <3> HIDE DEF S
    <3>1. f \in [1..n -> S]
      BY <1>8
    <3>2. \A j, k \in 1..n : f[j] = f[k] => j = k
      BY <1>9
    <3>3. \A x \in S : \E k \in 1..n : f[k] = x
      BY <1>7
    <3> HIDE DEF f
    <3> QED
      BY <3>1, <3>2, <3>3 DEF Bijection, Injection, Surjection, IsInjective
  <2>2. IsFiniteSet(1..n) /\ Cardinality(1..n) = n
    <3>1. 1 \in Int /\ n \in Int /\ (1 > n => n = 0) /\ n - 1 + 1 = n
      OBVIOUS
    <3>2. /\ IsFiniteSet(1..n)
          /\ Cardinality(1..n) = IF 1 > n THEN 0 ELSE n - 1 + 1
      BY ONLY <3>1, FS_Interval
    <3> QED
      BY <3>1, <3>2
  <2>3. ExistsBijection(1..n, S)
    BY <2>1 DEF ExistsBijection
  <2> HIDE DEF S
  <2>4. Cardinality(S) = Cardinality(1..n)
    BY ONLY <2>2, <2>3, FS_Bijection
  <2> QED
    BY <2>2, <2>4
<1> HIDE DEF S
<1>11. Cardinality(old \cup S) = Cardinality(old) + Cardinality(S) - Cardinality(old \cap S)
  BY ONLY <1>5, FS_Union
<1>12. Cardinality(old) \in Nat /\ Cardinality({}) = 0
  BY <1>5, FS_CardinalityType, FS_EmptySet
<1>13. Cardinality(old \cup S) = Cardinality(old) + n
  <2>1. PICK m \in Nat : m = Cardinality(old)
    BY <1>12
  <2>2. Cardinality(old \cup S) = m + n - 0
    BY <1>4, <1>10, <1>11, <1>12, <2>1
  <2> QED
    BY <2>1, <2>2
<1>14. \A x \in old \cup S : x \in old \/ \E k \in 1..n : q[k].word = x
  BY <1>7
<1> QED
  BY <1>3, <1>4, <1>6, <1>12, <1>13, <1>14

-----------------------------------------------------------------------------
(* The steps keep the invariant. *)

(* A counted word belongs to a bucket.                                         *)
LEMMA HashNat ==
  ASSUME TypeOK, NEW x \in Range(counted)
  PROVE  x \in Words /\ Hash(x) \in Buckets /\ Hash(x) \in Nat /\ Hash(x) < NumBuckets
<1>1. x \in Words
  BY RangeFinite DEF TypeOK
<1>2. Hash(x) \in Buckets
  BY <1>1, HashType, WordsFacts
<1>3. PICK n \in Nat : n = NumBuckets
  BY WordCountAssumption
<1>4. Hash(x) \in 0..(n - 1)
  BY <1>2, <1>3 DEF Buckets
<1> QED
  BY <1>1, <1>2, <1>3, <1>4

(* The count of the model's reference.                                         *)
LEMMA OccurrencesIs == \A s : Occurrences(s) = Occ(counted, s)
BY DEF Occurrences, Occ

(* The invariant holds initially: nothing has been read, counted or written.   *)
LEMMA InitHolds == Init => IInv
<1> SUFFICES ASSUME Init PROVE IInv
  OBVIOUS
<1>1. text \in Seq(Bytes) /\ lib \in {"c", "asm"}
  BY WordCountAssumption DEF Init, Bytes
<1>2. /\ <<>> \in Words /\ <<>> \in Seq(Words) /\ <<>> \in Seq(Entries)
      /\ Len(<<>>) = 0 /\ Range(<<>>) = {}
  BY WordCountAssumption DEF Words, Strings, Range
<1>3. TypeOK
  <2>1. pos \in 0..Len(text)
    BY <1>1, SeqFacts DEF Init
  <2>2. i \in 0..NumBuckets
    BY WordCountAssumption DEF Init
  <2> QED
    BY <1>1, <1>2, <2>1, <2>2 DEF TypeOK, Init
<1>4. TableOf(buckets, counted)
  BY <1>2 DEF Init, TableOf, FiledIn, SingleIn, FoundIn, ShortIn
<1>5. Tally
  <2>1. KnownIn(counted, i) = {}
    BY <1>2 DEF KnownIn, Init
  <2> QED
    BY <1>2, <2>1, FS_EmptySet DEF Tally, TallyOf, Init
<1>6. Within(low, high)
  <2>1. PICK max \in Nat : max = MAX_WORDLEN
    BY WordCountAssumption
  <2> QED
    BY <1>1, <2>1 DEF Within, Floor, Limit, Init
<1>7. NulCauses
  BY DEF NulCauses, Init
<1> QED
  BY <1>2, <1>3, <1>4, <1>5, <1>6, <1>7 DEF IInv, Phase, AllNormal, Init

(* The parts of the invariant that speak of hashes, after a step, which leaves *)
(* the library as it is.                                                       *)
LEMMA NextIs ==
  ASSUME lib' = lib
  PROVE  /\ TableOf(buckets, counted)' <=> TableOf(buckets', counted')
         /\ Tally' <=> TallyOf(counted', i', total_words', unique_words', best_word',
                               best_word_count')
         /\ Within(low, high)' <=> Within(low', high')
<1>1. TableOf(buckets, counted)' <=> TableOf(buckets', counted')
  BY DEF TableOf, FiledIn, SingleIn, FoundIn, ShortIn, Hash, Linked
<1>2. Tally' <=> TallyOf(counted', i', total_words', unique_words', best_word',
                         best_word_count')
  BY DEF Tally, TallyOf, KnownIn, Occ, Hash, Linked
<1>3. Within(low, high)' <=> Within(low', high')
  BY DEF Within, Floor, Limit
<1> QED
  BY <1>1, <1>2, <1>3

(* wc_readnext keeps the invariant: the table is not touched.                  *)
LEMMA ReadNextKeeps == ASSUME IInv, ReadNext PROVE IInv'
<1>1. TypeOK
  BY DEF IInv
<1>2. /\ w' \in Words /\ pos' \in 0..Len(text) /\ pc' \in {"count", "report"}
      /\ high' \in Int /\ (Within(low, high) => Within(low, high'))
  BY <1>1, ReadEffect
<1>3. /\ UNCHANGED <<lib, low, text, buckets, total_words, unique_words, best_word,
                     best_word_count, i, counted>>
      /\ pc = "read"
  BY DEF ReadNext
<1>4. raw' \in Seq(Seq(Bytes)) => TypeOK'
  BY <1>1, <1>2, <1>3 DEF TypeOK
<1>5. TableOf(buckets, counted)' /\ Tally' /\ Within(low, high)'
  BY <1>2, <1>3, NextIs DEF IInv, Tally
<1>6. Phase' /\ AllNormal'
  BY <1>2, <1>3 DEF IInv, Phase, AllNormal
<1>7. CASE pc' = "report" /\ raw' = raw
  <2>1. NulCauses' /\ raw' \in Seq(Seq(Bytes))
    BY <1>1, <1>3, <1>7 DEF IInv, TypeOK, NulCauses, NulRead
  <2> QED
    BY <1>4, <1>5, <1>6, <2>1 DEF IInv, TypeOK
<1>8. CASE \E characters \in Seq(Bytes) : /\ raw' = Append(raw, characters)
                                          /\ w' = <<>> => characters[1] = 0
  <2>1. PICK characters \in Seq(Bytes) : /\ raw' = Append(raw, characters)
                                         /\ w' = <<>> => characters[1] = 0
    BY <1>8
  <2>2. raw \in Seq(Seq(Bytes))
    BY <1>1 DEF TypeOK
  <2>3. raw' \in Seq(Seq(Bytes)) /\ (NulRead \/ characters[1] = 0 => NulRead')
    BY <2>1, <2>2, NulStays DEF NulRead
  <2>4. NulCauses'
    BY <1>3, <2>1, <2>3 DEF IInv, NulCauses
  <2> QED
    BY <1>4, <1>5, <1>6, <2>3, <2>4 DEF IInv, TypeOK
<1> QED
  BY <1>1, <1>7, <1>8, ReadEffect

(* Counting a word keeps the invariant: the table grows by TableGrows, and the *)
(* report has not begun.                                                       *)
LEMMA CountWordKeeps == ASSUME IInv, CountWord PROVE IInv'
<1>1. TypeOK
  BY DEF IInv
<1>2. PICK s : Counts(s)
  BY <1>1, CountEffect
<1>3. low' \in Int /\ high' \in Int /\ (Within(low, high) => Within(low', high'))
  BY <1>1, CountEffect
<1>4. /\ UNCHANGED <<lib, text, pos, unique_words, best_word, best_word_count, i, raw>>
      /\ total_words' = total_words + 1 /\ w' = <<>>
      /\ pc = "count" /\ pc' = "read"
  BY DEF CountWord
<1>5. /\ lib \in {"c", "asm"} /\ buckets \in [Buckets -> Seq(Entries)]
      /\ counted \in Seq(Words) /\ s \in Words /\ TableOf(buckets, counted)
  BY <1>1, <1>2 DEF TypeOK, IInv, Counts
<1>6. buckets' \in [Buckets -> Seq(Entries)] /\ TableOf(buckets', counted')
  BY <1>2, <1>5, TableGrows DEF Counts
<1>7. /\ counted' \in Seq(Words) /\ Len(counted') = Len(counted) + 1
      /\ Range(counted') = Range(counted) \cup {s}
  BY <1>2, <1>5, RangeAppend DEF Counts
<1>8. TypeOK'
  <2>1. <<>> \in Words
    BY WordCountAssumption DEF Words, Strings
  <2> QED
    BY <1>1, <1>3, <1>4, <1>6, <1>7, <2>1 DEF TypeOK
<1>9. i = 0 /\ best_word_count = 0
  BY <1>4 DEF IInv, Phase
<1>10. Tally'
  <2>1. \A x \in Range(counted') : Hash(x) \in Nat
    <3> SUFFICES ASSUME NEW x \in Range(counted') PROVE Hash(x) \in Nat
      OBVIOUS
    <3>1. x \in Words
      BY <1>7, RangeFinite
    <3>2. Hash(x) \in Buckets
      BY <1>5, <3>1, HashType, WordsFacts
    <3> QED
      BY <3>2, WordCountAssumption DEF Buckets
  <2>2. \A x \in Range(counted) : Hash(x) \in Nat
    BY <1>7, <2>1
  <2>3. KnownIn(counted', 0) = {} /\ KnownIn(counted, 0) = {}
    BY <2>1, <2>2 DEF KnownIn
  <2>4. TallyOf(counted, i, total_words, unique_words, best_word, best_word_count)
    BY DEF IInv, Tally
  <2>5. TallyOf(counted', 0, total_words', unique_words', best_word', best_word_count')
    BY <1>4, <1>7, <1>9, <2>3, <2>4 DEF TallyOf
  <2> QED
    BY <1>4, <1>9, <2>5, NextIs
<1>11. TableOf(buckets, counted)' /\ Within(low, high)'
  BY <1>3, <1>4, <1>6, NextIs DEF IInv
<1>12. AllNormal'
  BY <1>2, <1>7 DEF IInv, AllNormal, Counts
<1>13. Phase'
  BY <1>4, <1>9 DEF Phase
<1>14. NulCauses'
  <2>1. lib = "c" => low' = low \/ (w = <<>> /\ low' = -1) \/ (low > 0 /\ low' >= 0)
    BY <1>1, CountEffect
  <2>2. low \in Int /\ low <= 0
    BY <1>1 DEF IInv, TypeOK, Within
  <2>3. NulRead' = NulRead
    BY <1>4 DEF NulRead
  <2> QED
    BY <1>4, <2>1, <2>2, <2>3 DEF IInv, NulCauses
<1> QED
  BY <1>8, <1>10, <1>11, <1>12, <1>13, <1>14 DEF IInv

(* Reporting a bucket keeps the invariant: as many different words are added   *)
(* as the bucket has entries (KnownGrows).                                     *)
LEMMA ReportKeeps == ASSUME IInv, ReportBucket PROVE IInv'
<1>1. TypeOK
  BY DEF IInv
<1>2. /\ UNCHANGED <<lib, low, text, pos, w, buckets, total_words, raw, counted>>
      /\ pc = "report"
  BY DEF ReportBucket
<1>3. /\ i \in Buckets /\ i' = i + 1 /\ i' \in 0..NumBuckets
      /\ pc' \in {"report", "done"} /\ (pc' = "done" => i' = NumBuckets)
      /\ unique_words' = unique_words + Len(buckets[i])
      /\ best_word' \in Words /\ best_word_count' \in Nat /\ high' \in Int
      /\ (Within(low, high) => Within(low, high'))
  BY <1>1, ReportEffect
<1>4. /\ best_word_count' >= best_word_count
      /\ \A k \in 1..Len(buckets[i]) : buckets[i][k].count <= best_word_count'
      /\ \/ best_word' = best_word /\ best_word_count' = best_word_count
         \/ \E k \in 1..Len(buckets[i]) : /\ best_word' = buckets[i][k].word
                                          /\ best_word_count' = buckets[i][k].count
  BY <1>1, ReportEffect
<1>5. /\ lib \in {"c", "asm"} /\ buckets \in [Buckets -> Seq(Entries)]
      /\ counted \in Seq(Words) /\ TableOf(buckets, counted)
      /\ unique_words \in Nat /\ best_word_count \in Nat
  BY <1>1 DEF TypeOK, IInv
<1>6. PICK l \in Nat : l = Len(buckets[i])
  BY <1>3, <1>5, SeqFacts
<1>7. TypeOK'
  <2>1. unique_words' \in Nat
    BY <1>3, <1>5, <1>6
  <2> QED
    BY <1>1, <1>2, <1>3, <2>1 DEF TypeOK
<1>8. Tally'
  <2>1. TallyOf(counted, i, total_words, unique_words, best_word, best_word_count)
    BY DEF IInv, Tally
  <2>2. /\ Cardinality(KnownIn(counted, i + 1)) = Cardinality(KnownIn(counted, i)) + l
        /\ \A x \in KnownIn(counted, i + 1) :
             x \in KnownIn(counted, i) \/ \E k \in 1..l : buckets[i][k].word = x
    BY <1>3, <1>5, <1>6, KnownGrows
  <2>3. \A k \in 1..l : /\ buckets[i][k].word \in Range(counted)
                        /\ buckets[i][k].count = Occ(counted, buckets[i][k].word)
    BY <1>3, <1>5, <1>6 DEF TableOf, FiledIn
  <2>4. ASSUME best_word_count' # 0
        PROVE  best_word' \in Range(counted) /\ best_word_count' = Occ(counted, best_word')
    BY <1>4, <1>6, <2>1, <2>3, <2>4 DEF TallyOf
  <2>5. ASSUME NEW x \in KnownIn(counted, i + 1)
        PROVE  Occ(counted, x) <= best_word_count'
    <3>1. CASE x \in KnownIn(counted, i)
      <4>1. PICK m \in Nat : m = Occ(counted, x)
        BY <1>5, OccType
      <4>2. m <= best_word_count
        BY <2>1, <3>1, <4>1 DEF TallyOf
      <4> QED
        BY <1>3, <1>4, <1>5, <4>1, <4>2
    <3>2. CASE \E k \in 1..l : buckets[i][k].word = x
      BY <1>4, <1>6, <2>3, <3>2
    <3> QED
      BY <2>2, <3>1, <3>2
  <2>6. unique_words' = Cardinality(KnownIn(counted, i + 1))
    BY <1>3, <1>6, <2>1, <2>2 DEF TallyOf
  <2>7. TallyOf(counted, i + 1, total_words, unique_words', best_word', best_word_count')
    BY <2>1, <2>4, <2>5, <2>6 DEF TallyOf
  <2> QED
    BY <1>2, <1>3, <2>7, NextIs
<1>9. TableOf(buckets, counted)' /\ Within(low, high)'
  BY <1>2, <1>3, <1>5, NextIs DEF IInv
<1>10. AllNormal' /\ Phase' /\ NulCauses'
  BY <1>2, <1>3 DEF IInv, AllNormal, Phase, NulCauses, NulRead
<1> QED
  BY <1>7, <1>8, <1>9, <1>10 DEF IInv

(* The invariant holds in every state of the word counter.                     *)
THEOREM Inv == Spec => []IInv
<1>1. IInv /\ [Next]_vars => IInv'
  <2> SUFFICES ASSUME IInv, [Next]_vars PROVE IInv'
    OBVIOUS
  <2>1. CASE UNCHANGED vars
    <3>1. UNCHANGED <<lib, text, pos, w, buckets, total_words, unique_words, best_word,
                      best_word_count, i, pc, raw, counted, low, high>>
      BY <2>1 DEF vars
    <3>2. TypeOK' /\ AllNormal' /\ Phase' /\ NulCauses'
      BY <3>1 DEF IInv, TypeOK, AllNormal, Phase, NulCauses, NulRead
    <3>3. TableOf(buckets, counted)' /\ Tally' /\ Within(low, high)'
      BY <3>1, NextIs DEF IInv, Tally
    <3> QED
      BY <3>2, <3>3 DEF IInv
  <2> QED
    BY <2>1, ReadNextKeeps, CountWordKeeps, ReportKeeps DEF Next
<1> QED
  BY <1>1, InitHolds, PTL DEF Spec

(* No function of the word counter writes outside the buffer of a word, in C,  *)
(* but one byte below it when a word begins with a NUL, or more than seven     *)
(* bytes outside it, in assembly: for every input of any bytes, every length   *)
(* of a word and every number of buckets.                                      *)
THEOREM WritesStayInBounds == Spec => []WritesBounded
<1>1. IInv => WritesBounded
  <2> SUFFICES ASSUME IInv PROVE WritesBounded
    OBVIOUS
  <2>1. PICK max \in Nat : max = MAX_WORDLEN
    BY WordCountAssumption
  <2>2. lib \in {"c", "asm"} /\ low \in Int /\ high \in Int /\ Within(low, high)
    BY DEF IInv, TypeOK
  <2>3. lib = "c" /\ low # 0 => low = -1 /\ \E k \in DOMAIN raw : raw[k][1] = 0
    BY DEF IInv, NulCauses, NulRead
  <2> QED
    BY <2>1, <2>2, <2>3 DEF WritesBounded, Within, Floor, Limit
<1> QED
  BY <1>1, Inv, PTL

(* What is counted, by trim and tolower of either library, has no capitals and *)
(* ends with a letter.                                                         *)
THEOREM CountsNormalWords == Spec => []CountedWordsNormal
<1>1. IInv => CountedWordsNormal
  <2> SUFFICES ASSUME IInv, NEW s \in Range(counted)
               PROVE  /\ \A k \in DOMAIN s : s[k] \notin 65..90
                      /\ s # <<>> => wc_isalpha(s[Len(s)])
    BY DEF CountedWordsNormal
  <2>1. s \in Words
    BY HashNat DEF IInv
  <2>2. DOMAIN s = 1..Len(s)
    BY <2>1, SeqFacts DEF Words, Strings
  <2> QED
    BY <2>2 DEF IInv, AllNormal, Normal
<1> QED
  BY <1>1, Inv, PTL

(* Every word counted so far has one entry in the hash table, with the number  *)
(* of its occurrences, and nothing else has one: whatever the text, the hash   *)
(* function, the comparison and the number of collisions.                      *)
THEOREM TableStaysDictionary == Spec => []TableIsDictionary
<1>1. IInv => TableIsDictionary
  <2> SUFFICES ASSUME IInv,
                      NEW s \in Range(counted) \cup
                                UNION {{e.word : e \in Range(buckets[b])} : b \in Buckets}
               PROVE  LET places == {p \in Buckets \X (1..Len(counted)) :
                                       p[2] <= Len(buckets[p[1]])
                                       /\ buckets[p[1]][p[2]].word = s}
                      IN  /\ Cardinality(places) = 1
                          /\ \A p \in places : buckets[p[1]][p[2]].count = Occurrences(s)
    BY DEF TableIsDictionary
  <2>1. /\ TypeOK /\ buckets \in [Buckets -> Seq(Entries)] /\ counted \in Seq(Words)
        /\ TableOf(buckets, counted)
    BY DEF IInv, TypeOK
  <2>2. \A b \in Buckets : DOMAIN buckets[b] = 1..Len(buckets[b])
    BY <2>1, SeqFacts
  <2>3. s \in Range(counted)
    <3>1. CASE s \in UNION {{e.word : e \in Range(buckets[b])} : b \in Buckets}
      <4>1. PICK b \in Buckets : \E e \in Range(buckets[b]) : s = e.word
        BY <3>1
      <4>2. PICK k \in 1..Len(buckets[b]) : s = buckets[b][k].word
        BY <2>2, <4>1 DEF Range
      <4> QED
        BY <2>1, <4>2 DEF TableOf, FiledIn
    <3> QED
      BY <3>1
  <2>4. PICK h \in Buckets : h = Hash(s)
    BY <2>1, <2>3, HashNat
  <2>5. PICK l \in Nat, n \in Nat : l = Len(buckets[h]) /\ n = Len(counted) /\ l <= n
    BY <2>1, SeqFacts DEF TableOf, ShortIn
  <2>6. PICK k \in 1..l : buckets[h][k].word = s
    BY <2>1, <2>3, <2>4, <2>5 DEF TableOf, FoundIn
  <2> DEFINE places == {p \in Buckets \X (1..Len(counted)) :
                          p[2] <= Len(buckets[p[1]]) /\ buckets[p[1]][p[2]].word = s}
  <2>7. <<h, k>> \in places
    <3>1. k \in 1..n /\ k <= l
      BY <2>5
    <3> QED
      BY <2>5, <2>6, <3>1
  <2>8. ASSUME NEW p \in places
        PROVE  p = <<h, k>> /\ buckets[p[1]][p[2]].count = Occurrences(s)
    <3>1. PICK b \in Buckets, j \in 1..n : p = <<b, j>>
      BY <2>5
    <3>2. j \in 1..Len(buckets[b]) /\ buckets[b][j].word = s
      <4>1. j <= Len(buckets[b]) /\ buckets[b][j].word = s /\ Len(buckets[b]) \in Nat
        BY <2>1, <3>1, SeqFacts
      <4> QED
        BY <4>1
    <3>3. b = h /\ buckets[b][j].count = Occurrences(s)
      BY <2>1, <2>4, <3>2, OccurrencesIs DEF TableOf, FiledIn
    <3>4. j = k
      BY <2>1, <2>5, <2>6, <3>2, <3>3 DEF TableOf, SingleIn
    <3> QED
      BY <3>1, <3>3, <3>4
  <2>9. places = {<<h, k>>}
    <3> HIDE DEF places
    <3> QED
      BY <2>7, <2>8
  <2>10. Cardinality(places) = 1
    BY <2>9, FS_Singleton
  <2> QED
    BY <2>8, <2>10
<1> QED
  BY <1>1, Inv, PTL

(* What main prints of the words it counted is true: the total, the number of  *)
(* different words, and a word that none exceeds.                              *)
THEOREM ReportsTheTruth == Spec => []ReportIsTrue
<1>1. IInv => ReportIsTrue
  <2> SUFFICES ASSUME IInv, pc = "done"
               PROVE  /\ total_words = Len(counted)
                      /\ unique_words = Cardinality(Range(counted))
                      /\ best_word_count = Occurrences(best_word)
                      /\ \A s \in Range(counted) : Occurrences(s) <= best_word_count
    BY DEF ReportIsTrue
  <2>1. TypeOK /\ Tally /\ i = NumBuckets /\ counted \in Seq(Words) /\ best_word_count \in Nat
    BY DEF IInv, Phase, TypeOK
  <2>2. KnownIn(counted, i) = Range(counted)
    BY <2>1, HashNat DEF KnownIn
  <2>3. CASE best_word_count # 0
    BY <2>1, <2>2, <2>3, OccurrencesIs DEF Tally, TallyOf
  <2>4. CASE best_word_count = 0
    <3>1. ASSUME NEW s \in Range(counted) PROVE FALSE
      <4>1. PICK m \in Nat : m = Occ(counted, s) /\ m # 0
        BY <2>1, <3>1, OccType
      <4>2. m <= 0
        BY <2>1, <2>2, <2>4, <4>1, OccurrencesIs DEF Tally, TallyOf
      <4> QED
        BY <4>1, <4>2
    <3>2. Occ(counted, best_word) = 0
      BY <2>1, <3>1, OccType
    <3> QED
      BY <2>1, <2>2, <2>4, <3>2, OccurrencesIs DEF Tally, TallyOf
  <2> QED
    BY <2>3, <2>4
<1> QED
  BY <1>1, Inv, PTL
-----------------------------------------------------------------------------
(* The 256-bit integers. *)

(* A remainder of a number that is one modulus too large at most. *)
LEMMA Wraps ==
  ASSUME NEW n \in Nat \ {0}, NEW x \in Nat, x < 2 * n
  PROVE  x % n = IF x < n THEN x ELSE x - n
<1>1. CASE x < n
  BY <1>1
<1>2. CASE x >= n
  <2>1. x % n \in 0..(n - 1) /\ x = n * (x \div n) + (x % n) /\ x \div n \in Int
    OBVIOUS
  <2>2. x \div n = 1
    BY <1>2, <2>1
  <2> QED
    BY <1>2, <2>1, <2>2
<1> QED
  BY <1>1, <1>2

(* uint256_add tells a carry from the wrapped sum (uint256.c) exactly: for    *)
(* every pair of words, with or without a carry into them, CarryOut is 1 when *)
(* the sum does not fit a word and 0 when it does.                            *)
THEOREM CarryIsExact ==
  ASSUME Base \in Nat \ {0},
         NEW l \in Word, NEW r \in Word, NEW carry \in {0, 1}
  PROVE  CarryOut(l, r, carry) = IF l + r + carry >= Base THEN 1 ELSE 0
<1> DEFINE B == Base
           sum == l + r + carry
           wrapped == sum % B
<1>1. B \in Nat \ {0} /\ l \in Nat /\ r \in Nat /\ l < B /\ r < B
  BY DEF Word
<1>2. sum \in Nat /\ sum < 2 * B
  BY <1>1
<1>3. wrapped = IF sum < B THEN sum ELSE sum - B
  BY <1>1, <1>2, Wraps
<1>4. CarryOut(l, r, carry) =
        IF wrapped < l \/ wrapped < r \/ (carry = 1 /\ (wrapped <= l \/ wrapped <= r))
        THEN 1 ELSE 0
  BY DEF CarryOut
<1> HIDE DEF wrapped
<1> QED
  BY <1>1, <1>3, <1>4

-----------------------------------------------------------------------------
(* Powers of 2, sums of digits. *)

(* A fold can be run step by step.                                            *)
LEMMA RunExists ==
  ASSUME NEW n \in Nat, NEW V, NEW b \in V, NEW G \in [1..n -> [V -> V]]
  PROVE  \E r : IsRun(r, n, V, b, G)
<1>1. PICK f : IsFold(f, n, V, b, G)
  BY ONLY FoldExists
<1>2. {} \in SUBSET (1..n) /\ \A x \in SUBSET (1..n) : x \ {Max(x)} \in SUBSET (1..n)
  OBVIOUS
<1>3. Unfolds(f, n, V, b, G)
  BY <1>1, <1>2 DEF IsFold, Unfolds
<1>4. IsReached(f[1..n], n, V, b, G)
  BY ONLY <1>3, FoldSteps
<1> QED
  BY <1>4 DEF IsReached

(* What is needed of powers of 2.  The prover knows nothing of ^: 2^n is the  *)
(* number of subsets of a set of n elements (FS_SUBSET), and one more element *)
(* doubles it.                                                                *)
LEMMA PowerStep ==
  ASSUME NEW n \in Nat
  PROVE  2^n \in Nat \ {0} /\ 2^0 = 1 /\ 2^(n + 1) = 2 * 2^n
<1> DEFINE S == 1..n
           T == 1..(n + 1)
           A == SUBSET S
           C == {x \cup {n + 1} : x \in A}
<1>1. /\ IsFiniteSet(S) /\ Cardinality(S) = n
      /\ IsFiniteSet(T) /\ Cardinality(T) = n + 1
  <2>1. 1 \in Int /\ n \in Int /\ n + 1 \in Int
    OBVIOUS
  <2>2. IsFiniteSet(S) /\ Cardinality(S) = IF 1 > n THEN 0 ELSE n - 1 + 1
    BY ONLY <2>1, FS_Interval
  <2>3. IsFiniteSet(T) /\ Cardinality(T) = IF 1 > n + 1 THEN 0 ELSE (n + 1) - 1 + 1
    BY ONLY <2>1, FS_Interval
  <2> HIDE DEF S, T
  <2> QED
    BY <2>2, <2>3
<1>2. SUBSET T = A \cup C /\ A \cap C = {}
  <2>1. T = S \cup {n + 1} /\ n + 1 \notin S
    OBVIOUS
  <2> HIDE DEF S, T
  <2>3. \A x \in A : n + 1 \notin x
    BY <2>1
  <2>4. \A x \in C : n + 1 \in x /\ x \in SUBSET T
    BY <2>1
  <2>5. A \in SUBSET SUBSET T
    BY <2>1
  <2>2. ASSUME NEW x \in SUBSET T PROVE x \in A \cup C
    <3>1. CASE n + 1 \in x
      <4>1. x = (x \ {n + 1}) \cup {n + 1} /\ x \ {n + 1} \in A
        BY <2>1, <3>1
      <4> QED
        BY <4>1
    <3>2. CASE n + 1 \notin x
      BY <2>1, <3>2
    <3> QED
      BY <3>1, <3>2
  <2> HIDE DEF A, C
  <2> QED
    BY <2>2, <2>3, <2>4, <2>5
<1> DEFINE f == [x \in A |-> x \cup {n + 1}]
<1>3. f \in Bijection(A, C)
  <2>1. n + 1 \notin S
    OBVIOUS
  <2> HIDE DEF S
  <2>2. \A x, y \in A : x \cup {n + 1} = y \cup {n + 1} => x = y
    BY <2>1
  <2>3. f \in [A -> C] /\ \A y \in C : \E x \in A : f[x] = y
    OBVIOUS
  <2>4. \A x, y \in A : f[x] = f[y] => x = y
    BY <2>2
  <2> HIDE DEF f, A, C
  <2> QED
    BY <2>3, <2>4 DEF Bijection, Injection, Surjection, IsInjective
<1> HIDE DEF S, T
<1>4. /\ IsFiniteSet(A) /\ Cardinality(A) = 2^Cardinality(S)
      /\ Cardinality(SUBSET T) = 2^Cardinality(T)
  BY ONLY <1>1, FS_SUBSET
<1> HIDE DEF A, C
<1>5. IsFiniteSet(C) /\ Cardinality(C) = Cardinality(A)
  <2>1. ExistsBijection(A, C)
    BY <1>3 DEF ExistsBijection
  <2> QED
    BY ONLY <1>4, <2>1, FS_Bijection
<1>6. Cardinality(A \cup C) = Cardinality(A) + Cardinality(C) - Cardinality(A \cap C)
  BY ONLY <1>4, <1>5, FS_Union
<1>7. Cardinality(A) \in Nat /\ Cardinality({}) = 0 /\ (Cardinality(A) = 0 <=> A = {})
  BY <1>4, FS_CardinalityType, FS_EmptySet
<1>8. A # {}
  BY DEF A
<1>9. PICK c \in Nat \ {0} : c = Cardinality(A)
  BY <1>7, <1>8
<1>10. 2^n = c
  BY <1>1, <1>4, <1>9
<1>11. 2^(n + 1) = c + c - 0
  BY <1>1, <1>2, <1>4, <1>5, <1>6, <1>7, <1>9
<1>12. 2^0 = 1
  <2>1. IsFiniteSet({}) /\ Cardinality({}) = 0
    BY FS_EmptySet
  <2>2. Cardinality(SUBSET {}) = 2^Cardinality({})
    BY ONLY <2>1, FS_SUBSET
  <2>3. SUBSET {} = {{}}
    OBVIOUS
  <2>4. Cardinality({{}}) = 1
    BY ONLY FS_Singleton
  <2> QED
    BY <2>1, <2>2, <2>3, <2>4
<1>13. c + c - 0 = 2 * c
  OBVIOUS
<1> QED
  BY <1>10, <1>11, <1>12, <1>13

(* Exponents are added.                                                       *)
LEMMA PowerAdd ==
  ASSUME NEW a \in Nat, NEW b \in Nat
  PROVE  2^(a + b) = 2^a * 2^b
<1> DEFINE S == {n \in Nat : 2^(a + n) = 2^a * 2^n}
<1>1. 0 \in S
  <2>1. PICK p \in Nat : p = 2^a
    BY PowerStep
  <2>2. a + 0 = a /\ p * 1 = p /\ 2^0 = 1
    BY PowerStep
  <2> QED
    BY <2>1, <2>2
<1>2. ASSUME NEW n \in Nat, n \in S PROVE n + 1 \in S
  <2>1. PICK p \in Nat, q \in Nat : p = 2^a /\ q = 2^n
    BY PowerStep
  <2>2. 2^(a + n) = p * q
    BY <1>2, <2>1
  <2>3. 2^(a + (n + 1)) = 2 * (p * q)
    <3>1. a + n \in Nat /\ a + (n + 1) = (a + n) + 1
      OBVIOUS
    <3>2. 2^((a + n) + 1) = 2 * 2^(a + n)
      BY ONLY <3>1, PowerStep
    <3> QED
      BY <2>2, <3>1, <3>2
  <2>4. 2^(n + 1) = 2 * q
    BY <2>1, PowerStep
  <2>5. p * (2 * q) = 2 * (p * q)
    OBVIOUS
  <2> QED
    BY <2>1, <2>3, <2>4, <2>5
<1> HIDE DEF S
<1>3. b \in S
  BY <1>1, <1>2, Induction
<1> QED
  BY <1>3 DEF S

(* Induction up to a bound.                                                   *)
LEMMA BoundedInduction ==
  ASSUME NEW n \in Nat, NEW S, 0 \in S, \A k \in 0..(n - 1) : k \in S => k + 1 \in S
  PROVE  \A k \in 0..n : k \in S
<1> DEFINE T == {k \in Nat : k <= n => k \in S}
<1>1. 0 \in T
  OBVIOUS
<1>2. ASSUME NEW k \in Nat, k \in T PROVE k + 1 \in T
  <2> SUFFICES ASSUME k + 1 <= n PROVE k + 1 \in S
    OBVIOUS
  <2>1. k \in 0..(n - 1) /\ k \in S
    BY <1>2
  <2> QED
    BY <2>1
<1>3. Nat \subseteq T
  <2> HIDE DEF T
  <2> QED
    BY <1>1, <1>2, Induction
<1> QED
  BY <1>3

\* The weight of digit k when a digit has e bits.
Weight(k, e) == 2^(k * e)

(* The weight of a digit is 2^e times that of the digit below it.             *)
LEMMA WeightStep ==
  ASSUME NEW k \in Nat, NEW e \in Nat
  PROVE  Weight(k, e) \in Nat \ {0} /\ Weight(0, e) = 1 /\ Weight(k + 1, e) = Weight(k, e) * 2^e
<1>1. PICK m \in Nat : m = k * e
  OBVIOUS
<1>2. (k + 1) * e = m + e /\ 0 * e = 0
  BY <1>1
<1>3. 2^(m + e) = 2^m * 2^e
  BY PowerAdd
<1>4. 2^m \in Nat \ {0} /\ 2^0 = 1
  BY PowerStep
<1> QED
  BY <1>1, <1>2, <1>3, <1>4 DEF Weight

\* The sums of the lowest digits of d.
IsSum(s, d, n, e) ==
  /\ s \in [0..n -> Nat] /\ s[0] = 0
  /\ \A k \in 0..(n - 1) : s[k + 1] = s[k] + d[k] * Weight(k, e)

(* Digits have sums.                                                          *)
LEMMA SumExists ==
  ASSUME NEW n \in Nat, NEW e \in Nat, NEW d \in [0..(n - 1) -> Nat]
  PROVE  \E s : IsSum(s, d, n, e)
<1>0. PICK V : V = Nat
  OBVIOUS
<1> DEFINE G == [k \in 1..n |-> [v \in V |-> v + d[k - 1] * Weight(k - 1, e)]]
<1>1. ASSUME NEW k \in 1..n, NEW v \in Nat
      PROVE  v + d[k - 1] * Weight(k - 1, e) \in Nat
  <2>1. k - 1 \in 0..(n - 1) /\ k - 1 \in Nat
    OBVIOUS
  <2>2. PICK x \in Nat, y \in Nat : x = d[k - 1] /\ y = Weight(k - 1, e)
    BY <2>1, WeightStep
  <2>3. v + x * y \in Nat
    OBVIOUS
  <2> QED
    BY <2>2, <2>3
<1>2. G \in [1..n -> [V -> V]] /\ 0 \in V
  BY <1>0, <1>1
<1>3. PICK r : IsRun(r, n, V, 0, G)
  BY ONLY <1>2, n \in Nat, RunExists
<1>4. ASSUME NEW k \in 0..(n - 1)
      PROVE  r[k + 1] = r[k] + d[k] * Weight(k, e)
  <2>1. k + 1 \in 1..n /\ (k + 1) - 1 = k /\ k \in 0..n
    OBVIOUS
  <2>2. r[k] \in V /\ r[k + 1] = G[k + 1][r[k]]
    BY <1>3, <2>1 DEF IsRun
  <2>3. \A v \in V : G[k + 1][v] = v + d[k] * Weight(k, e)
    BY <2>1
  <2> HIDE DEF G
  <2> QED
    BY <2>2, <2>3
<1> QED
  BY <1>0, <1>3, <1>4 DEF IsRun, IsSum

(* The sum of the k lowest digits is below the weight of digit k.             *)
LEMMA SumBound ==
  ASSUME NEW n \in Nat, NEW e \in Nat, NEW d \in [0..(n - 1) -> 0..(2^e - 1)],
         NEW s, IsSum(s, d, n, e)
  PROVE  \A k \in 0..n : s[k] \in 0..(Weight(k, e) - 1)
<1> DEFINE S == {k \in 0..n : s[k] \in 0..(Weight(k, e) - 1)}
<1>1. 0 \in S
  BY WeightStep DEF IsSum
<1>2. ASSUME NEW k \in 0..(n - 1), k \in S PROVE k + 1 \in S
  <2>1. PICK b \in Nat \ {0} : b = 2^e
    BY PowerStep
  <2>2. k \in Nat /\ k + 1 \in 0..n
    OBVIOUS
  <2>3. PICK y \in Nat \ {0} : y = Weight(k, e) /\ Weight(k + 1, e) = y * b
    <3>1. Weight(k, e) \in Nat \ {0} /\ Weight(k + 1, e) = Weight(k, e) * 2^e
      BY ONLY <2>2, e \in Nat, WeightStep
    <3> QED
      BY <2>1, <3>1
  <2>4. PICK x \in 0..(b - 1), t \in 0..(y - 1) : x = d[k] /\ t = s[k]
    BY <1>2, <2>1, <2>3
  <2>5. s[k + 1] = t + x * y
    BY <2>3, <2>4 DEF IsSum
  <2>6. x * y <= (b - 1) * y /\ (b - 1) * y = y * b - y /\ x * y \in Nat
    OBVIOUS
  <2>7. t + x * y \in 0..(y * b - 1)
    BY <2>6
  <2> QED
    BY <2>2, <2>3, <2>5, <2>7
<1> HIDE DEF S
<1>3. \A k \in 0..n : k \in S
  BY <1>1, <1>2, BoundedInduction
<1> QED
  BY <1>3 DEF S

\* Horner's scheme, from the highest digit down.
IsHorner(r, d, n, e) ==
  /\ r \in [0..n -> Nat] /\ r[0] = 0
  /\ \A k \in 1..n : r[k] = r[k - 1] * 2^e + d[n - k]

\* r takes the digits of d from the top down, s sums them from the bottom up.
TwoSums(r, s, d, n, e) ==
  /\ n \in Nat /\ e \in Nat /\ d \in [0..(n - 1) -> Nat]
  /\ IsSum(s, d, n, e) /\ IsHorner(r, d, n, e)

(* It gives the sum.                                                          *)
LEMMA HornerIsSum ==
  ASSUME NEW n, NEW e, NEW d, NEW s, NEW r, TwoSums(r, s, d, n, e)
  PROVE  r[n] = s[n]
<1> SUFFICES ASSUME n \in Nat, e \in Nat, d \in [0..(n - 1) -> Nat],
                    IsSum(s, d, n, e), IsHorner(r, d, n, e)
             PROVE  r[n] = s[n]
  BY DEF TwoSums
<1>0. /\ r \in [0..n -> Nat] /\ r[0] = 0
      /\ \A k \in 1..n : r[k] = r[k - 1] * 2^e + d[n - k]
  BY DEF IsHorner
<1> DEFINE S == {k \in 0..n : r[k] * Weight(n - k, e) + s[n - k] = s[n]}
<1>1. 0 \in S
  <2>1. n - 0 = n /\ n \in 0..n
    OBVIOUS
  <2>2. PICK y \in Nat, t \in Nat : y = Weight(n, e) /\ t = s[n]
    BY <2>1, WeightStep DEF IsSum
  <2>3. 0 * y + t = t
    OBVIOUS
  <2> QED
    BY <1>0, <2>1, <2>2, <2>3
<1>2. ASSUME NEW k \in 0..(n - 1), k \in S PROVE k + 1 \in S
  <2>1. PICK j \in 0..(n - 1) : j = n - (k + 1)
    OBVIOUS
  <2>2. /\ j \in Nat /\ n - k = j + 1 /\ n - (k + 1) = j /\ (k + 1) - 1 = k
        /\ k + 1 \in 1..n /\ k \in 0..n /\ k + 1 \in 0..n /\ j + 1 \in 0..n /\ j \in 0..n
    BY <2>1
  <2>3. PICK b \in Nat : b = 2^e
    BY PowerStep
  <2>4. PICK y \in Nat : y = Weight(j, e) /\ Weight(j + 1, e) = y * b
    <3>1. j \in Nat /\ e \in Nat
      BY <2>2
    <3>2. Weight(j, e) \in Nat \ {0} /\ Weight(j + 1, e) = Weight(j, e) * 2^e
      BY ONLY <3>1, WeightStep
    <3> QED
      BY <2>3, <3>2
  <2>5. PICK x \in Nat, v \in Nat, t \in Nat : x = d[j] /\ v = r[k] /\ t = s[j]
    BY <1>0, <2>2 DEF IsSum
  <2>6. r[k + 1] = v * b + x
    BY <1>0, <2>2, <2>3, <2>5
  <2>7. s[j + 1] = t + x * y
    BY <2>4, <2>5 DEF IsSum
  <2>8. s[n] = v * (y * b) + (t + x * y)
    BY <1>2, <2>2, <2>4, <2>5, <2>7
  <2>9. (v * b + x) * y + t = v * (y * b) + (t + x * y)
    OBVIOUS
  <2> QED
    BY <2>2, <2>4, <2>5, <2>6, <2>8, <2>9
<1> HIDE DEF S
<1>3. n \in S
  <2>1. \A k \in 0..n : k \in S
    BY <1>1, <1>2, BoundedInduction
  <2> QED
    BY <2>1
<1>4. r[n] * Weight(n - n, e) + s[n - n] = s[n]
  BY <1>3 DEF S
<1>5. n - n = 0 /\ Weight(0, e) = 1 /\ s[0] = 0 /\ r[n] \in Nat
  BY <1>0, WeightStep DEF IsSum
<1>6. PICK v \in Nat : v = r[n]
  BY <1>5
<1>7. v * 1 + 0 = v
  OBVIOUS
<1> QED
  BY <1>4, <1>5, <1>6, <1>7

-----------------------------------------------------------------------------
(* The value of an array of words. *)

(* The sizes of words and integers, from the assumption on the constants.     *)
LEMMA Sizes ==
  /\ NumWords \in Nat \ {0} /\ WordBits \in Nat \ {0}
  /\ Base = 2^WordBits /\ Base \in Nat /\ Base >= 2
  /\ Modulus = Weight(NumWords, WordBits)
  /\ Modulus \in Nat /\ Modulus >= 2
  /\ Bits = NumWords * WordBits /\ Bits \in Nat \ {0}
  /\ UInts = [0..(NumWords - 1) -> 0..(Base - 1)]
<1>1. PICK n \in Nat \ {0}, a \in Nat \ {0}, b \in Nat \ {0} :
        n = NumWords /\ a = WordDigits /\ b = DigitBits
  BY UInt256Assumption
<1>2. PICK e \in Nat \ {0} : e = a * b
  OBVIOUS
<1>3. PICK m \in Nat \ {0} : m = n * e
  OBVIOUS
<1>4. \A k \in Nat \ {0} : 2^k \in Nat /\ 2^k >= 2
  <2> SUFFICES ASSUME NEW k \in Nat \ {0} PROVE 2^k \in Nat /\ 2^k >= 2
    OBVIOUS
  <2>1. k - 1 \in Nat /\ (k - 1) + 1 = k
    OBVIOUS
  <2>2. PICK p \in Nat \ {0} : p = 2^(k - 1)
    BY <2>1, PowerStep
  <2>3. 2^((k - 1) + 1) = 2 * p
    BY <2>1, <2>2, PowerStep
  <2>4. 2 * p \in Nat /\ 2 * p >= 2
    OBVIOUS
  <2> QED
    BY <2>1, <2>3, <2>4
<1>5. WordBits = e
  BY <1>1, <1>2 DEF WordBits
<1>6. Bits = m
  BY <1>1, <1>3, <1>5 DEF Bits
<1>7. Base = 2^e
  BY <1>5 DEF Base
<1>8. Modulus = 2^m
  BY <1>6 DEF Modulus
<1>9. Weight(NumWords, WordBits) = 2^m
  BY <1>1, <1>3, <1>5 DEF Weight
<1>10. UInts = [0..(NumWords - 1) -> 0..(Base - 1)]
  BY DEF UInts, Index, Word
<1> QED
  BY <1>1, <1>3, <1>4, <1>5, <1>6, <1>7, <1>8, <1>9, <1>10

(* The value of an array, which Value takes from the top word down, is the    *)
(* sum of its words from the bottom up.                                       *)
LEMMA ValueIs ==
  ASSUME NEW u \in UInts,
         NEW s, IsSum(s, u, NumWords, WordBits)
  PROVE  Value(u) = s[NumWords]
<1>0. PICK V : V = Nat
  OBVIOUS
<1>1. PICK n \in Nat, B \in Nat : n = NumWords /\ B = Base /\ B = 2^WordBits
  BY Sizes
<1>2. \A k \in 0..(n - 1) : u[k] \in Nat
  BY <1>1, Sizes
<1> DEFINE q == [k \in 1..n |-> k]
           body(f, x) == IF x = {} THEN 0
                         ELSE f[x \ {Max(x)}] * B + u[n - q[Max(x)]]
           it == CHOOSE f : f = [x \in SUBSET (1..n) |-> body(f, x)]
           G == [k \in 1..n |-> [v \in V |-> v * B + u[n - k]]]
<1>3. Value(u) = it[1..n]
  <2>1. DOMAIN q = 1..n
    OBVIOUS
  <2> QED
    BY <1>1, <2>1 DEF Value, FoldLeft, MapThenFoldSet, Max
<1>4. G \in [1..n -> [V -> V]] /\ 0 \in V /\ n \in Nat
  <2>1. ASSUME NEW k \in 1..n, NEW v \in Nat PROVE v * B + u[n - k] \in Nat
    <3>1. n - k \in 0..(n - 1)
      OBVIOUS
    <3>2. PICK x \in Nat : x = u[n - k]
      BY <1>2, <3>1
    <3>3. v * B + x \in Nat
      OBVIOUS
    <3> QED
      BY <3>2, <3>3
  <2> QED
    BY <1>0, <2>1
<1>5. ASSUME NEW f, NEW x \in SUBSET (1..n), x # {}, f[x \ {Max(x)}] \in V
      PROVE  body(f, x) = G[Max(x)][f[x \ {Max(x)}]]
  <2>1. Max(x) \in 1..n
    BY <1>1, <1>5, LargestIn
  <2> QED
    BY <1>5, <2>1
<1>6. \A f : body(f, {}) = 0
  OBVIOUS
<1>7. \A k \in 1..n, v \in V : G[k][v] = v * B + u[n - k]
  OBVIOUS
<1> HIDE DEF G, body
<1>8. \E f : f = [x \in SUBSET (1..n) |-> body(f, x)]
  <2>1. PICK f : IsFold(f, n, V, 0, G)
    BY ONLY <1>4, FoldExists
  <2>2. \A x \in SUBSET (1..n) : f[x] = body(f, x)
    BY <1>5, <1>6, <2>1 DEF IsFold
  <2> QED
    BY <2>1, <2>2 DEF IsFold
<1>9. it = [x \in SUBSET (1..n) |-> body(it, x)]
  BY <1>8
<1> HIDE DEF it
<1>10. Unfolds(it, n, V, 0, G)
  BY <1>5, <1>6, <1>9 DEF Unfolds
<1>11. IsReached(it[1..n], n, V, 0, G)
  BY ONLY <1>4, <1>10, FoldSteps
<1>12. PICK r : IsRun(r, n, V, 0, G) /\ r[n] = it[1..n]
  BY <1>11 DEF IsReached
<1>13. \A k \in 1..n : r[k] = r[k - 1] * B + u[n - k]
  <2> SUFFICES ASSUME NEW k \in 1..n PROVE r[k] = r[k - 1] * B + u[n - k]
    OBVIOUS
  <2>1. k - 1 \in 0..n /\ r[k - 1] \in V
    BY <1>12 DEF IsRun
  <2> QED
    BY <1>7, <1>12, <2>1 DEF IsRun
<1>14. r \in [0..n -> Nat] /\ r[0] = 0
  BY <1>0, <1>12 DEF IsRun
<1>15. u \in [0..(n - 1) -> Nat]
  BY <1>1, <1>2, Sizes
<1>16. WordBits \in Nat
  BY Sizes
<1>17. r[n] = s[n]
  <2>1. PICK e \in Nat : e = WordBits
    BY <1>16
  <2>2. B = 2^e /\ IsSum(s, u, n, e)
    BY <1>1, <2>1
  <2>3. \A k \in 1..n : r[k] = r[k - 1] * 2^e + u[n - k]
    BY <1>13, <2>2
  <2>4. IsHorner(r, u, n, e)
    BY <1>14, <2>3 DEF IsHorner
  <2>5. TwoSums(r, s, u, n, e)
    BY <1>15, <2>2, <2>4 DEF TwoSums
  <2> QED
    BY ONLY <2>5, HornerIsSum
<1> QED
  BY <1>1, <1>3, <1>12, <1>17

(* An array has such a sum, and its parts are bounded.                        *)
LEMMA ValueSum ==
  ASSUME NEW u \in UInts
  PROVE  \E s : /\ IsSum(s, u, NumWords, WordBits) /\ Value(u) = s[NumWords]
                /\ \A k \in 0..NumWords : s[k] \in 0..(Weight(k, WordBits) - 1)
<1>1. PICK n \in Nat, e \in Nat, B \in Nat :
        n = NumWords /\ e = WordBits /\ B = 2^e /\ B = Base
  BY Sizes
<1>2. u \in [0..(n - 1) -> 0..(2^e - 1)]
  BY <1>1, Sizes
<1>3. u \in [0..(n - 1) -> Nat]
  <2>1. \A x \in 0..(B - 1) : x \in Nat
    OBVIOUS
  <2> QED
    BY <1>1, <1>2, <2>1
<1>4. PICK s : IsSum(s, u, n, e)
  BY <1>3, SumExists
<1>5. \A k \in 0..n : s[k] \in 0..(Weight(k, e) - 1)
  BY <1>2, <1>4, SumBound
<1> QED
  BY <1>1, <1>4, <1>5, ValueIs

-----------------------------------------------------------------------------
(* Addition and subtraction. *)

(* A quotient and a remainder are determined by x = y + j * m.                *)
LEMMA DivModIs ==
  ASSUME NEW m \in Nat \ {0}, NEW x \in Int, NEW j \in Int, NEW y \in 0..(m - 1),
         x = y + j * m
  PROVE  x % m = y /\ x \div m = j
<1>1. PICK z \in 0..(m - 1), d \in Int : z = x % m /\ d = x \div m /\ x = m * d + z
  <2>1. x % m \in 0..(m - 1) /\ x \div m \in Int /\ x = m * (x \div m) + (x % m)
    OBVIOUS
  <2> QED
    BY <2>1
<1>2. PICK k \in Int : k = d - j
  OBVIOUS
<1>3. y - z = k * m
  <2>1. d = k + j
    BY <1>2
  <2>2. m * (k + j) = k * m + j * m
    OBVIOUS
  <2> QED
    BY <1>1, <2>1, <2>2
<1>4. k = 0
  <2>1. CASE k >= 1
    <3>1. k * m >= m
      BY <2>1
    <3> QED
      BY <1>3, <3>1
  <2>2. CASE k <= -1
    <3>1. k * m <= -m
      BY <2>2
    <3> QED
      BY <1>3, <3>1
  <2> QED
    BY <2>1, <2>2
<1> QED
  BY <1>1, <1>2, <1>3, <1>4

(* uint256_add is addition modulo 2^256: a carry that leaves a word arrives in *)
(* the next one, and the one that leaves the last word is dropped.             *)
LEMMA AddIs ==
  ASSUME NEW l \in UInts, NEW r \in UInts
  PROVE  /\ uint256_add(l, r) \in UInts
         /\ Value(uint256_add(l, r)) =
              (Value(l) + Value(r)) % Modulus
<1>1. PICK n \in Nat, e \in Nat, B \in Nat \ {0}, M \in Nat \ {0} :
        /\ n = NumWords /\ e = WordBits /\ B = 2^e /\ B = Base
        /\ M = Modulus /\ M = Weight(n, e)
        /\ UInts = [0..(n - 1) -> 0..(B - 1)]
  <2>1. /\ NumWords \in Nat /\ WordBits \in Nat
        /\ Base \in Nat \ {0} /\ Modulus \in Nat \ {0}
    BY Sizes
  <2> QED
    BY <2>1, Sizes
<1>2. \A k \in 0..(n - 1) : l[k] \in 0..(B - 1) /\ r[k] \in 0..(B - 1)
  BY <1>1
<1>3. ASSUME NEW x \in 0..(B - 1), NEW y \in 0..(B - 1), NEW c \in {0, 1}
      PROVE  /\ CarryOut(x, y, c) \in {0, 1}
             /\ (x + y + c) % B \in 0..(B - 1)
             /\ x + y + c = ((x + y + c) % B) + CarryOut(x, y, c) * B
  <2>1. CarryOut(x, y, c) = IF x + y + c >= B THEN 1 ELSE 0
    <3>1. x \in Word /\ y \in Word /\ Base \in Nat \ {0}
      BY <1>1 DEF Word
    <3> QED
      BY <1>1, <3>1, CarryIsExact
  <2>2. PICK z \in Nat : z = x + y + c /\ z < 2 * B
    OBVIOUS
  <2>3. z % B = IF z < B THEN z ELSE z - B
    BY <2>2, Wraps
  <2> QED
    BY <2>1, <2>2, <2>3
<1> DEFINE p == CHOOSE p : p = [k \in 0..n |-> IF k = 0 THEN 0
                                 ELSE CarryOut(l[k - 1], r[k - 1], p[k - 1])]
           u == uint256_add(l, r)
<1>4. u = [k \in 0..(n - 1) |-> (l[k] + r[k] + p[k]) % B]
  BY <1>1 DEF uint256_add, Index
<1>5. /\ p[0] = 0
      /\ \A k \in 0..(n - 1) : p[k + 1] = CarryOut(l[k], r[k], p[k])
  <2>0. PICK V : V = {0, 1}
    OBVIOUS
  <2> DEFINE G == [k \in 1..n |-> [v \in V |-> CarryOut(l[k - 1], r[k - 1], v)]]
  <2>1. G \in [1..n -> [V -> V]] /\ 0 \in V
    <3>1. ASSUME NEW k \in 1..n, NEW v \in {0, 1}
          PROVE  CarryOut(l[k - 1], r[k - 1], v) \in {0, 1}
      <4>1. k - 1 \in 0..(n - 1)
        OBVIOUS
      <4> QED
        BY <1>2, <1>3, <4>1
    <3> QED
      BY <2>0, <3>1
  <2>2. PICK c : IsRun(c, n, V, 0, G)
    BY ONLY <2>1, n \in Nat, RunExists
  <2>3. \A k \in 1..n : c[k] = CarryOut(l[k - 1], r[k - 1], c[k - 1])
    <3> SUFFICES ASSUME NEW k \in 1..n
                 PROVE  c[k] = CarryOut(l[k - 1], r[k - 1], c[k - 1])
      OBVIOUS
    <3>1. k - 1 \in 0..n
      OBVIOUS
    <3> QED
      BY <2>2, <3>1 DEF IsRun
  <2>4. c = [k \in 0..n |-> IF k = 0 THEN 0
                            ELSE CarryOut(l[k - 1], r[k - 1], c[k - 1])]
    <3>1. \A k \in 0..n : k # 0 => k \in 1..n
      OBVIOUS
    <3> QED
      BY <2>2, <2>3, <3>1 DEF IsRun
  <2>5. p = [k \in 0..n |-> IF k = 0 THEN 0
                            ELSE CarryOut(l[k - 1], r[k - 1], p[k - 1])]
    BY <2>4
  <2> HIDE DEF p
  <2>6. \A k \in 0..(n - 1) : k + 1 \in 0..n /\ k + 1 # 0 /\ (k + 1) - 1 = k
    OBVIOUS
  <2>7. 0 \in 0..n
    OBVIOUS
  <2> QED
    BY <2>5, <2>6, <2>7
<1> HIDE DEF p, u
<1>6. \A k \in 0..n : p[k] \in {0, 1}
  <2> DEFINE S == {k \in 0..n : p[k] \in {0, 1}}
  <2>1. 0 \in S
    BY <1>5
  <2>2. \A k \in 0..(n - 1) : k \in S => k + 1 \in S
    <3> SUFFICES ASSUME NEW k \in 0..(n - 1), k \in S PROVE k + 1 \in S
      OBVIOUS
    <3>1. k + 1 \in 0..n /\ p[k] \in {0, 1}
      OBVIOUS
    <3> QED
      BY <1>2, <1>3, <1>5, <3>1
  <2> HIDE DEF S
  <2>3. \A k \in 0..n : k \in S
    BY <2>1, <2>2, BoundedInduction
  <2> QED
    BY <2>3 DEF S
<1>7. ASSUME NEW k \in 0..(n - 1)
      PROVE  /\ u[k] \in 0..(B - 1) /\ p[k] \in {0, 1} /\ p[k + 1] \in {0, 1}
             /\ l[k] + r[k] + p[k] = u[k] + p[k + 1] * B
  <2>1. k \in 0..n /\ k + 1 \in 0..n
    OBVIOUS
  <2>2. u[k] = (l[k] + r[k] + p[k]) % B
    BY <1>4
  <2>3. PICK x \in 0..(B - 1), y \in 0..(B - 1), c \in {0, 1} :
          x = l[k] /\ y = r[k] /\ c = p[k]
    BY <1>2, <1>6, <2>1
  <2>4. p[k + 1] = CarryOut(x, y, c) /\ u[k] = (x + y + c) % B
    BY <1>5, <2>2, <2>3
  <2>5. /\ CarryOut(x, y, c) \in {0, 1}
        /\ (x + y + c) % B \in 0..(B - 1)
        /\ x + y + c = ((x + y + c) % B) + CarryOut(x, y, c) * B
    BY ONLY <1>3
  <2> QED
    BY <2>3, <2>4, <2>5
<1>8. u \in UInts
  BY <1>1, <1>4, <1>7
<1>9. PICK sl : IsSum(sl, l, n, e) /\ Value(l) = sl[n]
  BY <1>1, ValueSum
<1>10. PICK sr : IsSum(sr, r, n, e) /\ Value(r) = sr[n]
  BY <1>1, ValueSum
<1>11. PICK su : /\ IsSum(su, u, n, e) /\ Value(u) = su[n]
                 /\ \A k \in 0..n : su[k] \in 0..(Weight(k, e) - 1)
  BY <1>1, <1>8, ValueSum
<1> DEFINE S == {k \in 0..n : sl[k] + sr[k] = su[k] + p[k] * Weight(k, e)}
<1>12. 0 \in S
  <2>1. sl[0] = 0 /\ sr[0] = 0 /\ su[0] = 0 /\ p[0] = 0
    BY <1>5, <1>9, <1>10, <1>11 DEF IsSum
  <2>2. Weight(0, e) = 1 /\ 0 + 0 = 0 + 0 * 1 /\ 0 \in 0..n
    BY WeightStep
  <2> QED
    BY <2>1, <2>2
<1>13. ASSUME NEW k \in 0..(n - 1), k \in S PROVE k + 1 \in S
  <2>1. k \in Nat /\ k \in 0..n /\ k + 1 \in 0..n
    OBVIOUS
  <2>2. PICK y \in Nat : y = Weight(k, e) /\ Weight(k + 1, e) = y * B
    <3>1. Weight(k, e) \in Nat \ {0} /\ Weight(k + 1, e) = Weight(k, e) * 2^e
      BY ONLY <2>1, e \in Nat, WeightStep
    <3> QED
      BY <1>1, <3>1
  <2>3. PICK tl \in Nat, tr \in Nat, tu \in Nat : tl = sl[k] /\ tr = sr[k] /\ tu = su[k]
    BY <1>9, <1>10, <1>11, <2>1 DEF IsSum
  <2>0. /\ l[k] \in Nat /\ r[k] \in Nat /\ u[k] \in Nat /\ p[k] \in Nat /\ p[k + 1] \in Nat
        /\ l[k] + r[k] + p[k] = u[k] + p[k + 1] * B
    <3>1. /\ l[k] \in Nat /\ r[k] \in Nat /\ u[k] \in Nat
          /\ p[k] \in Nat /\ p[k + 1] \in Nat
      <4>1. l[k] \in 0..(B - 1) /\ r[k] \in 0..(B - 1)
        BY <1>2
      <4>2. u[k] \in 0..(B - 1) /\ p[k] \in {0, 1} /\ p[k + 1] \in {0, 1}
        BY <1>7
      <4>3. \A x \in 0..(B - 1) : x \in Nat
        OBVIOUS
      <4> QED
        BY ONLY <4>1, <4>2, <4>3
    <3>2. l[k] + r[k] + p[k] = u[k] + p[k + 1] * B
      BY <1>7
    <3> QED
      BY <3>1, <3>2
  <2>9. PICK xl \in Nat, xr \in Nat, xu \in Nat : xl = l[k] /\ xr = r[k] /\ xu = u[k]
    BY <2>0
  <2>10. PICK c \in Nat, d \in Nat : c = p[k] /\ d = p[k + 1]
    BY <2>0
  <2>4. xl + xr + c = xu + d * B
    BY <2>0, <2>9, <2>10
  <2>5. sl[k + 1] = tl + xl * y /\ sr[k + 1] = tr + xr * y /\ su[k + 1] = tu + xu * y
    BY <1>9, <1>10, <1>11, <2>2, <2>3, <2>9 DEF IsSum
  <2>6. tl + tr = tu + c * y
    BY <1>13, <2>2, <2>3, <2>10
  <2>7. (tl + xl * y) + (tr + xr * y) = (tu + xu * y) + d * (y * B)
    <3>1. (tl + xl * y) + (tr + xr * y) = (tl + tr) + (xl + xr) * y
      OBVIOUS
    <3>2. (tu + c * y) + (xl + xr) * y = tu + (xl + xr + c) * y
      OBVIOUS
    <3>3. tu + (xu + d * B) * y = (tu + xu * y) + d * (y * B)
      OBVIOUS
    <3> QED
      BY <2>4, <2>6, <3>1, <3>2, <3>3
  <2> QED
    BY <2>1, <2>2, <2>5, <2>7, <2>10
<1> HIDE DEF S
<1>14. \A k \in 0..n : k \in S
  BY <1>12, <1>13, BoundedInduction
<1>15. n \in 0..n
  OBVIOUS
<1>16. PICK a \in Nat, b \in Nat, v \in 0..(M - 1), c \in Nat :
         a = sl[n] /\ b = sr[n] /\ v = su[n] /\ c = p[n]
  <2>1. sl[n] \in Nat /\ sr[n] \in Nat /\ su[n] \in 0..(M - 1)
    BY <1>1, <1>9, <1>10, <1>11, <1>15 DEF IsSum
  <2>2. p[n] \in Nat
    BY <1>6, <1>15
  <2> QED
    BY <2>1, <2>2
<1>17. a + b = v + c * M
  BY <1>1, <1>14, <1>15, <1>16 DEF S
<1>18. (a + b) % M = v
  <2>1. PICK x \in Int : x = a + b
    OBVIOUS
  <2>3. x = v + c * M /\ c \in Int
    BY <1>17, <2>1
  <2>2. x % M = v
    BY <2>3, DivModIs
  <2> QED
    BY <2>1, <2>2
<1> QED
  BY <1>1, <1>8, <1>9, <1>10, <1>11, <1>16, <1>18 DEF u

(* A number is its remainder and a multiple of the modulus.                   *)
LEMMA DivModType ==
  ASSUME NEW m \in Nat \ {0}, NEW x \in Int
  PROVE  x % m \in 0..(m - 1) /\ x \div m \in Int /\ x = (x % m) + (x \div m) * m
<1>1. x % m \in 0..(m - 1) /\ x \div m \in Int /\ x = m * (x \div m) + (x % m)
  OBVIOUS
<1>2. PICK z \in Int, d \in Int : z = x % m /\ d = x \div m
  BY <1>1
<1>3. m * d + z = z + d * m
  OBVIOUS
<1> QED
  BY <1>1, <1>2, <1>3

(* A multiple of the modulus does not change the remainder.                   *)
LEMMA ModShift ==
  ASSUME NEW m \in Nat \ {0}, NEW x \in Int, NEW y \in Int, NEW k \in Int, y = x + k * m
  PROVE  y % m = x % m
<1>1. PICK z \in 0..(m - 1), d \in Int : z = x % m /\ x = z + d * m
  BY DivModType
<1>2. PICK j \in Int : j = d + k
  OBVIOUS
<1>3. y = z + j * m
  <2>1. (d + k) * m = d * m + k * m
    OBVIOUS
  <2> QED
    BY <1>1, <1>2, <2>1
<1>4. y % m = z
  BY <1>3, DivModIs
<1> QED
  BY <1>1, <1>4

(* The constants 0 and 1 have their values.                                   *)
LEMMA OneIs ==
  /\ uint256_create_from_u32(0) \in UInts
  /\ uint256_create_from_u32(1) \in UInts
  /\ Value(uint256_create_from_u32(0)) = 0
  /\ Value(uint256_create_from_u32(1)) = 1
<1>1. PICK n \in Nat \ {0}, e \in Nat, B \in Nat :
        /\ n = NumWords /\ e = WordBits /\ B >= 2
        /\ UInts = [0..(n - 1) -> 0..(B - 1)]
  BY Sizes
<1>2. ASSUME NEW v \in {0, 1}
      PROVE  /\ uint256_create_from_u32(v) \in UInts
             /\ Value(uint256_create_from_u32(v)) = v
  <2>1. PICK u : u = uint256_create_from_u32(v)
    OBVIOUS
  <2>2. u = [k \in 0..(n - 1) |-> IF k = 0 THEN v ELSE 0]
    BY <1>1, <2>1 DEF uint256_create_from_u32, Index
  <2>3. 0 \in 0..(B - 1) /\ v \in 0..(B - 1)
    BY <1>1
  <2>4. u \in UInts
    BY <1>1, <2>2, <2>3
  <2>5. PICK s : IsSum(s, u, n, e) /\ Value(u) = s[n]
    BY <1>1, <2>4, ValueSum
  <2> DEFINE S == {k \in 0..n : k # 0 => s[k] = v}
  <2>6. 0 \in S
    OBVIOUS
  <2>7. ASSUME NEW k \in 0..(n - 1), k \in S PROVE k + 1 \in S
    <3>0. PICK y \in Nat : y = Weight(k, e) /\ (k = 0 => y = 1)
      BY WeightStep
    <3>1. s[k + 1] = s[k] + u[k] * y /\ s[0] = 0
      BY <2>5, <3>0 DEF IsSum
    <3>2. CASE k = 0
      <4>1. u[k] = v /\ s[k] = 0 /\ y = 1
        BY <2>2, <3>0, <3>1, <3>2
      <4>2. 0 + v * 1 = v
        OBVIOUS
      <4> QED
        BY <3>1, <4>1, <4>2
    <3>3. CASE k # 0
      <4>1. u[k] = 0 /\ s[k] = v
        BY <2>2, <2>7, <3>3
      <4>2. v + 0 * y = v
        OBVIOUS
      <4> QED
        BY <3>1, <4>1, <4>2
    <3> QED
      BY <3>2, <3>3
  <2>8. s[n] = v
    <3> HIDE DEF S
    <3>1. \A k \in 0..n : k \in S
      BY <2>6, <2>7, BoundedInduction
    <3> QED
      BY <3>1 DEF S
  <2> QED
    BY <2>1, <2>4, <2>5, <2>8
<1> QED
  BY <1>2

(* The complement of every word, plus one, is the negative modulo 2^256.      *)
LEMMA NegateIs ==
  ASSUME NEW u \in UInts
  PROVE  /\ uint256_negate(u) \in UInts
         /\ Value(u) \in 0..(Modulus - 1)
         /\ Value(uint256_negate(u)) = (-Value(u)) % Modulus
<1>1. PICK n \in Nat, e \in Nat, B \in Nat \ {0}, M \in Nat \ {0} :
        /\ n = NumWords /\ e = WordBits /\ B = 2^e /\ B = Base
        /\ M = Modulus /\ M = Weight(n, e)
        /\ UInts = [0..(n - 1) -> 0..(B - 1)]
  <2>1. /\ NumWords \in Nat /\ WordBits \in Nat
        /\ Base \in Nat \ {0} /\ Modulus \in Nat \ {0}
    BY Sizes
  <2> QED
    BY <2>1, Sizes
<1>2. PICK c : c = [k \in 0..(n - 1) |-> B - 1 - u[k]]
  OBVIOUS
<1>3. c \in UInts
  <2>1. \A x \in 0..(B - 1) : B - 1 - x \in 0..(B - 1)
    OBVIOUS
  <2> QED
    BY <1>1, <1>2, <2>1
<1>4. PICK one : one = uint256_create_from_u32(1)
  OBVIOUS
<1>5. one \in UInts /\ Value(one) = 1
  BY <1>4, OneIs
<1>6. uint256_negate(u) = uint256_add(c, one)
  BY <1>1, <1>2, <1>4 DEF uint256_negate, Index
<1>7. PICK su : /\ IsSum(su, u, n, e) /\ Value(u) = su[n]
                /\ \A k \in 0..n : su[k] \in 0..(Weight(k, e) - 1)
  BY <1>1, ValueSum
<1>8. PICK sc : IsSum(sc, c, n, e) /\ Value(c) = sc[n]
  BY <1>1, <1>3, ValueSum
<1> DEFINE S == {k \in 0..n : sc[k] + su[k] = Weight(k, e) - 1}
<1>9. 0 \in S
  <2>1. sc[0] = 0 /\ su[0] = 0
    BY <1>7, <1>8 DEF IsSum
  <2>2. Weight(0, e) = 1 /\ 0 + 0 = 1 - 1 /\ 0 \in 0..n
    BY WeightStep
  <2> QED
    BY <2>1, <2>2
<1>10. ASSUME NEW k \in 0..(n - 1), k \in S PROVE k + 1 \in S
  <2>1. k \in Nat /\ k \in 0..n /\ k + 1 \in 0..n
    OBVIOUS
  <2>2. PICK y \in Nat : y = Weight(k, e) /\ Weight(k + 1, e) = y * B
    <3>1. Weight(k, e) \in Nat \ {0} /\ Weight(k + 1, e) = Weight(k, e) * 2^e
      BY ONLY <2>1, e \in Nat, WeightStep
    <3> QED
      BY <1>1, <3>1
  <2>3. PICK tc \in Nat, tu \in Nat : tc = sc[k] /\ tu = su[k]
    BY <1>7, <1>8, <2>1 DEF IsSum
  <2>4. PICK xu \in 0..(B - 1) : xu = u[k]
    BY <1>1
  <2>5. sc[k + 1] = tc + (B - 1 - xu) * y /\ su[k + 1] = tu + xu * y
    BY <1>2, <1>7, <1>8, <2>2, <2>3, <2>4 DEF IsSum
  <2>6. tc + tu = y - 1
    BY <1>10, <2>2, <2>3
  <2>7. (B - 1 - xu) * y + xu * y = y * B - y
    OBVIOUS
  <2>8. (tc + (B - 1 - xu) * y) + (tu + xu * y) = y * B - 1
    BY <2>6, <2>7
  <2> QED
    BY <2>1, <2>2, <2>5, <2>8
<1> HIDE DEF S
<1>11. \A k \in 0..n : k \in S
  BY <1>9, <1>10, BoundedInduction
<1>12. n \in 0..n
  OBVIOUS
<1>13. PICK v \in 0..(M - 1), x \in Nat : v = su[n] /\ x = sc[n]
  <2>1. su[n] \in 0..(M - 1) /\ sc[n] \in Nat
    BY <1>1, <1>7, <1>8, <1>12 DEF IsSum
  <2> QED
    BY <2>1
<1>14. x + v = M - 1
  BY <1>1, <1>11, <1>12, <1>13 DEF S
<1>15. /\ uint256_add(c, one) \in UInts
       /\ Value(uint256_add(c, one)) = (x + 1) % M
  <2>1. /\ uint256_add(c, one) \in UInts
        /\ Value(uint256_add(c, one)) =
             (Value(c) + Value(one)) % Modulus
    BY <1>3, <1>5, AddIs
  <2>2. Value(c) = x /\ Value(one) = 1 /\ Modulus = M
    BY <1>1, <1>5, <1>8, <1>13
  <2> QED
    BY <2>1, <2>2
<1>16. (x + 1) % M = (-v) % M
  <2>1. PICK y \in Int, z \in Int, k \in Int : y = x + 1 /\ z = -v /\ k = 1
    OBVIOUS
  <2>2. y = z + k * M
    BY <1>14, <2>1
  <2>3. y % M = z % M
    BY <2>2, ModShift
  <2> QED
    BY <2>1, <2>3
<1> QED
  BY <1>1, <1>6, <1>7, <1>13, <1>15, <1>16

(* uint256_sub subtracts modulo 2^256.                                        *)
LEMMA SubIs ==
  ASSUME NEW l \in UInts, NEW r \in UInts
  PROVE  /\ uint256_sub(l, r) \in UInts
         /\ Value(uint256_sub(l, r)) =
              (Value(l) - Value(r)) % Modulus
<1>1. PICK M \in Nat \ {0} : M = Modulus
  BY Sizes
<1>2. PICK m : m = uint256_negate(r)
  OBVIOUS
<1>3. PICK a \in Int, b \in Int : a = Value(l) /\ b = Value(r)
  <2>1. Value(l) \in 0..(M - 1) /\ Value(r) \in 0..(M - 1)
    BY <1>1, NegateIs
  <2> QED
    BY <2>1
<1>4. m \in UInts /\ Value(m) = (-b) % M
  BY <1>1, <1>2, <1>3, NegateIs
<1>5. PICK nb \in Int : nb = -b
  OBVIOUS
<1>6. PICK z \in 0..(M - 1), d \in Int : z = nb % M /\ nb = z + d * M
  BY DivModType
<1>7. PICK x \in Int, y \in Int : x = a + z /\ y = a - b
  OBVIOUS
<1>8. y = x + d * M
  <2>1. PICK t \in Int : t = d * M
    OBVIOUS
  <2>2. -b = z + t
    BY <1>5, <1>6, <2>1
  <2>3. a - b = (a + z) + t
    BY <2>2
  <2> QED
    BY <1>7, <2>1, <2>3
<1>9. y % M = x % M
  BY <1>8, ModShift
<1>10. /\ uint256_sub(l, r) \in UInts
       /\ Value(uint256_sub(l, r)) = (a + z) % M
  BY <1>1, <1>2, <1>3, <1>4, <1>5, <1>6, AddIs DEF uint256_sub
<1> QED
  BY <1>1, <1>3, <1>7, <1>9, <1>10

-----------------------------------------------------------------------------
(* Rotations. *)

(* The weights of two digits multiply to that of a third.                     *)
LEMMA WeightAdd ==
  ASSUME NEW j \in Nat, NEW k \in Nat, NEW e \in Nat
  PROVE  Weight(j + k, e) = Weight(j, e) * Weight(k, e)
<1>1. PICK a \in Nat, b \in Nat : a = j * e /\ b = k * e
  OBVIOUS
<1>2. (j + k) * e = a + b
  <2>1. (j + k) * e = j * e + k * e
    OBVIOUS
  <2> QED
    BY <1>1, <2>1
<1>3. 2^(a + b) = 2^a * 2^b
  BY PowerAdd
<1> QED
  BY <1>1, <1>2, <1>3 DEF Weight

\* y is x with its high part, H, moved below its low part, L.
IsRot(x, y, P, Q) ==
  \E L \in 0..(Q - 1), H \in 0..(P - 1) : x = L + H * Q /\ y = H + L * P

(* Two rotations are one.                                                     *)
LEMMA RotCompose ==
  ASSUME NEW P \in Nat \ {0}, NEW R \in Nat \ {0}, NEW Q \in Nat \ {0},
         NEW x, NEW y, NEW z, IsRot(x, y, P, R * Q), IsRot(y, z, R, P * Q)
  PROVE  IsRot(x, z, P * R, Q)
<1>0. PICK RQ \in Nat, PQ \in Nat, PR \in Nat : RQ = R * Q /\ PQ = P * Q /\ PR = P * R
  OBVIOUS
<1>1. PICK l \in 0..(RQ - 1), h \in 0..(P - 1) : x = l + h * RQ /\ y = h + l * P
  BY <1>0 DEF IsRot
<1>2. PICK m \in 0..(PQ - 1), g \in 0..(R - 1) : y = m + g * PQ /\ z = g + m * R
  BY <1>0 DEF IsRot
<1>3. PICK t \in Int : t = l - g * Q
  OBVIOUS
<1>4. t * P = m - h
  <2>1. (l - g * Q) * P = l * P - g * (P * Q)
    OBVIOUS
  <2> QED
    BY <1>0, <1>1, <1>2, <1>3, <2>1
<1>5. t \in 0..(Q - 1)
  <2>1. t >= 0
    <3>1. CASE t <= -1
      <4>1. t * P <= -P
        BY <3>1
      <4> QED
        BY <1>1, <1>2, <1>4, <4>1
    <3> QED
      BY <3>1
  <2>2. t < Q
    <3>1. CASE t >= Q
      <4>1. t * P >= Q * P /\ Q * P = P * Q
        BY <3>1
      <4> QED
        BY <1>0, <1>1, <1>2, <1>4, <4>1
    <3> QED
      BY <3>1
  <2> QED
    BY <2>1, <2>2
<1>6. PICK f \in Int : f = g + h * R
  OBVIOUS
<1>7. f \in 0..(PR - 1)
  <2>1. h * R >= 0 /\ h * R <= (P - 1) * R /\ (P - 1) * R = P * R - R
    OBVIOUS
  <2> QED
    BY <1>0, <1>6, <2>1
<1>8. x = t + f * Q
  <2>1. (l - g * Q) + (g + h * R) * Q = l + h * (R * Q)
    OBVIOUS
  <2> QED
    BY <1>0, <1>1, <1>3, <1>6, <2>1
<1>9. z = f + t * PR
  <2>1. g + (t * P + h) * R = (g + h * R) + t * (P * R)
    OBVIOUS
  <2>2. m = t * P + h
    BY <1>4
  <2> QED
    BY <1>0, <1>2, <1>6, <2>1, <2>2
<1> QED
  BY <1>0, <1>5, <1>7, <1>8, <1>9 DEF IsRot

(* What a rotation is, in terms of products and remainders.                   *)
LEMMA RotIs ==
  ASSUME NEW P \in Nat \ {0}, NEW Q \in Nat \ {0}, NEW x \in Nat, NEW y, IsRot(x, y, P, Q)
  PROVE  /\ y = ((x * P) % (P * Q)) + (x \div Q)
         /\ y = (x \div Q) + (x % Q) * P
<1>1. PICK l \in 0..(Q - 1), h \in 0..(P - 1) : x = l + h * Q /\ y = h + l * P
  BY DEF IsRot
<1>2. x % Q = l /\ x \div Q = h
  <2>1. x \in Int /\ h \in Int /\ x = l + h * Q
    BY <1>1
  <2> QED
    BY <2>1, DivModIs
<1>3. PICK M \in Nat \ {0}, v \in Int, c \in Int : M = P * Q /\ v = x * P /\ c = l * P
  <2>1. P * Q \in Nat \ {0}
    OBVIOUS
  <2> QED
    BY <2>1
<1>4. v = c + h * M
  <2>1. (l + h * Q) * P = l * P + h * (P * Q)
    OBVIOUS
  <2> QED
    BY <1>1, <1>3, <2>1
<1>5. c \in 0..(M - 1)
  <2>1. l * P >= 0 /\ l * P <= (Q - 1) * P /\ (Q - 1) * P = P * Q - P
    OBVIOUS
  <2> QED
    BY <1>3, <2>1
<1>6. v % M = c
  BY <1>4, <1>5, DivModIs
<1>7. h + l * P = l * P + h
  OBVIOUS
<1> QED
  BY <1>1, <1>2, <1>3, <1>6, <1>7

(* The two ways the code steps around the array of words.                     *)
LEMMA IndexIs ==
  ASSUME NEW n \in Nat \ {0}, NEW k \in 0..(n - 1), NEW q \in 0..n
  PROVE  /\ (k - q) % n = IF k >= q THEN k - q ELSE k - q + n
         /\ (k + q) % n = IF k + q < n THEN k + q ELSE k + q - n
         /\ (k - q) % n \in 0..(n - 1)
<1>1. PICK x \in Int, y \in Int : x = k - q /\ y = k + q
  OBVIOUS
<1>2. x % n = IF k >= q THEN x ELSE x + n
  <2>1. CASE k >= q
    <3>1. x \in 0..(n - 1) /\ x = x + 0 * n /\ 0 \in Int
      BY <1>1, <2>1
    <3> QED
      BY <2>1, <3>1, DivModIs
  <2>2. CASE k < q
    <3>1. x + n \in 0..(n - 1) /\ x = (x + n) + (-1) * n /\ -1 \in Int
      BY <1>1, <2>2
    <3>2. PICK z \in 0..(n - 1), j \in Int : z = x + n /\ j = -1
      BY <3>1
    <3>3. x = z + j * n
      BY <3>1, <3>2
    <3>4. x % n = z
      BY <3>3, DivModIs
    <3> QED
      BY <2>2, <3>2, <3>4
  <2> QED
    BY <2>1, <2>2
<1>3. y % n = IF y < n THEN y ELSE y - n
  <2>1. y \in Nat /\ y < 2 * n
    BY <1>1
  <2> QED
    BY <2>1, Wraps
<1> QED
  BY <1>1, <1>2, <1>3

\* y is the words of x moved up by q.
WordsShift(y, x, n, q) == y = [k \in 0..(n - 1) |-> x[(k - q) % n]]

(* Moving whole words up by q, the q highest of them to the bottom, is a      *)
(* rotation by q words.                                                       *)
LEMMA WordsMoved ==
  ASSUME NEW u \in UInts, NEW q \in 0..NumWords, NEW mv,
         WordsShift(mv, u, NumWords, q)
  PROVE  /\ mv \in UInts
         /\ IsRot(Value(u), Value(mv),
                  Weight(q, WordBits), Weight(NumWords - q, WordBits))
<1>1. PICK n \in Nat \ {0}, e \in Nat, B \in Nat :
        /\ n = NumWords /\ e = WordBits /\ B = Base
        /\ UInts = [0..(n - 1) -> 0..(B - 1)]
  BY Sizes
<1>2. mv = [k \in 0..(n - 1) |-> u[(k - q) % n]] /\ q \in 0..n
  BY <1>1 DEF WordsShift
<1>3. \A k \in 0..(n - 1) : (k - q) % n = (IF k >= q THEN k - q ELSE k - q + n)
                            /\ (k - q) % n \in 0..(n - 1)
  BY <1>2, IndexIs
<1>4. mv \in UInts
  BY <1>1, <1>2, <1>3
<1>5. PICK p \in Nat : p = n - q
  BY <1>2
<1>6. PICK su : /\ IsSum(su, u, n, e) /\ Value(u) = su[n]
                /\ \A k \in 0..n : su[k] \in 0..(Weight(k, e) - 1)
  BY <1>1, ValueSum
<1>7. PICK sm : /\ IsSum(sm, mv, n, e) /\ Value(mv) = sm[n]
                /\ \A k \in 0..n : sm[k] \in 0..(Weight(k, e) - 1)
  BY <1>1, <1>4, ValueSum
<1>8. \A k \in 0..(n - 1) : u[k] \in Nat /\ mv[k] \in Nat
  BY <1>1, <1>4
<1>9. PICK X \in Nat \ {0}, Y \in Nat \ {0} : X = Weight(q, e) /\ Y = Weight(p, e)
  <2>1. q \in Nat
    BY <1>2
  <2> QED
    BY <2>1, WeightStep
\* The high words are at the bottom.
<1> DEFINE S == {k \in 0..q : su[p + k] = su[p] + sm[k] * Y}
<1>10. 0 \in S
  <2>1. p \in 0..n /\ p + 0 = p /\ 0 \in 0..q
    BY <1>2, <1>5
  <2>2. PICK t \in Nat : t = su[p]
    BY <1>6, <2>1 DEF IsSum
  <2>3. sm[0] = 0 /\ t = t + 0 * Y
    BY <1>7 DEF IsSum
  <2> QED
    BY <2>1, <2>2, <2>3
<1>11. ASSUME NEW k \in 0..(q - 1), k \in S PROVE k + 1 \in S
  <2>1. /\ k \in Nat /\ k \in 0..(n - 1) /\ k \in 0..n /\ k + 1 \in 0..q
        /\ p + k \in 0..(n - 1) /\ p + k \in 0..n /\ p + (k + 1) = (p + k) + 1 /\ p \in 0..n
    BY <1>2, <1>5
  <2>2. (k - q) % n = p + k
    BY <1>2, <1>3, <1>5, <2>1
  <2>3. mv[k] = u[p + k]
    BY <1>2, <2>1, <2>2
  <2>4. PICK y \in Nat : y = Weight(k, e) /\ Weight(p + k, e) = Y * y
    <3>1. Weight(k, e) \in Nat \ {0}
      BY ONLY <2>1, e \in Nat, WeightStep
    <3>2. Weight(p + k, e) = Weight(p, e) * Weight(k, e)
      BY ONLY <2>1, e \in Nat, p \in Nat, WeightAdd
    <3> QED
      BY <1>9, <3>1, <3>2
  <2>5. PICK a \in Nat, t \in Nat, x \in Nat : a = su[p] /\ t = sm[k] /\ x = mv[k]
    BY <1>6, <1>7, <1>8, <2>1 DEF IsSum
  <2>6. su[p + k] = a + t * Y
    BY <1>11, <2>5
  <2>7. su[(p + k) + 1] = su[p + k] + x * (Y * y)
    BY <1>6, <2>1, <2>3, <2>4, <2>5 DEF IsSum
  <2>8. sm[k + 1] = t + x * y
    BY <1>7, <2>1, <2>4, <2>5 DEF IsSum
  <2>9. (a + t * Y) + x * (Y * y) = a + (t + x * y) * Y
    OBVIOUS
  <2> QED
    BY <2>1, <2>5, <2>6, <2>7, <2>8, <2>9
\* The low words are above them.
<1> DEFINE T == {k \in 0..p : sm[q + k] = sm[q] + su[k] * X}
<1>12. 0 \in T
  <2>1. q \in 0..n /\ q + 0 = q /\ 0 \in 0..p
    BY <1>2, <1>5
  <2>2. PICK t \in Nat : t = sm[q]
    BY <1>7, <2>1 DEF IsSum
  <2>3. su[0] = 0 /\ t = t + 0 * X
    BY <1>6 DEF IsSum
  <2> QED
    BY <2>1, <2>2, <2>3
<1>13. ASSUME NEW k \in 0..(p - 1), k \in T PROVE k + 1 \in T
  <2>1. /\ k \in Nat /\ k \in 0..(n - 1) /\ k \in 0..n /\ k + 1 \in 0..p
        /\ q + k \in 0..(n - 1) /\ q + k \in 0..n /\ q + (k + 1) = (q + k) + 1 /\ q \in 0..n
        /\ q \in Nat
    BY <1>2, <1>5
  <2>2. ((q + k) - q) % n = k
    <3>1. (q + k) >= q /\ (q + k) - q = k
      BY <2>1
    <3>2. ((q + k) - q) % n = IF (q + k) >= q THEN (q + k) - q ELSE (q + k) - q + n
      BY <1>3, <2>1
    <3> QED
      BY <3>1, <3>2
  <2>3. mv[q + k] = u[k]
    BY <1>2, <2>1, <2>2
  <2>4. PICK y \in Nat : y = Weight(k, e) /\ Weight(q + k, e) = X * y
    <3>1. Weight(k, e) \in Nat \ {0}
      BY ONLY <2>1, e \in Nat, WeightStep
    <3>2. Weight(q + k, e) = Weight(q, e) * Weight(k, e)
      BY ONLY <2>1, e \in Nat, WeightAdd
    <3> QED
      BY <1>9, <3>1, <3>2
  <2>5. PICK a \in Nat, t \in Nat, x \in Nat : a = sm[q] /\ t = su[k] /\ x = u[k]
    BY <1>6, <1>7, <1>8, <2>1 DEF IsSum
  <2>6. sm[q + k] = a + t * X
    BY <1>13, <2>5
  <2>7. sm[(q + k) + 1] = sm[q + k] + x * (X * y)
    BY <1>7, <2>1, <2>3, <2>4, <2>5 DEF IsSum
  <2>8. su[k + 1] = t + x * y
    BY <1>6, <2>1, <2>4, <2>5 DEF IsSum
  <2>9. (a + t * X) + x * (X * y) = a + (t + x * y) * X
    OBVIOUS
  <2> QED
    BY <2>1, <2>5, <2>6, <2>7, <2>8, <2>9
<1> HIDE DEF S, T
<1>14. q \in S /\ p \in T
  <2>1. q \in Nat /\ q \in 0..q /\ p \in 0..p
    BY <1>2
  <2>2. \A k \in 0..q : k \in S
    BY <1>10, <1>11, <2>1, BoundedInduction
  <2>3. \A k \in 0..p : k \in T
    BY <1>12, <1>13, BoundedInduction
  <2> QED
    BY <2>1, <2>2, <2>3
<1>15. p + q = n /\ q + p = n /\ p \in 0..n /\ q \in 0..n
  BY <1>2, <1>5
<1>16. PICK L \in 0..(Y - 1), H \in 0..(X - 1) : L = su[p] /\ H = sm[q]
  BY <1>6, <1>7, <1>9, <1>15
<1>17. su[n] = L + H * Y /\ sm[n] = H + L * X
  BY <1>14, <1>15, <1>16 DEF S, T
<1> QED
  BY <1>1, <1>4, <1>5, <1>6, <1>7, <1>9, <1>17 DEF IsRot

\* y is the words of x shifted by b bits, with the bits of the word below.
BitsShift(y, x, n, e, B, b) ==
  y = [k \in 0..(n - 1) |-> ((x[k] * 2^b) % B) + (x[(k - 1) % n] \div 2^(e - b))]

(* Shifting every word left by b bits, and in the b highest bits of the word  *)
(* below it, is a rotation by b bits.                                         *)
LEMMA BitsMoved ==
  ASSUME NEW u \in UInts, NEW n \in Nat \ {0}, n = NumWords,
         NEW e \in Nat \ {0}, e = WordBits, NEW B \in Nat \ {0}, B = Base,
         NEW b \in 0..(e - 1), NEW res, BitsShift(res, u, n, e, B, b)
  PROVE  /\ res \in UInts
         /\ IsRot(Value(u), Value(res), 2^b, 2^(e - b) * Weight(n - 1, e))
<1>1. /\ n = NumWords /\ e = WordBits /\ B = 2^e
      /\ UInts = [0..(n - 1) -> 0..(B - 1)]
  BY Sizes
<1>2. PICK P \in Nat \ {0}, R \in Nat \ {0} : P = 2^b /\ R = 2^(e - b) /\ P * R = B
  <2>1. b \in Nat /\ e - b \in Nat /\ b + (e - b) = e
    BY <1>1
  <2>2. 2^b \in Nat \ {0} /\ 2^(e - b) \in Nat \ {0}
    BY ONLY <2>1, PowerStep
  <2>3. 2^(b + (e - b)) = 2^b * 2^(e - b)
    BY ONLY <2>1, PowerAdd
  <2> QED
    BY <1>1, <2>1, <2>2, <2>3
<1>3. res = [k \in 0..(n - 1) |-> ((u[k] * P) % B) + (u[(k - 1) % n] \div R)]
  BY <1>1, <1>2 DEF BitsShift
<1>4. \A k \in 0..(n - 1) : u[k] \in 0..(B - 1)
  BY <1>1
<1>5. PICK h : h = [k \in 0..(n - 1) |-> u[k] \div R]
  OBVIOUS
<1>6. PICK l : l = [k \in 0..(n - 1) |-> u[k] % R]
  OBVIOUS
<1>7. ASSUME NEW k \in 0..(n - 1)
      PROVE  /\ h[k] \in 0..(P - 1) /\ l[k] \in 0..(R - 1) /\ u[k] = l[k] + h[k] * R
             /\ (u[k] * P) % B = l[k] * P
  <2>1. PICK x \in 0..(B - 1) : x = u[k]
    BY <1>4
  <2>2. PICK y \in 0..(R - 1), z \in Int : y = x % R /\ z = x \div R /\ x = y + z * R
    <3>1. x \in Int
      BY <2>1
    <3>2. x % R \in 0..(R - 1) /\ x \div R \in Int /\ x = (x % R) + (x \div R) * R
      BY ONLY <3>1, R \in Nat \ {0}, DivModType
    <3> QED
      BY <3>2
  <2>3. z \in 0..(P - 1)
    <3>1. CASE z <= -1
      <4>1. z * R <= -R
        BY <3>1
      <4> QED
        BY <2>2, <4>1
    <3>2. CASE z >= P
      <4>1. z * R >= P * R
        BY <3>2
      <4> QED
        BY <1>2, <2>2, <4>1
    <3> QED
      BY <3>1, <3>2
  <2>4. (x * P) % B = y * P
    <3>1. PICK v \in Int, c \in Int : v = x * P /\ c = y * P
      OBVIOUS
    <3>2. v = c + z * B
      <4>1. (y + z * R) * P = y * P + z * (P * R)
        OBVIOUS
      <4> QED
        BY <1>2, <2>2, <3>1, <4>1
    <3>3. c \in 0..(B - 1)
      <4>1. y * P >= 0 /\ y * P <= (R - 1) * P /\ (R - 1) * P = P * R - P
        OBVIOUS
      <4> QED
        BY <1>2, <3>1, <4>1
    <3>4. v % B = c
      BY <3>2, <3>3, DivModIs
    <3> QED
      BY <3>1, <3>4
  <2> QED
    BY <1>5, <1>6, <2>1, <2>2, <2>3, <2>4
<1>8. PICK g : g = [k \in 0..n |-> IF k = 0 THEN h[n - 1] ELSE h[k - 1]]
  OBVIOUS
<1>9. \A k \in 0..n : g[k] \in 0..(P - 1)
  <2>1. n - 1 \in 0..(n - 1) /\ \A k \in 0..n : k # 0 => k - 1 \in 0..(n - 1)
    OBVIOUS
  <2> QED
    BY <1>7, <1>8, <2>1
<1>10. ASSUME NEW k \in 0..(n - 1)
       PROVE  /\ res[k] = l[k] * P + g[k] /\ g[k + 1] = h[k]
              /\ res[k] \in 0..(B - 1)
  <2>1. (k - 1) % n = IF k = 0 THEN n - 1 ELSE k - 1
    <3>1. 1 \in 0..n
      OBVIOUS
    <3>2. (k - 1) % n = IF k >= 1 THEN k - 1 ELSE k - 1 + n
      BY <3>1, IndexIs
    <3>3. k >= 1 <=> k # 0
      OBVIOUS
    <3>4. k = 0 => k - 1 + n = n - 1
      OBVIOUS
    <3> QED
      BY <3>2, <3>3, <3>4
  <2>2. n - 1 \in 0..(n - 1) /\ (k # 0 => k - 1 \in 0..(n - 1)) /\ k \in 0..n
        /\ k + 1 \in 0..n /\ k + 1 # 0 /\ (k + 1) - 1 = k
    OBVIOUS
  <2>3. u[(k - 1) % n] \div R = g[k]
    BY <1>5, <1>8, <2>1, <2>2
  <2>4. res[k] = l[k] * P + g[k] /\ g[k + 1] = h[k]
    BY <1>3, <1>7, <1>8, <2>2, <2>3
  <2>5. PICK y \in 0..(R - 1), z \in 0..(P - 1) : y = l[k] /\ z = g[k]
    BY <1>7, <1>9, <2>2
  <2>6. y * P >= 0 /\ y * P <= (R - 1) * P /\ (R - 1) * P = P * R - P
    OBVIOUS
  <2>7. y * P + z \in 0..(B - 1)
    BY <1>2, <2>6
  <2> QED
    BY <2>4, <2>5, <2>7
<1>11. res \in UInts
  BY <1>1, <1>3, <1>10
<1>12. PICK su : /\ IsSum(su, u, n, e) /\ Value(u) = su[n]
                 /\ \A k \in 0..n : su[k] \in 0..(Weight(k, e) - 1)
  BY <1>1, ValueSum
<1>13. PICK sr : IsSum(sr, res, n, e) /\ Value(res) = sr[n]
  BY <1>1, <1>11, ValueSum
<1> DEFINE S == {k \in 0..n : sr[k] + g[k] * Weight(k, e) = su[k] * P + g[0]}
<1>14. 0 \in S
  <2>1. PICK c \in Nat : c = g[0] /\ 0 \in 0..n
    BY <1>9
  <2>2. sr[0] = 0 /\ su[0] = 0 /\ Weight(0, e) = 1
    BY <1>12, <1>13, WeightStep DEF IsSum
  <2>3. 0 + c * 1 = 0 * P + c
    OBVIOUS
  <2> QED
    BY <2>1, <2>2, <2>3
<1>15. ASSUME NEW k \in 0..(n - 1), k \in S PROVE k + 1 \in S
  <2>1. k \in Nat /\ k \in 0..n /\ k + 1 \in 0..n /\ 0 \in 0..n
    OBVIOUS
  <2>2. PICK y \in Nat : y = Weight(k, e) /\ Weight(k + 1, e) = y * B
    <3>1. Weight(k, e) \in Nat \ {0} /\ Weight(k + 1, e) = Weight(k, e) * 2^e
      BY ONLY <2>1, e \in Nat \ {0}, WeightStep
    <3> QED
      BY <1>1, <3>1
  <2>3. PICK tr \in Nat, tu \in Nat : tr = sr[k] /\ tu = su[k]
    BY <1>12, <1>13, <2>1 DEF IsSum
  <2>4. PICK c \in Nat, d \in Nat, f \in Nat : c = g[k] /\ d = g[k + 1] /\ f = g[0]
    BY <1>9, <2>1
  <2>5. PICK a \in Nat : a = l[k]
    BY <1>7
  <2>6. u[k] = a + d * R /\ res[k] = a * P + c
    BY <1>7, <1>10, <2>4, <2>5
  <2>7. sr[k + 1] = tr + (a * P + c) * y /\ su[k + 1] = tu + (a + d * R) * y
    BY <1>12, <1>13, <2>2, <2>3, <2>6 DEF IsSum
  <2>8. tr + c * y = tu * P + f
    BY <1>15, <2>2, <2>3, <2>4
  <2>9. (tr + (a * P + c) * y) + d * (y * B) = (tu + (a + d * R) * y) * P + f
    <3>1. (tr + (a * P + c) * y) = (tr + c * y) + a * P * y
      OBVIOUS
    <3>2. (tu + (a + d * R) * y) * P = tu * P + (a * P * y + d * (y * (P * R)))
      OBVIOUS
    <3> QED
      BY <1>2, <2>8, <3>1, <3>2
  <2> QED
    BY <2>1, <2>2, <2>4, <2>7, <2>9
<1> HIDE DEF S
<1>16. \A k \in 0..n : k \in S
  BY <1>14, <1>15, BoundedInduction
<1>17. PICK j \in Nat : j = n - 1 /\ j \in 0..(n - 1) /\ j \in 0..n /\ j + 1 = n /\ n \in 0..n
  OBVIOUS
<1>18. PICK y \in Nat \ {0} : y = Weight(j, e) /\ Weight(n, e) = y * B
  <2>1. Weight(j, e) \in Nat \ {0} /\ Weight(j + 1, e) = Weight(j, e) * 2^e
    BY ONLY j \in Nat, e \in Nat \ {0}, WeightStep
  <2> QED
    BY <1>1, <1>17, <2>1
<1>19. PICK t \in 0..(y - 1), a \in 0..(R - 1), c \in 0..(P - 1) :
         t = su[j] /\ a = l[j] /\ c = h[j]
  BY <1>7, <1>12, <1>17, <1>18
<1>20. su[n] = t + (a + c * R) * y
  BY <1>7, <1>12, <1>17, <1>18, <1>19 DEF IsSum
<1>21. PICK L \in Int, Q \in Nat : L = t + a * y /\ Q = R * y
  OBVIOUS
<1>22. L \in 0..(Q - 1)
  <2>1. a * y >= 0 /\ a * y <= (R - 1) * y /\ (R - 1) * y = R * y - y
    OBVIOUS
  <2> QED
    BY <1>21, <2>1
<1>23. su[n] = L + c * Q
  <2>1. t + (a + c * R) * y = (t + a * y) + c * (R * y)
    OBVIOUS
  <2> QED
    BY <1>20, <1>21, <2>1
<1>24. sr[n] = c + L * P
  <2>1. g[n] = c /\ g[0] = c
    BY <1>8, <1>17, <1>19
  <2>2. PICK v \in Nat : v = sr[n]
    BY <1>13, <1>17 DEF IsSum
  <2>3. v + c * (y * B) = (L + c * Q) * P + c
    BY <1>16, <1>17, <1>18, <1>23, <2>1, <2>2 DEF S
  <2>4. (L + c * Q) * P = L * P + c * (y * (P * R))
    <3>1. (L + c * (R * y)) * P = L * P + c * (y * (P * R))
      OBVIOUS
    <3> QED
      BY <1>21, <3>1
  <2>5. PICK a1 \in Int, a2 \in Int : a1 = L * P /\ a2 = c * (y * (P * R))
    OBVIOUS
  <2>6. v + a2 = a1 + a2 + c
    BY <1>2, <2>3, <2>4, <2>5
  <2> QED
    BY <2>2, <2>5, <2>6
<1>25. IsRot(su[n], sr[n], P, R * y)
  BY <1>19, <1>21, <1>22, <1>23, <1>24 DEF IsRot
<1> QED
  BY <1>1, <1>2, <1>11, <1>12, <1>13, <1>17, <1>18, <1>25

\* c bits are q words of e bits and b bits.
IsAmount(c, q, e, b) == c = q * e + b

(* Words moved by q and then bits by b are a rotation by q words and b bits.  *)
LEMMA Moved ==
  ASSUME NEW u \in UInts,
         NEW n \in Nat \ {0}, n = NumWords, NEW e \in Nat \ {0}, e = WordBits,
         NEW t \in Nat \ {0}, t = Bits, NEW B \in Nat \ {0}, B = Base,
         NEW q \in 0..(n - 1), NEW b \in 0..(e - 1),
         NEW mv, WordsShift(mv, u, n, q), NEW res, BitsShift(res, mv, n, e, B, b),
         NEW c \in Nat, IsAmount(c, q, e, b)
  PROVE  /\ res \in UInts
         /\ IsRot(Value(u), Value(res), 2^c, 2^(t - c))
<1>1. n \in Nat \ {0} /\ e \in Nat \ {0} /\ n = NumWords /\ e = WordBits /\ c = q * e + b
  BY Sizes DEF IsAmount
<1>2. q \in Nat /\ q <= n - 1 /\ b \in Nat /\ b <= e - 1 /\ n - q \in Nat /\ e - b \in Nat
      /\ n - 1 \in Nat /\ q \in 0..NumWords
  BY <1>1
<1>3. /\ mv \in UInts
      /\ IsRot(Value(u), Value(mv), Weight(q, e), Weight(n - q, e))
  BY <1>1, <1>2, WordsMoved
<1>4. /\ res \in UInts
      /\ IsRot(Value(mv), Value(res), 2^b, 2^(e - b) * Weight(n - 1, e))
  BY <1>1, <1>3, BitsMoved
<1>5. PICK d \in Nat : /\ d = t - c /\ b + d = (n - q) * e
                       /\ q * e + d = (e - b) + (n - 1) * e
  <2>1. PICK g \in Nat, v \in Nat, f \in Nat : g = n * e /\ v = q * e /\ f = (n - q) * e
    BY <1>2
  <2>2. (n - q) * e = n * e - q * e /\ (n - 1) * e = n * e - e
    BY <1>2
  <2>3. Bits = g /\ c = v + b /\ f = g - v /\ f >= e
    <3>1. (n - q) * e >= 1 * e
      BY <1>2
    <3> QED
      BY <1>1, <2>1, <2>2, <3>1, Sizes
  <2>4. PICK d \in Nat : d = t - c
    BY <1>1, <1>2, <2>3
  <2>5. b + d = f /\ v + d = (e - b) + (g - e)
    BY <1>1, <2>3, <2>4
  <2> QED
    BY <2>1, <2>2, <2>4, <2>5
<1>6. PICK X \in Nat \ {0}, P \in Nat \ {0}, Z \in Nat \ {0} :
        X = Weight(q, e) /\ P = 2^b /\ Z = 2^d
  <2>1. Weight(q, e) \in Nat \ {0}
    BY ONLY <1>2, e \in Nat \ {0}, WeightStep
  <2>2. 2^b \in Nat \ {0} /\ 2^d \in Nat \ {0}
    BY ONLY <1>2, d \in Nat, PowerStep
  <2> QED
    BY <2>1, <2>2
<1>7. Weight(n - q, e) = P * Z
  <2>1. 2^(b + d) = 2^b * 2^d
    BY ONLY <1>2, d \in Nat, PowerAdd
  <2> QED
    BY <1>5, <1>6, <2>1 DEF Weight
<1>8. 2^(e - b) * Weight(n - 1, e) = X * Z
  <2>1. PICK g \in Nat, v \in Nat, f \in Nat : g = q * e /\ v = (n - 1) * e /\ f = e - b
    BY <1>2
  <2>2. 2^(g + d) = 2^g * 2^d /\ 2^(f + v) = 2^f * 2^v
    BY ONLY <2>1, d \in Nat, PowerAdd
  <2>3. g + d = f + v
    BY <1>5, <2>1
  <2> QED
    BY <1>6, <2>1, <2>2, <2>3 DEF Weight
<1>9. 2^c = X * P
  <2>1. PICK g \in Nat : g = q * e
    BY <1>2
  <2>2. 2^(g + b) = 2^g * 2^b
    BY ONLY <1>2, g \in Nat, PowerAdd
  <2>3. c = g + b
    BY <1>1, <2>1
  <2> QED
    BY <1>6, <2>1, <2>2, <2>3 DEF Weight
<1>10. PICK x, y, z : x = Value(u) /\ y = Value(mv) /\ z = Value(res)
  OBVIOUS
<1>11. IsRot(x, y, X, P * Z) /\ IsRot(y, z, P, X * Z)
  BY <1>3, <1>4, <1>6, <1>7, <1>8, <1>10
<1>12. IsRot(x, z, X * P, Z)
  BY ONLY <1>11, X \in Nat \ {0}, P \in Nat \ {0}, Z \in Nat \ {0}, RotCompose
<1> QED
  BY <1>4, <1>5, <1>6, <1>9, <1>10, <1>12

(* The words and bits that an amount is.                                      *)
LEMMA AmountIs ==
  ASSUME NEW n \in Nat \ {0}, NEW e \in Nat \ {0}, NEW t \in Nat \ {0},
         IsAmount(t, n, e, 0), NEW a \in Nat
  PROVE  /\ a % t \in 0..(t - 1) /\ (a % t) \div e \in 0..(n - 1) /\ (a % t) % e \in 0..(e - 1)
         /\ IsAmount(a % t, (a % t) \div e, e, (a % t) % e)
<1>2. a % t \in 0..(t - 1)
  <2>1. a \in Int
    OBVIOUS
  <2> QED
    BY ONLY <2>1, t \in Nat \ {0}, DivModType
<1>3. PICK m \in 0..(t - 1) : m = a % t
  BY <1>2
<1>4. PICK b \in 0..(e - 1), q \in Int : b = m % e /\ q = m \div e /\ m = b + q * e
  <2>1. m \in Int
    OBVIOUS
  <2>2. m % e \in 0..(e - 1) /\ m \div e \in Int /\ m = (m % e) + (m \div e) * e
    BY ONLY <2>1, e \in Nat \ {0}, DivModType
  <2> QED
    BY <2>2
<1>5. q \in 0..(n - 1)
  <2>1. CASE q <= -1
    <3>1. q * e <= -e
      BY <2>1
    <3> QED
      BY <1>4, <3>1
  <2>2. CASE q >= n
    <3>1. q * e >= n * e
      BY <2>2
    <3> QED
      BY <1>4, <3>1 DEF IsAmount
  <2> QED
    BY <2>1, <2>2
<1>6. m = q * e + b
  BY <1>4
<1> QED
  BY <1>3, <1>4, <1>5, <1>6 DEF IsAmount

\* The same downwards.
WordsShiftDown(y, x, n, q) == y = [k \in 0..(n - 1) |-> x[(k + q) % n]]

BitsShiftDown(y, x, n, e, B, b) ==
  y = [k \in 0..(n - 1) |-> (x[k] \div 2^b) + ((x[(k + 1) % n] * 2^(e - b)) % B)]

(* The rotation to the left, its words and bits named. *)
LEMMA LeftIs ==
  ASSUME NEW u, NEW a, NEW n \in Nat \ {0}, n = NumWords,
         NEW e \in Nat \ {0}, e = WordBits,
         NEW B \in Nat \ {0}, B = Base, NEW t \in Nat \ {0}, t = Bits,
         NEW q \in Nat, q = (a % t) \div e, NEW b \in Nat, b = (a % t) % e,
         NEW mv, WordsShift(mv, u, n, q),
         NEW res, BitsShift(res, mv, n, e, B, b)
  PROVE  uint256_rotate_left(u, a) = IF b = 0 THEN mv ELSE res
<1> DEFINE W(nn, qq) == [k \in 0..(nn - 1) |-> u[(k - qq) % nn]]
           R(nn, ee, BB, bb, mm) ==
             IF bb = 0 THEN mm
             ELSE [k \in 0..(nn - 1) |->
                     ((mm[k] * 2^bb) % BB) + (mm[(k - 1) % nn] \div 2^(ee - bb))]
           F(nn, ee, BB, tt) ==
             R(nn, ee, BB, (a % tt) % ee, W(nn, (a % tt) \div ee))
<1>1. uint256_rotate_left(u, a) = F(NumWords, WordBits, Base, Bits)
  BY DEF uint256_rotate_left, Index, Shl, Shr
<1> HIDE DEF R, W
<1>2. F(n, e, B, t) = R(n, e, B, b, W(n, q))
  OBVIOUS
<1> HIDE DEF F
<1>3. uint256_rotate_left(u, a) = F(n, e, B, t)
  BY <1>1
<1>4. W(n, q) = mv
  BY DEF W, WordsShift
<1>5. R(n, e, B, b, mv) = IF b = 0 THEN mv ELSE res
  BY DEF R, BitsShift
<1> QED
  BY <1>2, <1>3, <1>4, <1>5

(* The same of the rotation to the right. *)
LEMMA RightIs ==
  ASSUME NEW u, NEW a, NEW n \in Nat \ {0}, n = NumWords,
         NEW e \in Nat \ {0}, e = WordBits,
         NEW B \in Nat \ {0}, B = Base, NEW t \in Nat \ {0}, t = Bits,
         NEW q \in Nat, q = (a % t) \div e, NEW b \in Nat, b = (a % t) % e,
         NEW mv, WordsShiftDown(mv, u, n, q),
         NEW res, BitsShiftDown(res, mv, n, e, B, b)
  PROVE  uint256_rotate_right(u, a) = IF b = 0 THEN mv ELSE res
<1> DEFINE W(nn, qq) == [k \in 0..(nn - 1) |-> u[(k + qq) % nn]]
           R(nn, ee, BB, bb, mm) ==
             IF bb = 0 THEN mm
             ELSE [k \in 0..(nn - 1) |->
                     (mm[k] \div 2^bb) + ((mm[(k + 1) % nn] * 2^(ee - bb)) % BB)]
           F(nn, ee, BB, tt) ==
             R(nn, ee, BB, (a % tt) % ee, W(nn, (a % tt) \div ee))
<1>1. uint256_rotate_right(u, a) = F(NumWords, WordBits, Base, Bits)
  BY DEF uint256_rotate_right, Index, Shl, Shr
<1> HIDE DEF R, W
<1>2. F(n, e, B, t) = R(n, e, B, b, W(n, q))
  OBVIOUS
<1> HIDE DEF F
<1>3. uint256_rotate_right(u, a) = F(n, e, B, t)
  BY <1>1
<1>4. W(n, q) = mv
  BY DEF W, WordsShiftDown
<1>5. R(n, e, B, b, mv) = IF b = 0 THEN mv ELSE res
  BY DEF R, BitsShiftDown
<1> QED
  BY <1>2, <1>3, <1>4, <1>5

(* A rotation to the left multiplies, what is beyond the modulus coming back  *)
(* at the bottom.                                                             *)
LEMMA RotateLeftIs ==
  ASSUME NEW u \in UInts, NEW a \in Nat
  PROVE  /\ uint256_rotate_left(u, a) \in UInts
         /\ LET m == a % Bits
                x == Value(u)
            IN  Value(uint256_rotate_left(u, a)) =
                  ((x * 2^m) % Modulus) + (x \div 2^(Bits - m))
<1>1. PICK n \in Nat \ {0}, e \in Nat \ {0}, t \in Nat \ {0}, M \in Nat,
            B \in Nat \ {0} :
        /\ n = NumWords /\ e = WordBits /\ t = Bits /\ t = n * e
        /\ M = Modulus /\ B = Base
  <2>1. Base \in Nat \ {0}
    BY Sizes
  <2> QED
    BY <2>1, Sizes
<1>2. PICK q \in 0..(n - 1), b \in 0..(e - 1), m \in 0..(t - 1) :
        m = a % t /\ IsAmount(m, q, e, b) /\ q = m \div e /\ b = m % e
  <2>1. IsAmount(t, n, e, 0)
    BY <1>1 DEF IsAmount
  <2>2. /\ a % t \in 0..(t - 1) /\ (a % t) \div e \in 0..(n - 1) /\ (a % t) % e \in 0..(e - 1)
        /\ IsAmount(a % t, (a % t) \div e, e, (a % t) % e)
    BY ONLY <2>1, n \in Nat \ {0}, e \in Nat \ {0}, t \in Nat \ {0}, a \in Nat, AmountIs
  <2> QED
    BY <2>2
<1>3. PICK mv : WordsShift(mv, u, n, q)
  BY DEF WordsShift
<1>4. PICK res : BitsShift(res, mv, n, e, B, b)
  BY DEF BitsShift
<1>5. uint256_rotate_left(u, a) = IF b = 0 THEN mv ELSE res
  <2>1. n = NumWords /\ e = WordBits /\ t = Bits /\ B = Base
    BY <1>1
  <2>2. q = (a % t) \div e /\ b = (a % t) % e
    BY <1>2
  <2> QED
    BY <1>3, <1>4, <2>1, <2>2, LeftIs
<1>6. PICK r : r = uint256_rotate_left(u, a)
  OBVIOUS
<1>7. m \in Nat /\ t - m \in Nat /\ m + (t - m) = t
  BY <1>1
<1>8. r \in UInts /\ IsRot(Value(u), Value(r), 2^m, 2^(t - m))
  <2>1. CASE b = 0
    <3>1. q \in 0..NumWords
      BY <1>1
    <3>2. WordsShift(mv, u, NumWords, q)
      BY <1>1, <1>3
    <3>4. /\ mv \in UInts
          /\ IsRot(Value(u), Value(mv), Weight(q, e), Weight(n - q, e))
      BY <1>1, <3>1, <3>2, WordsMoved
    <3>3. q * e = m /\ (n - q) * e = t - m
      <4>1. PICK g \in Nat : g = q * e
        OBVIOUS
      <4>2. (n - q) * e = n * e - q * e
        OBVIOUS
      <4>3. m = q * e + b
        BY <1>2 DEF IsAmount
      <4>4. g = m /\ n * e = t
        BY <1>1, <2>1, <4>1, <4>3
      <4> QED
        BY <4>1, <4>2, <4>4
    <3> QED
      BY <1>5, <1>6, <2>1, <3>3, <3>4 DEF Weight
  <2>2. CASE b # 0
    <3>1. res \in UInts /\ IsRot(Value(u), Value(res), 2^m, 2^(t - m))
      <4>1. m \in Nat /\ IsAmount(m, q, e, b)
        BY <1>2
      <4>2. n = NumWords /\ e = WordBits /\ t = Bits /\ B = Base
        BY <1>1
      <4> QED
        BY <1>3, <1>4, <4>1, <4>2, Moved
    <3> QED
      BY <1>5, <1>6, <2>2, <3>1
  <2> QED
    BY <2>1, <2>2
<1>9. PICK P \in Nat \ {0}, Q \in Nat \ {0} : P = 2^m /\ Q = 2^(t - m) /\ P * Q = M
  <2>1. 2^m \in Nat \ {0} /\ 2^(t - m) \in Nat \ {0}
    BY ONLY <1>7, PowerStep
  <2>2. 2^(m + (t - m)) = 2^m * 2^(t - m)
    BY ONLY <1>7, PowerAdd
  <2>3. M = 2^t
    BY <1>1, Sizes DEF Weight
  <2> QED
    BY <1>7, <2>1, <2>2, <2>3
<1>10. PICK x \in Nat : x = Value(u)
  BY <1>1, NegateIs
<1>11. PICK y : y = Value(r)
  OBVIOUS
<1>12. IsRot(x, y, P, Q)
  BY <1>8, <1>9, <1>10, <1>11
<1>13. y = ((x * P) % (P * Q)) + (x \div Q)
  BY ONLY <1>12, P \in Nat \ {0}, Q \in Nat \ {0}, x \in Nat, RotIs
<1> QED
  BY <1>1, <1>2, <1>6, <1>8, <1>9, <1>10, <1>11, <1>13

(* A rotation to the right divides, the remainder going to the top.           *)
LEMMA RotateRightIs ==
  ASSUME NEW u \in UInts, NEW a \in Nat
  PROVE  /\ uint256_rotate_right(u, a) \in UInts
         /\ LET m == a % Bits
                x == Value(u)
            IN  Value(uint256_rotate_right(u, a)) =
                  (x \div 2^m) + (x % 2^m) * 2^(Bits - m)
<1>1. PICK n \in Nat \ {0}, e \in Nat \ {0}, t \in Nat \ {0}, B \in Nat \ {0} :
        /\ n = NumWords /\ e = WordBits /\ t = Bits /\ t = n * e
        /\ B = Base /\ UInts = [0..(n - 1) -> 0..(B - 1)]
  <2>1. Base \in Nat \ {0}
    BY Sizes
  <2> QED
    BY <2>1, Sizes
<1>2. PICK q \in 0..(n - 1), b \in 0..(e - 1), m \in 0..(t - 1) :
        m = a % t /\ IsAmount(m, q, e, b) /\ q = m \div e /\ b = m % e
  <2>1. IsAmount(t, n, e, 0)
    BY <1>1 DEF IsAmount
  <2>2. /\ a % t \in 0..(t - 1) /\ (a % t) \div e \in 0..(n - 1) /\ (a % t) % e \in 0..(e - 1)
        /\ IsAmount(a % t, (a % t) \div e, e, (a % t) % e)
    BY ONLY <2>1, n \in Nat \ {0}, e \in Nat \ {0}, t \in Nat \ {0}, a \in Nat, AmountIs
  <2> QED
    BY <2>2
<1>3. PICK mv : WordsShiftDown(mv, u, n, q)
  BY DEF WordsShiftDown
<1>4. PICK res : BitsShiftDown(res, mv, n, e, B, b)
  BY DEF BitsShiftDown
<1>5. uint256_rotate_right(u, a) = IF b = 0 THEN mv ELSE res
  <2>1. n = NumWords /\ e = WordBits /\ t = Bits /\ B = Base
    BY <1>1
  <2>2. q = (a % t) \div e /\ b = (a % t) % e
    BY <1>2
  <2> QED
    BY <1>3, <1>4, <2>1, <2>2, RightIs
<1>6. PICK r : r = uint256_rotate_right(u, a)
  OBVIOUS
<1>7. m \in Nat /\ t - m \in Nat /\ t - (t - m) = m
  BY <1>1
<1>8. r \in UInts /\ IsRot(Value(u), Value(r), 2^(t - m), 2^m)
  <2>1. CASE b = 0
    <3>1. PICK p \in 0..n : p = n - q /\ n - p = q
      OBVIOUS
    <3>2. ASSUME NEW k \in 0..(n - 1) PROVE (k - p) % n = (k + q) % n
      <4>1. q \in 0..n
        OBVIOUS
      <4>2. (k + q) % n = IF k + q < n THEN k + q ELSE k + q - n
        BY ONLY <4>1, n \in Nat \ {0}, k \in 0..(n - 1), IndexIs
      <4>3. (k - p) % n = IF k >= p THEN k - p ELSE k - p + n
        BY ONLY p \in 0..n, n \in Nat \ {0}, k \in 0..(n - 1), IndexIs
      <4>4. CASE k >= p
        <5>1. ~(k + q < n) /\ k - p = k + q - n
          BY <3>1, <4>4
        <5> QED
          BY <4>2, <4>3, <4>4, <5>1
      <4>5. CASE ~(k >= p)
        <5>1. k + q < n /\ k - p + n = k + q
          BY <3>1, <4>5
        <5> QED
          BY <4>2, <4>3, <4>5, <5>1
      <4> QED
        BY <4>4, <4>5
    <3>3. WordsShift(mv, u, NumWords, p) /\ p \in 0..NumWords
      BY <1>1, <1>3, <3>2 DEF WordsShift, WordsShiftDown
    <3>4. /\ mv \in UInts
          /\ IsRot(Value(u), Value(mv), Weight(p, e), Weight(n - p, e))
      BY <1>1, <3>3, WordsMoved
    <3>5. q * e = m /\ (n - q) * e = t - m
      <4>1. PICK g \in Nat : g = q * e
        OBVIOUS
      <4>2. (n - q) * e = n * e - q * e
        OBVIOUS
      <4>3. m = q * e + b
        BY <1>2 DEF IsAmount
      <4>4. g = m /\ n * e = t
        BY <1>1, <2>1, <4>1, <4>3
      <4> QED
        BY <4>1, <4>2, <4>4
    <3> QED
      BY <1>5, <1>6, <2>1, <3>1, <3>4, <3>5 DEF Weight
  <2>2. CASE b # 0
    <3>1. PICK p \in 0..(n - 1), c \in 0..(e - 1) : p = n - q - 1 /\ c = e - b /\ e - c = b
      BY <2>2
    <3>2. PICK wd : WordsShift(wd, u, n, p)
      BY DEF WordsShift
    <3>3. ASSUME NEW k \in 0..(n - 1)
          PROVE  /\ (k + 1) % n \in 0..(n - 1)
                 /\ wd[k] = mv[(k + 1) % n] /\ wd[(k - 1) % n] = mv[k]
                 /\ (k - 1) % n \in 0..(n - 1)
      <4>1. q \in 0..n /\ p \in 0..n /\ 1 \in 0..n
        OBVIOUS
      <4>2. ASSUME NEW j \in 0..(n - 1)
            PROVE  /\ (j + q) % n = IF j + q < n THEN j + q ELSE j + q - n
                   /\ (j - p) % n = IF j >= p THEN j - p ELSE j - p + n
                   /\ (j + 1) % n = IF j + 1 < n THEN j + 1 ELSE j + 1 - n
                   /\ (j - 1) % n = IF j >= 1 THEN j - 1 ELSE j - 1 + n
        <5>1. (j + q) % n = IF j + q < n THEN j + q ELSE j + q - n
          BY ONLY <4>1, j \in 0..(n - 1), n \in Nat \ {0}, IndexIs
        <5>2. (j - p) % n = IF j >= p THEN j - p ELSE j - p + n
          BY ONLY <4>1, j \in 0..(n - 1), n \in Nat \ {0}, IndexIs
        <5>3. /\ (j + 1) % n = IF j + 1 < n THEN j + 1 ELSE j + 1 - n
              /\ (j - 1) % n = IF j >= 1 THEN j - 1 ELSE j - 1 + n
          BY ONLY <4>1, j \in 0..(n - 1), n \in Nat \ {0}, IndexIs
        <5> QED
          BY ONLY <5>1, <5>2, <5>3
      <4>3. PICK x \in 0..(n - 1) : /\ x = (k + 1) % n
                                     /\ x = IF k + 1 < n THEN k + 1 ELSE k + 1 - n
        <5>1. PICK x \in Int : x = IF k + 1 < n THEN k + 1 ELSE k + 1 - n
          BY k + 1 \in Int, k + 1 - n \in Int
        <5>2. x \in 0..(n - 1)
          BY <5>1
        <5> QED
          BY <4>2, <5>1, <5>2
      <4>4. PICK y \in 0..(n - 1) : y = (k - 1) % n /\ y = IF k >= 1 THEN k - 1 ELSE k - 1 + n
        BY <4>2
      <4>5. (IF k >= p THEN k - p ELSE k - p + n) = (IF x + q < n THEN x + q ELSE x + q - n)
        BY <3>1, <4>3
      <4>6. (IF y >= p THEN y - p ELSE y - p + n) = (IF k + q < n THEN k + q ELSE k + q - n)
        BY <3>1, <4>4
      <4>7. (k - p) % n = (x + q) % n
        BY <4>2, <4>5
      <4>8. (y - p) % n = (k + q) % n
        BY <4>2, <4>6
      <4>9. wd[k] = mv[x]
        BY <1>3, <3>2, <4>7 DEF WordsShift, WordsShiftDown
      <4>10. wd[y] = mv[k]
        BY <1>3, <3>2, <4>8 DEF WordsShift, WordsShiftDown
      <4> QED
        BY <4>3, <4>4, <4>9, <4>10
    <3>4. wd \in UInts
      <4>1. p \in 0..NumWords /\ WordsShift(wd, u, NumWords, p)
        BY <1>1, <3>2
      <4> QED
        BY <4>1, WordsMoved
    <3>5. ASSUME NEW k \in 0..(n - 1)
          PROVE  res[k] = ((wd[k] * 2^c) % B) + (wd[(k - 1) % n] \div 2^(e - c))
      <4>1. res[k] = (wd[(k - 1) % n] \div 2^b) + ((wd[k] * 2^c) % B)
        BY <1>4, <3>1, <3>3 DEF BitsShiftDown
      <4>2. PICK x \in Nat, y \in Nat, P \in Nat \ {0}, R \in Nat \ {0} :
              x = wd[k] /\ y = wd[(k - 1) % n] /\ P = 2^c /\ R = 2^b
        <5>1. c \in Nat /\ b \in Nat
          OBVIOUS
        <5>2. 2^c \in Nat \ {0} /\ 2^b \in Nat \ {0}
          BY ONLY <5>1, PowerStep
        <5>3. wd[k] \in Nat /\ wd[(k - 1) % n] \in Nat
          <6>1. PICK j \in 0..(n - 1) : j = (k - 1) % n
            BY <3>3
          <6>2. \A j2 \in 0..(n - 1) : wd[j2] \in Nat
            BY <1>1, <3>4
          <6> QED
            BY <6>1, <6>2
        <5> QED
          BY <5>2, <5>3
      <4>3. PICK v \in Int : v = x * P
        OBVIOUS
      <4>4. v % B \in Int /\ y \div R \in Int
        <5>1. y \in Int
          OBVIOUS
        <5> QED
          BY ONLY <5>1, v \in Int, B \in Nat \ {0}, R \in Nat \ {0}, DivModType
      <4>5. (y \div R) + (v % B) = (v % B) + (y \div R)
        BY <4>4
      <4>6. 2^(e - c) = R
        BY <3>1, <4>2
      <4> QED
        BY <4>1, <4>2, <4>3, <4>5, <4>6
    <3>6. BitsShift(res, wd, n, e, B, c)
      BY <1>4, <3>5 DEF BitsShift, BitsShiftDown
    <3>7. IsAmount(t - m, p, e, c) /\ t - m \in Nat
      <4>1. (n - q - 1) * e = n * e - q * e - e
        OBVIOUS
      <4>2. PICK x \in Int, y \in Int, z \in Int : x = (n - q - 1) * e /\ y = n * e /\ z = q * e
        OBVIOUS
      <4>3. x = p * e /\ t = y /\ m = z + b /\ c = e - b
        BY <1>1, <1>2, <3>1, <4>2 DEF IsAmount
      <4>4. t - m = x + c
        BY <4>1, <4>2, <4>3
      <4> QED
        BY <1>7, <4>3, <4>4 DEF IsAmount
    <3>8. /\ res \in UInts
          /\ IsRot(Value(u), Value(res), 2^(t - m), 2^(t - (t - m)))
      <4>1. PICK d \in Nat : d = t - m
        BY <3>7
      <4>2. n = NumWords /\ e = WordBits /\ t = Bits /\ B = Base
        BY <1>1
      <4>3. IsAmount(d, p, e, c)
        BY <3>7, <4>1
      <4> QED
        BY <3>2, <3>6, <4>1, <4>2, <4>3, Moved
    <3> QED
      BY <1>5, <1>6, <1>7, <2>2, <3>8
  <2> QED
    BY <2>1, <2>2
<1>9. PICK P \in Nat \ {0}, Q \in Nat \ {0} : P = 2^(t - m) /\ Q = 2^m
  BY ONLY <1>7, PowerStep
<1>10. PICK x \in Nat : x = Value(u)
  BY <1>1, NegateIs, Sizes
<1>11. PICK y : y = Value(r)
  OBVIOUS
<1>12. IsRot(x, y, P, Q)
  BY <1>8, <1>9, <1>10, <1>11
<1>13. y = (x \div Q) + (x % Q) * P
  BY ONLY <1>12, P \in Nat \ {0}, Q \in Nat \ {0}, x \in Nat, RotIs
<1> QED
  BY <1>1, <1>2, <1>6, <1>8, <1>9, <1>10, <1>11, <1>13

-----------------------------------------------------------------------------
(* Reading a string of digits. *)

\* p is the l digits of d from the m-th on, and q[l] is their part of the sum;
\* there is no digit but zero from the m-th on.
IsPart(p, d, m, l, n) == m + l <= n /\ \A j \in 0..(l - 1) : p[j] = d[m + j]
PartOfSum(s, q, m, l, e) == s[m + l] = s[m] + q[l] * Weight(m, e)
ZerosFrom(d, m, n) == \A j \in m..(n - 1) : d[j] = 0

(* The sum of some digits in the middle is a difference of the sum.           *)
LEMMA SumPart ==
  ASSUME NEW n \in Nat, NEW e \in Nat, NEW d \in [0..(n - 1) -> Nat], NEW s, IsSum(s, d, n, e),
         NEW m \in Nat, NEW l \in Nat,
         NEW p \in [0..(l - 1) -> Nat], NEW q, IsSum(q, p, l, e),
         IsPart(p, d, m, l, n)
  PROVE  PartOfSum(s, q, m, l, e)
<1>1. PICK Y \in Nat : Y = Weight(m, e)
  BY WeightStep
<1> DEFINE S == {j \in 0..l : s[m + j] = s[m] + q[j] * Y}
<1>2. 0 \in S
  <2>1. m \in 0..n /\ m + 0 = m /\ 0 \in 0..l
    BY DEF IsPart
  <2>2. PICK t \in Nat : t = s[m]
    BY <2>1 DEF IsSum
  <2>3. q[0] = 0 /\ t = t + 0 * Y
    BY DEF IsSum
  <2> QED
    BY <2>1, <2>2, <2>3
<1>3. ASSUME NEW j \in 0..(l - 1), j \in S PROVE j + 1 \in S
  <2>1. /\ j \in Nat /\ j \in 0..l /\ j + 1 \in 0..l /\ m \in 0..n
        /\ m + j \in 0..(n - 1) /\ m + j \in 0..n /\ m + (j + 1) = (m + j) + 1
    BY DEF IsPart
  <2>2. PICK y \in Nat : y = Weight(j, e) /\ Weight(m + j, e) = Y * y
    <3>1. Weight(j, e) \in Nat \ {0}
      BY ONLY <2>1, e \in Nat, WeightStep
    <3>2. Weight(m + j, e) = Weight(m, e) * Weight(j, e)
      BY ONLY <2>1, e \in Nat, m \in Nat, WeightAdd
    <3> QED
      BY <1>1, <3>1, <3>2
  <2>3. PICK a \in Nat, t \in Nat, x \in Nat : a = s[m] /\ t = q[j] /\ x = p[j] /\ x = d[m + j]
    BY <2>1 DEF IsSum, IsPart
  <2>4. s[m + j] = a + t * Y
    BY <1>3, <2>3
  <2>5. s[(m + j) + 1] = s[m + j] + x * (Y * y)
    BY <2>1, <2>2, <2>3 DEF IsSum
  <2>6. q[j + 1] = t + x * y
    BY <2>1, <2>2, <2>3 DEF IsSum
  <2>7. (a + t * Y) + x * (Y * y) = a + (t + x * y) * Y
    OBVIOUS
  <2> QED
    BY <2>1, <2>3, <2>4, <2>5, <2>6, <2>7
<1> HIDE DEF S
<1>4. \A j \in 0..l : j \in S
  BY <1>2, <1>3, BoundedInduction
<1>5. l \in S
  BY <1>4
<1> QED
  BY <1>1, <1>5 DEF S, PartOfSum

(* High digits that are zero add nothing.                                     *)
LEMMA SumZeros ==
  ASSUME NEW n \in Nat, NEW e \in Nat, NEW d, NEW s, IsSum(s, d, n, e),
         NEW m \in 0..n, ZerosFrom(d, m, n), NEW x \in m..n
  PROVE  s[x] = s[m]
<1>1. PICK l \in Nat : l = n - m /\ m \in Nat
  OBVIOUS
<1> DEFINE S == {j \in 0..l : s[m + j] = s[m]}
<1>2. 0 \in S
  OBVIOUS
<1>3. ASSUME NEW j \in 0..(l - 1), j \in S PROVE j + 1 \in S
  <2>1. /\ m + j \in 0..(n - 1) /\ m + j \in m..(n - 1) /\ m + j \in 0..n /\ m + j \in Nat
        /\ m + (j + 1) = (m + j) + 1 /\ j + 1 \in 0..l
    BY <1>1
  <2>2. PICK y \in Nat, t \in Nat : y = Weight(m + j, e) /\ t = s[m + j]
    <3>1. Weight(m + j, e) \in Nat \ {0}
      BY ONLY <2>1, e \in Nat, WeightStep
    <3> QED
      BY <2>1, <3>1 DEF IsSum
  <2>3. s[(m + j) + 1] = t + 0 * y
    BY <2>1, <2>2 DEF IsSum, ZerosFrom
  <2>4. t + 0 * y = t
    OBVIOUS
  <2> QED
    BY <1>3, <2>1, <2>2, <2>3, <2>4
<1> HIDE DEF S
<1>4. \A j \in 0..l : j \in S
  BY <1>2, <1>3, BoundedInduction
<1>5. PICK j \in 0..l : j = x - m /\ m + j = x
  BY <1>1
<1> QED
  BY <1>4, <1>5 DEF S

\* str is the l lowest digits of d, the highest first.
IsWritten(str, d, l) == DOMAIN str = 1..l /\ \A k \in 1..l : str[k] = d[l - k]

\* str is the l lowest of the n digits d that s sums up.
IsDigitString(str, d, s, l, n) ==
  /\ n \in Nat /\ l \in 0..n /\ d \in [0..(n - 1) -> Nat] /\ IsSum(s, d, n, DigitBits)
  /\ IsWritten(str, d, l)

(* Parsing digits gives their sum.                                            *)
LEMMA ParseIs ==
  ASSUME NEW n, NEW d, NEW s, NEW l, NEW str, IsDigitString(str, d, s, l, n)
  PROVE  ParseWord(str) = s[l]
<1> SUFFICES ASSUME n \in Nat, l \in 0..n, d \in [0..(n - 1) -> Nat],
                    IsSum(s, d, n, DigitBits), IsWritten(str, d, l)
             PROVE  ParseWord(str) = s[l]
  BY DEF IsDigitString
<1>0. PICK V : V = Nat
  OBVIOUS
<1>1. PICK e \in Nat, B \in Nat : e = DigitBits /\ B = DigitBase /\ B = 2^e
  <2>1. PICK e \in Nat : e = DigitBits
    BY UInt256Assumption
  <2>2. 2^e \in Nat
    BY PowerStep
  <2> QED
    BY <2>1, <2>2 DEF DigitBase
<1>2. /\ l \in Nat /\ \A k \in 1..l : l - k \in 0..(l - 1) /\ l - k \in 0..(n - 1)
      /\ \A k \in 0..(l - 1) : k \in 0..(n - 1) /\ k \in 0..l /\ k + 1 \in 0..l
      /\ \A k \in 0..l : k \in 0..n
  OBVIOUS
<1>3. DOMAIN str = 1..l /\ \A k \in 1..l : str[k] = d[l - k] /\ d[l - k] \in Nat
  BY <1>2 DEF IsWritten
<1> DEFINE body(f, x) == IF x = {} THEN 0 ELSE f[x \ {Max(x)}] * B + str[Max(x)]
           it == CHOOSE f : f = [x \in SUBSET (1..l) |-> body(f, x)]
           G == [k \in 1..l |-> [v \in V |-> v * B + str[k]]]
<1>4. ParseWord(str) = it[1..l]
  BY <1>1, <1>3 DEF ParseWord, FoldLeft, MapThenFoldSet, Max
<1>5. G \in [1..l -> [V -> V]] /\ 0 \in V /\ l \in Nat
  <2>1. ASSUME NEW k \in 1..l, NEW v \in Nat PROVE v * B + str[k] \in Nat
    <3>1. PICK x \in Nat : x = str[k]
      BY <1>3
    <3>2. v * B + x \in Nat
      OBVIOUS
    <3> QED
      BY <3>1, <3>2
  <2>2. ASSUME NEW k \in 1..l PROVE [v \in V |-> v * B + str[k]] \in [V -> V]
    BY <1>0, <2>1
  <2>3. 0 \in V /\ l \in Nat
    BY <1>0, <1>2
  <2> QED
    BY <2>2, <2>3
<1>6. ASSUME NEW f, NEW x \in SUBSET (1..l), x # {}, f[x \ {Max(x)}] \in V
      PROVE  body(f, x) = G[Max(x)][f[x \ {Max(x)}]]
  <2>1. Max(x) \in 1..l
    BY <1>2, <1>6, LargestIn
  <2> QED
    BY <1>6, <2>1
<1>7. \A f : body(f, {}) = 0
  OBVIOUS
<1>8. \A k \in 1..l, v \in V : G[k][v] = v * B + str[k]
  OBVIOUS
<1> HIDE DEF G, body
<1>9. \E f : f = [x \in SUBSET (1..l) |-> body(f, x)]
  <2>1. PICK f : IsFold(f, l, V, 0, G)
    BY ONLY <1>5, FoldExists
  <2>2. \A x \in SUBSET (1..l) : f[x] = body(f, x)
    BY <1>6, <1>7, <2>1 DEF IsFold
  <2>3. f = [x \in SUBSET (1..l) |-> f[x]]
    BY ONLY <2>1 DEF IsFold
  <2> QED
    BY ONLY <2>2, <2>3
<1>10. it = [x \in SUBSET (1..l) |-> body(it, x)]
  BY <1>9
<1> HIDE DEF it
<1>11. Unfolds(it, l, V, 0, G)
  BY <1>6, <1>7, <1>10 DEF Unfolds
<1>12. IsReached(it[1..l], l, V, 0, G)
  BY ONLY <1>5, <1>11, FoldSteps
<1>13. PICK r : IsRun(r, l, V, 0, G) /\ r[l] = it[1..l]
  BY <1>12 DEF IsReached
<1>14. ASSUME NEW k \in 1..l PROVE r[k] = r[k - 1] * B + str[k]
  <2>1. k - 1 \in 0..l /\ r[k - 1] \in V
    BY <1>13 DEF IsRun
  <2> QED
    BY <1>8, <1>13, <2>1 DEF IsRun
<1>15. PICK p : p = [k \in 0..(l - 1) |-> d[k]]
  OBVIOUS
<1>16. PICK q : q = [k \in 0..l |-> s[k]]
  OBVIOUS
<1>17. p \in [0..(l - 1) -> Nat] /\ IsSum(q, p, l, e)
  <2>1. p \in [0..(l - 1) -> Nat]
    BY <1>2, <1>15
  <2>2. q \in [0..l -> Nat] /\ q[0] = 0
    BY <1>2, <1>16 DEF IsSum
  <2>3. ASSUME NEW k \in 0..(l - 1) PROVE q[k + 1] = q[k] + p[k] * Weight(k, e)
    BY <1>1, <1>2, <1>15, <1>16 DEF IsSum
  <2> QED
    BY <2>1, <2>2, <2>3 DEF IsSum
<1>18. IsHorner(r, p, l, e)
  <2>1. r \in [0..l -> Nat] /\ r[0] = 0
    BY <1>0, <1>13 DEF IsRun
  <2>2. ASSUME NEW k \in 1..l PROVE r[k] = r[k - 1] * 2^e + p[l - k]
    BY <1>1, <1>2, <1>3, <1>14, <1>15
  <2> QED
    BY <2>1, <2>2 DEF IsHorner
<1>19. r[l] = q[l]
  <2>1. TwoSums(r, q, p, l, e)
    BY <1>2, <1>17, <1>18 DEF TwoSums
  <2> QED
    BY ONLY <2>1, HornerIsSum
<1> QED
  BY <1>2, <1>4, <1>13, <1>16, <1>19

\* The words u are the digits that s sums up, a of them each.
AreWords(s, u, n, a, e) ==
  \A k \in 0..(n - 1), m \in Nat : m = k * a => s[m + a] = s[m] + u[k] * Weight(k, e)

(* The value of an integer is the sum of its digits.                          *)
LEMMA ValueByDigits ==
  ASSUME NEW u \in UInts, NEW n \in Nat, n = NumWords, NEW a \in Nat,
         NEW N \in Nat, N = n * a, NEW s, s[0] = 0, AreWords(s, u, n, a, WordBits)
  PROVE  Value(u) = s[N]
<1>1. PICK e \in Nat : e = WordBits
  BY Sizes
<1>2. PICK su : IsSum(su, u, n, e) /\ Value(u) = su[n]
  BY <1>1, ValueSum
<1> DEFINE S == {k \in 0..n : su[k] = s[k * a]}
<1>3. 0 \in S
  <2>1. 0 * a = 0 /\ 0 \in 0..n
    OBVIOUS
  <2> QED
    BY <1>2, <2>1 DEF IsSum
<1>4. ASSUME NEW k \in 0..(n - 1), k \in S PROVE k + 1 \in S
  <2>1. PICK m \in Nat : m = k * a
    OBVIOUS
  <2>2. (k + 1) * a = m + a /\ k + 1 \in 0..n
    <3>1. (k + 1) * a = k * a + a
      OBVIOUS
    <3> QED
      BY <2>1, <3>1
  <2>3. s[m + a] = s[m] + u[k] * Weight(k, e)
    BY <1>1, <2>1 DEF AreWords
  <2>4. su[k + 1] = su[k] + u[k] * Weight(k, e)
    BY <1>2 DEF IsSum
  <2>5. su[k] = s[m]
    BY <1>4, <2>1
  <2> QED
    BY <2>2, <2>3, <2>4, <2>5
<1> HIDE DEF S
<1>5. n \in S
  <2>1. \A k \in 0..n : k \in S
    BY <1>3, <1>4, BoundedInduction
  <2> QED
    BY <2>1
<1> QED
  BY <1>2, <1>5 DEF S

\* The a digits of h from the m-th on, counted from its end, and the part of h
\* they are in.
AreDigits(p, h, m, a) ==
  \A j \in 0..(a - 1) : p[j] = IF m + j < Len(h) THEN h[Len(h) - (m + j)] ELSE 0

CutOut(h, m, a) ==
  LET end == Len(h) - m
      start == IF end < a THEN 1 ELSE end - a + 1
  IN  SubSeq(h, start, end)

(* The digits of a word, cut out of the string.                               *)
LEMMA CutIs ==
  ASSUME NEW a \in Nat, NEW X, NEW h \in Seq(X), NEW m \in Nat, NEW p, AreDigits(p, h, m, a)
  PROVE  \E k \in 0..a : IsWritten(CutOut(h, m, a), p, k) /\ ZerosFrom(p, k, a)
<1>1. PICK n \in Nat : n = Len(h)
  OBVIOUS
<1>2. PICK end \in Int : end = n - m
  OBVIOUS
<1>3. PICK start \in Int : /\ start = (IF end < a THEN 1 ELSE end - a + 1)
                           /\ start >= 1
  <2>1. CASE end < a
    BY <2>1
  <2>2. CASE ~(end < a)
    <3>1. PICK z \in Int : z = end - a + 1
      OBVIOUS
    <3> QED
      BY <2>2, <3>1
  <2> QED
    BY <2>1, <2>2
<1>4. PICK k \in 0..a : k = IF end >= a THEN a ELSE IF end >= 0 THEN end ELSE 0
  <2>1. PICK k \in Int : k = IF end >= a THEN a ELSE IF end >= 0 THEN end ELSE 0
    OBVIOUS
  <2>2. k >= 0 /\ k <= a
    BY <2>1
  <2> QED
    BY <2>1, <2>2
<1>5. PICK str : str = SubSeq(h, start, end)
  OBVIOUS
<1>6. CutOut(h, m, a) = str
  BY <1>1, <1>2, <1>3, <1>5 DEF CutOut
<1>7. (start <= end => end - start + 1 = k) /\ (~(start <= end) => k = 0)
  BY <1>3, <1>4
<1>8. DOMAIN str = 1..k /\ \A j \in 1..k : str[j] = h[start + j - 1]
  <2>1. start >= 1 /\ end <= n
    BY <1>2, <1>3
  <2>2. DOMAIN str = 1..(IF start <= end THEN end - start + 1 ELSE 0)
        /\ \A j \in 1..(end - start + 1) : str[j] = h[start + j - 1]
    BY <1>1, <1>5, <2>1
  <2> QED
    BY <1>7, <2>2
<1>9. ASSUME NEW j \in 1..k PROVE str[j] = p[k - j]
  <2>1. k - j \in 0..(a - 1) /\ m + (k - j) < n /\ n - (m + (k - j)) = start + j - 1
    BY <1>2, <1>3, <1>7
  <2>2. p[k - j] = h[n - (m + (k - j))]
    BY <1>1, <2>1 DEF AreDigits
  <2> QED
    BY <1>8, <2>1, <2>2
<1>10. ASSUME NEW j \in k..(a - 1) PROVE p[j] = 0
  <2>1. j \in 0..(a - 1) /\ ~(m + j < n)
    BY <1>2, <1>4
  <2> QED
    BY <1>1, <2>1 DEF AreDigits
<1> QED
  BY <1>6, <1>8, <1>9, <1>10 DEF IsWritten, ZerosFrom

(* create_from_hex keeps what the digits stand for, modulo 2^256.             *)
LEMMA HexIs ==
  ASSUME NEW h \in Seq(0..(DigitBase - 1))
  PROVE  /\ uint256_create_from_hex(h) \in UInts
         /\ Value(uint256_create_from_hex(h)) =
              ParseWord(h) % Modulus
<1>1. PICK n \in Nat, a \in Nat, b \in Nat :
        n = NumWords /\ a = WordDigits /\ b = DigitBits
  BY UInt256Assumption
<1>2. PICK e \in Nat, B \in Nat, M \in Nat \ {0} :
        /\ e = WordBits /\ e = a * b /\ B = Base /\ B = 2^e
        /\ M = Modulus /\ M = Weight(n, e)
        /\ UInts = [0..(n - 1) -> 0..(B - 1)]
  <2>1. WordBits = a * b
    BY <1>1 DEF WordBits
  <2>2. Modulus \in Nat \ {0}
    BY Sizes
  <2> QED
    BY <1>1, <2>1, <2>2, Sizes
<1>3. PICK D \in Nat : D = 2^b /\ D = DigitBase /\ D >= 1
  <2>1. 2^b \in Nat \ {0}
    BY PowerStep
  <2> QED
    BY <1>1, <2>1 DEF DigitBase
<1>4. PICK l \in Nat, N \in Nat : l = Len(h) /\ N = n * a
  OBVIOUS
<1>5. PICK K \in Nat : K = l + N
  OBVIOUS
<1>6. PICK d : d = [j \in 0..(K - 1) |-> IF j < l THEN h[l - j] ELSE 0]
  OBVIOUS
<1>7. ASSUME NEW j \in 0..(K - 1) PROVE d[j] \in 0..(D - 1) /\ (j >= l => d[j] = 0)
  <2>1. j < l => l - j \in 1..Len(h)
    BY <1>4
  <2>2. \A k \in 1..Len(h) : h[k] \in 0..(D - 1)
    BY <1>3
  <2> QED
    BY <1>3, <1>6, <2>1, <2>2
<1>8. d \in [0..(K - 1) -> Nat]
  BY <1>6, <1>7
<1>9. PICK s : IsSum(s, d, K, b)
  BY <1>8, SumExists
<1>10. PICK u : u = uint256_create_from_hex(h)
  OBVIOUS
<1>11. ASSUME NEW k \in 0..(n - 1)
       PROVE  u[k] = ParseWord(CutOut(h, k * a, a))
  BY <1>1, <1>10 DEF uint256_create_from_hex, Index, CutOut
<1>12. ASSUME NEW k \in 0..(n - 1), NEW m \in Nat, m = k * a
       PROVE  /\ u[k] \in 0..(B - 1)
              /\ s[m + a] = s[m] + u[k] * Weight(k, e)
  <2>1. m + a <= N
    <3>1. (k + 1) * a <= n * a /\ (k + 1) * a = k * a + a
      OBVIOUS
    <3> QED
      BY <1>4, <1>12, <3>1
  <2>2. m + a <= K
    BY <1>5, <2>1
  <2>3. PICK p : p = [j \in 0..(a - 1) |-> d[m + j]]
    OBVIOUS
  <2>4. ASSUME NEW j \in 0..(a - 1)
        PROVE  /\ p[j] = d[m + j] /\ p[j] \in 0..(D - 1)
               /\ p[j] = IF m + j < l THEN h[l - (m + j)] ELSE 0
    <3>1. m + j \in 0..(K - 1)
      BY <2>2
    <3>2. p[j] = d[m + j]
      BY <2>3
    <3> QED
      BY <1>6, <1>7, <3>1, <3>2
  <2>5. p \in [0..(a - 1) -> 0..(D - 1)] /\ p \in [0..(a - 1) -> Nat]
    BY <2>3, <2>4
  <2>6. PICK q : IsSum(q, p, a, b)
    BY <2>5, SumExists
  <2>7. PICK t \in 0..a : IsWritten(CutOut(h, m, a), p, t) /\ ZerosFrom(p, t, a)
    <3>1. PICK X : X = 0..(DigitBase - 1)
      OBVIOUS
    <3>2. h \in Seq(X)
      BY <3>1
    <3>3. AreDigits(p, h, m, a)
      BY <1>4, <2>4 DEF AreDigits
    <3> QED
      BY <3>2, <3>3, CutIs
  <2>8. u[k] = q[t]
    <3>1. u[k] = ParseWord(CutOut(h, m, a))
      BY <1>11, <1>12
    <3>2. IsSum(q, p, a, DigitBits)
      BY <1>1, <2>6
    <3>3. IsDigitString(CutOut(h, m, a), p, q, t, a)
      BY <2>5, <2>7, <3>2 DEF IsDigitString
    <3>4. ParseWord(CutOut(h, m, a)) = q[t]
      BY ONLY <3>3, ParseIs
    <3> QED
      BY <3>1, <3>4
  <2>9. q[a] = q[t]
    <3>1. p \in [0..(a - 1) -> Nat]
      BY <2>5
    <3>2. ASSUME NEW x \in t..a PROVE q[x] = q[t]
      <4>1. IsSum(q, p, a, b) /\ ZerosFrom(p, t, a)
        BY <2>6, <2>7
      <4> QED
        BY ONLY <3>1, <4>1, a \in Nat, b \in Nat, t \in 0..a, x \in t..a, SumZeros
    <3>3. a \in t..a
      OBVIOUS
    <3> QED
      BY <3>2, <3>3
  <2>10. q[a] \in 0..(B - 1)
    <3>1. D = 2^b
      BY <1>3
    <3>2. \A j \in 0..a : q[j] \in 0..(Weight(j, b) - 1)
      BY <2>5, <2>6, <3>1, SumBound
    <3>3. Weight(a, b) = B
      BY <1>2 DEF Weight
    <3> QED
      BY <3>2, <3>3
  <2>11. PartOfSum(s, q, m, a, b)
    <3>1. IsPart(p, d, m, a, K)
      BY <2>2, <2>3 DEF IsPart
    <3>2. p \in [0..(a - 1) -> Nat]
      BY <2>5
    <3> QED
      BY <1>8, <1>9, <2>6, <3>1, <3>2, SumPart
  <2>12. Weight(m, b) = Weight(k, e)
    <3>1. (k * a) * b = k * (a * b)
      OBVIOUS
    <3> QED
      BY <1>2, <1>12, <3>1 DEF Weight
  <2> QED
    BY <2>8, <2>9, <2>10, <2>11, <2>12 DEF PartOfSum
<1>13. u \in UInts
  <2>1. ASSUME NEW k \in 0..(n - 1) PROVE u[k] \in 0..(B - 1)
    <3>1. PICK m \in Nat : m = k * a
      OBVIOUS
    <3> QED
      BY <1>12, <3>1
  <2>2. u = [k \in 0..(n - 1) |-> u[k]]
    BY <1>1, <1>10 DEF uint256_create_from_hex, Index
  <2> QED
    BY <1>2, <2>1, <2>2
<1>14. AreWords(s, u, n, a, e)
  BY <1>12 DEF AreWords
<1>15. s[0] = 0
  BY <1>9 DEF IsSum
<1>16. n = NumWords /\ N = n * a /\ AreWords(s, u, n, a, WordBits)
  BY <1>1, <1>2, <1>4, <1>14
<1>17. Value(u) = s[N]
  BY <1>13, <1>15, <1>16, ValueByDigits
<1>18. ParseWord(h) = s[l]
  <2>1. IsWritten(h, d, l)
    <3>1. DOMAIN h = 1..l
      BY <1>4
    <3>2. ASSUME NEW k \in 1..l PROVE h[k] = d[l - k]
      <4>1. l - k \in 0..(K - 1) /\ l - k < l /\ l - (l - k) = k
        BY <1>5
      <4> QED
        BY <1>6, <4>1
    <3> QED
      BY <3>1, <3>2 DEF IsWritten
  <2>2. l \in 0..K /\ IsSum(s, d, K, DigitBits)
    BY <1>1, <1>5, <1>9
  <2>3. IsDigitString(h, d, s, l, K)
    BY <1>8, <2>1, <2>2 DEF IsDigitString
  <2> QED
    BY ONLY <2>3, ParseIs
<1>19. PICK v \in 0..(M - 1) : v = s[N]
  BY <1>2, <1>13, <1>17, NegateIs
<1>20. \E j \in Int : s[l] = v + j * M
  <2>1. CASE l <= N
    <3>1. s[N] = s[l]
      <4>1. l \in 0..K /\ ZerosFrom(d, l, K) /\ N \in l..K
        BY <1>5, <1>7, <2>1 DEF ZerosFrom
      <4> QED
        BY <1>8, <1>9, <4>1, SumZeros
    <3>2. v = v + 0 * M /\ 0 \in Int
      OBVIOUS
    <3> QED
      BY <1>19, <3>1, <3>2
  <2>2. CASE l > N
    <3>1. PICK t \in Nat : t = l - N /\ N + t = l /\ N + t <= K
      BY <1>5, <2>2
    <3>2. PICK p : p = [j \in 0..(t - 1) |-> d[N + j]]
      OBVIOUS
    <3>3. p \in [0..(t - 1) -> Nat]
      <4>1. \A j \in 0..(t - 1) : N + j \in 0..(K - 1)
        BY <3>1
      <4> QED
        BY <1>8, <3>2, <4>1
    <3>4. PICK q : IsSum(q, p, t, b)
      BY <3>3, SumExists
    <3>5. PartOfSum(s, q, N, t, b)
      <4>1. IsPart(p, d, N, t, K)
        BY <3>1, <3>2 DEF IsPart
      <4> QED
        BY <1>8, <1>9, <3>3, <3>4, <4>1, SumPart
    <3>6. Weight(N, b) = M
      <4>1. (n * a) * b = n * (a * b)
        OBVIOUS
      <4> QED
        BY <1>2, <1>4, <4>1 DEF Weight
    <3>7. PICK c \in Nat : c = q[t]
      BY <3>4 DEF IsSum
    <3>8. s[l] = v + c * M
      BY <1>19, <3>1, <3>5, <3>6, <3>7 DEF PartOfSum
    <3> QED
      BY <3>8
  <2> QED
    BY <2>1, <2>2
<1>21. s[l] % M = v
  <2>1. PICK j \in Int : s[l] = v + j * M
    BY <1>20
  <2>2. PICK x \in Int : x = s[l] /\ x = v + j * M
    BY <2>1
  <2>3. x % M = v
    BY ONLY <2>2, v \in 0..(M - 1), j \in Int, x \in Int, M \in Nat \ {0}, DivModIs
  <2> QED
    BY <2>2, <2>3
<1> QED
  BY <1>2, <1>10, <1>13, <1>17, <1>18, <1>19, <1>21

-----------------------------------------------------------------------------
(* Every operation of uint256.c is exact: after any sequence of additions,    *)
(* subtractions, negations, rotations by any number of bits and readings of   *)
(* hexadecimal strings of any length, the words stand for the integer that    *)
(* arithmetic modulo 2^256 gives.  No carry is lost, although uint256_add     *)
(* guesses it from the wrapped sum; no bit is lost where a rotation crosses a *)
(* word; and the cutting of a string into words keeps what its digits stand   *)
(* for.                                                                       *)
THEOREM ArithmeticIsExact == UInt256Spec => []ExactArithmetic
<1> USE DEF ExactArithmetic
<1>1. UInt256Init => ExactArithmetic
  BY OneIs DEF UInt256Init
<1>2. ASSUME ExactArithmetic, [UInt256Next]_(uint256_vars) PROVE ExactArithmetic'
  <2>1. CASE UNCHANGED uint256_vars
    BY <1>2, <2>1 DEF uint256_vars
  <2>2. CASE Add
    <3>1. PICK r \in Inputs : /\ val' = uint256_add(val, r)
                              /\ int' = (int + Value(r)) % Modulus
      BY <2>2 DEF Add
    <3>2. r \in UInts
      BY UInt256Assumption
    <3> QED
      BY <1>2, <3>1, <3>2, AddIs
  <2>3. CASE Sub
    <3>1. PICK r \in Inputs : /\ val' = uint256_sub(val, r)
                              /\ int' = (int - Value(r)) % Modulus
      BY <2>3 DEF Sub
    <3>2. r \in UInts
      BY UInt256Assumption
    <3> QED
      BY <1>2, <3>1, <3>2, SubIs
  <2>4. CASE Negate
    BY <1>2, <2>4, NegateIs DEF Negate
  <2>5. CASE RotateLeft
    <3>1. PICK n \in Amounts :
            /\ val' = uint256_rotate_left(val, n)
            /\ LET m == n % Bits
               IN int' = ((int * 2^m) % Modulus) + (int \div 2^(Bits - m))
      BY <2>5 DEF RotateLeft
    <3>2. n \in Nat
      BY UInt256Assumption
    <3> QED
      BY <1>2, <3>1, <3>2, RotateLeftIs
  <2>6. CASE RotateRight
    <3>1. PICK n \in Amounts :
            /\ val' = uint256_rotate_right(val, n)
            /\ LET m == n % Bits
               IN int' = (int \div 2^m) + (int % 2^m) * 2^(Bits - m)
      BY <2>6 DEF RotateRight
    <3>2. n \in Nat
      BY UInt256Assumption
    <3> QED
      BY <1>2, <3>1, <3>2, RotateRightIs
  <2>7. CASE CreateFromHex
    <3>1. PICK h \in Hexes : /\ val' = uint256_create_from_hex(h)
                             /\ int' = ParseWord(h) % Modulus
      BY <2>7 DEF CreateFromHex
    <3>2. h \in Seq(0..(DigitBase - 1))
      BY UInt256Assumption
    <3> QED
      BY <1>2, <3>1, <3>2, HexIs
  <2> QED
    BY <1>2, <2>1, <2>2, <2>3, <2>4, <2>5, <2>6, <2>7 DEF UInt256Next
<1> QED
  BY <1>1, <1>2, PTL DEF UInt256Spec

-----------------------------------------------------------------------------
(* Writing a string of digits. *)

(* An array of words is determined by its value.                              *)
LEMMA ValueInjective ==
  ASSUME NEW u \in UInts, NEW v \in UInts,
         Value(u) = Value(v)
  PROVE  u = v
<1>1. PICK n \in Nat, e \in Nat, B \in Nat :
        n = NumWords /\ e = WordBits /\ UInts = [0..(n - 1) -> 0..(B - 1)]
  BY Sizes
<1>2. PICK su : /\ IsSum(su, u, n, e) /\ Value(u) = su[n]
                /\ \A k \in 0..n : su[k] \in 0..(Weight(k, e) - 1)
  BY <1>1, ValueSum
<1>3. PICK sv : /\ IsSum(sv, v, n, e) /\ Value(v) = sv[n]
                /\ \A k \in 0..n : sv[k] \in 0..(Weight(k, e) - 1)
  BY <1>1, ValueSum
<1>4. ASSUME NEW j \in 0..(n - 1), su[j + 1] = sv[j + 1]
      PROVE  su[j] = sv[j] /\ u[j] = v[j]
  <2>1. j \in Nat /\ j \in 0..n
    OBVIOUS
  <2>2. PICK y \in Nat \ {0} : y = Weight(j, e)
    <3>1. Weight(j, e) \in Nat \ {0}
      BY ONLY <2>1, e \in Nat, WeightStep
    <3> QED
      BY <3>1
  <2>3. PICK a \in 0..(y - 1), b \in 0..(y - 1) : a = su[j] /\ b = sv[j]
    BY <1>2, <1>3, <2>1, <2>2
  <2>4. PICK c \in Nat, d \in Nat : c = u[j] /\ d = v[j]
    BY <1>1
  <2>5. PICK x \in Int : x = su[j + 1] /\ x = a + c * y /\ x = b + d * y
    <3>1. su[j + 1] = a + c * y
      BY <1>2, <2>1, <2>2, <2>3, <2>4 DEF IsSum
    <3>2. sv[j + 1] = b + d * y
      BY <1>3, <2>1, <2>2, <2>3, <2>4 DEF IsSum
    <3>3. PICK x \in Int : x = a + c * y
      OBVIOUS
    <3> QED
      BY <1>4, <3>1, <3>2, <3>3
  <2>6. x % y = a /\ x \div y = c
    <3>1. x = a + c * y
      BY <2>5
    <3> QED
      BY ONLY <3>1, x \in Int, a \in 0..(y - 1), c \in Int, y \in Nat \ {0}, DivModIs
  <2>7. x % y = b /\ x \div y = d
    <3>1. x = b + d * y
      BY <2>5
    <3> QED
      BY ONLY <3>1, x \in Int, b \in 0..(y - 1), d \in Int, y \in Nat \ {0}, DivModIs
  <2> QED
    BY <2>3, <2>4, <2>6, <2>7
<1> DEFINE S == {k \in 0..n : su[n - k] = sv[n - k]}
<1>5. 0 \in S
  <2>1. n - 0 = n /\ 0 \in 0..n
    OBVIOUS
  <2> QED
    BY <1>2, <1>3, <2>1
<1>6. ASSUME NEW k \in 0..(n - 1), k \in S PROVE k + 1 \in S
  <2>1. PICK j \in 0..(n - 1) : j = n - (k + 1) /\ j + 1 = n - k
    OBVIOUS
  <2>2. su[j] = sv[j]
    BY <1>4, <1>6, <2>1
  <2> QED
    BY <2>1, <2>2
<1> HIDE DEF S
<1>7. \A k \in 0..n : k \in S
  BY <1>5, <1>6, BoundedInduction
<1>8. ASSUME NEW j \in 0..(n - 1) PROVE u[j] = v[j]
  <2>1. PICK k \in 0..n : k = n - (j + 1) /\ n - k = j + 1
    OBVIOUS
  <2> QED
    BY <1>4, <1>7, <2>1 DEF S
<1> QED
  BY <1>1, <1>8

\* p is the a digits of b bits that x has.
AreDigitsOf(p, x, a, b) == p = [j \in 0..(a - 1) |-> (x \div Weight(j, b)) % 2^b]

(* Weights grow.                                                              *)
LEMMA WeightGrows ==
  ASSUME NEW j \in Nat, NEW k \in Nat, j <= k, NEW e \in Nat
  PROVE  Weight(j, e) <= Weight(k, e)
<1>1. PICK i1 \in Nat : i1 = k - j /\ j + i1 = k
  OBVIOUS
<1>2. PICK x \in Nat \ {0}, y \in Nat \ {0} : x = Weight(j, e) /\ y = Weight(i1, e)
  BY WeightStep
<1>3. Weight(k, e) = x * y
  BY <1>1, <1>2, WeightAdd
<1>4. x * y >= x * 1
  BY <1>2
<1> QED
  BY <1>2, <1>3, <1>4

(* A number below a weight has no digit from there on.                        *)
LEMMA HighDigits ==
  ASSUME NEW a \in Nat, NEW b \in Nat, NEW k \in Nat, NEW x \in 0..(Weight(k, b) - 1),
         NEW p, AreDigitsOf(p, x, a, b)
  PROVE  ZerosFrom(p, k, a)
<1>1. ASSUME NEW j \in k..(a - 1) PROVE p[j] = 0
  <2>1. j \in Nat /\ j \in 0..(a - 1) /\ k <= j
    OBVIOUS
  <2>2. PICK y \in Nat \ {0}, D \in Nat \ {0} : y = Weight(j, b) /\ D = 2^b
    <3>1. Weight(j, b) \in Nat \ {0} /\ 2^b \in Nat \ {0}
      BY ONLY <2>1, b \in Nat, WeightStep, PowerStep
    <3> QED
      BY <3>1
  <2>3. x \in 0..(y - 1)
    <3>1. Weight(k, b) <= Weight(j, b)
      BY <2>1, WeightGrows
    <3>2. Weight(k, b) \in Nat
      BY WeightStep
    <3> QED
      BY <2>2, <3>1, <3>2
  <2>4. x \div y = 0
    <3>1. x \in Int /\ 0 \in Int /\ x = x + 0 * y
      BY <2>3
    <3> QED
      BY ONLY <3>1, <2>3, y \in Nat \ {0}, DivModIs
  <2>5. 0 % D = 0
    <3>1. 0 \in Int /\ 0 \in 0..(D - 1) /\ 0 = 0 + 0 * D
      OBVIOUS
    <3> QED
      BY ONLY <3>1, D \in Nat \ {0}, DivModIs
  <2> QED
    BY <2>1, <2>2, <2>4, <2>5 DEF AreDigitsOf
<1> QED
  BY <1>1 DEF ZerosFrom

(* A number is the sum of its digits.                                         *)
LEMMA DigitsOfIs ==
  ASSUME NEW a \in Nat, NEW b \in Nat, NEW x \in 0..(Weight(a, b) - 1),
         NEW p, AreDigitsOf(p, x, a, b), NEW q, IsSum(q, p, a, b)
  PROVE  /\ p \in [0..(a - 1) -> 0..(2^b - 1)]
         /\ q[a] = x
<1>1. PICK D \in Nat \ {0} : D = 2^b
  BY PowerStep
<1>2. ASSUME NEW j \in 0..a PROVE Weight(j, b) \in Nat \ {0}
  <2>1. j \in Nat
    OBVIOUS
  <2> QED
    BY ONLY <2>1, b \in Nat, WeightStep
<1>3. x \in Int /\ x \in Nat
  <2>1. Weight(a, b) \in Nat
    BY WeightStep
  <2> QED
    BY <2>1
<1>4. ASSUME NEW j \in 0..(a - 1) PROVE p[j] \in 0..(D - 1)
  <2>1. PICK y \in Nat \ {0} : y = Weight(j, b)
    BY <1>2
  <2>2. x \div y \in Int
    BY ONLY <1>3, y \in Nat \ {0}, DivModType
  <2>3. (x \div y) % D \in 0..(D - 1)
    BY ONLY <2>2, D \in Nat \ {0}, DivModType
  <2> QED
    BY <1>1, <2>1, <2>3 DEF AreDigitsOf
<1>5. p \in [0..(a - 1) -> 0..(D - 1)]
  BY <1>4 DEF AreDigitsOf
<1>6. \A j \in 0..a : q[j] \in 0..(Weight(j, b) - 1)
  BY <1>1, <1>5, SumBound
<1> DEFINE S == {j \in 0..a : x = q[j] + (x \div Weight(j, b)) * Weight(j, b)}
<1>7. 0 \in S
  <2>1. Weight(0, b) = 1 /\ q[0] = 0
    BY WeightStep DEF IsSum
  <2>2. x \div 1 = x
    <3>1. 0 \in 0..(1 - 1) /\ x = 0 + x * 1 /\ 1 \in Nat \ {0}
      BY <1>3
    <3> QED
      BY ONLY <1>3, <3>1, DivModIs
  <2>3. x = 0 + x * 1
    BY <1>3
  <2> QED
    BY <2>1, <2>2, <2>3
<1>8. ASSUME NEW j \in 0..(a - 1), j \in S PROVE j + 1 \in S
  <2>1. j \in Nat /\ j \in 0..a /\ j + 1 \in 0..a
    OBVIOUS
  <2>2. PICK y \in Nat \ {0} : y = Weight(j, b) /\ Weight(j + 1, b) = y * D
    <3>1. Weight(j, b) \in Nat \ {0} /\ Weight(j + 1, b) = Weight(j, b) * 2^b
      BY ONLY <2>1, b \in Nat, WeightStep
    <3> QED
      BY <1>1, <3>1
  <2>3. PICK z \in Int : z = x \div y
    BY ONLY <1>3, y \in Nat \ {0}, DivModType
  <2>4. PICK c \in Int, t \in Int : c = z % D /\ t = z \div D /\ z = c + t * D
    <3>1. z % D \in 0..(D - 1) /\ z \div D \in Int /\ z = (z % D) + (z \div D) * D
      BY ONLY z \in Int, D \in Nat \ {0}, DivModType
    <3> QED
      BY <3>1
  <2>5. PICK f \in Nat : f = q[j]
    BY <2>1 DEF IsSum
  <2>6. p[j] = c
    BY <1>1, <2>2, <2>3, <2>4 DEF AreDigitsOf
  <2>7. q[j + 1] = f + c * y
    BY <2>2, <2>5, <2>6 DEF IsSum
  <2>8. x = f + z * y
    BY <1>8, <2>2, <2>3, <2>5
  <2>9. x = (f + c * y) + t * (y * D)
    <3>1. f + (c + t * D) * y = (f + c * y) + t * (y * D)
      OBVIOUS
    <3> QED
      BY <2>4, <2>8, <3>1
  <2>10. PICK Y \in Nat \ {0} : Y = y * D
    <3>1. y * D \in Nat \ {0}
      BY <1>2, <2>1, <2>2
    <3> QED
      BY <3>1
  <2>11. PICK g \in 0..(Y - 1) : g = f + c * y
    <3>1. q[j + 1] \in 0..(Y - 1)
      BY <1>6, <2>1, <2>2, <2>10
    <3> QED
      BY <2>7, <3>1
  <2>12. x = g + t * Y
    BY <2>9, <2>10, <2>11
  <2>13. x \div Y = t
    BY ONLY <1>3, <2>12, Y \in Nat \ {0}, g \in 0..(Y - 1), t \in Int, DivModIs
  <2> QED
    BY <2>1, <2>2, <2>7, <2>10, <2>12, <2>13, <2>11
<1> HIDE DEF S
<1>9. a \in S
  <2>1. \A j \in 0..a : j \in S
    BY <1>7, <1>8, BoundedInduction
  <2> QED
    BY <2>1
<1>10. PICK y \in Nat \ {0} : y = Weight(a, b)
  BY <1>2
<1>11. x \div y = 0
  <2>1. x \in 0..(y - 1) /\ 0 \in Int /\ x = x + 0 * y
    BY <1>3, <1>10
  <2> QED
    BY ONLY <1>3, <2>1, y \in Nat \ {0}, DivModIs
<1>12. PICK f \in Nat : f = q[a]
  BY DEF IsSum
<1>13. x = f + 0 * y
  BY <1>9, <1>10, <1>11, <1>12 DEF S
<1>14. f + 0 * y = f
  OBVIOUS
<1> QED
  BY <1>1, <1>5, <1>12, <1>13, <1>14

\* v is the len lowest digits of x, and x has no other.
IsFormatted(v, p, len, a) ==
  v \in Seq(Nat) /\ Len(v) = len /\ IsWritten(v, p, len) /\ ZerosFrom(p, len, a)

(* Formatting a word writes its digits down to the highest that matters.      *)
LEMMA FormatIs ==
  ASSUME NEW a \in Nat \ {0}, a = WordDigits, NEW b \in Nat, b = DigitBits,
         NEW x \in 0..(Weight(a, b) - 1), NEW p, AreDigitsOf(p, x, a, b)
  PROVE  \E len \in 1..a : IsFormatted(FormatWord(x), p, len, a)
<1> DEFINE Fits(n) == x < Weight(n, b) /\ (n = 1 \/ x >= Weight(n - 1, b))
           S == {n \in Nat : n >= 1 /\ x < Weight(n, b)}
<1>1. x \in Nat /\ a \in S
  <2>1. Weight(a, b) \in Nat
    BY WeightStep
  <2> QED
    BY <2>1
<1>2. PICK m \in S : \A k \in S : m <= k
  BY <1>1, LeastNatural
<1>3. m \in 1..a /\ Fits(m)
  <2>1. CASE m = 1
    BY <1>1, <1>2, <2>1
  <2>2. CASE m # 1
    <3>1. m - 1 \in Nat /\ m - 1 >= 1 /\ ~(m <= m - 1)
      BY <1>2, <2>2
    <3>2. m - 1 \notin S
      BY <1>2, <3>1
    <3>3. Weight(m - 1, b) \in Nat
      BY ONLY <3>1, b \in Nat, WeightStep
    <3> QED
      BY <1>1, <1>2, <3>1, <3>2, <3>3
  <2> QED
    BY <2>1, <2>2
<1> DEFINE len == CHOOSE n \in 1..a : Fits(n)
<1>4. len \in 1..a /\ Fits(len)
  BY <1>3
<1>5. FormatWord(x) = [j \in 1..len |-> (x \div Weight(len - j, b)) % 2^b]
  BY DEF FormatWord, DigitWeight, DigitBase, Weight
<1> HIDE DEF len, S
<1>6. PICK l \in 1..a : l = len /\ x < Weight(l, b)
  BY <1>4
<1>7. PICK v : v = [j \in 1..l |-> (x \div Weight(l - j, b)) % 2^b]
  OBVIOUS
<1>8. ASSUME NEW j \in 1..l PROVE v[j] = p[l - j] /\ v[j] \in Nat
  <2>1. l - j \in 0..(a - 1) /\ l - j \in Nat
    OBVIOUS
  <2>2. v[j] = p[l - j]
    BY <1>7, <2>1 DEF AreDigitsOf
  <2>3. PICK y \in Nat \ {0}, D \in Nat \ {0} : y = Weight(l - j, b) /\ D = 2^b
    <3>1. Weight(l - j, b) \in Nat \ {0} /\ 2^b \in Nat \ {0}
      BY ONLY <2>1, b \in Nat, WeightStep, PowerStep
    <3> QED
      BY <3>1
  <2>4. x \in Int
    BY <1>1
  <2>5. x \div y \in Int
    BY ONLY <2>4, y \in Nat \ {0}, DivModType
  <2>6. (x \div y) % D \in 0..(D - 1)
    BY ONLY <2>5, D \in Nat \ {0}, DivModType
  <2> QED
    BY <1>7, <2>2, <2>3, <2>6
<1>9. v \in Seq(Nat) /\ Len(v) = l /\ DOMAIN v = 1..l
  <2>1. v \in [1..l -> Nat] /\ l \in Nat
    BY <1>7, <1>8
  <2> QED
    BY <2>1
<1>10. ZerosFrom(p, l, a)
  <2>1. x \in 0..(Weight(l, b) - 1) /\ l \in Nat
    <3>1. l \in Nat
      OBVIOUS
    <3>2. Weight(l, b) \in Nat \ {0}
      BY ONLY <3>1, b \in Nat, WeightStep
    <3> QED
      BY <1>1, <1>6, <3>1, <3>2
  <2> QED
    BY <2>1, HighDigits
<1> QED
  BY <1>5, <1>6, <1>7, <1>8, <1>9, <1>10 DEF IsFormatted, IsWritten

\* What uint256_format_as_hex has at hand after c of the N digits dg.
Accs(N) == [hex : [1..N -> Nat], buf : Seq(Nat), end : Int, first : BOOLEAN]

HasWritten(hex, dg, N, c) == \A y \in 1..N : hex[y] = IF N - y < c THEN dg[N - y] ELSE 0

\* The c-th digit and the a - l below it: those a string of l digits leaves out.
LeftOut(dg, c, l, a, N) == \A j \in 0..(N - 1) : j >= c - (a - l) /\ j < c => dg[j] = 0

Progress(acc, dg, N, c, a) ==
  /\ acc \in Accs(N)
  /\ HasWritten(acc.hex, dg, N, c)
  /\ acc.end = N - c
  /\ acc.first <=> c = 0
  /\ c # 0 => Len(acc.buf) \in 1..a /\ LeftOut(dg, c, Len(acc.buf), a, N)

(* Replacing zeros by the digits of the next word: what lies above them is    *)
(* zero already.                                                              *)
LEMMA ReplaceIs ==
  ASSUME NEW N \in Nat, NEW a \in Nat, NEW c \in Nat, c + a <= N,
         NEW dg \in [0..(N - 1) -> Nat], NEW p, IsPart(p, dg, c, a, N),
         NEW hex \in [1..N -> Nat], HasWritten(hex, dg, N, c),
         NEW v, NEW l \in 1..a, IsFormatted(v, p, l, a)
  PROVE  LET new == replace_substring(hex, v, (N - c) - l)
         IN  new \in [1..N -> Nat] /\ HasWritten(new, dg, N, c + a)
<1>1. PICK new : new = [y \in 1..N |-> IF y \in ((N - c) - l + 1)..((N - c) - l + l)
                                       THEN v[y - ((N - c) - l)] ELSE hex[y]]
  OBVIOUS
<1>2. new = replace_substring(hex, v, (N - c) - l)
  <2>1. DOMAIN hex = 1..N /\ Len(v) = l
    BY DEF IsFormatted
  <2> QED
    BY <1>1, <2>1 DEF replace_substring
<1>3. ASSUME NEW y \in 1..N
      PROVE  new[y] = IF N - y < c + a THEN dg[N - y] ELSE 0
  <2>1. PICK j \in 0..(N - 1) : j = N - y
    OBVIOUS
  <2>2. hex[y] = IF j < c THEN dg[j] ELSE 0
    BY <2>1 DEF HasWritten
  <2>3. CASE j >= c /\ j < c + l
    <3>1. /\ y \in ((N - c) - l + 1)..((N - c) - l + l)
          /\ y - ((N - c) - l) \in 1..l /\ l - (y - ((N - c) - l)) = j - c
          /\ j - c \in 0..(a - 1) /\ c + (j - c) = j /\ j < c + a
      BY <2>1, <2>3
    <3>2. v[y - ((N - c) - l)] = p[j - c]
      BY <3>1 DEF IsFormatted, IsWritten
    <3>3. p[j - c] = dg[j]
      BY <3>1 DEF IsPart
    <3> QED
      BY <1>1, <2>1, <3>1, <3>2, <3>3
  <2>4. CASE ~(j >= c /\ j < c + l)
    <3>1. ~(y \in ((N - c) - l + 1)..((N - c) - l + l))
      BY <2>1, <2>4
    <3>2. new[y] = hex[y]
      BY <1>1, <3>1
    <3>3. CASE j < c
      BY <2>1, <2>2, <3>2, <3>3
    <3>4. CASE j >= c + a
      BY <2>1, <2>2, <3>2, <3>4
    <3>5. CASE j >= c + l /\ j < c + a
      <4>1. j - c \in l..(a - 1) /\ j - c \in 0..(a - 1) /\ c + (j - c) = j
        BY <3>5
      <4>2. p[j - c] = 0
        BY <4>1 DEF IsFormatted, ZerosFrom
      <4>3. dg[j] = 0
        BY <4>1, <4>2 DEF IsPart
      <4> QED
        BY <2>1, <2>2, <3>2, <3>5, <4>3
    <3> QED
      BY <2>4, <3>3, <3>4, <3>5
  <2> QED
    BY <2>3, <2>4
<1>4. new \in [1..N -> Nat]
  <2>1. ASSUME NEW y \in 1..N PROVE new[y] \in Nat
    <3>1. PICK j \in 0..(N - 1) : j = N - y
      OBVIOUS
    <3>2. new[y] = IF j < c + a THEN dg[j] ELSE 0
      BY <1>3, <3>1
    <3>3. dg[j] \in Nat
      OBVIOUS
    <3> QED
      BY <3>2, <3>3
  <2> QED
    BY <1>1, <2>1
<1> QED
  BY <1>2, <1>3, <1>4 DEF HasWritten

(* Writing the zeros of a zero word at the place of the last word written     *)
(* erases only zeros.                                                         *)
LEMMA ZerosIs ==
  ASSUME NEW N \in Nat, NEW a \in Nat, a = WordDigits, NEW c \in Nat, c + a <= N,
         NEW dg \in [0..(N - 1) -> Nat], NEW p, IsPart(p, dg, c, a, N), ZerosFrom(p, 0, a),
         NEW hex \in [1..N -> Nat], HasWritten(hex, dg, N, c),
         NEW l \in 1..a, LeftOut(dg, c, l, a, N)
  PROVE  LET new == replace_substring(hex, [j \in 1..a |-> 0], (N - c) - l)
         IN  new \in [1..N -> Nat] /\ HasWritten(new, dg, N, c + a)
<1>1. PICK new : new = [y \in 1..N |-> IF y \in ((N - c) - l + 1)..((N - c) - l + a)
                                       THEN 0 ELSE hex[y]]
  OBVIOUS
<1>2. new = replace_substring(hex, [j \in 1..a |-> 0], (N - c) - l)
  <2>1. PICK v : v = [j \in 1..a |-> 0]
    OBVIOUS
  <2>2. DOMAIN hex = 1..N /\ Len(v) = a
    BY <2>1
  <2>3. PICK at \in Int : at = (N - c) - l
    OBVIOUS
  <2>4. ASSUME NEW y \in 1..N, y \in (at + 1)..(at + a) PROVE v[y - at] = 0
    <3>1. y - at \in 1..a
      BY <2>3, <2>4
    <3> QED
      BY <2>1, <3>1
  <2>5. replace_substring(hex, v, at) =
          [y \in 1..N |-> IF y \in (at + 1)..(at + a) THEN v[y - at] ELSE hex[y]]
    BY <2>2 DEF replace_substring
  <2>6. @ = [y \in 1..N |-> IF y \in (at + 1)..(at + a) THEN 0 ELSE hex[y]]
    BY <2>4
  <2> QED
    BY <1>1, <2>1, <2>3, <2>5, <2>6
<1>3. ASSUME NEW y \in 1..N
      PROVE  new[y] = IF N - y < c + a THEN dg[N - y] ELSE 0
  <2>1. PICK j \in 0..(N - 1) : j = N - y
    OBVIOUS
  <2>2. hex[y] = IF j < c THEN dg[j] ELSE 0
    BY <2>1 DEF HasWritten
  <2>3. CASE j >= c /\ j < c + a
    <3>1. j - c \in 0..(a - 1) /\ c + (j - c) = j
      BY <2>3
    <3>2. p[j - c] = 0
      BY <3>1 DEF ZerosFrom
    <3>3. dg[j] = 0
      BY <3>1, <3>2 DEF IsPart
    <3> QED
      BY <1>1, <2>1, <2>2, <2>3, <3>3
  <2>4. CASE j >= c + a
    BY <1>1, <2>1, <2>2, <2>4
  <2>5. CASE j < c
    <3>1. CASE y \in ((N - c) - l + 1)..((N - c) - l + a)
      <4>1. j >= c - (a - l)
        BY <2>1, <3>1
      <4>2. dg[j] = 0
        BY <2>5, <4>1 DEF LeftOut
      <4> QED
        BY <1>1, <2>1, <2>5, <3>1, <4>2
    <3>2. CASE ~(y \in ((N - c) - l + 1)..((N - c) - l + a))
      BY <1>1, <2>1, <2>2, <2>5, <3>2
    <3> QED
      BY <3>1, <3>2
  <2> QED
    BY <2>3, <2>4, <2>5
<1>4. new \in [1..N -> Nat]
  BY <1>1
<1> QED
  BY <1>2, <1>3, <1>4 DEF HasWritten

(* What the five parts of a progress add up to.                               *)
LEMMA ProgressMade ==
  ASSUME NEW N \in Nat, NEW a \in Nat \ {0}, NEW c \in Nat, NEW dg,
         NEW hex \in [1..N -> Nat], HasWritten(hex, dg, N, c + a),
         NEW buf \in Seq(Nat), NEW l \in 1..a, l = Len(buf), LeftOut(dg, c + a, l, a, N)
  PROVE  Progress([hex |-> hex, buf |-> buf, end |-> N - (c + a), first |-> FALSE],
                  dg, N, c + a, a)
<1>1. PICK r : r = [hex |-> hex, buf |-> buf, end |-> N - (c + a), first |-> FALSE]
  OBVIOUS
<1>2. /\ r.hex = hex /\ r.buf = buf /\ r.end = N - (c + a) /\ r.first = FALSE
      /\ c + a # 0 /\ N - (c + a) \in Int
  BY <1>1
<1>3. r \in Accs(N)
  BY <1>1, <1>2 DEF Accs
<1>4. Progress(r, dg, N, c + a, a)
  BY <1>2, <1>3 DEF Progress
<1> QED
  BY <1>1, <1>4

(* One word more is written, and nothing of the words below is lost.          *)
LEMMA WriteWordIs ==
  ASSUME NEW a \in Nat \ {0}, a = WordDigits, NEW b \in Nat, b = DigitBits,
         NEW N \in Nat, NEW c \in Nat, c + a <= N, NEW dg \in [0..(N - 1) -> Nat],
         NEW x \in 0..(Weight(a, b) - 1), NEW p, AreDigitsOf(p, x, a, b),
         IsPart(p, dg, c, a, N), NEW acc, Progress(acc, dg, N, c, a)
  PROVE  Progress(WriteWord(acc, x), dg, N, c + a, a)
<1>1. /\ acc.hex \in [1..N -> Nat] /\ acc.buf \in Seq(Nat) /\ acc.first \in BOOLEAN
      /\ HasWritten(acc.hex, dg, N, c) /\ acc.end = N - c /\ (acc.first <=> c = 0)
      /\ c # 0 => Len(acc.buf) \in 1..a /\ LeftOut(dg, c, Len(acc.buf), a, N)
  BY DEF Progress, Accs
<1>2. PICK f : f = FormatWord(x)
  OBVIOUS
<1>3. PICK len \in 1..a : IsFormatted(f, p, len, a)
  BY <1>2, FormatIs
<1>4. f \in Seq(Nat) /\ Len(f) = len
  BY <1>3 DEF IsFormatted
<1>5. (N - c) - a = N - (c + a) /\ c + a # 0 /\ (c + a) - a = c
  OBVIOUS
<1>6. CASE x # 0 \/ acc.first
  <2>1. PICK new : new = replace_substring(acc.hex, f, (N - c) - len)
    OBVIOUS
  <2>2. WriteWord(acc, x) =
          [hex |-> new, buf |-> f, end |-> N - (c + a), first |-> FALSE]
    BY <1>1, <1>2, <1>4, <1>5, <1>6, <2>1 DEF WriteWord
  <2>3. new \in [1..N -> Nat] /\ HasWritten(new, dg, N, c + a)
    BY <1>1, <1>3, <2>1, ReplaceIs
  <2>4. LeftOut(dg, c + a, len, a, N)
    <3>1. ASSUME NEW j \in 0..(N - 1), j >= (c + a) - (a - len), j < c + a PROVE dg[j] = 0
      <4>1. j - c \in len..(a - 1) /\ j - c \in 0..(a - 1) /\ c + (j - c) = j
        BY <3>1
      <4>2. p[j - c] = 0
        BY <1>3, <4>1 DEF IsFormatted, ZerosFrom
      <4> QED
        BY <4>1, <4>2 DEF IsPart
    <3> QED
      BY <3>1 DEF LeftOut
  <2>5. Progress([hex |-> new, buf |-> f, end |-> N - (c + a), first |-> FALSE],
                 dg, N, c + a, a)
    BY <1>4, <2>3, <2>4, ProgressMade
  <2> QED
    BY <2>2, <2>5
<1>7. CASE ~(x # 0 \/ acc.first)
  <2>1. x = 0 /\ ~acc.first /\ c # 0
    BY <1>1, <1>7
  <2>2. PICK l \in 1..a : l = Len(acc.buf) /\ LeftOut(dg, c, l, a, N)
    BY <1>1, <2>1
  <2>3. ZerosFrom(p, 0, a)
    <3>1. 0 \in Nat /\ Weight(0, b) = 1
      BY WeightStep
    <3>2. x \in 0..(Weight(0, b) - 1)
      BY <2>1, <3>1
    <3> QED
      BY <3>1, <3>2, HighDigits
  <2>4. PICK new : new = replace_substring(acc.hex, [j \in 1..a |-> 0], (N - c) - l)
    OBVIOUS
  <2>5. WriteWord(acc, x) =
          [hex |-> new, buf |-> acc.buf, end |-> N - (c + a), first |-> FALSE]
    BY <1>1, <1>5, <2>1, <2>2, <2>4 DEF WriteWord
  <2>6. new \in [1..N -> Nat] /\ HasWritten(new, dg, N, c + a)
    BY <1>1, <2>2, <2>3, <2>4, ZerosIs
  <2>7. LeftOut(dg, c + a, l, a, N)
    <3>1. ASSUME NEW j \in 0..(N - 1), j >= (c + a) - (a - l), j < c + a PROVE dg[j] = 0
      <4>1. j - c \in 0..(a - 1) /\ c + (j - c) = j
        BY <3>1
      <4>2. p[j - c] = 0
        BY <2>3, <4>1 DEF ZerosFrom
      <4> QED
        BY <4>1, <4>2 DEF IsPart
    <3> QED
      BY <3>1 DEF LeftOut
  <2>8. PICK buf \in Seq(Nat) : buf = acc.buf
    BY <1>1
  <2>9. Progress([hex |-> new, buf |-> buf, end |-> N - (c + a), first |-> FALSE],
                 dg, N, c + a, a)
    BY <2>2, <2>6, <2>7, <2>8, ProgressMade
  <2> QED
    BY <2>5, <2>8, <2>9
<1> QED
  BY <1>6, <1>7

\* dg is the digits of the words u, a of b bits in each.
AreDigitsOfWords(dg, u, n, a, b) ==
  \A k \in 0..(n - 1), i1 \in 0..(a - 1), j \in Nat :
    j = k * a + i1 => dg[j] = (u[k] \div Weight(i1, b)) % 2^b

(* An integer has digits.                                                     *)
LEMMA DigitsExist ==
  ASSUME NEW n \in Nat, NEW a \in Nat \ {0}, NEW b \in Nat, NEW N \in Nat, N = n * a,
         NEW u, \A k \in 0..(n - 1) : u[k] \in Nat
  PROVE  \E dg \in [0..(N - 1) -> 0..(2^b - 1)] : AreDigitsOfWords(dg, u, n, a, b)
<1>1. PICK D \in Nat \ {0} : D = 2^b
  BY PowerStep
<1>2. PICK dg : dg = [j \in 0..(N - 1) |-> (u[j \div a] \div Weight(j % a, b)) % D]
  OBVIOUS
<1>3. ASSUME NEW j \in 0..(N - 1)
      PROVE  j \div a \in 0..(n - 1) /\ j % a \in 0..(a - 1)
  <2>1. j \in Int
    OBVIOUS
  <2>2. PICK q \in Int, r \in 0..(a - 1) : q = j \div a /\ r = j % a /\ j = r + q * a
    BY ONLY <2>1, a \in Nat \ {0}, DivModType
  <2>3. CASE q <= -1
    <3>1. q * a <= -a
      BY <2>3
    <3> QED
      BY <2>2, <3>1
  <2>4. CASE q >= n
    <3>1. q * a >= n * a
      BY <2>4
    <3> QED
      BY <2>2, <3>1
  <2> QED
    BY <2>2, <2>3, <2>4
<1>4. ASSUME NEW j \in 0..(N - 1) PROVE dg[j] \in 0..(D - 1)
  <2>1. PICK k \in 0..(n - 1), r \in 0..(a - 1) : k = j \div a /\ r = j % a
    BY <1>3
  <2>2. PICK x \in Int, y \in Nat \ {0} : x = u[k] /\ y = Weight(r, b)
    <3>1. r \in Nat
      OBVIOUS
    <3>2. Weight(r, b) \in Nat \ {0}
      BY ONLY <3>1, b \in Nat, WeightStep
    <3> QED
      BY <3>2
  <2>3. x \div y \in Int
    BY ONLY x \in Int, y \in Nat \ {0}, DivModType
  <2>4. (x \div y) % D \in 0..(D - 1)
    BY ONLY <2>3, D \in Nat \ {0}, DivModType
  <2> QED
    BY <1>2, <2>1, <2>2, <2>4
<1>5. ASSUME NEW k \in 0..(n - 1), NEW i1 \in 0..(a - 1), NEW j \in Nat, j = k * a + i1
      PROVE  dg[j] = (u[k] \div Weight(i1, b)) % D
  <2>1. j \in Int /\ k \in Int /\ j = i1 + k * a
    BY <1>5
  <2>2. j \div a = k /\ j % a = i1
    BY ONLY <2>1, a \in Nat \ {0}, i1 \in 0..(a - 1), DivModIs
  <2>3. j \in 0..(N - 1)
    <3>1. k * a <= (n - 1) * a /\ (n - 1) * a = n * a - a
      OBVIOUS
    <3> QED
      BY <1>5, <3>1
  <2> QED
    BY <1>2, <2>2, <2>3
<1>6. dg \in [0..(N - 1) -> 0..(D - 1)]
  BY <1>2, <1>4
<1>7. AreDigitsOfWords(dg, u, n, a, b)
  BY <1>1, <1>5 DEF AreDigitsOfWords
<1> QED
  BY <1>1, <1>6, <1>7

(* What is written stays a string of N digits.                                *)
LEMMA WriteWordType ==
  ASSUME NEW a \in Nat \ {0}, a = WordDigits, NEW b \in Nat, b = DigitBits,
         NEW N \in Nat, NEW x \in 0..(Weight(a, b) - 1), NEW acc \in Accs(N)
  PROVE  WriteWord(acc, x) \in Accs(N)
<1>1. /\ acc.hex \in [1..N -> Nat] /\ acc.buf \in Seq(Nat) /\ acc.end \in Int
      /\ acc.first \in BOOLEAN
  BY DEF Accs
<1>2. PICK p : AreDigitsOf(p, x, a, b)
  BY DEF AreDigitsOf
<1>3. PICK f \in Seq(Nat) : f = FormatWord(x)
  BY <1>2, FormatIs DEF IsFormatted
<1>4. PICK wr : wr <=> (x # 0 \/ acc.first)
  OBVIOUS
<1>5. PICK buf \in Seq(Nat) : buf = IF wr THEN f ELSE acc.buf
  <2>1. CASE wr
    BY <2>1
  <2>2. CASE ~wr
    BY <1>1, <2>2
  <2> QED
    BY <2>1, <2>2
<1>6. PICK src \in Seq(Nat) : src = IF wr THEN buf ELSE [j \in 1..a |-> 0]
  <2>1. [j \in 1..a |-> 0] \in Seq(Nat)
    OBVIOUS
  <2>2. CASE wr
    BY <2>2
  <2>3. CASE ~wr
    BY <2>1, <2>3
  <2> QED
    BY <2>2, <2>3
<1>7. PICK at \in Int : at = acc.end - Len(buf)
  BY <1>1
<1>8. PICK new : new = [j \in 1..N |-> IF j \in (at + 1)..(at + Len(src))
                                       THEN src[j - at] ELSE acc.hex[j]]
  OBVIOUS
<1>9. new \in [1..N -> Nat]
  <2>1. ASSUME NEW j \in 1..N PROVE new[j] \in Nat
    <3>1. CASE j \in (at + 1)..(at + Len(src))
      <4>1. j - at \in 1..Len(src)
        BY <3>1
      <4> QED
        BY <1>8, <3>1, <4>1
    <3>2. CASE j \notin (at + 1)..(at + Len(src))
      BY <1>1, <1>8, <3>2
    <3> QED
      BY <3>1, <3>2
  <2> QED
    BY <1>8, <2>1
<1>10. PICK end \in Int : end = acc.end - a
  BY <1>1
<1>11. WriteWord(acc, x) = [hex |-> new, buf |-> buf, end |-> end, first |-> FALSE]
  <2>1. DOMAIN acc.hex = 1..N
    BY <1>1
  <2>2. new = replace_substring(acc.hex, src, acc.end - Len(buf))
    BY <1>7, <1>8, <2>1 DEF replace_substring
  <2>3. CASE wr
    BY <1>3, <1>4, <1>5, <1>6, <1>10, <2>2, <2>3 DEF WriteWord
  <2>4. CASE ~wr
    BY <1>3, <1>4, <1>5, <1>6, <1>10, <2>2, <2>4 DEF WriteWord
  <2> QED
    BY <2>3, <2>4
<1> QED
  BY <1>9, <1>11 DEF Accs

\* A string of digits without the zeros before it, the last digit aside.
Trimmed(hex) ==
  LET lead == CHOOSE n \in 0..(Len(hex) - 1) :
                /\ \A j \in 1..n : hex[j] = 0
                /\ n = Len(hex) - 1 \/ hex[n + 1] # 0
  IN  SubSeq(hex, lead + 1, Len(hex))

\* dg is the N digits of u.
AllDigits(dg, u, n, a, b, N) ==
  /\ u \in UInts /\ n = NumWords /\ a = WordDigits /\ b = DigitBits
  /\ N \in Nat /\ N = n * a /\ dg \in [0..(N - 1) -> Nat]
  /\ AreDigitsOfWords(dg, u, n, a, b)

Renders(u, dg, N) ==
  \E hex \in [1..N -> Nat] : /\ HasWritten(hex, dg, N, N)
                             /\ uint256_format_as_hex(u) = Trimmed(hex)

(* All words written, the string has all digits.                              *)
LEMMA AllWritten ==
  ASSUME NEW u, NEW n, NEW a, NEW b, NEW N, NEW dg, AllDigits(dg, u, n, a, b, N)
  PROVE  Renders(u, dg, N)
<1> SUFFICES ASSUME u \in UInts, n \in Nat \ {0}, n = NumWords,
                    a \in Nat \ {0}, a = WordDigits, b \in Nat, b = DigitBits,
                    N \in Nat, N = n * a, dg \in [0..(N - 1) -> Nat],
                    AreDigitsOfWords(dg, u, n, a, b)
             PROVE  \E hex \in [1..N -> Nat] :
                      /\ HasWritten(hex, dg, N, N)
                      /\ uint256_format_as_hex(u) = Trimmed(hex)
  BY UInt256Assumption DEF AllDigits, Renders
<1>0. PICK V : V = Accs(N)
  OBVIOUS
<1>1. PICK B \in Nat : B = Weight(a, b) /\ UInts = [0..(n - 1) -> 0..(B - 1)]
  <2>1. WordBits = a * b
    BY DEF WordBits
  <2>2. UInts = [0..(n - 1) -> 0..(Weight(a, b) - 1)]
    BY <2>1, Sizes DEF Weight
  <2>3. Weight(a, b) \in Nat
    BY WeightStep
  <2> QED
    BY <2>2, <2>3
<1>2. PICK blank : blank = [hex |-> [j \in 1..N |-> 0], buf |-> <<>>, end |-> N, first |-> TRUE]
  OBVIOUS
<1>3. blank \in V /\ n \in Nat /\ Progress(blank, dg, N, 0, a)
  <2>1. /\ blank.hex = [j \in 1..N |-> 0] /\ blank.end = N - 0 /\ blank.first = TRUE
    BY <1>2
  <2>2. blank \in Accs(N)
    BY <1>2 DEF Accs
  <2>3. HasWritten(blank.hex, dg, N, 0)
    BY <2>1 DEF HasWritten
  <2> QED
    BY <1>0, <2>1, <2>2, <2>3 DEF Progress
<1>4. PICK str : str = [k \in 1..n |-> u[k - 1]]
  OBVIOUS
<1>5. DOMAIN str = 1..n /\ \A k \in 1..n : str[k] \in 0..(B - 1)
  <2>1. \A k \in 1..n : k - 1 \in 0..(n - 1)
    OBVIOUS
  <2> QED
    BY <1>1, <1>4, <2>1
<1> DEFINE body(f, x) == IF x = {} THEN blank
                         ELSE WriteWord(f[x \ {Max(x)}], str[Max(x)])
           it == CHOOSE f : f = [x \in SUBSET (1..n) |-> body(f, x)]
           G == [k \in 1..n |-> [v \in V |-> WriteWord(v, str[k])]]
<1>6. uint256_format_as_hex(u) = Trimmed(it[1..n].hex)
  <2>1. FoldLeft(WriteWord, blank, str) = it[1..n]
    BY <1>5 DEF FoldLeft, MapThenFoldSet, Max
  <2>2. PICK ww : ww = NumWords * WordDigits /\ ww = N
    OBVIOUS
  <2>3. blank = [hex |-> [j \in 1..(NumWords * WordDigits) |-> 0], buf |-> <<>>,
                 end |-> NumWords * WordDigits, first |-> TRUE]
    BY ONLY <1>2, <2>2
  <2>4. str = [k \in 1..NumWords |-> u[k - 1]]
    BY <1>4
  <2>5. uint256_format_as_hex(u) =
          Trimmed(FoldLeft(WriteWord, blank, str).hex)
    BY ONLY <2>3, <2>4 DEF uint256_format_as_hex, Trimmed
  <2> HIDE DEF it
  <2> QED
    BY ONLY <2>1, <2>5
<1>7. G \in [1..n -> [V -> V]] /\ blank \in V /\ n \in Nat
  <2>1. ASSUME NEW k \in 1..n, NEW v \in V PROVE WriteWord(v, str[k]) \in V
    BY <1>0, <1>1, <1>5, WriteWordType
  <2> QED
    BY <1>3, <2>1
<1>8. ASSUME NEW f, NEW x \in SUBSET (1..n), x # {}, f[x \ {Max(x)}] \in V
      PROVE  body(f, x) = G[Max(x)][f[x \ {Max(x)}]]
  <2>1. Max(x) \in 1..n
    BY <1>3, <1>8, LargestIn
  <2> QED
    BY <1>8, <2>1
<1>9. \A f : body(f, {}) = blank
  OBVIOUS
<1>10. \A k \in 1..n, v \in V : G[k][v] = WriteWord(v, str[k])
  OBVIOUS
<1> HIDE DEF G, body
<1>11. \E f : f = [x \in SUBSET (1..n) |-> body(f, x)]
  <2>1. PICK f : IsFold(f, n, V, blank, G)
    BY ONLY <1>7, FoldExists
  <2>2. \A x \in SUBSET (1..n) : f[x] = body(f, x)
    BY <1>8, <1>9, <2>1 DEF IsFold
  <2>3. f = [x \in SUBSET (1..n) |-> f[x]]
    BY ONLY <2>1 DEF IsFold
  <2> QED
    BY ONLY <2>2, <2>3
<1>12. it = [x \in SUBSET (1..n) |-> body(it, x)]
  BY <1>11
<1> HIDE DEF it
<1>13. Unfolds(it, n, V, blank, G)
  BY <1>8, <1>9, <1>12 DEF Unfolds
<1>14. IsReached(it[1..n], n, V, blank, G)
  BY ONLY <1>7, <1>13, FoldSteps
<1>15. PICK r : IsRun(r, n, V, blank, G) /\ r[n] = it[1..n]
  BY <1>14 DEF IsReached
<1> DEFINE S == {k \in 0..n : \A c \in Nat : c = k * a => Progress(r[k], dg, N, c, a)}
<1>16. 0 \in S
  <2>1. r[0] = blank /\ 0 \in 0..n /\ 0 * a = 0
    BY <1>15 DEF IsRun
  <2> QED
    BY <1>3, <2>1
<1>17. ASSUME NEW k \in 0..(n - 1), k \in S PROVE k + 1 \in S
  <2> SUFFICES ASSUME NEW d \in Nat, d = (k + 1) * a
               PROVE  Progress(r[k + 1], dg, N, d, a)
    OBVIOUS
  <2>1. PICK c \in Nat : c = k * a /\ d = c + a /\ c + a <= N
    <3>1. PICK c \in Nat : c = k * a
      OBVIOUS
    <3>2. (k + 1) * a = k * a + a /\ (k + 1) * a <= n * a
      OBVIOUS
    <3> QED
      BY <3>1, <3>2
  <2>2. Progress(r[k], dg, N, c, a)
    BY <1>17, <2>1
  <2>3. k + 1 \in 1..n /\ (k + 1) - 1 = k /\ r[k] \in V
    BY <1>15 DEF IsRun
  <2>4. PICK x \in 0..(B - 1) : x = u[k] /\ x = str[k + 1]
    BY <1>4, <1>5, <2>3
  <2>5. r[k + 1] = WriteWord(r[k], x)
    <3>1. r[k + 1] = G[k + 1][r[k]]
      BY <1>15, <2>3 DEF IsRun
    <3>2. G[k + 1][r[k]] = WriteWord(r[k], str[k + 1])
      BY ONLY <1>10, <2>3
    <3> QED
      BY ONLY <2>4, <3>1, <3>2
  <2>6. PICK p : p = [j \in 0..(a - 1) |-> (x \div Weight(j, b)) % 2^b]
    OBVIOUS
  <2>7. IsPart(p, dg, c, a, N)
    <3>1. ASSUME NEW j \in 0..(a - 1) PROVE p[j] = dg[c + j]
      <4>1. PICK m \in Nat : m = c + j /\ m = k * a + j
        BY <2>1
      <4>2. AreDigitsOfWords(dg, u, n, a, b)
        OBVIOUS
      <4>3. dg[m] = (u[k] \div Weight(j, b)) % 2^b
        BY ONLY <4>1, <4>2, k \in 0..(n - 1), j \in 0..(a - 1) DEF AreDigitsOfWords
      <4> QED
        BY <2>4, <2>6, <4>1, <4>3
    <3> QED
      BY <2>1, <3>1 DEF IsPart
  <2>8. AreDigitsOf(p, x, a, b) /\ x \in 0..(Weight(a, b) - 1)
    BY <1>1, <2>6 DEF AreDigitsOf
  <2>9. PICK acc : acc = r[k]
    OBVIOUS
  <2>10. Progress(acc, dg, N, c, a) /\ c + a <= N
    BY <2>1, <2>2, <2>9
  <2>11. Progress(WriteWord(acc, x), dg, N, c + a, a)
    BY <2>7, <2>8, <2>10, WriteWordIs
  <2> QED
    BY <2>1, <2>5, <2>9, <2>11
<1> HIDE DEF S
<1>18. n \in S
  <2>1. \A k \in 0..n : k \in S
    BY <1>3, <1>16, <1>17, BoundedInduction
  <2> QED
    BY <2>1
<1>19. Progress(r[n], dg, N, N, a)
  BY <1>18 DEF S
<1> QED
  BY <1>6, <1>15, <1>19 DEF Progress, Accs

(* Trimming leaves out only zeros, and leaves no zero in front.               *)
LEMMA TrimmedIs ==
  ASSUME NEW N \in Nat \ {0}, NEW X, 0 \in X, NEW dg \in [0..(N - 1) -> X],
         NEW hex \in [1..N -> Nat], HasWritten(hex, dg, N, N)
  PROVE  \E l \in 1..N : /\ Trimmed(hex) \in Seq(X) /\ Len(Trimmed(hex)) = l
                         /\ IsWritten(Trimmed(hex), dg, l) /\ ZerosFrom(dg, l, N)
                         /\ l > 1 => Trimmed(hex)[1] # 0
<1>1. hex \in Seq(Nat) /\ Len(hex) = N
  OBVIOUS
<1>2. \A y \in 1..N : N - y \in 0..(N - 1) /\ hex[y] = dg[N - y]
  BY DEF HasWritten
<1> DEFINE Leads(k) == /\ \A j \in 1..k : hex[j] = 0
                       /\ k = N - 1 \/ hex[k + 1] # 0
           S == {k \in Nat : k <= N - 1 /\ (k = N - 1 \/ hex[k + 1] # 0)}
<1>3. \E k \in 0..(N - 1) : Leads(k)
  <2>1. N - 1 \in S
    OBVIOUS
  <2>2. PICK m \in S : \A k \in S : m <= k
    BY <2>1, LeastNatural
  <2>3. ASSUME NEW j \in 1..m PROVE hex[j] = 0
    <3>1. j - 1 \in Nat /\ (j - 1) + 1 = j /\ ~(m <= j - 1) /\ j - 1 < N - 1
      BY <2>2
    <3>2. j - 1 \notin S
      BY <2>2, <3>1
    <3> QED
      BY <3>1, <3>2
  <2> QED
    BY <2>2, <2>3
<1> DEFINE first == CHOOSE k \in 0..(N - 1) : Leads(k)
<1>4. first \in 0..(N - 1) /\ Leads(first)
  BY <1>3
<1>5. Trimmed(hex) = SubSeq(hex, first + 1, N)
  BY <1>1 DEF Trimmed
<1> HIDE DEF first
<1>6. PICK k \in 0..(N - 1) : k = first /\ Leads(k)
  BY <1>4
<1>7. PICK l \in 1..N : l = N - k
  OBVIOUS
<1>8. PICK v : v = SubSeq(hex, k + 1, N)
  OBVIOUS
<1>9. DOMAIN v = 1..l /\ Len(v) = l /\ \A i1 \in 1..l : v[i1] = hex[k + i1]
  BY <1>1, <1>7, <1>8
<1>10. IsWritten(v, dg, l)
  <2>1. ASSUME NEW i1 \in 1..l PROVE v[i1] = dg[l - i1]
    <3>1. k + i1 \in 1..N /\ N - (k + i1) = l - i1
      BY <1>7
    <3> QED
      BY <1>2, <1>9, <3>1
  <2> QED
    BY <1>9, <2>1 DEF IsWritten
<1>11. v \in Seq(X)
  <2>1. v \in Seq(Nat)
    BY <1>1, <1>8
  <2>2. ASSUME NEW i1 \in 1..l PROVE v[i1] \in X
    <3>1. l - i1 \in 0..(N - 1)
      OBVIOUS
    <3> QED
      BY <1>10, <3>1 DEF IsWritten
  <2>3. v = [i1 \in 1..l |-> v[i1]]
    BY <1>9, <2>1
  <2>4. v \in [1..l -> X] /\ l \in Nat
    BY <2>2, <2>3
  <2> QED
    BY ONLY <2>4
<1>12. ZerosFrom(dg, l, N)
  <2>1. ASSUME NEW j \in l..(N - 1) PROVE dg[j] = 0
    <3>1. PICK y \in 1..k : y = N - j /\ N - y = j /\ y \in 1..N
      BY <1>7
    <3>2. hex[y] = 0
      BY <1>6
    <3> QED
      BY <1>2, <3>1, <3>2
  <2> QED
    BY <2>1 DEF ZerosFrom
<1>13. l > 1 => v[1] # 0
  <2>1. l > 1 => k # N - 1 /\ 1 \in 1..l
    BY <1>7
  <2> QED
    BY <1>6, <1>9, <2>1
<1> QED
  BY <1>5, <1>6, <1>8, <1>9, <1>10, <1>11, <1>12, <1>13

(* The digits written are those of the value, without leading zeros.          *)
LEMMA HexOfIs ==
  ASSUME NEW u \in UInts
  PROVE  LET hex == uint256_format_as_hex(u)
         IN  /\ uint256_create_from_hex(hex) = u
             /\ Len(hex) > 1 => hex[1] # 0
<1>1. PICK n \in Nat \ {0}, a \in Nat \ {0}, b \in Nat :
        n = NumWords /\ a = WordDigits /\ b = DigitBits
  BY UInt256Assumption
<1>2. PICK e \in Nat, B \in Nat, M \in Nat \ {0} :
        /\ e = WordBits /\ e = a * b /\ B = Weight(a, b)
        /\ M = Modulus /\ UInts = [0..(n - 1) -> 0..(B - 1)]
  <2>1. PICK e \in Nat : e = WordBits /\ e = a * b
    BY <1>1 DEF WordBits
  <2>2. PICK B \in Nat : B = Weight(a, b)
    BY WeightStep
  <2>3. UInts = [0..(n - 1) -> 0..(B - 1)]
    BY <1>1, <2>1, <2>2, Sizes DEF Weight
  <2>4. Modulus \in Nat \ {0}
    BY Sizes
  <2> QED
    BY <2>1, <2>2, <2>3, <2>4
<1>3. PICK N \in Nat \ {0} : N = n * a
  <2>1. n * a \in Nat \ {0}
    OBVIOUS
  <2> QED
    BY <2>1
<1>4. PICK D \in Nat \ {0} : D = 2^b /\ D = DigitBase
  <2>1. 2^b \in Nat \ {0}
    BY PowerStep
  <2> QED
    BY <1>1, <2>1 DEF DigitBase
<1>5. PICK X : X = 0..(D - 1)
  OBVIOUS
<1>6. PICK dg \in [0..(N - 1) -> X] : AreDigitsOfWords(dg, u, n, a, b)
  <2>1. \A k \in 0..(n - 1) : u[k] \in Nat
    BY <1>2
  <2>2. N \in Nat /\ N = n * a
    BY <1>3
  <2>3. \E dg \in [0..(N - 1) -> 0..(2^b - 1)] : AreDigitsOfWords(dg, u, n, a, b)
    BY <2>1, <2>2, DigitsExist
  <2> QED
    BY <1>4, <1>5, <2>3
<1>7. dg \in [0..(N - 1) -> Nat] /\ 0 \in X
  <2>1. \A j \in 0..(N - 1) : dg[j] \in Nat
    BY <1>5
  <2> QED
    BY <1>5, <2>1
<1>8. PICK str \in [1..N -> Nat] : /\ HasWritten(str, dg, N, N)
                                   /\ uint256_format_as_hex(u) = Trimmed(str)
  <2>1. AllDigits(dg, u, n, a, b, N)
    BY <1>1, <1>3, <1>6, <1>7 DEF AllDigits
  <2>2. Renders(u, dg, N)
    BY ONLY <2>1, AllWritten
  <2> QED
    BY <2>2 DEF Renders
<1>9. PICK hex : hex = Trimmed(str)
  OBVIOUS
<1>10. PICK l \in 1..N : /\ hex \in Seq(X) /\ Len(hex) = l /\ IsWritten(hex, dg, l)
                         /\ ZerosFrom(dg, l, N) /\ (l > 1 => hex[1] # 0)
  BY <1>7, <1>8, <1>9, TrimmedIs
<1>11. PICK s : IsSum(s, dg, N, b)
  BY <1>7, SumExists
<1>12. ParseWord(hex) = s[N]
  <2>1. ParseWord(hex) = s[l]
    <3>1. IsDigitString(hex, dg, s, l, N)
      BY <1>1, <1>7, <1>10, <1>11 DEF IsDigitString
    <3> QED
      BY ONLY <3>1, ParseIs
  <2>2. s[N] = s[l]
    <3>1. PICK m \in 0..N, K \in Nat : m = l /\ K = N
      OBVIOUS
    <3>2. IsSum(s, dg, K, b) /\ ZerosFrom(dg, m, K) /\ m \in 0..K /\ K \in m..K
      BY <1>10, <1>11, <3>1
    <3>3. s[K] = s[m]
      BY ONLY <3>2, K \in Nat, b \in Nat, m \in 0..K, SumZeros
    <3> QED
      BY <3>1, <3>3
  <2> QED
    BY <2>1, <2>2
<1>13. AreWords(s, u, n, a, e)
  <2>1. ASSUME NEW k \in 0..(n - 1), NEW m \in Nat, m = k * a
        PROVE  s[m + a] = s[m] + u[k] * Weight(k, e)
    <3>1. m + a <= N
      <4>1. (k + 1) * a <= n * a /\ (k + 1) * a = k * a + a
        OBVIOUS
      <4> QED
        BY <1>3, <2>1, <4>1
    <3>2. PICK x \in 0..(B - 1) : x = u[k]
      BY <1>2
    <3>3. PICK p : p = [j \in 0..(a - 1) |-> (x \div Weight(j, b)) % 2^b]
      OBVIOUS
    <3>4. AreDigitsOf(p, x, a, b)
      BY <3>3 DEF AreDigitsOf
    <3>5. IsPart(p, dg, m, a, N)
      <4>1. ASSUME NEW j \in 0..(a - 1) PROVE p[j] = dg[m + j]
        <5>1. PICK y \in Nat : y = m + j /\ y = k * a + j
          BY <2>1
        <5>2. AreDigitsOfWords(dg, u, n, a, b)
          BY <1>6
        <5>3. dg[y] = (u[k] \div Weight(j, b)) % 2^b
          BY ONLY <5>1, <5>2, k \in 0..(n - 1), j \in 0..(a - 1) DEF AreDigitsOfWords
        <5> QED
          BY <3>2, <3>3, <5>1, <5>3
      <4> QED
        BY <3>1, <4>1 DEF IsPart
    <3>6. p \in [0..(a - 1) -> Nat]
      <4>1. ASSUME NEW j \in 0..(a - 1) PROVE p[j] \in Nat
        <5>1. m + j \in 0..(N - 1) /\ p[j] = dg[m + j]
          BY <3>1, <3>5 DEF IsPart
        <5> QED
          BY <1>7, <5>1
      <4> QED
        BY <3>3, <4>1
    <3>7. PICK q : IsSum(q, p, a, b)
      BY <3>6, SumExists
    <3>8. q[a] = x
      <4>1. a \in Nat /\ x \in 0..(Weight(a, b) - 1)
        BY <1>2
      <4> QED
        BY <3>4, <3>7, <4>1, DigitsOfIs
    <3>9. PartOfSum(s, q, m, a, b)
      <4>1. a \in Nat /\ N \in Nat
        OBVIOUS
      <4> QED
        BY <1>7, <1>11, <3>5, <3>6, <3>7, <4>1, SumPart
    <3>10. Weight(m, b) = Weight(k, e)
      <4>1. (k * a) * b = k * (a * b)
        OBVIOUS
      <4> QED
        BY <1>2, <2>1, <4>1 DEF Weight
    <3> QED
      BY <3>2, <3>8, <3>9, <3>10 DEF PartOfSum
  <2> QED
    BY <2>1 DEF AreWords
<1>14. Value(u) = s[N]
  <2>1. /\ n \in Nat /\ n = NumWords /\ a \in Nat /\ N \in Nat /\ N = n * a /\ s[0] = 0
        /\ AreWords(s, u, n, a, WordBits)
    BY <1>1, <1>2, <1>3, <1>11, <1>13 DEF IsSum
  <2> QED
    BY <2>1, ValueByDigits
<1>15. PICK x \in 0..(M - 1) : x = Value(u)
  BY <1>2, NegateIs
<1>16. x % M = x
  <2>1. x \in Nat /\ x < M /\ x < 2 * M
    OBVIOUS
  <2> QED
    BY ONLY <2>1, M \in Nat \ {0}, Wraps
<1>17. PICK v : v = uint256_create_from_hex(hex)
  OBVIOUS
<1>18. v \in UInts /\ Value(v) = x
  <2>1. hex \in Seq(0..(DigitBase - 1))
    BY <1>4, <1>5, <1>10
  <2>2. v \in UInts /\ Value(v) = ParseWord(hex) % Modulus
    BY <1>17, <2>1, HexIs
  <2> QED
    BY <1>2, <1>12, <1>14, <1>15, <1>16, <2>2
<1>19. v = u
  BY <1>15, <1>18, ValueInjective
<1> QED
  BY <1>8, <1>9, <1>10, <1>17, <1>19

(* uint256_format_as_hex and uint256_create_from_hex are inverse on every     *)
(* value that can be computed, and no leading zero is written: the zeros of a *)
(* zero word, which the code writes at the place of the last word formatted,  *)
(* fall on zeros only.                                                        *)
THEOREM HexRoundTrips == UInt256Spec => []HexRoundTrip
<1>1. ExactArithmetic => HexRoundTrip
  BY HexOfIs DEF ExactArithmetic, HexRoundTrip
<1>2. UInt256Spec => []ExactArithmetic
  BY ArithmeticIsExact
<1> QED
  BY <1>1, <1>2, PTL
=============================================================================
