------------------------------ MODULE UInt256 ------------------------------
(***************************************************************************)
(* The 256-bit integers of csf_assign01/uint256.c.  A value is an array of *)
(* NumWords words (8 in the code) of WordDigits digits each (8), a digit   *)
(* being one of DigitBase (16): the algorithms do not depend on the three  *)
(* numbers, and small ones let TLC try every value.                        *)
(*                                                                         *)
(* The state is one value that a caller computes with, and, beside it, the *)
(* integer it should be.                                                   *)
(***************************************************************************)
EXTENDS Integers, Sequences, Functions, SequencesExt

CONSTANTS
  NumWords, WordDigits, DigitBits,
  Inputs,   \* the values of the other operand
  Hexes,    \* the digit strings given to create_from_hex
  Amounts   \* the numbers of bits to rotate by

DigitBase == 2^DigitBits
WordBits == WordDigits * DigitBits
Base == 2^WordBits
Bits == NumWords * WordBits
Modulus == 2^Bits

Index == 0..(NumWords - 1)
Word == 0..(Base - 1)
UInts == [Index -> Word]

ASSUME UInt256Assumption ==
  /\ NumWords \in Nat \ {0} /\ WordDigits \in Nat \ {0} /\ DigitBits \in Nat \ {0}
  /\ Inputs \subseteq UInts
  /\ \A h \in Hexes : h \in Seq(0..(DigitBase - 1))
  /\ Amounts \subseteq Nat
-----------------------------------------------------------------------------
uint256_create_from_u32(v) == [k \in Index |-> IF k = 0 THEN v ELSE 0]

uint256_get_bits(u, k) == u[k]

\* Mistake: the increment by the carry is not thought of.
CarryOutSimple(l, r, carry) ==
  LET currSum == (l + r + carry) % Base
  IN  IF currSum < l \/ currSum < r THEN 1 ELSE 0

\* The test of uint256_add for a carry out of word k, whose sum has wrapped.
CarryOut(l, r, carry) ==
  LET currSum == (l + r + carry) % Base
  IN  IF \/ currSum < l \/ currSum < r
         \/ carry = 1 /\ (currSum <= l \/ currSum <= r)
      THEN 1 ELSE 0

uint256_add(l, r) ==
  LET prevHas1[k \in 0..NumWords] ==
        IF k = 0 THEN 0 ELSE CarryOut(l[k-1], r[k-1], prevHas1[k-1])
  IN  [k \in Index |-> (l[k] + r[k] + prevHas1[k]) % Base]

uint256_negate(u) ==
  uint256_add([k \in Index |-> Base - 1 - u[k]], uint256_create_from_u32(1))

uint256_sub(l, r) == uint256_add(l, uint256_negate(r))

\* Shifts of one word; an | of disjoint bits is a sum.
Shl(w, n) == (w * 2^n) % Base
Shr(w, n) == w \div 2^n

uint256_rotate_left(u, nbits) ==
  LET shift == nbits % Bits
      small == shift % WordBits
      moved == [k \in Index |-> u[(k - shift \div WordBits) % NumWords]]
      \* What the word below shifts out, for word 0 the topmost word.
      shifted(k) == Shr(moved[(k - 1) % NumWords], WordBits - small)
  IN  IF small = 0 THEN moved
      ELSE [k \in Index |-> Shl(moved[k], small) + shifted(k)]

uint256_rotate_right(u, nbits) ==
  LET shift == nbits % Bits
      small == shift % WordBits
      moved == [k \in Index |-> u[(k + shift \div WordBits) % NumWords]]
      shifted(k) == Shl(moved[(k + 1) % NumWords], WordBits - small)
  IN  IF small = 0 THEN moved
      ELSE [k \in Index |-> Shr(moved[k], small) + shifted(k)]
-----------------------------------------------------------------------------
(* Strings of digits, the most significant first. *)

\* strtoul
ParseWord(digits) == FoldLeft(LAMBDA v, d : v * DigitBase + d, 0, digits)

\* The words are cut off the end of the string; what is beyond the last word is
\* not looked at, and a short string leaves the other words 0.
uint256_create_from_hex(hex) ==
  [k \in Index |->
     LET end == Len(hex) - k * WordDigits
         start == IF end < WordDigits THEN 1 ELSE end - WordDigits + 1
     IN  ParseWord(SubSeq(hex, start, end))]

\* DigitBase^n, which is always a power of 2.
DigitWeight(n) == 2^(n * DigitBits)

\* sprintf "%x": no leading zero but for 0 itself.
FormatWord(w) ==
  LET len == CHOOSE n \in 1..WordDigits :
               w < DigitWeight(n) /\ (n = 1 \/ w >= DigitWeight(n - 1))
  IN  [j \in 1..len |-> (w \div DigitWeight(len - j)) % DigitBase]

replace_substring(des, src, at) ==
  [j \in DOMAIN des |-> IF j \in (at + 1)..(at + Len(src)) THEN src[j - at] ELSE des[j]]

\* Mistake: the zeros of a zero word begin where they should end.
WriteWordLow(acc, w) ==
  LET buf == IF w # 0 \/ acc.first THEN FormatWord(w) ELSE acc.buf
      src == IF w # 0 \/ acc.first THEN buf ELSE [j \in 1..WordDigits |-> 0]
  IN  [hex |-> replace_substring(acc.hex, src,
                                 IF w # 0 \/ acc.first THEN acc.end - Len(buf) ELSE acc.end),
       buf |-> buf, end |-> acc.end - WordDigits, first |-> FALSE]

\* The words are written from the least significant one up.  A zero word that
\* is not the first is written as WordDigits zeros, at a place that depends on
\* the length of the last word formatted, not on their own.
WriteWord(acc, w) ==
  LET buf == IF w # 0 \/ acc.first THEN FormatWord(w) ELSE acc.buf
      src == IF w # 0 \/ acc.first THEN buf ELSE [j \in 1..WordDigits |-> 0]
  IN  [hex |-> replace_substring(acc.hex, src, acc.end - Len(buf)),
       buf |-> buf, end |-> acc.end - WordDigits, first |-> FALSE]

uint256_format_as_hex(u) ==
  LET blank == [hex |-> [j \in 1..(NumWords * WordDigits) |-> 0], buf |-> <<>>,
                end |-> NumWords * WordDigits, first |-> TRUE]
      hex == FoldLeft(WriteWord, blank, [k \in 1..NumWords |-> u[k - 1]]).hex
      lead == CHOOSE n \in 0..(Len(hex) - 1) :
                /\ \A j \in 1..n : hex[j] = 0
                /\ n = Len(hex) - 1 \/ hex[n + 1] # 0
  IN  SubSeq(hex, lead + 1, Len(hex))
-----------------------------------------------------------------------------
VARIABLES
  val,    \* the UInt256 the caller has
  int     \* the integer it stands for

\* Named so that the proofs can extend this module beside WordCount.
uint256_vars == <<val, int>>

\* The reference: the integer that an array of words stands for.
Value(u) == FoldLeft(LAMBDA v, k : v * Base + u[NumWords - k], 0,
                     [k \in 1..NumWords |-> k])

UInt256Init == val = uint256_create_from_u32(0) /\ int = 0

Add == \E r \in Inputs :
  /\ val' = uint256_add(val, r)
  /\ int' = (int + Value(r)) % Modulus

Sub == \E r \in Inputs :
  /\ val' = uint256_sub(val, r)
  /\ int' = (int - Value(r)) % Modulus

Negate ==
  /\ val' = uint256_negate(val)
  /\ int' = (-int) % Modulus

\* A rotation by n multiplies by 2^n modulo 2^Bits - 1 (and leaves 0 and -1).
RotateLeft == \E n \in Amounts :
  /\ val' = uint256_rotate_left(val, n)
  /\ LET m == n % Bits
     IN int' = ((int * 2^m) % Modulus) + (int \div 2^(Bits - m))

RotateRight == \E n \in Amounts :
  /\ val' = uint256_rotate_right(val, n)
  /\ LET m == n % Bits
     IN int' = (int \div 2^m) + (int % 2^m) * 2^(Bits - m)

CreateFromHex == \E h \in Hexes :
  /\ val' = uint256_create_from_hex(h)
  /\ int' = ParseWord(h) % Modulus

UInt256Next == Add \/ Sub \/ Negate \/ RotateLeft \/ RotateRight \/ CreateFromHex

UInt256Spec == UInt256Init /\ [][UInt256Next]_uint256_vars
-----------------------------------------------------------------------------
\* After any sequence of calls the words stand for the integer that exact
\* arithmetic modulo 2^256 gives: every carry is found, although it is guessed
\* from the wrapped sum, and no bit is lost at a word boundary.
ExactArithmetic == val \in UInts /\ Value(val) = int

\* Formatting writes the shortest digits of the value, and parsing them gives
\* the value back; the zeros written at the wrong place never erase a digit.
HexRoundTrip ==
  LET hex == uint256_format_as_hex(val)
  IN  /\ uint256_create_from_hex(hex) = val
      /\ Len(hex) > 1 => hex[1] # 0
=============================================================================
