----------------------------- MODULE WordCount -----------------------------
(***************************************************************************)
(* The word counter of csf_assign02: the main loop of c_wcmain.c over the  *)
(* functions of c_wcfuncs.c (the program c_wordcount) or over those of     *)
(* asm_wcfuncs.S (casm_wordcount).  An operator asm_f is the assembly      *)
(* version of wc_f, given where it computes its result in another way.     *)
(* A text is a sequence of bytes; a C string is the sequence of its        *)
(* characters without the terminator.                                      *)
(***************************************************************************)
EXTENDS Integers, Sequences, FiniteSets, Functions, SequencesExt

CONSTANTS
  Libs,           \* the libraries main is linked with: "c", "asm"
  Texts,          \* the inputs
  MAX_WORDLEN,
  NumBuckets,     \* HASHTABLE_SIZE
  HashModulus     \* 2^32 in the code

ASSUME WordCountAssumption ==
  /\ \A t \in Texts : t \in Seq(0..255)
  /\ Libs \subseteq {"c", "asm"}
  /\ MAX_WORDLEN \in Nat \ {0} /\ NumBuckets \in Nat \ {0} /\ HashModulus \in Nat \ {0}

VARIABLES
  lib,
  text, pos,     \* the stream and how much of it fgetc has read
  w,             \* the string just read, or <<>>
  buckets,       \* buckets[b]: the list of entries, head first
  total_words, unique_words, best_word, best_word_count,
  i,             \* the bucket the report is at
  pc,            \* "read", "count", "report", "done"
  raw, counted,  \* history: the characters read of each word; the words counted
  low, high      \* history: the lowest and highest index written in w or best_word

vars == <<lib, text, pos, w, buckets, total_words, unique_words, best_word,
          best_word_count, i, pc, raw, counted, low, high>>

Buckets == 0..(NumBuckets - 1)

Init ==
  /\ lib \in Libs
  /\ text \in Texts /\ pos = 0 /\ w = <<>>
  /\ buckets = [b \in Buckets |-> <<>>]
  /\ total_words = 0 /\ unique_words = 0 /\ best_word = <<>> /\ best_word_count = 0
  /\ i = 0 /\ pc = "read" /\ raw = <<>> /\ counted = <<>>
  /\ low = 0 /\ high = 0

\* What the library that is linked makes of a call.
Linked(c, asm) == IF lib = "c" THEN c ELSE asm
-----------------------------------------------------------------------------
wc_isspace(c) == c \in {32, 9, 13, 10, 12, 11}
wc_isalpha(c) == c \in (65..90) \cup (97..122)

\* Bytes are compared as signed numbers.
asm_isalpha(c) ==
  LET d == IF c > 127 THEN c - 256 ELSE c
  IN  IF d >= 97 THEN d <= 122 ELSE d >= 65 /\ d <= 90

wc_hash(s) == FoldLeft(LAMBDA h, c : (h * 33 + c) % HashModulus, 5381 % HashModulus, s)

\* The product is kept in 64 bits and cut to 32 at the end.
asm_hash(s) ==
  FoldLeft(LAMBDA h, c : (h * 33 + c) % (HashModulus * HashModulus), 5381, s) % HashModulus

\* The first difference decides; the terminator is less than any character.
CharAt(s, k) == IF k \in DOMAIN s THEN s[k] ELSE 0
FirstDifference(l, r) ==
  CHOOSE k \in 1..(Len(l) + 1) :
    /\ CharAt(l, k) # CharAt(r, k) \/ k = Len(l) + 1
    /\ \A j \in 1..(k - 1) : CharAt(l, j) = CharAt(r, j)

wc_str_compare(l, r) ==
  LET k == FirstDifference(l, r) IN CharAt(l, k) - CharAt(r, k)

asm_str_compare(l, r) ==
  LET k == FirstDifference(l, r)
      left == CharAt(l, k)
      right == CharAt(r, k)
  IN  IF left = 0 THEN IF right = 0 THEN 0 ELSE -1
      ELSE IF right = 0 \/ right < left THEN 1 ELSE -1

\* The index of the last byte that a copy of s writes: the assembly clears a
\* whole word of memory where the terminator goes.
wc_str_copy(s) == Len(s)
asm_str_copy(s) == Len(s) + 7

wc_tolower(s) == [k \in DOMAIN s |-> IF s[k] \in 65..90 THEN s[k] + 32 ELSE s[k]]

\* Mistake: one character is dropped at most.
wc_trim_once(s) == IF wc_isalpha(Last(s)) THEN s ELSE Front(s)

\* Drops what follows the last letter; nothing is left of a word without one.
wc_trim_non_alpha(s) ==
  LET last == CHOOSE n \in 0..Len(s) :
                /\ n = 0 \/ wc_isalpha(s[n])
                /\ \A k \in (n + 1)..Len(s) : ~wc_isalpha(s[k])
  IN  SubSeq(s, 1, last)

\* Where wc_trim_non_alpha writes its terminator.  Of an empty string it looks at the
\* byte before the buffer, which is the highest of the size that malloc keeps there
\* and 0, and writes to it.
c_trim(s) ==
  LET word == wc_trim_non_alpha(s)
      end == IF s = <<>> THEN -1 ELSE Len(word)
  IN  [word |-> word, first |-> end, last |-> end]

\* The assembly clears eight bytes there.  It loses the start of the word when the
\* last character is not a letter, so in a word of such characters it goes on below
\* the buffer, up to the lowest byte 'Q' of that size, and clears what follows.
asm_trim(s) ==
  LET word == wc_trim_non_alpha(s)
      end == IF s = <<>> THEN -1
             ELSE IF word = <<>> /\ Len(s) > 1 THEN -7
             ELSE Len(word)
  IN  [word |-> word, first |-> end, last |-> end + 7]

\* The first position from which on `from` there is no space, and the first
\* after it where the word ends: at a space, at the end, or when it is full.
SkipSpaces(from) ==
  CHOOSE n \in from..Len(text) :
    /\ \A k \in (from + 1)..n : wc_isspace(text[k])
    /\ n = Len(text) \/ ~wc_isspace(text[n + 1])

\* Mistake: room for the terminator is not kept.
WordEndLong(from) ==
  CHOOSE n \in from..Len(text) :
    /\ n - from <= MAX_WORDLEN + 1
    /\ \A k \in (from + 1)..n : ~wc_isspace(text[k])
    /\ n = Len(text) \/ n - from = MAX_WORDLEN + 1 \/ wc_isspace(text[n + 1])

WordEnd(from) ==
  CHOOSE n \in from..Len(text) :
    /\ n - from <= MAX_WORDLEN
    /\ \A k \in (from + 1)..n : ~wc_isspace(text[k])
    /\ n = Len(text) \/ n - from = MAX_WORDLEN \/ wc_isspace(text[n + 1])

\* The C version reads one character more than it stores, to find the end of the
\* word, and does not put it back; the assembly stops before that when the word
\* is full, and stores each character as four bytes.
wc_readnext(start, end) ==
  [pos |-> IF end < Len(text) THEN end + 1 ELSE end, last |-> end - start]

asm_readnext(start, end) ==
  [pos |-> IF end < Len(text) /\ end - start < MAX_WORDLEN THEN end + 1 ELSE end,
   last |-> end - start + 2]

\* The characters of a buffer up to the first NUL.
CString(s) ==
  LET n == CHOOSE n \in 0..Len(s) :
             /\ \A k \in 1..n : s[k] # 0
             /\ n = Len(s) \/ s[n + 1] = 0
  IN  SubSeq(s, 1, n)

Highest(k) == high' = IF k > high THEN k ELSE high

ReadNext ==
  /\ pc = "read"
  /\ LET start == SkipSpaces(pos)
         end == WordEnd(start)
         characters == SubSeq(text, start + 1, end)
         read == Linked(wc_readnext(start, end), asm_readnext(start, end))
     IN  IF start = Len(text)
           THEN /\ pos' = Len(text) /\ pc' = "report"
                /\ UNCHANGED <<w, raw, high>>
           ELSE /\ w' = CString(characters)
                /\ raw' = Append(raw, characters)
                /\ pos' = read.pos
                /\ Highest(read.last)
                /\ pc' = "count"
  /\ UNCHANGED <<lib, low, text, buckets, total_words, unique_words, best_word,
                 best_word_count, i, counted>>

Same(l, r) == Linked(wc_str_compare(l, r), asm_str_compare(r, l)) = 0

\* Mistake: only the head of the list is compared.
CountingAtHead(chain, s) ==
  IF chain # <<>> /\ chain[1].word = s
  THEN [chain EXCEPT ![1].count = @ + 1]
  ELSE <<[word |-> s, count |-> 1]>> \o chain

\* wc_dict_find_or_insert, wc_find_or_insert and the increment of main: a new
\* entry goes to the head of the list of its bucket.
Counting(chain, s) ==
  IF \E k \in DOMAIN chain : Same(chain[k].word, s)
  THEN [k \in DOMAIN chain |->
          IF Same(chain[k].word, s) THEN [chain[k] EXCEPT !.count = @ + 1] ELSE chain[k]]
  ELSE <<[word |-> s, count |-> 1]>> \o chain

CountWord ==
  /\ pc = "count"
  /\ LET trimmed == Linked(c_trim(w), asm_trim(w))
         s == wc_tolower(trimmed.word)
         b == Linked(wc_hash(s), asm_hash(s)) % NumBuckets
     IN  /\ low' = IF trimmed.first < low THEN trimmed.first ELSE low
         /\ Highest(trimmed.last)
         /\ buckets' = [buckets EXCEPT ![b] = Counting(@, s)]
         /\ counted' = Append(counted, s)
  /\ total_words' = total_words + 1
  /\ w' = <<>>
  /\ pc' = "read"
  /\ UNCHANGED <<lib, text, pos, unique_words, best_word, best_word_count, i, raw>>

\* Mistake: only the head of each list is looked at for the best word.
ReportBucketHead ==
  /\ pc = "report" /\ i < NumBuckets
  /\ IF buckets[i] # <<>> /\ best_word_count < buckets[i][1].count
       THEN best_word' = buckets[i][1].word /\ best_word_count' = buckets[i][1].count
       ELSE UNCHANGED <<best_word, best_word_count>>
  /\ unique_words' = unique_words + Len(buckets[i])
  /\ i' = i + 1
  /\ pc' = IF i + 1 = NumBuckets THEN "done" ELSE "report"
  /\ UNCHANGED <<lib, low, high, text, pos, w, buckets, total_words, raw, counted>>

\* One bucket of the loop that looks for the most frequent word.
ReportBucket ==
  /\ pc = "report" /\ i < NumBuckets
  /\ LET Best(e, f) ==
           IF f.count <= e.count THEN e
           ELSE LET copied == Linked(wc_str_copy(f.word), asm_str_copy(f.word))
                IN  [word |-> f.word, count |-> f.count,
                     high |-> IF copied > e.high THEN copied ELSE e.high]
         best == FoldLeft(Best, [word |-> best_word, count |-> best_word_count,
                                 high |-> high], buckets[i])
     IN  /\ best_word' = best.word
         /\ best_word_count' = best.count
         /\ high' = best.high
  /\ unique_words' = unique_words + Len(buckets[i])
  /\ i' = i + 1
  /\ pc' = IF i + 1 = NumBuckets THEN "done" ELSE "report"
  /\ UNCHANGED <<lib, low, text, pos, w, buckets, total_words, raw, counted>>

Next == ReadNext \/ CountWord \/ ReportBucket

Spec == Init /\ [][Next]_vars
-----------------------------------------------------------------------------
\* The reference: a word occurs this often among those counted so far.
Occurrences(s) == Cardinality({k \in DOMAIN counted : counted[k] = s})

\* The C functions write within the MAX_WORDLEN + 1 bytes of w and best_word, and
\* one before them only when the characters read for a word begin with a NUL; those
\* in assembly never write more than seven bytes before or behind.
WritesBounded ==
  IF lib = "c"
  THEN /\ high <= MAX_WORDLEN
       /\ low = 0 \/ (low = -1 /\ \E k \in DOMAIN raw : raw[k][1] = 0)
  ELSE low >= -7 /\ high <= MAX_WORDLEN + 7

\* "This array should be assumed to be MAX_WORDLEN+1 elements in size"
\* (asm_wcfuncs.S:257-258, c_wcfuncs.c:91-92): nothing is written outside it.
WritesInBuffer == low >= 0 /\ high <= MAX_WORDLEN

\* The table is a dictionary: every word counted has one entry in one bucket,
\* with the number of its occurrences, and nothing else has one.
TableIsDictionary ==
  \A s \in Range(counted) \cup UNION {{e.word : e \in Range(buckets[b])} : b \in Buckets} :
    LET places == {p \in Buckets \X (1..Len(counted)) :
                     p[2] <= Len(buckets[p[1]]) /\ buckets[p[1]][p[2]].word = s}
    IN  /\ Cardinality(places) = 1
        /\ \A p \in places : buckets[p[1]][p[2]].count = Occurrences(s)

\* What main prints is true of the words it counted: their number, the number
\* of different ones, and one that no other exceeds.
ReportIsTrue ==
  pc = "done" =>
    /\ total_words = Len(counted)
    /\ unique_words = Cardinality(Range(counted))
    /\ best_word_count = Occurrences(best_word)
    /\ \A s \in Range(counted) : Occurrences(s) <= best_word_count

\* Words that differ only in case or in what follows their last letter are
\* counted as one: no counted word has a capital or ends in anything but a letter.
CountedWordsNormal ==
  \A s \in Range(counted) :
    /\ \A k \in DOMAIN s : s[k] \notin 65..90
    /\ s # <<>> => wc_isalpha(s[Len(s)])

\* A sequence longer than MAX_WORDLEN goes on as the next word: nothing of the
\* text but white space is missing from the words read.
NothingLost ==
  FlattenSeq(raw) = SelectSeq(SubSeq(text, 1, pos), LAMBDA c : ~wc_isspace(c))
=============================================================================
