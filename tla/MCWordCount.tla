---------------------------- MODULE MCWordCount ----------------------------
(* Small instances of WordCount for TLC. *)
EXTENDS WordCount

\* a, b, B, 1, a space, and words of at most two characters; shorter texts have the
\* NUL too.
MCTexts ==
  UNION {[1..n -> {97, 98, 66, 49, 32}] : n \in 0..5}
    \cup UNION {[1..n -> {97, 49, 32, 0}] : n \in 0..4}

\* Words that fit, without a NUL and with it.
MCPlainTexts == UNION {[1..n -> {97, 49, 32}] : n \in 0..3}
MCNulTexts == UNION {[1..n -> {97, 49, 32, 0}] : n \in 0..3}

\* Runs of the letter A, with words of at most 63 characters as in the code.
MCLongTexts == {[k \in 1..n |-> 65] : n \in {5, 50, 63, 65}}
=============================================================================
