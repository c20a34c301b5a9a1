----------------------------- MODULE MCCacheSim -----------------------------
(* Small instances of CacheSim for TLC: blocks of 8 bytes. *)
EXTENDS CacheSim

\* With two sets of three slots: four blocks contend for the slots of set 0, and
\* a block of set 1 has the tag of one of them.
TwoSets == {0, 16, 36, 52, 12}

\* With one set: four blocks contend for its slots.
OneSet == {0, 8, 16, 24}
=============================================================================
