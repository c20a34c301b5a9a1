------------------------------ MODULE MCUInt256 ------------------------------
(* A small instance of UInt256 for TLC: four words of two binary digits. *)
EXTENDS UInt256

MCInputs == [0..3 -> 0..3]
MCHexes == UNION {[1..n -> 0..1] : n \in {0, 1, 3, 8, 9}}
MCAmounts == 0..17
=============================================================================
