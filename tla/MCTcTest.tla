------------------------------ MODULE MCTcTest ------------------------------
(* Three tests, and two signals that come four times.                          *)
EXTENDS TcTest

MCSignals == {"SIGSEGV", "SIGABRT"}
=============================================================================
