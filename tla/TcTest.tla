------------------------------- MODULE TcTest -------------------------------
(***************************************************************************)
(* The framework tctest of csf_assign01 and csf_assign02: the macros TEST, *)
(* ASSERT and TEST_FINI of tctest.h and the signal handler of tctest.c,    *)
(* which leaves a crashing test with siglongjmp.  A test program is any    *)
(* sequence of tests; each function it calls, the callbacks and cleanup    *)
(* included, may crash.  The programs are built without optimisation: the  *)
(* variable t keeps across the jump what was assigned to it.               *)
(*                                                                         *)
(* MaxCrashes bounds the signals in a run of the program.                  *)
(***************************************************************************)
EXTENDS Integers, FiniteSets

CONSTANTS NumTests, Signals, MaxCrashes

ASSUME TestAssumption == NumTests \in Nat /\ MaxCrashes \in Nat

Tests == 1..NumTests

VARIABLES
  selected,     \* tctest_testname_to_execute, or 0 for NULL
  pc,           \* where the program is
  test,         \* the TEST it is at
  t,            \* the test objects, by the test that set them up; 0 for NULL
  line,         \* tctest_assertion_line, by the test of the ASSERT; 0 for -1
  failures, executed,
  env,          \* tctest_env: the signal mask it holds
  mask,         \* the signals that are blocked
  killed,       \* a signal has ended the program
  crashes,
  reported,     \* history: <<test, line>> for each message about a signal
  verdicts,     \* history: verdicts[k]: the calls of on_test_executed for k
  setUp,        \* history: how often setup has returned for a test
  cleaned,      \* history: the calls of cleanup in a test
  lost          \* history: those of them that crashed

tvars == <<selected, test, t, line, failures, executed, env, mask>>
objects == <<setUp, cleaned, lost>>
history == <<reported, verdicts, objects>>
vars == <<tvars, pc, killed, crashes, history>>

Init ==
  /\ selected \in Tests \cup {0}
  /\ pc = "init" /\ test = 1 /\ t = 0 /\ line = 0 /\ failures = 0 /\ executed = 0
  /\ env = {} /\ mask = {} /\ killed = FALSE /\ crashes = 0
  /\ reported = {}
  /\ verdicts = [k \in Tests |-> [passed |-> 0, failed |-> 0]]
  /\ setUp = [k \in Tests |-> 0]
  /\ cleaned = [k \in Tests |-> 0] /\ lost = [k \in Tests |-> 0]

Goto(from, to) == ~killed /\ pc = from /\ pc' = to
-----------------------------------------------------------------------------
\* TEST_INIT: the handlers are registered.
TestInit ==
  /\ Goto("init", "test")
  /\ UNCHANGED <<tvars, killed, crashes, history>>

Selected(k) == selected \in {0, k}

\* Mistake: a test is counted before its name is compared.
SkipCounting ==
  /\ test \in Tests /\ ~Selected(test)
  /\ Goto("test", "test")
  /\ test' = test + 1 /\ executed' = executed + 1
  /\ UNCHANGED <<selected, t, line, failures, env, mask, killed, crashes, history>>

Skip ==
  /\ test \in Tests /\ ~Selected(test)
  /\ Goto("test", "test")
  /\ test' = test + 1
  /\ UNCHANGED <<selected, t, line, failures, executed, env, mask, killed, crashes,
                 history>>

\* Mistake: the line of the last ASSERT is left from the test before.
BeginKeepingLine ==
  /\ test \in Tests /\ Selected(test)
  /\ Goto("test", "setup")
  /\ t' = 0 /\ executed' = executed + 1
  /\ env' = mask
  /\ UNCHANGED <<selected, test, line, failures, mask, killed, crashes, history>>

\* Up to sigsetjmp, which saves the mask.
Begin ==
  /\ test \in Tests /\ Selected(test)
  /\ Goto("test", "setup")
  /\ t' = 0 /\ executed' = executed + 1 /\ line' = 0
  /\ env' = mask
  /\ UNCHANGED <<selected, test, failures, mask, killed, crashes, history>>

Setup ==
  /\ Goto("setup", "body")
  /\ t' = test
  /\ setUp' = [setUp EXCEPT ![test] = @ + 1]
  /\ UNCHANGED <<selected, test, line, failures, executed, env, mask, killed, crashes,
                 reported, verdicts, cleaned, lost>>

\* ASSERT of a condition that is true.
Assert ==
  /\ Goto("body", "body")
  /\ line' = test
  /\ UNCHANGED <<selected, test, t, failures, executed, env, mask, killed, crashes,
                 history>>

\* ASSERT of one that is false; siglongjmp restores the mask.
AssertFails ==
  /\ Goto("body", "failed")
  /\ line' = test
  /\ mask' = env
  /\ UNCHANGED <<selected, test, t, failures, executed, env, killed, crashes, history>>

Fail ==
  /\ Goto("body", "failed")
  /\ mask' = env
  /\ UNCHANGED <<selected, test, t, line, failures, executed, env, killed, crashes,
                 history>>

Verdict(v) == verdicts' = [verdicts EXCEPT ![test][v] = @ + 1]

\* The test function returns, and the callback is called with 1.
Passed ==
  /\ Goto("body", "told")
  /\ Verdict("passed")
  /\ UNCHANGED <<tvars, killed, crashes, reported, objects>>

\* The other branch of sigsetjmp, up to the call with 0.
Failed ==
  /\ Goto("failed", "counted")
  /\ failures' = failures + 1
  /\ Verdict("failed")
  /\ UNCHANGED <<selected, test, t, line, executed, env, mask, killed, crashes, reported,
                 objects>>

\* The callback returns.
Told ==
  /\ Goto("told", "cleanup")
  /\ UNCHANGED <<tvars, killed, crashes, history>>

\* Mistake: a failed test is not cleaned up.
ReportUncleaned ==
  /\ Goto("counted", "test")
  /\ test' = test + 1
  /\ UNCHANGED <<selected, t, line, failures, executed, env, mask, killed, crashes,
                 history>>

Report ==
  /\ Goto("counted", "cleanup")
  /\ UNCHANGED <<tvars, killed, crashes, history>>

\* cleanup is called when setup has returned an object.
Cleanup ==
  /\ t # 0
  /\ Goto("cleanup", "cleaning")
  /\ cleaned' = [cleaned EXCEPT ![test] = @ + 1]
  /\ UNCHANGED <<tvars, killed, crashes, reported, verdicts, setUp, lost>>

\* The end of TEST, when cleanup returns or there was nothing to clean up.
End ==
  /\ \/ Goto("cleaning", "test")
     \/ t = 0 /\ Goto("cleanup", "test")
  /\ test' = test + 1
  /\ UNCHANGED <<selected, t, line, failures, executed, env, mask, killed, crashes,
                 history>>

TestFini ==
  /\ test > NumTests
  /\ Goto("test", "done")
  /\ UNCHANGED <<tvars, killed, crashes, history>>
-----------------------------------------------------------------------------
\* Mistake: sigsetjmp does not save the mask, and the handler's mask stays.
JumpUnmasked(s) == mask' = mask \cup {s}

\* siglongjmp out of the handler, for which s was blocked, restores the mask.
Jump(s) == mask' = env

\* A function that TEST calls crashes.  The handler reports the line of the last
\* ASSERT and jumps back to TEST; a signal that is blocked kills the program.
Crash(s) ==
  /\ pc \in {"setup", "body", "told", "counted", "cleaning"}
  /\ ~killed
  /\ crashes < MaxCrashes /\ crashes' = crashes + 1
  /\ IF s \in mask
       THEN /\ killed' = TRUE
            /\ UNCHANGED <<pc, mask, reported>>
       ELSE /\ pc' = "failed"
            /\ Jump(s)
            /\ reported' = reported \cup {<<test, line>>}
            /\ UNCHANGED killed
  /\ lost' = IF pc = "cleaning" THEN [lost EXCEPT ![test] = @ + 1] ELSE lost
  /\ UNCHANGED <<selected, test, t, line, failures, executed, env, verdicts, setUp,
                 cleaned>>
-----------------------------------------------------------------------------
Next ==
  \/ TestInit \/ Skip \/ Begin \/ Setup \/ Assert \/ AssertFails \/ Fail
  \/ Passed \/ Failed \/ Told \/ Report \/ Cleanup \/ End \/ TestFini
  \/ \E s \in Signals : Crash(s)

Spec == Init /\ [][Next]_vars
-----------------------------------------------------------------------------
Over(k) == k < test \/ pc = "done"

(* No crash in a test ends the program, not even a second one of the same kind: *)
(* the jump out of the handler unblocks the signal.                            *)
EveryCrashCaught == ~killed

(* A message about a signal names an ASSERT of the test that crashed, or none:  *)
(* never one that an earlier test has reached.                                 *)
LineIsOwn == \A r \in reported : r[2] \in {0, r[1]}

(* What the program says at its end is true, whatever crashed: the tests it     *)
(* counts as executed are those selected, each has been reported, and it says  *)
(* "All tests passed!" and exits with 0 exactly when no test was ever reported *)
(* as failed.                                                                  *)
SummaryIsTrue ==
  pc = "done" =>
    /\ executed = Cardinality({k \in Tests : Selected(k)})
    /\ \A k \in Tests : Selected(k) <=> verdicts[k].passed + verdicts[k].failed > 0
    /\ failures = 0 <=> \A k \in Tests : verdicts[k].failed = 0

(* "The parameters are the number of tests passed and the total number of tests *)
(* executed" (tctest.h:62-65): executed - failures is the number of tests that *)
(* were reported as passed and never as failed.                                *)
NumPassedIsTrue ==
  pc = "done" =>
    executed - failures
      = Cardinality({k \in Tests : verdicts[k].passed > 0 /\ verdicts[k].failed = 0})

(* cleanup is called for each object that setup has returned, whatever way the  *)
(* test was left, and never again unless the call before it has crashed.       *)
CleanedOnce ==
  \A k \in Tests :
    /\ cleaned[k] <= setUp[k] + lost[k]
    /\ Over(k) => cleaned[k] = setUp[k] + lost[k]
=============================================================================
