---------------------------- MODULE TcTestProofs ----------------------------
(* Proofs about TcTest, for any number of tests and of signals. *)
EXTENDS TcTest, FiniteSetTheorems, TLAPS

\* Between sigsetjmp and the end of a test.
InTest == pc \in {"setup", "body", "told", "failed", "counted", "cleanup", "cleaning"}

\* The types of what the proofs are about.
Types ==
  /\ selected \in Tests \cup {0}
  /\ test \in 1..(NumTests + 1)
  /\ failures \in Nat /\ executed \in Nat
  /\ verdicts \in [Tests -> [passed : Nat, failed : Nat]]
  /\ setUp \in [Tests -> Nat] /\ cleaned \in [Tests -> Nat] /\ lost \in [Tests -> Nat]
  /\ pc \in {"init", "test", "done"} \/ (InTest /\ test \in Tests /\ Selected(test))
  /\ pc = "done" => test = NumTests + 1

\* No signal is ever blocked when a test runs.
Unmasked == ~killed /\ mask = {} /\ env = {}

Lines ==
  /\ InTest => line \in {0, test}
  /\ \A r \in reported : r[2] \in {0, r[1]}

\* The object of the test in progress is there exactly after its setup, and of the
\* calls of cleanup all have crashed but for the one in progress.
Objects ==
  /\ \A k \in Tests : k < test => cleaned[k] = setUp[k] + lost[k]
  /\ \A k \in Tests : k > test \/ (k = test /\ ~InTest) =>
       setUp[k] = 0 /\ cleaned[k] = 0 /\ lost[k] = 0
  /\ InTest =>
       /\ setUp[test] = (IF t = 0 THEN 0 ELSE 1)
       /\ cleaned[test] = lost[test] + (IF pc = "cleaning" THEN 1 ELSE 0)
  /\ pc = "setup" => t = 0
  /\ pc = "cleaning" => t # 0

IInv == Types /\ Unmasked /\ Lines /\ Objects

LEMMA InitInv == Init => IInv
<1> SUFFICES ASSUME Init PROVE IInv
  OBVIOUS
<1>1. Types
  BY TestAssumption DEF Init, Types, Tests, InTest
<1>2. Unmasked /\ Lines /\ Objects
  BY TestAssumption DEF Init, Unmasked, Lines, Objects, InTest, Tests
<1> QED
  BY <1>1, <1>2 DEF IInv

LEMMA TypesNext == Types /\ Unmasked /\ [Next]_vars => Types'
<1> SUFFICES ASSUME Types, Unmasked, [Next]_vars PROVE Types'
  OBVIOUS
<1>0. /\ NumTests \in Nat /\ test \in 1..(NumTests + 1) /\ selected \in Tests \cup {0}
      /\ verdicts \in [Tests -> [passed : Nat, failed : Nat]]
      /\ setUp \in [Tests -> Nat] /\ cleaned \in [Tests -> Nat] /\ lost \in [Tests -> Nat]
      /\ failures \in Nat /\ executed \in Nat
      /\ InTest => test \in Tests /\ Selected(test)
      /\ test \in Tests => test + 1 \in 1..(NumTests + 1)
  <2>1. InTest => test \in Tests /\ Selected(test)
    BY DEF Types, InTest
  <2>2. test \in Tests => test + 1 \in 1..(NumTests + 1)
    BY TestAssumption DEF Tests
  <2> QED
    BY <2>1, <2>2, TestAssumption DEF Types
\* What most steps within a test do.
<1>a. ASSUME InTest, InTest', UNCHANGED <<selected, test, executed>>,
             failures' \in Nat, verdicts' \in [Tests -> [passed : Nat, failed : Nat]],
             setUp' \in [Tests -> Nat], cleaned' \in [Tests -> Nat],
             lost' \in [Tests -> Nat]
      PROVE  Types'
  <2>1. Selected(test)' /\ test \in Tests
    BY <1>0, <1>a DEF Selected
  <2>2. pc' # "done"
    BY <1>a DEF InTest
  <2> QED
    BY <1>0, <1>a, <2>1, <2>2 DEF Types
<1>1. CASE TestInit \/ TestFini
  <2>1. /\ pc' \in {"test", "done"} /\ (pc' = "done" => test > NumTests)
        /\ UNCHANGED <<selected, test, executed, failures, verdicts, objects>>
    BY <1>1 DEF TestInit, TestFini, Goto, tvars, history
  <2>2. test > NumTests => test = NumTests + 1
    BY <1>0
  <2> QED
    BY <1>0, <2>1, <2>2 DEF Types, objects
<1>2. CASE Skip \/ End
  <2>1. /\ pc' = "test" /\ test \in Tests /\ test' = test + 1
        /\ UNCHANGED <<selected, executed, failures, verdicts, objects>>
    BY <1>0, <1>2 DEF Skip, End, Goto, history, InTest
  <2> QED
    BY <1>0, <2>1 DEF Types, objects
<1>3. CASE Begin
  BY <1>0, <1>3 DEF Begin, Types, InTest, Tests, Goto, history, objects, Selected
<1>4. CASE Setup
  <2>1. /\ InTest /\ InTest' /\ setUp' = [setUp EXCEPT ![test] = @ + 1]
        /\ UNCHANGED <<selected, test, executed, failures, verdicts, cleaned, lost>>
    BY <1>4 DEF Setup, Goto, InTest
  <2>2. setUp[test] + 1 \in Nat
    BY <1>0, <2>1
  <2>3. setUp' \in [Tests -> Nat]
    BY <1>0, <2>1, <2>2
  <2> QED
    BY <1>0, <1>a, <2>1, <2>3
<1>5. CASE Assert \/ AssertFails \/ Fail \/ Told \/ Report
  <2>1. /\ InTest /\ InTest'
        /\ UNCHANGED <<selected, test, executed, failures, verdicts, setUp, cleaned, lost>>
    BY <1>0, <1>5 DEF Assert, AssertFails, Fail, Told, Report, Goto, InTest, tvars,
                      history, objects
  <2> QED
    BY <1>0, <1>a, <2>1
<1>6. CASE Passed \/ Failed
  <2>1. /\ InTest /\ InTest' /\ \E v \in {"passed", "failed"} : Verdict(v)
        /\ failures' \in Nat
        /\ UNCHANGED <<selected, test, executed, setUp, cleaned, lost>>
    BY <1>0, <1>6 DEF Passed, Failed, Goto, InTest, tvars, objects
  <2>2. PICK v \in {"passed", "failed"} :
          verdicts' = [verdicts EXCEPT ![test] = [verdicts[test] EXCEPT ![v] = @ + 1]]
    BY <2>1 DEF Verdict
  <2>3. verdicts[test] \in [passed : Nat, failed : Nat]
    BY <1>0, <2>1
  <2>4. [verdicts[test] EXCEPT ![v] = @ + 1] \in [passed : Nat, failed : Nat]
    BY <2>3
  <2>5. verdicts' \in [Tests -> [passed : Nat, failed : Nat]]
    BY <1>0, <2>2, <2>4
  <2> QED
    BY <1>0, <1>a, <2>1, <2>5
<1>7. CASE Cleanup
  <2>1. /\ InTest /\ InTest' /\ cleaned' = [cleaned EXCEPT ![test] = @ + 1]
        /\ UNCHANGED <<selected, test, executed, failures, verdicts, setUp, lost>>
    BY <1>7 DEF Cleanup, Goto, InTest, tvars
  <2>2. cleaned[test] + 1 \in Nat
    BY <1>0, <2>1
  <2>3. cleaned' \in [Tests -> Nat]
    BY <1>0, <2>1, <2>2
  <2> QED
    BY <1>0, <1>a, <2>1, <2>3
<1>8. ASSUME NEW s \in Signals, Crash(s) PROVE Types'
  <2>1. /\ InTest /\ InTest'
        /\ lost' = IF pc = "cleaning" THEN [lost EXCEPT ![test] = @ + 1] ELSE lost
        /\ UNCHANGED <<selected, test, executed, failures, verdicts, setUp, cleaned>>
    BY <1>8 DEF Crash, Unmasked, InTest
  <2>2. lost[test] + 1 \in Nat
    BY <1>0, <2>1
  <2>3. lost' \in [Tests -> Nat]
    BY <1>0, <2>1, <2>2
  <2> QED
    BY <1>0, <1>a, <2>1, <2>3
<1>9. CASE UNCHANGED vars
  BY <1>0, <1>9 DEF vars, tvars, history, objects, Types, InTest, Selected
<1> QED
  BY <1>1, <1>2, <1>3, <1>4, <1>5, <1>6, <1>7, <1>8, <1>9 DEF Next

LEMMA UnmaskedNext == Unmasked /\ [Next]_vars => Unmasked'
BY DEF Unmasked, Next, vars, tvars, TestInit, Skip, Begin, Setup, Assert, AssertFails,
       Fail, Passed, Failed, Told, Report, Cleanup, End, TestFini, Crash, Jump

LEMMA LinesNext == Types /\ Unmasked /\ Lines /\ [Next]_vars => Lines'
<1> SUFFICES ASSUME Types, Unmasked, Lines, [Next]_vars PROVE Lines'
  OBVIOUS
<1> USE DEF Lines, InTest, Goto, tvars, history
<1>1. CASE TestInit \/ Skip \/ TestFini \/ End
  BY <1>1 DEF TestInit, Skip, TestFini, End
<1>2. CASE Begin \/ Setup
  BY <1>2 DEF Begin, Setup
<1>3. CASE Assert \/ AssertFails \/ Fail
  BY <1>3 DEF Assert, AssertFails, Fail
<1>4. CASE Passed \/ Failed \/ Told \/ Report \/ Cleanup
  BY <1>4 DEF Passed, Failed, Told, Report, Cleanup
<1>5. ASSUME NEW s \in Signals, Crash(s) PROVE Lines'
  <2>1. /\ line \in {0, test} /\ UNCHANGED <<line, test>>
        /\ reported' = reported \cup {<<test, line>>}
    BY <1>5 DEF Crash, Unmasked
  <2> QED
    BY <2>1
<1>6. CASE UNCHANGED vars
  BY <1>6 DEF vars
<1> QED
  BY <1>1, <1>2, <1>3, <1>4, <1>5, <1>6 DEF Next

LEMMA ObjectsNext == Types /\ Unmasked /\ Objects /\ [Next]_vars => Objects'
<1> SUFFICES ASSUME Types, Unmasked, Objects, [Next]_vars PROVE Objects'
  OBVIOUS
<1>0. /\ test \in 1..(NumTests + 1) /\ NumTests \in Nat
      /\ setUp \in [Tests -> Nat] /\ cleaned \in [Tests -> Nat] /\ lost \in [Tests -> Nat]
      /\ \A k \in Tests : k \in Nat
  <2>1. \A k \in Tests : k \in Nat
    BY DEF Tests
  <2> QED
    BY <2>1, TestAssumption DEF Types
<1>1. CASE TestInit \/ TestFini
  BY <1>0, <1>1 DEF Objects, InTest, Goto, tvars, history, objects, TestInit, TestFini
<1>2. CASE Skip \/ End
  <2>1. /\ test \in Tests /\ pc' = "test" /\ test' = test + 1
        /\ UNCHANGED <<setUp, cleaned, lost>>
    BY <1>2 DEF Skip, End, Goto, history, objects, Types, InTest
  <2>2. cleaned[test] = setUp[test] + lost[test]
    <3>1. CASE Skip
      <4>1. ~InTest
        BY <3>1 DEF Skip, Goto, InTest
      <4> QED
        BY <2>1, <4>1 DEF Objects
    <3>2. CASE End
      <4>1. pc = "cleaning" \/ (pc = "cleanup" /\ t = 0)
        BY <3>2 DEF End, Goto
      <4> QED
        BY <1>0, <2>1, <4>1 DEF Objects, InTest
    <3> QED
      BY <1>2, <3>1, <3>2
  <2>3. \A k \in Tests : (k < test' => k < test \/ k = test) /\ (k >= test' => k > test)
    BY <1>0, <2>1
  <2> QED
    BY <1>0, <2>1, <2>2, <2>3 DEF Objects, InTest
<1>3. CASE Begin
  <2>1. /\ test \in Tests /\ pc = "test" /\ pc' = "setup" /\ t' = 0
        /\ UNCHANGED <<setUp, cleaned, lost, test>>
    BY <1>3 DEF Begin, Goto, history, objects
  <2> QED
    BY <1>0, <2>1 DEF Objects, InTest
<1>4. CASE Setup
  <2>1. /\ pc = "setup" /\ pc' = "body" /\ t' = test /\ test \in Tests
        /\ setUp' = [setUp EXCEPT ![test] = @ + 1] /\ UNCHANGED <<cleaned, lost, test>>
    BY <1>4 DEF Setup, Goto, Types, InTest
  <2>2. setUp[test] = 0 /\ test # 0
    BY <1>0, <2>1 DEF Objects, InTest, Tests
  <2>3. setUp'[test] = 1 /\ \A k \in Tests : k # test => setUp'[k] = setUp[k]
    BY <1>0, <2>1, <2>2
  <2> QED
    BY <1>0, <2>1, <2>2, <2>3 DEF Objects, InTest
<1>5. CASE Assert \/ AssertFails \/ Fail \/ Passed \/ Failed \/ Told \/ Report
  <2>1. /\ InTest /\ InTest' /\ pc # "cleaning" /\ pc' \notin {"setup", "cleaning"}
        /\ UNCHANGED <<setUp, cleaned, lost, test, t>>
    BY <1>5 DEF Assert, AssertFails, Fail, Passed, Failed, Told, Report, Goto, InTest,
                tvars, history, objects
  <2> QED
    BY <2>1 DEF Objects
<1>6. CASE Cleanup
  <2>1. /\ pc = "cleanup" /\ pc' = "cleaning" /\ test \in Tests /\ t # 0
        /\ cleaned' = [cleaned EXCEPT ![test] = @ + 1]
        /\ UNCHANGED <<setUp, lost, test, t>>
    BY <1>6 DEF Cleanup, Goto, Types, InTest, tvars
  <2>2. cleaned[test] = lost[test]
    BY <1>0, <2>1 DEF Objects, InTest
  <2>3. cleaned'[test] = lost[test] + 1 /\ \A k \in Tests : k # test => cleaned'[k] = cleaned[k]
    BY <1>0, <2>1, <2>2
  <2> QED
    BY <1>0, <2>1, <2>3 DEF Objects, InTest
<1>7. ASSUME NEW s \in Signals, Crash(s) PROVE Objects'
  <2>1. /\ InTest /\ pc' = "failed" /\ test \in Tests
        /\ lost' = IF pc = "cleaning" THEN [lost EXCEPT ![test] = @ + 1] ELSE lost
        /\ UNCHANGED <<setUp, cleaned, test, t>>
    BY <1>7 DEF Crash, Unmasked, InTest, Types
  <2>2. /\ lost'[test] = cleaned[test]
        /\ \A k \in Tests : k # test => lost'[k] = lost[k]
    BY <1>0, <2>1 DEF Objects
  <2> QED
    BY <1>0, <2>1, <2>2 DEF Objects, InTest
<1>8. CASE UNCHANGED vars
  BY <1>8 DEF vars, tvars, history, objects, Objects, InTest
<1> QED
  BY <1>1, <1>2, <1>3, <1>4, <1>5, <1>6, <1>7, <1>8 DEF Next

LEMMA NextInv == IInv /\ [Next]_vars => IInv'
BY TypesNext, UnmaskedNext, LinesNext, ObjectsNext DEF IInv

LEMMA Invariance == Spec => []IInv
<1> QED
  BY InitInv, NextInv, PTL DEF Spec

(* No crash in a test ends the program (tctest.h:77, tctest.c:126).            *)
THEOREM CrashesAreCaught == Spec => []EveryCrashCaught
<1>1. IInv => EveryCrashCaught
  BY DEF IInv, Unmasked, EveryCrashCaught
<1> QED
  BY <1>1, Invariance, PTL

(* A message about a signal names a line of the test that crashed              *)
(* (tctest.h:76, 99).                                                          *)
THEOREM LinesAreOwn == Spec => []LineIsOwn
<1>1. IInv => LineIsOwn
  BY DEF IInv, Lines, LineIsOwn
<1> QED
  BY <1>1, Invariance, PTL

(* cleanup is called for what setup has returned (tctest.h:78, 92-94), and      *)
(* again only when the call before has crashed, whatever sequence of crashes   *)
(* has left the test.                                                          *)
THEOREM ObjectsAreCleaned == Spec => []CleanedOnce
<1>1. IInv => CleanedOnce
  <2> SUFFICES ASSUME IInv, NEW k \in Tests
               PROVE  /\ cleaned[k] <= setUp[k] + lost[k]
                      /\ Over(k) => cleaned[k] = setUp[k] + lost[k]
    BY DEF CleanedOnce
  <2>0. /\ k \in 1..NumTests /\ test \in 1..(NumTests + 1) /\ NumTests \in Nat
        /\ setUp[k] \in Nat /\ cleaned[k] \in Nat /\ lost[k] \in Nat
    BY TestAssumption DEF IInv, Types, Tests
  <2>1. Over(k) => k < test
    BY <2>0 DEF IInv, Types, Over
  <2>2. cleaned[k] <= setUp[k] + lost[k]
    BY <2>0 DEF IInv, Objects, InTest
  <2> QED
    BY <2>1, <2>2 DEF IInv, Objects
<1> QED
  BY <1>1, Invariance, PTL
-----------------------------------------------------------------------------
\* The tests that have been counted as executed.
Begun == {k \in Tests : Selected(k) /\ (k < test \/ (k = test /\ InTest))}

Reported(k) == verdicts[k].passed + verdicts[k].failed > 0

Totals ==
  /\ \A k \in Tests :
       k > test \/ (k = test /\ pc \in {"init", "test"}) => ~Reported(k)
  /\ \A k \in Tests : k < test => (Selected(k) <=> Reported(k))
  /\ pc \in {"told", "counted", "cleanup", "cleaning"} => Reported(test)
  /\ failures = 0 <=> \A k \in Tests : verdicts[k].failed = 0
  /\ executed = Cardinality(Begun)

LEMMA TotalsInit == Init => Totals
<1> SUFFICES ASSUME Init PROVE Totals
  OBVIOUS
<1>1. /\ pc = "init" /\ test = 1 /\ failures = 0 /\ executed = 0
      /\ verdicts = [k \in Tests |-> [passed |-> 0, failed |-> 0]]
  BY DEF Init
<1>2. \A k \in Tests : ~(k < test) /\ ~Reported(k) /\ verdicts[k].failed = 0
  BY <1>1 DEF Tests, Reported
<1>3. Begun = {} /\ Cardinality({}) = 0
  BY <1>1, <1>2, FS_EmptySet DEF Begun, InTest
<1> QED
  BY <1>1, <1>2, <1>3 DEF Totals

LEMMA BegunFinite == IsFiniteSet(Begun)
<1>1. IsFiniteSet(Tests) /\ Begun \subseteq Tests
  BY TestAssumption, FS_Interval DEF Tests, Begun
<1> QED
  BY <1>1, FS_Subset

LEMMA TotalsNext == IInv /\ Totals /\ [Next]_vars => Totals'
<1> SUFFICES ASSUME IInv, Totals, [Next]_vars PROVE Totals'
  OBVIOUS
<1>0. /\ NumTests \in Nat /\ test \in 1..(NumTests + 1) /\ \A k \in Tests : k \in Nat
      /\ verdicts \in [Tests -> [passed : Nat, failed : Nat]]
      /\ failures \in Nat /\ ~killed /\ mask = {}
      /\ InTest => test \in Tests /\ Selected(test)
  <2>1. InTest => test \in Tests /\ Selected(test)
    BY DEF IInv, Types, InTest
  <2>2. \A k \in Tests : k \in Nat
    BY DEF Tests
  <2> QED
    BY <2>1, <2>2, TestAssumption DEF IInv, Types, Unmasked
\* A step that gives no verdict and neither begins nor ends a test.
<1>a. ASSUME UNCHANGED <<selected, test, executed, verdicts, failures>>,
             InTest' <=> InTest, pc' \in {"init", "test"} => ~InTest,
             pc = "init" \/ pc = "test" \/ InTest,
             pc' \in {"told", "counted", "cleanup", "cleaning"} => Reported(test)
      PROVE  Totals'
  <2>1. Begun' = Begun /\ \A k : (Selected(k)' <=> Selected(k)) /\ (Reported(k)' <=> Reported(k))
    BY <1>a DEF Begun, Selected, Reported
  <2>2. \A k \in Tests : k = test /\ pc' \in {"init", "test"} => ~Reported(k)
    BY <1>a DEF Totals
  <2> QED
    BY <1>a, <2>1, <2>2 DEF Totals
\* The last step of a test, or one past it.
<1>b. ASSUME test \in Tests, test' = test + 1, pc' = "test",
             UNCHANGED <<selected, executed, verdicts, failures>>,
             Selected(test) <=> InTest, Selected(test) <=> Reported(test)
      PROVE  Totals'
  <2>1. \A k : (Selected(k)' <=> Selected(k)) /\ (Reported(k)' <=> Reported(k))
    BY <1>b DEF Selected, Reported
  <2>2. \A k \in Tests : (k < test' <=> k < test \/ k = test) /\ (k >= test' => k > test)
    BY <1>0, <1>b
  <2>3. Begun' = Begun
    BY <1>b, <2>1, <2>2 DEF Begun, InTest
  <2>4. \A k \in Tests : k < test' => (Selected(k) <=> Reported(k))
    BY <1>0, <1>b, <2>2 DEF Totals
  <2>5. \A k \in Tests : k >= test' => ~Reported(k)
    BY <1>0, <1>b, <2>2 DEF Totals
  <2>6. \A k \in Tests : k > test' \/ k = test' => k >= test'
    BY <1>0, <1>b
  <2> QED
    BY <1>b, <2>1, <2>3, <2>4, <2>5, <2>6 DEF Totals
\* A step that gives a verdict.
<1>c. ASSUME NEW v \in {"passed", "failed"}, InTest, InTest', Verdict(v),
             pc' \in {"told", "counted"}, UNCHANGED <<selected, test, executed>>,
             failures' = IF v = "failed" THEN failures + 1 ELSE failures
      PROVE  Totals'
  <2>1. verdicts' = [verdicts EXCEPT ![test] = [verdicts[test] EXCEPT ![v] = @ + 1]]
    BY <1>c DEF Verdict
  <2>2. test \in Tests /\ verdicts[test] \in [passed : Nat, failed : Nat]
    BY <1>0, <1>c
  <2>3. /\ verdicts'[test] = [verdicts[test] EXCEPT ![v] = @ + 1]
        /\ \A k \in Tests : k # test => verdicts'[k] = verdicts[k]
    BY <1>0, <2>1, <2>2
  <2>4. Reported(test)' /\ verdicts'[test].failed
          = (IF v = "failed" THEN verdicts[test].failed + 1 ELSE verdicts[test].failed)
    BY <1>c, <2>2, <2>3 DEF Reported
  <2>5. /\ \A k \in Tests : k # test => (Reported(k)' <=> Reported(k))
        /\ \A k : Selected(k)' <=> Selected(k)
    BY <1>c, <2>3 DEF Reported, Selected
  <2>6. failures' = 0 <=> \A k \in Tests : verdicts'[k].failed = 0
    <3>1. CASE v = "failed"
      <4>1. failures' # 0 /\ verdicts'[test].failed # 0
        BY <1>0, <1>c, <2>2, <2>4, <3>1
      <4> QED
        BY <2>2, <4>1
    <3>2. CASE v # "failed"
      <4>1. \A k \in Tests : verdicts'[k].failed = verdicts[k].failed
        BY <2>3, <2>4, <3>2
      <4> QED
        BY <1>c, <3>2, <4>1 DEF Totals
    <3> QED
      BY <3>1, <3>2
  <2>7. Begun' = Begun
    BY <1>c, <2>5 DEF Begun
  <2>8. \A k \in Tests : (k > test \/ k < test) => k # test
    BY <1>0
  <2> QED
    BY <1>c, <2>4, <2>5, <2>6, <2>7, <2>8 DEF Totals
<1>1. CASE TestInit \/ TestFini
  <2>1. /\ pc \in {"init", "test"} /\ pc' \in {"test", "done"}
        /\ UNCHANGED <<selected, test, executed, verdicts, failures>>
    BY <1>1 DEF TestInit, TestFini, Goto, tvars, history
  <2> QED
    BY <1>a, <2>1 DEF InTest
<1>2. CASE Skip
  <2>1. /\ test \in Tests /\ test' = test + 1 /\ pc = "test" /\ pc' = "test"
        /\ ~Selected(test) /\ UNCHANGED <<selected, executed, verdicts, failures>>
    BY <1>2 DEF Skip, Goto, history
  <2>2. ~Reported(test) /\ ~InTest
    BY <2>1 DEF Totals, InTest
  <2> QED
    BY <1>b, <2>1, <2>2
<1>3. CASE Begin
  <2>1. /\ pc = "test" /\ pc' = "setup" /\ executed' = executed + 1
        /\ test \in Tests /\ Selected(test)
        /\ UNCHANGED <<selected, test, verdicts, failures>>
    BY <1>3 DEF Begin, Goto, history
  <2>2. \A k : (Selected(k)' <=> Selected(k)) /\ (Reported(k)' <=> Reported(k))
    BY <2>1 DEF Selected, Reported
  <2>3. Begun' = Begun \cup {test} /\ test \notin Begun
    BY <1>0, <2>1, <2>2 DEF Begun, InTest
  <2>4. Cardinality(Begun') = Cardinality(Begun) + 1
    BY <2>3, BegunFinite, FS_AddElement
  <2> QED
    BY <2>1, <2>2, <2>4 DEF Totals
<1>4. CASE Setup \/ Assert \/ AssertFails \/ Fail \/ Told \/ Report \/ Cleanup
  <2>1. /\ InTest /\ InTest'
        /\ pc' \in {"cleanup", "cleaning"} => pc \in {"told", "counted", "cleanup"}
        /\ pc' \notin {"told", "counted"}
        /\ UNCHANGED <<selected, test, executed, verdicts, failures>>
    BY <1>4 DEF Setup, Assert, AssertFails, Fail, Told, Report, Cleanup, Goto, InTest,
                tvars, history
  <2>2. pc' \in {"told", "counted", "cleanup", "cleaning"} => Reported(test)
    BY <2>1 DEF Totals
  <2> QED
    BY <1>a, <2>1, <2>2 DEF InTest
<1>5. CASE Passed
  <2>1. /\ InTest /\ InTest' /\ pc' = "told" /\ Verdict("passed")
        /\ UNCHANGED <<selected, test, executed, failures>>
    BY <1>5 DEF Passed, Goto, tvars, InTest
  <2> QED
    BY <1>c, <2>1
<1>6. CASE Failed
  <2>1. /\ InTest /\ InTest' /\ pc' = "counted" /\ Verdict("failed")
        /\ failures' = failures + 1 /\ UNCHANGED <<selected, test, executed>>
    BY <1>6 DEF Failed, Goto, InTest
  <2> QED
    BY <1>c, <2>1
<1>7. CASE End
  <2>1. /\ test' = test + 1 /\ pc \in {"cleanup", "cleaning"} /\ pc' = "test"
        /\ UNCHANGED <<selected, executed, verdicts, failures>>
    BY <1>7 DEF End, Goto, history
  <2>2. InTest /\ Reported(test)
    BY <2>1 DEF Totals, InTest
  <2> QED
    BY <1>0, <1>b, <2>1, <2>2
<1>8. ASSUME NEW s \in Signals, Crash(s) PROVE Totals'
  <2>1. /\ InTest /\ pc' = "failed"
        /\ UNCHANGED <<selected, test, executed, failures, verdicts>>
    BY <1>0, <1>8 DEF Crash, InTest
  <2> QED
    BY <1>a, <2>1 DEF InTest
<1>9. CASE UNCHANGED vars
  BY <1>9 DEF vars, tvars, history, Totals, Begun, Reported, Selected, InTest
<1> QED
  BY <1>1, <1>2, <1>3, <1>4, <1>5, <1>6, <1>7, <1>8, <1>9 DEF Next

(* What TEST_FINI says (tctest.h:117-125): the number of tests executed, that   *)
(* each has been reported, and whether all of them passed, whatever crashed.   *)
THEOREM SummaryIsRight == Spec => []SummaryIsTrue
<1>1. Spec => [](IInv /\ Totals)
  <2>1. Init => IInv /\ Totals
    BY InitInv, TotalsInit
  <2>2. IInv /\ Totals /\ [Next]_vars => (IInv /\ Totals)'
    BY NextInv, TotalsNext
  <2> QED
    BY <2>1, <2>2, PTL DEF Spec
<1>2. IInv /\ Totals => SummaryIsTrue
  <2> SUFFICES ASSUME IInv, Totals, pc = "done" PROVE SummaryIsTrue
    BY DEF SummaryIsTrue
  <2>1. \A k \in Tests : k < test
    BY TestAssumption DEF IInv, Types, Tests
  <2>2. Begun = {k \in Tests : Selected(k)}
    BY <2>1 DEF Begun
  <2> QED
    BY <2>1, <2>2 DEF SummaryIsTrue, Totals, Reported
<1> QED
  BY <1>1, <1>2, PTL
=============================================================================
