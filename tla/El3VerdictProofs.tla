------------------------- MODULE El3VerdictProofs ---------------------------
(***************************************************************************)
(* The verdicts of the tests that access memory from EL3, for scripts of   *)
(* any length: a pass means that the machine protected what the test       *)
(* accessed, a failure that it did not.                                    *)
(***************************************************************************)
EXTENDS El3AccessProofs

-----------------------------------------------------------------------------
(* The verdicts. Two classes of scripts: the tests of stores, which notice  *)
(* whatever a machine does, and the tests in the order of the suite.       *)

\* The steps of rme004 and rme009, and the end of rme021.
StoreSteps == {Smc, Map, Store, PasAccess(Store)}

\* Only those steps. A read the machine refuses without a fault is one that a
\* test, which throws away what it read, cannot tell from one it grants.
StoresOnly(s) ==
  /\ \A n \in 1 .. Len(s.script) : \A i \in 1 .. Len(s.script[n].body) :
       s.script[n].body[i] \in StoreSteps
  /\ "quiet" \notin s.machine.match

\* The store was not refused by a fault, and the test is about to see it.
Due == /\ Now = Store /\ ~generated
       /\ \/ cpu \in {"acs_end", "judge"}
          \/ cpu = "vector" /\ elr = "mut" /\ esr = "abort"

\* The suite will not come to another verdict.
Doomed == \/ cpu \in {"dead", "astray"}
          \/ cpu \in {"vector", "firmware"} /\ esr # "smc" /\ ~expected

\* A fault is on record only until the test that expected it has looked.
StoreFlags ==
  /\ fails \in Nat /\ ~filter /\ generated \in BOOLEAN
  /\ generated => cpu \in {"acs_end", "judge"} /\ Now = Store
  /\ cpu \in {"el2", "vector", "str", "read", "acs_end", "firmware", "judge", "dead", "astray"}
  /\ cpu # "vector" => ~mut
  /\ cpu = "str" => Now = Store /\ expected
  /\ cpu = "read" => Now = Plain /\ ~expected
  /\ cpu = "acs_end" => Now.kind = "access"
  /\ cpu = "firmware" => ~expected
  /\ cpu = "vector" =>
       \/ elr = "smc" /\ esr = "smc" /\ (mut <=> Now.kind = "access") /\ (mut => expected = Now.expects)
       \/ elr = "mut" /\ esr \in {"gpf", "abort"} /\ ~mut /\ Now.kind = "access" /\ expected = Now.expects

\* What the machine did wrong in this test has been counted, or is about to be.
BlameInv == breach \/ blind => fails > 0 \/ Due \/ Doomed

StoreInv == StoreFlags /\ BlameInv /\ PassMeansProtected

\* Nothing is judged behind the watchdog, which leaves its faults on record,
\* nor the initial data behind the list of accesses, which overwrites it; and a
\* test that waits for other data than it stored counts on a counter that is
\* not initialised either (ls002).
JudgedScripts ==
  \A s \in Scenarios : \A n \in 1 .. Len(s.script) :
    LET body == s.script[n].body
    IN  \A i \in 1 .. Len(body) :
          /\ body[i] = Watchdog => n = Len(s.script) /\ s.script[n].rounds = 1 /\ i = Len(body)
          /\ body[i] = List => \A k \in 1 .. Len(body) : body[k] \in StoreSteps \cup {List}
          /\ body[i] = Marked => s.script[n].garbage

\* On a machine compliant so far no test has counted a failure.
CountFlags ==
  /\ fails = 0 \/ Test.garbage
  /\ cpu = "vector" /\ elr \in {"mut", "watchdog"} => esr = "gpf"
  /\ cpu = "vector" /\ elr = "mut" => Now \in {Store, Filtered, TakenBack}
  /\ generated => \/ Step = Watchdog
                  \/ cpu \in {"acs_end", "judge"} /\ Now \in {Store, Filtered, TakenBack}
  /\ cpu \in {"acs_end", "judge"} /\ Now \in {Store, Filtered} => generated
  /\ data \/ \E k \in 1 .. Len(Test.body) : Test.body[k] = List

\* The first failure that is no accident of the stack is the machine's.
FirstFailure ==
  /\ Len(results) = test - 1
  /\ \A n \in 1 .. Len(results) :
       (\A m \in 1 .. n - 1 : ~results[m].breach) =>
         results[n].pass \/ results[n].breach \/ Script[n].garbage

CountInv ==
  /\ round \in Nat \ {0} /\ fails \in Nat /\ data \in BOOLEAN /\ generated \in BOOLEAN
  /\ test <= Len(Script) + 1
  /\ Compliant /\ Running => CountFlags
  /\ FirstFailure

\* A verdict joins the results, one that a compliant machine did not make a
\* failure.
LEMMA FirstFailureGrows ==
  ASSUME FirstFailure, PlaceInv, NEW pass \in BOOLEAN, Compliant => pass \/ Script[test].garbage,
         results' = Append(results, [pass |-> pass, breach |-> breach, blind |-> blind]),
         test' = test + 1, UNCHANGED Script
  PROVE  FirstFailure'
<1>1. /\ Len(results') = Len(results) + 1 /\ Len(results) \in Nat
      /\ results'[Len(results) + 1] = [pass |-> pass, breach |-> breach, blind |-> blind]
      /\ \A n \in 1 .. Len(results) : results'[n] = results[n]
  BY DEF PlaceInv
<1>2. Len(results) + 1 = test /\ Len(results') = test' - 1 BY <1>1 DEF FirstFailure, PlaceInv
<1>3. ASSUME NEW n \in 1 .. Len(results'), \A m \in 1 .. n - 1 : ~results'[m].breach
      PROVE  results'[n].pass \/ results'[n].breach \/ Script[n].garbage
  <2>1. CASE n \in 1 .. Len(results)
    <3>1. \A m \in 1 .. n - 1 : ~results[m].breach BY <1>1, <1>3, <2>1
    <3> QED BY <1>1, <2>1, <3>1 DEF FirstFailure
  <2>2. CASE n = Len(results) + 1 /\ ~breach
    <3>1. \A m \in 1 .. Len(results) : ~results[m].breach BY <1>1, <1>3, <2>2
    <3>2. pass \/ Script[test].garbage BY <2>2, <3>1 DEF Compliant
    <3>3. results'[n].pass = pass BY <1>1, <2>2
    <3> QED BY Zenon, <1>2, <2>2, <3>2, <3>3
  <2>3. CASE n = Len(results) + 1 /\ breach BY <1>1, <2>3
  <2> QED BY <1>1, <2>1, <2>2, <2>3
<1> QED BY <1>2, <1>3 DEF FirstFailure

-----------------------------------------------------------------------------
(* The tests of stores, on any machine.                                    *)

LEMMA StoreNow ==
  ASSUME OrderlyScripts, StoresOnly(scenario), PlaceInv, Running
  PROVE  /\ Step \in StoreSteps
         /\ Now.kind = "access" => (Now = Store /\ ~Granted) \/ (Now = Plain /\ Granted)
         /\ Now.kind # "access" => Step.kind \in {"smc", "map"}
         /\ Now # Inactive /\ Step.kind # "watchdog"
<1>1. Step \in StoreSteps
  <2>1. scenario \in Scenarios /\ test \in Nat \ {0} /\ test <= Len(scenario.script) /\ Test = scenario.script[test]
    BY DEF PlaceInv, Running, Test, Script
  <2>2. Orderly(scenario) BY <2>1 DEF OrderlyScripts
  <2>3. test \in 1 .. Len(scenario.script) BY <2>1, <2>2 DEF Orderly
  <2>4. op \in 1 .. Len(Test.body) BY StepFacts
  <2> QED BY <2>1, <2>3, <2>4 DEF StoresOnly, Step
<1>2. CASE Step \in {Smc, Map}
  <2>1. Step.kind \in {"smc", "map"} BY <1>2 DEF Smc, Map
  <2>2. Now = Step BY <2>1 DEF Now
  <2> QED BY <1>1, <2>1, <2>2, AccessKinds
<1>3. CASE Step = Store
  <2>1. Step.kind = "access" /\ Step.check = "fault" BY <1>3, AccessKinds
  <2>2. Now = Store BY <1>3, <2>1 DEF Now
  <2>3. ~Granted BY <2>1 DEF Granted
  <2>4. Now.kind = "access" /\ Now # Inactive /\ Step.kind # "watchdog" BY <2>1, <2>2, AccessKinds
  <2> QED BY <1>1, <2>2, <2>3, <2>4
<1>4. CASE Step = PasAccess(Store)
  <2>1. Step.kind = "pas" /\ Step.same = Plain /\ Step.other = Store BY <1>4, AccessKinds DEF PasAccess
  <2>2. Granted <=> round = same BY <2>1 DEF Granted
  <2>3. Now = IF round = same THEN Plain ELSE Store BY <2>1 DEF Now
  <2>4. /\ Plain.kind = "access" /\ Plain # Inactive
        /\ Store.kind = "access" /\ Store # Inactive
    BY AccessKinds
  <2>5. Step.kind # "watchdog" BY <2>1
  <2>6. Now.kind = "access" /\ Now # Inactive BY <2>3, <2>4
  <2>7. (Now = Store /\ ~Granted) \/ (Now = Plain /\ Granted) BY <2>2, <2>3
  <2> QED BY <1>1, <2>5, <2>6, <2>7
<1> QED BY <1>1, <1>2, <1>3, <1>4 DEF StoreSteps

LEMMA StoreFields ==
  /\ Store.filters = FALSE /\ Store.clears = FALSE /\ Plain.filters = FALSE /\ Plain.clears = FALSE
  /\ Store # Plain
BY DEF Store, Plain, Access

\* What the machine may answer: a load it refuses faults, a store it lets
\* through or drops is one the test demands a fault for.
LEMMA StoreAnswers ==
  ASSUME OrderlyScripts, StoresOnly(scenario), PlaceInv, Running, Now.kind = "access", NEW a \in Outcomes
  PROVE  /\ a \in {"gpf", "abort", "quiet", "through"}
         /\ a = "abort" <=> ~mapped
         /\ Now = Plain => (a \notin {"gpf", "abort"} => ~Wrong(a))
         /\ Now = Store => (a = "gpf" => ~Wrong(a))
<1>1. scenario \in Scenarios BY DEF PlaceInv
<1>2. "quiet" \notin scenario.machine.match BY <1>1 DEF StoresOnly
<1>3. scenario.machine.match \subseteq Answers /\ scenario.machine.mismatch \subseteq Answers
  BY <1>1, El3Assumption
<1>4. Now # Inactive /\ ((Now = Store /\ ~Granted) \/ (Now = Plain /\ Granted)) BY StoreNow
<1>5. CASE ~mapped
  BY <1>4, <1>5, StoreFields DEF Outcomes, Wrong
<1>6. CASE mapped
  <2>1. a \in IF Granted THEN scenario.machine.match ELSE scenario.machine.mismatch BY <1>4, <1>6 DEF Outcomes
  <2>2. a \in Answers BY <1>3, <2>1
  <2>3. a # "abort" BY <2>2 DEF Answers
  <2>4. Now = Plain => (a \notin {"gpf", "abort"} => ~Wrong(a))
    BY <1>2, <1>4, <2>1, <2>2, StoreFields, WrongFacts DEF Answers
  <2>5. Now = Store => (a = "gpf" => ~Wrong(a))
    BY <1>4, <2>3, StoreFields, WrongFacts, AccessKinds
  <2> QED BY <1>6, <2>2, <2>3, <2>4, <2>5 DEF Answers
<1> QED BY <1>5, <1>6 DEF PlaceInv

LEMMA WithinFacts ==
  ASSUME Within
  PROVE  UNCHANGED <<Script, Test, Step, Now, Granted, results, scenario, test, op, round>>
BY DEF Within, place, Script, Test, Step, Now, Granted

LEMMA OnlyJudgeMoves ==
  ASSUME Next, ~Judge
  PROVE  Within
<1> USE DEF Within, place, flags, hist
<1>1. CASE CallService \/ AccessMut \/ SetWatchdog BY Zenon, <1>1 DEF CallService, AccessMut, SetWatchdog
<1>2. CASE HandleFault \/ ServeAccess \/ ToFirmware BY <1>2 DEF HandleFault, ServeAccess, ToFirmware
<1>3. CASE Perform \/ DeadLoad \/ Leave BY <1>3 DEF Perform, DeadLoad, Leave
<1>4. CASE Panic \/ ServeMap \/ access_mut BY <1>4 DEF Panic, ServeMap, access_mut
<1>5. CASE val_wd_set_ws0_el3 \/ WatchdogAccess \/ WatchdogEnd
  BY <1>5 DEF val_wd_set_ws0_el3, WatchdogAccess, WatchdogEnd
<1>6. CASE End BY <1>6 DEF End, vars
<1> QED BY <1>1, <1>2, <1>3, <1>4, <1>5, <1>6 DEF Next

LEMMA OneScenario ==
  ASSUME [Next]_vars
  PROVE  scenario' = scenario
<1>1. CASE Judge BY <1>1 DEF Judge, Advance
<1>2. CASE Next /\ ~Judge BY <1>2, OnlyJudgeMoves, WithinFacts
<1>3. CASE UNCHANGED vars BY <1>3 DEF vars, place
<1> QED BY <1>1, <1>2, <1>3

\* The steps in EL3 and the calls of EL2: the flags, and what is still due.
LEMMA StoreWithin ==
  ASSUME OrderlyScripts, StoresOnly(scenario), PlaceInv, StoreInv, Next, Within, ~Judge
  PROVE  StoreFlags' /\ BlameInv'
<1> USE DEF flags, hist
<1>f. StoreFlags /\ BlameInv BY DEF StoreInv
<1>w. UNCHANGED <<Step, Now>> BY WithinFacts
<1>n. Running => /\ Now.kind = "access" => (Now = Store /\ ~Granted) \/ (Now = Plain /\ Granted)
                 /\ Now.kind # "access" => Step.kind \in {"smc", "map"}
                 /\ Step.kind # "watchdog"
  BY StoreNow
<1>r. cpu # "el2" => Running BY DEF PlaceInv
<1>b. expected \in BOOLEAN BY DEF PlaceInv
<1>k. /\ Store.kind = "access" /\ Store.expects = TRUE /\ Plain.kind = "access" /\ Plain.expects = FALSE
      /\ Store.filters = FALSE /\ Plain.filters = FALSE /\ Store # Plain
  BY AccessKinds, StoreFields
<1>1. CASE CallService
  <2>1. Now.kind # "access" BY <1>1, <1>n DEF CallService, Now
  <2>2. StoreFlags' BY <1>1, <1>f, <1>w, <2>1 DEF CallService, Take, StoreFlags
  <2>3. BlameInv' BY <1>1, <1>f, <1>w DEF CallService, Take, BlameInv, Due, Doomed
  <2> QED BY <2>2, <2>3
<1>2. CASE AccessMut
  <2>1. Now \in {Store, Plain} BY <1>2, <1>n DEF AccessMut
  <2>2. StoreFlags' BY <1>2, <1>f, <1>w, <1>k, <2>1 DEF AccessMut, Take, StoreFlags
  <2>3. BlameInv' BY <1>2, <1>f, <1>w DEF AccessMut, Take, BlameInv, Due, Doomed
  <2> QED BY <2>2, <2>3
<1>3. CASE SetWatchdog BY <1>3, <1>n DEF SetWatchdog
<1>4. CASE HandleFault
  <2>0. Running BY <1>4, <1>r DEF HandleFault
  <2>1. CASE elr = "smc"
    <3>1. esr = "smc" /\ ~generated /\ Now.kind # "access" BY <1>4, <1>f, <2>1 DEF HandleFault, StoreFlags
    <3>2. cpu' \in {"judge", "astray"} /\ generated' = FALSE /\ expected' = FALSE /\ UNCHANGED <<mut, filter, fails, breach, blind>>
      BY Zenon, <1>4, <2>1, <3>1 DEF HandleFault, asm_eret
    <3>3. StoreFlags' BY <1>4, <1>f, <1>w, <3>1, <3>2 DEF HandleFault, StoreFlags
    <3>4. ~Due /\ ~Doomed BY <1>4, <2>1, <3>1 DEF HandleFault, Due, Doomed
    <3> QED BY <1>f, <3>2, <3>3, <3>4 DEF BlameInv
  <2>2. CASE elr = "mut"
    <3>1. esr \in {"gpf", "abort"} /\ ~generated /\ Now = Store
      BY Zenon, <1>4, <1>f, <1>k, <1>n, <2>0, <2>2 DEF HandleFault, StoreFlags
    <3>2. /\ cpu' = "acs_end" /\ generated' = (esr = "gpf") /\ expected' = FALSE
          /\ UNCHANGED <<mut, filter, fails, breach, blind>>
      BY <1>4, <2>2, <3>1 DEF HandleFault, asm_eret
    <3>3. StoreFlags' BY <1>4, <1>f, <1>w, <1>k, <3>1, <3>2 DEF HandleFault, StoreFlags
    <3>4. ~Doomed BY <1>4 DEF HandleFault, Doomed
    <3>5. Due => Due' BY ZenonT(30), <1>4, <1>w, <3>1, <3>2 DEF HandleFault, Due
    <3> QED BY <1>f, <3>2, <3>3, <3>4, <3>5 DEF BlameInv
  <2> QED BY Zenon, <1>4, <1>f, <2>1, <2>2 DEF HandleFault, StoreFlags
<1>5. CASE ServeAccess
  <2>1. Now \in {Store, Plain} /\ elr = "smc" /\ esr = "smc" /\ expected = Now.expects
    BY <1>5, <1>f, <1>n, <1>r DEF ServeAccess, StoreFlags
  <2>2. cpu' = IF Now = Store THEN "str" ELSE "read" BY <1>5, <1>f, <1>k, <2>1 DEF ServeAccess, StoreFlags
  <2>3. ~Due /\ ~Doomed BY <1>5, <2>1 DEF ServeAccess, Due, Doomed
  <2>4. StoreFlags' BY <1>5, <1>f, <1>w, <1>k, <2>1, <2>2 DEF ServeAccess, StoreFlags
  <2> QED BY <1>5, <1>f, <2>3, <2>4 DEF ServeAccess, BlameInv
<1>6. CASE ToFirmware
  <2>1. StoreFlags' BY <1>6, <1>f, <1>w DEF ToFirmware, StoreFlags
  <2>2. ~Due BY <1>6, <1>f, <1>k DEF ToFirmware, StoreFlags, Due
  <2>3. Doomed => Doomed' BY <1>6 DEF ToFirmware, Doomed
  <2> QED BY <1>6, <1>f, <2>1, <2>2, <2>3 DEF ToFirmware, BlameInv
<1>7. CASE Perform
  <2>1. PICK a \in Outcomes : /\ Note(a)
                              /\ IF a \in {"gpf", "abort"} THEN Take(a, "mut")
                                 ELSE cpu' = "acs_end" /\ UNCHANGED <<esr, elr>>
    BY <1>7 DEF Perform
  <2>2. /\ Running /\ Now \in {Store, Plain} /\ expected = Now.expects /\ ~generated /\ ~mut
        /\ ~Due /\ ~Doomed /\ UNCHANGED <<flags, fails>>
    <3>1. cpu \in {"str", "read"} /\ UNCHANGED <<flags, fails>> BY <1>7, <1>f DEF Perform, StoreFlags
    <3>2. Now \in {Store, Plain} /\ expected = Now.expects /\ ~generated /\ ~mut
      BY Zenon, <1>f, <1>b, <1>k, <3>1 DEF StoreFlags
    <3>3. ~Due /\ ~Doomed BY <3>1 DEF Due, Doomed
    <3> QED BY <1>r, <3>1, <3>2, <3>3
  <2>3. /\ a \in {"gpf", "abort", "quiet", "through"}
        /\ a = "abort" <=> ~mapped
        /\ Now = Plain => (a \notin {"gpf", "abort"} => ~Wrong(a))
        /\ Now = Store => (a = "gpf" => ~Wrong(a))
    BY <1>k, <2>2, StoreAnswers
  <2>4. breach' = (breach \/ Wrong(a)) /\ blind' = (blind \/ ~mapped) BY <2>1 DEF Note
  <2>5. CASE a \in {"gpf", "abort"}
    <3>1. cpu' = "vector" /\ esr' = a /\ elr' = "mut" BY <2>1, <2>5 DEF Take
    <3>2. StoreFlags' BY <1>f, <1>w, <1>k, <2>2, <2>5, <3>1 DEF StoreFlags
    <3>3. CASE Now = Plain
      <4>1. Doomed' BY <1>k, <2>2, <2>5, <3>1, <3>3 DEF Doomed
      <4> QED BY <3>2, <4>1 DEF BlameInv
    <3>4. CASE Now = Store /\ a = "abort"
      <4>1. Due' BY <1>w, <2>2, <3>1, <3>4 DEF Due
      <4> QED BY <3>2, <4>1 DEF BlameInv
    <3>5. CASE Now = Store /\ a = "gpf"
      <4>1. ~Wrong(a) /\ mapped BY <2>3, <3>5
      <4> QED BY Zenon, <1>f, <2>2, <2>4, <3>2, <4>1 DEF BlameInv
    <3> QED BY <2>2, <2>5, <3>3, <3>4, <3>5
  <2>6. CASE a \notin {"gpf", "abort"}
    <3>1. cpu' = "acs_end" BY <2>1, <2>6
    <3>2. StoreFlags' BY <1>f, <1>w, <1>k, <2>2, <3>1 DEF StoreFlags
    <3>3. CASE Now = Plain
      <4>1. ~Wrong(a) /\ mapped BY <2>3, <2>6, <3>3 DEF PlaceInv
      <4> QED BY Zenon, <1>f, <2>2, <2>4, <3>2, <4>1 DEF BlameInv
    <3>4. CASE Now = Store
      <4>1. Due' BY <1>w, <2>2, <3>1, <3>4 DEF Due
      <4> QED BY <3>2, <4>1 DEF BlameInv
    <3> QED BY <2>2, <3>3, <3>4
  <2> QED BY <2>5, <2>6
<1>8. CASE DeadLoad
  <2>1. StoreFlags' BY <1>8, <1>f, <1>w, <1>k DEF DeadLoad, StoreFlags
  <2>2. ~Due /\ ~Doomed BY <1>8 DEF DeadLoad, Due, Doomed
  <2> QED BY <1>8, <1>f, <2>1, <2>2 DEF DeadLoad, BlameInv
<1>9. CASE Leave
  <2>1. StoreFlags' BY <1>9, <1>f, <1>w DEF Leave, StoreFlags
  <2>2. ~Doomed /\ (Due => Due') BY <1>9, <1>w DEF Leave, Due, Doomed
  <2> QED BY <1>9, <1>f, <2>1, <2>2 DEF Leave, BlameInv
<1>10. CASE Panic
  <2>1. StoreFlags' BY <1>10, <1>f, <1>w DEF Panic, StoreFlags
  <2>2. Doomed' BY <1>10 DEF Panic, Doomed
  <2> QED BY <2>1, <2>2 DEF BlameInv
<1>11. CASE ServeMap
  <2>1. StoreFlags' BY <1>11, <1>f, <1>w DEF ServeMap, StoreFlags
  <2>2. ~Due /\ ~Doomed BY <1>11 DEF ServeMap, Due, Doomed
  <2> QED BY <1>11, <1>f, <2>1, <2>2 DEF ServeMap, BlameInv
<1>12. CASE access_mut
  <2>1. Running /\ Step \in StoreSteps /\ Step.kind = "list" BY <1>12, <1>r, StoreNow DEF access_mut
  <2> QED BY <2>1, AccessKinds DEF StoreSteps, Smc, Map, PasAccess
<1>13. CASE val_wd_set_ws0_el3 BY <1>13, <1>n, <1>r DEF val_wd_set_ws0_el3
<1>14. CASE WatchdogAccess \/ WatchdogEnd BY <1>14, <1>f DEF WatchdogAccess, WatchdogEnd, StoreFlags
<1>15. CASE End
  BY <1>15, <1>f, <1>w DEF End, vars, StoreFlags, BlameInv, Due, Doomed
<1> QED BY <1>1, <1>2, <1>3, <1>4, <1>5, <1>6, <1>7, <1>8, <1>9, <1>10, <1>11, <1>12, <1>13, <1>14, <1>15 DEF Next

\* The check of the test counts what is due, and a test that has counted fails.
LEMMA StoreJudged ==
  ASSUME OrderlyScripts, StoresOnly(scenario), PlaceInv, StoreInv, Judge
  PROVE  StoreInv'
<1> USE DEF flags, hist
<1>f. StoreFlags /\ BlameInv /\ PassMeansProtected BY DEF StoreInv
<1>1. /\ Running /\ cpu' = "el2" /\ UNCHANGED mut /\ ~mut
      /\ Now.kind = "access" => Now \in {Store, Plain}
      /\ Step.kind # "watchdog"
  BY <1>f, StoreNow DEF Judge, PlaceInv, StoreFlags
<1>2. ~filter' BY Zenon, <1>f DEF Judge, Reset, StoreFlags
<1>3. generated' = FALSE
  BY ZenonT(30), <1>f, AccessKinds DEF Judge, Reset, StoreFlags
<1>4. PICK irq \in {FALSE, Interrupted} : Advance(fails + IF Counted \/ irq THEN 1 ELSE 0) BY Zenon DEF Judge
<1>5. ~irq BY Zenon, <1>1, <1>4 DEF Interrupted
<1> DEFINE count == fails + IF Counted \/ irq THEN 1 ELSE 0
<1>6. count \in Nat /\ count >= fails BY <1>f DEF StoreFlags
<1>7. Due => Counted BY Zenon, AccessKinds DEF Due, Counted
<1>8. breach \/ blind => count > 0
  <2>1. ~Doomed BY DEF Judge, Doomed
  <2>2. Due => count > 0 BY <1>7, <1>f DEF StoreFlags
  <2> QED BY <1>6, <1>f, <2>1, <2>2 DEF BlameInv, StoreFlags
<1>9. Advance(count) BY <1>4
<1> HIDE DEF count
<1>10. CASE UNCHANGED results /\ fails' = count /\ UNCHANGED <<breach, blind>>
  <2>1. StoreFlags' BY Zenon, <1>1, <1>2, <1>3, <1>6, <1>10 DEF StoreFlags
  <2>2. BlameInv' BY <1>8, <1>10 DEF BlameInv
  <2>3. PassMeansProtected' BY <1>f, <1>10 DEF PassMeansProtected
  <2> QED BY <2>1, <2>2, <2>3 DEF StoreInv
<1>11. CASE /\ results' = Append(results, [pass |-> count = 0, breach |-> breach, blind |-> blind])
            /\ fails' \in {0, 1} /\ ~breach' /\ ~blind'
  <2>0. fails' \in Nat BY <1>11
  <2>1. StoreFlags' BY ZenonT(30), <1>1, <1>2, <1>3, <2>0 DEF StoreFlags
  <2>2. BlameInv' BY <1>11 DEF BlameInv
  <2>3. /\ Len(results') = Len(results) + 1 /\ Len(results) \in Nat
        /\ results'[Len(results) + 1] = [pass |-> count = 0, breach |-> breach, blind |-> blind]
        /\ \A n \in 1 .. Len(results) : results'[n] = results[n]
    BY <1>11 DEF PlaceInv
  <2>4. ASSUME NEW n \in 1 .. Len(results'), results'[n].pass PROVE ~results'[n].breach /\ ~results'[n].blind
    <3>1. CASE n \in 1 .. Len(results) BY <1>f, <2>3, <2>4, <3>1 DEF PassMeansProtected
    <3>2. CASE n = Len(results) + 1
      <4>1. count = 0
        <5>1. results'[n] = [pass |-> count = 0, breach |-> breach, blind |-> blind] BY <2>3, <3>2
        <5>2. results'[n].pass = (count = 0) BY <5>1
        <5> QED BY Zenon, <2>4, <5>2
      <4>2. ~breach /\ ~blind BY <1>6, <1>8, <4>1
      <4> QED BY <2>3, <3>2, <4>2
    <3> QED BY <2>3, <3>1, <3>2
  <2>5. PassMeansProtected' BY <2>4 DEF PassMeansProtected
  <2> QED BY <2>1, <2>2, <2>5 DEF StoreInv
<1> QED BY <1>9, <1>10, <1>11 DEF Advance

LEMMA StoreInductive == OrderlyScripts /\ Spec => [](StoresOnly(scenario) => StoreInv)
<1> SUFFICES ASSUME OrderlyScripts PROVE Spec => [](StoresOnly(scenario) => StoreInv)
  OBVIOUS
<1>1. Init => StoreInv
  <2> SUFFICES ASSUME Init PROVE StoreInv
    OBVIOUS
  <2>1. fails \in Nat
    <3>1. fails \in {0, 1} BY DEF Init
    <3> QED BY <3>1
  <2>2. generated \in BOOLEAN BY Zenon DEF Init
  <2>3. StoreFlags BY <2>1, <2>2 DEF Init, StoreFlags
  <2>4. BlameInv BY DEF Init, BlameInv
  <2>5. PassMeansProtected BY DEF Init, PassMeansProtected
  <2> QED BY <2>3, <2>4, <2>5 DEF StoreInv
<1>2. PlaceInv /\ (StoresOnly(scenario) => StoreInv) /\ [Next]_vars => (StoresOnly(scenario) => StoreInv)'
  <2> SUFFICES ASSUME PlaceInv, StoresOnly(scenario) => StoreInv, [Next]_vars, StoresOnly(scenario)' PROVE StoreInv'
    OBVIOUS
  <2>1. scenario' = scenario BY OneScenario
  <2>2. StoresOnly(scenario) /\ StoreInv BY <2>1 DEF StoresOnly
  <2>3. CASE Judge BY Zenon, <2>2, <2>3, StoreJudged
  <2>4. CASE UNCHANGED vars
    <3>1. UNCHANGED <<Step, Now>> BY Zenon, <2>4 DEF vars, place, Step, Now, Test, Script
    <3> QED BY <2>2, <2>4, <3>1
            DEF vars, flags, hist, StoreInv, StoreFlags, BlameInv, Due, Doomed, PassMeansProtected
  <2>5. CASE Next /\ ~Judge
    <3>1. Within BY <2>5, OnlyJudgeMoves
    <3>2. StoreFlags' /\ BlameInv' BY <2>2, <2>5, <3>1, StoreWithin
    <3>3. PassMeansProtected' BY <2>2, <3>1, WithinFacts DEF StoreInv, PassMeansProtected
    <3> QED BY <3>2, <3>3 DEF StoreInv
  <2> QED BY <2>3, <2>4, <2>5
<1>3. Spec => []IInv BY Inductive
<1>4. IInv => PlaceInv BY Zenon DEF IInv
<1> QED BY <1>1, <1>2, <1>3, <1>4, PTL DEF Spec

-----------------------------------------------------------------------------
(* The tests in the order of the suite, as long as the machine complies.   *)

LEMMA CountScript ==
  ASSUME OrderlyScripts, JudgedScripts, PlaceInv, Running
  PROVE  /\ Step = Watchdog => test = Len(Script) /\ Test.rounds = 1 /\ op = Len(Test.body)
         /\ (\E k \in 1 .. Len(Test.body) : Test.body[k] = List) => Step \in StoreSteps \cup {List}
         /\ Step = Marked => Test.garbage
<1>1. scenario \in Scenarios /\ test \in Nat \ {0} /\ test <= Len(scenario.script)
      /\ Test = scenario.script[test] /\ Script = scenario.script
  BY DEF PlaceInv, Running, Test, Script
<1>2. Orderly(scenario) BY <1>1 DEF OrderlyScripts
<1>3. test \in 1 .. Len(scenario.script) BY <1>1, <1>2 DEF Orderly
<1>4. op \in 1 .. Len(Test.body) BY StepFacts
<1>5. \A i \in 1 .. Len(Test.body) :
        /\ Test.body[i] = Watchdog => test = Len(Script) /\ Test.rounds = 1 /\ i = Len(Test.body)
        /\ Test.body[i] = List => \A k \in 1 .. Len(Test.body) : Test.body[k] \in StoreSteps \cup {List}
        /\ Test.body[i] = Marked => Test.garbage
  BY <1>1, <1>3 DEF JudgedScripts
<1> QED BY <1>4, <1>5 DEF Step

LEMMA CountWithin ==
  ASSUME OrderlyScripts, JudgedScripts, IInv, Running, CountFlags, Flags, Compliant, Compliant',
         Next, Within, ~Judge, generated \in BOOLEAN, data \in BOOLEAN
  PROVE  CountFlags'
<1> USE DEF flags, hist
<1>p. PlaceInv BY DEF IInv
<1>w. UNCHANGED <<Script, Test, Step, Now>> BY WithinFacts
<1>s. Step \in Steps BY Zenon, <1>p, StepFacts
<1>k. Step.kind \notin {"access", "pas"} => Now \notin {Store, Filtered, TakenBack}
  BY ZenonT(30), <1>s, NowKinds, AccessKinds
<1>1. CASE CallService \/ AccessMut \/ SetWatchdog
  <2>1. /\ cpu' = "vector" /\ elr' = "smc" /\ UNCHANGED <<fails, generated>> /\ (data => data')
        /\ cpu = "el2"
    BY Zenon, <1>1 DEF CallService, AccessMut, SetWatchdog, Take
  <2> QED BY Zenon, <1>w, <2>1 DEF CountFlags
<1>2. CASE HandleFault
  <2>1. /\ cpu = "vector" /\ elr \in {"mut", "watchdog"} /\ esr = "gpf"
        /\ UNCHANGED <<fails, data, elr, esr>>
    BY Zenon, <1>2 DEF HandleFault, Flags, CountFlags
  <2>2. generated' = TRUE BY ZenonT(30), <1>2, <2>1 DEF HandleFault
  <2>3. CASE elr = "mut"
    <3>1. cpu' = "acs_end" /\ Now \in {Store, Filtered, TakenBack}
      BY ZenonT(30), <1>2, <2>1, <2>3 DEF HandleFault, asm_eret, CountFlags
    <3> QED BY ZenonT(30), <1>w, <2>1, <2>2, <3>1 DEF CountFlags
  <2>4. CASE elr = "watchdog"
    <3>1. cpu' = "watchdog" /\ Step = Watchdog BY ZenonT(30), <1>2, <2>1, <2>4 DEF HandleFault, asm_eret, Flags
    <3> QED BY <1>w, <2>1, <2>2, <3>1 DEF CountFlags
  <2> QED BY <2>1, <2>3, <2>4
<1>3. CASE ServeAccess \/ ToFirmware
  <2>1. cpu' \in {"ldr", "str", "read", "firmware"} /\ cpu = "vector" /\ UNCHANGED <<fails, generated, data>>
    BY <1>3 DEF ServeAccess, ToFirmware
  <2> QED BY <1>w, <2>1 DEF CountFlags
<1>4. CASE Perform
  <2>1. PICK a \in Outcomes : /\ Note(a)
                              /\ IF a \in {"gpf", "abort"} THEN Take(a, "mut")
                                 ELSE cpu' = "acs_end" /\ UNCHANGED <<esr, elr>>
    BY <1>4 DEF Perform
  <2>2. ~Wrong(a) BY Zenon, <2>1 DEF Note, Compliant
  <2>3. cpu \in {"str", "ldr", "read"} /\ Now.kind = "access" /\ UNCHANGED <<fails, generated, data>>
    BY <1>4 DEF Perform, Flags
  <2>4. a # "abort" /\ Step # Watchdog BY <2>1, <2>3, AccessMapped
  <2>5. IF Now.expects THEN a \in {"gpf", "abort"} \/ Now = TakenBack ELSE a \notin {"gpf", "abort"}
    BY <2>2, <2>3, AccessAnswers
  <2>6. ~generated BY <2>3, <2>4 DEF CountFlags
  <2>7. CASE a = "gpf"
    <3>1. cpu' = "vector" /\ esr' = "gpf" /\ elr' = "mut" BY <2>1, <2>7 DEF Take
    <3>2. Now \in {Store, Filtered, TakenBack} BY ZenonT(30), <1>s, <2>3, <2>5, <2>7, NowKinds
    <3> QED BY <1>w, <2>3, <2>6, <3>1, <3>2 DEF CountFlags
  <2>8. CASE a # "gpf"
    <3>1. cpu' = "acs_end" BY <2>1, <2>4, <2>8
    <3>2. Now \notin {Store, Filtered} BY <2>4, <2>5, <2>8, AccessKinds
    <3> QED BY <1>w, <2>3, <2>6, <3>1, <3>2 DEF CountFlags
  <2> QED BY <2>7, <2>8
<1>5. CASE DeadLoad
  <2>1. Now.expects = FALSE /\ cpu = "read" /\ cpu' = "acs_end" /\ UNCHANGED <<fails, generated, data>>
    BY <1>5, <1>p DEF DeadLoad, Flags, PlaceInv
  <2>2. Now \notin {Store, Filtered} BY <2>1, AccessKinds
  <2> QED BY <1>w, <2>1, <2>2 DEF CountFlags
<1>6. CASE Leave
  <2>1. cpu = "acs_end" /\ cpu' = "judge" /\ UNCHANGED <<fails, generated, data>> BY <1>6 DEF Leave
  <2> QED BY <1>w, <2>1 DEF CountFlags
<1>7. CASE Panic BY <1>7 DEF Panic, Flags
<1>8. CASE ServeMap
  <2>1. Step.kind \in {"smc", "map"} /\ cpu = "firmware" /\ cpu' = "judge" /\ UNCHANGED <<fails, generated, data>>
    BY <1>8 DEF ServeMap
  <2>2. Now \notin {Store, Filtered} BY <1>k, <2>1
  <2> QED BY <1>w, <2>1, <2>2 DEF CountFlags
<1>9. CASE access_mut
  <2>1. PICK a \in Outcomes : /\ Note(a)
                              /\ IF a \in {"gpf", "abort"} THEN Take(a, "list")
                                 ELSE cpu' = "judge" /\ UNCHANGED <<esr, elr>>
    BY <1>9 DEF access_mut
  <2>2. ~Wrong(a) BY Zenon, <2>1 DEF Note, Compliant
  <2>3. Step = List /\ cpu = "firmware" /\ UNCHANGED <<fails, generated>> BY <1>9, <1>s, StepKinds DEF access_mut
  <2>4. a = "through" BY <2>1, <2>2, <2>3, ServiceAnswers
  <2>5. cpu' = "judge" BY <2>1, <2>4
  <2>6. Now \notin {Store, Filtered}
    <3>1. Step.kind = "list" BY Zenon, <2>3 DEF List
    <3> QED BY <1>k, <3>1
  <2>7. \E k \in 1 .. Len(Test.body) : Test.body[k] = List
    <3>1. op \in 1 .. Len(Test.body) BY <1>p, StepFacts
    <3> QED BY <2>3, <3>1 DEF Step
  <2> QED BY <1>w, <2>3, <2>5, <2>6, <2>7 DEF CountFlags
<1>10. CASE val_wd_set_ws0_el3
  <2>1. cpu = "firmware" /\ cpu' = "watchdog" /\ UNCHANGED <<fails, generated, data>> BY <1>10 DEF val_wd_set_ws0_el3
  <2> QED BY <1>w, <2>1 DEF CountFlags
<1>11. CASE WatchdogAccess
  <2>1. PICK a \in Outcomes : /\ Note(a)
                              /\ IF a \in {"gpf", "abort"} THEN Take(a, "watchdog")
                                 ELSE cpu' = "watchdog" /\ UNCHANGED <<esr, elr>>
    BY <1>11 DEF WatchdogAccess
  <2>2. ~Wrong(a) BY Zenon, <2>1 DEF Note, Compliant
  <2>3. Step = Watchdog /\ cpu = "watchdog" /\ UNCHANGED <<fails, generated, data>> BY <1>11 DEF WatchdogAccess, Flags
  <2>4. a = "gpf" BY <2>1, <2>2, <2>3, ServiceAnswers DEF List, Watchdog
  <2>5. cpu' = "vector" /\ esr' = "gpf" /\ elr' = "watchdog" BY <2>1, <2>4 DEF Take
  <2> QED BY <1>w, <2>3, <2>5 DEF CountFlags
<1>12. CASE WatchdogEnd
  <2>1. Step = Watchdog /\ cpu' = "judge" /\ UNCHANGED <<fails, generated, data>> BY <1>12 DEF WatchdogEnd, Flags
  <2>2. Now \notin {Store, Filtered}
    <3>1. Step.kind = "watchdog" BY <2>1 DEF Watchdog
    <3> QED BY <1>k, <3>1
  <2> QED BY <1>w, <2>1, <2>2 DEF CountFlags
<1>13. CASE End BY <1>13, <1>w DEF End, vars, CountFlags
<1> QED BY <1>1, <1>2, <1>3, <1>4, <1>5, <1>6, <1>7, <1>8, <1>9, <1>10, <1>11, <1>12, <1>13 DEF Next

\* What a compliant machine did is not counted, and the record of it is cleared
\* unless nothing is judged any more.
LEMMA CountCheck ==
  ASSUME OrderlyScripts, JudgedScripts, IInv, Running, CountFlags, Compliant, Judge,
         generated \in BOOLEAN, data \in BOOLEAN
  PROVE  /\ ~Interrupted
         /\ Counted => Test.garbage
         /\ Step # Watchdog => generated' = FALSE
<1>p. PlaceInv BY DEF IInv
<1>s. Step \in Steps BY <1>p, StepFacts
<1>c. /\ (\E k \in 1 .. Len(Test.body) : Test.body[k] = List) => Step \in StoreSteps \cup {List}
      /\ Step = Marked => Test.garbage
  BY <1>p, CountScript
<1>1. ~Interrupted BY DEF Interrupted, Compliant
<1>2. cpu = "judge" BY DEF Judge
<1>3. ASSUME Step # Watchdog PROVE generated' = FALSE
  <2>1. generated => Now \in {Store, Filtered, TakenBack} BY <1>2, <1>3 DEF CountFlags
  <2>2. CASE generated = FALSE BY <2>2 DEF Judge, Reset
  <2>3. CASE generated = TRUE
    <3>1. Now.kind = "access" /\ Now.check \in {"fault", "fault_or_init", "read"} BY <2>1, <2>3, AccessKinds
    <3> QED BY Zenon, <3>1 DEF Judge, Reset
  <2> QED BY Zenon, <2>2, <2>3
<1>4. ASSUME Counted PROVE Test.garbage
  <2>1. Now.kind = "access" BY <1>4 DEF Counted
  <2>2. Step # Watchdog /\ Step # List BY <1>2, <2>1, AccessMapped
  <2>3. generated => Now \in {Store, Filtered, TakenBack} BY <1>2, <2>2 DEF CountFlags
  <2>4. Now \in {Store, Filtered} => generated BY <1>2 DEF CountFlags
  <2>5. Now \in {TakenBack, Inactive} => data
    <3>1. Now \in {TakenBack, Inactive} => Step \notin StoreSteps \cup {List}
      <4>1. ASSUME Step \in StoreSteps PROVE Now \notin {TakenBack, Inactive}
        <5>1. CASE Step.kind = "pas"
          <6>1. Step = PasAccess(Store) BY <4>1, <5>1, AccessKinds DEF StoreSteps, Smc, Map
          <6>2. Now \in {Plain, Store} BY <5>1, <6>1, AccessKinds DEF Now
          <6> QED BY <6>2, AccessKinds
        <5>2. CASE Step.kind # "pas"
          <6>1. Now = Step BY <5>2 DEF Now
          <6>2. Step = Store BY <2>1, <4>1, <5>2, <6>1 DEF StoreSteps, Smc, Map, PasAccess
          <6> QED BY <6>1, <6>2, AccessKinds
        <5> QED BY <5>1, <5>2
      <4> QED BY <2>2, <4>1
    <3> QED BY <1>c, <3>1 DEF CountFlags
  <2>6. Now \in {Store, Filtered, TakenBack, Inactive, Plain} \/ (Now = Marked /\ Step = Marked)
    BY <1>s, <2>1, NowIsOne
  <2>7. CASE Now = Plain
    <3>1. ~generated BY <2>3, <2>7, AccessKinds
    <3> QED BY <1>4, <2>7, <3>1, AccessKinds DEF Counted
  <2>8. CASE Now \in {Store, Filtered} BY Zenon, <1>4, <2>4, <2>8, AccessKinds DEF Counted
  <2>9. CASE Now \in {TakenBack, Inactive} BY Zenon, <1>4, <2>5, <2>9, AccessKinds DEF Counted
  <2> QED BY <1>c, <2>6, <2>7, <2>8, <2>9
<1> QED BY Zenon, <1>1, <1>3, <1>4

LEMMA CountJudged ==
  ASSUME OrderlyScripts, JudgedScripts, IInv, CountInv, Judge
  PROVE  CountInv'
<1>p. PlaceInv BY DEF IInv
<1>r. Running /\ cpu' = "el2" BY <1>p DEF Judge, PlaceInv
<1>t. /\ round \in Nat \ {0} /\ fails \in Nat /\ data \in BOOLEAN /\ generated \in BOOLEAN /\ FirstFailure
  BY DEF CountInv
<1>g. generated' \in BOOLEAN BY <1>t DEF Judge, Reset
<1>f. Compliant => CountFlags BY <1>r DEF CountInv
<1>1. PICK irq \in {FALSE, Interrupted} : Advance(fails + IF Counted \/ irq THEN 1 ELSE 0) BY Zenon DEF Judge
<1> DEFINE count == fails + IF Counted \/ irq THEN 1 ELSE 0
<1>2. Compliant => (count = 0 \/ Test.garbage) /\ (Step # Watchdog => generated' = FALSE)
  <2> SUFFICES ASSUME Compliant PROVE (count = 0 \/ Test.garbage) /\ (Step # Watchdog => generated' = FALSE)
    BY Zenon
  <2>1. ~Interrupted /\ (Counted => Test.garbage) /\ (Step # Watchdog => generated' = FALSE)
    BY Zenon, <1>f, <1>r, <1>t, CountCheck
  <2>2. ~irq BY Zenon, <2>1
  <2>3. fails = 0 \/ Test.garbage BY <1>f DEF CountFlags
  <2> QED BY <2>1, <2>2, <2>3
<1>3. count \in Nat BY <1>t
<1>4. Advance(count) BY <1>1
<1>5. Compliant' => Compliant BY <1>p, CompliantStep DEF Next
<1>6. Step = Watchdog => test = Len(Script) /\ Test.rounds = 1 /\ op = Len(Test.body)
  BY <1>p, <1>r, CountScript
<1>11. test \in Nat /\ Len(Script) \in Nat
  <2>1. Orderly(scenario) BY <1>p DEF OrderlyScripts, PlaceInv
  <2> QED BY <1>p, <2>1 DEF PlaceInv, Orderly, Script
<1> HIDE DEF count
<1>7. CASE /\ UNCHANGED <<scenario, test, data, results>> /\ fails' = count
           /\ round' \in Nat \ {0} /\ Step # Watchdog
  <2>1. UNCHANGED <<Script, Test>> BY Zenon, <1>7 DEF Script, Test
  <2>2. Compliant' /\ Running' => CountFlags'
    <3> SUFFICES ASSUME Compliant' PROVE CountFlags'
      OBVIOUS
    <3>1. CountFlags /\ (count = 0 \/ Test.garbage) /\ generated' = FALSE BY <1>2, <1>5, <1>7, <1>f
    <3> QED BY <1>7, <1>r, <2>1, <3>1 DEF CountFlags
  <2>3. FirstFailure' BY <1>7, <1>t, <2>1 DEF FirstFailure
  <2>4. test' <= Len(Script') + 1 BY Zenon, <1>7, <2>1 DEF CountInv
  <2> QED BY <1>3, <1>7, <1>g, <1>t, <2>2, <2>3, <2>4 DEF CountInv
<1>8. CASE op < Len(Test.body) BY <1>4, <1>6, <1>7, <1>8, <1>t, <1>p DEF Advance, PlaceInv
<1>9. CASE ~(op < Len(Test.body)) /\ round < Test.rounds
  <2>1. Step # Watchdog BY <1>6, <1>9, <1>t
  <2>2. /\ UNCHANGED <<scenario, test, data, results>> /\ fails' = count /\ round' = round + 1
    BY <1>4, <1>9 DEF Advance
  <2> QED BY <1>7, <1>t, <2>1, <2>2
<1>10. CASE ~(op < Len(Test.body)) /\ ~(round < Test.rounds)
  <2>1. /\ results' = Append(results, [pass |-> count = 0, breach |-> breach, blind |-> blind])
        /\ test' = test + 1 /\ round' = 1 /\ scenario' = scenario /\ data' = TRUE
        /\ fails' \in IF test < Len(Script) /\ Script[test + 1].garbage THEN {0, 1} ELSE {0}
    BY Zenon, <1>4, <1>10 DEF Advance
  <2>2. UNCHANGED Script BY <2>1 DEF Script
  <2>3. fails' \in Nat /\ (fails' = 0 \/ Script[test + 1].garbage) BY <2>1
  <2>4. Compliant' /\ Running' => CountFlags'
    <3> SUFFICES ASSUME Compliant', Running' PROVE CountFlags'
      OBVIOUS
    <3>1. test + 1 <= Len(Script) /\ Test' = Script[test + 1] BY <2>1, <2>2 DEF Running, Test
    <3>3. Step # Watchdog BY <1>6, <1>11, <3>1
    <3>4. generated' = FALSE BY <1>2, <1>5, <3>3
    <3> QED BY <1>r, <2>1, <2>3, <3>1, <3>4 DEF CountFlags
  <2>5. FirstFailure'
    <3>1. (count = 0) \in BOOLEAN /\ (Compliant => count = 0 \/ Script[test].garbage) BY <1>2 DEF Test
    <3> QED BY Zenon, <1>p, <1>t, <2>1, <2>2, <3>1, FirstFailureGrows
  <2>6. data' \in BOOLEAN BY <2>1
  <2>7. round' \in Nat \ {0} BY <2>1
  <2>8. test' <= Len(Script') + 1 BY <1>11, <1>r, <2>1, <2>2 DEF Running
  <2> QED BY <1>g, <2>3, <2>4, <2>5, <2>6, <2>7, <2>8 DEF CountInv
<1> QED BY <1>8, <1>9, <1>10

LEMMA CountTypes ==
  ASSUME CountInv, Next, ~Judge
  PROVE  generated' \in BOOLEAN /\ data' \in BOOLEAN /\ fails' = fails
<1> USE DEF flags, CountInv
<1>1. CASE CallService \/ SetWatchdog BY Zenon, <1>1 DEF CallService, SetWatchdog
<1>2. CASE AccessMut BY <1>2 DEF AccessMut
<1>3. CASE HandleFault BY <1>3 DEF HandleFault
<1>4. CASE ServeAccess \/ ToFirmware BY <1>4 DEF ServeAccess, ToFirmware
<1>5. CASE Perform \/ DeadLoad \/ Leave BY <1>5 DEF Perform, DeadLoad, Leave
<1>6. CASE Panic \/ ServeMap BY <1>6 DEF Panic, ServeMap
<1>7. CASE access_mut BY <1>7 DEF access_mut
<1>8. CASE val_wd_set_ws0_el3 \/ WatchdogAccess \/ WatchdogEnd
  BY <1>8 DEF val_wd_set_ws0_el3, WatchdogAccess, WatchdogEnd
<1>9. CASE End BY <1>9 DEF End, vars
<1> QED BY <1>1, <1>2, <1>3, <1>4, <1>5, <1>6, <1>7, <1>8, <1>9 DEF Next

LEMMA CountInductive == OrderlyScripts /\ JudgedScripts /\ Spec => []CountInv
<1> SUFFICES ASSUME OrderlyScripts, JudgedScripts PROVE Spec => []CountInv
  OBVIOUS
<1>1. Init => CountInv
  <2> SUFFICES ASSUME Init PROVE CountInv
    OBVIOUS
  <2>1. fails \in Nat /\ (fails = 0 \/ Test.garbage)
    <3>1. fails \in {0, 1} /\ (fails = 0 \/ Script[1].garbage) BY DEF Init
    <3> QED BY <3>1 DEF Init, Test
  <2>2. data \in BOOLEAN /\ generated \in BOOLEAN BY Zenon DEF Init
  <2>3. CountFlags BY <2>1 DEF Init, CountFlags
  <2>4. FirstFailure BY DEF Init, FirstFailure
  <2>5. test <= Len(Script) + 1
    <3>1. Orderly(scenario) BY DEF Init, OrderlyScripts
    <3> QED BY <3>1 DEF Init, Orderly, Script
  <2> QED BY <2>1, <2>2, <2>3, <2>4, <2>5 DEF Init, CountInv
<1>2. IInv /\ CountInv /\ [Next]_vars => CountInv'
  <2> SUFFICES ASSUME IInv, CountInv, [Next]_vars PROVE CountInv'
    OBVIOUS
  <2>1. CASE Judge BY <2>1, CountJudged
  <2>2. CASE UNCHANGED vars
    <3>1. UNCHANGED <<Script, Test, Step, Now>> BY Zenon, <2>2 DEF vars, place, Step, Now, Test, Script
    <3> QED BY ZenonT(30), <2>2, <3>1 DEF vars, place, flags, hist, CountInv, CountFlags, Compliant, Running, FirstFailure
  <2>3. CASE Next /\ ~Judge
    <3>1. Within BY <2>3, OnlyJudgeMoves
    <3>2. UNCHANGED <<Script, Test, Step, Now, results, test, round>> BY <3>1, WithinFacts
    <3>3. generated' \in BOOLEAN /\ data' \in BOOLEAN /\ fails' = fails BY <2>3, CountTypes
    <3>4. Compliant' /\ Running' => CountFlags'
      <4> SUFFICES ASSUME Compliant', Running' PROVE CountFlags'
        OBVIOUS
      <4>1. Compliant /\ Running BY <2>3, <3>2, CompliantStep DEF Running, IInv
      <4>2. CountFlags /\ Flags BY <4>1 DEF CountInv, IInv, FlagInv
      <4>3. generated \in BOOLEAN /\ data \in BOOLEAN BY DEF CountInv
      <4> QED BY <2>3, <3>1, <4>1, <4>2, <4>3, CountWithin
    <3>5. FirstFailure' BY <3>2 DEF CountInv, FirstFailure
    <3>6. round' \in Nat \ {0} /\ fails' \in Nat /\ test' <= Len(Script') + 1 BY <3>2, <3>3 DEF CountInv
    <3> QED BY <3>3, <3>4, <3>5, <3>6 DEF CountInv
  <2> QED BY <2>1, <2>2, <2>3
<1> QED BY <1>1, <1>2, Inductive, PTL DEF Spec

-----------------------------------------------------------------------------
\* A test that passes has accessed what it mapped and met no answer it is there
\* to detect. For rme004, rme009 and all tests made of their steps, in any
\* number, order and number of rounds, the machine may answer an access of a
\* wrong PAS in any way: a store it does not fault is counted, whatever the
\* flags the tests before left behind. For the other tests, which cannot tell
\* an access let through from one refused, the machine is one that complies.
THEOREM PassesAreEarned ==
  /\ OrderlyScripts
  /\ \A s \in Scenarios : StoresOnly(s) \/ Sound(s)
  /\ Spec
  => []PassMeansProtected
<1> SUFFICES ASSUME OrderlyScripts, \A s \in Scenarios : StoresOnly(s) \/ Sound(s)
             PROVE  Spec => []PassMeansProtected
  OBVIOUS
<1>1. IInv /\ (StoresOnly(scenario) => StoreInv) /\ SoundInv /\ SeeingInv => PassMeansProtected
  <2> SUFFICES ASSUME IInv, StoresOnly(scenario) => StoreInv, SoundInv, SeeingInv PROVE PassMeansProtected
    OBVIOUS
  <2>1. CASE StoresOnly(scenario) BY <2>1 DEF StoreInv
  <2>2. CASE Sound(scenario) BY <2>2 DEF SoundInv, SeeingInv, Compliant, PassMeansProtected
  <2> QED BY <2>1, <2>2 DEF IInv, PlaceInv
<1> QED BY <1>1, Inductive, StoreInductive, SoundInductive, SeeingInductive, PTL

\* On any machine the first test of a run that fails, of those that set their
\* counter to zero, has met an answer the machine should not have given: neither
\* the handler nor the flags the tests before it left behind make it fail.
THEOREM FirstFailureIsReal == OrderlyScripts /\ JudgedScripts /\ Spec => []FirstFailure
<1>1. CountInv => FirstFailure BY DEF CountInv
<1> QED BY <1>1, CountInductive, PTL

\* Where a run is of one test, on any machine, or of any number of them on a
\* machine that complies, every failure is the machine's. (A machine that lets
\* one store through may make a later test fail too: the expectation the first
\* left standing swallows the later test's mapping.)
THEOREM FailuresAreReal ==
  /\ OrderlyScripts /\ JudgedScripts
  /\ \A s \in Scenarios : Len(s.script) = 1 \/ Sound(s)
  /\ Spec
  => []FailMeansBreach
<1> SUFFICES ASSUME OrderlyScripts, JudgedScripts, \A s \in Scenarios : Len(s.script) = 1 \/ Sound(s)
             PROVE  Spec => []FailMeansBreach
  OBVIOUS
<1>1. IInv /\ CountInv /\ SoundInv => FailMeansBreach
  <2> SUFFICES ASSUME IInv, CountInv, SoundInv, NEW n \in 1 .. Len(results), ~results[n].pass
               PROVE  results[n].breach \/ Script[n].garbage
    BY DEF FailMeansBreach
  <2>1. FirstFailure /\ PlaceInv BY DEF CountInv, IInv
  <2>2. \A m \in 1 .. n - 1 : ~results[m].breach
    <3>1. CASE Sound(scenario)
      <4>1. Len(results) \in Nat BY <2>1 DEF PlaceInv
      <4> QED BY <3>1, <4>1 DEF SoundInv, Compliant
    <3>2. CASE Len(scenario.script) = 1
      <4>1. test <= 2 BY <3>2 DEF CountInv, Script
      <4>2. n = 1 BY <2>1, <4>1 DEF FirstFailure, PlaceInv
      <4> QED BY <4>2
    <3> QED BY <2>1, <3>1, <3>2 DEF PlaceInv
  <2> QED BY <2>1, <2>2 DEF FirstFailure
<1> QED BY <1>1, Inductive, CountInductive, SoundInductive, PTL

=============================================================================
