------------------------------ MODULE RmeSuite ------------------------------
(***************************************************************************)
(* The run of the whole suite across its system resets. ShellAppMainrme    *)
(* calls one module of tests after another; four RME tests and one legacy  *)
(* test reset the machine half-way through, after writing a flag to the    *)
(* non-volatile memory, and the modules use the flag to resume at the      *)
(* second call of that test. A test that hangs is ended by a reset of the  *)
(* user's, an unexpected exception by a jump to the summary.               *)
(***************************************************************************)
EXTENDS Integers, Sequences, FiniteSets

CONSTANT Scenarios   \* the suites, platforms and choices of the user looked at

VARIABLES mod,          \* the module being run, "end" at the summary
          k,            \* index of its next call, 0 before it is entered
          status,       \* its local variable status
          counter,      \* g_rme_tests_total, _pass and _fail
          flag, saved,  \* the non-volatile memory: reset status and counters
          tz,           \* the legacy tie-off, as last programmed
          hangs, run,   \* number of hangs, of runs
          hist,         \* history: the last outcome of each test of this run
          armed,        \* history: the tests that have asked for a reset
          aborted,      \* history: an exception has ended the run
          torn,         \* history: a reset came between the two stores of a reset test
          sc            \* the scenario: see below

nvm     == <<flag, saved>>
history == <<hangs, run, hist, armed, aborted, torn>>
vars    == <<mod, k, status, counter, nvm, tz, history, sc>>

RmeCalls    == sc.rme      \* the tests val_rme_execute_tests calls, in order
DaCalls     == sc.da       \* the tests val_rme_da_execute_tests calls
LegacyTz    == sc.tz       \* IS_LEGACY_TZ_ENABLED
SkipTests   == sc.skip     \* the test numbers in g_skip_test_num
SkipModules == sc.modules  \* the modules skipped as a whole
PEsAnswer   == sc.answer   \* FALSE: rme031 may find a PE that does not answer
MaxHangs    == sc.hangs    \* bound: tests that hang
MaxRuns     == sc.runs     \* bound: runs of the suite on the same memory

Counters == {"total", "pass", "fail"}
Outcomes == {"PASS", "FAIL", "SKIP"}
Zero     == [c \in Counters |-> 0]

\* RESET_TST2_FLAG and so on, named after their tests; no flag, and the one
\* that is not a test's.
NoFlag      == 0
LsDisblFlag == 500
LsTest3     == 503
RmeResets   == {2, 12, 31, 32}
ResetTests  == RmeResets \cup {LsTest3}

LegacyCalls == <<501, 502, 503, 503, 504>>
Calls == [rme |-> RmeCalls, legacy |-> LegacyCalls, gic |-> <<201>>,
          smmu |-> <<401, 402>>, da |-> DaCalls]
Modules == DOMAIN Calls
After   == [rme |-> "legacy", legacy |-> "gic", gic |-> "smmu", smmu |-> "da",
            da |-> "end"]

Tests == UNION {{Calls[m][i] : i \in DOMAIN Calls[m]} : m \in Modules}

\* A reset test is called twice in a row, first to reset, then to resume; rme032
\* is the last of them. Every other test is called once.
ASSUME SuiteAssumption ==
  \A s \in Scenarios :
    /\ s.rme \in Seq(1 .. 32) /\ s.da \in Seq(601 .. 620)
    /\ s.tz \in BOOLEAN /\ s.answer \in BOOLEAN
    /\ s.hangs \in Nat /\ s.runs \in Nat \ {0}
    /\ s.modules \subseteq {"rme", "legacy", "gic", "smmu", "da"}
    /\ \A t \in RmeResets : \E i \in 1 .. Len(s.rme) - 1 :
         \A j \in DOMAIN s.rme : s.rme[j] = t <=> j \in {i, i + 1}
    /\ \A i, j \in DOMAIN s.rme : s.rme[i] \in RmeResets \ {32} /\ s.rme[j] = 32 => i < j
    /\ \A i, j \in DOMAIN s.rme : s.rme[i] = s.rme[j] => i = j \/ s.rme[i] \in RmeResets
    /\ \A i, j \in DOMAIN s.da : s.da[i] = s.da[j] => i = j

\* The call behind the label reset_done_<t>.
Resume(m, t) == CHOOSE i \in DOMAIN Calls[m] :
                  Calls[m][i] = t /\ i > 1 /\ Calls[m][i - 1] = t

\* The calls whose result is assigned to status instead of being or-ed into it.
Assigned == [rme    |-> {1} \cup {Resume("rme", t) : t \in RmeResets},
             legacy |-> {1, Resume("legacy", LsTest3)},
             gic    |-> {1}, smmu |-> {}, da |-> {1}]

\* status |= o for ACS_STATUS_PASS = 0, _SKIP = 0x10000000, _FAIL = 0x90000000
Or(s, o) == IF "FAIL" \in {s, o} THEN "FAIL"
            ELSE IF "SKIP" \in {s, o} THEN "SKIP" ELSE "PASS"

-----------------------------------------------------------------------------
Init ==
  /\ sc \in Scenarios
  /\ mod = "rme" /\ k = 0 /\ status = "PASS" /\ counter = Zero
  /\ flag = NoFlag /\ saved = Zero /\ tz = FALSE
  /\ hangs = 0 /\ run = 1 /\ hist = [t \in Tests |-> "NONE"] /\ armed = {}
  /\ aborted = FALSE /\ torn = FALSE

\* Power-on: the application starts over with its counters cleared.
Boot == mod' = "rme" /\ k' = 0 /\ status' = "PASS" /\ counter' = Zero

\* Mutants: the flag of rme012 is not looked at; the flag of the last reset test
\* keeps the DA tests from running.
ForgetsTest12 ==
  IF flag \in RmeResets \ {12} THEN Resume("rme", flag)
  ELSE IF flag \in {LsDisblFlag, LsTest3} THEN Len(RmeCalls) + 1 ELSE 1
DaLooksAtTest32 ==
  IF flag \in ResetTests \cup {LsDisblFlag} THEN Len(DaCalls) + 1 ELSE 1

\* Where each module starts, by the flag it reads; behind the last call when
\* there is nothing to run.
val_rme_execute_tests ==
  IF flag \in RmeResets THEN Resume("rme", flag)
  ELSE IF flag \in {LsDisblFlag, LsTest3} THEN Len(RmeCalls) + 1 ELSE 1

val_legacy_execute_tests ==
  IF flag = LsTest3 THEN Resume("legacy", LsTest3)
  ELSE IF flag = LsDisblFlag THEN Len(LegacyCalls) ELSE 1

val_rme_da_execute_tests ==
  IF flag \in {2, 12, 31, LsDisblFlag, LsTest3} THEN Len(DaCalls) + 1 ELSE 1

EntryOf(m) == CASE m = "rme"    -> val_rme_execute_tests
              [] m = "legacy" -> val_legacy_execute_tests
              [] m = "da"     -> val_rme_da_execute_tests
              [] OTHER        -> 1

\* A module is entered with status uninitialised, but for the SMMU module's.
Enter ==
  /\ mod \in Modules \ SkipModules /\ k = 0 /\ (mod = "legacy" => LegacyTz)
  /\ k' = EntryOf(mod)
  /\ IF mod = "smmu" THEN status' = "PASS" ELSE status' \in Outcomes
  /\ UNCHANGED <<mod, counter, nvm, tz, history>>

\* The user, or the platform, has nothing to run of this module.
SkipModule ==
  /\ mod \in Modules /\ k = 0
  /\ mod \in SkipModules \/ (mod = "legacy" /\ ~LegacyTz)
  /\ mod' = After[mod]
  /\ UNCHANGED <<k, status, counter, nvm, tz, history>>

\* val_print_test_end and return.
Return ==
  /\ mod \in Modules /\ k = Len(Calls[mod]) + 1
  /\ mod' = After[mod] /\ k' = 0
  /\ UNCHANGED <<status, counter, nvm, tz, history>>

-----------------------------------------------------------------------------
\* The legacy module disables the tie-off before the call of ls004.
TieOffNext == mod = "legacy" /\ k = Len(LegacyCalls) /\ flag # LsDisblFlag
Calling    == mod \in Modules /\ k \in DOMAIN Calls[mod] /\ ~TieOffNext
This       == Calls[mod][k]

\* val_initialize_test counts the test; val_check_for_error its result.
Begun == [counter EXCEPT !["total"] = @ + 1]

Count(c, o) == [c EXCEPT !["pass"] = IF o = "PASS" THEN @ + 1 ELSE @,
                         !["fail"] = IF o = "FAIL" THEN @ + 1 ELSE @]

Finish(c, o) ==
  /\ counter' = Count(c, o)
  /\ status' = IF k \in Assigned[mod] THEN o ELSE Or(status, o)
  /\ hist' = [hist EXCEPT ![This] = o]
  /\ k' = k + 1
  /\ UNCHANGED <<mod, nvm, tz, hangs, run, armed, aborted, torn>>

SkippedTest ==
  /\ Calling /\ This \in SkipTests
  /\ Finish(Begun, "SKIP")

OrdinaryTest ==
  /\ Calling /\ This \notin SkipTests \cup ResetTests
  /\ \E o \in Outcomes : Finish(Begun, o)

\* Mutant: the flag is not written.
ArmWithoutFlag ==
  /\ Calling /\ This \in ResetTests \ SkipTests /\ flag # This
  /\ UNCHANGED flag
  /\ saved' = IF This = LsTest3 THEN saved ELSE Begun
  /\ tz' = (tz \/ This = LsTest3)
  /\ armed' = armed \cup {This}
  /\ Boot
  /\ UNCHANGED <<hangs, run, hist, aborted, torn>>

\* Mutant: the counters are not saved.
ArmWithoutSave ==
  /\ Calling /\ This \in ResetTests \ SkipTests /\ flag # This
  /\ flag' = This
  /\ tz' = (tz \/ This = LsTest3)
  /\ armed' = armed \cup {This}
  /\ Boot
  /\ UNCHANGED <<saved, hangs, run, hist, aborted, torn>>

\* The first half of a reset test: write the flag, save the counters (ls003
\* does not, and programs the tie-off instead) and reset.
ArmReset ==
  /\ Calling /\ This \in ResetTests \ SkipTests /\ flag # This
  /\ flag' = This
  /\ saved' = IF This = LsTest3 THEN saved ELSE Begun
  /\ tz' = (tz \/ This = LsTest3)
  /\ armed' = armed \cup {This}
  /\ Boot
  /\ UNCHANGED <<hangs, run, hist, aborted, torn>>

\* rme031 gives up before its reset when a PE does not answer.
GiveUp ==
  /\ ~PEsAnswer
  /\ Calling /\ This = 31 /\ This \notin SkipTests /\ flag # 31
  /\ Finish(Begun, "FAIL")

\* Mutant: the first call does not look at the flag.
ResumeAlways ==
  /\ Calling /\ This \in ResetTests \ SkipTests
  /\ \E o \in {"PASS", "FAIL"} \cup (IF This = LsTest3 THEN {"SKIP"} ELSE {}) :
       Finish(IF This = LsTest3 THEN Begun ELSE saved, o)

\* The second half: restore the counters (ls003 does not) and judge. The saved
\* total has the test in it already.
ResumeTest ==
  /\ Calling /\ This \in ResetTests \ SkipTests /\ flag = This
  /\ \E o \in {"PASS", "FAIL"} \cup (IF This = LsTest3 THEN {"SKIP"} ELSE {}) :
       Finish(IF This = LsTest3 THEN Begun ELSE saved, o)

\* val_prog_legacy_tz(CLEAR), which asks EL3 to SET the tie-off whatever its
\* argument, val_write_reset_status and val_system_reset.
DisableTieOff ==
  /\ TieOffNext
  /\ tz' = TRUE
  /\ flag' = LsDisblFlag
  /\ Boot
  /\ UNCHANGED <<saved, history>>

-----------------------------------------------------------------------------
\* A test hangs, and the user resets the machine.
Hang ==
  /\ Calling /\ This \notin SkipTests /\ hangs < MaxHangs
  /\ hangs' = hangs + 1
  /\ Boot
  /\ UNCHANGED <<nvm, tz, run, hist, armed, aborted, torn>>

\* The user resets the machine between the two stores of a reset test.
CutShort ==
  /\ Calling /\ This \in RmeResets \ SkipTests /\ flag # This /\ hangs < MaxHangs
  /\ flag' = This /\ torn' = TRUE
  /\ armed' = armed \cup {This}
  /\ hangs' = hangs + 1
  /\ Boot
  /\ UNCHANGED <<saved, tz, run, hist, aborted>>

\* val_pe_default_esr fails the PE and returns to print_test_status.
UnexpectedException ==
  /\ Calling /\ This \notin SkipTests
  /\ counter' = Begun
  /\ mod' = "end" /\ k' = 0 /\ aborted' = TRUE
  /\ UNCHANGED <<status, nvm, tz, hangs, run, hist, armed, torn>>

\* "RME tests complete. Reset the system.", and the suite runs again.
Rerun ==
  /\ mod = "end" /\ run < MaxRuns
  /\ run' = run + 1
  /\ hist' = [t \in Tests |-> "NONE"] /\ armed' = {} /\ aborted' = FALSE /\ torn' = FALSE
  /\ Boot
  /\ UNCHANGED <<nvm, tz, hangs>>

Step == /\ \/ Enter \/ SkipModule \/ Return
           \/ SkippedTest \/ OrdinaryTest \/ ArmReset \/ GiveUp \/ ResumeTest
           \/ DisableTieOff \/ UnexpectedException \/ Hang \/ CutShort \/ Rerun
        /\ UNCHANGED sc

\* The application stops in while (1).
Stopped == mod = "end" /\ UNCHANGED vars

Next == Step \/ Stopped

Spec == Init /\ [][Next]_vars

\* The application keeps running: it has one thread and waits for nobody.
FairSpec == Spec /\ WF_vars(Step)

-----------------------------------------------------------------------------
Selected == UNION {{Calls[m][i] : i \in DOMAIN Calls[m]} :
                     m \in {x \in Modules \ SkipModules : x = "legacy" => LegacyTz}}

Complete == mod = "end" /\ ~aborted

\* The summary of a first run counts every test once, with its last outcome,
\* whatever resets and hangs came in between (pal_save_global_test_data: "Saves
\* the test status, i.e., total tests, tests passed and tests failed before any
\* system reset on Non-Volatile Memory").  A second run starts from the counters
\* of the first; ls003 does not save them, so this is so only where there are no
\* legacy tests, and where no reset came between the store of the flag and that
\* of the counters; a reset test left out by its number counts twice, once at
\* each of its calls, and so does rme031 when it gives up before its reset.
CountedOnce ==
  Complete /\ run = 1 /\ ~LegacyTz /\ PEsAnswer /\ ~torn =>
    LET Of(os) == Cardinality({t \in Tests : hist[t] \in os})
    IN  /\ counter["total"] = Of(Outcomes) + Cardinality(RmeResets \cap SkipTests \cap Selected)
        /\ counter["pass"] = Of({"PASS"}) /\ counter["fail"] = Of({"FAIL"})

\* A first run that comes to its end has run, or skipped by number, every test
\* of every module the user selected (val_rme_da_execute_tests: "This API will
\* execute all RME DA tests"), whatever resets and hangs came in between.  The
\* DA module takes the flags of rme031 and of the legacy tests for an
\* interrupted run: where one of them is the last, it runs nothing.
EveryTestRan ==
  Complete /\ run = 1 =>
    \A t \in Selected :
      (t \in 601 .. 620 => ~LegacyTz /\ 32 \notin SkipTests) => hist[t] # "NONE"

\* In a first run a reset test passes only after a reset it has asked for
\* (rme032: "1. Apply system reset. 2. Access the Root SMEM using all access
\* PAS"). A second run on the same memory may find a flag of the first.
PassedAfterReset ==
  run = 1 => \A t \in ResetTests \cap Tests : hist[t] = "PASS" => t \in armed

\* Where a boot with this flag starts.
Rank(f) == IF f = NoFlag THEN 0
           ELSE IF f \in RmeResets THEN Resume("rme", f) ELSE Len(RmeCalls)

\* A boot never goes back: once the flag of a reset test is set, the tests
\* before that test are not run again, hang or no hang.
NeverBackwards ==
  [][mod = "rme" /\ k > 0 /\ run' = run => Rank(flag') >= Rank(flag)
       /\ k >= Rank(flag)]_vars

\* The suite comes to its summary.
Termination == <>(mod = "end")

=============================================================================
