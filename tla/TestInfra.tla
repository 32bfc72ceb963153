------------------------------ MODULE TestInfra ------------------------------
(***************************************************************************)
(* The dispatch of tests over the PEs of the machine: the primary PE runs  *)
(* val_initialize_test, the payload, val_execute_on_pe,                    *)
(* val_wait_for_test_completion and val_check_for_error for one test after *)
(* another, while the secondaries it powers on with PSCI CPU_ON run        *)
(* val_test_entry and report through the shared memory.                    *)
(*                                                                         *)
(* A step is one access to the memory the PEs share, so that every         *)
(* interleaving of the primary's loops with the reports is a behaviour.    *)
(***************************************************************************)
EXTENDS Integers, FiniteSets

CONSTANTS NumPE,        \* val_pe_get_num()
          Primary,      \* index of the PE that runs the suite
          NumTests,     \* length of the sequence of tests
          Kind,         \* Kind[t]: how the entry function of test t runs it
          SkipTests,    \* g_skip_test_num
          Patient,      \* TRUE: a PE always answers before TIMEOUT_LARGE ends
          WaitBudget    \* TIMEOUT_LARGE

PE        == 0 .. NumPE - 1
Secondary == PE \ {Primary}
Tests     == 1 .. NumTests
Kinds     == {"payload", "serial", "single"}

\* Two rounds at least: val_wait_for_test_completion scans before it expires.
\* On a machine with one PE every test is a single-PE test.
ASSUME InfraAssumption ==
  /\ NumPE \in Nat /\ NumPE >= 2
  /\ Primary \in PE
  /\ NumTests \in Nat
  /\ Kind \in [Tests -> Kinds]
  /\ SkipTests \subseteq Tests
  /\ Patient \in BOOLEAN
  /\ WaitBudget \in Nat /\ WaitBudget >= 2

VARIABLES pc,           \* control point of the primary
          test,         \* number of the test being run, 0 before the first
          idx,          \* i of the primary's loops
          last,         \* j of val_wait_for_test_completion
          timeout,      \* timeout of the loop being run
          seen,         \* status of val_check_for_error
          status,       \* mem[p].status, the state and the test that set it
          data,         \* mem[p].data0, as the test whose payload it points to
          power,        \* control point of each secondary
          vector,       \* the payload a secondary picked up
          total, pass, fail,  \* g_rme_tests_total, _pass and _fail
          verdict,      \* what val_check_for_error returned for each test
          reported      \* history: what PEs, or CPU_ON for them, reported

counters    == <<total, pass, fail>>
primaryVars == <<pc, test, idx, last, timeout, seen, counters, verdict>>
vars == <<pc, test, idx, last, timeout, seen, status, data, power, vector,
          counters, verdict, reported>>

States   == {"NONE", "PENDING", "PASS", "FAIL", "SKIP"}
Verdicts == {"NONE", "PASS", "FAIL", "SKIP"}
PCs      == {"idle", "own", "dispatch", "set_data", "cpu_on", "poll", "polled",
             "wait", "scan", "expired", "check", "conclude"}
Powers   == {"off", "on_pending", "entry", "run", "exit"}

\* RESULT_PENDING(t), RESULT_PASS(t), ...: the test number is stored with the
\* state, and no reader of the status ever looks at it.
Result(s, t) == [state |-> s, num |-> t]

\* num_pe of test t: the single-PE tests pass 1 whatever the machine has.
PEsOf(t) == IF Kind[t] = "single" THEN {0} ELSE PE

Report(p, t, s) == [pe |-> p, num |-> t, state |-> s]

-----------------------------------------------------------------------------
Init ==
  /\ pc = "idle" /\ test = 0 /\ idx = 0 /\ last = 0 /\ timeout = 0
  /\ seen = "NONE"
  /\ status = [p \in PE |-> Result("NONE", 0)]
  /\ data = [p \in PE |-> 0]
  /\ power = [p \in Secondary |-> "off"]
  /\ vector = [p \in Secondary |-> 0]
  /\ total = 0 /\ pass = 0 /\ fail = 0
  /\ verdict = [t \in Tests |-> "NONE"]
  /\ reported = {}

\* Mutant: the loop that sets PENDING is left out.
InitializeNoPending ==
  /\ pc = "idle" /\ test < NumTests
  /\ test' = test + 1
  /\ total' = total + 1 /\ UNCHANGED <<pass, fail>>
  /\ IF test + 1 \in SkipTests
       THEN /\ status' = [status EXCEPT ![Primary] = Result("SKIP", test + 1)]
            /\ pc' = "check"
       ELSE /\ UNCHANGED status
            /\ pc' = IF Kind[test + 1] = "serial" THEN "dispatch" ELSE "own"
  /\ idx' = 0 /\ seen' = "NONE"
  /\ UNCHANGED <<last, timeout, data, power, vector, verdict, reported>>

\* val_initialize_test for the next test. The stores of the loop that sets
\* PENDING commute with the reports of late PEs, so the loop is one step.
val_initialize_test ==
  /\ pc = "idle" /\ test < NumTests
  /\ test' = test + 1
  /\ total' = total + 1 /\ UNCHANGED <<pass, fail>>
  /\ LET pending == [p \in PE |-> IF p \in PEsOf(test + 1)
                                    THEN Result("PENDING", test + 1)
                                    ELSE status[p]]
     IN  IF test + 1 \in SkipTests
           THEN /\ status' = [pending EXCEPT ![Primary] = Result("SKIP", test + 1)]
                /\ pc' = "check"
           ELSE /\ status' = pending
                /\ pc' = IF Kind[test + 1] = "serial" THEN "dispatch" ELSE "own"
  /\ idx' = 0 /\ seen' = "NONE"
  /\ UNCHANGED <<last, timeout, data, power, vector, verdict, reported>>

\* payload() on the present PE. Only the single-PE payloads skip by themselves.
RunOwnPayload ==
  /\ pc = "own"
  /\ \E s \in {"PASS", "FAIL"} \cup (IF Kind[test] = "single" THEN {"SKIP"} ELSE {}) :
       /\ status' = [status EXCEPT ![Primary] = Result(s, test)]
       /\ reported' = reported \cup {Report(Primary, test, s)}
  /\ pc' = IF Kind[test] = "single" THEN "check" ELSE "dispatch"
  /\ UNCHANGED <<test, idx, last, timeout, seen, data, power, vector, counters, verdict>>

\* The loop over the PEs, at the head of an iteration: the primary itself is
\* passed over, val_execute_on_pe is entered for another PE, or the loop ends.
DispatchSelf ==
  /\ pc = "dispatch" /\ idx = Primary
  /\ idx' = idx + 1
  /\ UNCHANGED <<pc, test, last, timeout, seen, status, data, power, vector,
                 counters, verdict, reported>>

DispatchOther ==
  /\ pc = "dispatch" /\ idx \in Secondary
  /\ pc' = "set_data"
  /\ timeout' = WaitBudget
  /\ UNCHANGED <<test, idx, last, seen, status, data, power, vector, counters,
                 verdict, reported>>

\* Mutant: val_run_test_payload does not wait.
DispatchEndNoWait ==
  /\ pc = "dispatch" /\ idx = NumPE
  /\ pc' = "check" /\ idx' = 0
  /\ UNCHANGED <<test, last, timeout, seen, status, data, power, vector, counters,
                 verdict, reported>>

\* The last PE is dispatched: wait for the reports, or judge a serial test.
DispatchEnd ==
  /\ pc = "dispatch" /\ idx = NumPE
  /\ pc' = IF Kind[test] = "serial" THEN "check" ELSE "wait"
  /\ idx' = 0
  /\ timeout' = WaitBudget
  /\ UNCHANGED <<test, last, seen, status, data, power, vector, counters, verdict,
                 reported>>

\* val_execute_on_pe stores the payload in the shared memory of the PE ...
val_set_test_data ==
  /\ pc = "set_data"
  /\ data' = [data EXCEPT ![idx] = test]
  /\ pc' = "cpu_on"
  /\ UNCHANGED <<test, idx, last, timeout, seen, status, power, vector, counters,
                 verdict, reported>>

\* Where the caller of val_execute_on_pe goes on: a serial test polls the PE,
\* val_run_test_payload goes to the next one.
AfterExecute ==
  IF Kind[test] = "serial"
    THEN pc' = "poll" /\ timeout' = WaitBudget /\ UNCHANGED idx
    ELSE pc' = "dispatch" /\ idx' = idx + 1 /\ UNCHANGED timeout

\* ... and powers the PE on. Firmware accepts the call for a PE that is off.
CpuOnSuccess ==
  /\ pc = "cpu_on" /\ power[idx] = "off"
  /\ power' = [power EXCEPT ![idx] = "on_pending"]
  /\ AfterExecute
  /\ UNCHANGED <<test, last, seen, status, data, vector, counters, verdict, reported>>

\* Mutant: the retries are not counted.
CpuOnRetryForever ==
  /\ pc = "cpu_on" /\ power[idx] \in {"entry", "run", "exit"}
  /\ pc' = "set_data"
  /\ UNCHANGED <<test, idx, last, timeout, seen, status, data, power, vector,
                 counters, verdict, reported>>

\* ALREADY_ON: store the payload and call again, while the budget lasts.
CpuOnRetry ==
  /\ pc = "cpu_on" /\ power[idx] \in {"entry", "run", "exit"}
  /\ Patient \/ timeout > 0
  /\ timeout' = IF Patient THEN timeout ELSE timeout - 1
  /\ pc' = "set_data"
  /\ UNCHANGED <<test, idx, last, seen, status, data, power, vector, counters,
                 verdict, reported>>

\* ALREADY_ON with the budget spent, ON_PENDING, or an error of the firmware,
\* which may come for a PE that is off: the PE is failed on its behalf.
CpuOnFail ==
  /\ pc = "cpu_on"
  /\ \/ power[idx] \in {"off", "on_pending"}
     \/ power[idx] \in {"entry", "run", "exit"} /\ ~Patient /\ timeout = 0
  /\ status' = [status EXCEPT ![idx] = Result("FAIL", 0)]
  /\ reported' = reported \cup {Report(idx, test, "FAIL")}
  /\ AfterExecute
  /\ UNCHANGED <<test, last, seen, data, power, vector, counters, verdict>>

-----------------------------------------------------------------------------
\* while ((--timeout) && IS_RESULT_PENDING(val_get_status(i))) of a serial test
PollPending ==
  /\ pc = "poll" /\ (Patient \/ timeout > 1)
  /\ status[idx].state = "PENDING"
  /\ timeout' = IF Patient THEN timeout ELSE timeout - 1
  /\ UNCHANGED <<pc, test, idx, last, seen, status, data, power, vector, counters,
                 verdict, reported>>

PollDone ==
  /\ pc = "poll" /\ (Patient \/ timeout > 1)
  /\ status[idx].state # "PENDING"
  /\ pc' = "polled"
  /\ UNCHANGED <<test, idx, last, timeout, seen, status, data, power, vector,
                 counters, verdict, reported>>

\* The budget is spent: the PE is failed and the payload gives up.
PollExpired ==
  /\ pc = "poll" /\ ~Patient /\ timeout <= 1
  /\ status' = [status EXCEPT ![idx] = Result("FAIL", test)]
  /\ pc' = "check" /\ idx' = 0
  /\ UNCHANGED <<test, last, timeout, seen, data, power, vector, counters, verdict,
                 reported>>

\* The status is read again: a failure ends the payload.
Polled ==
  /\ pc = "polled"
  /\ IF status[idx].state = "FAIL"
       THEN pc' = "check" /\ idx' = 0
       ELSE pc' = "dispatch" /\ idx' = idx + 1
  /\ UNCHANGED <<test, last, timeout, seen, status, data, power, vector, counters,
                 verdict, reported>>

-----------------------------------------------------------------------------
\* val_wait_for_test_completion: the head of while (--timeout) ...
WaitRound ==
  /\ pc = "wait" /\ (Patient \/ timeout > 1)
  /\ timeout' = IF Patient THEN timeout ELSE timeout - 1
  /\ pc' = "scan" /\ idx' = 0 /\ last' = 0
  /\ UNCHANGED <<test, seen, status, data, power, vector, counters, verdict, reported>>

\* Mutant: j is the index itself.
ScanOffByOne ==
  /\ pc = "scan" /\ idx < NumPE
  /\ last' = IF status[idx].state = "PENDING" THEN idx ELSE last
  /\ idx' = idx + 1
  /\ UNCHANGED <<pc, test, timeout, seen, status, data, power, vector, counters,
                 verdict, reported>>

\* ... the scan, which remembers the last PE found pending ...
Scan ==
  /\ pc = "scan" /\ idx < NumPE
  /\ last' = IF status[idx].state = "PENDING" THEN idx + 1 ELSE last
  /\ idx' = idx + 1
  /\ UNCHANGED <<pc, test, timeout, seen, status, data, power, vector, counters,
                 verdict, reported>>

ScanEnd ==
  /\ pc = "scan" /\ idx = NumPE
  /\ pc' = IF last = 0 THEN "check" ELSE "wait"
  /\ idx' = 0
  /\ UNCHANGED <<test, last, timeout, seen, status, data, power, vector, counters,
                 verdict, reported>>

\* ... and the expiry, which fails that one PE.
WaitExpired ==
  /\ pc = "wait" /\ ~Patient /\ timeout <= 1
  /\ status' = [status EXCEPT ![last - 1] = Result("FAIL", test)]
  /\ pc' = "check" /\ idx' = 0
  /\ UNCHANGED <<test, last, timeout, seen, data, power, vector, counters, verdict,
                 reported>>

-----------------------------------------------------------------------------
\* val_check_for_error: the status of the present PE for a single-PE test ...
CheckOwn ==
  /\ pc = "check" /\ Kind[test] = "single"
  /\ seen' = status[Primary].state
  /\ pc' = "conclude"
  /\ UNCHANGED <<test, idx, last, timeout, status, data, power, vector, counters,
                 verdict, reported>>

\* ... else the statuses in turn, up to the first FAIL or SKIP. The loop ends
\* with the status it read last.
CheckNext ==
  /\ pc = "check" /\ Kind[test] # "single"
  /\ seen' = status[idx].state
  /\ idx' = idx + 1
  /\ pc' = IF seen' \in {"FAIL", "SKIP"} \/ idx' = NumPE THEN "conclude" ELSE "check"
  /\ UNCHANGED <<test, last, timeout, status, data, power, vector, counters,
                 verdict, reported>>

\* Mutant: a skipped test is a failed one.
OutcomeNoSkip(s) == IF s = "PASS" THEN s ELSE "FAIL"

\* The outcome that follows from a status: everything else is a failure.
Outcome(s) == IF s \in {"PASS", "SKIP"} THEN s ELSE "FAIL"

Conclude ==
  /\ pc = "conclude"
  /\ verdict' = [verdict EXCEPT ![test] = Outcome(seen)]
  /\ pass' = IF Outcome(seen) = "PASS" THEN pass + 1 ELSE pass
  /\ fail' = IF Outcome(seen) = "FAIL" THEN fail + 1 ELSE fail
  /\ UNCHANGED total
  /\ pc' = "idle" /\ idx' = 0
  /\ UNCHANGED <<test, last, timeout, seen, status, data, power, vector, reported>>

-----------------------------------------------------------------------------
\* The firmware completes CPU_ON.
Boot(p) ==
  /\ power[p] = "on_pending"
  /\ power' = [power EXCEPT ![p] = "entry"]
  /\ UNCHANGED <<primaryVars, status, data, vector, reported>>

\* val_test_entry: pick up the payload ...
val_get_test_data(p) ==
  /\ power[p] = "entry"
  /\ vector' = [vector EXCEPT ![p] = data[p]]
  /\ power' = [power EXCEPT ![p] = "run"]
  /\ UNCHANGED <<primaryVars, status, data, reported>>

\* ... run it, which ends by reporting a result of that test. Before a serial
\* payload (id_regs_check) reports a failure it leaves the register it read in
\* data0, where 0 stands for anything but a payload. A PE that was given such a
\* value has nowhere to go and is lost ...
RunPayload(p) ==
  /\ power[p] = "run" /\ vector[p] \in Tests
  /\ \E s \in {"PASS", "FAIL"} :
       /\ status' = [status EXCEPT ![p] = Result(s, vector[p])]
       /\ reported' = reported \cup {Report(p, vector[p], s)}
       /\ data' = IF s = "FAIL" /\ Kind[vector[p]] = "serial"
                    THEN [data EXCEPT ![p] = 0] ELSE data
  /\ power' = [power EXCEPT ![p] = "exit"]
  /\ UNCHANGED <<primaryVars, vector>>

\* ... and switch the PE off.
CpuOff(p) ==
  /\ power[p] = "exit"
  /\ power' = [power EXCEPT ![p] = "off"]
  /\ UNCHANGED <<primaryVars, status, data, vector, reported>>

-----------------------------------------------------------------------------
PrimaryStep ==
  \/ val_initialize_test \/ RunOwnPayload
  \/ DispatchSelf \/ DispatchOther \/ DispatchEnd
  \/ val_set_test_data \/ CpuOnSuccess \/ CpuOnRetry \/ CpuOnFail
  \/ PollPending \/ PollDone \/ PollExpired \/ Polled
  \/ WaitRound \/ Scan \/ ScanEnd \/ WaitExpired
  \/ CheckOwn \/ CheckNext \/ Conclude

SecondaryStep(p) == Boot(p) \/ val_get_test_data(p) \/ RunPayload(p) \/ CpuOff(p)

\* The suite is over.
Finished == pc = "idle" /\ test = NumTests

Next == \/ PrimaryStep
        \/ \E p \in Secondary : SecondaryStep(p)
        \/ Finished /\ UNCHANGED vars

Spec == Init /\ [][Next]_vars

\* The primary never stops; in a patient run neither do the secondaries.
Fairness == /\ WF_vars(PrimaryStep)
            /\ Patient => \A p \in Secondary : WF_vars(SecondaryStep(p))

FairSpec == Spec /\ Fairness

-----------------------------------------------------------------------------
\* Type invariant.
TypeOK ==
  /\ pc \in PCs /\ test \in 0 .. NumTests /\ idx \in 0 .. NumPE
  /\ last \in 0 .. NumPE /\ timeout \in 0 .. WaitBudget /\ seen \in States
  /\ status \in [PE -> [state : States, num : 0 .. NumTests]]
  /\ data \in [PE -> 0 .. NumTests]
  /\ power \in [Secondary -> Powers]
  /\ vector \in [Secondary -> 0 .. NumTests]
  /\ total \in Nat /\ pass \in Nat /\ fail \in Nat
  /\ verdict \in [Tests -> Verdicts]
  /\ reported \subseteq [pe : PE, num : 0 .. NumTests, state : States]

\* The PEs whose result the verdict of test t stands for.
Required(t) == CASE Kind[t] = "payload" -> PE
                 [] Kind[t] = "serial"  -> Secondary
                 [] Kind[t] = "single"  -> {Primary}

\* A test counts as passed only if every PE it was meant for ran the payload
\* of that very test and reported PASS (val_check_for_error: "get the result
\* from all PE and check for failure").
PassSound ==
  \A t \in Tests : verdict[t] = "PASS" =>
    \A p \in Required(t) : Report(p, t, "PASS") \in reported

\* A test counts as failed only if a PE reported a failure of it, or could not
\* be powered on for it (val_check_for_error: "Success or on failure - status
\* of the last failed PE").
FailSound ==
  \A t \in Tests : verdict[t] = "FAIL" =>
    \E p \in PE : Report(p, t, "FAIL") \in reported

\* Between CPU_ON and its report a secondary has the payload of the test the
\* primary is running, and the primary has not begun to judge that test: no
\* store to data0 ever reaches a PE that still needs the previous one.
NoStrayPayload ==
  \A p \in Secondary :
    power[p] \in {"on_pending", "entry", "run"} =>
      /\ data[p] = test
      /\ power[p] = "run" => vector[p] = test
      /\ pc \notin {"idle", "own", "check", "conclude"}

\* When val_wait_for_test_completion is over no PE is left PENDING ("wait for
\* all PEs to report their status or we timeout and set a failure").
NoPendingAfterWait ==
  pc = "check" /\ idx = 0 /\ test \notin SkipTests /\ Kind[test] = "payload"
    => \A p \in PE : status[p].state # "PENDING"

\* When the wait of val_wait_for_test_completion expires, j - 1 is an index of
\* the PE table and no PE after it is still pending ("set the last index PE as
\* failed"), although PEs go on reporting between the last scan and the expiry.
ExpiryBlamesLast ==
  pc = "wait" /\ ~Patient /\ timeout <= 1 =>
    /\ last - 1 \in PE
    /\ \A p \in PE : p >= last => status[p].state # "PENDING"

\* The suite comes to its end, whatever the secondaries do.
Termination == <>Finished

-----------------------------------------------------------------------------
\* The abstract view: a test is open while the primary is not idle, and has
\* heard what was reported on it.
Heard(p) == {s \in States : pc # "idle" /\ Report(p, test, s) \in reported}

Promise == INSTANCE TestVerdicts WITH
             Skip    <- SkipTests,
             open    <- IF pc = "idle" THEN 0 ELSE test,
             done    <- IF pc = "idle" THEN test ELSE test - 1,
             got     <- [p \in PE |-> Heard(p)],
             outcome <- verdict

\* The interleaved dispatch implements the promise of TestVerdicts: no PE of
\* val_run_test_payload reports twice or on a test that is over, and what
\* val_check_for_error returns follows from the reports.
KeepsPromise == Promise!Spec

=============================================================================
