--------------------------- MODULE TestInfraProofs ---------------------------
(***************************************************************************)
(* The dispatch of tests over the PEs, for every number of PEs and tests:  *)
(* its types and, when every PE answers in time, that the verdicts are     *)
(* sound, and that TestInfra implements TestVerdicts where the primary is  *)
(* not the last PE.                                                        *)
(***************************************************************************)
EXTENDS TestInfra, TLAPS

\* The secondary is between CPU_ON and its report.
Busy(p) == power[p] \in {"on_pending", "entry", "run"}

Dispatching == {"dispatch", "set_data", "cpu_on", "poll", "polled"}
Judging     == {"check", "conclude"}

-----------------------------------------------------------------------------
(* The parts of the inductive invariant.                                   *)

\* Where the loop index points.
IdxInv ==
  /\ pc # "idle" => test \in Tests
  /\ pc \in {"set_data", "cpu_on", "poll", "polled"} => idx \in Secondary
  /\ pc \in Judging /\ Kind[test] # "single" => (pc = "check" => idx \in PE)
  /\ pc \in {"wait", "scan"} => Kind[test] = "payload"
  /\ pc \in {"poll", "polled"} => Kind[test] = "serial"
  /\ pc \in Dispatching => Kind[test] # "single"
  /\ pc = "own" => idx = 0 /\ Kind[test] # "serial"
  /\ pc \notin Judging /\ pc # "idle" => test \notin SkipTests

\* A busy secondary has the current payload and is still PENDING.
BusyInv ==
  \A p \in Secondary : Busy(p) =>
    /\ data[p] = test
    /\ power[p] = "run" => vector[p] = test
    /\ status[p].state = "PENDING"
    /\ pc \in Dispatching \cup {"wait", "scan"}
    /\ pc \in Dispatching /\ Kind[test] = "payload" => p < idx
    /\ Kind[test] = "serial" => pc = "poll" /\ p = idx

\* The PEs the dispatch loop has not come to are PENDING.
PendInv ==
  /\ pc = "own" /\ Kind[test] = "payload" =>
       \A p \in Secondary : status[p].state = "PENDING"
  /\ pc \in {"dispatch", "set_data", "cpu_on"} =>
       \A p \in Secondary : p >= idx => status[p].state = "PENDING"
  /\ pc \in {"poll", "polled"} =>
       \A p \in Secondary : p > idx => status[p].state = "PENDING"

\* A PE still PENDING behind the scan has been noticed.
ScanInv ==
  pc = "scan" => \A p \in PE : p < idx /\ status[p].state = "PENDING" => last > 0

\* A status of the current test is backed by a report.
StatusInv ==
  /\ pc # "idle" /\ Kind[test] # "single" =>
       \A p \in PE :
         /\ status[p].state \in {"PASS", "FAIL"} =>
              Report(p, test, status[p].state) \in reported
         /\ status[p].state # "NONE"
         /\ status[p].state = "SKIP" => p = Primary /\ test \in SkipTests
  /\ pc \in Judging /\ Kind[test] = "single" =>
       /\ status[Primary].state \in {"PASS", "FAIL", "SKIP"}
       /\ status[Primary].state \in {"PASS", "FAIL"} =>
            Report(Primary, test, status[Primary].state) \in reported

\* The primary of a payload test has reported; a serial test has been through
\* the PEs before idx; CPU_ON follows the store of the payload.
ProgressInv ==
  /\ pc \in Dispatching \cup {"wait", "scan"} /\ Kind[test] = "payload" =>
       status[Primary].state # "PENDING"
  /\ pc \in Dispatching /\ Kind[test] = "serial" =>
       \A p \in Secondary : p < idx => status[p].state # "PENDING"
  /\ pc = "polled" => status[idx].state # "PENDING"
  /\ pc = "cpu_on" => data[idx] = test

\* When the test is judged every PE has reported, or one has failed.
JudgeInv ==
  pc \in Judging /\ test \notin SkipTests =>
    /\ Kind[test] = "payload" => \A p \in PE : status[p].state # "PENDING"
    /\ Kind[test] = "serial" =>
         \/ \A p \in Secondary : status[p].state # "PENDING"
         \/ \E p \in Secondary : status[p].state = "FAIL"

\* What val_check_for_error has read.
CheckInv ==
  /\ pc \in Judging /\ test \in SkipTests => status[Primary].state = "SKIP"
  /\ pc = "check" /\ Kind[test] # "single" =>
       \A p \in PE : p < idx => status[p].state \notin {"FAIL", "SKIP"}
  /\ pc = "conclude" /\ Kind[test] = "single" => seen = status[Primary].state
  /\ pc = "conclude" /\ Kind[test] # "single" =>
       \/ /\ seen \in {"FAIL", "SKIP"}
          /\ \E p \in PE : status[p].state = seen
       \/ /\ seen = status[NumPE - 1].state
          /\ \A p \in PE : status[p].state \notin {"FAIL", "SKIP"}

IInv == /\ BusyInv /\ PendInv /\ ScanInv /\ StatusInv /\ ProgressInv
        /\ JudgeInv /\ CheckInv

-----------------------------------------------------------------------------
(* Type correctness: needed with IdxInv, so that idx + 1 and power[idx]    *)
(* stay in range.                                                          *)

LEMMA PEFacts ==
  /\ PE \subseteq Nat /\ Primary \in PE /\ Primary \notin Secondary
  /\ Secondary \subseteq PE
  /\ \A p \in PE : p < NumPE /\ p + 1 \in 0 .. NumPE
  /\ NumPE - 1 \in PE /\ 0 \in PE
BY InfraAssumption DEF PE, Secondary

LEMMA TypeInit == Init => TypeOK /\ IdxInv
BY InfraAssumption, PEFacts
DEF Init, TypeOK, IdxInv, PCs, States, Powers, Verdicts, Result, Dispatching, Judging

LEMMA TypeStep == TypeOK /\ IdxInv /\ [Next]_vars => TypeOK' /\ IdxInv'
<1> SUFFICES ASSUME TypeOK, IdxInv, [Next]_vars PROVE TypeOK' /\ IdxInv'
  OBVIOUS
<1> USE InfraAssumption, PEFacts DEF TypeOK, counters, Dispatching, Judging
<1>1. CASE val_initialize_test
  <2>1. TypeOK'
    <3>1. test + 1 \in 0 .. NumTests /\ Tests \subseteq 0 .. NumTests
      BY <1>1 DEF val_initialize_test, Tests
    <3>2. status' \in [PE -> [state : States, num : 0 .. NumTests]]
      <4> DEFINE pending == [p \in PE |-> IF p \in PEsOf(test + 1)
                                             THEN Result("PENDING", test + 1)
                                             ELSE status[p]]
      <4>1. pending \in [PE -> [state : States, num : 0 .. NumTests]]
        BY <3>1 DEF Result, States
      <4>2. [pending EXCEPT ![Primary] = Result("SKIP", test + 1)]
              \in [PE -> [state : States, num : 0 .. NumTests]]
        <5> HIDE DEF pending
        <5> QED BY <3>1, <4>1 DEF Result, States
      <4> QED
        BY ZenonT(60), <1>1, <4>1, <4>2 DEF val_initialize_test
    <3>3. pc' \in PCs /\ idx' \in 0 .. NumPE /\ test' \in 0 .. NumTests /\ seen' \in States
      BY <1>1, <3>1, <3>2 DEF val_initialize_test, PCs, States
    <3> QED
      BY <1>1, <3>1, <3>2, <3>3 DEF val_initialize_test
  <2>2. IdxInv'
    BY <1>1 DEF val_initialize_test, Result, PEsOf, IdxInv, Tests, Kinds
  <2> QED BY <2>1, <2>2
<1>2. CASE RunOwnPayload
  <2>1. TypeOK'
    <3>1. test \in 0 .. NumTests
      BY <1>2 DEF RunOwnPayload, IdxInv, Tests
    <3>2. status' \in [PE -> [state : States, num : 0 .. NumTests]]
      BY <1>2, <3>1 DEF RunOwnPayload, Result, States
    <3>3. reported' \subseteq [pe : PE, num : 0 .. NumTests, state : States]
      BY <1>2, <3>1, <3>2 DEF RunOwnPayload, Report, States
    <3>4. pc' \in PCs
      BY <1>2, <3>1, <3>2, <3>3 DEF RunOwnPayload, PCs
    <3> QED
      BY <1>2, <3>1, <3>2, <3>3, <3>4 DEF RunOwnPayload
  <2>2. IdxInv'
    BY <1>2 DEF RunOwnPayload, Result, Report, IdxInv, Tests, Kinds
  <2> QED BY <2>1, <2>2
<1>3. CASE DispatchSelf
  <2>1. TypeOK'
    BY Zenon, <1>3 DEF DispatchSelf, IdxInv, PCs, States, Powers, Verdicts, Tests
  <2>2. IdxInv'
    BY <1>3 DEF DispatchSelf, IdxInv, Tests, Kinds
  <2> QED BY <2>1, <2>2
<1>4. CASE DispatchOther
  <2>1. TypeOK'
    <3>1. pc' \in PCs /\ timeout' \in 0 .. WaitBudget
      BY <1>4 DEF DispatchOther, PCs
    <3> QED
      BY <1>4, <3>1 DEF DispatchOther
  <2>2. IdxInv'
    BY <1>4 DEF DispatchOther, IdxInv, Tests, Kinds
  <2> QED BY <2>1, <2>2
<1>5. CASE DispatchEnd
  <2>1. TypeOK'
    <3>1. pc' \in PCs /\ idx' \in 0 .. NumPE /\ timeout' \in 0 .. WaitBudget
      BY <1>5 DEF DispatchEnd, PCs
    <3> QED
      BY <1>5, <3>1 DEF DispatchEnd
  <2>2. IdxInv'
    BY <1>5 DEF DispatchEnd, IdxInv, Tests, Kinds
  <2> QED BY <2>1, <2>2
<1>6. CASE val_set_test_data
  <2>1. TypeOK'
    BY Zenon, <1>6 DEF val_set_test_data, IdxInv, PCs, States, Powers, Verdicts, Tests
  <2>2. IdxInv'
    BY <1>6 DEF val_set_test_data, IdxInv, Tests, Kinds
  <2> QED BY <2>1, <2>2
<1>7. CASE CpuOnSuccess
  <2>1. TypeOK'
    <3>1. idx \in Secondary
      BY <1>7 DEF CpuOnSuccess, IdxInv
    <3>2. power' \in [Secondary -> Powers]
      BY <1>7, <3>1 DEF CpuOnSuccess, Powers
    <3>3. pc' \in PCs /\ idx' \in 0 .. NumPE /\ timeout' \in 0 .. WaitBudget
      BY <1>7, <3>1, <3>2 DEF CpuOnSuccess, PCs, AfterExecute
    <3> QED
      BY <1>7, <3>1, <3>2, <3>3 DEF CpuOnSuccess
  <2>2. IdxInv'
    BY Zenon, <1>7 DEF CpuOnSuccess, AfterExecute, IdxInv, Tests, Kinds
  <2> QED BY <2>1, <2>2
<1>8. CASE CpuOnRetry
  <2>1. TypeOK'
    <3>1. pc' \in PCs /\ timeout' \in 0 .. WaitBudget
      BY <1>8 DEF CpuOnRetry, PCs
    <3> QED
      BY <1>8, <3>1 DEF CpuOnRetry
  <2>2. IdxInv'
    BY <1>8 DEF CpuOnRetry, IdxInv, Tests, Kinds
  <2> QED BY <2>1, <2>2
<1>9. CASE CpuOnFail
  <2>1. TypeOK'
    <3>1. idx \in Secondary /\ test \in 0 .. NumTests
      BY <1>9 DEF CpuOnFail, IdxInv, Tests
    <3>2. status' \in [PE -> [state : States, num : 0 .. NumTests]]
      BY <1>9, <3>1 DEF CpuOnFail, Result, States
    <3>3. reported' \subseteq [pe : PE, num : 0 .. NumTests, state : States]
      BY <1>9, <3>1, <3>2 DEF CpuOnFail, Report, States
    <3>4. pc' \in PCs /\ idx' \in 0 .. NumPE /\ timeout' \in 0 .. WaitBudget
      BY <1>9, <3>1, <3>2, <3>3 DEF CpuOnFail, PCs, AfterExecute
    <3> QED
      BY <1>9, <3>1, <3>2, <3>3, <3>4 DEF CpuOnFail
  <2>2. IdxInv'
    BY Zenon, <1>9 DEF CpuOnFail, AfterExecute, Report, Result, IdxInv, Tests, Kinds
  <2> QED BY <2>1, <2>2
<1>10. CASE PollPending
  <2>1. TypeOK'
    <3>1. timeout' \in 0 .. WaitBudget
      BY <1>10 DEF PollPending
    <3> QED
      BY <1>10, <3>1 DEF PollPending
  <2>2. IdxInv'
    BY <1>10 DEF PollPending, IdxInv, Tests, Kinds
  <2> QED BY <2>1, <2>2
<1>11. CASE PollDone
  <2>1. TypeOK'
    BY Zenon, <1>11 DEF PollDone, IdxInv, PCs, States, Powers, Verdicts, Tests
  <2>2. IdxInv'
    BY <1>11 DEF PollDone, IdxInv, Tests, Kinds
  <2> QED BY <2>1, <2>2
<1>12. CASE PollExpired
  <2>1. TypeOK'
    BY SMTT(60), <1>12 DEF PollExpired, Result, IdxInv, PCs, States, Powers, Verdicts, Tests
  <2>2. IdxInv'
    BY <1>12 DEF PollExpired, Result, IdxInv, Tests, Kinds
  <2> QED BY <2>1, <2>2
<1>13. CASE Polled
  <2>1. TypeOK'
    <3>1. idx \in Secondary
      BY <1>13 DEF Polled, IdxInv
    <3>2. pc' \in PCs /\ idx' \in 0 .. NumPE
      BY <1>13, <3>1 DEF Polled, PCs
    <3> QED
      BY <1>13, <3>1, <3>2 DEF Polled
  <2>2. IdxInv'
    BY Zenon, <1>13 DEF Polled, IdxInv, Tests, Kinds
  <2> QED BY <2>1, <2>2
<1>14. CASE WaitRound
  <2>1. TypeOK'
    BY SMTT(60), <1>14 DEF WaitRound, IdxInv, PCs, States, Powers, Verdicts, Tests
  <2>2. IdxInv'
    BY <1>14 DEF WaitRound, IdxInv, Tests, Kinds
  <2> QED BY <2>1, <2>2
<1>15. CASE Scan
  <2>1. TypeOK'
    BY SMTT(60), <1>15 DEF Scan, IdxInv, PCs, States, Powers, Verdicts, Tests
  <2>2. IdxInv'
    BY <1>15 DEF Scan, IdxInv, Tests, Kinds
  <2> QED BY <2>1, <2>2
<1>16. CASE ScanEnd
  <2>1. TypeOK'
    <3>1. pc' \in PCs /\ idx' \in 0 .. NumPE
      BY <1>16 DEF ScanEnd, PCs
    <3> QED
      BY <1>16, <3>1 DEF ScanEnd
  <2>2. IdxInv'
    BY <1>16 DEF ScanEnd, IdxInv, Tests, Kinds
  <2> QED BY <2>1, <2>2
<1>17. CASE WaitExpired
  <2>1. TypeOK'
    <3>1. pc' \in PCs /\ idx' \in 0 .. NumPE
      BY <1>17 DEF WaitExpired, PCs
    <3>2. status' \in [PE -> [state : States, num : 0 .. NumTests]]
      BY ZenonT(60), <1>17, <3>1 DEF WaitExpired, Result, States
    <3> QED
      BY <1>17, <3>1, <3>2 DEF WaitExpired
  <2>2. IdxInv'
    BY <1>17 DEF WaitExpired, Result, IdxInv, Tests, Kinds
  <2> QED BY <2>1, <2>2
<1>18. CASE CheckOwn
  <2>1. TypeOK'
    BY Zenon, <1>18 DEF CheckOwn, IdxInv, PCs, States, Powers, Verdicts, Tests
  <2>2. IdxInv'
    BY <1>18 DEF CheckOwn, IdxInv, Tests, Kinds
  <2> QED BY <2>1, <2>2
<1>19. CASE CheckNext
  <2>1. TypeOK'
    <3>1. idx \in PE
      BY <1>19 DEF CheckNext, IdxInv
    <3>2. seen' \in States
      BY <1>19, <3>1 DEF CheckNext, States
    <3>3. pc' \in PCs /\ idx' \in 0 .. NumPE
      BY <1>19, <3>1, <3>2 DEF CheckNext, PCs
    <3> QED
      BY <1>19, <3>1, <3>2, <3>3 DEF CheckNext
  <2>2. IdxInv'
    <3>1. pc' = "check" => idx' \in PE
      BY <1>19 DEF CheckNext, IdxInv, PE
    <3> QED
      BY <1>19, <3>1 DEF CheckNext, IdxInv
  <2> QED BY <2>1, <2>2
<1>20. CASE Conclude
  <2>1. TypeOK'
    BY <1>20 DEF Conclude, Outcome, IdxInv, PCs, States, Powers, Verdicts, Tests
  <2>2. IdxInv'
    BY <1>20 DEF Conclude, Outcome, IdxInv, Tests, Kinds
  <2> QED BY <2>1, <2>2
<1>21. ASSUME NEW p \in Secondary, SecondaryStep(p) PROVE TypeOK' /\ IdxInv'
  <2>1. TypeOK'
    BY <1>21 DEF SecondaryStep, Boot, val_get_test_data, RunPayload, CpuOff,
       primaryVars, Result, Report, States, Powers
  <2>2. IdxInv'
    BY <1>21 DEF SecondaryStep, Boot, val_get_test_data, RunPayload, CpuOff,
       primaryVars, IdxInv
  <2> QED BY <2>1, <2>2
<1>22. CASE UNCHANGED vars
  BY <1>22 DEF vars, IdxInv
<1>23. QED
  BY Zenon, <1>1, <1>2, <1>3, <1>4, <1>5, <1>6, <1>7, <1>8, <1>9, <1>10, <1>11, <1>12, <1>13, <1>14, <1>15, <1>16, <1>17, <1>18, <1>19, <1>20, <1>21, <1>22 DEF Next, PrimaryStep

\* The state of the dispatch stays within its types, whatever the number of PEs
\* and tests and whether or not they answer in time.
THEOREM TypeCorrect == Spec => []TypeOK
<1>1. Init => TypeOK /\ IdxInv
  BY TypeInit
<1>2. TypeOK /\ IdxInv /\ [Next]_vars => (TypeOK /\ IdxInv)'
  BY TypeStep
<1>3. QED
  BY <1>1, <1>2, PTL DEF Spec

-----------------------------------------------------------------------------
(* The verdicts are sound when every PE answers in time.                   *)

LEMMA SoundInit == Init => IInv
BY InfraAssumption, PEFacts
DEF Init, IInv, BusyInv, PendInv, ScanInv, StatusInv, ProgressInv, JudgeInv,
    CheckInv, Busy, Result, Dispatching, Judging

\* A stutter keeps what speaks of the variables only.
LEMMA SoundStutter ==
  ASSUME IInv, UNCHANGED vars
  PROVE  IInv'
<1> USE DEF vars, IInv
<1>1. BusyInv' /\ PendInv'
  BY DEF BusyInv, PendInv, Busy
<1>2. ScanInv' /\ StatusInv'
  BY DEF ScanInv, StatusInv
<1>3. ProgressInv' /\ JudgeInv'
  BY DEF ProgressInv, JudgeInv
<1>4. CheckInv'
  BY DEF CheckInv
<1> QED
  BY <1>1, <1>2, <1>3, <1>4

\* What a secondary does while the primary is anywhere.
LEMMA SecondarySound ==
  ASSUME TypeOK, IdxInv, IInv, NEW q \in Secondary, SecondaryStep(q)
  PROVE  IInv'
<1> USE InfraAssumption, PEFacts DEF IInv, Dispatching, Judging
<1> USE DEF primaryVars, counters
<1>1. /\ UNCHANGED <<pc, test, idx, last>>
      /\ \A p \in PE : p # q => status'[p] = status[p] /\ data'[p] = data[p]
      /\ \A p \in Secondary : p # q => power'[p] = power[p] /\ vector'[p] = vector[p]
      /\ reported \subseteq reported'
  BY Zenon DEF SecondaryStep, Boot, val_get_test_data, RunPayload, CpuOff, TypeOK
<1>2. CASE RunPayload(q)
  <2>1. /\ Busy(q) /\ vector[q] = test /\ status[q].state = "PENDING"
        /\ pc \in Dispatching \cup {"wait", "scan"}
    BY <1>2 DEF RunPayload, BusyInv, Busy
  <2>2. ~Busy(q)'
    BY <1>2 DEF RunPayload, Busy, TypeOK
  <2>3. /\ status'[q].state \in {"PASS", "FAIL"}
        /\ Report(q, test, status'[q].state) \in reported'
    BY SMTT(30), <1>2, <2>1 DEF RunPayload, TypeOK, Result
  <2>4. BusyInv'
    BY <1>1, <2>2 DEF BusyInv, Busy
  <2>p. /\ pc # "own"
        /\ pc \in {"dispatch", "set_data", "cpu_on"} => ~(q >= idx) /\ q # idx
        /\ pc \in {"poll", "polled"} => ~(q > idx)
    <3>1. \/ pc \in {"wait", "scan"}
          \/ pc \in Dispatching /\ q < idx
          \/ pc = "poll" /\ q = idx
      BY <2>1 DEF BusyInv, IdxInv, Kinds, TypeOK
    <3>2. q \in Int /\ idx \in Int
      BY DEF TypeOK
    <3> QED
      BY <3>1, <3>2
  <2>5. PendInv'
    BY ZenonT(60), <1>1, <2>p DEF PendInv
  <2>6. ScanInv'
    BY <1>1, <2>3 DEF ScanInv
  <2>7. StatusInv'
    <3>1. ASSUME NEW p \in PE, Kind[test] # "single"
          PROVE  /\ status'[p].state \in {"PASS", "FAIL"} =>
                      Report(p, test, status'[p].state) \in reported'
                 /\ status'[p].state # "NONE"
                 /\ status'[p].state = "SKIP" => p = Primary /\ test \in SkipTests
      <4>1. CASE p = q
        BY Zenon, <2>3, <4>1
      <4>2. CASE p # q
        BY ZenonT(30), <1>1, <2>1, <3>1, <4>2 DEF StatusInv
      <4> QED
        BY ZenonT(30), <4>1, <4>2
    <3> QED
      BY <1>1, <2>1, <3>1 DEF StatusInv
  <2>8. ProgressInv'
    <3>1. pc \in {"cpu_on", "polled"} => idx \in PE
      BY ZenonT(60) DEF IdxInv
    <3>2. \A p \in PE : status[p].state # "PENDING" => status'[p].state # "PENDING"
      BY <1>1, <2>3
    <3> QED
      BY Zenon, <1>1, <2>p, <3>1, <3>2 DEF ProgressInv
  <2>9. JudgeInv' /\ CheckInv'
    BY Zenon, <1>1, <2>1 DEF JudgeInv, CheckInv
  <2> QED
    BY <2>4, <2>5, <2>6, <2>7, <2>8, <2>9
<1>3. CASE Boot(q) \/ val_get_test_data(q) \/ CpuOff(q)
  <2>1. /\ UNCHANGED <<status, data, reported, seen>>
        /\ Busy(q)' => Busy(q)
        /\ power'[q] = "run" => vector'[q] = data[q]
    BY <1>3 DEF Boot, val_get_test_data, CpuOff, Busy, TypeOK
  <2>2. BusyInv'
    BY ZenonT(30), <1>1, <2>1 DEF BusyInv, Busy
  <2>3. PendInv' /\ ScanInv'
    BY Zenon, <1>1, <2>1 DEF PendInv, ScanInv
  <2>4. StatusInv'
    BY Zenon, <1>1, <2>1 DEF StatusInv
  <2>5. ProgressInv'
    BY Zenon, <1>1, <2>1 DEF ProgressInv
  <2>6. JudgeInv'
    BY Zenon, <1>1, <2>1 DEF JudgeInv
  <2>7. CheckInv'
    BY <1>1, <2>1 DEF CheckInv
  <2> QED
    BY <2>2, <2>3, <2>4, <2>5, <2>6, <2>7
<1> QED
  BY <1>2, <1>3 DEF SecondaryStep

\* The steps up to the last PE the test is dispatched to.
LEMMA DispatchSound ==
  ASSUME Patient, TypeOK, IdxInv, IInv,
         val_initialize_test \/ RunOwnPayload \/ DispatchSelf \/ DispatchOther \/ DispatchEnd
         \/ val_set_test_data \/ CpuOnSuccess \/ CpuOnRetry \/ CpuOnFail
  PROVE  IInv'
<1> USE InfraAssumption, PEFacts DEF IInv, Dispatching, Judging
<1>1. CASE val_initialize_test
  <2> USE <1>1 DEF val_initialize_test, Result, PEsOf, counters
  <2>1. BusyInv' /\ PendInv' /\ ScanInv' /\ ProgressInv' /\ JudgeInv' /\ CheckInv'
    BY DEF BusyInv, PendInv, ScanInv, ProgressInv, JudgeInv, CheckInv, Busy, TypeOK, IdxInv
  <2>2. StatusInv'
    <3>1. \A p \in PE : Kind[test'] # "single" =>
            \/ status'[p].state = "PENDING"
            \/ p = Primary /\ test' \in SkipTests /\ status'[p].state = "SKIP"
      <4> DEFINE pending == [p \in PE |-> IF p \in PEsOf(test + 1)
                                             THEN Result("PENDING", test + 1)
                                             ELSE status[p]]
      <4>1. ASSUME NEW p \in PE, Kind[test + 1] # "single"
            PROVE  pending[p].state = "PENDING"
        BY <4>1
      <4>2. CASE test + 1 \in SkipTests
        <5>1. status' = [pending EXCEPT ![Primary] = Result("SKIP", test + 1)]
          BY <4>2
        <5>2. \A p \in PE : status'[p] = IF p = Primary THEN Result("SKIP", test + 1)
                                         ELSE pending[p]
          BY ZenonT(60), <5>1
        <5> QED
          BY <4>1, <4>2, <5>2
      <4>3. CASE test + 1 \notin SkipTests
        BY <4>1, <4>3
      <4> QED
        BY <4>2, <4>3
    <3>2. pc' \in Judging => status'[Primary].state = "SKIP"
      BY DEF TypeOK
    <3> QED
      BY <3>1, <3>2 DEF StatusInv
  <2> QED BY Zenon, <2>1, <2>2
<1>2. CASE RunOwnPayload
  <2> USE <1>2 DEF RunOwnPayload, Result, Report, counters
  <2>1. BusyInv' /\ ScanInv' /\ StatusInv' /\ ProgressInv' /\ JudgeInv' /\ CheckInv'
    BY DEF BusyInv, ScanInv, StatusInv, ProgressInv, JudgeInv, CheckInv, Busy, TypeOK, IdxInv
  <2>2. PendInv'
    <3>1. pc' = "dispatch" => Kind[test] = "payload"
      BY DEF IdxInv, Kinds
    <3> QED
      BY <3>1 DEF PendInv, TypeOK, IdxInv
  <2> QED BY Zenon, <2>1, <2>2
<1>3. CASE DispatchSelf
  <2> USE <1>3 DEF DispatchSelf, counters
  <2>1. BusyInv'
    <3> SUFFICES ASSUME NEW p \in Secondary, Busy(p)
                 PROVE  p < idx + 1 /\ Kind[test] # "serial" /\ BusyInv
      BY DEF BusyInv, Busy
    <3>1. p < idx /\ Kind[test] # "serial"
      BY Zenon DEF BusyInv, IdxInv, Kinds
    <3> QED
      BY <3>1 DEF TypeOK, PE
  <2>2. PendInv' /\ ScanInv' /\ StatusInv' /\ ProgressInv' /\ JudgeInv' /\ CheckInv'
    BY DEF PendInv, ScanInv, StatusInv, ProgressInv, JudgeInv, CheckInv, Busy, TypeOK, IdxInv
  <2> QED BY Zenon, <2>1, <2>2
<1>4. CASE DispatchOther
  <2> USE <1>4 DEF DispatchOther, counters
  <2>1. BusyInv' /\ PendInv' /\ ScanInv' /\ StatusInv' /\ ProgressInv' /\ JudgeInv' /\ CheckInv'
    BY DEF BusyInv, PendInv, ScanInv, StatusInv, ProgressInv, JudgeInv, CheckInv, Busy, TypeOK, IdxInv
  <2> QED BY Zenon, <2>1
<1>5. CASE DispatchEnd
  <2> USE <1>5 DEF DispatchEnd, counters
  <2>1. BusyInv' /\ PendInv' /\ ScanInv' /\ StatusInv' /\ ProgressInv' /\ CheckInv'
    BY DEF BusyInv, PendInv, ScanInv, StatusInv, ProgressInv, CheckInv, Busy, TypeOK, IdxInv
  <2>2. JudgeInv'
    <3>1. pc' = "check" => Kind[test] = "serial"
      OBVIOUS
    <3>2. Kind[test] = "serial" => \A p \in Secondary : status[p].state # "PENDING"
      BY DEF ProgressInv
    <3> QED
      BY Zenon, <3>1, <3>2 DEF JudgeInv
  <2> QED BY Zenon, <2>1, <2>2
<1>6. CASE val_set_test_data
  <2> USE <1>6 DEF val_set_test_data, counters
  <2>1. BusyInv' /\ PendInv' /\ ScanInv' /\ StatusInv' /\ ProgressInv' /\ JudgeInv' /\ CheckInv'
    BY Zenon DEF BusyInv, PendInv, ScanInv, StatusInv, ProgressInv, JudgeInv, CheckInv, Busy, TypeOK, IdxInv
  <2> QED BY Zenon, <2>1
<1>7. CASE CpuOnSuccess
  <2> USE <1>7 DEF CpuOnSuccess, AfterExecute, counters
  <2>1. BusyInv'
    <3>1. idx \in Secondary /\ Kind[test] # "single"
      BY DEF IdxInv
    <3>2. data[idx] = test /\ status[idx].state = "PENDING"
      <4>1. pc = "cpu_on"
        OBVIOUS
      <4>2. data[idx] = test
        BY <4>1 DEF ProgressInv
      <4>a. idx >= idx
        BY DEF TypeOK
      <4>b. \A p \in Secondary : p >= idx => status[p].state = "PENDING"
        BY Zenon, <4>1 DEF PendInv
      <4>3. status[idx].state = "PENDING"
        BY Zenon, <3>1, <4>a, <4>b
      <4> QED BY Zenon, <4>2, <4>3
    <3> SUFFICES ASSUME NEW p \in Secondary, Busy(p)'
                 PROVE  /\ data[p] = test
                        /\ power'[p] = "run" => vector[p] = test
                        /\ status[p].state = "PENDING"
                        /\ pc' \in Dispatching
                        /\ Kind[test] = "payload" => p < idx'
                        /\ Kind[test] = "serial" => pc' = "poll" /\ p = idx'
      BY DEF BusyInv
    <3>3. CASE p = idx
      BY <3>1, <3>2, <3>3 DEF TypeOK
    <3>4. CASE p # idx
      <4>1. Busy(p)
        BY <3>4 DEF Busy, TypeOK
      <4>2. p < idx /\ Kind[test] # "serial"
        BY <3>1, <4>1 DEF BusyInv, IdxInv, Kinds
      <4>3. /\ data[p] = test /\ status[p].state = "PENDING"
            /\ power[p] = "run" => vector[p] = test
        BY <4>1 DEF BusyInv
      <4>4. power'[p] = power[p]
        BY <3>4 DEF TypeOK
      <4>5. pc' \in Dispatching /\ (Kind[test] = "payload" => p < idx')
        BY SMTT(30), <3>1, <4>2 DEF Dispatching, IdxInv, TypeOK, PE
      <4> QED
        BY <4>2, <4>3, <4>4, <4>5
    <3> QED
      BY <3>3, <3>4
  <2>2. PendInv' /\ ScanInv' /\ StatusInv' /\ ProgressInv' /\ JudgeInv' /\ CheckInv'
    BY DEF PendInv, ScanInv, StatusInv, ProgressInv, JudgeInv, CheckInv, Busy, TypeOK, IdxInv
  <2> QED BY Zenon, <2>1, <2>2
<1>8. CASE CpuOnRetry
  <2> USE <1>8 DEF CpuOnRetry, counters
  <2>1. BusyInv' /\ PendInv' /\ ScanInv' /\ StatusInv' /\ ProgressInv' /\ JudgeInv' /\ CheckInv'
    BY Zenon DEF BusyInv, PendInv, ScanInv, StatusInv, ProgressInv, JudgeInv, CheckInv, Busy, TypeOK, IdxInv
  <2> QED BY Zenon, <2>1
<1>9. CASE CpuOnFail
  <2> USE <1>9 DEF CpuOnFail, AfterExecute, Report, Result, counters
  <2>1. BusyInv'
    <3>1. idx \in Secondary /\ Kind[test] # "single"
      BY DEF IdxInv
    <3> SUFFICES ASSUME NEW p \in Secondary, Busy(p)
                 PROVE  /\ p # idx /\ Kind[test] # "serial" /\ p < idx'
                        /\ pc' \in Dispatching
      BY DEF BusyInv, Busy, TypeOK
    <3>2. pc = "cpu_on" /\ pc \in Dispatching /\ Kind[test] \in {"payload", "serial"}
      BY <3>1 DEF IdxInv, Kinds
    <3>3. p < idx /\ Kind[test] # "serial"
      BY <3>2 DEF BusyInv
    <3>4. (pc' = "poll" /\ idx' = idx) \/ (pc' = "dispatch" /\ idx' = idx + 1)
      OBVIOUS
    <3>5. p \in Nat /\ idx \in Nat
      BY <3>1
    <3> QED
      BY <3>3, <3>4, <3>5
  <2>2. PendInv'
    <3>1. \A p \in Secondary : p > idx => status'[p].state = "PENDING"
      BY DEF PendInv, TypeOK, PE
    <3>2. (pc' = "poll" /\ idx' = idx) \/ (pc' = "dispatch" /\ idx' = idx + 1)
      OBVIOUS
    <3>3. idx \in Nat
      BY Zenon DEF IdxInv, PE
    <3> QED
      BY <3>1, <3>2, <3>3 DEF PendInv, PE
  <2>3. ScanInv'
    BY DEF ScanInv, Busy, TypeOK, IdxInv
  <2>4. StatusInv'
    BY Zenon DEF StatusInv, Busy, TypeOK, IdxInv
  <2>5. ProgressInv'
    BY ZenonT(30) DEF ProgressInv, Busy, TypeOK, IdxInv
  <2>6. JudgeInv'
    BY Zenon DEF JudgeInv, Busy, TypeOK, IdxInv
  <2>7. CheckInv'
    BY ZenonT(30) DEF CheckInv, Busy, TypeOK, IdxInv
  <2> QED BY Zenon, <2>1, <2>2, <2>3, <2>4, <2>5, <2>6, <2>7
<1> QED
  BY <1>1, <1>2, <1>3, <1>4, <1>5, <1>6, <1>7, <1>8, <1>9

-----------------------------------------------------------------------------
(* The steps after that: the poll of a PE, the wait for all of them, the   *)
(* verdict, and what the secondaries do meanwhile.                         *)

LEMMA SoundStep ==
  ASSUME Patient, TypeOK, IdxInv, IInv, [Next]_vars
  PROVE  IInv'
<1> USE InfraAssumption, PEFacts DEF IInv, Dispatching, Judging
<1>1. CASE \/ val_initialize_test \/ RunOwnPayload \/ DispatchSelf \/ DispatchOther \/ DispatchEnd
           \/ val_set_test_data \/ CpuOnSuccess \/ CpuOnRetry \/ CpuOnFail
  BY <1>1, DispatchSound
<1>10. CASE PollPending
  <2> USE <1>10 DEF PollPending, counters
  <2>1. BusyInv' /\ PendInv' /\ ScanInv' /\ StatusInv' /\ ProgressInv' /\ JudgeInv' /\ CheckInv'
    BY Zenon DEF BusyInv, PendInv, ScanInv, StatusInv, ProgressInv, JudgeInv, CheckInv, Busy, TypeOK, IdxInv
  <2> QED BY ZenonT(30), <2>1
<1>11. CASE PollDone
  <2> USE <1>11 DEF PollDone, counters
  <2>1. BusyInv' /\ PendInv' /\ ScanInv' /\ StatusInv' /\ ProgressInv' /\ JudgeInv' /\ CheckInv'
    BY Zenon DEF BusyInv, PendInv, ScanInv, StatusInv, ProgressInv, JudgeInv, CheckInv, Busy, TypeOK, IdxInv
  <2> QED BY ZenonT(30), <2>1
<1>12. CASE PollExpired
  BY <1>12 DEF PollExpired
<1>13. CASE Polled
  <2> USE <1>13 DEF Polled, counters
  <2>1. BusyInv' /\ ScanInv' /\ StatusInv' /\ JudgeInv'
    BY DEF BusyInv, ScanInv, StatusInv, JudgeInv, Busy, TypeOK, IdxInv
  <2>2. PendInv'
    BY SMTT(30) DEF PendInv, Busy, TypeOK, IdxInv
  <2>3. ProgressInv'
    BY SMTT(30) DEF ProgressInv, Busy, TypeOK, IdxInv
  <2>4. CheckInv'
    BY SMTT(30) DEF CheckInv, Busy, TypeOK, IdxInv
  <2> QED BY Zenon, <2>1, <2>2, <2>3, <2>4
<1>14. CASE WaitRound
  <2> USE <1>14 DEF WaitRound, counters
  <2>1. BusyInv' /\ PendInv' /\ StatusInv' /\ ProgressInv' /\ JudgeInv' /\ CheckInv'
    BY Zenon DEF BusyInv, PendInv, StatusInv, ProgressInv, JudgeInv, CheckInv, Busy, TypeOK, IdxInv
  <2>2. ScanInv'
    BY SMTT(30) DEF ScanInv, Busy, TypeOK, IdxInv
  <2> QED BY Zenon, <2>1, <2>2
<1>15. CASE Scan
  <2> USE <1>15 DEF Scan, counters
  <2>1. BusyInv' /\ PendInv' /\ StatusInv' /\ ProgressInv' /\ JudgeInv' /\ CheckInv'
    BY Zenon DEF BusyInv, PendInv, StatusInv, ProgressInv, JudgeInv, CheckInv, Busy, TypeOK, IdxInv
  <2>2. ScanInv'
    BY SMTT(30) DEF ScanInv, Busy, TypeOK, IdxInv
  <2> QED BY Zenon, <2>1, <2>2
<1>16. CASE ScanEnd
  <2> USE <1>16 DEF ScanEnd, counters
  <2>1. BusyInv'
    <3> SUFFICES ASSUME NEW p \in Secondary, Busy(p)
                 PROVE  /\ pc' = "wait" /\ Kind[test] # "serial" /\ BusyInv
      BY DEF BusyInv, Busy
    <3>1. last > 0
      BY Zenon DEF BusyInv, ScanInv
    <3> QED
      BY SMTT(30), <3>1 DEF TypeOK, BusyInv
  <2>2. PendInv' /\ ScanInv' /\ StatusInv' /\ ProgressInv'
    BY DEF PendInv, ScanInv, StatusInv, ProgressInv, Busy, TypeOK, IdxInv
  <2>3. JudgeInv'
    <3>1. last = 0 => \A p \in PE : status[p].state # "PENDING"
      BY DEF ScanInv
    <3>2. Kind[test] = "payload"
      BY DEF IdxInv
    <3> QED
      BY <3>1, <3>2 DEF JudgeInv
  <2>4. CheckInv'
    BY SMTT(30) DEF CheckInv, Busy, TypeOK, IdxInv
  <2> QED BY Zenon, <2>1, <2>2, <2>3, <2>4
<1>17. CASE WaitExpired
  BY <1>17 DEF WaitExpired
<1>18. CASE CheckOwn
  <2> USE <1>18 DEF CheckOwn, counters
  <2>1. BusyInv' /\ PendInv' /\ ScanInv' /\ StatusInv' /\ ProgressInv' /\ JudgeInv' /\ CheckInv'
    BY Zenon DEF BusyInv, PendInv, ScanInv, StatusInv, ProgressInv, JudgeInv, CheckInv, Busy, TypeOK, IdxInv
  <2> QED BY Zenon, <2>1
<1>19. CASE CheckNext
  <2> USE <1>19 DEF CheckNext, counters
  <2>1. BusyInv' /\ PendInv' /\ ScanInv' /\ StatusInv' /\ ProgressInv' /\ JudgeInv'
    BY Zenon DEF BusyInv, PendInv, ScanInv, StatusInv, ProgressInv, JudgeInv, Busy, TypeOK, IdxInv
  <2>2. CheckInv'
    BY SMTT(30) DEF CheckInv, Busy, TypeOK, IdxInv
  <2> QED BY Zenon, <2>1, <2>2
<1>20. CASE Conclude
  <2> USE <1>20 DEF Conclude, counters
  <2>1. BusyInv' /\ PendInv' /\ ScanInv' /\ ProgressInv' /\ JudgeInv'
    BY DEF BusyInv, PendInv, ScanInv, ProgressInv, JudgeInv, Busy, TypeOK, IdxInv
  <2>2. StatusInv'
    BY Zenon DEF StatusInv, Busy, TypeOK, IdxInv
  <2>3. CheckInv'
    BY Zenon DEF CheckInv, Busy, TypeOK, IdxInv
  <2> QED BY Zenon, <2>1, <2>2, <2>3
<1>21. ASSUME NEW q \in Secondary, SecondaryStep(q) PROVE IInv'
  BY Zenon, <1>21, SecondarySound
<1>22. CASE UNCHANGED vars
  BY Zenon, <1>22, SoundStutter
<1>23. QED
  BY <1>1, <1>10, <1>11, <1>12, <1>13, <1>14, <1>15, <1>16, <1>17, <1>18, <1>19, <1>20, <1>21, <1>22 DEF Next, PrimaryStep

-----------------------------------------------------------------------------
(* The verdicts. `reported' only grows, so a verdict once justified stays  *)
(* so: only Conclude has to be looked at.                                  *)

LEMMA ReportedGrows ==
  ASSUME [Next]_vars
  PROVE  /\ reported \subseteq reported'
         /\ verdict' = verdict \/ Conclude
<1> USE DEF primaryVars, counters
<1>1. CASE PrimaryStep
  BY ZenonT(30), <1>1 DEF PrimaryStep, val_initialize_test, RunOwnPayload, DispatchSelf,
     DispatchOther, DispatchEnd, val_set_test_data, CpuOnSuccess, CpuOnRetry,
     CpuOnFail, PollPending, PollDone, PollExpired, Polled, WaitRound, Scan,
     ScanEnd, WaitExpired, CheckOwn, CheckNext, Conclude
<1>2. CASE \E p \in Secondary : SecondaryStep(p)
  BY <1>2 DEF SecondaryStep, Boot, val_get_test_data, RunPayload, CpuOff
<1>3. CASE UNCHANGED vars
  BY <1>3 DEF vars
<1>4. QED
  BY <1>1, <1>2, <1>3 DEF Next

\* What val_check_for_error concludes is backed by the reports.
LEMMA ConcludeSound ==
  ASSUME TypeOK, IdxInv, IInv, Conclude
  PROVE  /\ Outcome(seen) = "PASS" =>
              \A p \in Required(test) : Report(p, test, "PASS") \in reported
         /\ Primary # NumPE - 1 /\ Outcome(seen) = "FAIL" =>
              \E p \in PE : Report(p, test, "FAIL") \in reported
<1> USE InfraAssumption, PEFacts DEF IInv
<1>1. /\ pc = "conclude" /\ test \in Tests /\ pc \in Judging /\ pc # "idle"
      /\ seen \in States /\ Kind[test] \in Kinds
      /\ \A p \in PE : status[p].state \in States
  BY ZenonT(60) DEF Conclude, IdxInv, Judging, TypeOK
<1>2. CASE Kind[test] = "single"
  BY Zenon, <1>1, <1>2 DEF CheckInv, StatusInv, Required, Outcome, States
<1>3. CASE Kind[test] # "single"
  <2>1. \A p \in PE : status[p].state \in {"PASS", "FAIL"} =>
          Report(p, test, status[p].state) \in reported
    BY <1>1, <1>3 DEF StatusInv
  <2>2. \A p \in PE : status[p].state # "NONE"
    BY <1>1, <1>3 DEF StatusInv
  <2>3. CASE seen \in {"FAIL", "SKIP"} /\ \E p \in PE : status[p].state = seen
    BY ZenonT(60), <2>1, <2>3 DEF Outcome
  <2>4. CASE /\ seen = status[NumPE - 1].state
             /\ \A p \in PE : status[p].state \notin {"FAIL", "SKIP"}
    <3>1. test \notin SkipTests
      BY <1>1, <2>4 DEF CheckInv
    <3>2. \A p \in Secondary : status[p].state # "PENDING"
      BY <1>1, <1>3, <2>4, <3>1 DEF JudgeInv, Kinds
    <3>3. \A p \in Secondary : status[p].state = "PASS"
      BY <1>1, <2>2, <2>4, <3>2 DEF States
    <3>4. Kind[test] = "payload" => status[Primary].state = "PASS"
      BY <1>1, <2>2, <2>4, <3>1 DEF JudgeInv, States
    <3>5. \A p \in Required(test) : p \in PE /\ status[p].state = "PASS"
      BY <1>1, <1>3, <3>3, <3>4 DEF Required, Kinds, Secondary
    <3>6. Primary # NumPE - 1 => seen = "PASS"
      BY <2>4, <3>3 DEF Secondary
    <3> QED
      BY ZenonT(60), <2>1, <3>5, <3>6 DEF Outcome
  <2> QED
    BY Zenon, <1>1, <1>3, <2>3, <2>4 DEF CheckInv
<1>4. QED
  BY <1>2, <1>3

LEMMA VerdictStep ==
  ASSUME TypeOK, IdxInv, IInv, [Next]_vars
  PROVE  /\ PassSound => PassSound'
         /\ Primary # NumPE - 1 /\ FailSound => FailSound'
<1>1. CASE verdict' = verdict
  BY <1>1, ReportedGrows DEF PassSound, FailSound
<1>2. CASE Conclude
  <2>1. /\ \A t \in Tests : verdict'[t] = IF t = test THEN Outcome(seen) ELSE verdict[t]
        /\ reported' = reported
    BY <1>2 DEF Conclude, TypeOK
  <2> QED
    BY <1>2, <2>1, ConcludeSound DEF PassSound, FailSound
<1>3. QED
  BY <1>1, <1>2, ReportedGrows

LEMMA VerdictInit == Init => PassSound /\ FailSound
BY DEF Init, PassSound, FailSound

LEMMA Invariance == Patient /\ Spec => [](TypeOK /\ IdxInv /\ IInv)
<1> SUFFICES ASSUME Patient PROVE Spec => [](TypeOK /\ IdxInv /\ IInv)
  OBVIOUS
<1>1. Init => TypeOK /\ IdxInv /\ IInv
  BY TypeInit, SoundInit
<1>2. TypeOK /\ IdxInv /\ IInv /\ [Next]_vars => (TypeOK /\ IdxInv /\ IInv)'
  BY TypeStep, SoundStep
<1>3. QED
  BY <1>1, <1>2, PTL DEF Spec

\* When every PE answers before TIMEOUT_LARGE is over, a test that
\* val_check_for_error counts as passed was run and passed by every PE it was
\* dispatched to.
THEOREM PassIsSound == Patient /\ Spec => []PassSound
<1>1. TypeOK /\ IdxInv /\ IInv /\ PassSound /\ [Next]_vars => PassSound'
  BY VerdictStep
<1>2. QED
  BY <1>1, VerdictInit, Invariance, PTL DEF Spec

\* Under the same condition, and when the primary is not the last PE of the
\* table, a test that val_check_for_error counts as failed has a PE that
\* failed it or could not be powered on for it.
THEOREM FailIsSound == Patient /\ Primary # NumPE - 1 /\ Spec => []FailSound
<1> SUFFICES ASSUME Primary # NumPE - 1 PROVE Patient /\ Spec => []FailSound
  OBVIOUS
<1>1. TypeOK /\ IdxInv /\ IInv /\ FailSound /\ [Next]_vars => FailSound'
  BY VerdictStep
<1>2. QED
  BY <1>1, VerdictInit, Invariance, PTL DEF Spec

\* Under the same condition no store of val_set_test_data reaches a PE that
\* has not picked up the previous payload, and none runs a payload of a test
\* that is already being judged.
THEOREM PayloadsInStep == Patient /\ Spec => []NoStrayPayload
<1>1. TypeOK /\ IdxInv /\ IInv => NoStrayPayload
  BY DEF IInv, BusyInv, NoStrayPayload, Busy, Dispatching
<1>2. QED
  BY <1>1, Invariance, PTL

\* Under the same condition val_wait_for_test_completion returns with no PE
\* left PENDING.
THEOREM WaitIsComplete == Patient /\ Spec => []NoPendingAfterWait
<1>1. TypeOK /\ IdxInv /\ IInv => NoPendingAfterWait
  BY DEF IInv, JudgeInv, NoPendingAfterWait, Judging
<1>2. QED
  BY <1>1, Invariance, PTL

-----------------------------------------------------------------------------
(* The expiry of val_wait_for_test_completion, which only a run that is    *)
(* not patient comes to.                                                   *)

\* Behind the index of the scan no PE after the last one found is PENDING; the
\* loop waits with a scan behind it, or with its whole budget.
LastInv ==
  /\ pc = "scan" => \A p \in PE : last <= p /\ p < idx => status[p].state # "PENDING"
  /\ pc = "wait" => \/ timeout = WaitBudget
                    \/ last > 0 /\ \A p \in PE : last <= p => status[p].state # "PENDING"

\* A PE that has a status keeps one until the next test begins.
LEMMA NoPendingAgain ==
  ASSUME TypeOK, IdxInv, [Next]_vars, NEW p \in PE, status[p].state # "PENDING", pc # "idle"
  PROVE  status'[p].state # "PENDING"
<1> USE InfraAssumption, PEFacts DEF counters, primaryVars
<1>1. CASE val_initialize_test  BY <1>1 DEF val_initialize_test
<1>2. CASE RunOwnPayload  BY <1>2 DEF RunOwnPayload, Result, TypeOK
<1>3. CASE CpuOnFail  BY <1>3 DEF CpuOnFail, Result, TypeOK
<1>4. CASE PollExpired  BY <1>4 DEF PollExpired, Result, TypeOK
<1>5. CASE WaitExpired  BY <1>5 DEF WaitExpired, Result, TypeOK
<1>6. CASE UNCHANGED status  BY <1>6
<1>7. ASSUME NEW q \in Secondary, SecondaryStep(q) PROVE status'[p].state # "PENDING"
  <2>1. CASE RunPayload(q)  BY <2>1 DEF RunPayload, Result, TypeOK
  <2>2. CASE Boot(q) \/ val_get_test_data(q) \/ CpuOff(q)
    BY <2>2 DEF Boot, val_get_test_data, CpuOff
  <2> QED  BY <1>7, <2>1, <2>2 DEF SecondaryStep
<1>8. PrimaryStep => \/ val_initialize_test \/ RunOwnPayload \/ CpuOnFail \/ PollExpired
                     \/ WaitExpired \/ UNCHANGED status
  BY Zenon DEF PrimaryStep, DispatchSelf, DispatchOther, DispatchEnd, val_set_test_data, CpuOnSuccess,
         CpuOnRetry, PollPending, PollDone, Polled, WaitRound, Scan, ScanEnd, CheckOwn, CheckNext, Conclude
<1> QED  BY <1>1, <1>2, <1>3, <1>4, <1>5, <1>6, <1>7, <1>8 DEF Next, vars

\* A step either leaves the scan and the wait alone, or is one of theirs.
LEMMA ScanSteps ==
  ASSUME [Next]_vars, pc' \in {"scan", "wait"}
  PROVE  \/ UNCHANGED <<pc, idx, last, timeout>>
         \/ DispatchEnd \/ WaitRound \/ Scan \/ ScanEnd
<1> USE DEF counters, primaryVars
<1>1. CASE PrimaryStep
  <2>1. ~val_initialize_test /\ ~RunOwnPayload /\ ~DispatchOther /\ ~val_set_test_data
    BY DEF val_initialize_test, RunOwnPayload, DispatchOther, val_set_test_data
  <2>2. ~DispatchSelf /\ ~CpuOnSuccess /\ ~CpuOnRetry /\ ~CpuOnFail
    BY DEF DispatchSelf, CpuOnSuccess, CpuOnRetry, CpuOnFail, AfterExecute
  <2>3. ~PollPending /\ ~PollDone /\ ~PollExpired /\ ~Polled
    BY DEF PollPending, PollDone, PollExpired, Polled
  <2>4. ~WaitExpired /\ ~CheckOwn /\ ~CheckNext /\ ~Conclude
    BY DEF WaitExpired, CheckOwn, CheckNext, Conclude
  <2> QED  BY <1>1, <2>1, <2>2, <2>3, <2>4 DEF PrimaryStep
<1>2. CASE \E q \in Secondary : SecondaryStep(q)
  BY <1>2 DEF SecondaryStep, Boot, val_get_test_data, RunPayload, CpuOff
<1>3. CASE UNCHANGED vars  BY <1>3 DEF vars
<1> QED  BY <1>1, <1>2, <1>3 DEF Next

LEMMA LastStep ==
  ASSUME TypeOK, IdxInv, TypeOK', LastInv, [Next]_vars
  PROVE  LastInv'
<1> USE InfraAssumption, PEFacts
<1>0. CASE pc' \notin {"scan", "wait"}  BY <1>0 DEF LastInv
<1>n. PE \subseteq Nat /\ last \in Nat /\ idx \in Nat  BY DEF TypeOK
<1>1. CASE UNCHANGED <<pc, idx, last, timeout>> /\ pc \in {"scan", "wait"}
  <2>1. \A p \in PE : status[p].state # "PENDING" => status'[p].state # "PENDING"
    BY ZenonT(30), <1>1, NoPendingAgain
  <2> QED  BY <1>1, <2>1 DEF LastInv
<1>2. CASE DispatchEnd  BY <1>2 DEF DispatchEnd, LastInv
<1>3. CASE WaitRound  BY <1>3, <1>n DEF WaitRound, LastInv
<1>4. CASE Scan
  <2>1. /\ pc = "scan" /\ pc' = "scan" /\ idx' = idx + 1 /\ status' = status /\ idx \in PE
        /\ last' = IF status[idx].state = "PENDING" THEN idx + 1 ELSE last
    BY <1>4, <1>n DEF Scan, PE
  <2>2. ASSUME NEW p \in PE, last' <= p, p < idx' PROVE status[p].state # "PENDING"
    <3>1. CASE status[idx].state = "PENDING"  BY <1>n, <2>1, <2>2, <3>1
    <3>2. CASE status[idx].state # "PENDING"
      <4>1. p = idx \/ (last <= p /\ p < idx)  BY <1>n, <2>1, <2>2, <3>2
      <4> QED  BY Zenon, <2>1, <3>2, <4>1 DEF LastInv
    <3> QED  BY <3>1, <3>2
  <2> QED  BY <2>1, <2>2 DEF LastInv
<1>5. CASE ScanEnd
  <2>1. pc = "scan" /\ idx = NumPE /\ last' = last /\ status' = status /\ pc' # "scan" /\ (pc' = "wait" => last # 0)
    BY <1>5 DEF ScanEnd
  <2>2. \A p \in PE : last <= p => status[p].state # "PENDING"  BY <2>1 DEF LastInv
  <2> QED  BY <1>n, <2>1, <2>2 DEF LastInv
<1> QED  BY <1>0, <1>1, <1>2, <1>3, <1>4, <1>5, ScanSteps

\* Whatever the number of PEs, the budget and the moments at which the PEs
\* report: when val_wait_for_test_completion gives up, the PE it fails is in the
\* table and no PE after it is still pending.
THEOREM ExpiryIsRight == Spec => []ExpiryBlamesLast
<1>1. Init => TypeOK /\ IdxInv /\ LastInv
  BY TypeInit DEF Init, LastInv
<1>2. TypeOK /\ IdxInv /\ LastInv /\ [Next]_vars => (TypeOK /\ IdxInv /\ LastInv)'
  BY TypeStep, LastStep
<1>3. TypeOK /\ LastInv => ExpiryBlamesLast
  <2> SUFFICES ASSUME TypeOK, LastInv, pc = "wait", timeout <= 1
               PROVE  last - 1 \in PE /\ \A p \in PE : p >= last => status[p].state # "PENDING"
    BY DEF ExpiryBlamesLast
  <2>1. last > 0 /\ \A p \in PE : last <= p => status[p].state # "PENDING"
    BY InfraAssumption DEF LastInv
  <2>2. last \in 1 .. NumPE  BY <2>1 DEF TypeOK
  <2>3. last - 1 \in PE  BY <2>2, InfraAssumption DEF PE
  <2>4. \A p \in PE : p >= last => last <= p  BY <2>2, PEFacts
  <2> QED  BY <2>1, <2>3, <2>4
<1> QED  BY <1>1, <1>2, <1>3, PTL DEF Spec

-----------------------------------------------------------------------------
(* TestInfra implements TestVerdicts.                                      *)

\* p has reported on the test being run; its status is what it reported.
Spoken(p) ==
  /\ test \notin SkipTests
  /\ IF Kind[test] = "single" THEN p = Primary /\ pc # "own" ELSE status[p].state # "PENDING"

\* No report is ahead of the test being run, and a PE reports on it once.
ReportInv ==
  /\ \A r \in reported : r.num <= test
  /\ pc = "own" /\ Kind[test] = "payload" => status[Primary].state = "PENDING"
  /\ pc # "idle" => \A p \in PE : Heard(p) = IF Spoken(p) THEN {status[p].state} ELSE {}

AllInv == TypeOK /\ IdxInv /\ IInv /\ ReportInv

\* The steps that open no test, report nothing and conclude nothing.
Quiet ==
  /\ UNCHANGED <<test, reported, verdict, status>>
  /\ (pc = "idle") <=> (pc' = "idle")
  /\ (pc = "own") <=> (pc' = "own")

-----------------------------------------------------------------------------
LEMMA StepKinds ==
  ASSUME Patient, [Next]_vars
  PROVE  \/ val_initialize_test \/ RunOwnPayload \/ CpuOnFail \/ Conclude
         \/ \E p \in Secondary : RunPayload(p)
         \/ Quiet
<1> USE DEF primaryVars, counters, Quiet
<1>1. CASE PrimaryStep
  <2>1. ~PollExpired /\ ~WaitExpired BY DEF PollExpired, WaitExpired
  <2>2. DispatchSelf \/ DispatchOther \/ DispatchEnd \/ val_set_test_data => Quiet
    BY DEF DispatchSelf, DispatchOther, DispatchEnd, val_set_test_data
  <2>3. CpuOnSuccess \/ CpuOnRetry => Quiet BY DEF CpuOnSuccess, CpuOnRetry, AfterExecute
  <2>4. PollPending \/ PollDone \/ Polled => Quiet BY DEF PollPending, PollDone, Polled
  <2>5. WaitRound \/ Scan \/ ScanEnd => Quiet BY DEF WaitRound, Scan, ScanEnd
  <2>6. CheckOwn \/ CheckNext => Quiet BY Zenon DEF CheckOwn, CheckNext
  <2> QED BY <1>1, <2>1, <2>2, <2>3, <2>4, <2>5, <2>6 DEF PrimaryStep
<1>2. CASE \E p \in Secondary : SecondaryStep(p)
  <2>1. PICK p \in Secondary : SecondaryStep(p) BY <1>2
  <2>2. Boot(p) \/ val_get_test_data(p) \/ CpuOff(p) => Quiet BY DEF Boot, val_get_test_data, CpuOff
  <2> QED BY <2>1, <2>2 DEF SecondaryStep
<1>3. CASE UNCHANGED vars BY <1>3 DEF vars
<1> QED BY <1>1, <1>2, <1>3 DEF Next

-----------------------------------------------------------------------------
\* A PE that has not reported on the test reports: a Hear of TestVerdicts.
LEMMA HearStep ==
  ASSUME AllInv, pc # "idle", pc' # "idle", test \notin SkipTests, NEW p \in PE, NEW s \in {"PASS", "FAIL", "SKIP"},
         Heard(p) = {}, reported' = reported \cup {Report(p, test, s)}, UNCHANGED <<test, verdict>>
  PROVE  /\ \A q \in PE : Heard(q)' = IF q = p THEN {s} ELSE Heard(q)
         /\ \A r \in reported' : r.num <= test'
         /\ Promise!Hear(p, s)
<1>1. test \in Tests /\ test \in Nat \ {0} BY InfraAssumption DEF AllInv, IdxInv, Tests
<1>2. ASSUME NEW q \in PE PROVE Heard(q)' = IF q = p THEN {s} ELSE Heard(q)
  <2>1. CASE q = p
    <3>1. \A x \in States : Report(p, test, x) \in reported' <=> x = s
      BY <2>1 DEF Heard, Report
    <3>2. s \in States BY DEF States
    <3> QED BY Zenon, <2>1, <3>1, <3>2 DEF Heard
  <2>2. CASE q # p
    <3>1. \A x : Report(q, test, x) # Report(p, test, s) BY <2>2 DEF Report
    <3> QED BY <2>2, <3>1 DEF Heard
  <2> QED BY <2>1, <2>2
<1>3. \A r \in reported' : r.num <= test' BY <1>1 DEF AllInv, ReportInv, Report
<1>4. Promise!Hear(p, s)
  <2>1. [q \in PE |-> Heard(q)]' = [[q \in PE |-> Heard(q)] EXCEPT ![p] = {s}] BY Zenon, <1>2
  <2> QED BY <1>1, <2>1 DEF Promise!Hear
<1> QED BY <1>2, <1>3, <1>4

-----------------------------------------------------------------------------
(* One lemma for each kind of step: the invariant, and the step it maps to. *)
Step == Promise!Next \/ UNCHANGED Promise!avars

LEMMA QuietStep ==
  ASSUME AllInv, Quiet
  PROVE  ReportInv' /\ Step
<1>1. \A p \in PE : Heard(p)' = Heard(p) /\ (Spoken(p)' <=> Spoken(p)) BY DEF Quiet, Heard, Spoken
<1>2. ReportInv' BY Zenon, <1>1 DEF AllInv, ReportInv, Quiet
<1>3. [p \in PE |-> Heard(p)]' = [p \in PE |-> Heard(p)] BY <1>1
<1>4. UNCHANGED Promise!avars BY <1>3 DEF Quiet, Promise!avars
<1> QED BY Zenon, <1>2, <1>4 DEF Step

LEMMA OpenStep ==
  ASSUME AllInv, TypeOK', val_initialize_test
  PROVE  ReportInv' /\ Step
<1>1. /\ pc = "idle" /\ pc' \in {"check", "own", "dispatch"} /\ test' = test + 1 /\ test \in Nat
      /\ UNCHANGED <<verdict, reported>> /\ test < NumTests
  BY InfraAssumption DEF val_initialize_test, AllInv, TypeOK
<1>2. \A r \in reported : r.num <= test /\ r.num \in Nat BY InfraAssumption DEF AllInv, ReportInv, TypeOK
<1>3. ASSUME NEW p \in PE PROVE Heard(p) = {} /\ Heard(p)' = {}
  <2>1. \A x : Report(p, test + 1, x) \notin reported BY <1>1, <1>2 DEF Report
  <2> QED BY <1>1, <2>1 DEF Heard
<1>4. ASSUME NEW p \in PE PROVE ~Spoken(p)'
  <2>1. CASE test' \in SkipTests BY <2>1 DEF Spoken
  <2>2. CASE test' \notin SkipTests /\ Kind[test'] = "single"
    <3>1. pc' = "own" BY <1>1, <2>2 DEF val_initialize_test
    <3> QED BY <2>2, <3>1 DEF Spoken
  <2>3. CASE test' \notin SkipTests /\ Kind[test'] # "single"
    <3>1. status'[p] = Result("PENDING", test + 1) BY <1>1, <2>3 DEF val_initialize_test, PEsOf
    <3> QED BY <2>3, <3>1 DEF Spoken, Result
  <2> QED BY <2>1, <2>2, <2>3
<1>5. pc' = "own" /\ Kind[test'] = "payload" => status'[Primary].state = "PENDING"
  <2> SUFFICES ASSUME pc' = "own", Kind[test'] = "payload" PROVE status'[Primary].state = "PENDING"
    OBVIOUS
  <2>1. status'[Primary] = Result("PENDING", test + 1) BY <1>1, PEFacts DEF val_initialize_test, PEsOf
  <2> QED BY <2>1 DEF Result
<1>6. ReportInv' BY <1>1, <1>2, <1>3, <1>4, <1>5 DEF ReportInv
<1>7. [p \in PE |-> Heard(p)]' = [p \in PE |-> Heard(p)] BY <1>3
<1>8. Promise!Open BY <1>1, <1>7 DEF Promise!Open
<1> QED BY Zenon, <1>6, <1>8 DEF Step, Promise!Next

LEMMA OwnStep ==
  ASSUME AllInv, TypeOK', RunOwnPayload
  PROVE  ReportInv' /\ Step
<1>1. PICK s \in {"PASS", "FAIL", "SKIP"} :
        /\ status' = [status EXCEPT ![Primary] = Result(s, test)]
        /\ reported' = reported \cup {Report(Primary, test, s)}
  BY Zenon DEF RunOwnPayload
<1>2. pc = "own" /\ pc' # "idle" /\ pc' # "own" /\ UNCHANGED <<test, verdict>> BY DEF RunOwnPayload
<1>3. Primary \in PE /\ test \notin SkipTests /\ Kind[test] \in {"payload", "single"}
  BY Zenon, <1>2, PEFacts, InfraAssumption DEF AllInv, IdxInv, Judging, Kinds
<1>4. ~Spoken(Primary) BY <1>2, <1>3 DEF Spoken, AllInv, ReportInv
<1>5. Heard(Primary) = {} BY <1>2, <1>3, <1>4 DEF AllInv, ReportInv
<1>6. /\ \A q \in PE : Heard(q)' = IF q = Primary THEN {s} ELSE Heard(q)
      /\ \A r \in reported' : r.num <= test'
      /\ Promise!Hear(Primary, s)
  BY Zenon, <1>1, <1>2, <1>3, <1>5, HearStep
<1>7. /\ status'[Primary].state = s /\ \A q \in PE \ {Primary} : status'[q] = status[q]
  BY <1>1, <1>3 DEF AllInv, TypeOK, Result
<1>8. Spoken(Primary)' BY Zenon, <1>2, <1>3, <1>7 DEF Spoken
<1>9. \A q \in PE \ {Primary} : Spoken(q)' <=> Spoken(q) BY Zenon, <1>2, <1>7 DEF Spoken
<1>10. ReportInv' BY Zenon, <1>2, <1>3, <1>6, <1>7, <1>8, <1>9 DEF AllInv, ReportInv
<1> QED BY <1>1, <1>3, <1>6, <1>10 DEF Step, Promise!Next

\* A secondary, or CPU_ON on its behalf, reports on a test of several PEs.
LEMMA SecondaryReports ==
  ASSUME AllInv, NEW p \in Secondary, NEW s \in {"PASS", "FAIL"}, NEW n,
         pc \in Dispatching \cup {"wait", "scan"}, pc' # "idle", pc' # "own", status[p].state = "PENDING",
         status' = [status EXCEPT ![p] = Result(s, n)], reported' = reported \cup {Report(p, test, s)},
         UNCHANGED <<test, verdict>>
  PROVE  ReportInv' /\ Step
<1>1. p \in PE /\ pc # "idle" /\ test \notin SkipTests /\ Kind[test] # "single"
  BY PEFacts DEF AllInv, IdxInv, Judging, Dispatching
<1>2. Heard(p) = {} BY <1>1 DEF AllInv, ReportInv, Spoken
<1>3. /\ \A q \in PE : Heard(q)' = IF q = p THEN {s} ELSE Heard(q)
      /\ \A r \in reported' : r.num <= test'
      /\ Promise!Hear(p, s)
  BY <1>1, <1>2, HearStep
<1>4. /\ status'[p].state = s /\ \A q \in PE \ {p} : status'[q] = status[q]
  BY Zenon, <1>1 DEF AllInv, TypeOK, Result
<1>5. Spoken(p)' BY <1>1, <1>4 DEF Spoken
<1>6. \A q \in PE \ {p} : Spoken(q)' <=> Spoken(q) BY Zenon, <1>1, <1>4 DEF Spoken
<1>7. ReportInv' BY <1>1, <1>3, <1>4, <1>5, <1>6 DEF AllInv, ReportInv
<1> QED BY Zenon, <1>1, <1>3, <1>7 DEF Step, Promise!Next

LEMMA CloseStep ==
  ASSUME AllInv, Primary # NumPE - 1, Conclude
  PROVE  ReportInv' /\ Step
<1>1. /\ pc = "conclude" /\ pc' = "idle" /\ UNCHANGED <<test, reported, status>>
      /\ verdict' = [verdict EXCEPT ![test] = Outcome(seen)]
      /\ test \in Tests /\ test \in Nat \ {0}
  BY InfraAssumption DEF Conclude, AllInv, IdxInv, Tests
<1>2. ReportInv' BY Zenon, <1>1 DEF AllInv, ReportInv
<1>3. \A p \in PE, s \in {"PASS", "FAIL", "SKIP"} : Report(p, test, s) \in reported => Heard(p) = {s}
  <2> SUFFICES ASSUME NEW p \in PE, NEW s \in {"PASS", "FAIL", "SKIP"}, Report(p, test, s) \in reported
               PROVE  Heard(p) = {s}
    OBVIOUS
  <2>1. s \in Heard(p) BY <1>1 DEF Heard, States
  <2> QED BY <1>1, <2>1 DEF AllInv, ReportInv
<1>4. Outcome(seen) = "SKIP" => test \in SkipTests \/ \E p \in PE : Heard(p) = {"SKIP"}
  <2> SUFFICES ASSUME Outcome(seen) = "SKIP", test \notin SkipTests PROVE \E p \in PE : Heard(p) = {"SKIP"}
    OBVIOUS
  <2>1. seen = "SKIP" BY Zenon DEF Outcome
  <2>2. Kind[test] = "single"
    <3> SUFFICES ASSUME Kind[test] # "single" PROVE FALSE
      OBVIOUS
    <3>1. \E p \in PE : status[p].state = "SKIP" BY Zenon, <1>1, <2>1, PEFacts DEF AllInv, IInv, CheckInv
    <3> QED BY <1>1, <3>1 DEF AllInv, IInv, StatusInv
  <2>3. status[Primary].state = "SKIP" BY <1>1, <2>1, <2>2 DEF AllInv, IInv, CheckInv
  <2>4. Spoken(Primary) BY <1>1, <2>2 DEF Spoken
  <2> QED BY <1>1, <2>3, <2>4, PEFacts DEF AllInv, ReportInv
<1>5. Required(test) \subseteq PE
  BY <1>1, PEFacts, InfraAssumption, Zenon DEF Required, Kinds
<1>6. Promise!Ground(Outcome(seen))
  <2>1. /\ Outcome(seen) = "PASS" => \A p \in Required(test) : Report(p, test, "PASS") \in reported
        /\ Outcome(seen) = "FAIL" => \E p \in PE : Report(p, test, "FAIL") \in reported
    BY ConcludeSound DEF AllInv
  <2>2. Outcome(seen) \in {"PASS", "FAIL", "SKIP"} BY DEF Outcome
  <2>3. pc # "idle" BY <1>1
  <2> QED BY <1>3, <1>4, <1>5, <2>1, <2>2, <2>3 DEF Promise!Ground
<1>7. [p \in PE |-> Heard(p)]' = Promise!Silent BY <1>1 DEF Heard, Promise!Silent
<1>8. Promise!Close(Outcome(seen)) BY <1>1, <1>6, <1>7 DEF Promise!Close
<1>9. Outcome(seen) \in {"PASS", "FAIL", "SKIP"} BY DEF Outcome
<1> QED BY <1>2, <1>8, <1>9 DEF Step, Promise!Next

-----------------------------------------------------------------------------
LEMMA ReportStep ==
  ASSUME Patient, Primary # NumPE - 1, AllInv, TypeOK', [Next]_vars
  PROVE  ReportInv' /\ Step
<1>1. CASE CpuOnFail
  <2>1. /\ pc = "cpu_on" /\ pc' \in {"poll", "dispatch"} /\ UNCHANGED <<test, verdict>>
        /\ status' = [status EXCEPT ![idx] = Result("FAIL", 0)]
        /\ reported' = reported \cup {Report(idx, test, "FAIL")}
    BY <1>1 DEF CpuOnFail, AfterExecute
  <2>2. idx \in Secondary /\ pc \in Dispatching BY <2>1 DEF AllInv, IdxInv, Dispatching
  <2>3. status[idx].state = "PENDING" BY <2>1, <2>2, PEFacts DEF AllInv, IInv, PendInv
  <2> QED BY Zenon, <2>1, <2>2, <2>3, SecondaryReports
<1>2. CASE \E p \in Secondary : RunPayload(p)
  <2>1. PICK p \in Secondary : RunPayload(p) BY Zenon, <1>2
  <2>2. Busy(p) /\ power[p] = "run" BY Zenon, <2>1 DEF RunPayload, Busy
  <2>3. vector[p] = test /\ status[p].state = "PENDING" /\ pc \in Dispatching \cup {"wait", "scan"}
    BY <2>2 DEF AllInv, IInv, BusyInv
  <2>4. PICK s \in {"PASS", "FAIL"} : /\ status' = [status EXCEPT ![p] = Result(s, vector[p])]
                                      /\ reported' = reported \cup {Report(p, vector[p], s)}
    BY Zenon, <2>1 DEF RunPayload
  <2>5. UNCHANGED <<test, verdict, pc>> BY <2>1 DEF RunPayload, primaryVars
  <2>6. pc' # "idle" /\ pc' # "own" BY <2>3, <2>5 DEF Dispatching
  <2> QED BY Zenon, <2>3, <2>4, <2>5, <2>6, SecondaryReports
<1> QED BY <1>1, <1>2, StepKinds, QuietStep, OpenStep, OwnStep, CloseStep

\* The interleaved dispatch over any number of PEs implements TestVerdicts,
\* when every PE answers before TIMEOUT_LARGE is over and the primary is not
\* the last PE of the table: each PE reports at most once on each test and only
\* while it is open, and val_check_for_error closes it with a verdict the
\* reports give ground for.
THEOREM DispatchKeepsPromise == Patient /\ Primary # NumPE - 1 /\ Spec => KeepsPromise
<1> SUFFICES ASSUME Patient, Primary # NumPE - 1 PROVE Spec => KeepsPromise
  OBVIOUS
<1>1. Init => Promise!Init /\ ReportInv
  <2> SUFFICES ASSUME Init PROVE Promise!Init /\ ReportInv
    OBVIOUS
  <2>1. [p \in PE |-> Heard(p)] = Promise!Silent BY DEF Init, Heard, Promise!Silent
  <2> QED BY <2>1 DEF Init, Promise!Init, ReportInv, Tests
<1>2. TypeOK /\ IdxInv /\ IInv /\ ReportInv /\ TypeOK' /\ [Next]_vars
        => ReportInv' /\ [Promise!Next]_(Promise!avars)
  BY ReportStep DEF AllInv, Step
<1> QED BY <1>1, <1>2, Invariance, PTL DEF Spec, KeepsPromise, Promise!Spec
=============================================================================
