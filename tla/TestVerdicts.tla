---------------------------- MODULE TestVerdicts ----------------------------
(***************************************************************************)
(* What the dispatch of tests promises to its caller: tests are opened one *)
(* after another, while one is open each PE reports on it at most once and *)
(* no report on any other test arrives, and the test is closed with a      *)
(* verdict that follows from the reports.                                  *)
(***************************************************************************)
EXTENDS Integers

CONSTANTS PE,            \* the PEs
          NumTests,      \* the tests are 1 .. NumTests
          Required(_),   \* the PEs whose PASS a test needs
          Skip           \* the tests the user skips

VARIABLES open,          \* the test that is open, 0 when there is none
          done,          \* the number of tests that were closed
          got,           \* got[p]: what p has reported on the open test
          outcome        \* the verdict of each test that was closed

avars == <<open, done, got, outcome>>

Silent == [p \in PE |-> {}]

Init == /\ open = 0 /\ done = 0
        /\ got = Silent
        /\ outcome = [t \in 1 .. NumTests |-> "NONE"]

Open == /\ open = 0 /\ done < NumTests
        /\ open' = done + 1
        /\ UNCHANGED <<done, got, outcome>>

Hear(p, s) == /\ open # 0 /\ open \notin Skip
              /\ got[p] = {}
              /\ got' = [got EXCEPT ![p] = {s}]
              /\ UNCHANGED <<open, done, outcome>>

\* Every verdict has its ground in the reports.
Ground(v) == \/ v = "PASS" /\ \A p \in Required(open) : got[p] = {"PASS"}
             \/ v = "FAIL" /\ \E p \in PE : got[p] = {"FAIL"}
             \/ v = "SKIP" /\ (open \in Skip \/ \E p \in PE : got[p] = {"SKIP"})

Close(v) == /\ open # 0 /\ Ground(v)
            /\ outcome' = [outcome EXCEPT ![open] = v]
            /\ done' = open /\ open' = 0
            /\ got' = Silent

Next == \/ Open
        \/ \E p \in PE, s \in {"PASS", "FAIL", "SKIP"} : Hear(p, s)
        \/ \E v \in {"PASS", "FAIL", "SKIP"} : Close(v)

Spec == Init /\ [][Next]_avars

=============================================================================
