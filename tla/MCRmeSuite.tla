----------------------------- MODULE MCRmeSuite -----------------------------
(* Scenarios of RmeSuite for TLC. The tests between two reset tests differ *)
(* in nothing the model knows of, so one stands for all of them.           *)
EXTENDS RmeSuite

\* The reset tests alone.
Resets == <<2, 2, 12, 12, 31, 31, 32, 32>>

\* All modules with a test of the user's choice left out; the legacy tests, run
\* twice on the same memory with PEs that may not answer; the last reset test
\* left out.
MCScenarios ==
  {[rme |-> <<1, 2, 2, 3, 12, 12, 13, 31, 31, 32, 32>>, da |-> <<601>>, tz |-> FALSE, skip |-> {3},
    modules |-> {"gic"}, answer |-> TRUE, hangs |-> 1, runs |-> 1],
   [rme |-> Resets, da |-> <<601>>, tz |-> TRUE, skip |-> {501},
    modules |-> {"smmu", "da"}, answer |-> FALSE, hangs |-> 1, runs |-> 2],
   [rme |-> Resets, da |-> <<601>>, tz |-> FALSE, skip |-> {32},
    modules |-> {"gic", "smmu"}, answer |-> TRUE, hangs |-> 1, runs |-> 1]}

=============================================================================
