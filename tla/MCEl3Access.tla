----------------------------- MODULE MCEl3Access -----------------------------
(* Scripts of tests for El3Access, and the machines they run on.            *)
EXTENDS El3Access

On(script, mismatch) ==
  [script |-> script, machine |-> [match |-> {"through"}, mismatch |-> mismatch]]

\* Tests of every shape on a machine that faults; a test of stores on a machine
\* that does anything; tests that take their expectation back, or have none, on
\* a machine that may refuse without a fault; the rest of the filtered accesses;
\* the two whose counter starts with what the stack holds.
MCScenarios ==
  {On(<<rme004, rme016, rme021, rme011, rme029, rme028>>, {"gpf"}),
   On(<<rme004>>, {"gpf", "quiet", "through"}),
   On(<<rme011, rme029, rme011>>, {"gpf", "quiet"}),
   On(<<rme017, rme026, rme032>>, {"gpf"}), On(<<rme009, ls002>>, {"gpf"})}

\* One short test.
Rest == On(<<rme011>>, {"gpf"})

\* A test that leaves its expectation standing, on the same machine.
MCQuiet == {On(<<rme025, rme004>>, {"gpf", "quiet"})}
=============================================================================
