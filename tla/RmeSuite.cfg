CONSTANTS
  Scenarios <- MCScenarios
SPECIFICATION FairSpec
INVARIANTS EveryTestRan CountedOnce PassedAfterReset
PROPERTIES NeverBackwards Termination
