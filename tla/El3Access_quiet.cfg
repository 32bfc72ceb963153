SPECIFICATION Spec
CONSTANTS
  Scenarios <- MCQuiet
  Rounds = 3
INVARIANTS ServicesRun
