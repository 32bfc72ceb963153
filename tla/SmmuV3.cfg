\* The driver stops when the tests make no more calls.
SPECIFICATION Spec
CONSTANTS
  Scenarios <- MCScenarios
  Log2nent = 2
  Split = 1
CHECK_DEADLOCK FALSE
INVARIANTS AsPromised QueueFaithful TablesOwned
PROPERTY Returns
