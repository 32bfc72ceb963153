\* A stream of a two-level stream table is unmapped.
SPECIFICATION Spec
CONSTANTS
  Scenarios <- MCUnmap
  Log2nent = 2
  Split = 1
CHECK_DEADLOCK FALSE
INVARIANT UnmapClears
