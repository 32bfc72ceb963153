SPECIFICATION MCSpec
CONSTANTS
  Scenarios <- MCNoTests
  Rounds = 4
  Machines <- MCRemap
  VAs <- MCVAs
  PAs <- MCPAs
  Bits = 2
  Levels = 3
  L0Bits = 1
  L1Bits = 1
  Calls = 3
  Uses <- MCNoUse
  BitsPerLevel = 1
  TopBits = 1
  PgtLevels = 3
  RlmScenarios <- MCNoRlm
  RlmNent = 8
  PoolSize = 32
  HeapSize = 24
  PageWords = 8
  MaxAreas = 4
  Requests <- MCRequests
INVARIANTS NoneStale
