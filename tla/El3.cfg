SPECIFICATION MCSpec
CONSTANTS
  Scenarios <- MCTests
  Rounds = 4
  Machines <- MCMachines
  VAs <- MCVAs
  PAs <- MCPAs
  Bits = 2
  Levels = 3
  L0Bits = 1
  L1Bits = 1
  Calls = 3
  Uses <- MCUses
  BitsPerLevel = 1
  TopBits = 1
  PgtLevels = 3
  RlmScenarios <- MCRlm
  RlmNent = 8
  PoolSize = 32
  HeapSize = 24
  PageWords = 8
  MaxAreas = 4
  Requests <- MCRequests
INVARIANTS
  ServicesRun HandsBack PassMeansProtected FailMeansBreach
  El3AsAsked RegionsMapped PagesAccounted RlmAsAsked MemorySound
