SPECIFICATION MCSpec
CONSTANTS
  BAR_INCREMENT = 16
  Platforms <- MCBuses
  Machines <- MCSystems
  PCIE_MAX_DEV = 2
  PCIE_MAX_FUNC = 2
  ADDR_PAGES = 1024
  MaxCalls = 2
  MaxErrors = 1
  MaxRequests = 4
  EX_ADDRS = {1, 1026}
  MAX_STREAM_ID = 12
INVARIANTS
  BusesRouted BarsPlaced NextIterationFree TableRight
  RegistersAsAsked ChecksSound ExercisersAsAsked StreamsAsAsked PassMeansAssigned TornDown
CHECK_DEADLOCK FALSE
