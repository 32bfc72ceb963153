SPECIFICATION Spec
CONSTANTS
  GicPlatforms <- MCPlatforms
  IntIds <- MCIntIds
  MaxInstalls = 2
  MaxRaised = 2
  QueueSlots = 32
  PollLimit = 3
  MaxRequests = 2
  Iorts <- MCIorts
  Requesters <- MCRequesters
  Boards <- MCBoards
  PollBudget = 3
  PeMachines <- MCPeMachines
INVARIANTS IrqSound FramesFound MsiMapped IortFaithful WakeupSound StacksApart
CHECK_DEADLOCK FALSE
