CONSTANTS
  NumPE = 3
  Primary = 0
  NumTests = 3
  Kind <- MCKindEach
  SkipTests = {}
  Patient = FALSE
  WaitBudget = 2
SPECIFICATION FairSpec
INVARIANTS ExpiryBlamesLast
PROPERTIES Termination
