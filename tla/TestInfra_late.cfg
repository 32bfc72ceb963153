CONSTANTS
  NumPE = 3
  Primary = 0
  NumTests = 3
  Kind <- MCKindEach
  SkipTests = {}
  Patient = FALSE
  WaitBudget = 2
SPECIFICATION Spec
INVARIANTS PassSound
