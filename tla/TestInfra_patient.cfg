CONSTANTS
  NumPE = 3
  Primary = 1
  NumTests = 5
  Kind <- MCKind
  SkipTests = {3}
  Patient = TRUE
  WaitBudget = 2
SPECIFICATION FairSpec
INVARIANTS PassSound FailSound NoStrayPayload
PROPERTIES KeepsPromise
