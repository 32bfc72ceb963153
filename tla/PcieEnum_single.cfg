CONSTANTS
  BAR_INCREMENT = 16
  Platforms <- MCSingleBar
SPECIFICATION Spec
INVARIANT NextIterationFree
