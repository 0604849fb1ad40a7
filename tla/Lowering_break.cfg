SPECIFICATION Spec
CONSTANTS
  Programs <- MCPrograms
  InputLen = 4
  Fuel = 5
  KnownGaps <- GapsButBreak
INVARIANT SameBehaviour
CHECK_DEADLOCK FALSE
