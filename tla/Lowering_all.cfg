SPECIFICATION Spec
CONSTANTS
  Programs <- MCPrograms
  InputLen = 4
  Fuel = 5
  KnownGaps <- AllGaps
INVARIANTS SameBehaviour Compiles
PROPERTY PassesKeepMeaning
CHECK_DEADLOCK FALSE
