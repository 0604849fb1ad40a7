SPECIFICATION Spec
CONSTANTS
  MatchExprs <- MCMatchExprs
  Values <- MCValues
  Arity <- MCArity
  Guards <- MCGuards
  GuardsCross = TRUE
INVARIANT SameArm
CHECK_DEADLOCK FALSE
