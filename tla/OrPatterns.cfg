SPECIFICATION Spec
CONSTANTS
  MatchExprs <- MCMatchExprs
  Values <- MCValues
  Arity <- MCArity
  Guards <- MCGuards
  GuardsCross = FALSE
INVARIANTS SameArm NoBindingUnderOr
CHECK_DEADLOCK FALSE
