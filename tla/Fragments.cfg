SPECIFICATION FragmentsSpec
CONSTANTS
  WordSize = 1
  PadSize = 3
  Calls <- MCCalls
  ConstTypes <- MCConstTypes
  ConstValues <- ValuesOf
  LiteralKinds <- MCLiteralKinds
  Constructors <- MCConstructors
  MaxDepth = 3
INVARIANTS MacroMeansItsCall ConstPatternMatches NoSilentChange TextIsExpression
CHECK_DEADLOCK FALSE
