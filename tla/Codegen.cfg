SPECIFICATION ProgramSpec
CONSTANTS
  CrateName <- MCCrateName
  Excluded <- MCExcluded
  Nesting <- MCNesting
  WrappedTraits <- MCWrappedTraits
  Crates <- MCCrates
INVARIANTS
  LayoutBalanced
  EmittedOnce
  ReferencesResolve
  NamesDistinct
  InterfacesImplemented
  ReadsInitialised
  WalkInv
  CoverInv
  OrderInv
CHECK_DEADLOCK FALSE
