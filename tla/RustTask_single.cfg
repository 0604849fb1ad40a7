\* One thread, as the tests of the runtime drive it, and Cancel of the root.
SPECIFICATION FairSpec
CONSTANTS
  root = root mid = mid leaf = leaf leaf2 = leaf2
  Threads = {t1}
  Tasks <- MCTasks
  Root = root
  Parent <- MCParent
  Leaves <- MCLeaves
  Cancellable = {root}
  CancelCreated = FALSE
  Client = Client Wrapper = Wrapper None = None
INVARIANTS
  NoLostWakeup CancelReachesLeaves CancelFlowsDown NoEscape SingleInv
PROPERTIES
  TerminalIsFinal ImplementsFuture
CHECK_DEADLOCK FALSE
