\* Two threads on a chain: Cancel races the completion.
SPECIFICATION Spec
CONSTANTS
  root = root mid = mid leaf = leaf leaf2 = leaf2
  Threads = {t1, t2}
  Tasks <- ChainTasks
  Root = root
  Parent <- ChainParent
  Leaves <- ChainLeaves
  Cancellable = {root}
  CancelCreated = FALSE
  Client = Client Wrapper = Wrapper None = None
PROPERTY TerminalIsFinal
CHECK_DEADLOCK FALSE
