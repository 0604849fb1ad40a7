\* One thread: Cancel of a task nobody awaited yet.
SPECIFICATION Spec
CONSTANTS
  root = root mid = mid leaf = leaf leaf2 = leaf2
  Threads = {t1}
  Tasks <- ChainTasks
  Root = root
  Parent <- ChainParent
  Leaves <- ChainLeaves
  Cancellable = {root}
  CancelCreated = TRUE
  Client = Client Wrapper = Wrapper None = None
INVARIANT NoEscape
CHECK_DEADLOCK FALSE
