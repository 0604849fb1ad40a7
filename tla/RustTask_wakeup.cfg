\* Two threads on a chain: a completion races the await that registers for it.
SPECIFICATION Spec
CONSTANTS
  root = root mid = mid leaf = leaf leaf2 = leaf2
  Threads = {t1, t2}
  Tasks <- ChainTasks
  Root = root
  Parent <- ChainParent
  Leaves <- ChainLeaves
  Cancellable = {}
  CancelCreated = FALSE
  Client = Client Wrapper = Wrapper None = None
INVARIANT NoLostWakeup
CHECK_DEADLOCK FALSE
