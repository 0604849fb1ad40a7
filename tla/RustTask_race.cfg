\* Two threads; Cancel of any non-leaf task, started or not, at any time.
SPECIFICATION Spec
CONSTANTS
  root = root mid = mid leaf = leaf leaf2 = leaf2
  Threads = {t1, t2}
  Tasks <- ChainTasks
  Root = root
  Parent <- ChainParent
  Leaves <- ChainLeaves
  Cancellable = {root, mid}
  CancelCreated = TRUE
  Client = Client Wrapper = Wrapper None = None
SYMMETRY ThreadSymmetry
INVARIANTS
  TypeOK MachineKeptWhileRunning
CHECK_DEADLOCK FALSE
