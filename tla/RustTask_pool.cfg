\* The client's thread and two pool threads; nobody calls Cancel.
SPECIFICATION Spec
CONSTANTS
  root = root mid = mid leaf = leaf leaf2 = leaf2
  Threads = {t1, t2, t3}
  Tasks <- MCTasks
  Root = root
  Parent <- MCParent
  Leaves <- MCLeaves
  Cancellable = {}
  CancelCreated = FALSE
  Client = Client Wrapper = Wrapper None = None
SYMMETRY ThreadSymmetry
INVARIANTS
  AwaitedEndsFirst NoReentry NoEscape ControlInv
PROPERTY NeverMisleads
CHECK_DEADLOCK FALSE
