\* Three threads, so that two can wait, and the wake-up timing release_mutex
\* relies on.  No symmetry, which liveness does not allow.
CONSTANTS
  Threads = {t1, t2, t3}
  Nodes = {n1, n2, n3}
  NoThread = NoThread
  NoNode = NoNode
  SignalsFirst = FALSE
  PromptWakeup = TRUE
SPECIFICATION FairSpec
INVARIANTS
  MutualExclusion
  HoldAccounted
  NodeSafety
  NoStraySignal
PROPERTIES
  ImplementsFifoLock
  WaiterServed
  ReleaseReturns
