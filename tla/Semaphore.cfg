\* Two permits, four threads: two hand-overs can run side by side, and never
\* more than two nodes are in use: while a thread queues, both permits are held,
\* which leaves two threads to queue or to poll.  No symmetry, which liveness
\* does not allow.
CONSTANTS
  Threads = {t1, t2, t3, t4}
  Nodes = {n1, n2}
  NoThread = NoThread
  NoNode = NoNode
  SignalsFirst = FALSE
  PromptWakeup = TRUE
  Permits = 2
SPECIFICATION FairSpec
INVARIANT ValueAccounted
PROPERTIES
  ImplementsFifoSemaphore
  WaiterServed
