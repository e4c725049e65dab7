\* Every lock of pa3; two values through a ring of one slot, every race for it.
CONSTANTS
  Generators = {g1, g2}
  Counter = c
  Values = {v1, v2}
  Garbage = Garbage
  NrSlots = 1
  NrGenerate = 1
  LockTypes = {"spinlock", "mutex", "semaphore"}
  Nodes = {n1, n2, n3}
  NoThread = NoThread
  NoNode = NoNode
  SignalsFirst = FALSE
  PromptWakeup = TRUE
CHECK_DEADLOCK FALSE
SPECIFICATION FairSpec
PROPERTY
  ImplementsGuardedRing
  Termination
