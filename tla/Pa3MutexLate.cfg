\* The mutex with any wake-up timing: the ring is no longer protected.
CONSTANTS
  Generators = {g1, g2}
  Counter = c
  Values = {v1, v2}
  Garbage = Garbage
  NrSlots = 2
  NrGenerate = 2
  LockTypes = {"mutex"}
  Nodes = {n1, n2, n3}
  NoThread = NoThread
  NoNode = NoNode
  SignalsFirst = TRUE
  PromptWakeup = FALSE
CHECK_DEADLOCK FALSE
SPECIFICATION Spec
SYMMETRY Symmetry
INVARIANT
  ResultMatchesGenerated
