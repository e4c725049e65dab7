\* Two generators, four values each, through a ring of three cells.  No
\* symmetry, which liveness does not allow.
CONSTANTS
  Generators = {g1, g2}
  Counter = c
  Values = {v1, v2}
  Garbage = Garbage
  NrSlots = 2
  NrGenerate = 4
CHECK_DEADLOCK FALSE
SPECIFICATION FairSpec
INVARIANTS
  NoGarbageFetched
  Conservation
  FreedUnused
PROPERTIES
  ImplementsFifo
  Termination
