\* The counters do not wrap here.
CONSTANTS
  MAX_ORDER = 2
  nr_pages_in_order = 3
  UintBits = 16
SPECIFICATION Spec
INVARIANT
  CountersTellPages
