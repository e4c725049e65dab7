\* Eight pages in two chunks: splits and merges cascade through three orders,
\* and merges take cells out of the head, the middle and the end of a list.
CONSTANTS
  MAX_ORDER = 2
  nr_pages_in_order = 3
  UintBits = 1
  Cells = {c1, c2, c3, c4, c5, c6}
  NULL = NULL
CHECK_DEADLOCK FALSE
SPECIFICATION HeapSpec
INVARIANT
  NoLeak
PROPERTY
  ImplementsBuddy
