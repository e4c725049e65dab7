\* Eight pages in two chunks of the largest order.
CONSTANTS
  MAX_ORDER = 2
  nr_pages_in_order = 3
  UintBits = 4
SPECIFICATION Spec
INVARIANTS
  Partition
  Coalesced
  RefusedOnlyWhenNoneFree
  IndexTellsRefusal
PROPERTIES
  ImplementsAllocator
  ListsAreQueues
