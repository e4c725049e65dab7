------------------------------- MODULE Buddy --------------------------------
(***************************************************************************)
(* buddy.c driven by main.c and checker.c: the 'a' command allocates a     *)
(* chunk and records it with the checker, the 'd' command takes a record   *)
(* back and frees its chunk.  A free list is the sequence of the start     *)
(* pages of its chunks, first to last; BuddyHeap has the linked lists.     *)
(***************************************************************************)
EXTENDS Integers, Sequences, FiniteSets, SequencesExt, FiniteSetsExt

CONSTANTS
  MAX_ORDER,          \* of the Makefile
  nr_pages_in_order,  \* the -n option
  UintBits            \* width of the two page counters

\* main.c refuses a smaller nr_pages_in_order.  The counters only ever add and
\* subtract, so they wrap; page numbers are taken to fit their type.
ASSUME BuddyAssumption ==
  /\ MAX_ORDER \in Nat /\ nr_pages_in_order \in Nat /\ UintBits \in Nat
  /\ MAX_ORDER <= nr_pages_in_order

EINVAL == 22
ENOMEM == 12

Orders == 0..MAX_ORDER

uint(n) == n % 2^UintBits

VARIABLES
  chunks,     \* chunks[i]: buddy.chunks[i]
  allocated,  \* buddy.allocated
  free,       \* buddy.free
  ops         \* the checker's records, without their running id

vars == <<chunks, allocated, free, ops>>

\* init_buddy: the pages in MAX_ORDER chunks, by rising start.
Init ==
  /\ chunks = [i \in Orders |->
       IF i = MAX_ORDER
       THEN [j \in 1..2^(nr_pages_in_order - MAX_ORDER) |-> (j - 1) * 2^MAX_ORDER]
       ELSE <<>>]
  /\ allocated = 0
  /\ free = uint(2^nr_pages_in_order)
  /\ ops = {}

-----------------------------------------------------------------------------
(* alloc_pages and mark_alloc_pages                                        *)

\* Fault: the search stops one order short.
OrdersBelowMax(order) == {i \in (order + 1)..(MAX_ORDER - 1) : chunks[i] # <<>>}

\* The orders above the requested one that have a free chunk.
HigherOrders(order) == {i \in (order + 1)..MAX_ORDER : chunks[i] # <<>>}

\* What alloc_pages returns; it changes nothing unless that is 0.
alloc_result(order) ==
  IF order > MAX_ORDER THEN -EINVAL
  ELSE IF chunks[order] # <<>> \/ HigherOrders(order) # {} THEN 0
  ELSE IF order = MAX_ORDER THEN ENOMEM
  ELSE EINVAL

\* Where the chunk for the request comes from: its own list, else the first
\* list above it that is not empty.
highOrder(order) == IF chunks[order] # <<>> THEN order ELSE Min(HigherOrders(order))

\* Fault: the last right half is not put into its list.
SplitLosing(order) ==
  LET high == highOrder(order)
      page == Head(chunks[high])
  IN [i \in Orders |->
        IF i = high THEN Tail(chunks[i])
        ELSE IF i \in (order + 1)..(high - 1) THEN Append(chunks[i], page + 2^i)
        ELSE chunks[i]]

\* Take the first chunk of highOrder and halve it down to order: each right
\* half goes to the tail of its list, the last left half is the result.
Split(order) ==
  LET high == highOrder(order)
      page == Head(chunks[high])
  IN [i \in Orders |->
        IF i = high THEN Tail(chunks[i])
        ELSE IF i \in order..(high - 1) THEN Append(chunks[i], page + 2^i)
        ELSE chunks[i]]

\* mark_alloc_pages looks for a record whose pages include the first of the
\* new ones; it only reports what it finds.
AlreadyMarked(page) ==
  \E op \in ops : op.page <= page /\ page < op.page + 2^op.order

Alloc(order) ==
  /\ alloc_result(order) = 0
  /\ LET page == Head(chunks[highOrder(order)])
     IN ops' = IF AlreadyMarked(page) THEN ops
               ELSE ops \cup {[page |-> page, order |-> order]}
  /\ chunks' = Split(order)
  /\ allocated' = uint(allocated + 2^order)
  /\ free' = uint(free - 2^order)

-----------------------------------------------------------------------------
(* clear_alloc_pages and free_pages                                        *)

\* Fault: a merged chunk keeps the start of the freed one.
StartKept(page, i) == page

\* The start of the order-i chunk page has been merged into.
StartAt(page, i) == page - (page % 2^i)

\* Fault: the buddy is always looked for on the right.
RightNeighbour(start, i) == start + 2^i

\* myBuddyStart.
BuddyOf(start, i) ==
  IF start % 2^(i + 1) = 0 THEN start + 2^i ELSE start - 2^i

MergesAt(page, i) ==
  i < MAX_ORDER /\ Contains(chunks[i], BuddyOf(StartAt(page, i), i))

\* The order the freed chunk has after the merges.
MergedOrder(page, order) == Min({i \in order..MAX_ORDER : ~MergesAt(page, i)})

\* Fault: the freed chunk goes to the head of its list.
MergeAtHead(page, order) ==
  LET top == MergedOrder(page, order)
  IN [i \in Orders |->
        IF i \in order..(top - 1) THEN RemoveFirst(chunks[i], BuddyOf(StartAt(page, i), i))
        ELSE IF i = top THEN <<StartAt(page, i)>> \o chunks[i]
        ELSE chunks[i]]

Merge(page, order) ==
  LET top == MergedOrder(page, order)
  IN [i \in Orders |->
        IF i \in order..(top - 1) THEN RemoveFirst(chunks[i], BuddyOf(StartAt(page, i), i))
        ELSE IF i = top THEN Append(chunks[i], StartAt(page, i))
        ELSE chunks[i]]

\* Only the branch for an empty list reaches the two counters.
Free(op) ==
  /\ ops' = ops \ {op}
  /\ chunks' = Merge(op.page, op.order)
  /\ IF chunks[op.order] = <<>>
     THEN /\ allocated' = uint(allocated - 2^op.order)
          /\ free' = uint(free + 2^op.order)
     ELSE UNCHANGED <<allocated, free>>

-----------------------------------------------------------------------------

Next ==
  \/ \E order \in Orders : Alloc(order)
  \/ \E op \in ops : Free(op)

Spec == Init /\ [][Next]_vars

-----------------------------------------------------------------------------
(* get_unusable_index                                                      *)

\* The pages in free chunks of the orders in S.
FreePages(S) == MapThenSumSet(LAMBDA i : Len(chunks[i]) * 2^i, S)

\* Fault: chunks of the order itself count as too small.
TooSmall(order) == FreePages({i \in Orders : i <= order})

inallocatable(order) == FreePages({i \in Orders : i < order})
allocatable(order) == FreePages({i \in Orders : i >= order})

-----------------------------------------------------------------------------
(* Properties                                                              *)

Allocator == INSTANCE PageAllocator WITH held <- ops

\* No page is handed out twice, no chunk misaligned, through every split and
\* merge; and the checker never has anything to report.
ImplementsAllocator == Allocator!Spec

\* The free chunks as chunks.
FreeChunks ==
  UNION {{[page |-> chunks[i][j], order |-> i] : j \in 1..Len(chunks[i])} : i \in Orders}

AllChunks == FreeChunks \cup ops

\* Every page is in exactly one chunk, free or allocated: none is lost in a
\* split or a merge, none is listed twice, in one list or in two.
Partition ==
  /\ UNION {Allocator!PagesOf(c) : c \in AllChunks} = Allocator!Pages
  /\ \A c, d \in AllChunks : c # d => Allocator!Disjoint(c, d)
  /\ FreeChunks \cap ops = {}
  /\ \A i \in Orders : IsInjective(chunks[i])

\* No two buddies lie free side by side: free_pages has merged all that can be
\* merged, at every order, whatever the order of the calls.
Coalesced ==
  \A i \in Orders \ {MAX_ORDER} : \A j \in 1..Len(chunks[i]) :
    ~Contains(chunks[i], BuddyOf(chunks[i][j], i))

\* A request is refused only when no aligned chunk of the order is free: the
\* allocator never fails because it did not merge in time.
RefusedOnlyWhenNoneFree ==
  \A order \in Orders : alloc_result(order) # 0 <=> Allocator!Available(order) = {}

\* What the unusable index divides by is the number of pages nobody holds, 0
\* when every page is held; the index is 1, or 0/0 then, exactly when a request
\* of the order is refused.  (buddy.c 476-511)
IndexTellsRefusal ==
  LET total == 2^nr_pages_in_order - MapThenSumSet(LAMBDA c : 2^c.order, ops)
  IN \A order \in Orders :
       /\ inallocatable(order) + allocatable(order) = total
       /\ inallocatable(order) = total <=> alloc_result(order) # 0

\* The free lists work like queues: only the oldest chunk of a list is handed
\* out or split, new chunks go to the tail, and a merge that takes one out of
\* the middle keeps the others' order.  (buddy.c 42-45)
Queues ==
  \A i \in Orders :
    LET old == chunks[i]
        new == chunks'[i]
    IN /\ \A k \in 1..Len(new) : Contains(old, new[k]) =>
            \A j \in 1..(k - 1) :
              \E a, b \in 1..Len(old) : a < b /\ old[a] = new[j] /\ old[b] = new[k]
       /\ ~(ops' \subseteq ops) => \A j \in 2..Len(old) : Contains(new, old[j])

ListsAreQueues == [][Queues]_vars

\* buddy.allocated and buddy.free are the numbers of pages that are allocated
\* and free.  (the comments of buddy.c 107-108)
CountersTellPages ==
  /\ allocated = MapThenSumSet(LAMBDA c : 2^c.order, ops)
  /\ free = FreePages(Orders)

=============================================================================
