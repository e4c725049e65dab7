----------------------------- MODULE BuddyHeap ------------------------------
(***************************************************************************)
(* The buddy allocator of buddy.c with its linked lists: struct chunk      *)
(* cells from malloc, first and last pointers per order, and one step per  *)
(* iteration of the loops of init_buddy, alloc_pages, free_pages and       *)
(* fini_buddy.  Buddy is what these steps amount to, call by call: its     *)
(* chunks and ops are here what the lists and the records were when no     *)
(* call was running; the page counters are the same.                       *)
(***************************************************************************)
EXTENDS Buddy

CONSTANTS
  Cells,  \* addresses malloc returns for struct chunk
  NULL

ASSUME BuddyHeapAssumption == IsFiniteSet(Cells) /\ NULL \notin Cells

VARIABLES
  mem,      \* the cells and the lists, see below
  records,  \* the checker's records
  pc,       \* "idle", or in the loop of "init", "alloc", "free" or "fini", or "ended"
  asked,    \* the parameter order of the call
  cp,       \* the local cp of free_pages, lcp of alloc_pages
  level     \* arrow of init_buddy, i of alloc_pages and fini_buddy, currentOrder of free_pages

heapVars == <<mem, records, allocated, free, pc, asked, cp, level, chunks, ops>>

-----------------------------------------------------------------------------
(* Memory: start, order and chunkPointer of each cell; the cells that are  *)
(* live; first and last of each buddy.chunks[i].                           *)

\* The address of the next cell malloc returns: freed ones are reused at once.
Fresh(m) == CHOOSE c \in Cells : c \notin m.live

\* Bound: a call that needs more cells than there are does not go on.
CanMalloc(n) == Cardinality(Cells \ mem.live) >= n

\* malloc a cell and fill it in.
NewChunk(m, start, ord) ==
  LET c == Fresh(m)
  IN [m EXCEPT !.live = @ \cup {c}, !.start[c] = start, !.order[c] = ord,
               !.chunkPointer[c] = NULL]

\* free(c): what the cell held is forgotten.
FreeChunk(m, c) ==
  [m EXCEPT !.live = @ \ {c}, !.start[c] = 0, !.order[c] = 0, !.chunkPointer[c] = NULL]

insertChunkList(m, c, i) ==
  IF m.first[i] = NULL /\ m.last[i] = NULL
  THEN [m EXCEPT !.first[i] = c, !.last[i] = c]
  ELSE [m EXCEPT !.chunkPointer[m.last[i]] = c, !.last[i] = c]

removeChunkList(m, i) ==
  IF m.first[i] = m.last[i]
  THEN [m EXCEPT !.first[i] = NULL, !.last[i] = NULL]
  ELSE [m EXCEPT !.first[i] = m.chunkPointer[@]]

\* Take myBuddy, found after frontChunk, out of list i.
Unlink(m, myBuddy, frontChunk, i) ==
  LET next == m.chunkPointer[myBuddy]
      linked == IF frontChunk # NULL
                THEN [m EXCEPT !.chunkPointer[frontChunk] = next] ELSE m
  IN [linked EXCEPT
        !.first[i] = IF @ = myBuddy THEN next ELSE @,
        !.last[i] = IF @ = myBuddy THEN frontChunk ELSE @]

\* The cells of list i from first along chunkPointer, cut short in a cycle.
CellsOf(m, i) ==
  LET hop[n \in 0..Cardinality(Cells)] ==
        IF n = 0 THEN m.first[i]
        ELSE LET c == hop[n - 1] IN IF c = NULL THEN NULL ELSE m.chunkPointer[c]
      length == Cardinality({n \in 0..(Cardinality(Cells) - 1) : hop[n] # NULL})
  IN [j \in 1..length |-> hop[j - 1]]

Starts(m) == [i \in Orders |->
  LET cells == CellsOf(m, i) IN [j \in DOMAIN cells |-> m.start[cells[j]]]]

\* The call is over; its locals go out of scope.
Return ==
  /\ pc' = "idle" /\ asked' = 0 /\ cp' = NULL /\ level' = 0
  /\ chunks' = Starts(mem') /\ ops' = records'

Enter(call, ord, lev) ==
  /\ pc = "idle" /\ pc' = call
  /\ asked' = ord /\ level' = lev
  /\ UNCHANGED <<chunks, ops>>

-----------------------------------------------------------------------------
(* init_buddy: a MAX_ORDER chunk for each arrow.                           *)

HeapInit ==
  /\ mem = [live |-> {},
            start |-> [c \in Cells |-> 0], order |-> [c \in Cells |-> 0],
            chunkPointer |-> [c \in Cells |-> NULL],
            first |-> [i \in Orders |-> NULL], last |-> [i \in Orders |-> NULL]]
  /\ records = {}
  /\ pc = "init" /\ asked = 0 /\ cp = NULL /\ level = 0
  /\ Init

InitRound ==
  /\ pc = "init"
  /\ IF level = 2^nr_pages_in_order
     THEN /\ UNCHANGED <<mem, records>>
          /\ Return
     ELSE /\ CanMalloc(1)
          /\ mem' = insertChunkList(NewChunk(mem, level, MAX_ORDER), Fresh(mem), MAX_ORDER)
          /\ level' = level + 2^MAX_ORDER
          /\ UNCHANGED <<records, pc, asked, cp, chunks, ops>>
  /\ UNCHANGED <<allocated, free>>

-----------------------------------------------------------------------------
(* alloc_pages                                                             *)

Mark(page, ord) ==
  records' = IF \E op \in records : op.page <= page /\ page < op.page + 2^op.order
             THEN records ELSE records \cup {[page |-> page, order |-> ord]}

Account(ord) ==
  /\ allocated' = uint(allocated + 2^ord)
  /\ free' = uint(free - 2^ord)

IsEmptyList(i) == mem.first[i] = NULL /\ mem.last[i] = NULL

\* The order's own list has a chunk.
AllocFirst(ord) ==
  LET c == mem.first[ord]
  IN /\ pc = "idle" /\ ~IsEmptyList(ord)
     /\ mem' = FreeChunk(removeChunkList(mem, ord), c)
     /\ Mark(mem.start[c], ord)
     /\ Account(ord)
     /\ Return

\* It has none; the search upwards stops at the first list that has.
AllocSplit(ord) ==
  LET above == {i \in (ord + 1)..MAX_ORDER : mem.first[i] # NULL}
  IN /\ IsEmptyList(ord) /\ above # {}
     /\ Enter("alloc", ord, Min(above))
     /\ UNCHANGED <<mem, records, allocated, free, cp>>

\* One round of the split loop: cp is the chunk to halve, from its list in the
\* first round, the last left half afterwards.  When order is reached the left
\* half is handed out.
SplitRound ==
  LET old == IF cp = NULL THEN mem.first[level] ELSE cp
      removed == IF cp = NULL THEN removeChunkList(mem, level) ELSE mem
      half == mem.order[old] - 1
      left == NewChunk(removed, mem.start[old], half)
      lcp == Fresh(removed)
      right == NewChunk(left, mem.start[old] + 2^half, half)
      rcp == Fresh(left)
      split == insertChunkList(FreeChunk(right, old), rcp, level - 1)
  IN /\ pc = "alloc" /\ CanMalloc(2)
     /\ IF level - 1 > asked
        THEN /\ mem' = split
             /\ cp' = lcp /\ level' = level - 1
             /\ UNCHANGED <<records, allocated, free, pc, asked, chunks, ops>>
        ELSE /\ mem' = FreeChunk(split, lcp)
             /\ Mark(mem.start[old], asked)
             /\ Account(asked)
             /\ Return

-----------------------------------------------------------------------------
(* free_pages                                                              *)

\* The order's list is empty: insert, and reach the counters.
FreeAlone(op) ==
  /\ pc = "idle" /\ IsEmptyList(op.order) /\ CanMalloc(1)
  /\ mem' = insertChunkList(NewChunk(mem, op.page, op.order), Fresh(mem), op.order)
  /\ records' = records \ {op}
  /\ allocated' = uint(allocated - 2^op.order)
  /\ free' = uint(free + 2^op.order)
  /\ Return

\* It is not: look for a buddy.  The checker's record is gone already.
FreeSearch(op) ==
  /\ ~IsEmptyList(op.order) /\ CanMalloc(1)
  /\ mem' = NewChunk(mem, op.page, op.order)
  /\ cp' = Fresh(mem)
  /\ records' = records \ {op}
  /\ Enter("free", op.order, op.order)
  /\ UNCHANGED <<allocated, free>>

\* Fault: the buddy is always looked for on the right.
RightOfStart == mem.start[cp] + 2^mem.order[cp]

myBuddyStart == BuddyOf(mem.start[cp], mem.order[cp])

\* The places in the list where the buddy is.
Found ==
  LET cells == CellsOf(mem, level) IN {j \in DOMAIN cells : mem.start[cells[j]] = myBuddyStart}

\* Merge with the buddy, go up one order.
MergeRound ==
  LET at == Min(Found)
      myBuddy == CellsOf(mem, level)[at]
      frontChunk == IF at = 1 THEN NULL ELSE CellsOf(mem, level)[at - 1]
      merged == [mem EXCEPT !.order[cp] = @ + 1,
                            !.start[cp] = IF @ < myBuddyStart THEN @ ELSE mem.start[myBuddy]]
  IN /\ pc = "free" /\ Found # {} /\ level < MAX_ORDER
     /\ mem' = FreeChunk(Unlink(merged, myBuddy, frontChunk, level), myBuddy)
     /\ level' = level + 1
     /\ UNCHANGED <<records, allocated, free, pc, asked, cp, chunks, ops>>

\* No buddy, or nothing larger to merge into: insert, and return at once.
FreeInsert ==
  /\ pc = "free" /\ (Found = {} \/ level >= MAX_ORDER)
  /\ mem' = insertChunkList(mem, cp, level)
  /\ UNCHANGED <<records, allocated, free>>
  /\ Return

-----------------------------------------------------------------------------
(* fini_buddy: empty one list after the other.                             *)

Quit ==
  /\ Enter("fini", 0, 0)
  /\ UNCHANGED <<mem, records, allocated, free, cp>>

\* Fault: the last list is left out.
FiniShort ==
  /\ pc = "fini"
  /\ IF IsEmptyList(level) \/ level = MAX_ORDER
     THEN /\ level' = level + 1
          /\ pc' = IF level = MAX_ORDER THEN "ended" ELSE pc
          /\ UNCHANGED mem
     ELSE /\ mem' = FreeChunk(removeChunkList(mem, level), mem.first[level])
          /\ UNCHANGED <<level, pc>>
  /\ UNCHANGED <<records, allocated, free, asked, cp, chunks, ops>>

FiniRound ==
  /\ pc = "fini"
  /\ IF IsEmptyList(level)
     THEN /\ level' = level + 1
          /\ pc' = IF level = MAX_ORDER THEN "ended" ELSE pc
          /\ UNCHANGED mem
     ELSE /\ mem' = FreeChunk(removeChunkList(mem, level), mem.first[level])
          /\ UNCHANGED <<level, pc>>
  /\ UNCHANGED <<records, allocated, free, asked, cp, chunks, ops>>

-----------------------------------------------------------------------------

HeapNext ==
  \/ InitRound
  \/ \E ord \in Orders : AllocFirst(ord) \/ AllocSplit(ord)
  \/ \E op \in records : FreeAlone(op) \/ FreeSearch(op)
  \/ SplitRound \/ MergeRound \/ FreeInsert
  \/ Quit \/ FiniRound

HeapSpec == HeapInit /\ [][HeapNext]_heapVars

-----------------------------------------------------------------------------
(* Properties                                                              *)

Linked == UNION {Range(CellsOf(mem, i)) : i \in Orders}

\* Every live cell is in a list or in the running call's hand, so none leaks,
\* and fini_buddy frees them all.
NoLeak ==
  /\ mem.live = Linked \cup ({cp} \ {NULL})
  /\ cp \notin Linked
  /\ pc = "ended" => mem.live = {}

\* Call by call the linked lists behave as the sequences of Buddy.
ImplementsBuddy == Spec

=============================================================================
