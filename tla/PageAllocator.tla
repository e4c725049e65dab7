--------------------------- MODULE PageAllocator ----------------------------
(***************************************************************************)
(* What an allocator of 2^order-page chunks promises: a chunk handed out   *)
(* is aligned to its size, lies in the managed pages and overlaps no chunk *)
(* that is still held.                                                     *)
(***************************************************************************)
EXTENDS Integers

CONSTANTS MAX_ORDER, nr_pages_in_order

VARIABLE held  \* the chunks [page, order] handed out and not freed

Orders == 0..MAX_ORDER
Pages == 0..(2^nr_pages_in_order - 1)

PagesOf(c) == c.page..(c.page + 2^c.order - 1)

Disjoint(c, d) == PagesOf(c) \cap PagesOf(d) = {}

AlignedChunks(order) ==
  {c \in [page : Pages, order : {order}] :
     c.page % 2^order = 0 /\ PagesOf(c) \subseteq Pages}

\* The chunks of the given order an allocation may hand out.
Available(order) ==
  {c \in AlignedChunks(order) : \A d \in held : Disjoint(c, d)}

Init == held = {}

Alloc == \E order \in Orders : \E c \in Available(order) : held' = held \cup {c}

Free == \E c \in held : held' = held \ {c}

Next == Alloc \/ Free

Spec == Init /\ [][Next]_held

=============================================================================
