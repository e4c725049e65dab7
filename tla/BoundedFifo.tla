---------------------------- MODULE BoundedFifo -----------------------------
(***************************************************************************)
(* What the ring buffer of MyLock promises the generators and the counter: *)
(* a value offered by a generator enters a first-in first-out queue of at  *)
(* most Capacity values once, and the counter fetches each value once, in  *)
(* the order of entry.                                                     *)
(***************************************************************************)
EXTENDS Naturals, Sequences

CONSTANTS Generators, Values, Capacity, None

VARIABLES
  offered,  \* offered[g]: the value g waits to put in, or None
  fifo,     \* the values inside
  fetched   \* the value the counter has taken out and not counted, or None

Init ==
  /\ offered = [g \in Generators |-> None]
  /\ fifo = <<>>
  /\ fetched = None

Offer(g) ==
  /\ offered[g] = None
  /\ \E v \in Values : offered' = [offered EXCEPT ![g] = v]
  /\ UNCHANGED <<fifo, fetched>>

Put(g) ==
  /\ offered[g] # None
  /\ Len(fifo) < Capacity
  /\ fifo' = Append(fifo, offered[g])
  /\ offered' = [offered EXCEPT ![g] = None]
  /\ UNCHANGED fetched

Fetch ==
  /\ fetched = None
  /\ fifo # <<>>
  /\ fetched' = Head(fifo)
  /\ fifo' = Tail(fifo)
  /\ UNCHANGED offered

Count ==
  /\ fetched # None
  /\ fetched' = None
  /\ UNCHANGED <<offered, fifo>>

Next == Fetch \/ Count \/ \E g \in Generators : Offer(g) \/ Put(g)

Spec == Init /\ [][Next]_<<offered, fifo, fetched>>

=============================================================================
