---------------------------- MODULE GuardedRing -----------------------------
(***************************************************************************)
(* The ring buffer under an ideal lock: what is true of the queue as long  *)
(* as the lock lets one thread in at a time.                               *)
(***************************************************************************)
EXTENDS RingBuffer

VARIABLE inside  \* the threads between acquire and release

vars == <<ringVars, inside>>

Init == RingInit /\ inside = {}

\* Fault: the lock lets everyone in.
EnterUnlocked(t) ==
  /\ t \notin inside
  /\ Wants(t)
  /\ inside' = inside \cup {t}
  /\ UNCHANGED ringVars

Enter(t) ==
  /\ inside = {}
  /\ Wants(t)
  /\ inside' = {t}
  /\ UNCHANGED ringVars

Work(t) == t \in inside /\ Inside(t) /\ UNCHANGED inside

Exit(t) == t \in inside /\ Leave(t) /\ inside' = inside \ {t}

Outside ==
  /\ \/ \E g \in Generators : Generate(g) \/ Generated(g)
     \/ Count
     \/ Main
  /\ UNCHANGED inside

Next == Outside \/ \E t \in Workers : Enter(t) \/ Work(t) \/ Exit(t)

Spec == Init /\ [][Next]_vars

(***************************************************************************)
(* Threads run, and a thread that asks for the lock again and again gets   *)
(* it now and then: while the ring is full or empty the threads that must  *)
(* retry take and drop the lock all the time, so the one that can go on    *)
(* only ever finds it free between two of their turns.                     *)
(***************************************************************************)
Fairness ==
  /\ WF_vars(Outside)
  /\ \A g \in Generators :
       WF_vars((Generate(g) \/ Generated(g)) /\ UNCHANGED inside)
  /\ \A t \in Workers :
       WF_vars(Work(t)) /\ WF_vars(Exit(t)) /\ SF_vars(Enter(t))

FairSpec == Spec /\ Fairness

-----------------------------------------------------------------------------
(* Properties                                                              *)

Storing == \E g \in Generators : op[g] = "store"

\* How many cells from front+1 on hold queued values: the one front has been
\* moved onto still counts until it is loaded, the one rear has been moved onto
\* does not before it is stored.
Used ==
  ((rear - front) % max)
    + (IF op[Counter] = "load" THEN 1 ELSE 0) - (IF Storing THEN 1 ELSE 0)

First == IF op[Counter] = "load" THEN front ELSE (front + 1) % max

\* The cell of the i-th queued value, and the value.
Cell(i) == (First + i - 1) % max
Queued(i) == ringbuffer[Cell(i)]

\* The generators about to enqueue.
Enqueuing == {g \in Generators : op[g] \in {"enter", "retry", "store"}}

\* The state of the queue the ring stands for.
Offered == [g \in Generators |-> IF g \in Enqueuing THEN val[g] ELSE Garbage]
Contents == [i \in 1..Used |-> Queued(i)]
Fetched == val[Counter]

Fifo == INSTANCE BoundedFifo WITH
  Capacity <- NrSlots,
  None <- Garbage,
  offered <- Offered,
  fifo <- Contents,
  fetched <- Fetched

\* The ring is a queue of NrSlots values, first in first out, across every
\* wrap-around of front and rear.
ImplementsFifo == Fifo!Spec

\* dequeue_ringbuffer's assertion: only generated values come out, never what
\* malloc left in a cell.  (ringbuffer.c 47)
NoGarbageFetched ==
  op[Counter] \in {"leave", "count"} => val[Counter] \in Values

\* v's whereabouts between Generate and Count.
InHand(v) == {g \in Enqueuing : val[g] = v}
InRing(v) == {i \in 1..Used : Queued(i) = v}

InFlight(v) ==
  Cardinality(InHand(v)) + Cardinality(InRing(v)) + (IF Fetched = v THEN 1 ELSE 0)

\* Every generated value is in exactly one place until it has been counted: in
\* the end the RESULT file and the merged GEN files agree, which the Makefile's
\* tests compare with diff.
Conservation ==
  \A v \in Values : generated[v] = occurrances[v] + InFlight(v)

\* The ring is freed only after the last access to it.
FreedUnused == main = "exit" => inside = {} /\ \A t \in Workers : ~Wants(t)

\* pa3 ends: a full ring is drained, an empty one filled, whoever has to retry.
Termination == <>(main = "exit")

=============================================================================
