----------------------------- MODULE RingBuffer -----------------------------
(***************************************************************************)
(* ringbuffer.c, counter.c and the main of pa3: generators put random      *)
(* values into the ring, the counter takes them out and counts them, main  *)
(* joins them all and frees the ring.  enqueue_using_* and dequeue_using_* *)
(* are the same code around three locks, so this module has what they do   *)
(* between acquiring and releasing, one shared access to a step; the lock  *)
(* is added by GuardedRing (an ideal one) and Pa3 (those of locks.c).      *)
(*                                                                         *)
(* generator.c is not in the repository: Generate and what main expects of *)
(* fini_generators are taken from how pa3 and merge_gen.sh use them.       *)
(***************************************************************************)
EXTENDS Integers, Sequences, FiniteSets, FiniteSetsExt

CONSTANTS
  Generators,   \* the generator threads
  Counter,      \* the counter thread
  Values,       \* MIN_VALUE..MAX_VALUE-1
  Garbage,      \* what a cell nobody wrote holds
  NrSlots,      \* _nr_slots_
  NrGenerate    \* requests of one generator

ASSUME RingBufferAssumption ==
  /\ IsFiniteSet(Generators) /\ Counter \notin Generators
  /\ IsFiniteSet(Values) /\ Garbage \notin Values
  /\ NrSlots \in Nat \ {0} /\ NrGenerate \in Nat

VARIABLES
  ringbuffer, front, rear,
  op,           \* op[t]: the next statement of t
  val,          \* val[t]: value in enqueue, buffer in dequeue
  left,         \* left[t]: requests t has yet to make
  generated,    \* generated[v]: how often v was generated (the GEN files)
  occurrances,
  main          \* the next statement of main

ringVars ==
  <<ringbuffer, front, rear, op, val, left, generated, occurrances, main>>

Workers == Generators \cup {Counter}

max == NrSlots + 1

isEmpty == front = rear
isFull == (rear + 1) % max = front

\* init_ringbuffer, spawn_counter and spawn_generators.  The ring is modelled
\* with the max cells its indices address; malloc is asked for one less.
RingInit ==
  /\ ringbuffer = [i \in 0..NrSlots |-> Garbage]
  /\ front = 0 /\ rear = 0
  /\ op = [t \in Workers |-> IF t = Counter THEN "enter" ELSE "generate"]
  /\ val = [t \in Workers |-> Garbage]
  /\ left = [t \in Workers |->
               IF t = Counter THEN Cardinality(Generators) * NrGenerate
                              ELSE NrGenerate]
  /\ generated = [v \in Values |-> 0]
  /\ occurrances = [v \in Values |-> 0]
  /\ main = "fini_generators"

-----------------------------------------------------------------------------
(* Outside the lock                                                        *)

\* A generator draws a value, records it in its GEN file, calls
\* enqueue_ringbuffer.
Generate(g) ==
  /\ op[g] = "generate" /\ left[g] > 0
  /\ \E v \in Values :
       /\ val' = [val EXCEPT ![g] = v]
       /\ generated' = [generated EXCEPT ![v] = @ + 1]
  /\ op' = [op EXCEPT ![g] = "enter"]
  /\ UNCHANGED <<ringbuffer, front, rear, left, occurrances, main>>

\* enqueue_ringbuffer has returned.
Generated(g) ==
  /\ op[g] = "count" /\ g # Counter
  /\ left' = [left EXCEPT ![g] = @ - 1]
  /\ val' = [val EXCEPT ![g] = Garbage]
  /\ op' = [op EXCEPT ![g] = "generate"]
  /\ UNCHANGED <<ringbuffer, front, rear, generated, occurrances, main>>

\* dequeue_ringbuffer has returned: occurrances[value]++.  A value that is no
\* index of the array trips the assertion of dequeue_ringbuffer instead.
Count ==
  /\ op[Counter] = "count" /\ val[Counter] \in Values
  /\ occurrances' = [occurrances EXCEPT ![val[Counter]] = @ + 1]
  /\ left' = [left EXCEPT ![Counter] = @ - 1]
  /\ val' = [val EXCEPT ![Counter] = Garbage]
  /\ op' = [op EXCEPT ![Counter] = "enter"]
  /\ UNCHANGED <<ringbuffer, front, rear, generated, main>>

-----------------------------------------------------------------------------
(* Inside the lock                                                         *)

\* Fault: the thread tries again without releasing the lock.
RefuseInside(t) ==
  /\ op[t] = "enter"
  /\ IF t = Counter THEN isEmpty ELSE isFull
  /\ UNCHANGED ringVars

\* isFull() or isEmpty() says no: release the lock and try again.
Refuse(t) ==
  /\ op[t] = "enter"
  /\ IF t = Counter THEN isEmpty ELSE isFull
  /\ op' = [op EXCEPT ![t] = "retry"]
  /\ UNCHANGED <<ringbuffer, front, rear, val, left, generated, occurrances, main>>

\* rear = (rear+1) % max
AdvanceRear(g) ==
  /\ op[g] = "enter" /\ g # Counter /\ ~isFull
  /\ rear' = (rear + 1) % max
  /\ op' = [op EXCEPT ![g] = "store"]
  /\ UNCHANGED <<ringbuffer, front, val, left, generated, occurrances, main>>

\* ringbuffer[rear] = value
Store(g) ==
  /\ op[g] = "store"
  /\ ringbuffer' = [ringbuffer EXCEPT ![rear] = val[g]]
  /\ op' = [op EXCEPT ![g] = "leave"]
  /\ UNCHANGED <<front, rear, val, left, generated, occurrances, main>>

\* Fault: isEmpty() is not asked.
AdvanceFrontUntested ==
  /\ op[Counter] = "enter"
  /\ front' = (front + 1) % max
  /\ op' = [op EXCEPT ![Counter] = "load"]
  /\ UNCHANGED <<ringbuffer, rear, val, left, generated, occurrances, main>>

\* front = (front+1) % max
AdvanceFront ==
  /\ op[Counter] = "enter" /\ ~isEmpty
  /\ front' = (front + 1) % max
  /\ op' = [op EXCEPT ![Counter] = "load"]
  /\ UNCHANGED <<ringbuffer, rear, val, left, generated, occurrances, main>>

\* Fault: the newest value is read.
LoadNewest ==
  /\ op[Counter] = "load"
  /\ val' = [val EXCEPT ![Counter] = ringbuffer[rear]]
  /\ op' = [op EXCEPT ![Counter] = "leave"]
  /\ UNCHANGED <<ringbuffer, front, rear, left, generated, occurrances, main>>

\* buffer = ringbuffer[front]
Load ==
  /\ op[Counter] = "load"
  /\ val' = [val EXCEPT ![Counter] = ringbuffer[front]]
  /\ op' = [op EXCEPT ![Counter] = "leave"]
  /\ UNCHANGED <<ringbuffer, front, rear, left, generated, occurrances, main>>

Inside(t) ==
  \/ Refuse(t)
  \/ t # Counter /\ (AdvanceRear(t) \/ Store(t))
  \/ t = Counter /\ (AdvanceFront \/ Load)

\* The lock is released: the operation is over, or starts again.
Leave(t) ==
  /\ \/ op[t] = "leave" /\ op' = [op EXCEPT ![t] = "count"]
     \/ op[t] = "retry" /\ op' = [op EXCEPT ![t] = "enter"]
  /\ UNCHANGED <<ringbuffer, front, rear, val, left, generated, occurrances, main>>

\* t still has an element to move: it asks for the lock.
Wants(t) == op[t] = "enter" /\ left[t] > 0

-----------------------------------------------------------------------------
(* main                                                                    *)

Finished(t) == left[t] = 0

\* Fault: the counter is not joined.
MainJoinsHalf ==
  /\ \/ /\ main = "fini_generators"
        /\ \A g \in Generators : Finished(g)
        /\ main' = "fini_ringbuffer"
     \/ main = "fini_ringbuffer" /\ main' = "exit"
  /\ UNCHANGED <<ringbuffer, front, rear, op, val, left, generated, occurrances>>

\* fini_generators joins the generators, fini_counter the counter, then
\* fini_ringbuffer frees the ring.
Main ==
  /\ \/ /\ main = "fini_generators"
        /\ \A g \in Generators : Finished(g)
        /\ main' = "fini_counter"
     \/ /\ main = "fini_counter" /\ Finished(Counter)
        /\ main' = "fini_ringbuffer"
     \/ main = "fini_ringbuffer" /\ main' = "exit"
  /\ UNCHANGED <<ringbuffer, front, rear, op, val, left, generated, occurrances>>

=============================================================================
