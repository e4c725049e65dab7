--------------------------- MODULE FifoSemaphore ----------------------------
(***************************************************************************)
(* What the blocking locks of locks.c promise their callers: at most       *)
(* Permits threads hold the lock, a thread that finds no permit waits, and *)
(* a permit given back goes to the thread that has waited longest.  With   *)
(* Permits = 1 this is a fair mutex.                                       *)
(***************************************************************************)
EXTENDS Naturals, Sequences, FiniteSets

CONSTANTS Threads, Permits

VARIABLES
  holders,  \* the threads that hold a permit
  waiters   \* the threads that wait for one, in order of arrival

Idle(t) == t \notin holders /\ \A i \in 1..Len(waiters) : waiters[i] # t

Init == holders = {} /\ waiters = <<>>

\* A permit is free: take it.
Take(t) ==
  /\ Idle(t)
  /\ waiters = <<>> /\ Cardinality(holders) < Permits
  /\ holders' = holders \cup {t}
  /\ UNCHANGED waiters

\* No permit is free: join the queue.
Wait(t) ==
  /\ Idle(t)
  /\ Cardinality(holders) = Permits
  /\ waiters' = Append(waiters, t)
  /\ UNCHANGED holders

\* Give the permit back when nobody waits.
Free(t) ==
  /\ t \in holders
  /\ waiters = <<>>
  /\ holders' = holders \ {t}
  /\ UNCHANGED waiters

\* Give the permit to the first in the queue.
Pass(t) ==
  /\ t \in holders
  /\ waiters # <<>>
  /\ holders' = (holders \ {t}) \cup {Head(waiters)}
  /\ waiters' = Tail(waiters)

Next == \E t \in Threads : Take(t) \/ Wait(t) \/ Free(t) \/ Pass(t)

Spec == Init /\ [][Next]_<<holders, waiters>>

=============================================================================
