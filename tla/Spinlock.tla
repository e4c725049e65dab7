------------------------------ MODULE Spinlock ------------------------------
(***************************************************************************)
(* The spinlock of locks.c (init_spinlock, acquire_spinlock,               *)
(* release_spinlock) used by threads that each acquire it, stay in, and    *)
(* release it, forever.  A failed compare-and-swap is a stutter.           *)
(***************************************************************************)
EXTENDS Atomic

CONSTANT Threads

VARIABLES
  hold,  \* lock->hold
  pc     \* pc[t]: "out", spinning in "acquire", "in", on the way out in "release"

vars == <<hold, pc>>

Init == hold = 0 /\ pc = [t \in Threads |-> "out"]

Goto(t, from, to) == pc[t] = from /\ pc' = [pc EXCEPT ![t] = to]

\* acquire_spinlock is called.
Call(t) == Goto(t, "out", "acquire") /\ UNCHANGED hold

\* Fault: the test is not part of the swap.
WinUntested(t) == hold' = 1 /\ Goto(t, "acquire", "in")

\* The swap that finds 0 ends the loop.
Win(t) ==
  /\ hold = 0
  /\ hold' = compare_and_swap(hold, 0, 1)
  /\ Goto(t, "acquire", "in")

\* release_spinlock is called.
Return(t) == Goto(t, "in", "release") /\ UNCHANGED hold

\* Fault: the old and the new value are exchanged.
DropExchanged(t) ==
  /\ hold' = compare_and_swap(hold, 0, 1)
  /\ Goto(t, "release", "out")

\* Its one swap, whose outcome nobody looks at.
Drop(t) ==
  /\ hold' = compare_and_swap(hold, 1, 0)
  /\ Goto(t, "release", "out")

LockStep(t) == Win(t) \/ Drop(t)

Next == \E t \in Threads : Call(t) \/ Return(t) \/ LockStep(t)

Spec == Init /\ [][Next]_vars

\* Threads run and critical sections end; a thread may lose every race.
Fairness == \A t \in Threads : WF_vars(LockStep(t)) /\ WF_vars(Return(t))

FairSpec == Spec /\ Fairness

-----------------------------------------------------------------------------
(* Properties                                                              *)

TypeOK ==
  /\ hold \in {0, 1}
  /\ pc \in [Threads -> {"out", "acquire", "in", "release"}]

HasLock(t) == pc[t] \in {"in", "release"}

\* One thread has the lock exactly while hold is 1: the swap of
\* release_spinlock always finds the 1 its own thread put there, so it can
\* ignore the outcome, and never frees a lock another thread has taken.
HoldAccounted ==
  /\ hold = 1 <=> \E t \in Threads : HasLock(t)
  /\ \A t, u \in Threads : HasLock(t) /\ HasLock(u) => t = u

=============================================================================
