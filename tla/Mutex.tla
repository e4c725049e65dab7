------------------------------- MODULE Mutex --------------------------------
(***************************************************************************)
(* The blocking lock of locks.c (init_mutex, acquire_mutex, release_mutex) *)
(* used by threads that each acquire it, stay in, and release it, forever. *)
(* A thread in "acquire" or "release" spins on the internal spinlock.      *)
(***************************************************************************)
EXTENDS WaitQueue

VARIABLE hold  \* lock->hold

vars == <<waitVars, hold>>

\* init_mutex: the spinlock is free, the queue empty, nobody holds the lock.
Init == WaitQueueInit /\ hold = 0

-----------------------------------------------------------------------------
(* acquire_mutex, under m_slock *)

\* lock->hold == 1: another thread has the lock.
Enqueue(t) == hold = 1 /\ InsertSelf(t) /\ UNCHANGED hold

\* Fault: the test of hold is left out.
TakeUntested(t) ==
  /\ hold' = 1
  /\ Goto(t, "test", "granted")
  /\ UNCHANGED <<slock, parkVars, sig>>

\* The lock is free: take it.
TakeFree(t) ==
  /\ hold # 1
  /\ hold' = 1
  /\ Goto(t, "test", "granted")
  /\ UNCHANGED <<slock, parkVars, sig>>

-----------------------------------------------------------------------------
(* release_mutex, under m_slock *)

\* Fault: hold is cleared whether somebody waits or not.
HandOverCleared(t) == queue # <<>> /\ RemoveFirst(t) /\ hold' = 0

\* Somebody waits: hold stays 1, the lock passes to the first in the queue.
HandOver(t) == queue # <<>> /\ RemoveFirst(t) /\ UNCHANGED hold

\* Fault: hold is never cleared.
KeepHold(t) ==
  /\ queue = <<>>
  /\ Goto(t, "decide", "dropped")
  /\ UNCHANGED <<slock, parkVars, sig, hold>>

\* Nobody waits: the lock becomes free.
SetFree(t) ==
  /\ queue = <<>>
  /\ hold' = 0
  /\ Goto(t, "decide", "dropped")
  /\ UNCHANGED <<slock, parkVars, sig>>

-----------------------------------------------------------------------------

\* The steps thread t takes inside the two calls.
LockStep(t) ==
  \/ Enqueue(t) \/ TakeFree(t) \/ HandOver(t) \/ SetFree(t)
  \/ WaitQueueStep(t) /\ UNCHANGED hold

Call(t) == Acquire(t) /\ UNCHANGED hold
Return(t) == Release(t) /\ UNCHANGED hold
Interrupt(t) == DropSignal(t) /\ UNCHANGED hold

Next == \E t \in Threads : Call(t) \/ Return(t) \/ LockStep(t) \/ Interrupt(t)

Spec == Init /\ [][Next]_vars

(***************************************************************************)
(* The kernel runs every thread that can run and delivers every signal,    *)
(* and critical sections end.  No fairness between threads that race for   *)
(* the internal spinlock is assumed: a compare-and-swap may lose each time *)
(* another thread is there to win.                                         *)
(***************************************************************************)
Fairness ==
  \A t \in Threads :
    WF_vars(LockStep(t)) /\ WF_vars(Interrupt(t)) /\ WF_vars(Return(t))

FairSpec == Spec /\ Fairness

-----------------------------------------------------------------------------
(* Properties                                                              *)

TypeOK ==
  /\ WaitQueueTypeOK
  /\ hold \in {0, 1}

\* At most one thread is between its acquire_mutex and its release_mutex.
MutualExclusion ==
  \A t, u \in Threads : pc[t] = "in" /\ pc[u] = "in" => t = u

\* hold tells the truth: it is 1 exactly while one thread has the lock, through
\* every hand-over, so the lock is neither leaked (hold stuck at 1 with nobody
\* to release it) nor given away twice.  (locks.c 56-72, 79-102)
HoldAccounted ==
  /\ hold = 1 <=> \E t \in Threads : HasLock(t)
  /\ \A t, u \in Threads : HasLock(t) /\ HasLock(u) => t = u

\* The inductive invariant of the proofs.
MutexInv == TypeOK /\ WaitQueueInv /\ HoldAccounted

Holders == {t \in Threads : HasLock(t)}

\* What the mutex promises: a lock handed over in order of arrival.
Promise == INSTANCE FifoSemaphore WITH
  Permits <- 1,
  holders <- Holders,
  waiters <- Line

ImplementsFifoLock == Promise!Spec

\* A thread in the queue gets the lock, however the others race: no wake-up is
\* lost, even one sent before its pause().
WaiterServed == \A t \in Threads : pc[t] = "queued" ~> pc[t] = "in"

\* release_mutex returns: the polling of the woken thread's flag ends.
ReleaseReturns == \A t \in Threads : pc[t] = "release" ~> pc[t] = "out"

=============================================================================
