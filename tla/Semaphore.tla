----------------------------- MODULE Semaphore ------------------------------
(***************************************************************************)
(* The counting semaphore of locks.c (init_semaphore, wait_semaphore,      *)
(* signal_semaphore) used by threads that each wait, stay in, and signal,  *)
(* forever.  It is the mutex's machinery around a counter; a thread "in"   *)
(* has passed wait_semaphore.                                              *)
(***************************************************************************)
EXTENDS WaitQueue, Integers, FiniteSets

CONSTANT Permits  \* the S of init_semaphore

ASSUME SemaphoreAssumption == Permits \in Nat \ {0} /\ IsFiniteSet(Threads)

VARIABLE value  \* sem->value; below zero it counts the waiters

vars == <<waitVars, value>>

\* init_semaphore; m_slock is zero because sem is a global.
Init == WaitQueueInit /\ value = Permits

-----------------------------------------------------------------------------
(* wait_semaphore, under m_slock *)

\* The decremented value is below zero: wait.
Enqueue(t) ==
  /\ value - 1 < 0
  /\ value' = value - 1
  /\ InsertSelf(t)

\* Fault: the value is tested before it is decremented.
TakeOneTooMany(t) ==
  /\ value >= 0
  /\ value' = value - 1
  /\ Goto(t, "test", "granted")
  /\ UNCHANGED <<slock, parkVars, sig>>

\* A permit is left: take it.
TakeFree(t) ==
  /\ value - 1 >= 0
  /\ value' = value - 1
  /\ Goto(t, "test", "granted")
  /\ UNCHANGED <<slock, parkVars, sig>>

-----------------------------------------------------------------------------
(* signal_semaphore, under m_slock *)

\* Fault: the value goes up only when nobody waits.
HandOverUncounted(t) == queue # <<>> /\ RemoveFirst(t) /\ UNCHANGED value

\* Somebody waits: the permit passes to the first in the queue.
HandOver(t) ==
  /\ queue # <<>>
  /\ value' = value + 1
  /\ RemoveFirst(t)

\* Nobody waits: the permit is free again.
SetFree(t) ==
  /\ queue = <<>>
  /\ value' = value + 1
  /\ Goto(t, "decide", "dropped")
  /\ UNCHANGED <<slock, parkVars, sig>>

-----------------------------------------------------------------------------

\* The steps thread t takes inside the two calls.
LockStep(t) ==
  \/ Enqueue(t) \/ TakeFree(t) \/ HandOver(t) \/ SetFree(t)
  \/ WaitQueueStep(t) /\ UNCHANGED value

Call(t) == Acquire(t) /\ UNCHANGED value
Return(t) == Release(t) /\ UNCHANGED value
Interrupt(t) == DropSignal(t) /\ UNCHANGED value

Next == \E t \in Threads : Call(t) \/ Return(t) \/ LockStep(t) \/ Interrupt(t)

Spec == Init /\ [][Next]_vars

\* As for the mutex: threads run, signals arrive, critical sections end.
Fairness ==
  \A t \in Threads :
    WF_vars(LockStep(t)) /\ WF_vars(Interrupt(t)) /\ WF_vars(Return(t))

FairSpec == Spec /\ Fairness

-----------------------------------------------------------------------------
(* Properties                                                              *)

TypeOK == WaitQueueTypeOK /\ value \in Int

Holders == {t \in Threads : HasLock(t)}

\* No more than Permits threads are past wait_semaphore at once.
AtMostPermitsInside == Cardinality({t \in Threads : pc[t] = "in"}) <= Permits

\* The counter accounts for every permit through every hand-over: those held,
\* those free and, below zero, the threads in the queue.  Nobody queues while a
\* permit is free, and none is lost or made up.  (locks.c 122-138, 143-167)
ValueAccounted ==
  /\ value = Permits - Cardinality(Holders) - Len(queue)
  /\ Cardinality(Holders) <= Permits
  /\ queue # <<>> => Cardinality(Holders) = Permits

\* What the semaphore promises: Permits permits handed over in order of arrival.
Promise == INSTANCE FifoSemaphore WITH
  holders <- Holders,
  waiters <- Line

ImplementsFifoSemaphore == Promise!Spec

\* A thread in the queue gets a permit, however the others race.
WaiterServed == \A t \in Threads : pc[t] = "queued" ~> pc[t] = "in"

=============================================================================
