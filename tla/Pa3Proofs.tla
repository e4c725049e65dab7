----------------------------- MODULE Pa3Proofs ------------------------------
(***************************************************************************)
(* Whichever lock it is given, pa3 is the ring under an ideal lock, for    *)
(* any number of generators, values, slots and nodes, provided usleep(500) *)
(* outlasts a wake-up (PromptWakeup; the spinlock does not need it).  The  *)
(* invariants of the locks come from MutexProofs and SemaphoreProofs; what *)
(* is left is that a thread comes in only when it has asked to, still      *)
(* wants to, and nobody is in.                                             *)
(***************************************************************************)
EXTENDS Pa3, TestLock, FiniteSetTheorems, TLAPS

mutexProofs == INSTANCE MutexProofs WITH Threads <- Workers
semaphoreProofs == INSTANCE SemaphoreProofs WITH Threads <- Workers
ringProofs == INSTANCE GuardedRingProofs WITH inside <- {t \in Workers : pc[t] = "in"}

\* What the locks assume of their constants is so here.
LEMMA LockAssumptions ==
  /\ mutexProofs!WaitQueueAssumption
  /\ semaphoreProofs!WaitQueueAssumption
  /\ semaphoreProofs!SemaphoreAssumption
PROOF
  <1>1. IsFiniteSet(Workers)
    BY RingBufferAssumption, FS_AddElement DEF Workers
  <1>2. semaphoreProofs!IsFiniteSet(Workers)
    BY <1>1 DEF IsFiniteSet, semaphoreProofs!IsFiniteSet
  <1> QED
    BY <1>2, Pa3Assumption
    DEF mutexProofs!WaitQueueAssumption, semaphoreProofs!WaitQueueAssumption,
      semaphoreProofs!SemaphoreAssumption, Permits

-----------------------------------------------------------------------------
(* The steps of the locks are those the proofs are about.                  *)

LEMMA MutexSteps ==
  ASSUME NEW t
  PROVE  /\ mutex!Call(t) <=> mutexProofs!Call(t)
         /\ mutex!Return(t) <=> mutexProofs!Return(t)
         /\ mutex!LockStep(t) <=> mutexProofs!LockStep(t)
         /\ mutex!Interrupt(t) <=> mutexProofs!Interrupt(t)
PROOF
  BY
    DEF mutex!compare_and_swap, mutex!Goto, mutex!TakeSlock, mutex!DropSlock,
        mutex!Allocated, mutex!parkVars, mutex!Settled, mutex!Acquire,
        mutex!LockForAcquire, mutex!UnlockGranted, mutex!Release,
        mutex!LockForRelease, mutex!UnlockDropped, mutex!InsertSelf,
        mutex!UnlockQueued, mutex!Pause, mutex!Wake, mutex!RaiseFlag,
        mutex!DropSignal, mutex!RemoveFirst, mutex!UnlockPopped, mutex!Kill,
        mutex!SeeFlagUp, mutex!SeeFlagDown, mutex!WaitQueueStep, mutex!Enqueue,
        mutex!TakeFree, mutex!HandOver, mutex!SetFree, mutex!LockStep, mutex!Call,
        mutex!Return, mutex!Interrupt, mutexProofs!compare_and_swap,
        mutexProofs!Goto, mutexProofs!TakeSlock, mutexProofs!DropSlock,
        mutexProofs!Allocated, mutexProofs!parkVars, mutexProofs!Settled,
        mutexProofs!Acquire, mutexProofs!LockForAcquire, mutexProofs!UnlockGranted,
        mutexProofs!Release, mutexProofs!LockForRelease, mutexProofs!UnlockDropped,
        mutexProofs!InsertSelf, mutexProofs!UnlockQueued, mutexProofs!Pause,
        mutexProofs!Wake, mutexProofs!RaiseFlag, mutexProofs!DropSignal,
        mutexProofs!RemoveFirst, mutexProofs!UnlockPopped, mutexProofs!Kill,
        mutexProofs!SeeFlagUp, mutexProofs!SeeFlagDown, mutexProofs!WaitQueueStep,
        mutexProofs!Enqueue, mutexProofs!TakeFree, mutexProofs!HandOver,
        mutexProofs!SetFree, mutexProofs!LockStep, mutexProofs!Call,
        mutexProofs!Return, mutexProofs!Interrupt

LEMMA SemaphoreSteps ==
  ASSUME NEW t
  PROVE  /\ semaphore!Call(t) <=> semaphoreProofs!Call(t)
         /\ semaphore!Return(t) <=> semaphoreProofs!Return(t)
         /\ semaphore!LockStep(t) <=> semaphoreProofs!LockStep(t)
         /\ semaphore!Interrupt(t) <=> semaphoreProofs!Interrupt(t)
PROOF
  BY
    DEF semaphore!compare_and_swap, semaphore!Goto, semaphore!TakeSlock,
        semaphore!DropSlock, semaphore!Allocated, semaphore!parkVars,
        semaphore!Settled, semaphore!Acquire, semaphore!LockForAcquire,
        semaphore!UnlockGranted, semaphore!Release, semaphore!LockForRelease,
        semaphore!UnlockDropped, semaphore!InsertSelf, semaphore!UnlockQueued,
        semaphore!Pause, semaphore!Wake, semaphore!RaiseFlag, semaphore!DropSignal,
        semaphore!RemoveFirst, semaphore!UnlockPopped, semaphore!Kill,
        semaphore!SeeFlagUp, semaphore!SeeFlagDown, semaphore!WaitQueueStep,
        semaphore!Enqueue, semaphore!TakeFree, semaphore!HandOver,
        semaphore!SetFree, semaphore!LockStep, semaphore!Call, semaphore!Return,
        semaphore!Interrupt, semaphoreProofs!compare_and_swap, semaphoreProofs!Goto,
        semaphoreProofs!TakeSlock, semaphoreProofs!DropSlock,
        semaphoreProofs!Allocated, semaphoreProofs!parkVars,
        semaphoreProofs!Settled, semaphoreProofs!Acquire,
        semaphoreProofs!LockForAcquire, semaphoreProofs!UnlockGranted,
        semaphoreProofs!Release, semaphoreProofs!LockForRelease,
        semaphoreProofs!UnlockDropped, semaphoreProofs!InsertSelf,
        semaphoreProofs!UnlockQueued, semaphoreProofs!Pause, semaphoreProofs!Wake,
        semaphoreProofs!RaiseFlag, semaphoreProofs!DropSignal,
        semaphoreProofs!RemoveFirst, semaphoreProofs!UnlockPopped,
        semaphoreProofs!Kill, semaphoreProofs!SeeFlagUp,
        semaphoreProofs!SeeFlagDown, semaphoreProofs!WaitQueueStep,
        semaphoreProofs!Enqueue, semaphoreProofs!TakeFree, semaphoreProofs!HandOver,
        semaphoreProofs!SetFree, semaphoreProofs!LockStep, semaphoreProofs!Call,
        semaphoreProofs!Return, semaphoreProofs!Interrupt

-----------------------------------------------------------------------------
(* The inductive invariant.                                                *)

\* The selected lock is sound.
LockInv ==
  \/ lock_type = "spinlock" /\ spinlock!TypeOK /\ spinlock!HoldAccounted
  \/ lock_type = "mutex" /\ mutexProofs!MutexInv
  \/ lock_type = "semaphore" /\ semaphoreProofs!SemaphoreInv

\* A thread that has asked for the lock still wants it.
Asking(t) ==
  pc[t] \in {"acquire", "test", "queued", "pausing", "paused", "woken", "granted"}

AskInv ==
  /\ DOMAIN op = Workers /\ DOMAIN left = Workers
  /\ \A t \in Workers : Asking(t) => Wants(t)

Pa3Inv == LockInv /\ AskInv

LEMMA Pa3InvInit == Init => Pa3Inv
PROOF
  <1> SUFFICES ASSUME Init PROVE Pa3Inv
    OBVIOUS
  <1>1. slock = 0 /\ hold = 0 /\ pc = [t \in Workers |-> "out"]
    BY DEF Init, mutex!Init, mutex!WaitQueueInit
  <1>2. AskInv
    BY <1>1 DEF Init, RingInit, AskInv, Asking
  <1>3. spinlock!TypeOK /\ spinlock!HoldAccounted
    BY <1>1 DEF spinlock!TypeOK, spinlock!HoldAccounted, spinlock!HasLock
  <1>4. mutexProofs!Init
    BY DEF Init, mutex!Init, mutex!WaitQueueInit, mutexProofs!Init, mutexProofs!WaitQueueInit
  <1>5. semaphoreProofs!Init
    BY DEF Init, mutex!Init, mutex!WaitQueueInit, semaphoreProofs!Init,
      semaphoreProofs!WaitQueueInit
  <1>6. mutexProofs!MutexInv /\ semaphoreProofs!SemaphoreInv
    BY <1>4, <1>5, LockAssumptions, mutexProofs!MutexInitInv, semaphoreProofs!SemaphoreInitInv
  <1>7. lock_type \in {"spinlock", "mutex", "semaphore"}
    BY Pa3Assumption DEF Init
  <1> QED
    BY <1>2, <1>3, <1>6, <1>7 DEF Pa3Inv, LockInv

-----------------------------------------------------------------------------
(* The selected lock, step by step.                                        *)

\* A thread calls the lock, leaves it, or takes a step in it, or is interrupted.
Locking(t) == Call(t) \/ Return(t) \/ LockStep(t) \/ Interrupt(t)

LEMMA MutexKept ==
  ASSUME PromptWakeup, mutexProofs!MutexInv, NEW t \in Workers,
         mutex!Call(t) \/ mutex!Return(t) \/ mutex!LockStep(t) \/ mutex!Interrupt(t)
  PROVE  mutexProofs!MutexInv'
PROOF
  <1>1. mutexProofs!Next
    BY MutexSteps DEF mutexProofs!Next
  <1> QED
    BY <1>1, LockAssumptions, mutexProofs!MutexNextInv

LEMMA SemaphoreKept ==
  ASSUME PromptWakeup, semaphoreProofs!SemaphoreInv, NEW t \in Workers,
         \/ semaphore!Call(t) \/ semaphore!Return(t)
         \/ semaphore!LockStep(t) \/ semaphore!Interrupt(t)
  PROVE  semaphoreProofs!SemaphoreInv'
PROOF
  <1>1. semaphoreProofs!Next
    BY SemaphoreSteps DEF semaphoreProofs!Next
  <1> QED
    BY <1>1, LockAssumptions, semaphoreProofs!SemaphoreNextInv

LEMMA SpinlockKept ==
  ASSUME spinlock!TypeOK, spinlock!HoldAccounted, NEW t \in Workers,
         spinlock!Call(t) \/ spinlock!Return(t) \/ spinlock!LockStep(t)
  PROVE  spinlock!TypeOK' /\ spinlock!HoldAccounted'
PROOF
  <1> USE DEF spinlock!TypeOK, spinlock!HoldAccounted, spinlock!HasLock, spinlock!Goto,
        spinlock!compare_and_swap
  <1>1. CASE spinlock!Call(t) \/ spinlock!Return(t)
    BY <1>1 DEF spinlock!Call, spinlock!Return
  <1>2. CASE spinlock!Win(t)
    BY <1>2 DEF spinlock!Win
  <1>3. CASE spinlock!Drop(t)
    <2>1. slock = 1 /\ slock' = 0 /\ pc' = [pc EXCEPT ![t] = "out"]
      BY <1>3 DEF spinlock!Drop
    <2>2. \A u \in Workers : ~spinlock!HasLock(u)'
      BY <1>3, <2>1 DEF spinlock!Drop
    <2> QED
      BY <2>1, <2>2
  <1> QED
    BY <1>1, <1>2, <1>3 DEF spinlock!LockStep

LEMMA LockKept ==
  ASSUME PromptWakeup, LockInv, NEW t \in Workers, Locking(t)
  PROVE  LockInv'
PROOF
  <1>1. CASE lock_type = "spinlock"
    BY <1>1, SpinlockKept DEF LockInv, Locking, Call, Return, LockStep, Interrupt, RestUnused
  <1>2. CASE lock_type = "mutex"
    BY <1>2, MutexKept DEF LockInv, Locking, Call, Return, LockStep, Interrupt, RestUnused
  <1>3. CASE lock_type = "semaphore"
    BY <1>3, SemaphoreKept DEF LockInv, Locking, Call, Return, LockStep, Interrupt, RestUnused
  <1> QED
    BY <1>1, <1>2, <1>3 DEF LockInv

\* A step inside the lock moves its own thread only, and lets it in only when it
\* has asked and nobody is in.
LEMMA LetsInAlone ==
  ASSUME LockInv, NEW t \in Workers, LockStep(t)
  PROVE  /\ pc[t] \notin {"out", "in"}
         /\ \A u \in Workers : u # t => pc'[u] = pc[u]
         /\ pc'[t] = "in" => Asking(t) /\ \A u \in Workers : pc[u] # "in"
         /\ Asking(t)' => Asking(t)
PROOF
  <1>1. CASE lock_type = "spinlock"
    BY <1>1 DEF LockInv, LockStep, RestUnused, spinlock!LockStep, spinlock!Win, spinlock!Drop,
      spinlock!Goto, spinlock!TypeOK, spinlock!HoldAccounted, spinlock!HasLock, Asking
  <1>2. CASE lock_type = "mutex"
    <2>1. mutexProofs!MutexInv /\ mutexProofs!LockStep(t)
      BY <1>2, MutexSteps DEF LockInv, LockStep
    <2> QED
      BY <2>1, LockAssumptions, mutexProofs!MutexLetsInAlone
      DEF Asking, mutexProofs!AskingLabels
  <1>3. CASE lock_type = "semaphore"
    <2>1. semaphoreProofs!SemaphoreInv /\ semaphoreProofs!LockStep(t) /\ Permits = 1
      BY <1>3, SemaphoreSteps DEF LockInv, LockStep, Permits
    <2> QED
      BY <2>1, LockAssumptions, semaphoreProofs!SemaphoreLetsInAlone
      DEF Asking, semaphoreProofs!AskingLabels
  <1> QED
    BY <1>1, <1>2, <1>3 DEF LockInv

\* The other steps of the lock.
LEMMA Calls ==
  ASSUME LockInv, NEW t \in Workers
  PROVE  /\ Call(t) => pc[t] = "out" /\ pc' = [pc EXCEPT ![t] = "acquire"]
         /\ Return(t) => pc[t] = "in" /\ pc' = [pc EXCEPT ![t] = "release"]
         /\ Interrupt(t) => pc' = pc
         /\ DOMAIN pc = Workers
PROOF
  <1>1. CASE lock_type = "spinlock"
    BY <1>1 DEF LockInv, Call, Return, Interrupt, spinlock!Call, spinlock!Return,
      spinlock!Goto, spinlock!TypeOK
  <1>2. CASE lock_type = "mutex"
    BY <1>2 DEF LockInv, Call, Return, Interrupt, mutex!Call, mutex!Return, mutex!Interrupt,
      mutex!Acquire, mutex!Release, mutex!DropSignal, mutex!Goto, mutexProofs!MutexInv,
      mutexProofs!WaitQueueInv, mutexProofs!WaitQueueTypeOK
  <1>3. CASE lock_type = "semaphore"
    BY <1>3 DEF LockInv, Call, Return, Interrupt, semaphore!Call, semaphore!Return,
      semaphore!Interrupt, semaphore!Acquire, semaphore!Release, semaphore!DropSignal,
      semaphore!Goto, semaphoreProofs!SemaphoreInv, semaphoreProofs!WaitQueueInv,
      semaphoreProofs!WaitQueueTypeOK
  <1> QED
    BY <1>1, <1>2, <1>3 DEF LockInv

-----------------------------------------------------------------------------
(* The invariant is inductive.                                             *)

\* Steps outside the lock leave it alone.
LEMMA LockUntouched ==
  ASSUME PromptWakeup, LockInv, UNCHANGED lockVars
  PROVE  LockInv'
PROOF
  <1>1. CASE lock_type = "spinlock"
    BY <1>1 DEF LockInv, lockVars, waitVars, spinlock!TypeOK, spinlock!HoldAccounted,
      spinlock!HasLock
  <1>2. CASE lock_type = "mutex"
    <2>1. UNCHANGED mutexProofs!vars /\ lock_type' = lock_type
      BY DEF lockVars, waitVars, mutexProofs!vars, mutexProofs!waitVars
    <2>2. mutexProofs!MutexInv
      BY <1>2 DEF LockInv
    <2>3. mutexProofs!MutexInv'
      BY <2>1, <2>2, LockAssumptions, mutexProofs!MutexNextInv
    <2> QED
      BY <1>2, <2>1, <2>3 DEF LockInv
  <1>3. CASE lock_type = "semaphore"
    <2>1. UNCHANGED semaphoreProofs!vars /\ lock_type' = lock_type
      BY DEF lockVars, waitVars, semaphoreProofs!vars, semaphoreProofs!waitVars
    <2>2. semaphoreProofs!SemaphoreInv
      BY <1>3 DEF LockInv
    <2>3. semaphoreProofs!SemaphoreInv'
      BY <2>1, <2>2, LockAssumptions, semaphoreProofs!SemaphoreNextInv
    <2> QED
      BY <1>3, <2>1, <2>3 DEF LockInv
  <1> QED
    BY <1>1, <1>2, <1>3 DEF LockInv

LEMMA AskStep ==
  ASSUME Pa3Inv, Next
  PROVE  AskInv'
PROOF
  <1> USE DEF Pa3Inv, AskInv
  <1>1. CASE MainStep
    BY <1>1 DEF MainStep, Main, lockVars, waitVars, Asking, Wants
  <1>2. ASSUME NEW t \in Workers, Enter(t) PROVE AskInv'
    BY <1>2, Calls DEF Enter, ringVars, Asking, Wants
  <1>3. ASSUME NEW t \in Workers, Work(t) PROVE AskInv'
    <2>1. pc' = pc /\ ~Asking(t) /\ DOMAIN op' = Workers /\ left' = left
      BY <1>3 DEF Work, Inside, lockVars, waitVars, Asking, Refuse, AdvanceRear, Store,
        AdvanceFront, Load
    <2>2. \A u \in Workers : u # t => op'[u] = op[u]
      BY <1>3 DEF Work, Inside, Refuse, AdvanceRear, Store, AdvanceFront, Load
    <2> QED
      BY <2>1, <2>2 DEF Asking, Wants
  <1>4. ASSUME NEW t \in Workers, Exit(t) PROVE AskInv'
    <2>1. \A u \in Workers : u # t => op'[u] = op[u] /\ pc'[u] = pc[u]
      BY <1>4, Calls DEF Exit, Leave
    <2>2. ~Asking(t)'
      BY <1>4, Calls DEF Exit, Asking
    <2>3. left' = left /\ DOMAIN op' = Workers
      BY <1>4 DEF Exit, Leave
    <2> QED
      BY <2>1, <2>2, <2>3 DEF Asking, Wants
  <1>5. ASSUME NEW t \in Workers, Lock(t) PROVE AskInv'
    BY <1>5, LetsInAlone DEF Lock, ringVars, Asking, Wants
  <1>6. ASSUME NEW t \in Workers, Deliver(t) PROVE AskInv'
    BY <1>6, Calls DEF Deliver, ringVars, Asking, Wants
  <1>7. ASSUME NEW t \in Workers, Outside(t) PROVE AskInv'
    <2>1. pc' = pc /\ ~Asking(t)
      BY <1>7 DEF Outside, lockVars, waitVars, Asking
    <2>2. /\ DOMAIN op' = Workers /\ DOMAIN left' = Workers
          /\ \A u \in Workers : u # t => op'[u] = op[u] /\ left'[u] = left[u]
      BY <1>7 DEF Outside, Generate, Generated, Count
    <2> QED
      BY <2>1, <2>2 DEF Asking, Wants
  <1> QED
    BY <1>1, <1>2, <1>3, <1>4, <1>5, <1>6, <1>7 DEF Next

LEMMA Pa3InvNext ==
  ASSUME PromptWakeup, Pa3Inv, [Next]_vars
  PROVE  Pa3Inv'
PROOF
  <1>1. CASE UNCHANGED vars
    <2>1. UNCHANGED lockVars /\ UNCHANGED ringVars
      BY <1>1 DEF vars
    <2> QED
      BY <2>1, LockUntouched
      DEF Pa3Inv, AskInv, Asking, Wants, lockVars, waitVars, ringVars
  <1>2. CASE Next
    <2>1. UNCHANGED lockVars \/ \E t \in Workers : Locking(t)
      BY <1>2
      DEF Next, MainStep, Enter, Work, Exit, Lock, Deliver, Outside, Locking
    <2> QED
      BY <1>2, <2>1, LockUntouched, LockKept, AskStep DEF Pa3Inv
  <1> QED
    BY <1>1, <1>2

\* The lock pa3 runs with is sound in every reachable state.
THEOREM Pa3Invariance ==
  ASSUME PromptWakeup
  PROVE  Spec => []Pa3Inv
PROOF
  <1>1. Init => Pa3Inv
    BY Pa3InvInit
  <1>2. Pa3Inv /\ [Next]_vars => Pa3Inv'
    BY Pa3InvNext
  <1> QED
    BY <1>1, <1>2, PTL DEF Spec

-----------------------------------------------------------------------------
(* pa3 is the ring under an ideal lock.                                    *)

\* The threads inside.
In == {t \in Workers : pc[t] = "in"}

\* The steps of the ideal ring are made of the same steps of the threads.
LEMMA RingSteps ==
  ASSUME NEW t
  PROVE  /\ Generate(t) \/ Generated(t) => Ideal!Generate(t) \/ Ideal!Generated(t)
         /\ Count => Ideal!Count
         /\ Main => Ideal!Main
         /\ Inside(t) => Ideal!Inside(t)
         /\ Leave(t) => Ideal!Leave(t)
         /\ Wants(t) => Ideal!Wants(t)
         /\ UNCHANGED ringVars => UNCHANGED Ideal!ringVars
PROOF
  <1>1. Ideal!Workers = Workers /\ Ideal!max = max
    BY DEF Workers, Ideal!Workers, max, Ideal!max
  <1>2. Generate(t) \/ Generated(t) => Ideal!Generate(t) \/ Ideal!Generated(t)
    BY DEF Generate, Generated, Ideal!Generate, Ideal!Generated
  <1>3. Count => Ideal!Count
    BY DEF Count, Ideal!Count
  <1>4. Main => Ideal!Main
    BY DEF Main, Ideal!Main, Finished, Ideal!Finished
  <1>5. Inside(t) => Ideal!Inside(t)
    BY <1>1 DEF Inside, Ideal!Inside, Refuse, Ideal!Refuse, AdvanceRear, Ideal!AdvanceRear,
      Store, Ideal!Store, AdvanceFront, Ideal!AdvanceFront, Load, Ideal!Load, isFull,
      Ideal!isFull, isEmpty, Ideal!isEmpty
  <1>6. Leave(t) => Ideal!Leave(t)
    BY DEF Leave, Ideal!Leave
  <1> QED
    BY <1>2, <1>3, <1>4, <1>5, <1>6
    DEF Wants, Ideal!Wants, ringVars, Ideal!ringVars

\* Every step of pa3 is a step of the ideal ring or does not show in it.
LEMMA IdealStep ==
  ASSUME PromptWakeup, Pa3Inv, [Next]_vars
  PROVE  [Ideal!Next]_(Ideal!vars)
PROOF
  <1> USE DEF Pa3Inv
  <1>0. Ideal!Workers = Workers
    BY DEF Workers, Ideal!Workers
  <1>1. CASE UNCHANGED vars
    BY <1>1, RingSteps DEF vars, lockVars, waitVars, Ideal!vars
  <1>2. CASE MainStep
    <2>1. Ideal!Main /\ In' = In
      BY <1>2, RingSteps DEF MainStep, lockVars, waitVars, In
    <2> QED
      BY <2>1 DEF Ideal!Next, Ideal!Outside, In
  <1>3. ASSUME NEW t \in Workers, Enter(t) PROVE UNCHANGED Ideal!vars
    <2>1. In' = In
      BY <1>3, Calls DEF Enter, In
    <2> QED
      BY <1>3, <2>1, RingSteps DEF Enter, Ideal!vars, In
  <1>4. ASSUME NEW t \in Workers, Work(t) PROVE Ideal!Next
    <2>1. t \in In /\ In' = In /\ Ideal!Inside(t)
      BY <1>4, RingSteps DEF Work, lockVars, waitVars, In
    <2> QED
      BY <1>0, <2>1 DEF Ideal!Next, Ideal!Work, In
  <1>5. ASSUME NEW t \in Workers, Exit(t) PROVE Ideal!Next
    <2>1. t \in In /\ In' = In \ {t} /\ Ideal!Leave(t)
      BY <1>5, Calls, RingSteps DEF Exit, In
    <2> QED
      BY <1>0, <2>1 DEF Ideal!Next, Ideal!Exit, In
  <1>6. ASSUME NEW t \in Workers, Lock(t) PROVE [Ideal!Next]_(Ideal!vars)
    <2>1. UNCHANGED Ideal!ringVars
      BY <1>6, RingSteps DEF Lock
    <2>2. CASE pc'[t] = "in"
      <3>1. Asking(t) /\ \A u \in Workers : pc[u] # "in"
        BY <1>6, <2>2, LetsInAlone DEF Lock
      <3>2. In = {} /\ In' = {t}
        BY <1>6, <2>2, <3>1, LetsInAlone DEF Lock, In
      <3>3. Ideal!Wants(t)
        BY <3>1, RingSteps DEF AskInv
      <3> QED
        BY <1>0, <2>1, <3>2, <3>3 DEF Ideal!Next, Ideal!Enter, In
    <2>3. CASE pc'[t] # "in"
      <3>1. In' = In
        BY <1>6, <2>3, LetsInAlone DEF Lock, In
      <3> QED
        BY <2>1, <3>1 DEF Ideal!vars, In
    <2> QED
      BY <2>2, <2>3
  <1>7. ASSUME NEW t \in Workers, Deliver(t) PROVE UNCHANGED Ideal!vars
    <2>1. In' = In
      BY <1>7, Calls DEF Deliver, In
    <2> QED
      BY <1>7, <2>1, RingSteps DEF Deliver, Ideal!vars, In
  <1>8. ASSUME NEW t \in Workers, Outside(t) PROVE Ideal!Next
    <2>1. In' = In
      BY <1>8 DEF Outside, lockVars, waitVars, In
    <2>2. Ideal!Count \/ \E g \in Generators : Ideal!Generate(g) \/ Ideal!Generated(g)
      BY <1>8, RingSteps DEF Outside, Workers
    <2> QED
      BY <2>1, <2>2 DEF Ideal!Next, Ideal!Outside, In
  <1> QED
    BY <1>1, <1>2, <1>3, <1>4, <1>5, <1>6, <1>7, <1>8 DEF Next

\* The spinlock, the mutex and the semaphore all make the ring what it is under
\* an ideal lock: enqueue_using_* and dequeue_using_* never overlap.
THEOREM Pa3ImplementsGuardedRing ==
  ASSUME PromptWakeup
  PROVE  Spec => ImplementsGuardedRing
PROOF
  <1>1. Init => Ideal!Init
    <2> SUFFICES ASSUME Init PROVE Ideal!Init
      OBVIOUS
    <2>1. pc = [t \in Workers |-> "out"] /\ RingInit
      BY DEF Init, mutex!Init, mutex!WaitQueueInit
    <2>2. In = {}
      BY <2>1 DEF In
    <2>3. \A S : Ideal!Cardinality(S) = Cardinality(S)
      BY DEF Ideal!Cardinality, Cardinality
    <2> QED
      BY <2>1, <2>2, <2>3 DEF Ideal!Init, Ideal!RingInit, RingInit, Ideal!Workers, Workers, In
  <1>2. Pa3Inv /\ [Next]_vars => [Ideal!Next]_(Ideal!vars)
    BY IdealStep
  <1> QED
    BY <1>1, <1>2, Pa3Invariance, PTL DEF Spec, ImplementsGuardedRing, Ideal!Spec

-----------------------------------------------------------------------------
(* What the ring promises, pa3 promises.                                   *)

LEMMA RingProofsAssumption == ringProofs!RingBufferAssumption
PROOF
  BY RingBufferAssumption
  DEF ringProofs!RingBufferAssumption, IsFiniteSet, ringProofs!IsFiniteSet

\* The ideal ring is the one the proofs are about.
LEMMA SameRing ==
  /\ Ideal!Init <=> ringProofs!Init
  /\ [Ideal!Next]_(Ideal!vars) <=> [ringProofs!Next]_(ringProofs!vars)
PROOF
  <1>1. \A S : Ideal!Cardinality(S) = ringProofs!Cardinality(S)
    BY DEF Ideal!Cardinality, ringProofs!Cardinality
  <1>2. Ideal!Init <=> ringProofs!Init
    BY <1>1
    DEF Ideal!Init, Ideal!RingInit, Ideal!Workers, ringProofs!Init,
      ringProofs!RingInit, ringProofs!Workers
  <1>3. Ideal!Next <=> ringProofs!Next
    BY
    DEF Ideal!Workers, Ideal!max, Ideal!isEmpty, Ideal!isFull, Ideal!Generate,
      Ideal!Generated, Ideal!Count, Ideal!Refuse, Ideal!AdvanceRear, Ideal!Store,
      Ideal!AdvanceFront, Ideal!Load, Ideal!Inside, Ideal!Leave, Ideal!Wants,
      Ideal!Finished, Ideal!Main, Ideal!Enter, Ideal!Work, Ideal!Exit,
      Ideal!Outside, Ideal!Next, Ideal!ringVars, ringProofs!Workers, ringProofs!max,
      ringProofs!isEmpty, ringProofs!isFull, ringProofs!Generate,
      ringProofs!Generated, ringProofs!Count, ringProofs!Refuse,
      ringProofs!AdvanceRear, ringProofs!Store, ringProofs!AdvanceFront,
      ringProofs!Load, ringProofs!Inside, ringProofs!Leave, ringProofs!Wants,
      ringProofs!Finished, ringProofs!Main, ringProofs!Enter, ringProofs!Work,
      ringProofs!Exit, ringProofs!Outside, ringProofs!Next, ringProofs!ringVars
  <1>4. UNCHANGED Ideal!vars <=> UNCHANGED ringProofs!vars
    BY DEF Ideal!vars, Ideal!ringVars, ringProofs!vars, ringProofs!ringVars
  <1> QED
    BY <1>2, <1>3, <1>4

LEMMA Pa3IsRing ==
  ASSUME PromptWakeup
  PROVE  Spec => ringProofs!Spec
PROOF
  <1> QED
    BY SameRing, Pa3ImplementsGuardedRing, PTL
    DEF ImplementsGuardedRing, Ideal!Spec, ringProofs!Spec

\* When the counter has finished, RESULT and the merged GEN files agree, with
\* each of the three locks: what the Makefile's tests compare with diff.
THEOREM Pa3ResultMatches ==
  ASSUME PromptWakeup
  PROVE  Spec => []ResultMatchesGenerated
PROOF
  <1>1. ringProofs!Spec => []ringProofs!Agreed
    BY ringProofs!ResultAgrees, RingProofsAssumption
  <1>2. ringProofs!Agreed => ResultMatchesGenerated
    BY DEF ringProofs!Agreed, ringProofs!Finished, ResultMatchesGenerated, Finished
  <1> QED
    BY <1>1, <1>2, Pa3IsRing, PTL

-----------------------------------------------------------------------------
(* pa3 -T: for any number of testers, the spinlock excludes and no assertion *)
(* of its tester fails.                                                      *)

\* The statement a thread is at fits where it stands in the spinlock's code.
PlacesFit ==
  \A t \in Everyone :
    /\ turn[t] = "acquire" => at[t] = "out"
    /\ turn[t] = "set" => at[t] \in {"acquire", "in"}
    /\ turn[t] \in {"create", "clear", "release"} => at[t] = "in"
    /\ turn[t] = "done" => at[t] \in {"release", "out"}

\* testlock_held is the mark of the thread between its set and its clear.
Marked(t) == turn[t] \in {"create", "clear"}
MarkInv == testlock_held = 1 <=> \E t \in Everyone : Marked(t)

\* After the joins every thread is done.
JoinInv == joined => \A t \in Everyone : turn[t] = "done" /\ at[t] = "out"

TestLockInv == TestTypeOK /\ HoldAccounted /\ PlacesFit /\ MarkInv /\ JoinInv

\* The invariant holds at the start.
LEMMA TestLockInitInv ==
  ASSUME TestInit
  PROVE  TestLockInv
PROOF
  <1>1. /\ testlock = 0 /\ at = [t \in Everyone |-> "out"]
        /\ testlock_held = 0 /\ created = FALSE /\ joined = FALSE
        /\ turn = [t \in Everyone |-> "acquire"]
    BY DEF TestInit, lock!Init
  <1>2. TestTypeOK
    BY <1>1 DEF TestTypeOK, lock!TypeOK
  <1>3. HoldAccounted /\ PlacesFit /\ MarkInv /\ JoinInv
    BY <1>1 DEF HoldAccounted, lock!HoldAccounted, lock!HasLock, PlacesFit, MarkInv, Marked,
      JoinInv
  <1> QED
    BY <1>2, <1>3 DEF TestLockInv

\* The spinlock's own step: the swap that takes it and the swap that frees it.
LEMMA TestLockSwaps ==
  ASSUME TestLockInv, NEW t \in Everyone, lock!LockStep(t)
  PROVE  lock!TypeOK' /\ lock!HoldAccounted'
PROOF
  <1> USE DEF TestLockInv, TestTypeOK, HoldAccounted, lock!TypeOK, lock!HoldAccounted,
        lock!HasLock, lock!Goto, lock!compare_and_swap
  <1>1. CASE lock!Win(t)
    BY <1>1 DEF lock!Win
  <1>2. CASE lock!Drop(t)
    <2>1. testlock = 1 /\ testlock' = 0 /\ at' = [at EXCEPT ![t] = "out"]
      BY <1>2 DEF lock!Drop
    <2>2. \A u \in Everyone : ~lock!HasLock(u)'
      BY <1>2, <2>1 DEF lock!Drop
    <2> QED
      BY <2>1, <2>2
  <1> QED
    BY <1>1, <1>2 DEF lock!LockStep

\* The invariant is inductive.
LEMMA TestLockNextInv ==
  ASSUME TestLockInv, [TestNext]_testVars
  PROVE  TestLockInv'
PROOF
  <1> USE DEF TestLockInv, TestTypeOK, lock!TypeOK
  <1>0. MainThread \in Everyone
    BY DEF Everyone
  <1>1. ASSUME NEW t \in Everyone, Ask(t)
        PROVE  TestLockInv'
    BY <1>1 DEF Ask, lock!Call, lock!Goto, HoldAccounted, lock!HoldAccounted, lock!HasLock,
      PlacesFit, MarkInv, Marked, JoinInv
  <1>2. ASSUME NEW t \in Everyone, SetHeld(t)
        PROVE  TestLockInv'
    BY <1>2 DEF SetHeld, HoldAccounted, lock!HoldAccounted, lock!HasLock, PlacesFit,
      MarkInv,
      Marked, JoinInv
  <1>3. CASE Create
    BY <1>0, <1>3 DEF Create, HoldAccounted, lock!HoldAccounted, lock!HasLock, PlacesFit,
      MarkInv, Marked, JoinInv
  <1>4. ASSUME NEW t \in Everyone, ClearHeld(t)
        PROVE  TestLockInv'
    <2>1. TestTypeOK' /\ HoldAccounted' /\ PlacesFit' /\ JoinInv'
      BY <1>4 DEF ClearHeld, HoldAccounted, lock!HoldAccounted, lock!HasLock, PlacesFit,
        JoinInv
    <2>2. \A u \in Everyone : u # t => ~Marked(u)
      BY <1>4 DEF ClearHeld, Marked, PlacesFit, HoldAccounted, lock!HoldAccounted,
        lock!HasLock
    <2>3. testlock_held' = 0 /\ \A u \in Everyone : ~Marked(u)'
      BY <1>4, <2>2 DEF ClearHeld, Marked
    <2> QED
      BY <2>1, <2>3 DEF MarkInv
  <1>5. ASSUME NEW t \in Everyone, GiveBack(t)
        PROVE  TestLockInv'
    BY <1>5 DEF GiveBack, lock!Return, lock!Goto, HoldAccounted, lock!HoldAccounted,
      lock!HasLock, PlacesFit, MarkInv, Marked, JoinInv
  <1>6. ASSUME NEW t \in Everyone, lock!LockStep(t), UNCHANGED clientVars
        PROVE  TestLockInv'
    <2>1. TestTypeOK' /\ HoldAccounted'
      BY <1>6, TestLockSwaps DEF HoldAccounted, clientVars
    <2>2. PlacesFit' /\ MarkInv' /\ JoinInv'
      BY <1>6 DEF lock!LockStep, lock!Win, lock!Drop, lock!Goto, clientVars, PlacesFit,
        MarkInv, Marked, JoinInv
    <2> QED
      BY <2>1, <2>2
  <1>7. CASE Join
    BY <1>7 DEF Join, HoldAccounted, lock!HoldAccounted, lock!HasLock, PlacesFit, MarkInv,
      Marked, JoinInv
  <1>8. CASE UNCHANGED testVars
    BY <1>8 DEF testVars, clientVars, HoldAccounted, lock!HoldAccounted, lock!HasLock,
      PlacesFit,
      MarkInv, Marked, JoinInv
  <1> QED
    BY <1>1, <1>2, <1>3, <1>4, <1>5, <1>6, <1>7, <1>8 DEF TestNext, TestStep

\* For any number of testers, everything above holds in every reachable state.
THEOREM TestLockInvariance ==
  TestSpec => []TestLockInv
PROOF
  <1>1. TestInit => TestLockInv
    BY TestLockInitInv
  <1>2. TestLockInv /\ [TestNext]_testVars => TestLockInv'
    BY TestLockNextInv
  <1> QED
    BY <1>1, <1>2, PTL DEF TestSpec

\* The spinlock excludes, and its hold is 1 exactly while a thread has it.
THEOREM SpinlockHoldAccounted ==
  TestSpec => []HoldAccounted
PROOF
  <1>1. TestLockInv => HoldAccounted
    BY DEF TestLockInv
  <1> QED
    BY <1>1, TestLockInvariance, PTL

\* No assertion of test_lock fails.
THEOREM TestLockAssertionsHold ==
  TestSpec => []AssertionsHold
PROOF
  <1>1. TestLockInv => AssertionsHold
    <2> SUFFICES ASSUME TestLockInv PROVE AssertionsHold
      OBVIOUS
    <2>1. ASSUME NEW t \in Everyone, turn[t] = "set", at[t] = "in"
          PROVE  \A u \in Everyone : ~Marked(u)
      BY <2>1 DEF TestLockInv, Marked, PlacesFit, HoldAccounted, lock!HoldAccounted,
        lock!HasLock
    <2>2. joined => \A u \in Everyone : ~Marked(u)
      BY DEF TestLockInv, JoinInv, Marked
    <2> QED
      BY <2>1, <2>2 DEF AssertionsHold, TestLockInv, TestTypeOK, MarkInv
  <1> QED
    BY <1>1, TestLockInvariance, PTL

=============================================================================
