-------------------------- MODULE SemaphoreProofs ---------------------------
(***************************************************************************)
(* The semaphore of locks.c never lets more than Permits threads in, for   *)
(* any number of threads, permits and nodes, provided usleep(500) outlasts *)
(* a wake-up (PromptWakeup).  WaitQueueProofs follows the queue; what is   *)
(* left is to count: value against the threads that hold a permit.         *)
(***************************************************************************)
EXTENDS Semaphore, WaitQueueProofs, FiniteSetTheorems

\* The inductive invariant.
SemaphoreInv == WaitQueueInv /\ TypeOK /\ ValueAccounted

\* The semaphore takes only steps of the machinery.
LEMMA SemaphoreNextIsQueueStep ==
  ASSUME Next
  PROVE  \E t \in Threads : QueueStep(t)
PROOF
  BY DEF Next, Call, Return, Interrupt, LockStep, Enqueue, TakeFree, HandOver, SetFree,
         QueueStep, PassTest

\* sem->value is an int.
LEMMA ValueType ==
  ASSUME TypeOK, Next
  PROVE  value' \in Int
PROOF
  BY DEF TypeOK, Next, Call, Return, Interrupt, LockStep, Enqueue, TakeFree, HandOver, SetFree

\* The permits held can be counted, before and after any step.
LEMMA HoldersCounted ==
  /\ IsFiniteSet(Holders) /\ Cardinality(Holders) \in Nat
  /\ IsFiniteSet(Holders') /\ Cardinality(Holders') \in Nat
PROOF
  <1>1. Holders \in SUBSET Threads /\ Holders' \in SUBSET Threads
    BY DEF Holders
  <1> QED
    BY <1>1, FS_Subset, FS_CardinalityType, SemaphoreAssumption

\* A step after which the same threads have a permit keeps their number.
LEMMA SameHolders ==
  ASSUME \A u \in Threads : HasLock(u)' <=> HasLock(u)
  PROVE  Holders' = Holders
PROOF
  BY DEF Holders

\* A permit handed over leaves the number of holders as it was.
LEMMA CountPassed ==
  ASSUME SemaphoreInv, NEW t \in Threads, HandOver(t)
  PROVE  Cardinality(Holders') = Cardinality(Holders)
PROOF
  <1>1. HasLock(t) /\ ~HasLock(t)'
    BY LockPassed DEF HandOver, SemaphoreInv
  <1>2. PICK w \in Threads :
          /\ w # t /\ ~HasLock(w) /\ HasLock(w)'
          /\ \A u \in Threads : u # t /\ u # w => (HasLock(u)' <=> HasLock(u))
    BY LockPassed DEF HandOver, SemaphoreInv
  <1> DEFINE Others == Holders \ {t}
  <1>3. t \in Holders /\ w \notin Others /\ Holders' = Others \cup {w}
    BY <1>1, <1>2 DEF Holders
  <1>4. IsFiniteSet(Others) /\ Cardinality(Others) = Cardinality(Holders) - 1
    BY <1>3, HoldersCounted, FS_RemoveElement
  <1>5. Cardinality(Holders') = Cardinality(Others) + 1
    BY <1>3, <1>4, FS_AddElement
  <1> QED
    BY <1>4, <1>5, HoldersCounted

\* Following value, the holders and the queue through every step.
LEMMA ValueStep ==
  ASSUME SemaphoreInv, PromptWakeup, Next
  PROVE  ValueAccounted'
PROOF
  <1> DEFINE held == Cardinality(Holders)
             held2 == Cardinality(Holders')
  <1>0. PICK t \in Threads : Call(t) \/ Return(t) \/ LockStep(t) \/ Interrupt(t)
    BY DEF Next
  <1>1. /\ held \in Nat /\ held2 \in Nat /\ value \in Int /\ Permits \in Nat \ {0}
        /\ queue \in Seq(Nodes) /\ Len(queue) \in Nat
        /\ value = Permits - held - Len(queue) /\ held <= Permits
        /\ queue # <<>> => held = Permits
    BY HoldersCounted, SemaphoreAssumption
    DEF SemaphoreInv, TypeOK, WaitQueueTypeOK, ValueAccounted
  <1>2. SUFFICES /\ value' = Permits - held2 - Len(queue')
                 /\ held2 <= Permits
                 /\ queue' # <<>> => held2 = Permits
    BY DEF ValueAccounted
  <1>3. CASE TakeFree(t)
    <2>1. \A u \in Threads : Granted(u)' <=> Granted(u)
      BY <1>3, QuietSteps DEF TakeFree, PassTest, SemaphoreInv, WaitQueueInv
    <2>2. ~HasLock(t) /\ HasLock(t)'
      BY <1>3, <2>1 DEF TakeFree, Goto, HasLock, Granted, Waiting, SemaphoreInv, TypeOK,
        WaitQueueTypeOK
    <2>3. \A u \in Threads : u # t => (HasLock(u)' <=> HasLock(u))
      BY <1>3, <2>1 DEF TakeFree, Goto, HasLock, SemaphoreInv, TypeOK, WaitQueueTypeOK
    <2>4. t \notin Holders /\ Holders' = Holders \cup {t}
      BY <2>2, <2>3 DEF Holders
    <2>5. held2 = held + 1
      BY <2>4, HoldersCounted, FS_AddElement
    <2>6. value' = value - 1 /\ value >= 1 /\ queue' = queue
      BY <1>1, <1>3 DEF TakeFree, parkVars
    <2>7. queue = <<>>
      BY <1>1, <2>6
    <2> QED
      BY <1>1, <2>5, <2>6, <2>7
  <1>4. CASE SetFree(t)
    <2>1. \A u \in Threads : Granted(u)' <=> Granted(u)
      BY <1>4, QuietSteps DEF SetFree, PassTest, SemaphoreInv, WaitQueueInv
    <2>2. HasLock(t) /\ ~HasLock(t)'
      BY <1>4, <2>1 DEF SetFree, Goto, HasLock, Granted, Waiting, SemaphoreInv, TypeOK,
        WaitQueueTypeOK
    <2>3. \A u \in Threads : u # t => (HasLock(u)' <=> HasLock(u))
      BY <1>4, <2>1 DEF SetFree, Goto, HasLock, SemaphoreInv, TypeOK, WaitQueueTypeOK
    <2>4. t \in Holders /\ Holders' = Holders \ {t}
      BY <2>2, <2>3 DEF Holders
    <2>5. held2 = held - 1
      BY <2>4, HoldersCounted, FS_RemoveElement
    <2>6. value' = value + 1 /\ queue = <<>> /\ queue' = queue
      BY <1>4 DEF SetFree, parkVars
    <2> QED
      BY <1>1, <2>5, <2>6
  <1>5. CASE HandOver(t)
    <2>1. held2 = held
      BY <1>5, CountPassed
    <2>2. value' = value + 1 /\ queue # <<>> /\ queue' = Tail(queue)
      BY <1>5 DEF HandOver, RemoveFirst
    <2>3. Len(queue') = Len(queue) - 1
      BY <1>1, <2>2
    <2> QED
      BY <1>1, <2>1, <2>2, <2>3
  <1>6. CASE Enqueue(t)
    <2>1. held2 = held
      BY <1>6, LockKept, SameHolders DEF Enqueue, SemaphoreInv
    <2>2. value' = value - 1 /\ value < 1 /\ \E n \in Nodes : queue' = Append(queue, n)
      BY <1>1, <1>6 DEF Enqueue, InsertSelf
    <2>3. Len(queue') = Len(queue) + 1
      BY <1>1, <2>2
    <2>4. held = Permits
      <3>1. CASE queue = <<>>
        BY <1>1, <2>2, <3>1
      <3> QED
        BY <1>1, <3>1
    <2> QED
      BY <1>1, <2>1, <2>2, <2>3, <2>4
  <1>7. CASE Call(t) \/ Return(t) \/ Interrupt(t)
             \/ (WaitQueueStep(t) /\ UNCHANGED value)
    <2>1. held2 = held
      BY <1>7, LockKept, SameHolders DEF Call, Return, Interrupt, SemaphoreInv
    <2>2. value' = value /\ queue' = queue
      BY <1>7 DEF Call, Return, Interrupt, Acquire, Release, DropSignal, WaitQueueStep,
        LockForAcquire, LockForRelease, UnlockGranted, UnlockDropped, UnlockQueued,
        UnlockPopped, Pause, Wake, RaiseFlag, Kill, SeeFlagUp, SeeFlagDown, TakeSlock,
        DropSlock, parkVars
    <2> QED
      BY <1>1, <2>1, <2>2
  <1> QED
    BY <1>0, <1>3, <1>4, <1>5, <1>6, <1>7 DEF LockStep

\* The invariant holds at the start: nobody holds, nobody waits.
LEMMA SemaphoreInitInv ==
  ASSUME Init
  PROVE  SemaphoreInv
PROOF
  <1>1. WaitQueueInv
    BY WaitQueueInitInv DEF Init
  <1>2. Holders = {} /\ queue = <<>> /\ value = Permits
    BY DEF Init, WaitQueueInit, Holders, HasLock, Granted, Waiting
  <1>3. Cardinality(Holders) = 0
    BY <1>2, FS_EmptySet
  <1>4. TypeOK /\ ValueAccounted
    BY <1>1, <1>2, <1>3, SemaphoreAssumption DEF TypeOK, WaitQueueInv, ValueAccounted
  <1> QED
    BY <1>1, <1>4 DEF SemaphoreInv

\* The invariant is inductive.
LEMMA SemaphoreNextInv ==
  ASSUME SemaphoreInv, PromptWakeup, [Next]_vars
  PROVE  SemaphoreInv'
PROOF
  <1>1. CASE Next
    <2>1. WaitQueueInv'
      BY <1>1, SemaphoreNextIsQueueStep, QueueStepInv DEF SemaphoreInv
    <2>2. TypeOK'
      BY <1>1, <2>1, ValueType DEF SemaphoreInv, TypeOK, WaitQueueInv
    <2> QED
      BY <1>1, <2>1, <2>2, ValueStep DEF SemaphoreInv
  <1>2. CASE UNCHANGED vars
    <2>1. UNCHANGED waitVars /\ UNCHANGED value
      BY <1>2 DEF vars
    <2>2. WaitQueueInv'
      BY <2>1 DEF waitVars, SemaphoreInv, WaitQueueInv, WaitQueueTypeOK, SectionInv,
        InSection, HandOverInv, OwnNode, QueuedWaits, QueuedOnce, PollsWaiter, PolledOnce,
        GrantedPolled, SleepsBeforeKill, SignalWatched, SignalSpent, Granted, Waiting,
        Handing, InQueue
    <2>3. Holders' = Holders
      BY <2>1 DEF waitVars, Holders, HasLock, Granted, Waiting, InQueue
    <2>4. TypeOK' /\ ValueAccounted'
      BY <2>1, <2>2, <2>3 DEF waitVars, SemaphoreInv, TypeOK, WaitQueueInv, ValueAccounted
    <2> QED
      BY <2>2, <2>4 DEF SemaphoreInv
  <1> QED
    BY <1>1, <1>2

\* For every set of threads and every number of permits, the invariant of the
\* semaphore holds in every reachable state of wait_semaphore/signal_semaphore.
THEOREM SemaphoreInvariance ==
  ASSUME PromptWakeup
  PROVE  Spec => []SemaphoreInv
PROOF
  <1>1. Init => SemaphoreInv
    BY SemaphoreInitInv
  <1>2. SemaphoreInv /\ [Next]_vars => SemaphoreInv'
    BY SemaphoreNextInv
  <1> QED
    BY <1>1, <1>2, PTL DEF Spec

\* value accounts for every permit, held, free or owed to a waiter.
THEOREM SemaphoreValueAccounted ==
  ASSUME PromptWakeup
  PROVE  Spec => []ValueAccounted
PROOF
  <1>1. SemaphoreInv => ValueAccounted
    BY DEF SemaphoreInv
  <1> QED
    BY <1>1, SemaphoreInvariance, PTL

\* No more than Permits threads are past wait_semaphore at once.
THEOREM SemaphoreBounds ==
  ASSUME PromptWakeup
  PROVE  Spec => []AtMostPermitsInside
PROOF
  <1> DEFINE inside == {t \in Threads : pc[t] = "in"}
  <1>1. SemaphoreInv => AtMostPermitsInside
    <2> SUFFICES ASSUME SemaphoreInv PROVE Cardinality(inside) <= Permits
      BY DEF AtMostPermitsInside
    <2>1. inside \in SUBSET Holders
      BY DEF Holders, HasLock
    <2>2. Cardinality(inside) \in Nat /\ Cardinality(inside) <= Cardinality(Holders)
      BY <2>1, HoldersCounted, FS_Subset, FS_CardinalityType
    <2>3. Cardinality(Holders) <= Permits
      BY DEF SemaphoreInv, ValueAccounted
    <2> QED
      BY <2>2, <2>3, HoldersCounted, SemaphoreAssumption
  <1> QED
    BY <1>1, SemaphoreInvariance, PTL

\* Whatever the timing, the semaphore's nodes are as safe as the mutex's: none is
\* used after it is freed, freed twice or queued twice.
THEOREM SemaphoreNodesSafe == Spec => []NodeSafety
PROOF
  <1>1. Init => NodeInv
    BY NodeInitInv DEF Init
  <1>2. NodeInv /\ [Next]_vars => NodeInv'
    <2>1. CASE Next
      BY <2>1, SemaphoreNextIsQueueStep, QueueStepNodes
    <2>2. CASE UNCHANGED vars
      BY <2>2, NodeInvStutter DEF vars
    <2> QED
      BY <2>1, <2>2
  <1>3. NodeInv => NodeSafety
    BY NodeInvSafe
  <1> QED
    BY <1>1, <1>2, <1>3, PTL DEF Spec

-----------------------------------------------------------------------------
(* The refinement.                                                         *)

\* The instance counts as FiniteSets does.
LEMMA PromiseCounts == \A S : Promise!Cardinality(S) = Cardinality(S)
PROOF
  BY DEF Promise!Cardinality, Cardinality

\* While a permit is taken from, or put back to, the free ones, only t's share
\* changes.
LEMMA OnlyOwnShare ==
  ASSUME SemaphoreInv, NEW t \in Threads, TakeFree(t) \/ SetFree(t)
  PROVE  /\ TakeFree(t) => t \notin Holders /\ Holders' = Holders \cup {t}
         /\ SetFree(t) => t \in Holders /\ Holders' = Holders \ {t}
PROOF
  <1>1. \A u \in Threads : Granted(u)' <=> Granted(u)
    BY QuietSteps DEF TakeFree, SetFree, PassTest, SemaphoreInv, WaitQueueInv
  <1> QED
    BY <1>1 DEF TakeFree, SetFree, Goto, Holders, HasLock, Granted, Waiting, SemaphoreInv,
      TypeOK, WaitQueueTypeOK

\* Every step of the semaphore is a step of the promise, or none.
LEMMA StepKeepsPromise ==
  ASSUME SemaphoreInv, SemaphoreInv', PromptWakeup, Next
  PROVE  Promise!Next \/ UNCHANGED <<Holders, Line>>
PROOF
  <1>0. /\ Cardinality(Holders) \in Nat /\ value \in Int /\ Permits \in Nat \ {0}
        /\ Len(queue) \in Nat /\ (Len(queue) = 0 <=> queue = <<>>)
        /\ value = Permits - Cardinality(Holders) - Len(queue)
        /\ Cardinality(Holders) <= Permits
        /\ queue # <<>> => Cardinality(Holders) = Permits
        /\ WaitQueueInv /\ WaitQueueInv'
    BY HoldersCounted, SemaphoreAssumption
    DEF SemaphoreInv, TypeOK, WaitQueueTypeOK, ValueAccounted
  <1>1. PICK t \in Threads : Call(t) \/ Return(t) \/ LockStep(t) \/ Interrupt(t)
    BY DEF Next
  <1>2. CASE TakeFree(t)
    <2>1. queue = <<>> /\ queue' = queue /\ Cardinality(Holders) < Permits
      BY <1>0, <1>2 DEF TakeFree, parkVars
    <2>2. Line = <<>> /\ Line' = <<>>
      BY <2>1 DEF Line
    <2>3. t \notin Holders /\ Holders' = Holders \cup {t}
      BY <1>2, OnlyOwnShare
    <2>4. Promise!Take(t)
      BY <2>1, <2>2, <2>3, PromiseCounts DEF Promise!Take, Promise!Idle
    <2> QED
      BY <2>4 DEF Promise!Next
  <1>3. CASE Enqueue(t)
    <2>1. Line' = Append(Line, t) /\ ~HasLock(t) /\ \A i \in 1..Len(Line) : Line[i] # t
      BY <1>0, <1>3, LineGrows DEF Enqueue
    <2>2. Cardinality(Holders) = Permits
      BY <1>0, <1>3 DEF Enqueue
    <2>3. Holders' = Holders
      BY <1>0, <1>3, LockKept DEF Enqueue, Holders
    <2>4. Promise!Wait(t)
      BY <2>1, <2>2, <2>3, PromiseCounts DEF Promise!Wait, Promise!Idle, Holders
    <2> QED
      BY <2>4 DEF Promise!Next
  <1>4. CASE SetFree(t)
    <2>1. Line = <<>> /\ Line' = <<>>
      BY <1>4 DEF SetFree, Line, parkVars
    <2>2. t \in Holders /\ Holders' = Holders \ {t}
      BY <1>4, OnlyOwnShare
    <2>3. Promise!Free(t)
      BY <2>1, <2>2 DEF Promise!Free
    <2> QED
      BY <2>3 DEF Promise!Next
  <1>5. CASE HandOver(t)
    <2>1. /\ Line # <<>> /\ Line' = Tail(Line)
          /\ HasLock(t) /\ ~HasLock(t)'
      BY <1>0, <1>5, LinePasses DEF HandOver
    <2>2. PICK h \in Threads :
            /\ h = Head(Line) /\ h # t /\ HasLock(h)'
            /\ \A u \in Threads : u # t /\ u # h => (HasLock(u)' <=> HasLock(u))
      BY <1>0, <1>5, LinePasses DEF HandOver
    <2>3. t \in Holders /\ Holders' = (Holders \ {t}) \cup {Head(Line)}
      BY <2>1, <2>2 DEF Holders
    <2>4. Promise!Pass(t)
      BY <2>1, <2>3 DEF Promise!Pass
    <2> QED
      BY <2>4 DEF Promise!Next
  <1>6. CASE Call(t) \/ Return(t) \/ Interrupt(t) \/ (WaitQueueStep(t) /\ UNCHANGED value)
    <2>1. Holders' = Holders
      BY <1>0, <1>6, LockKept DEF Call, Return, Interrupt, Holders
    <2>2. UNCHANGED queue
      BY <1>6 DEF Call, Return, Interrupt, WaitQueueStep, Acquire, Release, DropSignal,
        LockForAcquire, LockForRelease, UnlockGranted, UnlockDropped, UnlockQueued,
        UnlockPopped, Pause, Wake, RaiseFlag, Kill, SeeFlagUp, SeeFlagDown,
        TakeSlock, DropSlock, parkVars
    <2>3. Line' = Line
      BY <1>0, <1>6, <2>2, LineKept DEF Call, Return, Interrupt, QueueStep
    <2> QED
      BY <2>1, <2>3
  <1> QED
    BY <1>1, <1>2, <1>3, <1>4, <1>5, <1>6 DEF LockStep

\* For every finite set of threads and every number of permits, wait_semaphore
\* and signal_semaphore hand Permits permits on in the order of arrival.
THEOREM SemaphoreImplementsFifo ==
  ASSUME PromptWakeup
  PROVE  Spec => ImplementsFifoSemaphore
PROOF
  <1>1. Init => SemaphoreInv /\ Promise!Init
    <2> SUFFICES ASSUME Init PROVE SemaphoreInv /\ Promise!Init
      OBVIOUS
    <2>1. Holders = {} /\ Line = <<>>
      BY DEF Init, WaitQueueInit, Holders, HasLock, Granted, Waiting, Line
    <2> QED
      BY <2>1, SemaphoreInitInv DEF Promise!Init
  <1>2. SemaphoreInv /\ [Next]_vars => SemaphoreInv'
    BY SemaphoreNextInv
  <1>3. SemaphoreInv /\ SemaphoreInv' /\ [Next]_vars
          => [Promise!Next]_<<Holders, Line>>
    <2>1. CASE Next
      BY <2>1, StepKeepsPromise
    <2>2. CASE UNCHANGED vars
      BY <2>2 DEF vars, waitVars, Holders, Line, HasLock, Granted, Waiting, InQueue
    <2> QED
      BY <2>1, <2>2
  <1> QED
    BY <1>1, <1>2, <1>3, PTL DEF Spec, ImplementsFifoSemaphore, Promise!Spec

-----------------------------------------------------------------------------
(* For the programs that use the semaphore as a lock.                      *)

\* With one permit, a step inside wait_semaphore or signal_semaphore moves its
\* own thread only, and lets it in only when nobody is in.
LEMMA SemaphoreLetsInAlone ==
  ASSUME SemaphoreInv, Permits = 1, NEW t \in Threads, LockStep(t)
  PROVE  /\ pc[t] \notin {"out", "in"}
         /\ \A u \in Threads : u # t => pc'[u] = pc[u]
         /\ pc'[t] = "in" => pc[t] \in AskingLabels /\ \A u \in Threads : pc[u] # "in"
         /\ pc'[t] \in AskingLabels => pc[t] \in AskingLabels
PROOF
  <1>1. InnerStep(t)
    BY DEF LockStep, Enqueue, TakeFree, HandOver, SetFree, InnerStep, PassTest
  <1>2. ASSUME NEW u \in Threads, HasLock(t), pc[u] = "in" PROVE u = t
    <2>1. {t, u} \in SUBSET Holders
      BY <1>2 DEF Holders, HasLock
    <2>2. Cardinality({t, u}) <= 1
      <3>1. Cardinality({t, u}) <= Cardinality(Holders) /\ IsFiniteSet({t, u})
        BY <2>1, HoldersCounted, FS_Subset
      <3>2. Cardinality({t, u}) \in Nat /\ Cardinality(Holders) <= 1
        BY <3>1, FS_CardinalityType DEF SemaphoreInv, ValueAccounted
      <3> QED
        BY <3>1, <3>2, HoldersCounted
    <2>3. Cardinality({t, u}) = IF u = t THEN 1 ELSE 2
      <3>1. IsFiniteSet({t}) /\ Cardinality({t}) = 1
        BY FS_Singleton
      <3>2. Cardinality({t} \cup {u}) = IF u \in {t} THEN 1 ELSE 1 + 1
        BY <3>1, FS_AddElement
      <3>3. {t} \cup {u} = {t, u}
        OBVIOUS
      <3> QED
        BY <3>2, <3>3
    <2> QED
      BY <2>2, <2>3
  <1> QED
    BY <1>1, <1>2, InnerStepMoves DEF SemaphoreInv

=============================================================================
