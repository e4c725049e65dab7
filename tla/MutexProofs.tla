---------------------------- MODULE MutexProofs -----------------------------
(***************************************************************************)
(* The mutex of locks.c is safe for any number of threads, provided        *)
(* usleep(500) outlasts a wake-up (PromptWakeup).  Each step of Next is a  *)
(* step of the shared machinery, which WaitQueueProofs shows to keep       *)
(* WaitQueueInv; what is left is to follow hold.  The memory of the nodes  *)
(* is safe under any timing.                                               *)
(***************************************************************************)
EXTENDS Mutex, WaitQueueProofs, FiniteSetTheorems

\* The mutex takes only steps of the machinery.
LEMMA NextIsQueueStep ==
  ASSUME Next
  PROVE  \E t \in Threads : QueueStep(t)
PROOF
  BY DEF Next, Call, Return, Interrupt, LockStep, Enqueue, TakeFree, HandOver, SetFree,
         QueueStep, PassTest

\* hold is an int of {0, 1}.
LEMMA HoldType ==
  ASSUME TypeOK, Next
  PROVE  hold' \in {0, 1}
PROOF
  BY DEF TypeOK, Next, Call, Return, Interrupt, LockStep, Enqueue, TakeFree, HandOver, SetFree

\* Following hold and the threads that have the lock through every step.
LEMMA HoldStep ==
  ASSUME MutexInv, PromptWakeup, Next
  PROVE  HoldAccounted'
PROOF
  <1> USE DEF MutexInv, TypeOK, HoldAccounted
  <1>1. PICK t \in Threads : Call(t) \/ Return(t) \/ LockStep(t) \/ Interrupt(t)
    BY DEF Next
  <1>2. CASE TakeFree(t)
    <2>1. \A u \in Threads : Granted(u)' <=> Granted(u)
      BY <1>2, QuietSteps DEF TakeFree, PassTest, WaitQueueInv
    <2>2. HasLock(t)' /\ \A u \in Threads : u # t => (HasLock(u)' <=> HasLock(u))
      BY <1>2, <2>1 DEF TakeFree, Goto, HasLock, WaitQueueTypeOK
    <2> QED
      BY <1>2, <2>2 DEF TakeFree
  <1>3. CASE SetFree(t)
    <2>1. \A u \in Threads : Granted(u)' <=> Granted(u)
      BY <1>3, QuietSteps DEF SetFree, PassTest, WaitQueueInv
    <2>2. HasLock(t) /\ ~HasLock(t)'
      BY <1>3, <2>1 DEF SetFree, Goto, HasLock, Granted, Waiting, WaitQueueTypeOK
    <2>3. \A u \in Threads : u # t => (HasLock(u)' <=> HasLock(u))
      BY <1>3, <2>1 DEF SetFree, Goto, HasLock, WaitQueueTypeOK
    <2> QED
      BY <1>3, <2>2, <2>3 DEF SetFree
  <1>4. CASE HandOver(t)
    <2>1. hold' = hold
      BY <1>4 DEF HandOver
    <2> QED
      BY <1>4, <2>1, LockPassed DEF HandOver
  <1>5. CASE Call(t) \/ Return(t) \/ Interrupt(t) \/ Enqueue(t)
             \/ (WaitQueueStep(t) /\ UNCHANGED hold)
    <2>1. hold' = hold
      BY <1>5 DEF Call, Return, Interrupt, Enqueue
    <2>2. \A u \in Threads : HasLock(u)' <=> HasLock(u)
      BY <1>5, LockKept DEF Call, Return, Interrupt, Enqueue
    <2> QED
      BY <2>1, <2>2
  <1> QED
    BY <1>1, <1>2, <1>3, <1>4, <1>5 DEF LockStep

\* The invariant holds at the start.
LEMMA MutexInitInv ==
  ASSUME Init
  PROVE  MutexInv
PROOF
  <1>1. WaitQueueInv
    BY WaitQueueInitInv DEF Init
  <1>2. TypeOK /\ HoldAccounted
    BY <1>1 DEF Init, WaitQueueInit, TypeOK, WaitQueueInv, HoldAccounted, HasLock, Granted, Waiting
  <1> QED
    BY <1>1, <1>2 DEF MutexInv

\* The invariant is inductive.
LEMMA MutexNextInv ==
  ASSUME MutexInv, PromptWakeup, [Next]_vars
  PROVE  MutexInv'
PROOF
  <1>1. CASE Next
    <2>1. WaitQueueInv'
      BY <1>1, NextIsQueueStep, QueueStepInv DEF MutexInv
    <2>2. TypeOK'
      BY <1>1, <2>1, HoldType DEF MutexInv, TypeOK, WaitQueueInv
    <2> QED
      BY <1>1, <2>1, <2>2, HoldStep DEF MutexInv
  <1>2. CASE UNCHANGED vars
    <2>1. UNCHANGED waitVars /\ UNCHANGED hold
      BY <1>2 DEF vars
    <2>2. WaitQueueInv'
      BY <2>1 DEF waitVars, MutexInv, WaitQueueInv, WaitQueueTypeOK, SectionInv,
        InSection, HandOverInv, OwnNode, QueuedWaits, QueuedOnce, PollsWaiter, PolledOnce,
        GrantedPolled, SleepsBeforeKill, SignalWatched, SignalSpent, Granted, Waiting,
        Handing, InQueue
    <2>3. TypeOK' /\ HoldAccounted'
      BY <2>1, <2>2 DEF waitVars, MutexInv, TypeOK, WaitQueueInv, HoldAccounted, HasLock,
        Granted, Waiting, InQueue
    <2> QED
      BY <2>2, <2>3 DEF MutexInv
  <1> QED
    BY <1>1, <1>2

\* For every set of threads, however many nodes, the inductive invariant of the
\* mutex holds in every reachable state: acquire_mutex and release_mutex never
\* corrupt the queue, the nodes or the hand-over.
THEOREM MutexInvariance ==
  ASSUME PromptWakeup
  PROVE  Spec => []MutexInv
PROOF
  <1>1. Init => MutexInv
    BY MutexInitInv
  <1>2. MutexInv /\ [Next]_vars => MutexInv'
    BY MutexNextInv
  <1> QED
    BY <1>1, <1>2, PTL DEF Spec

\* Every variable of acquire_mutex and release_mutex stays in its range.
THEOREM MutexTypeCorrect ==
  ASSUME PromptWakeup
  PROVE  Spec => []TypeOK
PROOF
  <1>1. MutexInv => TypeOK
    BY DEF MutexInv
  <1> QED
    BY <1>1, MutexInvariance, PTL

\* At most one thread is between its acquire_mutex and its release_mutex.
THEOREM MutexExcludes ==
  ASSUME PromptWakeup
  PROVE  Spec => []MutualExclusion
PROOF
  <1>1. MutexInv => MutualExclusion
    BY DEF MutexInv, HoldAccounted, HasLock, MutualExclusion
  <1> QED
    BY <1>1, MutexInvariance, PTL

\* hold is 1 exactly while one thread has the lock, through every hand-over.
THEOREM MutexHoldAccounted ==
  ASSUME PromptWakeup
  PROVE  Spec => []HoldAccounted
PROOF
  <1>1. MutexInv => HoldAccounted
    BY DEF MutexInv
  <1> QED
    BY <1>1, MutexInvariance, PTL

\* No signal reaches a thread that does not wait for it.
THEOREM MutexSignalsMeantOnly ==
  ASSUME PromptWakeup
  PROVE  Spec => []NoStraySignal
PROOF
  <1>1. MutexInv => NoStraySignal
    BY WaitQueueInvSignals DEF MutexInv
  <1> QED
    BY <1>1, MutexInvariance, PTL

\* Whatever the timing, even when threads are let in without the lock: no node
\* of acquire_mutex is used after release_mutex has freed it, freed twice or
\* queued twice.
THEOREM MutexNodesSafe == Spec => []NodeSafety
PROOF
  <1>1. Init => NodeInv
    BY NodeInitInv DEF Init
  <1>2. NodeInv /\ [Next]_vars => NodeInv'
    <2>1. CASE Next
      BY <2>1, NextIsQueueStep, QueueStepNodes
    <2>2. CASE UNCHANGED vars
      BY <2>2, NodeInvStutter DEF vars
    <2> QED
      BY <2>1, <2>2
  <1>3. NodeInv => NodeSafety
    BY NodeInvSafe
  <1> QED
    BY <1>1, <1>2, <1>3, PTL DEF Spec

-----------------------------------------------------------------------------
(* The refinement.                                                         *)

\* Nobody waits for a lock that is free.
NoneQueuesInVain == queue # <<>> => hold = 1

\* What the refinement rests on.
OrderInv == MutexInv /\ NoneQueuesInVain

\* It is inductive.
LEMMA OrderNextInv ==
  ASSUME OrderInv, PromptWakeup, [Next]_vars
  PROVE  OrderInv'
PROOF
  <1>1. MutexInv'
    BY MutexNextInv DEF OrderInv
  <1>2. NoneQueuesInVain'
    <2>1. CASE UNCHANGED vars
      BY <2>1 DEF OrderInv, NoneQueuesInVain, vars, waitVars
    <2>2. ASSUME NEW t \in Threads, Call(t) \/ Return(t) \/ LockStep(t) \/ Interrupt(t)
          PROVE  NoneQueuesInVain'
      BY <2>2 DEF OrderInv, NoneQueuesInVain, LockStep, Call, Return, Interrupt, Enqueue, TakeFree,
        HandOver, SetFree, WaitQueueStep, Acquire, Release, DropSignal, InsertSelf,
        RemoveFirst, LockForAcquire, LockForRelease, UnlockGranted, UnlockDropped,
        UnlockQueued, UnlockPopped, Pause, Wake, RaiseFlag, Kill, SeeFlagUp, SeeFlagDown,
        TakeSlock, DropSlock, Goto, parkVars
    <2> QED
      BY <2>1, <2>2 DEF Next
  <1> QED
    BY <1>1, <1>2 DEF OrderInv

\* One thread has the lock when hold is 1, none when it is not.
LEMMA HoldersOfHold ==
  ASSUME MutexInv
  PROVE  /\ hold = 1 => Cardinality(Holders) = 1
         /\ hold # 1 => Holders = {} /\ Cardinality(Holders) = 0
PROOF
  <1>1. CASE hold = 1
    <2>1. PICK t \in Threads : Holders = {t}
      BY <1>1 DEF MutexInv, HoldAccounted, Holders
    <2> QED
      BY <1>1, <2>1, FS_Singleton
  <1>2. CASE hold # 1
    <2>1. Holders = {}
      BY <1>2 DEF MutexInv, HoldAccounted, Holders
    <2> QED
      BY <1>2, <2>1, FS_EmptySet
  <1> QED
    BY <1>1, <1>2

\* The instance counts as FiniteSets does.
LEMMA PromiseCounts == \A S : Promise!Cardinality(S) = Cardinality(S)
PROOF
  BY DEF Promise!Cardinality, Cardinality

\* Every step of the mutex is a step of the promise, or none.
LEMMA StepKeepsPromise ==
  ASSUME OrderInv, OrderInv', PromptWakeup, Next
  PROVE  Promise!Next \/ UNCHANGED <<Holders, Line>>
PROOF
  <1> USE DEF OrderInv, MutexInv
  <1>1. PICK t \in Threads : Call(t) \/ Return(t) \/ LockStep(t) \/ Interrupt(t)
    BY DEF Next
  <1>2. CASE TakeFree(t)
    <2>1. Line = <<>> /\ Line' = <<>> /\ Holders = {} /\ Cardinality(Holders) = 0
      BY <1>2, HoldersOfHold DEF TakeFree, NoneQueuesInVain, Line, parkVars
    <2>2. \A u \in Threads : Granted(u)' <=> Granted(u)
      BY <1>2, QuietSteps DEF TakeFree, PassTest, WaitQueueInv
    <2>3. Holders' = Holders \cup {t}
      BY <1>2, <2>2 DEF TakeFree, Goto, Holders, HasLock, WaitQueueInv, WaitQueueTypeOK
    <2>4. Promise!Take(t)
      BY <2>1, <2>3, PromiseCounts DEF Promise!Take, Promise!Idle
    <2> QED
      BY <2>4 DEF Promise!Next
  <1>3. CASE Enqueue(t)
    <2>1. Line' = Append(Line, t) /\ ~HasLock(t) /\ \A i \in 1..Len(Line) : Line[i] # t
      BY <1>3, LineGrows DEF Enqueue
    <2>2. Cardinality(Holders) = 1
      BY <1>3, HoldersOfHold DEF Enqueue
    <2>3. Holders' = Holders
      BY <1>3, LockKept DEF Enqueue, Holders
    <2>4. Promise!Wait(t)
      BY <2>1, <2>2, <2>3, PromiseCounts DEF Promise!Wait, Promise!Idle, Holders
    <2> QED
      BY <2>4 DEF Promise!Next
  <1>4. CASE SetFree(t)
    <2>1. Line = <<>> /\ Line' = <<>>
      BY <1>4 DEF SetFree, Line, parkVars
    <2>2. \A u \in Threads : Granted(u)' <=> Granted(u)
      BY <1>4, QuietSteps DEF SetFree, PassTest, WaitQueueInv
    <2>3. t \in Holders /\ Holders' = Holders \ {t}
      BY <1>4, <2>2 DEF SetFree, Goto, Holders, HasLock, Granted, Waiting, WaitQueueInv, WaitQueueTypeOK
    <2>4. Promise!Free(t)
      BY <2>1, <2>3 DEF Promise!Free
    <2> QED
      BY <2>4 DEF Promise!Next
  <1>5. CASE HandOver(t)
    <2>1. /\ Line # <<>> /\ Line' = Tail(Line)
          /\ HasLock(t) /\ ~HasLock(t)'
      BY <1>5, LinePasses DEF HandOver
    <2>2. PICK h \in Threads :
            /\ h = Head(Line) /\ h # t /\ HasLock(h)'
            /\ \A u \in Threads : u # t /\ u # h => (HasLock(u)' <=> HasLock(u))
      BY <1>5, LinePasses DEF HandOver
    <2>3. t \in Holders /\ Holders' = (Holders \ {t}) \cup {Head(Line)}
      BY <2>1, <2>2 DEF Holders
    <2>4. Promise!Pass(t)
      BY <2>1, <2>3 DEF Promise!Pass
    <2> QED
      BY <2>4 DEF Promise!Next
  <1>6. CASE Call(t) \/ Return(t) \/ Interrupt(t) \/ (WaitQueueStep(t) /\ UNCHANGED hold)
    <2>1. Holders' = Holders
      BY <1>6, LockKept DEF Call, Return, Interrupt, Holders
    <2>2. UNCHANGED queue
      BY <1>6 DEF Call, Return, Interrupt, WaitQueueStep, Acquire, Release, DropSignal,
        LockForAcquire, LockForRelease, UnlockGranted, UnlockDropped, UnlockQueued,
        UnlockPopped, Pause, Wake, RaiseFlag, Kill, SeeFlagUp, SeeFlagDown,
        TakeSlock, DropSlock, parkVars
    <2>3. Line' = Line
      BY <1>6, <2>2, LineKept DEF Call, Return, Interrupt, QueueStep
    <2> QED
      BY <2>1, <2>3
  <1> QED
    BY <1>1, <1>2, <1>3, <1>4, <1>5, <1>6 DEF LockStep

\* For every set of threads acquire_mutex and release_mutex implement a lock
\* that passes from thread to thread in the order in which they queued.
THEOREM MutexImplementsFifoLock ==
  ASSUME PromptWakeup
  PROVE  Spec => ImplementsFifoLock
PROOF
  <1>1. Init => OrderInv /\ Promise!Init
    <2> SUFFICES ASSUME Init PROVE OrderInv /\ Promise!Init
      OBVIOUS
    <2>1. MutexInv
      BY MutexInitInv
    <2>2. Holders = {} /\ Line = <<>> /\ queue = <<>>
      BY <2>1, HoldersOfHold DEF Init, WaitQueueInit, Line
    <2> QED
      BY <2>1, <2>2 DEF OrderInv, NoneQueuesInVain, Promise!Init
  <1>2. OrderInv /\ [Next]_vars => OrderInv'
    BY OrderNextInv
  <1>3. OrderInv /\ OrderInv' /\ [Next]_vars => [Promise!Next]_<<Holders, Line>>
    <2>1. CASE Next
      BY <2>1, StepKeepsPromise
    <2>2. CASE UNCHANGED vars
      BY <2>2 DEF vars, waitVars, Holders, Line, HasLock, Granted, Waiting, InQueue
    <2> QED
      BY <2>1, <2>2
  <1> QED
    BY <1>1, <1>2, <1>3, PTL DEF Spec, ImplementsFifoLock, Promise!Spec

-----------------------------------------------------------------------------
(* For the programs that use the mutex.                                    *)

\* A step inside acquire_mutex or release_mutex moves its own thread only, and
\* lets it in only when nobody is in.
LEMMA MutexLetsInAlone ==
  ASSUME MutexInv, NEW t \in Threads, LockStep(t)
  PROVE  /\ pc[t] \notin {"out", "in"}
         /\ \A u \in Threads : u # t => pc'[u] = pc[u]
         /\ pc'[t] = "in" => pc[t] \in AskingLabels /\ \A u \in Threads : pc[u] # "in"
         /\ pc'[t] \in AskingLabels => pc[t] \in AskingLabels
PROOF
  <1>1. InnerStep(t)
    BY DEF LockStep, Enqueue, TakeFree, HandOver, SetFree, InnerStep, PassTest
  <1>2. \A u \in Threads : pc[u] = "in" => HasLock(u)
    BY DEF HasLock
  <1> QED
    BY <1>1, <1>2, InnerStepMoves DEF MutexInv, HoldAccounted

=============================================================================
