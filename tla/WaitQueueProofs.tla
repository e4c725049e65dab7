-------------------------- MODULE WaitQueueProofs ---------------------------
(***************************************************************************)
(* WaitQueueInv is inductive: every step of the machinery that the mutex   *)
(* and the semaphore share preserves it, for any set of threads and any    *)
(* number of nodes, provided usleep(500) outlasts a wake-up.  NodeInv is   *)
(* inductive without that proviso.  The proofs of Mutex and Semaphore rest *)
(* on the lemmas of this module.                                           *)
(***************************************************************************)
EXTENDS WaitQueue, TLAPS

\* The two ways through the test under the spinlock that leave the queue alone.
PassTest(t, from, to) ==
  Goto(t, from, to) /\ UNCHANGED <<slock, parkVars, sig>>

\* Every step a thread, or the kernel for it, takes in the machinery.
QueueStep(t) ==
  \/ Acquire(t) \/ Release(t) \/ DropSignal(t)
  \/ PassTest(t, "test", "granted") \/ PassTest(t, "decide", "dropped")
  \/ InsertSelf(t)
  \/ queue # <<>> /\ RemoveFirst(t)
  \/ WaitQueueStep(t)

\* The initial state satisfies the invariant.
LEMMA WaitQueueInitInv ==
  ASSUME WaitQueueInit
  PROVE  WaitQueueInv
PROOF
  BY WaitQueueAssumption
  DEF WaitQueueInit, WaitQueueInv, WaitQueueTypeOK, WaitQueueLabels, SectionInv,
      HandOverInv, OwnNode, QueuedWaits, QueuedOnce, PollsWaiter, PolledOnce,
      GrantedPolled, SleepsBeforeKill, SignalWatched, SignalSpent, InSection, Waiting, Handing, Granted, InQueue

\* A compare-and-swap leaves an int of {0, 1} in {0, 1}, and succeeds on a match.
LEMMA SwapType ==
  ASSUME NEW v \in {0, 1}, NEW old \in {0, 1}, NEW new \in {0, 1}
  PROVE  compare_and_swap(v, old, new) \in {0, 1}
PROOF
  BY DEF compare_and_swap

\* The type invariant, step by step.
LEMMA QueueStepType ==
  ASSUME WaitQueueTypeOK, NEW t \in Threads, QueueStep(t),
         Handing(t) => p[t] \in Nodes /\ pthread[p[t]] \in Threads,
         Waiting(t) => p[t] \in Nodes
  PROVE  WaitQueueTypeOK'
PROOF
  <1> USE DEF WaitQueueTypeOK, WaitQueueLabels, Goto, parkVars
  <1>1. CASE Acquire(t)
    BY <1>1 DEF Acquire
  <1>2. CASE Release(t)
    BY <1>2 DEF Release
  <1>3. CASE DropSignal(t)
    BY <1>3 DEF DropSignal
  <1>4. CASE PassTest(t, "test", "granted") \/ PassTest(t, "decide", "dropped")
    BY <1>4 DEF PassTest
  <1>5. CASE InsertSelf(t)
    BY <1>5 DEF InsertSelf
  <1>6. CASE queue # <<>> /\ RemoveFirst(t)
    BY <1>6 DEF RemoveFirst
  <1>7. CASE LockForAcquire(t) \/ LockForRelease(t)
    BY <1>7 DEF LockForAcquire, LockForRelease, TakeSlock, compare_and_swap
  <1>8. CASE UnlockGranted(t) \/ UnlockDropped(t) \/ UnlockQueued(t) \/ UnlockPopped(t)
    BY <1>8, SwapType DEF UnlockGranted, UnlockDropped, UnlockQueued, UnlockPopped, DropSlock
  <1>9. CASE Pause(t) \/ Wake(t)
    BY <1>9 DEF Pause, Wake
  <1>10. CASE RaiseFlag(t)
    BY <1>10 DEF RaiseFlag, Waiting
  <1>11. CASE Kill(t)
    BY <1>11 DEF Kill, Handing
  <1>12. CASE SeeFlagUp(t) \/ SeeFlagDown(t)
    BY <1>12 DEF SeeFlagUp, SeeFlagDown, Handing
  <1> QED
    BY <1>1, <1>2, <1>3, <1>4, <1>5, <1>6, <1>7, <1>8, <1>9, <1>10, <1>11, <1>12
    DEF QueueStep, WaitQueueStep

\* A step that leaves the queue alone leaves it the same nodes.
LEMMA SameQueue ==
  ASSUME UNCHANGED queue
  PROVE  \A n : InQueue(n)' <=> InQueue(n)
PROOF
  BY DEF InQueue

\* Who is in the internal spinlock, step by step.
LEMMA QueueStepSection ==
  ASSUME WaitQueueTypeOK, SectionInv, NEW t \in Threads, QueueStep(t)
  PROVE  SectionInv'
PROOF
  <1> USE DEF WaitQueueTypeOK, SectionInv, InSection, Goto
  <1>1. CASE Acquire(t) \/ Release(t) \/ DropSignal(t)
    BY <1>1 DEF Acquire, Release, DropSignal
  <1>2. CASE PassTest(t, "test", "granted") \/ PassTest(t, "decide", "dropped")
    BY <1>2 DEF PassTest
  <1>3. CASE InsertSelf(t) \/ RemoveFirst(t)
    BY <1>3 DEF InsertSelf, RemoveFirst
  <1>4. CASE LockForAcquire(t) \/ LockForRelease(t)
    BY <1>4 DEF LockForAcquire, LockForRelease, TakeSlock, compare_and_swap
  <1>5. CASE UnlockGranted(t) \/ UnlockDropped(t) \/ UnlockQueued(t) \/ UnlockPopped(t)
    BY <1>5 DEF UnlockGranted, UnlockDropped, UnlockQueued, UnlockPopped, DropSlock
  <1>6. CASE Pause(t) \/ Wake(t) \/ RaiseFlag(t)
    BY <1>6 DEF Pause, Wake, RaiseFlag
  <1>7. CASE Kill(t) \/ SeeFlagUp(t) \/ SeeFlagDown(t)
    BY <1>7 DEF Kill, SeeFlagUp, SeeFlagDown
  <1> QED
    BY <1>1, <1>2, <1>3, <1>4, <1>5, <1>6, <1>7 DEF QueueStep, WaitQueueStep

\* Steps that only move a program counter along, without sig, queue or nodes,
\* neither into nor out of Waiting and Handing, nor to or from "check" and "woken".
LEMMA QuietStep ==
  ASSUME WaitQueueTypeOK, HandOverInv, NEW t \in Threads, NEW to \in WaitQueueLabels,
         pc' = [pc EXCEPT ![t] = to], UNCHANGED <<parkVars, sig>>,
         Waiting(t) <=> to \in {"queued", "pausing", "paused", "woken"},
         Handing(t) <=> to \in {"popped", "kill", "check"},
         pc[t] # "check" /\ to # "check",
         pc[t] # "woken" /\ to # "woken"
  PROVE  HandOverInv' /\ \A w \in Threads : Granted(w)' <=> Granted(w)
PROOF
  <1> USE DEF WaitQueueTypeOK, parkVars, HandOverInv
  <1>1. \A n : InQueue(n)' <=> InQueue(n)
    BY SameQueue
  <1>2. \A u \in Threads : (Waiting(u)' <=> Waiting(u)) /\ (Handing(u)' <=> Handing(u))
    BY DEF Waiting, Handing
  <1>3. (OwnNode /\ QueuedWaits /\ QueuedOnce)'
    BY <1>1, <1>2 DEF OwnNode, QueuedWaits, QueuedOnce
  <1>4. (PollsWaiter /\ PolledOnce /\ GrantedPolled)'
    BY <1>1, <1>2 DEF PollsWaiter, PolledOnce, GrantedPolled, Granted
  <1>5. (SleepsBeforeKill /\ SignalWatched /\ SignalSpent)'
    BY <1>2 DEF SleepsBeforeKill, SignalWatched, SignalSpent, PollsWaiter, Handing
  <1> QED
    BY <1>1, <1>2, <1>3, <1>4, <1>5 DEF Granted

\* Appending a node that was not allocated keeps the invariant.
LEMMA InsertStep ==
  ASSUME WaitQueueTypeOK, HandOverInv, NEW t \in Threads, InsertSelf(t)
  PROVE  HandOverInv' /\ \A w \in Threads : Granted(w)' <=> Granted(w)
PROOF
  <1> USE DEF WaitQueueTypeOK, HandOverInv
  <1>1. PICK n \in Nodes :
          /\ pthread[n] = NoThread
          /\ pthread' = [pthread EXCEPT ![n] = t]
          /\ flags' = [flags EXCEPT ![n] = 0]
          /\ queue' = Append(queue, n)
          /\ p' = [p EXCEPT ![t] = n]
    BY DEF InsertSelf, Allocated
  <1>2. pc[t] = "test" /\ pc' = [pc EXCEPT ![t] = "queued"] /\ sig' = sig
    BY DEF InsertSelf, Goto
  <1>3. \A m \in Nodes : InQueue(m)' <=> InQueue(m) \/ m = n
    BY <1>1 DEF InQueue
  <1>4. ~InQueue(n)
    BY <1>1, WaitQueueAssumption DEF QueuedWaits
  <1>5. \A u \in Threads : u # t =>
          (Waiting(u)' <=> Waiting(u)) /\ (Handing(u)' <=> Handing(u)) /\ p'[u] = p[u]
    BY <1>1, <1>2 DEF Waiting, Handing
  <1>6. Waiting(t)' /\ ~Waiting(t) /\ ~Handing(t)' /\ ~Handing(t) /\ p'[t] = n
    BY <1>1, <1>2 DEF Waiting, Handing
  <1>7. \A u \in Threads : Waiting(u) \/ Handing(u) => p[u] # n
    BY <1>1, WaitQueueAssumption DEF OwnNode, PollsWaiter
  <1>8. OwnNode' /\ QueuedWaits'
    BY <1>1, <1>3, <1>5, <1>6, <1>7 DEF OwnNode, QueuedWaits
  <1>9. QueuedOnce'
    BY <1>1, <1>4 DEF QueuedOnce, InQueue
  <1>10. PollsWaiter'
    BY <1>1, <1>3, <1>5, <1>6, <1>7 DEF PollsWaiter
  <1>11. PolledOnce'
    BY <1>5, <1>6 DEF PolledOnce
  <1>12. \A w \in Threads : (Granted(w)' <=> Granted(w)) /\ (Granted(w) => w # t)
    BY <1>3, <1>5, <1>6, <1>7 DEF Granted, OwnNode
  <1>13. GrantedPolled'
    BY <1>5, <1>6, <1>12 DEF GrantedPolled
  <1>14. SleepsBeforeKill'
    BY <1>1, <1>2, <1>5, <1>6, <1>7 DEF SleepsBeforeKill, PollsWaiter, Handing
  <1>15. SignalWatched' /\ SignalSpent'
    BY <1>1, <1>2, <1>5, <1>6 DEF SignalWatched, SignalSpent
  <1> QED
    BY <1>8, <1>9, <1>10, <1>11, <1>12, <1>13, <1>14, <1>15

\* Taking the first node out keeps the invariant; its waiter, and only that
\* one, is granted the lock.
LEMMA RemoveStep ==
  ASSUME WaitQueueTypeOK, HandOverInv, NEW t \in Threads, queue # <<>>, RemoveFirst(t)
  PROVE  /\ HandOverInv'
         /\ \E w \in Threads :
              /\ w # t /\ Waiting(w) /\ ~Granted(w) /\ Granted(w)'
              /\ \A v \in Threads : v # w => (Granted(v)' <=> Granted(v))
PROOF
  <1> USE DEF WaitQueueTypeOK, HandOverInv
  <1>1. PICK n \in Nodes : n = Head(queue) /\ InQueue(n)
    BY DEF InQueue
  <1>2. /\ pc[t] = "decide" /\ pc' = [pc EXCEPT ![t] = "popped"]
        /\ p' = [p EXCEPT ![t] = n]
        /\ queue' = Tail(queue)
        /\ UNCHANGED <<pthread, flags, sig>>
    BY <1>1 DEF RemoveFirst, Goto
  <1>3. PICK w \in Threads : pthread[n] = w /\ Waiting(w) /\ p[w] = n /\ flags[n] = 0
    BY <1>1 DEF QueuedWaits, OwnNode
  <1>4. \A m \in Nodes : InQueue(m)' <=> InQueue(m) /\ m # n
    <2>1. /\ Len(queue') = Len(queue) - 1 /\ Len(queue) \in Nat \ {0} /\ queue[1] = n
          /\ \A i \in 1..Len(queue') : queue'[i] = queue[i + 1]
      BY <1>1, <1>2
    <2>2. ASSUME NEW m \in Nodes, NEW i \in 1..Len(queue'), queue'[i] = m
          PROVE  InQueue(m) /\ m # n
      <3>1. i + 1 \in 1..Len(queue) /\ 1 \in 1..Len(queue) /\ queue[i + 1] = m /\ i + 1 # 1
        BY <2>1, <2>2
      <3> QED
        BY <2>1, <3>1 DEF InQueue, QueuedOnce
    <2>3. ASSUME NEW m \in Nodes, m # n, NEW i \in 1..Len(queue), queue[i] = m
          PROVE  InQueue(m)'
      <3>1. i - 1 \in 1..Len(queue') /\ queue'[i - 1] = m
        BY <2>1, <2>3
      <3> QED
        BY <3>1 DEF InQueue
    <2> QED
      BY <2>2, <2>3 DEF InQueue
  <1>5. \A u \in Threads : u # t =>
          (Waiting(u)' <=> Waiting(u)) /\ (Handing(u)' <=> Handing(u)) /\ p'[u] = p[u]
    BY <1>2 DEF Waiting, Handing
  <1>6. ~Waiting(t)' /\ ~Waiting(t) /\ Handing(t)' /\ ~Handing(t) /\ p'[t] = n
    BY <1>2 DEF Waiting, Handing
  <1>7. \A u \in Threads : Handing(u) => p[u] # n
    BY <1>1 DEF PollsWaiter
  <1>8. ~sig[w] /\ pc[w] # "woken"
    BY <1>3, <1>7 DEF SignalWatched, Handing
  <1>9. OwnNode' /\ QueuedWaits'
    BY <1>2, <1>4, <1>5, <1>6 DEF OwnNode, QueuedWaits
  <1>10. QueuedOnce'
    BY <1>2 DEF QueuedOnce
  <1>11. PollsWaiter'
    BY <1>2, <1>3, <1>4, <1>5, <1>6 DEF PollsWaiter
  <1>12. PolledOnce'
    BY <1>5, <1>6, <1>7 DEF PolledOnce
  <1>13. /\ w # t /\ ~Granted(w) /\ Granted(w)'
         /\ \A v \in Threads : v # w => (Granted(v)' <=> Granted(v))
    BY <1>1, <1>3, <1>4, <1>5, <1>6 DEF Granted, OwnNode
  <1>14. GrantedPolled'
    BY <1>3, <1>5, <1>6, <1>13 DEF GrantedPolled, Granted
  <1>15. SleepsBeforeKill'
    BY <1>2, <1>3, <1>5, <1>6, <1>8 DEF SleepsBeforeKill, PollsWaiter, Handing
  <1>16. SignalWatched' /\ SignalSpent'
    BY <1>2, <1>5, <1>6 DEF SignalWatched, SignalSpent
  <1> QED
    BY <1>3, <1>9, <1>10, <1>11, <1>12, <1>13, <1>14, <1>15, <1>16

\* Steps of a waiter that wakes up, and of the kernel that drops a signal.
LEMMA WakeStep ==
  ASSUME WaitQueueTypeOK, HandOverInv, NEW t \in Threads, Wake(t) \/ DropSignal(t)
  PROVE  HandOverInv' /\ \A w \in Threads : Granted(w)' <=> Granted(w)
PROOF
  <1> USE DEF WaitQueueTypeOK, HandOverInv, Wake, DropSignal, parkVars
  <1>1. \A n : InQueue(n)' <=> InQueue(n)
    BY SameQueue
  <1>2. \A u \in Threads : (Waiting(u)' <=> Waiting(u)) /\ (Handing(u)' <=> Handing(u))
    BY DEF Waiting, Handing
  <1>3. OwnNode' /\ QueuedWaits' /\ QueuedOnce'
    BY <1>1, <1>2 DEF OwnNode, QueuedWaits, QueuedOnce
  <1>4. PollsWaiter' /\ PolledOnce' /\ GrantedPolled'
    BY <1>1, <1>2 DEF PollsWaiter, PolledOnce, GrantedPolled, Granted
  <1>5. SleepsBeforeKill'
    BY DEF SleepsBeforeKill, PollsWaiter, Handing
  <1>6. SignalWatched' /\ SignalSpent'
    BY <1>2 DEF SignalWatched, SignalSpent
  <1> QED
    BY <1>1, <1>2, <1>3, <1>4, <1>5, <1>6 DEF Granted

\* The waiter raises its flag and has the lock.
LEMMA RaiseStep ==
  ASSUME WaitQueueTypeOK, HandOverInv, NEW t \in Threads, RaiseFlag(t)
  PROVE  /\ HandOverInv' /\ Granted(t)
         /\ \A w \in Threads : Granted(w)' <=> Granted(w) /\ w # t
PROOF
  <1> USE DEF WaitQueueTypeOK, HandOverInv
  <1>1. /\ pc[t] = "woken" /\ pc' = [pc EXCEPT ![t] = "in"]
        /\ flags' = [flags EXCEPT ![p[t]] = 1]
        /\ p' = [p EXCEPT ![t] = NoNode]
        /\ UNCHANGED <<queue, pthread, sig>>
    BY DEF RaiseFlag, Goto
  <1>2. p[t] \in Nodes /\ pthread[p[t]] = t /\ Waiting(t) /\ ~Handing(t)
    BY <1>1 DEF OwnNode, Waiting, Handing
  <1>3. PICK r \in Threads : pc[r] = "check" /\ p[r] = p[t]
    BY <1>1 DEF SignalWatched
  <1>4. Granted(t)
    BY <1>2, <1>3 DEF Granted, PollsWaiter, Handing
  <1>5. \A n : InQueue(n)' <=> InQueue(n)
    BY <1>1, SameQueue
  <1>6. \A u \in Threads : u # t =>
          (Waiting(u)' <=> Waiting(u)) /\ (Handing(u)' <=> Handing(u)) /\ p'[u] = p[u]
    BY <1>1 DEF Waiting, Handing
  <1>7. ~Waiting(t)' /\ ~Handing(t)'
    BY <1>1 DEF Waiting, Handing
  <1>8. \A u \in Threads : u # t /\ Waiting(u) => p[u] # p[t]
    BY <1>2 DEF OwnNode
  <1>9. OwnNode'
    BY <1>1, <1>2, <1>6, <1>7, <1>8 DEF OwnNode
  <1>10. QueuedWaits' /\ QueuedOnce'
    BY <1>1, <1>2, <1>4, <1>5, <1>6 DEF QueuedWaits, QueuedOnce, Granted
  <1>11. PollsWaiter' /\ PolledOnce'
    BY <1>1, <1>2, <1>5, <1>6, <1>7 DEF PollsWaiter, PolledOnce
  <1>12. \A w \in Threads : Granted(w)' <=> Granted(w) /\ w # t
    BY <1>5, <1>6, <1>7 DEF Granted
  <1>13. GrantedPolled'
    BY <1>2, <1>6, <1>12 DEF GrantedPolled
  <1>14. SleepsBeforeKill'
    <2>1. ASSUME NEW u \in Threads, pc'[u] \in {"popped", "kill"}
          PROVE  /\ u # t /\ Handing(u) /\ p'[u] = p[u] /\ p[u] # p[t]
                 /\ p[u] \in Nodes /\ pthread[p[u]] \in Threads
      BY <1>1, <1>2, <1>3, <2>1 DEF PolledOnce, PollsWaiter, Handing
    <2> QED
      BY <1>1, <1>2, <2>1 DEF SleepsBeforeKill
  <1>15. SignalWatched' /\ SignalSpent'
    BY <1>1, <1>2, <1>6 DEF SignalWatched, SignalSpent
  <1> QED
    BY <1>4, <1>9, <1>10, <1>11, <1>12, <1>13, <1>14, <1>15

\* The releaser sends its signal.
LEMMA KillStep ==
  ASSUME WaitQueueTypeOK, HandOverInv, NEW t \in Threads, Kill(t)
  PROVE  HandOverInv' /\ \A w \in Threads : Granted(w)' <=> Granted(w)
PROOF
  <1> USE DEF WaitQueueTypeOK, HandOverInv
  <1>1. PICK w \in Threads : w = pthread[p[t]]
    BY DEF Kill, Goto, PollsWaiter, Handing
  <1>2. /\ pc[t] = "kill" /\ pc' = [pc EXCEPT ![t] = "check"]
        /\ sig' = [sig EXCEPT ![w] = TRUE]
        /\ UNCHANGED <<queue, pthread, flags, p>>
    BY <1>1 DEF Kill, Goto, parkVars
  <1>3. p[t] \in Nodes /\ Waiting(w) /\ p[w] = p[t] /\ pc[w] # "woken" /\ w # t
    BY <1>1, <1>2 DEF PollsWaiter, SleepsBeforeKill, Handing, Waiting
  <1>4. \A n : InQueue(n)' <=> InQueue(n)
    BY <1>2, SameQueue
  <1>5. \A u \in Threads : (Waiting(u)' <=> Waiting(u)) /\ (Handing(u)' <=> Handing(u))
    BY <1>2 DEF Waiting, Handing
  <1>6. OwnNode' /\ QueuedWaits' /\ QueuedOnce'
    BY <1>2, <1>4, <1>5 DEF OwnNode, QueuedWaits, QueuedOnce
  <1>7. PollsWaiter' /\ PolledOnce' /\ GrantedPolled'
    BY <1>2, <1>4, <1>5 DEF PollsWaiter, PolledOnce, GrantedPolled, Granted
  <1>8. SleepsBeforeKill'
    <2>1. ASSUME NEW u \in Threads, pc'[u] \in {"popped", "kill"}
          PROVE  u # t /\ Handing(u) /\ Handing(t) /\ pthread[p[u]] \in Threads
      BY <1>2, <2>1 DEF PollsWaiter, Handing
    <2>2. ASSUME NEW u \in Threads, pc'[u] \in {"popped", "kill"}
          PROVE  pthread[p[u]] # w
      BY <1>2, <1>3, <2>1, <2>2 DEF PolledOnce, PollsWaiter, SleepsBeforeKill
    <2> QED
      BY <1>2, <2>1, <2>2 DEF SleepsBeforeKill
  <1>9. SignalWatched' /\ SignalSpent'
    BY <1>2, <1>3, <1>5 DEF SignalWatched, SignalSpent
  <1> QED
    BY <1>4, <1>5, <1>2, <1>6, <1>7, <1>8, <1>9 DEF Granted

\* The releaser sees the flag: up, and it frees the node; or down, and, the
\* signal having settled, the waiter sleeps on.
LEMMA CheckStep ==
  ASSUME WaitQueueTypeOK, HandOverInv, PromptWakeup, NEW t \in Threads,
         SeeFlagUp(t) \/ SeeFlagDown(t)
  PROVE  HandOverInv' /\ \A w \in Threads : Granted(w)' <=> Granted(w)
PROOF
  <1> USE DEF WaitQueueTypeOK, HandOverInv
  <1>1. pc[t] = "check" /\ Handing(t) /\ ~Waiting(t) /\ p[t] \in Nodes
    BY DEF SeeFlagUp, SeeFlagDown, Goto, Handing, Waiting, PollsWaiter
  <1>2. CASE SeeFlagUp(t)
    <2>1. /\ flags[p[t]] = 1
          /\ pc' = [pc EXCEPT ![t] = "out"]
          /\ pthread' = [pthread EXCEPT ![p[t]] = NoThread]
          /\ p' = [p EXCEPT ![t] = NoNode]
          /\ UNCHANGED <<queue, flags, sig>>
      BY <1>2 DEF SeeFlagUp, Goto
    <2>2. \A n : InQueue(n)' <=> InQueue(n)
      BY <2>1, SameQueue
    <2>3. \A u \in Threads : u # t =>
            (Waiting(u)' <=> Waiting(u)) /\ (Handing(u)' <=> Handing(u)) /\ p'[u] = p[u]
      BY <2>1 DEF Waiting, Handing
    <2>4. ~Waiting(t)' /\ ~Handing(t)'
      BY <2>1 DEF Waiting, Handing
    <2>5. /\ \A u \in Threads : Waiting(u) => p[u] # p[t]
          /\ \A u \in Threads : u # t /\ Handing(u) => p[u] # p[t]
          /\ ~InQueue(p[t])
      BY <1>1, <2>1 DEF OwnNode, PolledOnce, PollsWaiter
    <2>6. OwnNode' /\ QueuedWaits' /\ QueuedOnce'
      BY <1>1, <2>1, <2>2, <2>3, <2>4, <2>5 DEF OwnNode, QueuedWaits, QueuedOnce
    <2>7. PollsWaiter' /\ PolledOnce'
      BY <1>1, <2>1, <2>2, <2>3, <2>4, <2>5 DEF PollsWaiter, PolledOnce
    <2>8. \A w \in Threads : (Granted(w)' <=> Granted(w)) /\ (Granted(w) => w # t)
      BY <1>1, <2>2, <2>3, <2>4 DEF Granted
    <2>9. GrantedPolled'
      BY <1>1, <2>3, <2>5, <2>8 DEF GrantedPolled, Granted
    <2>10. SleepsBeforeKill'
      BY <1>1, <2>1, <2>3, <2>5 DEF SleepsBeforeKill, PollsWaiter, Handing
    <2>11. SignalWatched' /\ SignalSpent'
      BY <1>1, <2>1, <2>3, <2>4, <2>5 DEF SignalWatched, SignalSpent
    <2> QED
      BY <2>6, <2>7, <2>8, <2>9, <2>10, <2>11
  <1>3. CASE SeeFlagDown(t)
    <2>1. /\ flags[p[t]] = 0 /\ Settled(pthread[p[t]])
          /\ pc' = [pc EXCEPT ![t] = "kill"]
          /\ UNCHANGED <<queue, pthread, flags, p, sig>>
      BY <1>1, <1>3 DEF SeeFlagDown, Goto, parkVars
    <2>2. \A n : InQueue(n)' <=> InQueue(n)
      BY <2>1, SameQueue
    <2>3. \A u \in Threads : (Waiting(u)' <=> Waiting(u)) /\ (Handing(u)' <=> Handing(u))
      BY <1>1, <2>1 DEF Waiting, Handing
    <2>4. OwnNode' /\ QueuedWaits' /\ QueuedOnce'
      BY <2>1, <2>2, <2>3 DEF OwnNode, QueuedWaits, QueuedOnce
    <2>5. PollsWaiter' /\ PolledOnce' /\ GrantedPolled'
      BY <2>1, <2>2, <2>3 DEF PollsWaiter, PolledOnce, GrantedPolled, Granted
    <2>6. SleepsBeforeKill'
      BY <1>1, <2>1 DEF SleepsBeforeKill, PollsWaiter, Settled, Handing
    <2>7. SignalWatched' /\ SignalSpent'
      <3>1. \A w \in Threads : Waiting(w) /\ p[w] = p[t] => ~sig[w] /\ pc[w] # "woken"
        BY <2>1 DEF OwnNode, Settled
      <3> QED
        BY <1>1, <2>1, <2>3, <3>1 DEF SignalWatched, SignalSpent
    <2> QED
      BY <2>1, <2>2, <2>3, <2>4, <2>5, <2>6, <2>7 DEF Granted
  <1> QED
    BY <1>2, <1>3

\* The quiet steps, by name.
LEMMA QuietSteps ==
  ASSUME WaitQueueTypeOK, HandOverInv, NEW t \in Threads,
         \/ Acquire(t) \/ Release(t)
         \/ PassTest(t, "test", "granted") \/ PassTest(t, "decide", "dropped")
         \/ LockForAcquire(t) \/ LockForRelease(t)
         \/ UnlockGranted(t) \/ UnlockDropped(t) \/ UnlockQueued(t) \/ UnlockPopped(t)
         \/ Pause(t)
  PROVE  HandOverInv' /\ \A w \in Threads : Granted(w)' <=> Granted(w)
PROOF
  <1>1. PICK from \in WaitQueueLabels, to \in WaitQueueLabels :
          /\ <<from, to>> \in
               {<<"out", "acquire">>, <<"in", "release">>, <<"test", "granted">>,
                <<"decide", "dropped">>, <<"acquire", "test">>, <<"release", "decide">>,
                <<"granted", "in">>, <<"dropped", "out">>, <<"queued", "pausing">>,
                <<"popped", "kill">>, <<"pausing", "paused">>}
          /\ pc[t] = from /\ pc' = [pc EXCEPT ![t] = to]
          /\ UNCHANGED <<parkVars, sig>>
    BY DEF Acquire, Release, PassTest, LockForAcquire, LockForRelease, UnlockGranted,
           UnlockDropped, UnlockQueued, UnlockPopped, Pause, TakeSlock, DropSlock, Goto,
           WaitQueueLabels, parkVars
  <1>2. /\ Waiting(t) <=> to \in {"queued", "pausing", "paused", "woken"}
        /\ Handing(t) <=> to \in {"popped", "kill", "check"}
        /\ pc[t] \notin {"check", "woken"} /\ to \notin {"check", "woken"}
    BY <1>1 DEF Waiting, Handing
  <1> QED
    BY <1>1, <1>2, QuietStep

\* The invariant is inductive.
LEMMA QueueStepInv ==
  ASSUME WaitQueueInv, PromptWakeup, NEW t \in Threads, QueueStep(t)
  PROVE  WaitQueueInv'
PROOF
  <1> USE DEF WaitQueueInv
  <1>1. WaitQueueTypeOK'
    BY QueueStepType DEF HandOverInv, OwnNode, PollsWaiter
  <1>2. SectionInv'
    BY QueueStepSection
  <1>3. HandOverInv'
    BY QuietSteps, InsertStep, RemoveStep, WakeStep, RaiseStep, KillStep, CheckStep
    DEF QueueStep, WaitQueueStep
  <1> QED
    BY <1>1, <1>2, <1>3

\* Who has the lock: every step but the tests under the spinlock that grant or
\* drop it, and the removal of a node, leaves the lock with who has it.
LEMMA LockKept ==
  ASSUME WaitQueueInv, PromptWakeup, NEW t \in Threads,
         Acquire(t) \/ Release(t) \/ DropSignal(t) \/ InsertSelf(t) \/ WaitQueueStep(t)
  PROVE  \A u \in Threads : HasLock(u)' <=> HasLock(u)
PROOF
  <1> USE DEF WaitQueueInv, WaitQueueTypeOK, HasLock
  <1>1. CASE RaiseFlag(t)
    BY <1>1, RaiseStep DEF RaiseFlag, Goto
  <1>2. CASE ~RaiseFlag(t)
    <2>1. \A w \in Threads : Granted(w)' <=> Granted(w)
      BY <1>2, QuietSteps, InsertStep, WakeStep, KillStep, CheckStep DEF WaitQueueStep
    <2> DEFINE Owns(u) == pc[u] \in {"granted", "in", "release", "decide"}
    <2>2. \A u \in Threads : u # t => (Owns(u)' <=> Owns(u))
      BY <1>2 DEF Acquire, Release, DropSignal, InsertSelf, WaitQueueStep, LockForAcquire,
        LockForRelease, UnlockGranted, UnlockDropped, UnlockQueued, UnlockPopped, Pause,
        Wake, Kill, SeeFlagUp, SeeFlagDown, TakeSlock, DropSlock, Goto
    <2>3. Owns(t)' <=> Owns(t)
      BY <1>2 DEF Acquire, Release, DropSignal, InsertSelf, WaitQueueStep, LockForAcquire,
        LockForRelease, UnlockGranted, UnlockDropped, UnlockQueued, UnlockPopped, Pause,
        Wake, Kill, SeeFlagUp, SeeFlagDown, TakeSlock, DropSlock, Goto
    <2> QED
      BY <2>1, <2>2, <2>3
  <1> QED
    BY <1>1, <1>2

\* Removing the first node passes the lock from the releaser to one waiter.
LEMMA LockPassed ==
  ASSUME WaitQueueInv, NEW t \in Threads, queue # <<>>, RemoveFirst(t)
  PROVE  /\ HasLock(t) /\ ~HasLock(t)'
         /\ \E w \in Threads :
              /\ w # t /\ ~HasLock(w) /\ HasLock(w)'
              /\ \A u \in Threads : u # t /\ u # w => (HasLock(u)' <=> HasLock(u))
PROOF
  <1> USE DEF WaitQueueInv, WaitQueueTypeOK, HasLock
  <1>1. pc[t] = "decide" /\ pc' = [pc EXCEPT ![t] = "popped"]
    BY DEF RemoveFirst, Goto
  <1>2. ~Granted(t)'
    BY <1>1 DEF Granted, Waiting
  <1>3. PICK w \in Threads :
          /\ w # t /\ Waiting(w) /\ ~Granted(w) /\ Granted(w)'
          /\ \A v \in Threads : v # w => (Granted(v)' <=> Granted(v))
    BY RemoveStep
  <1> QED
    BY <1>1, <1>2, <1>3 DEF Waiting

\* The invariant covers the safety of the signals.
LEMMA WaitQueueInvSignals ==
  ASSUME WaitQueueInv
  PROVE  NoStraySignal
PROOF
  BY DEF WaitQueueInv, WaitQueueTypeOK, HandOverInv, NoStraySignal, SleepsBeforeKill,
    SignalWatched, PollsWaiter, Handing

-----------------------------------------------------------------------------
(* The line of waiters, for the refinement of the two locks.               *)

\* All waiters in the line wait, and have no lock.
LEMMA LineWaits ==
  ASSUME WaitQueueInv
  PROVE  /\ Line \in Seq(Threads) /\ Len(Line) = Len(queue)
         /\ \A i \in 1..Len(queue) : queue[i] \in Nodes /\ InQueue(queue[i])
         /\ \A i \in 1..Len(Line) :
              Line[i] = pthread[queue[i]] /\ Waiting(Line[i]) /\ ~Granted(Line[i])
PROOF
  <1> USE DEF WaitQueueInv, WaitQueueTypeOK, HandOverInv
  <1>1. Len(queue) \in Nat
    OBVIOUS
  <1>2. \A i \in 1..Len(queue) : queue[i] \in Nodes /\ InQueue(queue[i])
    BY DEF InQueue
  <1>3. \A i \in 1..Len(queue) :
          LET w == pthread[queue[i]] IN w \in Threads /\ Waiting(w) /\ ~Granted(w)
    BY <1>2 DEF QueuedWaits, Granted
  <1>4. Line \in [1..Len(queue) -> Threads]
    BY <1>3 DEF Line
  <1> QED
    BY <1>1, <1>2, <1>3, <1>4 DEF Line

\* Who waits, and in which order, changes with a node in or out of the queue only.
LEMMA LineKept ==
  ASSUME WaitQueueInv, NEW t \in Threads, QueueStep(t), UNCHANGED queue
  PROVE  Line' = Line
PROOF
  <1> USE DEF WaitQueueInv, WaitQueueTypeOK, HandOverInv
  <1>1. \A n \in Nodes : InQueue(n) => pthread'[n] = pthread[n]
    <2>1. CASE SeeFlagUp(t)
      BY <2>1 DEF SeeFlagUp, Goto, PollsWaiter, Handing
    <2>2. CASE ~SeeFlagUp(t)
      <3>1. ~InsertSelf(t)
        BY DEF InsertSelf
      <3> QED
        BY <2>2, <3>1 DEF QueueStep, WaitQueueStep, Acquire, Release, DropSignal, PassTest,
          RemoveFirst, LockForAcquire, LockForRelease, UnlockGranted, UnlockDropped,
          UnlockQueued, UnlockPopped, Pause, Wake, RaiseFlag, Kill, SeeFlagDown,
          TakeSlock, DropSlock, parkVars
    <2> QED
      BY <2>1, <2>2
  <1>2. \A i \in 1..Len(queue) : queue[i] \in Nodes /\ InQueue(queue[i])
    BY LineWaits
  <1> QED
    BY <1>1, <1>2 DEF Line

\* An arriving thread, neither in the line nor with the lock, joins its end.
LEMMA LineGrows ==
  ASSUME WaitQueueInv, NEW t \in Threads, InsertSelf(t)
  PROVE  /\ Line' = Append(Line, t)
         /\ ~HasLock(t) /\ \A i \in 1..Len(Line) : Line[i] # t
PROOF
  <1> USE DEF WaitQueueInv, WaitQueueTypeOK, HandOverInv
  <1>1. PICK n \in Nodes :
          /\ pthread[n] = NoThread
          /\ pthread' = [pthread EXCEPT ![n] = t]
          /\ queue' = Append(queue, n)
    BY DEF InsertSelf, Allocated
  <1>2. pc[t] = "test"
    BY DEF InsertSelf, Goto
  <1>3. ~Waiting(t) /\ ~HasLock(t)
    BY <1>2 DEF Waiting, HasLock, Granted
  <1>4. \A i \in 1..Len(queue) : queue[i] \in Nodes /\ queue[i] # n
    BY <1>1, LineWaits, WaitQueueAssumption DEF QueuedWaits
  <1>5. Len(queue) \in Nat /\ Len(queue') = Len(queue) + 1
    BY <1>1
  <1>6. \A i \in 1..Len(queue') :
          pthread'[queue'[i]] = IF i = Len(queue) + 1 THEN t ELSE pthread[queue[i]]
    BY <1>1, <1>4, <1>5
  <1>7. Line' = [i \in 1..(Len(queue) + 1) |->
                  IF i = Len(queue) + 1 THEN t ELSE pthread[queue[i]]]
    BY <1>5, <1>6 DEF Line
  <1>8. Append(Line, t) = [i \in 1..(Len(queue) + 1) |->
                  IF i = Len(queue) + 1 THEN t ELSE pthread[queue[i]]]
    BY <1>5, LineWaits DEF Line
  <1> QED
    BY <1>3, <1>7, <1>8, LineWaits

\* A release gives the lock to the head of the line, which moves up.
LEMMA LinePasses ==
  ASSUME WaitQueueInv, WaitQueueInv', NEW t \in Threads, queue # <<>>, RemoveFirst(t)
  PROVE  /\ Line # <<>> /\ Line' = Tail(Line)
         /\ HasLock(t) /\ ~HasLock(t)'
         /\ \E h \in Threads :
              /\ h = Head(Line) /\ h # t /\ HasLock(h)'
              /\ \A u \in Threads : u # t /\ u # h => (HasLock(u)' <=> HasLock(u))
PROOF
  <1> USE DEF WaitQueueInv, WaitQueueTypeOK, HandOverInv
  <1>1. /\ p' = [p EXCEPT ![t] = Head(queue)] /\ queue' = Tail(queue)
        /\ pc[t] = "decide" /\ pc' = [pc EXCEPT ![t] = "popped"] /\ pthread' = pthread
    BY DEF RemoveFirst, Goto
  <1>2. PICK n \in Nodes :
          /\ Len(queue) \in Nat \ {0} /\ Head(queue) = n /\ queue[1] = n
          /\ Len(queue') = Len(queue) - 1
          /\ \A i \in 1..Len(queue') : queue'[i] = queue[i + 1]
    BY <1>1
  <1>3. PICK h \in Threads :
          /\ Line # <<>> /\ Head(Line) = h /\ Waiting(h) /\ ~Granted(h) /\ p[h] = n
    BY <1>2, LineWaits DEF QueuedWaits
  <1>4. Line' = Tail(Line)
    <2>1. Line' = [i \in 1..(Len(queue) - 1) |-> pthread[queue[i + 1]]]
      BY <1>1, <1>2 DEF Line
    <2>2. Tail(Line) = [i \in 1..(Len(queue) - 1) |-> pthread[queue[i + 1]]]
      BY <1>2, LineWaits DEF Line
    <2> QED
      BY <2>1, <2>2
  <1>5. h # t /\ Waiting(h)' /\ p'[h] = n
    BY <1>1, <1>3 DEF Waiting
  <1>6. ~InQueue(n)'
    <2>1. Handing(t)' /\ p'[t] = n
      BY <1>1, <1>2 DEF Handing
    <2> QED
      BY <2>1 DEF PollsWaiter
  <1>7. HasLock(h)' /\ ~HasLock(h)
    BY <1>3, <1>5, <1>6 DEF HasLock, Granted, Waiting
  <1>8. PICK w \in Threads :
          /\ w # t /\ HasLock(t) /\ ~HasLock(t)'
          /\ \A u \in Threads : u # t /\ u # w => (HasLock(u)' <=> HasLock(u))
    BY LockPassed
  <1>9. h = w
    BY <1>5, <1>7, <1>8
  <1> QED
    BY <1>3, <1>4, <1>5, <1>7, <1>8, <1>9

-----------------------------------------------------------------------------
(* Whatever the timing: the memory of the nodes.                           *)

\* The initial state has no node.
LEMMA NodeInitInv ==
  ASSUME WaitQueueInit
  PROVE  NodeInv
PROOF
  BY WaitQueueAssumption
  DEF WaitQueueInit, NodeInv, WaitQueueTypeOK, WaitQueueLabels, OwnNode, QueuedAllocated,
      QueuedOnce, PolledAllocated, PolledOnce, Waiting, Handing, InQueue

\* A step that touches no node and keeps who waits and who polls.
LEMMA NodesUntouched ==
  ASSUME NodeInv, UNCHANGED parkVars,
         \A u \in Threads : (Waiting(u)' <=> Waiting(u)) /\ (Handing(u)' <=> Handing(u))
  PROVE  (OwnNode /\ QueuedAllocated /\ QueuedOnce /\ PolledAllocated /\ PolledOnce)'
PROOF
  <1>1. \A n : InQueue(n)' <=> InQueue(n)
    BY SameQueue DEF parkVars
  <1> QED
    BY <1>1 DEF NodeInv, parkVars, OwnNode, QueuedAllocated, QueuedOnce, PolledAllocated, PolledOnce

\* Only four steps touch nodes; the others keep who waits and who polls.
LEMMA UntouchedSteps ==
  ASSUME NodeInv, NEW t \in Threads, QueueStep(t),
         ~InsertSelf(t), ~RemoveFirst(t), ~RaiseFlag(t), ~SeeFlagUp(t)
  PROVE  /\ UNCHANGED parkVars
         /\ \A u \in Threads : (Waiting(u)' <=> Waiting(u)) /\ (Handing(u)' <=> Handing(u))
PROOF
  <1>1. PICK from \in WaitQueueLabels, to \in WaitQueueLabels :
          /\ pc[t] = from /\ pc' = [pc EXCEPT ![t] = to]
          /\ UNCHANGED parkVars
          /\ from = to \/ <<from, to>> \in
               {<<"out", "acquire">>, <<"in", "release">>, <<"test", "granted">>,
                <<"decide", "dropped">>, <<"acquire", "test">>, <<"release", "decide">>,
                <<"granted", "in">>, <<"dropped", "out">>, <<"queued", "pausing">>,
                <<"popped", "kill">>, <<"pausing", "paused">>, <<"paused", "woken">>,
                <<"kill", "check">>, <<"check", "kill">>}
    <2>1. CASE DropSignal(t)
      BY <2>1 DEF DropSignal, NodeInv, WaitQueueTypeOK
    <2>2. CASE ~DropSignal(t)
      BY <2>2 DEF QueueStep, WaitQueueStep, Acquire, Release, PassTest, LockForAcquire,
         LockForRelease, UnlockGranted, UnlockDropped, UnlockQueued, UnlockPopped, Pause,
         Wake, Kill, SeeFlagDown, TakeSlock, DropSlock, Goto, WaitQueueLabels, parkVars
    <2> QED
      BY <2>1, <2>2
  <1> QED
    BY <1>1 DEF NodeInv, WaitQueueTypeOK, Waiting, Handing

\* A fresh node joins the queue.
LEMMA InsertKeepsNodes ==
  ASSUME WaitQueueTypeOK, NodeInv, NEW t \in Threads, InsertSelf(t)
  PROVE  (OwnNode /\ QueuedAllocated /\ QueuedOnce /\ PolledAllocated /\ PolledOnce)'
PROOF
  <1> USE DEF NodeInv, WaitQueueTypeOK
  <1>1. PICK n \in Nodes :
          /\ pthread[n] = NoThread
          /\ pthread' = [pthread EXCEPT ![n] = t]
          /\ flags' = [flags EXCEPT ![n] = 0]
          /\ queue' = Append(queue, n)
          /\ p' = [p EXCEPT ![t] = n]
    BY DEF InsertSelf, Allocated
  <1>2. pc[t] = "test" /\ pc' = [pc EXCEPT ![t] = "queued"]
    BY DEF InsertSelf, Goto
  <1>3. \A m \in Nodes : InQueue(m)' <=> InQueue(m) \/ m = n
    BY <1>1 DEF InQueue
  <1>4. ~InQueue(n)
    BY <1>1, WaitQueueAssumption DEF QueuedAllocated
  <1>5. \A u \in Threads : u # t =>
          (Waiting(u)' <=> Waiting(u)) /\ (Handing(u)' <=> Handing(u)) /\ p'[u] = p[u]
    BY <1>1, <1>2 DEF Waiting, Handing
  <1>6. Waiting(t)' /\ ~Handing(t)' /\ p'[t] = n
    BY <1>1, <1>2 DEF Waiting, Handing
  <1>7. \A u \in Threads : Waiting(u) \/ Handing(u) => p[u] # n
    BY <1>1, WaitQueueAssumption DEF OwnNode, PolledAllocated
  <1>8. OwnNode' /\ QueuedAllocated'
    BY <1>1, <1>3, <1>5, <1>6, <1>7 DEF OwnNode, QueuedAllocated
  <1>9. QueuedOnce'
    BY <1>1, <1>4 DEF QueuedOnce, InQueue
  <1>10. PolledAllocated' /\ PolledOnce'
    BY <1>1, <1>3, <1>5, <1>6, <1>7 DEF PolledAllocated, PolledOnce
  <1> QED
    BY <1>8, <1>9, <1>10

\* The first node goes from the queue to one releaser.
LEMMA RemoveKeepsNodes ==
  ASSUME WaitQueueTypeOK, NodeInv, NEW t \in Threads, queue # <<>>, RemoveFirst(t)
  PROVE  (OwnNode /\ QueuedAllocated /\ QueuedOnce /\ PolledAllocated /\ PolledOnce)'
PROOF
  <1> USE DEF NodeInv, WaitQueueTypeOK
  <1>1. PICK n \in Nodes : n = Head(queue) /\ InQueue(n)
    BY DEF InQueue
  <1>2. /\ pc[t] = "decide" /\ pc' = [pc EXCEPT ![t] = "popped"]
        /\ p' = [p EXCEPT ![t] = n]
        /\ queue' = Tail(queue)
        /\ UNCHANGED <<pthread, flags>>
    BY <1>1 DEF RemoveFirst, Goto
  <1>3. \A i \in 1..Len(queue') : i + 1 \in 1..Len(queue) /\ queue'[i] = queue[i + 1]
    BY <1>2
  <1>4. \A m \in Nodes : InQueue(m)' => InQueue(m) /\ m # n
    <2>1. ASSUME NEW m \in Nodes, NEW i \in 1..Len(queue'), queue'[i] = m
          PROVE  InQueue(m) /\ m # n
      <3>1. i + 1 \in 1..Len(queue) /\ 1 \in 1..Len(queue) /\ queue[i + 1] = m /\ i + 1 # 1
            /\ queue[1] = n
        BY <1>1, <1>3, <2>1
      <3> QED
        BY <3>1 DEF InQueue, QueuedOnce
    <2> QED
      BY <2>1 DEF InQueue
  <1>5. \A u \in Threads : u # t =>
          (Waiting(u)' <=> Waiting(u)) /\ (Handing(u)' <=> Handing(u)) /\ p'[u] = p[u]
    BY <1>2 DEF Waiting, Handing
  <1>6. ~Waiting(t)' /\ p'[t] = n
    BY <1>2 DEF Waiting
  <1>7. \A u \in Threads : Handing(u) => p[u] # n
    BY <1>1 DEF PolledAllocated
  <1>8. OwnNode' /\ QueuedAllocated'
    BY <1>2, <1>4, <1>5, <1>6 DEF OwnNode, QueuedAllocated
  <1>9. QueuedOnce'
    BY <1>2 DEF QueuedOnce
  <1>10. PolledAllocated' /\ PolledOnce'
    BY <1>1, <1>2, <1>4, <1>5, <1>6, <1>7 DEF PolledAllocated, PolledOnce, QueuedAllocated
  <1> QED
    BY <1>8, <1>9, <1>10

\* A waiter, meant or not, raises the flag of a node nobody has freed.
LEMMA RaiseKeepsNodes ==
  ASSUME NodeInv, NEW t \in Threads, RaiseFlag(t)
  PROVE  (OwnNode /\ QueuedAllocated /\ QueuedOnce /\ PolledAllocated /\ PolledOnce)'
PROOF
  <1> USE DEF NodeInv, WaitQueueTypeOK
  <1>1. /\ pc[t] = "woken" /\ pc' = [pc EXCEPT ![t] = "in"]
        /\ flags' = [flags EXCEPT ![p[t]] = 1]
        /\ p' = [p EXCEPT ![t] = NoNode]
        /\ UNCHANGED <<queue, pthread>>
    BY DEF RaiseFlag, Goto
  <1>2. \A n : InQueue(n)' <=> InQueue(n)
    BY <1>1, SameQueue
  <1>3. \A u \in Threads : u # t =>
          (Waiting(u)' <=> Waiting(u)) /\ (Handing(u)' <=> Handing(u)) /\ p'[u] = p[u]
    BY <1>1 DEF Waiting, Handing
  <1>4. Waiting(t) /\ ~Waiting(t)' /\ ~Handing(t)'
    BY <1>1 DEF Waiting, Handing
  <1>5. \A u \in Threads : u # t /\ Waiting(u) => p[u] # p[t]
    BY <1>4 DEF OwnNode
  <1> QED
    BY <1>1, <1>2, <1>3, <1>4, <1>5
    DEF OwnNode, QueuedAllocated, QueuedOnce, PolledAllocated, PolledOnce

\* The releaser frees a node that is neither queued, polled by another nor
\* waited with: a waiter's flag is down.
LEMMA FreeKeepsNodes ==
  ASSUME NodeInv, NEW t \in Threads, SeeFlagUp(t)
  PROVE  (OwnNode /\ QueuedAllocated /\ QueuedOnce /\ PolledAllocated /\ PolledOnce)'
PROOF
  <1> USE DEF NodeInv, WaitQueueTypeOK
  <1>1. /\ pc[t] = "check" /\ flags[p[t]] = 1
        /\ pc' = [pc EXCEPT ![t] = "out"]
        /\ pthread' = [pthread EXCEPT ![p[t]] = NoThread]
        /\ p' = [p EXCEPT ![t] = NoNode]
        /\ UNCHANGED <<queue, flags>>
    BY DEF SeeFlagUp, Goto
  <1>2. \A n : InQueue(n)' <=> InQueue(n)
    BY <1>1, SameQueue
  <1>3. \A u \in Threads : u # t =>
          (Waiting(u)' <=> Waiting(u)) /\ (Handing(u)' <=> Handing(u)) /\ p'[u] = p[u]
    BY <1>1 DEF Waiting, Handing
  <1>4. Handing(t) /\ ~Waiting(t)' /\ ~Handing(t)'
    BY <1>1 DEF Waiting, Handing
  <1>5. /\ \A u \in Threads : Waiting(u) => p[u] # p[t]
        /\ \A u \in Threads : u # t /\ Handing(u) => p[u] # p[t]
        /\ p[t] \in Nodes /\ ~InQueue(p[t])
    BY <1>1, <1>4 DEF OwnNode, PolledOnce, PolledAllocated
  <1> QED
    BY <1>1, <1>2, <1>3, <1>4, <1>5
    DEF OwnNode, QueuedAllocated, QueuedOnce, PolledAllocated, PolledOnce

\* NodeInv is inductive.
LEMMA QueueStepNodes ==
  ASSUME NodeInv, NEW t \in Threads, QueueStep(t)
  PROVE  NodeInv'
PROOF
  <1>1. WaitQueueTypeOK'
    BY QueueStepType DEF NodeInv, OwnNode, PolledAllocated
  <1>2. (OwnNode /\ QueuedAllocated /\ QueuedOnce /\ PolledAllocated /\ PolledOnce)'
    <2>1. CASE RemoveFirst(t)
      <3>1. queue # <<>>
        BY <2>1 DEF QueueStep, RemoveFirst, WaitQueueStep, Goto, Acquire, Release, DropSignal,
          PassTest, InsertSelf, LockForAcquire, LockForRelease, UnlockGranted, UnlockDropped,
          UnlockQueued, UnlockPopped, Pause, Wake, RaiseFlag, Kill, SeeFlagUp, SeeFlagDown,
          TakeSlock, DropSlock, NodeInv, WaitQueueTypeOK
      <3> QED
        BY <2>1, <3>1, RemoveKeepsNodes DEF NodeInv
    <2>2. CASE ~RemoveFirst(t)
      BY <2>2, InsertKeepsNodes, RaiseKeepsNodes, FreeKeepsNodes, UntouchedSteps, NodesUntouched
      DEF NodeInv
    <2> QED
      BY <2>1, <2>2
  <1> QED
    BY <1>1, <1>2 DEF NodeInv

\* NodeInv is what NodeSafety asks for.
LEMMA NodeInvSafe ==
  ASSUME NodeInv
  PROVE  NodeSafety
PROOF
  <1>1. \A i \in 1..Len(queue) : queue[i] \in Nodes /\ InQueue(queue[i])
    BY DEF InQueue, NodeInv, WaitQueueTypeOK
  <1> QED
    BY <1>1, WaitQueueAssumption
    DEF NodeInv, NodeSafety, OwnNode, QueuedAllocated, QueuedOnce, PolledAllocated, PolledOnce, Allocated

\* Nothing in NodeInv reads slock, sig or the extending module's variable.
LEMMA NodeInvStutter ==
  ASSUME NodeInv, UNCHANGED waitVars
  PROVE  NodeInv'
PROOF
  BY DEF waitVars, NodeInv, WaitQueueTypeOK, OwnNode, QueuedAllocated, QueuedOnce,
    PolledAllocated, PolledOnce, Waiting, Handing, InQueue

-----------------------------------------------------------------------------
(* How a thread gets in, for the programs that use the locks.              *)

\* A thread stands here between its call of acquire_mutex or wait_semaphore and
\* the return.
AskingLabels == {"acquire", "test", "queued", "pausing", "paused", "woken", "granted"}

\* The steps inside the two calls.
InnerStep(t) ==
  \/ PassTest(t, "test", "granted") \/ PassTest(t, "decide", "dropped")
  \/ InsertSelf(t)
  \/ queue # <<>> /\ RemoveFirst(t)
  \/ WaitQueueStep(t)

\* Such a step moves one thread, which comes in only from a call it has made and
\* with the lock already its own.
LEMMA InnerStepMoves ==
  ASSUME WaitQueueInv, NEW t \in Threads, InnerStep(t)
  PROVE  /\ pc[t] \notin {"out", "in"}
         /\ \A u \in Threads : u # t => pc'[u] = pc[u]
         /\ pc'[t] = "in" => pc[t] \in AskingLabels /\ HasLock(t)
         /\ pc'[t] \in AskingLabels => pc[t] \in AskingLabels
PROOF
  <1>1. \E from \in WaitQueueLabels \ {"out", "in"}, to \in WaitQueueLabels :
          /\ pc[t] = from /\ pc' = [pc EXCEPT ![t] = to]
          /\ to = "in" => from \in {"granted", "woken"}
          /\ to \in AskingLabels => from \in AskingLabels
    BY DEF InnerStep, PassTest, InsertSelf, RemoveFirst, WaitQueueStep, LockForAcquire,
      LockForRelease, UnlockGranted, UnlockDropped, UnlockQueued, UnlockPopped, Pause, Wake,
      RaiseFlag, Kill, SeeFlagUp, SeeFlagDown, TakeSlock, DropSlock, Goto, WaitQueueLabels,
      AskingLabels
  <1>2. pc[t] = "woken" => HasLock(t)
    BY DEF WaitQueueInv, HandOverInv, SignalWatched, PollsWaiter, Handing, Waiting, Granted,
      HasLock
  <1>3. pc[t] = "granted" => HasLock(t)
    BY DEF HasLock
  <1> QED
    BY <1>1, <1>2, <1>3 DEF WaitQueueInv, WaitQueueTypeOK, AskingLabels

=============================================================================
