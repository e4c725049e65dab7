----------------------------- MODULE WaitQueue ------------------------------
(***************************************************************************)
(* The blocking machinery that acquire_mutex/release_mutex and             *)
(* wait_semaphore/signal_semaphore of locks.c share, line for line: a      *)
(* FIFO of waiting threads guarded by an internal spinlock, pause() to     *)
(* sleep, and SIGUSR1 sent again and again until the sleeper raises its    *)
(* flag.  Mutex and Semaphore extend this module with the test each makes  *)
(* under the spinlock.                                                     *)
(*                                                                         *)
(* A step is one access to shared memory or one system call.  A failed     *)
(* compare-and-swap of a spinning thread changes nothing and is a stutter. *)
(***************************************************************************)
EXTENDS Atomic, Sequences

CONSTANTS
  Threads,       \* the threads that use the lock
  Nodes,         \* addresses malloc returns for struct thread
  NoThread,      \* "no pthread": the node is not allocated
  NoNode,        \* "no node": the local p is out of scope
  SignalsFirst,  \* TRUE: a thread takes a pending signal before it runs on
  PromptWakeup   \* TRUE: usleep(500) outlasts the delivery of the signal sent
                 \* before it and the woken thread's store to its flag

ASSUME WaitQueueAssumption ==
  /\ NoThread \notin Threads
  /\ NoNode \notin Nodes
  /\ SignalsFirst \in BOOLEAN /\ PromptWakeup \in BOOLEAN

VARIABLES
  slock,    \* m_slock.hold, the internal spinlock
  queue,    \* thread.head, the TAILQ of waiting nodes, first to last
  pthread,  \* pthread[n]: n->pthread, NoThread while n is free memory
  flags,    \* flags[n]: n->flags, 1 once the waiter has been awake
  sig,      \* sig[t]: SIGUSR1 is pending for t
  p,        \* p[t]: the local p of the call t is in
  pc        \* pc[t]: where t stands in the lock's code

parkVars == <<queue, pthread, flags, p>>
waitVars == <<slock, queue, pthread, flags, sig, p, pc>>

Goto(t, from, to) ==
  /\ pc[t] = from
  /\ SignalsFirst => ~sig[t]
  /\ pc' = [pc EXCEPT ![t] = to]

\* acquire_spinlock(&lock->m_slock), the iteration that wins the swap.
TakeSlock(t, from, to) ==
  /\ slock = 0
  /\ slock' = compare_and_swap(slock, 0, 1)
  /\ Goto(t, from, to)
  /\ UNCHANGED <<parkVars, sig>>

\* release_spinlock(&lock->m_slock).
DropSlock(t, from, to) ==
  /\ slock' = compare_and_swap(slock, 1, 0)
  /\ Goto(t, from, to)
  /\ UNCHANGED <<parkVars, sig>>

Allocated(n) == pthread[n] # NoThread

WaitQueueInit ==
  /\ slock = 0
  /\ queue = <<>>
  /\ pthread = [n \in Nodes |-> NoThread]
  /\ flags = [n \in Nodes |-> 0]
  /\ sig = [t \in Threads |-> FALSE]
  /\ p = [t \in Threads |-> NoNode]
  /\ pc = [t \in Threads |-> "out"]

-----------------------------------------------------------------------------
(* The way in and the way out of the internal spinlock.  The test made     *)
(* under it, at "test" and "decide", is the extending module's.            *)

\* acquire_mutex or wait_semaphore is called.
Acquire(t) == Goto(t, "out", "acquire") /\ UNCHANGED <<slock, parkVars, sig>>

LockForAcquire(t) == TakeSlock(t, "acquire", "test")

\* The lock was free: the call returns at once.
UnlockGranted(t) == DropSlock(t, "granted", "in")

\* release_mutex or signal_semaphore is called.
Release(t) == Goto(t, "in", "release") /\ UNCHANGED <<slock, parkVars, sig>>

LockForRelease(t) == TakeSlock(t, "release", "decide")

\* Nobody waited: the call returns at once.
UnlockDropped(t) == DropSlock(t, "dropped", "out")

-----------------------------------------------------------------------------
(* A thread that must wait: enqueue a node, drop the spinlock, pause().    *)

\* Fault: p->flags = 0 is left out, and memory used before still holds 1.
InsertStale(t) ==
  /\ Goto(t, "test", "queued")
  /\ \E n \in Nodes :
       /\ ~Allocated(n)
       /\ pthread' = [pthread EXCEPT ![n] = t]
       /\ queue' = Append(queue, n)
       /\ p' = [p EXCEPT ![t] = n]
  /\ UNCHANGED <<slock, flags, sig>>

\* malloc a node, fill it in and insert it at the tail.
InsertSelf(t) ==
  /\ Goto(t, "test", "queued")
  /\ \E n \in Nodes :
       /\ ~Allocated(n)
       /\ pthread' = [pthread EXCEPT ![n] = t]
       /\ flags' = [flags EXCEPT ![n] = 0]
       /\ queue' = Append(queue, n)
       /\ p' = [p EXCEPT ![t] = n]
  /\ UNCHANGED <<slock, sig>>

UnlockQueued(t) == DropSlock(t, "queued", "pausing")

\* pause() is entered: a signal not yet delivered ends it, one delivered
\* before is lost.
Pause(t) ==
  /\ pc[t] = "pausing"
  /\ pc' = [pc EXCEPT ![t] = "paused"]
  /\ UNCHANGED <<slock, parkVars, sig>>

\* sHandler runs and pause() returns.
Wake(t) ==
  /\ sig[t]
  /\ pc[t] = "paused"
  /\ pc' = [pc EXCEPT ![t] = "woken"]
  /\ sig' = [sig EXCEPT ![t] = FALSE]
  /\ UNCHANGED <<slock, parkVars>>

\* Fault: the woken thread does not raise its flag.
WakeSilently(t) ==
  /\ Goto(t, "woken", "in")
  /\ p' = [p EXCEPT ![t] = NoNode]
  /\ UNCHANGED <<slock, queue, pthread, flags, sig>>

\* p->flags = 1, the waiter's last use of its node; the call returns.
RaiseFlag(t) ==
  /\ Goto(t, "woken", "in")
  /\ flags' = [flags EXCEPT ![p[t]] = 1]
  /\ p' = [p EXCEPT ![t] = NoNode]
  /\ UNCHANGED <<slock, queue, pthread, sig>>

\* sHandler interrupts t outside pause(): the signal is gone, nothing else is.
DropSignal(t) ==
  /\ sig[t]
  /\ pc[t] # "paused"
  /\ sig' = [sig EXCEPT ![t] = FALSE]
  /\ UNCHANGED <<slock, parkVars, pc>>

-----------------------------------------------------------------------------
(* A thread that hands the lock over: dequeue the first node, drop the     *)
(* spinlock, signal its thread until the node's flag is up, free the node. *)

\* Fault: the waiter that came last is taken.
RemoveLast(t) ==
  /\ Goto(t, "decide", "popped")
  /\ p' = [p EXCEPT ![t] = queue[Len(queue)]]
  /\ queue' = SubSeq(queue, 1, Len(queue) - 1)
  /\ UNCHANGED <<slock, pthread, flags, sig>>

\* TAILQ_FIRST and TAILQ_REMOVE; the caller has seen the queue not empty.
RemoveFirst(t) ==
  /\ Goto(t, "decide", "popped")
  /\ p' = [p EXCEPT ![t] = Head(queue)]
  /\ queue' = Tail(queue)
  /\ UNCHANGED <<slock, pthread, flags, sig>>

UnlockPopped(t) == DropSlock(t, "popped", "kill")

\* pthread_kill(p->pthread, SIGUSR1); a second pending SIGUSR1 is absorbed.
Kill(t) ==
  /\ Goto(t, "kill", "check")
  /\ sig' = [sig EXCEPT ![pthread[p[t]]] = TRUE]
  /\ UNCHANGED <<slock, parkVars>>

\* After usleep(500), p->flags == 1: free(p) and return.
SeeFlagUp(t) ==
  /\ Goto(t, "check", "out")
  /\ flags[p[t]] = 1
  /\ pthread' = [pthread EXCEPT ![p[t]] = NoThread]
  /\ p' = [p EXCEPT ![t] = NoNode]
  /\ UNCHANGED <<slock, queue, flags, sig>>

\* The timing assumption: the last signal to w was delivered, and if it ended
\* a pause() then w has gone on to set its flag.
Settled(w) == ~sig[w] /\ pc[w] # "woken"

\* Fault: no usleep between the signal and the look at the flag.
CheckAtOnce(t) ==
  /\ Goto(t, "check", "kill")
  /\ flags[p[t]] # 1
  /\ UNCHANGED <<slock, parkVars, sig>>

\* Fault: no loop, one signal has to do.
GiveUp(t) ==
  /\ Goto(t, "check", "out")
  /\ PromptWakeup => Settled(pthread[p[t]])
  /\ flags[p[t]] # 1
  /\ p' = [p EXCEPT ![t] = NoNode]
  /\ UNCHANGED <<slock, queue, pthread, flags, sig>>

\* After usleep(500), p->flags is still 0: round the loop again.
SeeFlagDown(t) ==
  /\ Goto(t, "check", "kill")
  /\ PromptWakeup => Settled(pthread[p[t]])
  /\ flags[p[t]] # 1
  /\ UNCHANGED <<slock, parkVars, sig>>

\* The steps thread t takes in its own code; DropSignal is the kernel's.
WaitQueueStep(t) ==
  \/ LockForAcquire(t) \/ UnlockGranted(t)
  \/ LockForRelease(t) \/ UnlockDropped(t)
  \/ UnlockQueued(t) \/ Pause(t) \/ Wake(t) \/ RaiseFlag(t)
  \/ UnlockPopped(t) \/ Kill(t) \/ SeeFlagUp(t) \/ SeeFlagDown(t)

-----------------------------------------------------------------------------
(* Vocabulary of the properties.                                           *)

WaitQueueLabels ==
  {"out", "acquire", "test", "queued", "pausing", "paused", "woken", "in",
   "release", "decide", "popped", "kill", "check", "granted", "dropped"}

InQueue(n) == \E i \in 1..Len(queue) : queue[i] = n

\* t sits in an acquire, between its insertion and its return.
Waiting(t) == pc[t] \in {"queued", "pausing", "paused", "woken"}

\* t is handing the lock to the thread of node p[t].
Handing(t) == pc[t] \in {"popped", "kill", "check"}

\* t was dequeued by a releaser but has not returned yet.
Granted(t) == Waiting(t) /\ ~InQueue(p[t])

WaitQueueTypeOK ==
  /\ slock \in {0, 1}
  /\ queue \in Seq(Nodes)
  /\ pthread \in [Nodes -> Threads \cup {NoThread}]
  /\ flags \in [Nodes -> {0, 1}]
  /\ sig \in [Threads -> BOOLEAN]
  /\ p \in [Threads -> Nodes \cup {NoNode}]
  /\ pc \in [Threads -> WaitQueueLabels]

\* The threads the lock belongs to: inside, or on the way in or out, or
\* dequeued by a releaser and not yet awake.
HasLock(t) == pc[t] \in {"granted", "in", "release", "decide"} \/ Granted(t)

\* The waiting threads, in order of arrival.
Line == [i \in 1..Len(queue) |-> pthread[queue[i]]]

\* A node in use is memory nobody has freed: the one a waiter will write its
\* flag to, the ones in the queue, the one a releaser polls.  No node is in
\* two of the releasers' hands, nor in the queue twice or after its removal,
\* so none is freed twice.  (locks.c 59-66, 81-94)
NodeSafety ==
  /\ \A t \in Threads : Waiting(t) => p[t] \in Nodes /\ pthread[p[t]] = t
  /\ \A t \in Threads : Handing(t) => Allocated(p[t]) /\ ~InQueue(p[t])
  /\ \A i \in 1..Len(queue) : Allocated(queue[i])
  /\ \A i, j \in 1..Len(queue) : queue[i] = queue[j] => i = j
  /\ \A t, u \in Threads : Handing(t) /\ Handing(u) /\ p[t] = p[u] => t = u

\* A signal is only ever sent to, or on its way to, a thread that still waits
\* on the very node the sender polls: a late SIGUSR1 would end a pause() it
\* was not meant for and let a thread in without the lock.  (locks.c 86-95)
NoStraySignal ==
  /\ \A t \in Threads : pc[t] = "kill" =>
       LET w == pthread[p[t]] IN Waiting(w) /\ p[w] = p[t]
  /\ \A w \in Threads : sig[w] =>
       \E t \in Threads : pc[t] = "check" /\ Waiting(w) /\ p[w] = p[t]

-----------------------------------------------------------------------------
(* The inductive invariant of the machinery, for the proofs.               *)

\* Where a thread has the internal spinlock.
InSection(t) ==
  pc[t] \in {"test", "queued", "granted", "decide", "popped", "dropped"}

\* The internal spinlock excludes.
SectionInv ==
  /\ \A t \in Threads : InSection(t) => slock = 1
  /\ \A t, u \in Threads : InSection(t) /\ InSection(u) => t = u

\* A waiter owns its node, whose flag is down.
OwnNode ==
  \A t \in Threads : Waiting(t) =>
    p[t] \in Nodes /\ pthread[p[t]] = t /\ flags[p[t]] = 0

\* The nodes in the queue are those of waiters, each there once.
QueuedWaits ==
  \A n \in Nodes : InQueue(n) =>
    pthread[n] \in Threads /\ Waiting(pthread[n]) /\ p[pthread[n]] = n

QueuedOnce == \A i, j \in 1..Len(queue) : queue[i] = queue[j] => i = j

\* A releaser polls a node it has dequeued, whose waiter waits until it has
\* raised the flag.
PollsWaiter ==
  \A t \in Threads : Handing(t) =>
    /\ p[t] \in Nodes /\ pthread[p[t]] \in Threads /\ ~InQueue(p[t])
    /\ flags[p[t]] = 0 =>
         Waiting(pthread[p[t]]) /\ p[pthread[p[t]]] = p[t]

\* No two releasers poll one node; one polls the node of each granted waiter.
PolledOnce ==
  \A t, u \in Threads : Handing(t) /\ Handing(u) /\ p[t] = p[u] => t = u

GrantedPolled ==
  \A w \in Threads : Granted(w) => \E t \in Threads : Handing(t) /\ p[t] = p[w]

\* Before a releaser sends a signal the waiter sleeps, unsignalled.
SleepsBeforeKill ==
  \A t \in Threads : pc[t] \in {"popped", "kill"} =>
    flags[p[t]] = 0 /\ pc[pthread[p[t]]] # "woken" /\ ~sig[pthread[p[t]]]

\* A signal is under way, and a waiter awake, only while the thread that sent
\* the signal looks at the waiter's flag.
SignalWatched ==
  \A w \in Threads : sig[w] \/ pc[w] = "woken" =>
    Waiting(w) /\ \E t \in Threads : pc[t] = "check" /\ p[t] = p[w]

SignalSpent == \A w \in Threads : pc[w] = "woken" => ~sig[w]

HandOverInv ==
  /\ OwnNode /\ QueuedWaits /\ QueuedOnce
  /\ PollsWaiter /\ PolledOnce /\ GrantedPolled
  /\ SleepsBeforeKill /\ SignalWatched /\ SignalSpent

WaitQueueInv == WaitQueueTypeOK /\ SectionInv /\ HandOverInv

\* What is left when usleep(500) may be too short, and a thread may be woken by
\* a signal meant for an earlier wait: the queued and the polled nodes are
\* allocated, and none is both.
QueuedAllocated == \A n \in Nodes : InQueue(n) => pthread[n] \in Threads

PolledAllocated ==
  \A t \in Threads : Handing(t) =>
    p[t] \in Nodes /\ pthread[p[t]] \in Threads /\ ~InQueue(p[t])

NodeInv ==
  /\ WaitQueueTypeOK /\ OwnNode
  /\ QueuedAllocated /\ QueuedOnce /\ PolledAllocated /\ PolledOnce

=============================================================================
