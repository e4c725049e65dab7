-------------------------------- MODULE Pa3 ---------------------------------
(***************************************************************************)
(* The whole of pa3: the ring buffer's threads around the lock lock_type   *)
(* selects, with every step of that lock.  slock stands for the spinlock   *)
(* the selected lock is built on: slock.hold itself, m.m_slock.hold or     *)
(* sem.m_slock.hold.                                                       *)
(***************************************************************************)
EXTENDS RingBuffer

CONSTANTS
  LockTypes,  \* the locks the options of pa3 may select
  Nodes, NoThread, NoNode, SignalsFirst, PromptWakeup  \* as in WaitQueue

ASSUME Pa3Assumption ==
  /\ LockTypes \subseteq {"spinlock", "mutex", "semaphore"}
  /\ NoThread \notin Workers /\ NoNode \notin Nodes
  /\ SignalsFirst \in BOOLEAN /\ PromptWakeup \in BOOLEAN

VARIABLES
  slock, queue, pthread, flags, sig, p, pc,  \* as in WaitQueue
  hold,   \* m.hold
  value,  \* sem.value
  lock_type

waitVars == <<slock, queue, pthread, flags, sig, p, pc>>
lockVars == <<waitVars, hold, value, lock_type>>
vars == <<ringVars, lockVars>>

\* init_using_semaphore asks for one permit.
Permits == 1

spinlock == INSTANCE Spinlock WITH Threads <- Workers, hold <- slock
mutex == INSTANCE Mutex WITH Threads <- Workers
semaphore == INSTANCE Semaphore WITH Threads <- Workers

\* The variables the selected lock does not have stay as they are.
RestUnused ==
  /\ UNCHANGED lock_type
  /\ \/ lock_type = "spinlock" /\ UNCHANGED <<queue, pthread, flags, sig, p, hold, value>>
     \/ lock_type = "mutex" /\ UNCHANGED value
     \/ lock_type = "semaphore" /\ UNCHANGED hold

Init ==
  /\ RingInit /\ mutex!Init /\ value = Permits
  /\ lock_type \in LockTypes

-----------------------------------------------------------------------------
(* The three operations of the selected lock                               *)

Call(t) ==
  /\ \/ lock_type = "spinlock" /\ spinlock!Call(t)
     \/ lock_type = "mutex" /\ mutex!Call(t)
     \/ lock_type = "semaphore" /\ semaphore!Call(t)
  /\ RestUnused

Return(t) ==
  /\ \/ lock_type = "spinlock" /\ spinlock!Return(t)
     \/ lock_type = "mutex" /\ mutex!Return(t)
     \/ lock_type = "semaphore" /\ semaphore!Return(t)
  /\ RestUnused

LockStep(t) ==
  /\ \/ lock_type = "spinlock" /\ spinlock!LockStep(t)
     \/ lock_type = "mutex" /\ mutex!LockStep(t)
     \/ lock_type = "semaphore" /\ semaphore!LockStep(t)
  /\ RestUnused

Interrupt(t) ==
  /\ \/ lock_type = "mutex" /\ mutex!Interrupt(t)
     \/ lock_type = "semaphore" /\ semaphore!Interrupt(t)
  /\ RestUnused

-----------------------------------------------------------------------------
(* The threads                                                             *)

Enter(t) == Wants(t) /\ Call(t) /\ UNCHANGED ringVars
Work(t) == pc[t] = "in" /\ Inside(t) /\ UNCHANGED lockVars
Exit(t) == Leave(t) /\ Return(t)
Lock(t) == LockStep(t) /\ UNCHANGED ringVars
Deliver(t) == Interrupt(t) /\ UNCHANGED ringVars

\* What a thread does when it is in no lock operation.
Outside(t) ==
  /\ pc[t] = "out"
  /\ \/ t # Counter /\ (Generate(t) \/ Generated(t))
     \/ t = Counter /\ Count
  /\ UNCHANGED lockVars

MainStep == Main /\ UNCHANGED lockVars

Next ==
  \/ MainStep
  \/ \E t \in Workers :
       Enter(t) \/ Work(t) \/ Exit(t) \/ Lock(t) \/ Deliver(t) \/ Outside(t)

Spec == Init /\ [][Next]_vars

(***************************************************************************)
(* Threads run; signals arrive; and a thread that spins for a lock other   *)
(* threads take and drop all the time wins the swap now and then.  The     *)
(* last needs strong fairness: a counter that retries an empty ring could  *)
(* otherwise beat the generator to the lock for ever.                      *)
(***************************************************************************)
FairSpec ==
  /\ Spec
  /\ WF_vars(MainStep)
  /\ \A t \in Workers :
       /\ WF_vars(Enter(t)) /\ WF_vars(Work(t)) /\ WF_vars(Exit(t))
       /\ WF_vars(Outside(t)) /\ WF_vars(Deliver(t))
       /\ SF_vars(Lock(t))

-----------------------------------------------------------------------------
(* Properties                                                              *)

\* Each of the three locks is as good as the ideal one: pa3 does nothing the
\* ring under an ideal lock could not do, so its ring is a queue, no value is
\* lost or doubled and the counts agree.
Ideal == INSTANCE GuardedRing WITH inside <- {t \in Workers : pc[t] = "in"}

ImplementsGuardedRing == Ideal!Spec

\* The RESULT file and the merged GEN files agree when pa3 ends.
\* (Makefile, the diff of test_spinlock, test_mutex and test_sem)
ResultMatchesGenerated == Finished(Counter) => occurrances = generated

\* pa3 ends.
Termination == <>(main = "exit")

=============================================================================
