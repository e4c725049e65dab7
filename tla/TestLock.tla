------------------------------ MODULE TestLock ------------------------------
(***************************************************************************)
(* test_lock, the spinlock's tester (pa3 -T): main grabs the lock, creates *)
(* the testers, releases the lock, joins them; each tester acquires the    *)
(* lock once.  Whoever has it asserts that nobody else set testlock_held.  *)
(***************************************************************************)
EXTENDS Naturals

CONSTANTS MainThread, Testers

ASSUME TestLockAssumption == MainThread \notin Testers

VARIABLES
  testlock,       \* testlock.hold
  at,             \* where each thread is in the spinlock's code
  testlock_held,
  created,        \* main has created the testers
  turn,           \* turn[t]: t's next statement
  joined          \* main is past its joins

clientVars == <<testlock_held, created, turn, joined>>
testVars == <<testlock, at, clientVars>>

Everyone == Testers \cup {MainThread}

lock == INSTANCE Spinlock WITH Threads <- Everyone, hold <- testlock, pc <- at

TestInit ==
  /\ lock!Init
  /\ testlock_held = 0
  /\ created = FALSE
  /\ turn = [t \in Everyone |-> "acquire"]
  /\ joined = FALSE

\* main, or a tester that has been created and has slept, asks for the lock.
Ask(t) ==
  /\ turn[t] = "acquire"
  /\ t # MainThread => created
  /\ lock!Call(t)
  /\ turn' = [turn EXCEPT ![t] = "set"]
  /\ UNCHANGED <<testlock_held, created, joined>>

\* assert(testlock_held == 0) is made here, before the store.
SetHeld(t) ==
  /\ turn[t] = "set" /\ at[t] = "in"
  /\ testlock_held' = 1
  /\ turn' = [turn EXCEPT ![t] = IF t = MainThread THEN "create" ELSE "clear"]
  /\ UNCHANGED <<testlock, at, created, joined>>

\* pthread_create of every tester, while main holds the lock.
Create ==
  /\ turn[MainThread] = "create"
  /\ created' = TRUE
  /\ turn' = [turn EXCEPT ![MainThread] = "clear"]
  /\ UNCHANGED <<testlock, at, testlock_held, joined>>

\* Fault: the thread leaves its mark when it goes.
ClearNothing(t) ==
  /\ turn[t] = "clear"
  /\ turn' = [turn EXCEPT ![t] = "release"]
  /\ UNCHANGED <<testlock, at, testlock_held, created, joined>>

ClearHeld(t) ==
  /\ turn[t] = "clear"
  /\ testlock_held' = 0
  /\ turn' = [turn EXCEPT ![t] = "release"]
  /\ UNCHANGED <<testlock, at, created, joined>>

GiveBack(t) ==
  /\ turn[t] = "release"
  /\ lock!Return(t)
  /\ turn' = [turn EXCEPT ![t] = "done"]
  /\ UNCHANGED <<testlock_held, created, joined>>

\* pthread_join of every tester.
Join ==
  /\ ~joined
  /\ \A t \in Everyone : turn[t] = "done" /\ at[t] = "out"
  /\ joined' = TRUE
  /\ UNCHANGED <<testlock, at, testlock_held, created, turn>>

TestStep(t) ==
  \/ Ask(t) \/ SetHeld(t) \/ ClearHeld(t) \/ GiveBack(t)
  \/ lock!LockStep(t) /\ UNCHANGED clientVars

TestNext == Create \/ Join \/ \E t \in Everyone : TestStep(t)

TestSpec == TestInit /\ [][TestNext]_testVars

\* Threads run.  Each asks for the lock once, so nobody can lose for ever.
TestFairSpec ==
  /\ TestSpec
  /\ WF_testVars(Create) /\ WF_testVars(Join)
  /\ \A t \in Everyone : WF_testVars(TestStep(t))

-----------------------------------------------------------------------------
(* Properties                                                              *)

TestTypeOK ==
  /\ lock!TypeOK
  /\ testlock_held \in {0, 1}
  /\ created \in BOOLEAN /\ joined \in BOOLEAN
  /\ turn \in [Everyone -> {"acquire", "set", "create", "clear", "release", "done"}]

\* One thread has the lock exactly while hold is 1, so no release_spinlock finds
\* a lock that is not its own, and none can fail unnoticed.  (locks.c 26-30)
HoldAccounted == lock!HoldAccounted

\* No assertion of the tester fails: a thread that has acquired the lock finds
\* testlock_held 0, and so does main at the end.  (locks.c 185, 212, 230)
AssertionsHold ==
  /\ \A t \in Everyone : turn[t] = "set" /\ at[t] = "in" => testlock_held = 0
  /\ joined => testlock_held = 0

\* The tester prints its verdict: every thread gets the lock and returns.
TesterEnds == <>joined

=============================================================================
