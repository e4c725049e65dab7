# A TLA+ verification of the 2018 OS assignments

The repository holds three C programs. This directory models them in TLA+,
checks the models with TLC and proves the most important results with TLAPS.
`PROJECT.json` lists the components, the runs, the source lines behind every
definition, the hazards and the theorems; this file explains them.

## 1. The system

### MyLock (`pa3`): locks and a ring buffer

| Part | State | Operations | Interacts with |
|---|---|---|---|
| spinlock (`locks.c` 14-30, `atomic.h`) | `hold` | acquire: `compare_and_swap` until it finds 0; release: one swap | used by mutex, semaphore, ring buffer, tester |
| mutex (44-104) | `hold`, internal spinlock `m_slock`, one **global** queue of waiting threads | acquire: take `hold`, or queue a malloc'ed node, `pause()`, set `flags`; release: clear `hold`, or dequeue the first node, `SIGUSR1` its thread every 500 us until `flags` is 1, free the node | signals between threads, ring buffer |
| semaphore (112-169) | `value`, `m_slock`, the same global queue | wait and signal: the same machinery around a counter | ring buffer |
| tester (175-234) | `testlock_held` | main and testers take the spinlock and assert they are alone | spinlock |
| ring buffer (`ringbuffer.c`) | `front`, `rear`, `max`, cells | enqueue and dequeue, retrying while full or empty, around one of the three locks | generators, counter |
| counter (`counter.c`), generators (not in the repository), `main.c` | `occurrances`, the GEN files | one value at a time; main joins all and frees the ring | ring buffer |

Hard here: interleavings of single memory accesses; a signal that comes before
the `pause()` it is meant to end, or after it; a node that is freed by one
thread and written by another; hand-over of a lock nobody is inside of; threads
that only make progress when others let go of a lock.
Correct means: mutual exclusion, order of arrival, no lost wake-up, no stray
signal, no use of freed nodes, every generated value counted once, termination.

### MyBuddy (`pa4`): a buddy page allocator

| Part | State | Operations |
|---|---|---|
| allocator (`buddy.c`) | a free list per order, two page counters | `alloc_pages` splits, `free_pages` merges, `get_unusable_index` |
| free lists | `struct chunk` cells from malloc, `first`, `last` | insert at the tail, remove the head, unlink from anywhere |
| checker (`checker.c`) | one record per chunk handed out | `mark_alloc_pages`, `clear_alloc_pages` |
| commands (`main.c`) | - | `a`, `d`/`f`, `u`, `q`, printing |

Sequential; hard are the long sequences of legal calls: splits and merges that
cascade, cells unlinked from any place of a list, memory on every path.
Correct means: no page handed out twice or lost, aligned chunks, buddies always
merged, FIFO lists, no leak.

### AdvMysh (`mysh`): a shell

| Part | State | Operations | Interacts with |
|---|---|---|---|
| loop and job control (`mysh.c`, `commands.c`) | `bgOpen`, `pbg`, the terminal's process group | read a line, look at the job, builtin, program in the foreground or with `&`, `fg`, `kill`, `exit`, signal handlers | kernel, pipe |
| pipe (`fs.c` 37-204) | the socket file `FILE_SERVER`, `syncToken`, two threads, two children | `serverOut` runs the first command and waits, `clientIn` spins on `syncToken` and runs the second | kernel; `wait(NULL)` sees all children of the shell |
| parser (`parser.c`) | words | `parse_command`, `findAmpersand` | loop |
| path resolution (`fs.c` 206-266) | `PATH` | the first entry that has the file | loop, pipe |

Hard: children reaped by the wrong `wait`; busy waiting on `syncToken`, which
outlives a pipe; a fixed socket name, removed and bound again while a client
tries to connect; process numbers that are out of date; `fork`, `bind` and
`execv` that fail; after a failed `execv` the child goes on as a second shell.
Correct means: the job is never lost sight of, only its process is killed at
exit, every child is waited for, the terminal comes back, the commands of a pipe
run one after the other and on the connection of their own pipe, commands
return; the words, the `&`, the `|` and the names are those of the line.

## 2. The modules

| Module | Models | Instances and proofs |
|---|---|---|
| `Atomic` | `compare_and_swap` | |
| `Spinlock` | the spinlock, one step per swap | part of `TestLock`, `Pa3` |
| `TestLock` | `test_lock` on a `Spinlock` | `TestLock.cfg`, `Pa3Proofs` |
| `WaitQueue` | what mutex and semaphore share, line for line | `WaitQueueProofs` |
| `Mutex` | `acquire_mutex`, `release_mutex` | `Mutex.cfg`, `MutexProofs` |
| `Semaphore` | `wait_semaphore`, `signal_semaphore` | `Semaphore.cfg`, `SemaphoreProofs` |
| `FifoSemaphore` | the promise of both: permits handed over in order of arrival | refined by `Mutex`, `Semaphore` |
| `RingBuffer` | enqueue and dequeue between lock and unlock, counter, main | |
| `GuardedRing` | `RingBuffer` under an ideal lock | `GuardedRing.cfg`, `GuardedRingProofs` |
| `BoundedFifo` | the promise of the ring | refined by `GuardedRing` |
| `Pa3` | `RingBuffer` around each of the three locks | refines `GuardedRing`; `MCPa3`, `Pa3Proofs` |
| `Buddy` | allocator and checker, lists as sequences, a call is a step | `Buddy.cfg`, `BuddyProofs` |
| `PageAllocator` | the promise: aligned, disjoint chunks | refined by `Buddy` |
| `BuddyHeap` | the linked lists and malloc, a loop iteration is a step | refines `Buddy`; `BuddyHeap.cfg`, `BuddyProofs` |
| `Processes` | the kernel as the shell uses it: `fork`, `wait`, `waitpid`, `kill`, exit, groups (external) | part of `Pipe`, `MyshProofs` |
| `Pipe` | `serverOut` and `clientIn`, one step per system call or access to `syncToken` | part of `Mysh`, `MyshProofs` |
| `Mysh` | the loop of the shell and its children, around `Pipe` | `Mysh.cfg`, `PipeOverlap.cfg`, `MyshProofs` |
| `CommandLine` | `parse_command`, `findAmpersand`, `resolve_path`, the copies of `doPipeExec`, the frees | `MCCommandLine`, `CommandLineProofs` |

So the chain of refinements of `pa3` is `Pa3` => `GuardedRing` =>
`BoundedFifo`, with `Mutex`, `Semaphore` => `FifoSemaphore` beside it, and that
of `pa4` is `BuddyHeap` => `Buddy` => `PageAllocator`.

**Granularity.** In MyLock a step is one access to shared memory or one system
call. A compare-and-swap that fails changes nothing and is a stutter. A thread's
place in the code is `pc[t]`: `Mutex` and `Semaphore` name the lines "acquire",
"test", "queued", "pausing", "paused", "woken" of an acquire and "release",
"decide", "popped", "kill", "check" of a release; "in" and "out" are the
client's. `insertChunkList`, `removeChunkList` and the TAILQ macros run under a
spinlock or in a single thread and are one step.

**Signals.** `sig[t]` says SIGUSR1 is pending for `t` (a second one is absorbed,
as for any standard signal). `sHandler` does nothing, so a signal delivered
outside `pause()` is lost (`DropSignal`) and one delivered inside ends it
(`Wake`). `SignalsFirst` says a thread takes a pending signal before its next
step.

**The timing assumption.** `release_mutex` and `signal_semaphore` send the
signal, sleep 500 us, look at the flag and send again. They are right only if
500 us are enough for the signal to be delivered and, if it ended the
`pause()`, for the woken thread to set its flag. `PromptWakeup` is that
assumption, in one place (`SeeFlagDown`): TRUE, a releaser that finds the flag
down knows that the signal was lost; FALSE, it may just be early. Nothing in the
code enforces it. The runs `mutex`, `semaphore` and `pa3` and most theorems
about them assume it; the node safety of mutex and semaphore is proved without it
(`MutexNodesSafe`, `SemaphoreNodesSafe`), what is proved of the spinlock, the ring
under an ideal lock, the allocator and the shell has no use for it, and
`pa3_mutex_late` shows what happens when it fails.

**Memory.** A node is an address; `pthread[n] = NoThread` while it is free, and
a new node is any free address, with whatever flag an earlier use left there.
In `BuddyHeap` a freed cell is reused at once, and a call that needs more cells
than there are does not go on (`CanMalloc`, a bound). `BuddyHeap` extends `Buddy`:
`mem` and `records` are the lists and the checker's records as they change in the
loops, `chunks` and `ops` what they were when no call was running, read off the
lists when a call returns (`Return`). They are history and guide no step;
`ImplementsBuddy` says that they behave as `Buddy` has them.

**Processes.** `Mysh` keeps the process table in `proc` (status, parent, group,
what the process is, the socket it listens on) and the memory of each process
in `mem`: where its main thread and its two pipe threads stand, `bgOpen`, `pbg`,
`syncToken`. `fork` copies the line and gives the child a memory of its own, so
that a child whose `execv` fails is a second shell with its own `bgOpen` and
`pbg`. A process that ends stays as a zombie until it is waited for; its
children are init's, who waits at once.

**Mishaps.** What may go wrong in a session of the shell is the set `may`: a
`fork` that fails, an `execv` that fails, a pipe started beside another job
("overlap"), a first command with more output than a socket holds ("large"),
SIGTERM, SIGHUP or SIGQUIT to a shell ("term"), a `kill` command that names a
process ("kill"). The constant `Sessions` lists the sets to look at, and a
property says which of them it is about (`Calm`).

**Lines.** `CommandLine` is the one module about characters, since the parser is
about nothing else. Its reference, `Words` to `Resolved`, says what a line means
by the positions of its quotes and blanks, without a loop. `Chars` are the
characters a line may be made of; which of them the parser tells apart is fixed.

Operators whose comment begins with "Fault:" are faulty variants of the
definition below them. No specification uses them; putting one in the place of
the definition is how each property is shown to depend on the code
(`PROJECT.json`, "mutants").

## 3. The runs

| Run | Instance | Shows |
|---|---|---|
| `mutex` | 3 threads, 3 nodes, fair | exclusion, `hold` tells the truth, node and signal safety, hand-over in order of arrival, no lost wake-up, releases return |
| `semaphore` | 4 threads, 2 nodes, 2 permits, fair | permits and waiters accounted for, hand-over in order of arrival with two hand-overs at once, no lost wake-up |
| `test_lock` | main, 4 testers, fair | spinlock exclusion, the assertions hold, the tester ends |
| `guarded_ring` | 2 generators of 4 values, 2 slots, fair | FIFO across wrap-arounds, every value counted once, ring freed last, termination |
| `pa3` | 2 generators of 1 value, 1 slot, three locks, fair | every lock is as good as the ideal one; termination |
| `buddy` | `MAX_ORDER` 2, 8 pages | pages never shared or lost, merged at all times, lists are queues, index and refusals agree |
| `buddy_heap` | `MAX_ORDER` 2, 8 pages, 6 cells | no leak, each call does what `Buddy` says |
| `mysh` | 4 processes, 6 kinds of session, fair | the job is never lost sight of; `exit` never leaves it behind, and in calm sessions kills nothing else and leaves no zombie; the terminal comes back, pipes run in sequence and find their own server, commands return |
| `command_line` | every line of up to 6 characters, no builtins; 5 lines with every `PATH` of up to 3 | words, `&`, `\|` and names are those of the line, NULL is used only where a command is missing, every word is freed once |
| `pa3_mutex_late` | as `pa3`, any timing, 2 slots, 2 values each | *violation*: RESULT differs from the generated values |
| `buddy_counters` | as `buddy` | *violation*: the page counters drift |
| `pipe_overlap` | as `mysh`, a pipe beside a job | *violation*: the second command starts while the first runs |

**Bounds.** Three threads are what it takes for two to wait at once, or for one
to be handed the lock while a third arrives; the semaphore needs four for two
hand-overs at a time. A thread holds at most one node, so three nodes never run
out in `mutex`; in `semaphore` two are enough, because while a thread queues both
permits are held, which leaves two threads to queue or to poll. Eight pages in
two chunks of order 2 give cascaded splits and merges, merges that must stop at
`MAX_ORDER`, and lists of up to four chunks, so that cells leave from the head,
the middle and the end. Six cells are enough for every free chunk plus those a
split holds: `CanMalloc` never stops a call in this instance. `UintBits` wraps the two page counters, which only ever add and
subtract: 4 bits in `buddy`, 1 bit in `buddy_heap` (they are only compared with
those of `Buddy`), 16 bits where they are compared with the truth. The ring of
three cells is passed around more than twice by eight values. Symmetry is used
in `pa3_mutex_late` only.

Four processes are a shell, its job, and the two commands of a pipe; or a
background host with its two commands; or two shells with a child each. As many
sockets as processes never run out. `Mysh` has these bounds, each named at its
action: `fork` takes the smallest free number, which makes numbers be used again
at once; a SIGKILL is delivered before `kill` returns; nobody types while
processes are at work whose parents are gone, and the session ends with its
first shell; a pipe is started only when nothing but shells is at work, unless
the session may "overlap": then also beside jobs and what other shells run; `execv`
fails in the first shell's children only, so that there are at most two shells
in a chain; a `pbg` nobody will look at is kept as 0. Lines of six characters
over five (a letter, blank, quote, `&`, `|`) hold three words, two words in
quotes, or a pipe with an `&`; paths of three characters have an empty entry at
either end, in the middle, or alone.

**Fairness.** Every thread that can take a step in its own code eventually does
(the kernel schedules it), pending signals are delivered, and critical sections
end. Callers need not call. For `pa3` and `guarded_ring` that is not enough: a
thread that retries on a full or empty ring takes and drops the lock all the
time and could beat the others for ever, since the spinlock has no order. There
the step that wins a lock is strongly fair: a thread that finds it free again
and again gets it now and then. `Mutex` and `Semaphore` need no such thing for
a thread in the queue, which is why `WaiterServed` starts at "queued".

In `mysh` the threads of every process run, programs end, and the user need type
nothing. `CommandReturns` is about sessions in which only `fork`, `kill` and
signals intervene. In the others a command may indeed hang, and TLC shows how:
after an `execv` that fails, the first shell waits for what the user types at the
second one; of two pipes that overlap, one client connects to the other's server
(the name is the same) and its own server waits in `accept` for ever; a "large"
first command blocks (below).

**Deadlock** is checked except where the program ends (`test_lock`, the ring,
`pa3`, `fini_buddy`, the last shell, the last word freed).

### What the violations show

* *Late signals* (`locks.c` 86-95). With three threads the releaser may send a
  signal to a thread that is awake but has not set its flag yet. That thread
  goes on, leaves, and queues again; the pending signal ends its new `pause()`,
  and it enters beside the holder. In `pa3 -1` a value is then lost or counted
  twice, against the `diff` of the Makefile. It needs a thread that is delayed
  by more than 500 us between the signal and one store.
* *Counters* (`buddy.c` 351). `free_pages` returns from its loop, so the counters
  at 424-425 are updated only when the list of the order was empty. Nothing
  reads them.
* *Overlap* (`fs.c` 91). The server waits with `wait(NULL)`, which any child
  ends. When a background job of the shell ends first, the server closes the
  connection and sets `syncToken` while the first command still runs, and the
  client starts the second, against the comment at 118. In calm sessions (`Calm`)
  `SecondWaitsInCalm` shows that the second command does wait.

Seen in the code and not given a run: a first command that writes more than the
connection holds blocks for ever, since the second, which would read, waits for
it to end (`fs.c` 91-93; the sessions with "large" are checked for safety); after
a failed `fork` the shell has `bgOpen` 1 and `pbg` -1, so that `waitpid` waits
for any child and `exit` kills every process of the user (`mysh.c` 82, 106); nor
does `exit` kill its own job when the `wait(NULL)` of an overlapping pipe has
reaped that, or when the shell is a second one with the `bgOpen` and `pbg` it was
born with (`KillsOwnJob`, and `NoZombieAtExit` of other children than the job,
therefore leave such sessions out; `JobTracked`, and `NoZombieAtExit` of the
job, do not); a client socket of a foreground pipe is
closed by nobody (`fs.c` 104-131); a quote without its partner makes the parser
read on behind the line, and an empty `PATH` the search behind the string
("undefined" in `CommandLine`); a quote that opens within a word, as in `a"b" c`,
gives one word too many, and `"&"` and `"|"` in quotes count as operators
(`WellFormed` and `Amp`, `Bar` say so); a bar that begins the line is a bar only if
no file of that name is in the `PATH`, since `resolve_path` looks at the first
word before anybody asks for bars (`Bars`). `alloc_pages` returns `ENOMEM` and
`EINVAL` without the sign its comment gives them (165-166, 181, 193; modelled in
`alloc_result`, and its caller only tests for 0); `get_unusable_index` divides
0 by 0 when all pages are held (511), and `IndexTellsRefusal` says that it does so
in no other state; `init_ringbuffer` asks for
`_nr_slots_` cells while the indices run to `_nr_slots_` (223-224; the model has
the cells that are addressed); `mark_alloc_pages` looks only at the first page
of a chunk (`checker.c` 50), which is enough because `Buddy` never overlaps.

## 4. The proofs

`MutexProofs` proves for any sets of threads and nodes, from the assumptions on
the constants and, but for the last, `PromptWakeup`:

* `MutexTypeCorrect`, `MutexExcludes`, `MutexHoldAccounted`,
  `MutexSignalsMeantOnly`: `Spec` implies `[]TypeOK`, `[]MutualExclusion`,
  `[]HoldAccounted`, `[]NoStraySignal`;
* `MutexImplementsFifoLock`: `Spec` implies `FifoSemaphore` with one permit, under
  the mapping of `Mutex` (`holders` are the threads that have the lock, `waiters`
  the threads of the queued nodes);
* all from `MutexInvariance`: `[]MutexInv`;
* `MutexNodesSafe`: `[]NodeSafety`, whatever the timing.

None of these is inductive by itself. That the lock belongs to exactly one
thread depends on who is "granted": dequeued, but not awake. Such a thread goes
in when its `pause()` ends, so nobody else's `pause()` may end, so no signal may
be on its way to a thread that is not granted, so the releaser that sends
signals must know that its waiter still sleeps. `MutexInv` says this in nine
parts (`HandOverInv` in `WaitQueue`): a waiter owns its node, flag down
(`OwnNode`); queued nodes are those of waiters, each once (`QueuedWaits`,
`QueuedOnce`); a releaser polls the node of a waiter until its flag is up, no
two poll one node, and some releaser polls for each granted waiter
(`PollsWaiter`, `PolledOnce`, `GrantedPolled`); before a signal the waiter
sleeps (`SleepsBeforeKill`), which is where the timing assumption enters; a
signal is under way, or a waiter awake, only while its sender looks at the flag
(`SignalWatched`, `SignalSpent`). Beside them stand the types, the exclusion of
the internal spinlock (`SectionInv`) and `HoldAccounted`.

`WaitQueueProofs` proves that every step of the shared machinery keeps these
parts (`QueueStepInv`), and what each step does to the set of threads that have
the lock (`LockKept`, `LockPassed`), one lemma per kind of step; `MutexProofs`
adds `hold`. TLC found `MutexInv` and `WaitQueueInv` to hold before they were
proved; since then the runs check what follows from them.

For the refinement each step is mapped: taking the free lock and giving it up
are the promise's own, inserting a node makes a thread join the line, removing
the first passes the permit on, and every other step leaves holders and line
alone. That a hand-over serves the *first* of the line rests on `QueuedWaits`:
the thread of the first node is a waiter, and of no other node.

Node safety without the timing assumption needs an invariant of its own, since a
stray signal breaks `HandOverInv`: in `NodeInv` a waiter owns its node, queued and
polled nodes are allocated, none is both, and no two releasers poll one. A
thread that leaves early has raised the flag of its own node only, which its
releaser then frees.

`SemaphoreProofs` reuses those lemmas for the semaphore, with any number of
permits and any finite set of threads (finite, because permits are counted with
`Cardinality`): `SemaphoreValueAccounted` and `SemaphoreBounds` state
`[]ValueAccounted` and `[]AtMostPermitsInside`. The inductive invariant
`SemaphoreInv` is `WaitQueueInv` with the types and `ValueAccounted`. The work
is in the counting: a hand-over takes one thread out of the holders and puts
another in (`CountPassed`), and `value` below one means that all permits are
held, so whoever queues queues behind full use (`ValueStep`).
`SemaphoreImplementsFifo` and `SemaphoreNodesSafe` are the counterparts of the
mutex's; `PromiseCounts` says that the promise, an instance, counts as
`FiniteSets` does.

The first part of `Pa3Proofs` is about `test_lock` and needs no timing assumption. `TestLockInv` ties each thread's
statement to where it stands in the spinlock (`PlacesFit`) and `testlock_held`
to the thread between its set and its clear (`MarkInv`); with the exclusion of
the spinlock it yields `SpinlockHoldAccounted` and `TestLockAssertionsHold` for
any number of testers.

`GuardedRingProofs` needs nothing but the assumptions on the constants. Its
invariant `RingInv` says, beside the types, that a thread in the middle of an
operation is the one in the critical section and runs an operation of its own
(`OpsInv`), which value it carries (`ValuesInv`), that main joins only threads that
are done (`JoinInv`), and, of the indices, that a store is under way only with
`rear` ahead of `front`, that a load leaves a cell free, and that the cells between
hold values (`CellsInv`). The provers know little of `%`: `Wrap` computes it for
the three intervals in which the code uses it, and `NextIndex`, `Distance` and
`Index` are the only facts about it that the rest cites. From the invariant follow

* `FetchedWasStored` and `FreedAfterLastUse`: `[]NoGarbageFetched`, `[]FreedUnused`;
* `RingIsAQueue`: `Spec` implies `BoundedFifo`. `Generate` offers, the store puts at
  the end, the load takes the head, `Count` counts, and no other step changes what
  the mapping shows, `front` and `rear` going around included;
* `NothingLost`: `[]Conservation`;
* `ResultAgrees`: when the counter has finished, RESULT and the GEN files agree,
  which is what the tests of the Makefile compare. This takes a count: what the
  counter has yet to count is what the generators have yet to enqueue and what is
  on its way (`Balance`), with both sides as cardinalities (`Owed`, `Done`).

The second part of `Pa3Proofs` shows that each of the three locks is as good as the ideal one
(`Pa3ImplementsGuardedRing`, under `PromptWakeup`). It instantiates
`MutexProofs` and `SemaphoreProofs` with the threads of `pa3`, so that their
step lemmas carry the lock's invariant through the steps of the ring, which do not
touch the lock (`LockUntouched`). What it adds is `AskInv`: a thread that has
asked for the lock still wants it when it gets it, also when it is handed over
later by somebody else. A step that lets a thread in is then an `Enter` of the
ideal lock, one that lets it go a `Leave`, and the rest of the lock is invisible.
`Pa3ResultMatches` draws the conclusion for the whole program: `ResultAgrees`
holds of `pa3` too, with each lock. This is the property that the run
`pa3_mutex_late` refutes without the assumption.

`BuddyProofs` holds for any `MAX_ORDER` and any number of pages. `BuddyInv` is the
types, alignment, `Partition` and `Coalesced`; together they are inductive, and
none is alone: a chunk may be merged with its buddy only because the two are
aligned and disjoint from all others, and the merged chunk has no free buddy only
because the loop stopped there. The theorems are `PagesPartitioned`,
`BuddiesMerged`, `RefusesOnlyWhenNoneFree`, `BuddyImplementsAllocator`,
`ListsStayQueues` and `IndexIsRefusal`, which state the properties of the run `buddy`,
and `NothingLeaks` and `HeapImplementsBuddy`, those of `buddy_heap`.
The argument about `Buddy` rests on these lemmas:

* *Powers of two.* The provers know nothing of `^`. That `2^i` is a natural number
  other than 0, and `2^(i+1)` twice `2^i`, is had by counting subsets with the
  library's `FS_SUBSET` (`PowerCounts`, `PowerStep`). Alignment is then a
  matter of remainders (`Gap`, `AlignedToo`, `StartNests`, `BuddyBack`).
* *One exchange.* The loops of `alloc_pages` and `free_pages` do the same thing in
  opposite directions: the chunk of order `hi` around a page is exchanged for the
  one of order `lo` and the buddies passed on the way. `Chain` says that these cover
  the same pages and are disjoint, `Exchange` that such an exchange keeps
  `Partition`. What a loop of several rounds does is argued about its first
  round that goes wrong (`Least`), where one would otherwise use induction.
* *Lists.* What inserting at the tail, taking the head and unlinking the first cell
  of a page do to the elements of a list and to their order (`AppendToList`,
  `TailOfList`, `RemoveFromList`).
* *Refusals.* A free chunk of the order or above serves the request (`FreeServes`).
  For the converse (`NoneFree`) suppose that an aligned chunk of the order is
  available while no free one is large enough. Of the free chunks within it
  take one of the smallest order: the chunk around it one order up lies within too,
  so the pages of its buddy are free, and the free chunk that has the first of them
  is either the buddy itself, against `Coalesced`, or larger, and then overlaps the
  one taken, against `Partition`.
* *Sums.* The index adds up list lengths with a fold, a recursion over sets. Its
  value is had without induction: if sets that do not overlap stand for the
  terms, the cardinality of their union solves the recursion (`CountsAreSums`), and
  no other function does, since the smallest set on which two solutions differ
  cannot be (`SumsAgree`). So the sums are numbers of pages (`FreePagesCount`,
  `HeldPagesCount`), and `Partition` makes free and held pages add up.

Its last part is about the linked lists of `BuddyHeap`, for any finite set of cells.
`ListIs` says of a sequence of cells that it is list `i`: `first`, `last` and
each `chunkPointer` lead from one to the next, no cell is in it twice, and all are
live and of order `i`. The memory is `Sound` if the walks along its pointers are such
lists. A walk is a recursive function, and what it finds is had without induction
as the sums are: a sequence that is list `i` solves its equation, and no other function
does (`CellsAre`). From there on the argument has three layers:

* *One list.* What inserting at the tail, removing the head and unlinking a cell do
  to `ListIs` (`ListInserted`, `ListRemoved`, `ListUnlinked`), the cases of an empty list,
  of one cell, and of the first or last cell included.
* *The memory.* What `insertChunkList`, `removeChunkList`, the unlinking, `malloc`
  and `free` do to all lists and to the set of cells listed (`InsertKeeps`,
  `RemoveKeeps`, `UnlinkKeeps`, `MallocKeeps`, `FreeCellKeeps`). That two lists share no
  cell follows from the order each cell carries.
* *The calls.* `HeapInv` says what each loop has done so far: `FirstChunks(k)` after `k`
  rounds of `init_buddy`; `SplitTo(order, lev)` when the chunk of a request has been
  halved down to `lev`, the last left half in hand; `MergedTo(op, lev)` when the freed
  chunk has been merged up to `lev`. Its first part, `CellsInv`, is `NoLeak` with
  `Sound`. That the buddy found first in a list is the one to unlink needs
  `Partition` (no page is listed twice), so `HeapInv` is inductive with `BuddyInv`
  only: each step that ends a call is a step of `Buddy` (`HeapStep`), which keeps
  `BuddyInv`, and each other step leaves `chunks` and `ops` alone.

`MyshProofs` is about the shell, for any numbers of processes and sockets, in
three parts.

*The job, under every mishap.* `ShellKeepsItsJob`, `[]JobTracked`: failed forks,
second shells, signals and `kill -1` included. `JobTracked` alone is not inductive: a process
number is used again, and a new process could find jobs that are its children,
or a shell that comes back from `fg` clear `bgOpen` over a living job. So `JobInv`
adds that parents are alive (`ParentsAlive`: init adopts the rest) and that there
is no job where the code takes none to exist (`NoJobThere`: behind `fork` in the
child, after `fg` has waited, and where the command `exit` leaves), besides the shape of the tables. Every step but
`fork` leaves each process with no children it did not have (`NoNewChildren`:
`TableKept`, `WaitBringsNone`, `EndBringsNone`), and then only the process that
moves has to be looked at (`StepKeepsJobs`); `ForkAddsJob` and `ForkKeepsJobs` deal
with the rest. That `waitpid(pbg)` leaves no job (`WaitEndsJob`) is what lets
`checkbgDone` and `fg` clear `bgOpen` and `exit` leave; where `pbg` is -1, there is
no job. The first half of `NoZombieAtExit`, no job is left, follows for every session.

*The terminal.* A shell that reads has the terminal because of all shells only
one is at work. `Cast` says who may be there: where a process stands tells what it
is (`Roles`), the first shell is the only one of its kind (`FirstShell`), shells
and programs in the foreground are in its group (`OneGroup`), a parent waits for
its child in the foreground (`Awaited`), and at most one child is or may become
a second shell (`OneSubShell`, and none unless `execv` fails: `NeedsExec`). So the
terminal is the shell's, or a shell stands in `fg` and will take it back, or no
shell is left (`TakenBack`). `PromptKeepsTerminal` proves `PromptHasTerminal`
except in sessions in which a second shell may be there *and* signals may end
shells (`NoSubShellKilled`): when a second shell is killed while its `fg` has lent
the terminal to the job, nobody takes it back for the first one. TLC finds that
when a session with both is added; the sessions of the run `mysh` have one or the
other, so there the property holds as it stands.

*Calm sessions.* `Order` holds of them, and is inductive with `JobInv` and `Cast`.
Its first half, `LoopOrder`, is about the loop: `bgOpen` means a job until it has been
waited for (`Held`), `exit` kills only if there is one and leaves with none
(`Exits`), the shell waits for a child of its own (`WaitsForOwn`), and a pipe starts
in a shell that is alone (`Quiet`). The second, `PipeOrder`, is about the two
threads: `Stage` lists the seven combinations of places that they pass through,
with `syncToken`, the child and the socket that belong to each; everybody else has no
token, no commands and no socket (`Plain`); there is one pipe at a time
(`OnePipe`), no first command but its own is left (`OwnFirst`), and a connection
waits for the server of its own process (`Connected`). From it follow
`ExitKillsOwnJob`, `ExitLeavesNoZombie`, `SecondWaits` and `PipeIsItsOwn`.

`CommandLineProofs` is about the parser and the path search, for lines and paths
of any length over any characters (`LinesAssumption`: those that the parser tells
apart are among them). `Inv` has six parts:

* `TypeInv`, `StageInv`: types, and which of the arrays exist at each place;
* `HeapInv`: the cells still to be freed are those of the words. With them it
  yields `FreedOnce`, `[]EachWordFreedOnce`;
* `ParseInv`: where the parser stands at character `i`, the words and names so far
  are those that the line up to `i` spells: `ParsedTo` between words or in one,
  `QuotedTo` in a quote. `ParsedAsTyped` draws `[]WordsAsTyped` from it;
* `PathInv`: the entries so far are the pieces of `PATH` between the colons before
  `i` (`EntriesTo`), and none of the entries searched so far has the file. It yields
  `FoundFirst`, `[]FirstInPath`;
* `CommandInv`: the two commands of a pipe are the words before and behind the first
  bar, with the names resolved. It yields `RunAsTyped`, `[]Understood`, and
  `NullIsMissingCommand`, `[]NullWhenNoCommand`.

The reference `Words` lists positions in order (`InOrder`), and the parser finds
them one by one. What joins the two is `InOrderIs` (the list is the one that
increases and has exactly these elements) and `InOrderGrows` (a position behind
all others goes to the end); from them follow the steps of words (`WordsGrow`),
entries (`EntriesGrow`) and quotes, whose number before a position decides what
is quoted (`QuotesGrow`, `ParityChanges`).

The invariants of the ring, the allocator, the shell and the parser were each checked by TLC
on the instance of their run before they were proved; since then the runs check
what follows from them.

*Only model-checked.* Liveness, which needs fairness and ENABLED, is beyond the
prover: that waiters get the lock, that the tester, the rings and `pa3` end, and that
commands of the shell return is shown on the instances of the runs. So is
`PromptHasTerminal` in the sessions that `PromptKeepsTerminal` leaves out.
Every other property of a run that must pass is a theorem.

## 5. Not modelled

* The generators, which the repository does not have, are modelled as their
  users need them. Option parsing fills in globals, here constants. `test.c`
  prints the table in the comment of `atomic.h`. The vendored `queue.h` is macros;
  a TAILQ is a sequence. Tests and samples are data.
* `CommandLine` is about lines whose first word is no builtin (in `pwd | a` the code
  ignores the bar) and a `PATH` that is set. `KillCommand` names no shell and no
  negative number. A forked child is given only the part of the shell's memory that
  it still reads; `syncToken` is 0 whenever the shell forks a job.
* MyLock uses one lock at a time: that all locks share one global queue is
  therefore not visible in the models.
* Of the shell: `pwd` and `cd` change nothing that is modelled; descriptors, the
  contents of sockets and the lengths of the fixed buffers are left out, and so
  are failures of `socket`, `listen` and `accept` themselves and the terminal's own
  signals. The kernel is written from how the shell uses it.
* Messages and printing everywhere.

## 6. Plan

What the plan of the models named is there, and so are the proofs of the safety
properties. Left are:

1. `PromptHasTerminal` is proved for all sessions but one kind; the remaining
   kind could be a run of its own.
2. One global queue for every mutex and semaphore: a program that uses two locks at
   once, for which `locks.c` was not written, is not modelled.
