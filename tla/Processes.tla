----------------------------- MODULE Processes ------------------------------
(***************************************************************************)
(* The kernel as the shell of AdvMysh uses it: fork, wait and waitpid,     *)
(* exit, kill, process groups.  None of this is code of the repository.    *)
(* A process has a line in the process table and a memory, which for the   *)
(* shell holds its globals and where its threads stand.                    *)
(***************************************************************************)
EXTENDS Integers

CONSTANTS
  Pids,      \* process numbers
  Sessions   \* the sets of mishaps a session may be exposed to, out of
             \* "fork": fork fails; "exec": a file that exists does not execute;
             \* "overlap": a pipeline is started beside another job;
             \* "large": a first command writes more than a socket buffers;
             \* "term": a shell gets SIGTERM, SIGHUP or SIGQUIT;
             \* "kill": the command kill names a process

ASSUME ProcessesAssumption ==
  /\ Pids \subseteq Nat \ {0}
  /\ Sessions \subseteq SUBSET {"fork", "exec", "overlap", "large", "term", "kill"}

VARIABLES
  may,     \* the mishaps of this session
  proc,    \* the process table
  mem,     \* mem[p]: the memory of p
  term     \* the process group the terminal belongs to

\* A number no process has; init, which adopts orphans, is number 0.
Free == [status |-> "free", parent |-> 0, group |-> 0, kind |-> "none", listens |-> 0]

\* A program's memory; of mysh: the main thread's place, the command it runs,
\* the globals, the pid it waits for, and where the two threads of a pipe are.
Blank == [pc |-> "none", cmd |-> "none", bgOpen |-> 0, pbg |-> 0, waits |-> 0,
          syncToken |-> 0, server |-> "none", client |-> "none"]

Alive(p) == proc[p].status = "run"

Children(p) == {c \in Pids : proc[c].status # "free" /\ proc[c].parent = p}

\* The children waitpid(w) is about: one, or with -1 all of them.
Named(p, w) == IF w = -1 THEN Children(p) ELSE Children(p) \cap {w}

\* What fork may return to the parent.
ForkAnswers == Pids \cup {-1}

\* p calls fork: parent[pid] is its memory afterwards, child that of the child.
Fork(p, kind, parent, child) ==
  \/ \E c \in Pids :
       /\ proc[c].status = "free"
       /\ \A d \in Pids : proc[d].status = "free" => c <= d
       /\ proc' = [proc EXCEPT ![c] = [proc[p] EXCEPT !.parent = p, !.kind = kind]]
       /\ mem' = [mem EXCEPT ![p] = parent[c], ![c] = child]
  \/ /\ "fork" \in may
     /\ mem' = [mem EXCEPT ![p] = parent[-1]]
     /\ UNCHANGED proc

\* One of the children named has ended: its number is free again.
Reap(p, w) ==
  \E c \in Named(p, w) : proc[c].status = "zombie" /\ proc' = [proc EXCEPT ![c] = Free]

\* waitpid(w) without WNOHANG returns: a child, or an error, as there is none.
WaitReturns(p, w) == Reap(p, w) \/ (Named(p, w) = {} /\ UNCHANGED proc)

\* waitpid(w) with WNOHANG returns 0.
StillRunning(p, w) == Named(p, w) # {} /\ \A c \in Named(p, w) : Alive(c)

\* The process table when the processes in P have ended: zombies until their
\* parents wait, while init adopts their children and waits for those that ended.
Without(P) ==
  LET parent(c) == IF proc[c].parent \in P THEN 0 ELSE proc[c].parent
      ended(c) == proc[c].status = "zombie" \/ c \in P
  IN [c \in Pids |->
        IF proc[c].status = "free" \/ (ended(c) /\ parent(c) = 0) THEN Free
        ELSE IF ended(c)
          THEN [proc[c] EXCEPT !.status = "zombie", !.listens = 0, !.parent = parent(c)]
        ELSE [proc[c] EXCEPT !.parent = parent(c)]]

Forget(P) == [c \in Pids |-> IF c \in P THEN Blank ELSE mem[c]]

Exit(p) == proc' = Without({p}) /\ mem' = Forget({p})

\* kill(w, SIGKILL) by p, which goes on with memory m; -1 is every process but
\* p.  A bound: the signal is delivered before kill returns.
Kill(p, w, m) ==
  LET victims == {c \in Pids : Alive(c) /\ (c = w \/ (w = -1 /\ c # p))}
  IN proc' = Without(victims) /\ mem' = [Forget(victims) EXCEPT ![p] = m]

=============================================================================
