-------------------------------- MODULE Mysh --------------------------------
(***************************************************************************)
(* The shell of AdvMysh: the loop of mysh.c with its one background job,   *)
(* fg, kill and exit, around the pipe of fs.c.  A child whose execv fails  *)
(* goes on in the loop as a second shell on the same input, so all state   *)
(* is per process.  Commands are told apart by what the shell does with    *)
(* them; a builtin in the foreground changes only the working directory    *)
(* and counts, like a command not found, as "nothing".                     *)
(***************************************************************************)
EXTENDS Pipe

CONSTANT Shell  \* the number of the shell the session starts with

ASSUME MyshAssumption == Shell \in Pids

vars == <<may, proc, mem, term, pipeVars>>

\* Who started the first shell, and never takes note of its end.
Login == -2

\* "job" is a builtin or a program with &, "pipe_job" a pipe with &.
Commands == {"nothing", "program", "job", "pipe", "pipe_job", "kill", "fg"}

\* Where the main thread of a shell stands.
ShellPlaces ==
  {"read", "poll", "again", "act", "waitpid", "join", "fgwait", "fgback",
   "killjob", "reapjob", "leave"}

IsShell(p) == mem[p].pc \in ShellPlaces /\ proc[p].kind \in {"shell", "foreground"}

At(p, pc) == Alive(p) /\ mem[p].pc = pc
Go(p, pc) == mem' = [mem EXCEPT ![p].pc = pc]

\* The loop comes round.  What nobody will look at again is not kept: the last
\* command, and pbg without bgOpen.
Back(m) == [m EXCEPT !.pc = "read", !.cmd = "none",
                     !.pbg = IF m.bgOpen = 1 THEN @ ELSE 0]

Init ==
  /\ may \in Sessions
  /\ proc = [p \in Pids |-> IF p = Shell
               THEN [status |-> "run", parent |-> Login, group |-> Shell, kind |-> "shell", listens |-> 0]
               ELSE Free]
  /\ mem = [p \in Pids |-> IF p = Shell THEN [Blank EXCEPT !.pc = "read"] ELSE Blank]
  /\ term = Shell
  /\ PipeInit

-----------------------------------------------------------------------------
(* The head of the loop.                                                   *)

\* A bound on pipes.  A careful user starts one when nothing else is at work,
\* the others when no command of an earlier pipe of the same shell is.
PipeMayBegin(s) ==
  \A p \in Pids : Alive(p) =>
    \/ IsShell(p)
    \/ "overlap" \in may /\ (proc[p].kind = "job" \/ proc[p].parent # s)

\* s waits for a line.  Two bounds: the session ends with its first shell, and
\* nobody types while processes are at work whose parents are gone.
Reading(s) ==
  /\ At(s, "read") /\ IsShell(s)
  /\ Alive(Shell)
  /\ \A c \in Pids : Alive(c) => proc[c].parent # 0

\* fgets and parse_command: any command may come, also the end of the input.
ReadCommand(s) ==
  /\ Reading(s)
  /\ \E c \in Commands :
       /\ c \in {"pipe", "pipe_job"} => PipeMayBegin(s)
       /\ mem' = [mem EXCEPT ![s].cmd = c, ![s].pc = "poll"]
  /\ UNCHANGED <<may, proc, term, pipeVars>>

\* The input ends: the loop is left without a look at the job.
ReadEof(s) ==
  /\ Reading(s)
  /\ mem' = [mem EXCEPT ![s].cmd = "eof", ![s].pc = "leave"]
  /\ UNCHANGED <<may, proc, term, pipeVars>>

\* The command exit.
ReadExit(s) ==
  /\ Reading(s)
  /\ mem' = [mem EXCEPT ![s].cmd = "exit",
                        ![s].pc = IF mem[s].bgOpen = 1 THEN "killjob" ELSE "leave"]
  /\ UNCHANGED <<may, proc, term, pipeVars>>

\* Fault: the answer of waitpid is not looked at.
CheckWithoutAnswer(s) ==
  /\ At(s, "poll")
  /\ mem' = [mem EXCEPT ![s].bgOpen = 0, ![s].pc = "act"]
  /\ UNCHANGED <<may, proc, term, pipeVars>>

\* checkbgDone: no job, or waitpid(pbg, NULL, WNOHANG) returns 0.
CheckRunning(s) ==
  /\ At(s, "poll")
  /\ mem[s].bgOpen = 1 => StillRunning(s, mem[s].pbg)
  /\ Go(s, "act")
  /\ UNCHANGED <<may, proc, term, pipeVars>>

\* checkbgDone: waitpid returns the job, or that there is no such child.
CheckDone(s) ==
  /\ At(s, "poll")
  /\ mem[s].bgOpen = 1
  /\ WaitReturns(s, mem[s].pbg)
  /\ mem' = [mem EXCEPT ![s].bgOpen = 0, ![s].pc = "again"]
  /\ UNCHANGED <<may, term, pipeVars>>

\* checkbgDone: the second waitpid, which finds nothing if pbg is a pid.
CheckAgain(s) ==
  /\ At(s, "again")
  /\ WaitReturns(s, mem[s].pbg)
  /\ Go(s, "act")
  /\ UNCHANGED <<may, term, pipeVars>>

-----------------------------------------------------------------------------
(* The commands.                                                           *)

Acting(s, cmds) == At(s, "act") /\ mem[s].cmd \in cmds

DoNothing(s) ==
  /\ Acting(s, {"nothing"})
  /\ mem' = [mem EXCEPT ![s] = Back(@)]
  /\ UNCHANGED <<may, proc, term, pipeVars>>

\* A job is refused while another is there.
RefuseJob(s) ==
  /\ Acting(s, {"job", "pipe_job"})
  /\ mem[s].bgOpen = 1
  /\ mem' = [mem EXCEPT ![s] = Back(@)]
  /\ UNCHANGED <<may, proc, term, pipeVars>>

\* bgOpen = 1 and pbg = fork(), for a builtin, a program or a pipe.
StartJob(s) ==
  /\ Acting(s, {"job", "pipe_job"})
  /\ mem[s].bgOpen # 1
  /\ Fork(s, "job",
          [pid \in ForkAnswers |-> Back([mem[s] EXCEPT !.bgOpen = 1, !.pbg = pid])],
          [Blank EXCEPT !.pc = "born", !.cmd = mem[s].cmd])
  /\ UNCHANGED <<may, term, pipeVars>>

\* A program in the foreground, whose pid the shell waits for.
StartProgram(s) ==
  /\ Acting(s, {"program"})
  /\ Fork(s, "foreground",
          [pid \in ForkAnswers |-> [mem[s] EXCEPT !.waits = pid, !.pc = "waitpid"]],
          [mem[s] EXCEPT !.pc = "exec"])
  /\ UNCHANGED <<may, term, pipeVars>>

ProgramDone(s) ==
  /\ At(s, "waitpid")
  /\ WaitReturns(s, mem[s].waits)
  /\ mem' = [mem EXCEPT ![s] = Back([@ EXCEPT !.waits = 0])]
  /\ UNCHANGED <<may, term, pipeVars>>

\* doUdpPipe in the foreground: both threads are created, and joined.
StartPipeHere(s) ==
  /\ Acting(s, {"pipe"})
  /\ mem' = [mem EXCEPT ![s] = StartPipe(@)]
  /\ UNCHANGED <<may, proc, term, pipeVars>>

PipeDone(s) ==
  /\ At(s, "join") /\ IsShell(s)
  /\ Joined(s)
  /\ mem' = [mem EXCEPT ![s] = Back([@ EXCEPT !.server = "none", !.client = "none"])]
  /\ UNCHANGED <<may, proc, term, pipeVars>>

\* do_kill of any process but a shell; 0 is the number it refuses.  Bounds: no
\* shell is named, and no negative number.
KillCommand(s) ==
  /\ Acting(s, {"kill"})
  /\ \E v \in {0} \cup {c \in Pids : "kill" \in may /\ ~IsShell(c)} :
       Kill(s, v, Back(mem[s]))
  /\ HangUp
  /\ UNCHANGED <<may, term, name>>

\* fg looks at the job once more.
FgChecks(s) ==
  /\ Acting(s, {"fg"})
  /\ mem' = [mem EXCEPT ![s].cmd = "fg_checked", ![s].pc = "poll"]
  /\ UNCHANGED <<may, proc, term, pipeVars>>

FgNoJob(s) ==
  /\ Acting(s, {"fg_checked"})
  /\ mem[s].bgOpen # 1
  /\ mem' = [mem EXCEPT ![s] = Back(@)]
  /\ UNCHANGED <<may, proc, term, pipeVars>>

\* The job's group, as it is now, gets the terminal; a pid of nobody changes nothing.
FgGives(s) ==
  /\ Acting(s, {"fg_checked"})
  /\ mem[s].bgOpen = 1
  /\ term' = IF \E c \in Pids : c = mem[s].pbg /\ proc[c].status # "free"
               THEN proc[mem[s].pbg].group ELSE term
  /\ Go(s, "fgwait")
  /\ UNCHANGED <<may, proc, pipeVars>>

FgWaits(s) ==
  /\ At(s, "fgwait")
  /\ WaitReturns(s, mem[s].pbg)
  /\ Go(s, "fgback")
  /\ UNCHANGED <<may, term, pipeVars>>

\* Fault: the terminal stays with the group of the job.
FgKeepsTerminal(s) ==
  /\ At(s, "fgback")
  /\ mem' = [mem EXCEPT ![s] = Back([@ EXCEPT !.bgOpen = 0])]
  /\ UNCHANGED <<may, proc, term, pipeVars>>

\* Fault: bgOpen is left as it was.
FgKeepsOpen(s) ==
  /\ At(s, "fgback")
  /\ term' = proc[s].group
  /\ mem' = [mem EXCEPT ![s] = Back(@)]
  /\ UNCHANGED <<may, proc, pipeVars>>

\* The shell's own group takes the terminal back.
FgTakesBack(s) ==
  /\ At(s, "fgback")
  /\ term' = proc[s].group
  /\ mem' = [mem EXCEPT ![s] = Back([@ EXCEPT !.bgOpen = 0])]
  /\ UNCHANGED <<may, proc, pipeVars>>

-----------------------------------------------------------------------------
(* The way out.                                                            *)

KillJob(s) ==
  /\ At(s, "killjob")
  /\ Kill(s, mem[s].pbg, [mem[s] EXCEPT !.pc = "reapjob"])
  /\ HangUp
  /\ UNCHANGED <<may, term, name>>

\* Fault: the job killed is not waited for.
LeaveJob(s) ==
  /\ At(s, "reapjob")
  /\ Go(s, "leave")
  /\ UNCHANGED <<may, proc, term, pipeVars>>

ReapJob(s) ==
  /\ At(s, "reapjob")
  /\ WaitReturns(s, mem[s].pbg)
  /\ Go(s, "leave")
  /\ UNCHANGED <<may, term, pipeVars>>

\* zombieAlert: one zombie is looked for, then the shell ends.
Leave(s) ==
  /\ At(s, "leave")
  /\ Exit(s) /\ HangUp
  /\ UNCHANGED <<may, term, name>>

\* SIGTERM, SIGHUP or SIGQUIT: the same handler, at any moment.
Terminate(s) ==
  /\ "term" \in may
  /\ Alive(s) /\ IsShell(s)
  /\ Exit(s) /\ HangUp
  /\ UNCHANGED <<may, term, name>>

-----------------------------------------------------------------------------
(* The children.                                                           *)

\* The job leaves the shell's group, then executes, or starts the threads.
SetGroup(c) ==
  /\ At(c, "born")
  /\ proc' = [proc EXCEPT ![c].group = c]
  /\ mem' = [mem EXCEPT ![c] = IF @.cmd = "pipe_job" THEN StartPipe(@)
                               ELSE [Blank EXCEPT !.pc = "program"]]
  /\ UNCHANGED <<may, term, pipeVars>>

PipeJobDone(c) ==
  /\ At(c, "join") /\ ~IsShell(c)
  /\ Joined(c)
  /\ Exit(c) /\ HangUp
  /\ UNCHANGED <<may, term, name>>

Exec(c) ==
  /\ At(c, "exec")
  /\ mem' = [mem EXCEPT ![c] = [Blank EXCEPT !.pc = "program"]]
  /\ UNCHANGED <<may, proc, term, pipeVars>>

\* execv returns, and so does the child, to the head of the loop.
ExecFails(c) ==
  /\ At(c, "exec")
  /\ "exec" \in may /\ proc[c].parent = Shell
  /\ mem' = [mem EXCEPT ![c] = Back(@)]
  /\ UNCHANGED <<may, proc, term, pipeVars>>

\* A program ends; a first command with much to say needs a reader.
ProgramEnds(c) ==
  /\ At(c, "program")
  /\ proc[c].kind = "first" /\ "large" \in may =>
       \E d \in Pids : Alive(d) /\ proc[d].kind = "second"
  /\ Exit(c) /\ HangUp
  /\ UNCHANGED <<may, term, name>>

-----------------------------------------------------------------------------

\* What the user and the world do to a shell.
Input(s) == ReadCommand(s) \/ ReadEof(s) \/ ReadExit(s) \/ Terminate(s)

ShellStep(s) ==
  \/ CheckRunning(s) \/ CheckDone(s) \/ CheckAgain(s)
  \/ DoNothing(s) \/ RefuseJob(s) \/ StartJob(s) \/ StartProgram(s) \/ ProgramDone(s)
  \/ StartPipeHere(s) \/ PipeDone(s) \/ KillCommand(s)
  \/ FgChecks(s) \/ FgNoJob(s) \/ FgGives(s) \/ FgWaits(s) \/ FgTakesBack(s)
  \/ KillJob(s) \/ ReapJob(s) \/ Leave(s)

ChildStep(c) ==
  SetGroup(c) \/ PipeJobDone(c) \/ Exec(c) \/ ExecFails(c) \/ ProgramEnds(c)

Next ==
  \E p \in Pids :
    Input(p) \/ ShellStep(p) \/ ChildStep(p) \/ ServerStep(p) \/ ClientStep(p)

Spec == Init /\ [][Next]_vars

\* Processes and threads run, signals arrive, and programs end; the user need
\* not type anything.
Fairness ==
  \A p \in Pids :
    /\ WF_vars(ShellStep(p))
    /\ WF_vars(ChildStep(p))
    /\ WF_vars(ServerStep(p))
    /\ WF_vars(ClientStep(p))

FairSpec == Spec /\ Fairness

-----------------------------------------------------------------------------
(* Properties                                                              *)

Statuses == {"free", "run", "zombie"}
Kinds == {"none", "shell", "foreground", "job", "first", "second"}
Places == ShellPlaces \cup {"none", "born", "exec", "program"}
CommandsSeen == Commands \cup {"none", "eof", "exit", "fg_checked"}
ServerPlaces == {"none", "unlink", "bind", "accept", "fork", "wait", "close", "done"}
ClientPlaces == {"none", "connect", "spin", "fork", "wait", "done"}

ProcType ==
  [status : Statuses, parent : Pids \cup {0, Login}, group : Pids \cup {0},
   kind : Kinds, listens : Sockets \cup {0}]

MemType ==
  [pc : Places, cmd : CommandsSeen, bgOpen : {0, 1},
   pbg : Pids \cup {-1, 0}, waits : Pids \cup {-1, 0}, syncToken : {0, 1},
   server : ServerPlaces, client : ClientPlaces]

TypeOK ==
  /\ proc \in [Pids -> ProcType] /\ mem \in [Pids -> MemType]
  /\ term \in Pids \cup {0}
  /\ name \in Sockets \cup {0} /\ backlog \in [Sockets -> SUBSET Pids]

\* No mishap that makes waits and pids go wrong.
Calm == may \subseteq {"large", "kill"}

\* Whatever goes wrong, the shell never loses sight of a job: while its
\* background process exists, bgOpen is 1 and pbg its number.  So there is one
\* job at most.  (mysh.c 30-41, 105-106, 187-188; fs.c 150-151)
JobTracked ==
  \A s, c \in Pids : IsShell(s) /\ proc[c].kind = "job" /\ c \in Children(s) =>
    mem[s].bgOpen = 1 /\ mem[s].pbg = c

\* In a calm session the command exit kills and waits for the shell's own job
\* and for nothing else.  (mysh.c 80-84)
KillsOwnJob ==
  \A s \in Pids : Calm /\ mem[s].pc \in {"killjob", "reapjob"} =>
    mem[s].pbg \in Children(s) /\ proc[mem[s].pbg].kind = "job"

\* When the command exit leaves, the job has been waited for, whatever went
\* wrong before; in a calm session so has every other child, and zombieAlert
\* finds nothing.  (mysh.c 43-50, 78-86, 210)
NoZombieAtExit ==
  \A s \in Pids : mem[s].pc = "leave" /\ mem[s].cmd = "exit" =>
    /\ \A c \in Children(s) : proc[c].kind # "job"
    /\ Calm => Children(s) = {}

\* A shell that reads has the terminal, whatever fg did.  (mysh.c 130-134)
PromptHasTerminal ==
  \A s \in Pids : mem[s].pc = "read" => term = proc[s].group

\* The second command of a pipe starts when the first has ended.  (fs.c 91-93,
\* 118)
SecondWaitsForFirst ==
  \A h, c \in Pids : mem[h].client = "fork" =>
    ~(proc[c].kind = "first" /\ proc[c].status # "free" /\ c \in Children(h))

SecondWaitsInCalm == Calm => SecondWaitsForFirst

\* The fixed name leads each client to the server of its own pipe.  (fs.c
\* 45-71, 112-116)
WiredToItself ==
  Calm => \A h \in Pids, k \in Sockets :
    h \in backlog[k] /\ mem[h].client = "spin" /\ Alive(h) =>
      mem[h].server = "accept" /\ proc[h].listens = k

\* A command typed at the first shell comes to an end, or a signal ends the
\* shell: no wait, join or spin of the loop is for ever, unless execv fails, two
\* pipes overlap, or a first command has too much to say.  (mysh.c 71-206; fs.c
\* 37-164)
CommandReturns ==
  may \subseteq {"fork", "kill", "term"} /\ mem[Shell].pc # "read" ~> mem[Shell].pc \in {"read", "none"}

=============================================================================
