---------------------------- MODULE MyshProofs -----------------------------
(***************************************************************************)
(* The shell of AdvMysh, for any number of processes and sockets, in three *)
(* parts.                                                                  *)
(*                                                                         *)
(* The job: whatever mishaps befall a session, the shell never loses sight *)
(* of its background process.  Most steps leave a process with no more     *)
(* children than it had (StepKeepsJobs); what is left is fork.             *)
(*                                                                         *)
(* The terminal: who may be at work at all (Cast), so that of all shells   *)
(* one runs (OneAtWork), and it alone lends the terminal out (TakenBack).  *)
(*                                                                         *)
(* A calm session: the order its loop and its pipes keep (Order), from     *)
(* which follow what exit kills and leaves, and that the two commands of a *)
(* pipe find each other and run one after the other.                       *)
(***************************************************************************)
EXTENDS Mysh, TLAPS

\* The part of TypeOK that is about processes.
Shape == proc \in [Pids -> ProcType] /\ mem \in [Pids -> MemType]

JobsOf(s) == {c \in Children(s) : proc[c].kind = "job"}

\* A process whose parent ended is init's.
ParentsAlive == \A s, c \in Pids : c \in Children(s) => Alive(s)

\* The process of a job is the one pbg names, and bgOpen says so.
Tracked == \A s \in Pids : \A c \in JobsOf(s) : mem[s].bgOpen = 1 /\ mem[s].pbg = c

\* Where there is no job yet, or none any more, and the memory of a process
\* that is there; only the command exit leaves without one.
Jobless == {"exec", "born", "fgback", "leave"}

WithoutJob(m) == m.pc \in Jobless /\ (m.pc = "leave" => m.cmd = "exit")

NoJobThere == \A s \in Pids : WithoutJob(mem[s]) => JobsOf(s) = {}

\* The inductive invariant.
JobInv == Shape /\ ParentsAlive /\ Tracked /\ NoJobThere

\* No process has a child it did not have before, and parents live.
NoNewChildren ==
  \A s, c \in Pids : c \in Children(s)' =>
    c \in Children(s) /\ proc'[c].kind = proc[c].kind /\ Alive(s)'

-----------------------------------------------------------------------------
(* What the kernel does to the process table.                              *)

\* A step that leaves the table alone brings no children.
LEMMA TableKept ==
  ASSUME ParentsAlive, UNCHANGED proc
  PROVE  NoNewChildren
PROOF
  BY DEF ParentsAlive, NoNewChildren, Children, Alive

\* Nor does a wait.
LEMMA WaitBringsNone ==
  ASSUME Shape, ParentsAlive, NEW s \in Pids, NEW w, WaitReturns(s, w)
  PROVE  NoNewChildren
PROOF
  <1>1. CASE UNCHANGED proc
    BY <1>1, TableKept
  <1>2. CASE Reap(s, w)
    <2>1. PICK z \in Pids : proc[z].status = "zombie" /\ proc' = [proc EXCEPT ![z] = Free]
      BY <1>2 DEF Reap, Named, Children
    <2> QED
      BY <2>1 DEF Shape, ProcType, Free, NoNewChildren, ParentsAlive, Children, Alive
  <1> QED
    BY <1>1, <1>2 DEF WaitReturns

\* A wait for the job leaves no job.
LEMMA WaitEndsJob ==
  ASSUME Shape, Tracked, NEW s \in Pids, WaitReturns(s, mem[s].pbg)
  PROVE  JobsOf(s)' = {}
PROOF
  <1>1. CASE Named(s, mem[s].pbg) = {} /\ UNCHANGED proc
    <2>1. \A c \in JobsOf(s) : c \in Named(s, mem[s].pbg)
      BY DEF Tracked, JobsOf, Named, Children
    <2> QED
      BY <1>1, <2>1 DEF JobsOf, Children
  <1>2. CASE Reap(s, mem[s].pbg)
    <2>1. PICK z \in Named(s, mem[s].pbg) : proc' = [proc EXCEPT ![z] = Free]
      BY <1>2 DEF Reap
    <2>2. z \in Pids /\ \A c \in JobsOf(s) : c = mem[s].pbg
      BY <2>1 DEF Tracked, Named, Children
    <2>3. \A c \in JobsOf(s) : c = z
      BY <2>1, <2>2, ProcessesAssumption DEF Named, JobsOf, Children
    <2>4. JobsOf(s)' \subseteq JobsOf(s) \ {z}
      BY <2>1, <2>2 DEF JobsOf, Children, Shape, ProcType, Free
    <2> QED
      BY <2>3, <2>4
  <1> QED
    BY <1>1, <1>2 DEF WaitReturns

\* Processes that end take no children along and leave theirs to init.
LEMMA EndBringsNone ==
  ASSUME Shape, ParentsAlive, NEW P \in SUBSET Pids, proc' = Without(P)
  PROVE  NoNewChildren /\ \A q \in P : Children(q)' = {}
PROOF
  <1>1. \A c \in Pids : proc'[c].status # "free" =>
          /\ proc[c].status # "free" /\ proc'[c].kind = proc[c].kind
          /\ proc'[c].parent = IF proc[c].parent \in P THEN 0 ELSE proc[c].parent
    BY DEF Without, Free, Shape, ProcType
  <1>2. \A s \in Pids \ P : Alive(s) => Alive(s)'
    BY DEF Without, Alive, Shape, ProcType
  <1>3. 0 \notin Pids
    BY ProcessesAssumption
  <1>4. \A s, c \in Pids : c \in Children(s)' => c \in Children(s) /\ s \notin P
    BY <1>1, <1>3 DEF Children
  <1> QED
    BY <1>1, <1>2, <1>4 DEF NoNewChildren, ParentsAlive, Children

-----------------------------------------------------------------------------
(* What a step may do to the memories.                                     *)

\* A step that brings no children keeps the invariant if it changes one live
\* process, p, and p still tells its job.
LEMMA StepKeepsJobs ==
  ASSUME JobInv, Shape', NoNewChildren, NEW p \in Pids,
         \A q \in Pids \ {p} : mem'[q] = mem[q] \/ Children(q)' = {},
         \A c \in JobsOf(p)' : mem'[p].bgOpen = 1 /\ mem'[p].pbg = c,
         WithoutJob(mem'[p]) => JobsOf(p)' = {}
  PROVE  JobInv'
PROOF
  <1>1. ParentsAlive'
    BY DEF NoNewChildren, ParentsAlive
  <1>2. \A s \in Pids : JobsOf(s)' \subseteq JobsOf(s)
    BY DEF NoNewChildren, JobsOf, Children
  <1>3. \A s \in Pids : JobsOf(s)' # {} => s = p \/ mem'[s] = mem[s]
    BY DEF JobsOf
  <1>4. Tracked'
    BY <1>2, <1>3 DEF JobInv, Tracked
  <1>5. NoJobThere'
    BY <1>2, <1>3 DEF JobInv, NoJobThere
  <1> QED
    BY <1>1, <1>4, <1>5 DEF JobInv

\* A fork brings the child, which has no children, and changes the parent.
LEMMA ForkKeepsJobs ==
  ASSUME JobInv, Shape', NEW p \in Pids, Alive(p), NEW kind, NEW parent, NEW child,
         Fork(p, kind, parent, child),
         \A c \in JobsOf(p)' : mem'[p].bgOpen = 1 /\ mem'[p].pbg = c,
         WithoutJob(mem'[p]) => JobsOf(p)' = {}
  PROVE  JobInv'
PROOF
  <1>1. CASE UNCHANGED proc /\ mem' = [mem EXCEPT ![p] = parent[-1]]
    BY <1>1, TableKept, StepKeepsJobs DEF JobInv, Shape
  <1>2. ASSUME NEW c \in Pids, proc[c].status = "free",
               proc' = [proc EXCEPT ![c] = [proc[p] EXCEPT !.parent = p, !.kind = kind]],
               mem' = [mem EXCEPT ![p] = parent[c], ![c] = child]
        PROVE  JobInv'
    <2> USE DEF JobInv, Shape, ProcType
    <2>1. c # p /\ Children(c) = {}
      BY <1>2 DEF ParentsAlive, Children, Alive
    <2>2. /\ proc'[c].parent = p /\ proc'[c].status = "run"
          /\ \A d \in Pids \ {c} : proc'[d] = proc[d]
      BY <1>2 DEF Alive
    <2>3. Children(c)' = {} /\ \A s \in Pids \ {p} : Children(s)' = Children(s)
      BY <1>2, <2>1, <2>2 DEF Children
    <2>4. ParentsAlive'
      BY <1>2, <2>1, <2>2 DEF ParentsAlive, Children, Alive
    <2>5. \A s \in Pids \ {p, c} : JobsOf(s)' = JobsOf(s) /\ mem'[s] = mem[s]
      BY <1>2, <2>2, <2>3 DEF JobsOf, Children
    <2>6. JobsOf(c)' = {}
      BY <2>3 DEF JobsOf
    <2>7. Tracked' /\ NoJobThere'
      BY <2>5, <2>6 DEF Tracked, NoJobThere
    <2> QED
      BY <2>4, <2>7
  <1> QED
    BY <1>1, <1>2 DEF Fork

-----------------------------------------------------------------------------
(* The steps.                                                              *)

\* The names the main thread uses.
LEMMA MainNames ==
  /\ "read" \in Places /\ "poll" \in Places /\ "again" \in Places /\ "act" \in Places
  /\ "waitpid" \in Places /\ "join" \in Places /\ "fgwait" \in Places /\ "fgback" \in Places
  /\ "killjob" \in Places /\ "reapjob" \in Places /\ "leave" \in Places
  /\ "none" \in Places /\ "born" \in Places /\ "exec" \in Places /\ "program" \in Places
  /\ "none" \in CommandsSeen /\ "eof" \in CommandsSeen /\ "exit" \in CommandsSeen
  /\ "fg_checked" \in CommandsSeen /\ \A c \in Commands : c \in CommandsSeen
PROOF
  BY DEF Places, ShellPlaces, CommandsSeen

\* Those of the threads of a pipe.
LEMMA PipeNames ==
  /\ "none" \in ServerPlaces /\ "unlink" \in ServerPlaces /\ "bind" \in ServerPlaces
  /\ "accept" \in ServerPlaces /\ "fork" \in ServerPlaces /\ "wait" \in ServerPlaces
  /\ "close" \in ServerPlaces /\ "done" \in ServerPlaces
  /\ "none" \in ClientPlaces /\ "connect" \in ClientPlaces /\ "spin" \in ClientPlaces
  /\ "fork" \in ClientPlaces /\ "wait" \in ClientPlaces /\ "done" \in ClientPlaces
PROOF
  BY DEF ServerPlaces, ClientPlaces

\* Those of the kernel.
LEMMA KernelNames ==
  /\ "free" \in Statuses /\ "run" \in Statuses /\ "zombie" \in Statuses
  /\ "none" \in Kinds /\ "job" \in Kinds /\ "foreground" \in Kinds
  /\ "first" \in Kinds /\ "second" \in Kinds
PROOF
  BY DEF Statuses, Kinds

\* The records the steps are built from have the right fields.
LEMMA Records ==
  /\ Free \in ProcType /\ Blank \in MemType
  /\ \A m \in MemType : Back(m) \in MemType /\ StartPipe(m) \in MemType
PROOF
  <1>1. Free \in ProcType
    BY KernelNames DEF Free, ProcType
  <1>2. Blank \in MemType
    BY MainNames, PipeNames DEF Blank, MemType
  <1>3. ASSUME NEW m \in MemType PROVE Back(m) \in MemType
    BY MainNames DEF Back, MemType
  <1>4. ASSUME NEW m \in MemType PROVE StartPipe(m) \in MemType
    BY MainNames, PipeNames DEF StartPipe, MemType
  <1> QED
    BY <1>1, <1>2, <1>3, <1>4

\* Waits and ends keep the shape of the table.
LEMMA TableShape ==
  ASSUME Shape
  PROVE  /\ \A s, w : WaitReturns(s, w) => proc' \in [Pids -> ProcType]
         /\ \A P : Without(P) \in [Pids -> ProcType] /\ Forget(P) \in [Pids -> MemType]
PROOF
  <1>1. \A s, w : WaitReturns(s, w) => proc' \in [Pids -> ProcType]
    BY Records DEF WaitReturns, Reap, Shape
  <1>2. ASSUME NEW P PROVE Without(P) \in [Pids -> ProcType]
    <2> SUFFICES ASSUME NEW c \in Pids PROVE Without(P)[c] \in ProcType
      BY DEF Without
    <2>1. proc[c] \in ProcType
      BY DEF Shape
    <2> DEFINE heir == IF proc[c].parent \in P THEN 0 ELSE proc[c].parent
    <2>2. heir \in Pids \cup {0, Login}
      BY <2>1 DEF ProcType
    <2> HIDE DEF heir
    <2>3. [proc[c] EXCEPT !.parent = heir] \in ProcType
      BY <2>1, <2>2 DEF ProcType
    <2>4. [proc[c] EXCEPT !.status = "zombie", !.listens = 0, !.parent = heir] \in ProcType
      BY <2>1, <2>2, KernelNames DEF ProcType
    <2> QED
      BY <2>3, <2>4, Records DEF Without, heir
  <1>3. ASSUME NEW P PROVE Forget(P) \in [Pids -> MemType]
    BY Records DEF Forget, Shape
  <1> QED
    BY <1>1, <1>2, <1>3

\* No step changes the shape of the tables.
LEMMA ShapeKept ==
  ASSUME Shape, NEW p \in Pids,
         Input(p) \/ ShellStep(p) \/ ChildStep(p) \/ ServerStep(p) \/ ClientStep(p)
  PROVE  Shape'
PROOF
  <1>1. /\ \A s, w : WaitReturns(s, w) => proc' \in [Pids -> ProcType]
        /\ \A P : Without(P) \in [Pids -> ProcType] /\ Forget(P) \in [Pids -> MemType]
    BY TableShape
  <1>2. CASE Input(p)
    <2>1. CASE ReadCommand(p)
      <3>1. PICK c \in Commands : mem' = [mem EXCEPT ![p].cmd = c, ![p].pc = "poll"]
        BY <2>1 DEF ReadCommand
      <3>2. c \in CommandsSeen
        BY MainNames
      <3>3. [mem[p] EXCEPT !.cmd = c, !.pc = "poll"] \in MemType
        BY <3>2, MainNames DEF Shape, MemType
      <3>4. mem' = [mem EXCEPT ![p] = [mem[p] EXCEPT !.cmd = c, !.pc = "poll"]]
        BY <3>1 DEF Shape
      <3> QED
        BY <2>1, <3>3, <3>4 DEF ReadCommand, Shape
    <2>2. CASE ReadEof(p) \/ ReadExit(p)
      BY <2>2, MainNames DEF ReadEof, ReadExit, Shape, MemType
    <2>3. CASE Terminate(p)
      BY <2>3, <1>1 DEF Terminate, Exit, Shape
    <2> QED
      BY <1>2, <2>1, <2>2, <2>3 DEF Input
  <1>3. CASE ChildStep(p)
    <2>1. CASE SetGroup(p)
      <3>1. [Blank EXCEPT !.pc = "program"] \in MemType
        BY Records, MainNames DEF MemType
      <3> QED
        BY <2>1, <3>1, Records DEF SetGroup, Shape, ProcType
    <2>2. CASE PipeJobDone(p) \/ ProgramEnds(p)
      BY <2>2, <1>1 DEF PipeJobDone, ProgramEnds, Exit, Shape
    <2>3. CASE Exec(p)
      <3>1. [Blank EXCEPT !.pc = "program"] \in MemType
        BY Records, MainNames DEF MemType
      <3> QED
        BY <2>3, <3>1 DEF Exec, Shape
    <2>4. CASE ExecFails(p)
      BY <2>4, Records DEF ExecFails, Shape
    <2> QED
      BY <1>3, <2>1, <2>2, <2>3, <2>4 DEF ChildStep
  <1>4. ASSUME NEW kind \in Kinds, NEW parent \in [ForkAnswers -> MemType],
               NEW child \in MemType, Fork(p, kind, parent, child)
        PROVE  Shape'
    <2>1. [proc[p] EXCEPT !.parent = p, !.kind = kind] \in ProcType
      BY DEF Shape, ProcType
    <2> QED
      BY <1>4, <2>1 DEF Fork, ForkAnswers, Shape
  <1>5. CASE ClientStep(p)
    <2>1. CASE Connect(p) \/ SeeToken(p)
      BY <2>1, PipeNames DEF Connect, SeeToken, ClientGoes, Shape, MemType
    <2>2. CASE ForkSecond(p)
      <3>1. [mem[p] EXCEPT !.client = "wait"] \in MemType
        BY PipeNames DEF Shape, MemType
      <3>2. [Blank EXCEPT !.pc = "program"] \in MemType
        BY Records, MainNames DEF MemType
      <3> QED
        BY <1>4, <2>2, <3>1, <3>2, KernelNames DEF ForkSecond
    <2>3. CASE WaitSecond(p)
      <3>1. [mem[p] EXCEPT !.client = "done", !.syncToken = 0] \in MemType
        BY PipeNames DEF Shape, MemType
      <3>2. mem' = [mem EXCEPT ![p] = [mem[p] EXCEPT !.client = "done", !.syncToken = 0]]
        BY <2>3 DEF WaitSecond
      <3> QED
        BY <1>1, <2>3, <3>1, <3>2 DEF WaitSecond, Shape
    <2> QED
      BY <1>5, <2>1, <2>2, <2>3 DEF ClientStep
  <1>6. CASE ServerStep(p)
    <2>1. CASE Unlink(p) \/ Accept(p)
      BY <2>1, PipeNames DEF Unlink, Accept, ServerGoes, Shape, MemType
    <2>2. CASE Bind(p)
      <3>1. mem' \in [Pids -> MemType]
        BY <2>2, PipeNames DEF Bind, ServerGoes, Shape, MemType
      <3>2. proc' \in [Pids -> ProcType]
        BY <2>2 DEF Bind, Shape, ProcType
      <3> QED
        BY <3>1, <3>2 DEF Shape
    <2>3. CASE BindFails(p)
      BY <1>1, <2>3 DEF BindFails, Exit, Shape
    <2>4. CASE ForkFirst(p)
      <3>1. [mem[p] EXCEPT !.server = "wait"] \in MemType
        BY PipeNames DEF Shape, MemType
      <3>2. [Blank EXCEPT !.pc = "program"] \in MemType
        BY Records, MainNames DEF MemType
      <3> QED
        BY <1>4, <2>4, <3>1, <3>2, KernelNames DEF ForkFirst
    <2>5. CASE WaitFirst(p)
      BY <1>1, <2>5, PipeNames DEF WaitFirst, ServerGoes, Shape, MemType
    <2>6. CASE Close(p)
      <3>1. mem' \in [Pids -> MemType]
        <4>1. [mem[p] EXCEPT !.server = "done", !.syncToken = 1] \in MemType
          BY PipeNames DEF Shape, MemType
        <4>2. mem' = [mem EXCEPT ![p] = [mem[p] EXCEPT !.server = "done", !.syncToken = 1]]
          BY <2>6 DEF Close
        <4> QED
          BY <4>1, <4>2 DEF Shape
      <3>2. proc' \in [Pids -> ProcType]
        BY <2>6 DEF Close, Shape, ProcType
      <3> QED
        BY <3>1, <3>2 DEF Shape
    <2> QED
      BY <1>6, <2>1, <2>2, <2>3, <2>4, <2>5, <2>6 DEF ServerStep
  <1>7. CASE ShellStep(p)
    <2>1. CASE CheckRunning(p) \/ CheckAgain(p) \/ FgWaits(p) \/ ReapJob(p) \/ FgGives(p)
      BY <1>1, <2>1, MainNames
      DEF CheckRunning, CheckAgain, FgWaits, ReapJob, FgGives, Go, Shape, MemType
    <2>2. CASE CheckDone(p) \/ FgChecks(p)
      BY <1>1, <2>2, MainNames DEF CheckDone, FgChecks, Shape, MemType
    <2>3. CASE DoNothing(p) \/ RefuseJob(p) \/ FgNoJob(p) \/ StartPipeHere(p)
      BY <2>3, Records DEF DoNothing, RefuseJob, FgNoJob, StartPipeHere, Shape
    <2>4. CASE ProgramDone(p) \/ PipeDone(p) \/ FgTakesBack(p)
      <3>1. /\ [mem[p] EXCEPT !.waits = 0] \in MemType
            /\ [mem[p] EXCEPT !.server = "none", !.client = "none"] \in MemType
            /\ [mem[p] EXCEPT !.bgOpen = 0] \in MemType
        BY PipeNames DEF Shape, MemType
      <3> QED
        BY <1>1, <2>4, <3>1, Records DEF ProgramDone, PipeDone, FgTakesBack, Shape
    <2>5. CASE StartJob(p)
      <3>1. \A pid \in ForkAnswers : [mem[p] EXCEPT !.bgOpen = 1, !.pbg = pid] \in MemType
        BY DEF ForkAnswers, Shape, MemType
      <3>2. mem[p].cmd \in CommandsSeen
        BY DEF Shape, MemType
      <3>3. [Blank EXCEPT !.pc = "born", !.cmd = mem[p].cmd] \in MemType
        BY <3>2, Records, MainNames DEF MemType
      <3> QED
        BY <1>4, <2>5, <3>1, <3>3, Records, KernelNames DEF StartJob
    <2>6. CASE StartProgram(p)
      <3>1. \A pid \in ForkAnswers :
              [mem[p] EXCEPT !.waits = pid, !.pc = "waitpid"] \in MemType
        BY MainNames DEF ForkAnswers, Shape, MemType
      <3>2. [mem[p] EXCEPT !.pc = "exec"] \in MemType
        BY MainNames DEF Shape, MemType
      <3> QED
        BY <1>4, <2>6, <3>1, <3>2, KernelNames DEF StartProgram
    <2>7. CASE KillCommand(p) \/ KillJob(p)
      <3>1. [mem[p] EXCEPT !.pc = "reapjob"] \in MemType /\ Back(mem[p]) \in MemType
        BY Records, MainNames DEF Shape, MemType
      <3> QED
        BY <1>1, <2>7, <3>1 DEF KillCommand, KillJob, Kill, Shape
    <2>8. CASE Leave(p)
      BY <1>1, <2>8 DEF Leave, Exit, Shape
    <2> QED
      BY <1>7, <2>1, <2>2, <2>3, <2>4, <2>5, <2>6, <2>7, <2>8 DEF ShellStep
  <1> QED
    BY <1>2, <1>3, <1>5, <1>6, <1>7

\* What fork adds to the jobs of its caller is a child forked as a job.
LEMMA ForkAddsJob ==
  ASSUME JobInv, NEW p \in Pids, Alive(p), NEW kind, NEW parent, NEW child,
         Fork(p, kind, parent, child)
  PROVE  \/ mem'[p] = parent[-1] /\ JobsOf(p)' = JobsOf(p)
         \/ \E c \in Pids :
              /\ mem'[p] = parent[c]
              /\ JobsOf(p)' \subseteq JobsOf(p) \cup (IF kind = "job" THEN {c} ELSE {})
PROOF
  <1> USE DEF JobInv, Shape
  <1>1. CASE UNCHANGED proc /\ mem' = [mem EXCEPT ![p] = parent[-1]]
    BY <1>1 DEF JobsOf, Children
  <1>2. ASSUME NEW c \in Pids, proc[c].status = "free",
               proc' = [proc EXCEPT ![c] = [proc[p] EXCEPT !.parent = p, !.kind = kind]],
               mem' = [mem EXCEPT ![p] = parent[c], ![c] = child]
        PROVE  /\ mem'[p] = parent[c]
               /\ JobsOf(p)' \subseteq JobsOf(p) \cup (IF kind = "job" THEN {c} ELSE {})
    <2>1. c # p
      BY <1>2 DEF Alive
    <2>2. proc'[c].kind = kind /\ \A d \in Pids \ {c} : proc'[d] = proc[d]
      BY <1>2 DEF ProcType
    <2> QED
      BY <1>2, <2>1, <2>2 DEF JobsOf, Children
  <1> QED
    BY <1>1, <1>2 DEF Fork

\* In the first state there is one process, and it has no children.
LEMMA JobInvInit == Init => JobInv
PROOF
  <1> SUFFICES ASSUME Init PROVE JobInv
    OBVIOUS
  <1>1. [status |-> "run", parent |-> Login, group |-> Shell, kind |-> "shell", listens |-> 0]
          \in ProcType
    BY MyshAssumption DEF ProcType, Statuses, Kinds
  <1>2. [Blank EXCEPT !.pc = "read"] \in MemType
    BY Records, MainNames DEF MemType
  <1>3. Shape
    BY <1>1, <1>2, Records DEF Init, Shape
  <1>4. \A s : s \in Pids => Children(s) = {}
    <2>1. \A c \in Pids : proc[c].status = "free" \/ proc[c].parent = Login
      BY DEF Init, Free
    <2>2. Login \notin Pids
      BY ProcessesAssumption DEF Login
    <2> QED
      BY <2>1, <2>2 DEF Children
  <1> QED
    BY <1>3, <1>4 DEF JobInv, ParentsAlive, Tracked, NoJobThere, JobsOf

\* The steps of the two threads of a pipe.
LEMMA PipeKeepsJobs ==
  ASSUME JobInv, NEW p \in Pids, ServerStep(p) \/ ClientStep(p)
  PROVE  JobInv'
PROOF
  <1> USE DEF JobInv
  <1>1. Shape'
    BY ShapeKept
  <1>2. ASSUME NoNewChildren, mem'[p].pc = mem[p].pc, mem'[p].cmd = mem[p].cmd,
               mem'[p].bgOpen = mem[p].bgOpen, mem'[p].pbg = mem[p].pbg,
               \A q \in Pids \ {p} : mem'[q] = mem[q]
        PROVE  JobInv'
    <2>1. JobsOf(p)' \subseteq JobsOf(p)
      BY <1>2 DEF NoNewChildren, JobsOf, Children
    <2> QED
      BY <1>1, <1>2, <2>1, StepKeepsJobs DEF Tracked, NoJobThere, WithoutJob
  <1>3. ASSUME UNCHANGED proc \/ (\E k : proc' = [proc EXCEPT ![p].listens = k])
        PROVE  NoNewChildren
    BY <1>3, TableKept DEF NoNewChildren, ParentsAlive, Children, Alive, Shape, ProcType
  <1>4. CASE Unlink(p) \/ Accept(p) \/ Connect(p) \/ SeeToken(p)
    BY <1>2, <1>3, <1>4
    DEF Unlink, Accept, Connect, SeeToken, ServerGoes, ClientGoes, Shape, MemType
  <1>5. CASE Bind(p) \/ Close(p)
    <2>1. NoNewChildren
      BY <1>3, <1>5 DEF Bind, Close
    <2> QED
      BY <1>2, <1>5, <2>1 DEF Bind, Close, ServerGoes, Shape, MemType
  <1>6. CASE WaitFirst(p) \/ WaitSecond(p)
    <2>1. NoNewChildren
      BY <1>6, WaitBringsNone DEF WaitFirst, WaitSecond
    <2> QED
      BY <1>2, <1>6, <2>1 DEF WaitFirst, WaitSecond, ServerGoes, ClientGoes, Shape, MemType
  <1>7. CASE BindFails(p)
    BY <1>1, <1>7, EndBringsNone, StepKeepsJobs DEF BindFails, Exit, Forget, JobsOf
  <1>8. ASSUME NEW kind, kind # "job", NEW m, NEW child, Alive(p),
               m.pc = mem[p].pc, m.cmd = mem[p].cmd,
               m.bgOpen = mem[p].bgOpen, m.pbg = mem[p].pbg,
               Fork(p, kind, [pid \in ForkAnswers |-> m], child)
        PROVE  JobInv'
    <2>1. mem'[p] = m /\ JobsOf(p)' \subseteq JobsOf(p)
      BY <1>8, ForkAddsJob DEF ForkAnswers
    <2> QED
      BY <1>1, <1>8, <2>1, ForkKeepsJobs DEF Tracked, NoJobThere, WithoutJob
  <1>9. CASE ForkFirst(p)
    <2> DEFINE m == [mem[p] EXCEPT !.server = "wait"]
    <2>1. /\ m.pc = mem[p].pc /\ m.cmd = mem[p].cmd
          /\ m.bgOpen = mem[p].bgOpen /\ m.pbg = mem[p].pbg
      BY DEF Shape, MemType
    <2>2. Alive(p) /\ Fork(p, "first", [pid \in ForkAnswers |-> m],
                          [Blank EXCEPT !.pc = "program"])
      BY <1>9 DEF ForkFirst, ServerAt
    <2> HIDE DEF m
    <2> QED
      BY <1>8, <2>1, <2>2
  <1>10. CASE ForkSecond(p)
    <2> DEFINE m == [mem[p] EXCEPT !.client = "wait"]
    <2>1. /\ m.pc = mem[p].pc /\ m.cmd = mem[p].cmd
          /\ m.bgOpen = mem[p].bgOpen /\ m.pbg = mem[p].pbg
      BY DEF Shape, MemType
    <2>2. Alive(p) /\ Fork(p, "second", [pid \in ForkAnswers |-> m],
                          [Blank EXCEPT !.pc = "program"])
      BY <1>10 DEF ForkSecond, ClientAt
    <2> HIDE DEF m
    <2> QED
      BY <1>8, <2>1, <2>2
  <1> QED
    BY <1>4, <1>5, <1>6, <1>7, <1>9, <1>10 DEF ServerStep, ClientStep

\* The steps of main threads.
LEMMA MainKeepsJobs ==
  ASSUME JobInv, NEW p \in Pids, Input(p) \/ ShellStep(p) \/ ChildStep(p)
  PROVE  JobInv'
PROOF
  <1> USE DEF JobInv
  <1>1. Shape'
    BY ShapeKept
  <1>2. mem[p] \in MemType
    BY DEF Shape
  \* p keeps note of its job, or has none
  <1>3. ASSUME NoNewChildren, NEW m, mem' = [mem EXCEPT ![p] = m], m.pc \notin Jobless,
               \/ JobsOf(p) = {}
               \/ m.bgOpen = mem[p].bgOpen /\ (m.bgOpen = 1 => m.pbg = mem[p].pbg)
        PROVE  JobInv'
    <2>1. JobsOf(p)' \subseteq JobsOf(p)
      BY <1>3 DEF NoNewChildren, JobsOf, Children
    <2>2. mem'[p] = m /\ \A q \in Pids \ {p} : mem'[q] = mem[q]
      BY <1>3 DEF Shape
    <2> QED
      BY <1>1, <1>3, <2>1, <2>2, StepKeepsJobs DEF Tracked, WithoutJob
  \* p is left with no job
  <1>4. ASSUME NoNewChildren, NEW m, mem' = [mem EXCEPT ![p] = m], JobsOf(p)' = {}
        PROVE  JobInv'
    BY <1>1, <1>4, StepKeepsJobs DEF Shape
  \* the record of the loop's head
  <1>5. ASSUME NEW m \in MemType
        PROVE  /\ Back(m).pc = "read" /\ Back(m).bgOpen = m.bgOpen
               /\ m.bgOpen = 1 => Back(m).pbg = m.pbg
    BY DEF Back, MemType
  <1>6. UNCHANGED proc => NoNewChildren
    BY TableKept
  <1>7. "read" \notin Jobless /\ "poll" \notin Jobless
        /\ "killjob" \notin Jobless /\ "act" \notin Jobless /\ "again" \notin Jobless
        /\ "waitpid" \notin Jobless /\ "join" \notin Jobless /\ "fgwait" \notin Jobless
        /\ "reapjob" \notin Jobless /\ "program" \notin Jobless
    BY DEF Jobless
  \* steps that only go on to another place
  <1>8. ASSUME NoNewChildren, NEW pc, NEW c, pc \notin Jobless,
               \/ mem' = [mem EXCEPT ![p].pc = pc]
               \/ mem' = [mem EXCEPT ![p].cmd = c, ![p].pc = pc]
        PROVE  JobInv'
    <2>1. CASE mem' = [mem EXCEPT ![p].pc = pc]
      <3> DEFINE m == [mem[p] EXCEPT !.pc = pc]
      <3>1. m.pc = pc /\ m.bgOpen = mem[p].bgOpen /\ m.pbg = mem[p].pbg
        BY <1>2 DEF MemType
      <3>2. mem' = [mem EXCEPT ![p] = m]
        BY <2>1 DEF Shape
      <3> HIDE DEF m
      <3> QED
        BY <1>3, <1>8, <3>1, <3>2
    <2>2. CASE mem' = [mem EXCEPT ![p].cmd = c, ![p].pc = pc]
      <3> DEFINE m == [mem[p] EXCEPT !.cmd = c, !.pc = pc]
      <3>1. m.pc = pc /\ m.bgOpen = mem[p].bgOpen /\ m.pbg = mem[p].pbg
        BY <1>2 DEF MemType
      <3>2. mem' = [mem EXCEPT ![p] = m]
        BY <2>2 DEF Shape
      <3> HIDE DEF m
      <3> QED
        BY <1>3, <1>8, <3>1, <3>2
    <2> QED
      BY <1>8, <2>1, <2>2
  \* the end of a process, or of several
  <1>9. ASSUME NEW P \in SUBSET Pids, proc' = Without(P),
               \A q \in Pids \ {p} : q \notin P => mem'[q] = mem[q],
               \/ p \in P
               \/ /\ mem'[p].pc \notin Jobless /\ mem'[p].bgOpen = mem[p].bgOpen
                  /\ mem'[p].bgOpen = 1 => mem'[p].pbg = mem[p].pbg
        PROVE  JobInv'
    <2>1. NoNewChildren /\ \A q \in P : Children(q)' = {}
      BY <1>9, EndBringsNone
    <2>2. JobsOf(p)' \subseteq JobsOf(p) /\ (p \in P => JobsOf(p)' = {})
      BY <2>1 DEF NoNewChildren, JobsOf, Children
    <2> QED
      BY <1>1, <1>9, <2>1, <2>2, StepKeepsJobs DEF Tracked, WithoutJob
  <1>10. ASSUME Exit(p) PROVE JobInv'
    BY <1>9, <1>10 DEF Exit, Forget
  <1>11. ASSUME NEW w, NEW m, Kill(p, w, m), m.pc \notin Jobless,
                m.bgOpen = mem[p].bgOpen, m.bgOpen = 1 => m.pbg = mem[p].pbg
         PROVE  JobInv'
    <2> DEFINE victims == {c \in Pids : Alive(c) /\ (c = w \/ (w = -1 /\ c # p))}
    <2>1. proc' = Without(victims) /\ mem' = [Forget(victims) EXCEPT ![p] = m]
      BY <1>11 DEF Kill
    <2>2. mem'[p] = m /\ \A q \in Pids \ {p} : q \notin victims => mem'[q] = mem[q]
      BY <2>1 DEF Forget
    <2>3. victims \in SUBSET Pids
      OBVIOUS
    <2> HIDE DEF victims
    <2> QED
      BY <1>9, <1>11, <2>1, <2>2, <2>3
  <1>12. CASE Input(p)
    <2>1. CASE ReadCommand(p)
      BY <1>6, <1>7, <1>8, <2>1 DEF ReadCommand
    <2>2. CASE ReadEof(p)
      <3>1. NoNewChildren /\ JobsOf(p)' = JobsOf(p)
        BY <1>6, <2>2 DEF ReadEof, JobsOf, Children
      <3>2. /\ mem'[p].cmd = "eof" /\ mem'[p].pc = "leave"
            /\ mem'[p].bgOpen = mem[p].bgOpen /\ mem'[p].pbg = mem[p].pbg
            /\ \A q \in Pids \ {p} : mem'[q] = mem[q]
        BY <1>2, <2>2 DEF ReadEof, MemType, Shape
      <3> QED
        BY <1>1, <3>1, <3>2, StepKeepsJobs DEF Tracked, WithoutJob
    <2>3. CASE ReadExit(p) /\ mem[p].bgOpen = 1
      BY <1>6, <1>7, <1>8, <2>3 DEF ReadExit
    <2>4. CASE ReadExit(p) /\ mem[p].bgOpen # 1
      <3>1. NoNewChildren /\ JobsOf(p)' = {}
        BY <1>6, <2>4 DEF ReadExit, Tracked, JobsOf, Children
      <3>2. mem' = [mem EXCEPT ![p] = [mem[p] EXCEPT !.cmd = "exit", !.pc = "leave"]]
        BY <2>4 DEF ReadExit, Shape
      <3> QED
        BY <1>4, <3>1, <3>2
    <2>5. CASE Terminate(p)
      BY <1>10, <2>5 DEF Terminate
    <2> QED
      BY <1>12, <2>1, <2>2, <2>3, <2>4, <2>5 DEF Input
  <1>13. CASE ChildStep(p)
    <2>1. CASE SetGroup(p)
      <3>1. JobsOf(p) = {}
        BY <2>1 DEF SetGroup, At, NoJobThere, WithoutJob, Jobless
      <3>2. NoNewChildren
        BY <2>1 DEF SetGroup, NoNewChildren, ParentsAlive, Children, Alive, Shape, ProcType
      <3>3. JobsOf(p)' = {}
        BY <3>1, <3>2 DEF NoNewChildren, JobsOf, Children
      <3> QED
        BY <1>4, <2>1, <3>2, <3>3 DEF SetGroup
    <2>2. CASE PipeJobDone(p) \/ ProgramEnds(p)
      BY <1>10, <2>2 DEF PipeJobDone, ProgramEnds
    <2>3. CASE Exec(p) \/ ExecFails(p)
      <3>1. JobsOf(p) = {} /\ UNCHANGED proc
        BY <2>3 DEF Exec, ExecFails, At, NoJobThere, WithoutJob, Jobless
      <3>2. JobsOf(p)' = {}
        BY <3>1 DEF JobsOf, Children
      <3> QED
        BY <1>4, <1>6, <2>3, <3>1, <3>2 DEF Exec, ExecFails
    <2> QED
      BY <1>13, <2>1, <2>2, <2>3 DEF ChildStep
  <1>14. CASE ShellStep(p)
    \* looking at the job, and waiting for it
    <2>1. CASE CheckRunning(p) \/ FgChecks(p) \/ FgGives(p)
      BY <1>6, <1>7, <1>8, <2>1 DEF CheckRunning, FgChecks, FgGives, Go
    <2>2. CASE CheckAgain(p)
      BY <1>7, <1>8, <2>2, WaitBringsNone DEF CheckAgain, Go
    <2>3. CASE CheckDone(p) \/ FgWaits(p) \/ ReapJob(p)
      <3>1. NoNewChildren /\ JobsOf(p)' = {}
        BY <2>3, WaitBringsNone, WaitEndsJob DEF CheckDone, FgWaits, ReapJob
      <3>2. \A q \in Pids \ {p} : mem'[q] = mem[q]
        BY <2>3 DEF CheckDone, FgWaits, ReapJob, Go, Shape
      <3> QED
        BY <1>1, <3>1, <3>2, StepKeepsJobs
    <2>4. CASE FgTakesBack(p)
      <3>1. JobsOf(p) = {} /\ UNCHANGED proc
        BY <2>4 DEF FgTakesBack, At, NoJobThere, WithoutJob, Jobless
      <3>2. JobsOf(p)' = {}
        BY <3>1 DEF JobsOf, Children
      <3> QED
        BY <1>4, <1>6, <2>4, <3>1, <3>2 DEF FgTakesBack
    \* back to the head of the loop
    <2>5. CASE DoNothing(p) \/ RefuseJob(p) \/ FgNoJob(p)
      BY <1>2, <1>3, <1>5, <1>6, <1>7, <2>5 DEF DoNothing, RefuseJob, FgNoJob
    <2>6. CASE ProgramDone(p) \/ PipeDone(p)
      <3>1. NoNewChildren
        BY <1>6, <2>6, WaitBringsNone DEF ProgramDone, PipeDone
      <3>2. ASSUME NEW m \in MemType, m.bgOpen = mem[p].bgOpen, m.pbg = mem[p].pbg,
                   mem' = [mem EXCEPT ![p] = Back(m)]
            PROVE  JobInv'
        BY <1>3, <1>5, <1>7, <3>1, <3>2
      <3>3. CASE ProgramDone(p)
        <4> DEFINE m == [mem[p] EXCEPT !.waits = 0]
        <4>1. m \in MemType /\ m.bgOpen = mem[p].bgOpen /\ m.pbg = mem[p].pbg
          BY <1>2 DEF MemType
        <4>2. mem' = [mem EXCEPT ![p] = Back(m)]
          BY <3>3 DEF ProgramDone, Shape
        <4> HIDE DEF m
        <4> QED
          BY <3>2, <4>1, <4>2
      <3>4. CASE PipeDone(p)
        <4> DEFINE m == [mem[p] EXCEPT !.server = "none", !.client = "none"]
        <4>1. m \in MemType /\ m.bgOpen = mem[p].bgOpen /\ m.pbg = mem[p].pbg
          BY <1>2, PipeNames DEF MemType
        <4>2. mem' = [mem EXCEPT ![p] = Back(m)]
          BY <3>4 DEF PipeDone, Shape
        <4> HIDE DEF m
        <4> QED
          BY <3>2, <4>1, <4>2
      <3> QED
        BY <2>6, <3>3, <3>4
    <2>7. CASE StartPipeHere(p)
      <3>1. /\ StartPipe(mem[p]).pc = "join" /\ StartPipe(mem[p]).bgOpen = mem[p].bgOpen
            /\ StartPipe(mem[p]).pbg = mem[p].pbg
        BY <1>2 DEF StartPipe, MemType
      <3>2. mem' = [mem EXCEPT ![p] = StartPipe(mem[p])] /\ UNCHANGED proc
        BY <2>7 DEF StartPipeHere, Shape
      <3> QED
        BY <1>3, <1>6, <1>7, <3>1, <3>2
    \* forks
    <2>8. CASE StartJob(p)
      <3> DEFINE m(pid) == [mem[p] EXCEPT !.bgOpen = 1, !.pbg = pid]
                 child == [Blank EXCEPT !.pc = "born", !.cmd = mem[p].cmd]
      <3>1. \A pid \in ForkAnswers :
              m(pid) \in MemType /\ m(pid).bgOpen = 1 /\ m(pid).pbg = pid
        BY <1>2 DEF MemType, ForkAnswers
      <3>2. Alive(p) /\ Fork(p, "job", [pid \in ForkAnswers |-> Back(m(pid))], child)
        BY <2>8 DEF StartJob, Acting, At
      <3> HIDE DEF m, child
      <3>3. JobsOf(p) = {}
        BY <2>8 DEF StartJob, Tracked
      <3>4. \/ mem'[p] = Back(m(-1)) /\ JobsOf(p)' = {}
            \/ \E c \in Pids : mem'[p] = Back(m(c)) /\ JobsOf(p)' \subseteq {c}
        <4>1. \A pid \in ForkAnswers :
                [i \in ForkAnswers |-> Back(m(i))][pid] = Back(m(pid))
          OBVIOUS
        <4>2. -1 \in ForkAnswers /\ Pids \subseteq ForkAnswers
          BY DEF ForkAnswers
        <4>3. \/ mem'[p] = [i \in ForkAnswers |-> Back(m(i))][-1] /\ JobsOf(p)' = JobsOf(p)
              \/ \E c \in Pids :
                   /\ mem'[p] = [i \in ForkAnswers |-> Back(m(i))][c]
                   /\ JobsOf(p)' \subseteq JobsOf(p) \cup {c}
          BY <3>2, ForkAddsJob
        <4> QED
          BY <3>3, <4>1, <4>2, <4>3
      <3>5. \A pid \in ForkAnswers :
              Back(m(pid)).pc = "read" /\ Back(m(pid)).bgOpen = 1 /\ Back(m(pid)).pbg = pid
        BY <1>5, <3>1
      <3>6. /\ mem'[p].pc \notin Jobless
            /\ \A c \in JobsOf(p)' : mem'[p].bgOpen = 1 /\ mem'[p].pbg = c
        BY <1>7, <3>4, <3>5 DEF ForkAnswers
      <3> QED
        BY <1>1, <3>2, <3>6, ForkKeepsJobs DEF WithoutJob
    <2>9. CASE StartProgram(p)
      <3> DEFINE m(pid) == [mem[p] EXCEPT !.waits = pid, !.pc = "waitpid"]
                 child == [mem[p] EXCEPT !.pc = "exec"]
      <3>1. \A pid \in ForkAnswers :
              m(pid).pc = "waitpid" /\ m(pid).bgOpen = mem[p].bgOpen /\ m(pid).pbg = mem[p].pbg
        BY <1>2 DEF MemType
      <3>2. Alive(p) /\ Fork(p, "foreground", [pid \in ForkAnswers |-> m(pid)], child)
        BY <2>9 DEF StartProgram, Acting, At
      <3> HIDE DEF m, child
      <3>3. (\E pid \in ForkAnswers : mem'[p] = m(pid)) /\ JobsOf(p)' \subseteq JobsOf(p)
        BY <3>2, ForkAddsJob DEF ForkAnswers
      <3>4. /\ mem'[p].pc = "waitpid"
            /\ mem'[p].bgOpen = mem[p].bgOpen /\ mem'[p].pbg = mem[p].pbg
        BY <3>1, <3>3
      <3>5. /\ mem'[p].pc \notin Jobless
            /\ \A c \in JobsOf(p)' : mem'[p].bgOpen = 1 /\ mem'[p].pbg = c
        BY <1>7, <3>3, <3>4 DEF Tracked
      <3> QED
        BY <1>1, <3>2, <3>5, ForkKeepsJobs DEF WithoutJob
    \* kills and the end
    <2>10. CASE KillCommand(p)
      BY <1>2, <1>5, <1>7, <1>11, <2>10 DEF KillCommand
    <2>11. CASE KillJob(p)
      <3> DEFINE m == [mem[p] EXCEPT !.pc = "reapjob"]
      <3>1. m.pc = "reapjob" /\ m.bgOpen = mem[p].bgOpen /\ m.pbg = mem[p].pbg
        BY <1>2 DEF MemType
      <3>2. Kill(p, mem[p].pbg, m)
        BY <2>11 DEF KillJob
      <3> HIDE DEF m
      <3> QED
        BY <1>7, <1>11, <3>1, <3>2
    <2>12. CASE Leave(p)
      BY <1>10, <2>12 DEF Leave
    <2> QED
      BY <1>14, <2>1, <2>2, <2>3, <2>4, <2>5, <2>6, <2>7, <2>8, <2>9, <2>10, <2>11, <2>12
      DEF ShellStep
  <1> QED
    BY <1>12, <1>13, <1>14

-----------------------------------------------------------------------------
(* The results.                                                            *)

\* Every step keeps the invariant.
LEMMA JobInvNext == JobInv /\ [Next]_vars => JobInv'
PROOF
  <1> SUFFICES ASSUME JobInv, [Next]_vars PROVE JobInv'
    OBVIOUS
  <1>1. CASE Next
    BY <1>1, MainKeepsJobs, PipeKeepsJobs DEF Next
  <1>2. CASE UNCHANGED vars
    BY <1>2 DEF vars, JobInv, Shape, ParentsAlive, Tracked, NoJobThere, JobsOf, Children, Alive
  <1> QED
    BY <1>1, <1>2

\* Whatever goes wrong, the background process of a shell is the one that its
\* bgOpen and pbg tell of, so checkbgDone, fg and exit act on the right one.
\* (mysh.c 30-41, 78-86, 105-106, 187-188; fs.c 150-151)
THEOREM ShellKeepsItsJob == Spec => []JobTracked
PROOF
  <1>1. JobInv => JobTracked
    BY DEF JobInv, Tracked, JobTracked, JobsOf
  <1> QED
    BY <1>1, JobInvInit, JobInvNext, PTL DEF Spec

-----------------------------------------------------------------------------
(* Who may be at work, and the terminal.                                   *)

\* The kinds of process that may be a shell.
ShellKinds == {"shell", "foreground"}

\* Where a live process stands tells what it is.
RoleOf(p) ==
  /\ mem[p].pc \in ShellPlaces \ {"join"} => proc[p].kind \in ShellKinds
  /\ mem[p].pc = "join" => proc[p].kind \in ShellKinds \cup {"job"}
  /\ mem[p].pc = "exec" => proc[p].kind = "foreground"
  /\ mem[p].pc = "born" => proc[p].kind = "job"
  /\ proc[p].kind = "shell" => mem[p].pc \in ShellPlaces
  /\ mem[p].pc # "join" => mem[p].server = "none" /\ mem[p].client = "none"

\* A dead process stands nowhere, but for the shell that killed itself.
Roles ==
  \A p \in Pids : /\ Alive(p) => RoleOf(p)
                  /\ ~Alive(p) => mem[p].pc \in {"none", "reapjob"}

\* The first shell is the only one of its kind, and stays in the table.
FirstShell ==
  /\ proc[Shell].status # "free" /\ proc[Shell].parent = Login
  /\ \A p \in Pids : proc[p].status # "free" => (p = Shell <=> proc[p].kind = "shell")

\* Shells, and the programs in the foreground, are in the first shell's group.
OneGroup ==
  \A p \in Pids : proc[p].status # "free" /\ proc[p].kind \in ShellKinds => proc[p].group = Shell

\* A shell that has a child in the foreground waits for it.
Awaited ==
  \A s, c \in Pids : c \in Children(s) /\ proc[c].kind = "foreground" =>
    mem[s].pc = "waitpid" /\ mem[s].waits = c

\* A child that is a second shell, or may become one.
SubShell(p) ==
  /\ Alive(p) /\ proc[p].kind = "foreground"
  /\ mem[p].pc \in ShellPlaces \/ (mem[p].pc = "exec" /\ proc[p].parent = Shell)

\* There is one such child at most, and the first shell is its parent while it
\* lives.
OneSubShell ==
  /\ \A p, q \in Pids : SubShell(p) /\ SubShell(q) => p = q
  /\ \A p \in Pids : SubShell(p) /\ Alive(Shell) => proc[p].parent = Shell

\* Without a failing execv there is none.
NeedsExec ==
  "exec" \notin may => \A p \in Pids : SubShell(p) => mem[p].pc = "exec"

Cast == Roles /\ FirstShell /\ OneGroup /\ Awaited /\ OneSubShell /\ NeedsExec

\* A shell that runs.
AtWork(p) == Alive(p) /\ IsShell(p) /\ mem[p].pc # "waitpid"

\* Of all shells one runs; the other one waits for it.
LEMMA OneAtWork ==
  ASSUME Cast, NEW p \in Pids, NEW q \in Pids, AtWork(p), AtWork(q)
  PROVE  p = q
PROOF
  <1>1. ASSUME NEW r \in Pids, AtWork(r), r # Shell PROVE SubShell(r)
    BY <1>1 DEF AtWork, IsShell, SubShell, Cast, FirstShell, Alive
  <1>2. ASSUME NEW r \in Pids, AtWork(r), AtWork(Shell), r # Shell PROVE FALSE
    <2>1. SubShell(r) /\ proc[r].parent = Shell
      BY <1>1, <1>2, MyshAssumption DEF Cast, OneSubShell, AtWork
    <2>2. r \in Children(Shell) /\ proc[r].kind = "foreground"
      BY <2>1 DEF Children, SubShell, Alive
    <2> QED
      BY <1>2, <2>2, MyshAssumption DEF Cast, Awaited, AtWork
  <1>3. CASE p # Shell /\ q # Shell
    BY <1>1, <1>3 DEF Cast, OneSubShell
  <1> QED
    BY <1>2, <1>3

\* A process that stands in the loop is a shell.
LEMMA InLoop ==
  ASSUME Cast, NEW p \in Pids, Alive(p), mem[p].pc \in ShellPlaces \ {"join"}
  PROVE  IsShell(p)
PROOF
  BY DEF Cast, Roles, RoleOf, IsShell, ShellKinds

-----------------------------------------------------------------------------
(* What a step without a fork may do.                                      *)

\* No process is new, and those there are keep what they are; who was waited
\* for had a parent, or init; orphans are init's.
TableSteady ==
  \A q \in Pids :
    /\ proc'[q].status # "free" =>
         /\ proc[q].status # "free" /\ proc'[q].kind = proc[q].kind
         /\ proc'[q].group = proc[q].group \/ proc[q].kind = "job"
         /\ \/ proc'[q].parent = proc[q].parent
            \/ proc'[q].parent = 0 /\ \E r \in Pids : r = proc[q].parent /\ ~Alive(r)'
         /\ Alive(q)' => Alive(q)
    /\ proc'[q].status = "free" => proc[q].status = "free" \/ proc[q].parent # Login

\* The others are left alone, or end.
OthersSteady(p) ==
  \A q \in Pids \ {p} :
    \/ mem'[q] = mem[q] /\ (Alive(q) => Alive(q)')
    \/ mem'[q] = Blank /\ ~Alive(q)'

Steady(p) == TableSteady /\ OthersSteady(p)

\* Nobody else ends.
OthersLive(p) == \A q \in Pids \ {p} : mem'[q] = mem[q] /\ (Alive(q) => Alive(q)')

\* A wait is such a step.
LEMMA WaitSteady ==
  ASSUME Shape, NEW s \in Pids, NEW w, WaitReturns(s, w)
  PROVE  TableSteady /\ \A q \in Pids : Alive(q)' = Alive(q)
PROOF
  <1>1. CASE UNCHANGED proc
    BY <1>1 DEF TableSteady, Alive
  <1>2. CASE Reap(s, w)
    <2>1. PICK z \in Pids : /\ proc[z].parent = s /\ proc[z].status = "zombie"
                            /\ proc' = [proc EXCEPT ![z] = Free]
      BY <1>2 DEF Reap, Named, Children
    <2>2. s # Login
      BY ProcessesAssumption DEF Login
    <2>3. proc'[z].status = "free" /\ \A q \in Pids \ {z} : proc'[q] = proc[q]
      BY <2>1 DEF Shape, Free
    <2> QED
      BY <2>1, <2>2, <2>3 DEF TableSteady, Alive
  <1> QED
    BY <1>1, <1>2 DEF WaitReturns

\* So is the end of processes.
LEMMA EndSteady ==
  ASSUME Shape, NEW P \in SUBSET Pids, proc' = Without(P)
  PROVE  /\ TableSteady
         /\ \A q \in Pids \ P : Alive(q) => Alive(q)'
         /\ \A q \in P : ~Alive(q)'
PROOF
  <1>1. 0 # Login /\ Login \notin Pids /\ 0 \notin Pids
    BY ProcessesAssumption DEF Login
  <1>2. \A q \in Pids : proc'[q].status # "free" =>
          /\ proc[q].status # "free" /\ proc'[q].kind = proc[q].kind
          /\ proc'[q].group = proc[q].group
          /\ proc'[q].parent = (IF proc[q].parent \in P THEN 0 ELSE proc[q].parent)
          /\ proc'[q].status = (IF q \in P THEN "zombie" ELSE proc[q].status)
    BY DEF Without, Free, Shape, ProcType
  <1>3. \A q \in Pids \ P : Alive(q) => Alive(q)'
    BY DEF Without, Alive, Shape, ProcType
  <1>4. \A q \in P : ~Alive(q)'
    BY <1>2 DEF Alive
  <1>5. ASSUME NEW q \in Pids, proc'[q].status = "free"
        PROVE  proc[q].status = "free" \/ proc[q].parent # Login
    BY <1>1, <1>5 DEF Without, Free, Shape, ProcType
  <1>6. ASSUME NEW q \in Pids, proc'[q].status # "free"
        PROVE  /\ proc[q].status # "free" /\ proc'[q].kind = proc[q].kind
               /\ proc'[q].group = proc[q].group \/ proc[q].kind = "job"
               /\ \/ proc'[q].parent = proc[q].parent
                  \/ proc'[q].parent = 0 /\ \E r \in Pids : r = proc[q].parent /\ ~Alive(r)'
               /\ Alive(q)' => Alive(q)
    BY <1>2, <1>4, <1>6 DEF Alive
  <1> QED
    BY <1>3, <1>4, <1>5, <1>6 DEF TableSteady

-----------------------------------------------------------------------------
(* Such a step keeps the cast, if the process that takes it keeps its role. *)

LEMMA SteadyKeepsCast ==
  ASSUME JobInv, JobInv', Cast, NEW p \in Pids, Steady(p), UNCHANGED may,
         Alive(p)' => RoleOf(p)',
         ~Alive(p)' => mem'[p].pc \in {"none", "reapjob"},
         \A c \in Children(p)' : proc'[c].kind = "foreground" =>
           mem'[p].pc = "waitpid" /\ mem'[p].waits = c,
         SubShell(p)' => SubShell(p) /\ ("exec" \notin may => mem'[p].pc = "exec")
  PROVE  Cast'
PROOF
  <1> USE DEF Steady
  <1>1. Roles'
    <2> SUFFICES ASSUME NEW q \in Pids
                 PROVE  (Alive(q) => RoleOf(q))' /\ (~Alive(q) => mem[q].pc \in {"none", "reapjob"})'
      BY DEF Roles
    <2>1. CASE q = p
      BY <2>1
    <2>2. CASE q # p /\ mem'[q] = mem[q] /\ (Alive(q) => Alive(q)')
      BY <2>2 DEF Cast, Roles, RoleOf, TableSteady, Alive
    <2>3. CASE mem'[q] = Blank /\ ~Alive(q)'
      BY <2>3 DEF Blank
    <2> QED
      BY <2>1, <2>2, <2>3 DEF OthersSteady
  <1>2. FirstShell'
    <2>1. 0 \notin Pids /\ Shell \in Pids /\ Login \notin Pids
      BY ProcessesAssumption, MyshAssumption DEF Login
    <2> QED
      BY <2>1 DEF Cast, FirstShell, TableSteady
  <1>3. OneGroup'
    BY DEF Cast, OneGroup, TableSteady, ShellKinds
  <1>4. \A s, c \in Pids : c \in Children(s)' =>
          c \in Children(s) /\ Alive(s)' /\ proc'[c].kind = proc[c].kind
    BY ProcessesAssumption DEF JobInv, ParentsAlive, TableSteady, Children
  <1>5. Awaited'
    <2> SUFFICES ASSUME NEW s \in Pids, NEW c \in Pids,
                        c \in Children(s)', proc'[c].kind = "foreground"
                 PROVE  mem'[s].pc = "waitpid" /\ mem'[s].waits = c
      BY DEF Awaited
    <2>1. CASE s = p
      BY <2>1
    <2>2. CASE s # p
      BY <1>4, <2>2 DEF OthersSteady, Cast, Awaited
    <2> QED
      BY <2>1, <2>2
  <1>6. \A q \in Pids : SubShell(q)' => SubShell(q)
    <2> SUFFICES ASSUME NEW q \in Pids, q # p, SubShell(q)' PROVE SubShell(q)
      OBVIOUS
    <2>1. Alive(q) /\ mem'[q] = mem[q] /\ proc'[q].kind = proc[q].kind
      BY DEF SubShell, OthersSteady, TableSteady, Alive
    <2>2. proc'[q].parent = Shell => proc[q].parent = Shell
      BY ProcessesAssumption, MyshAssumption DEF SubShell, TableSteady, Alive
    <2> QED
      BY <2>1, <2>2 DEF SubShell
  <1>7. OneSubShell'
    <2>1. Alive(Shell)' => Alive(Shell)
      BY MyshAssumption DEF TableSteady, Alive
    <2>2. ASSUME NEW q \in Pids, SubShell(q)', Alive(Shell)' PROVE proc'[q].parent = Shell
      <3>1. proc[q].parent = Shell
        BY <1>6, <2>1, <2>2 DEF Cast, OneSubShell
      <3> QED
        BY <2>2, <3>1 DEF TableSteady, SubShell, Alive
    <2> QED
      BY <1>6, <2>2 DEF Cast, OneSubShell
  <1>8. NeedsExec'
    BY <1>6 DEF Cast, NeedsExec, OthersSteady, SubShell
  <1> QED
    BY <1>1, <1>2, <1>3, <1>5, <1>7, <1>8 DEF Cast

\* The end of the process that takes the step.
LEMMA ExitKeepsCast ==
  ASSUME JobInv, JobInv', Cast, NEW p \in Pids, Exit(p), UNCHANGED may
  PROVE  Steady(p) /\ Cast'
PROOF
  <1>1. TableSteady /\ (\A q \in Pids \ {p} : Alive(q) => Alive(q)') /\ ~Alive(p)'
    BY EndSteady DEF Exit, JobInv
  <1>2. mem'[p] = Blank /\ \A q \in Pids \ {p} : mem'[q] = mem[q]
    BY DEF Exit, Forget
  <1>3. Steady(p)
    BY <1>1, <1>2 DEF Steady, OthersSteady
  <1>4. Children(p)' = {}
    BY <1>1 DEF JobInv, ParentsAlive, Children
  <1> QED
    BY <1>1, <1>2, <1>3, <1>4, SteadyKeepsCast DEF Blank, SubShell

\* A shell that goes on in its loop.
LEMMA LoopKeepsCast ==
  ASSUME JobInv, JobInv', Cast, NEW p \in Pids, Steady(p), UNCHANGED may,
         AtWork(p),
         Alive(p)' \/ mem'[p].pc = "reapjob",
         mem'[p].pc \in ShellPlaces,
         mem'[p].pc # "join" => mem'[p].server = "none" /\ mem'[p].client = "none"
  PROVE  Cast'
PROOF
  <1>1. Alive(p) /\ mem[p].pc \in ShellPlaces /\ proc[p].kind \in ShellKinds
    BY DEF AtWork, IsShell, ShellKinds
  <1>2. Alive(p)' => proc'[p].kind = proc[p].kind
    BY DEF Steady, TableSteady, Alive
  <1>3. Alive(p)' => RoleOf(p)'
    BY <1>1, <1>2 DEF RoleOf, ShellPlaces, ShellKinds
  <1>4. ASSUME NEW c \in Children(p)', proc'[c].kind = "foreground" PROVE FALSE
    <2>1. c \in Pids /\ c \in Children(p) /\ proc[c].kind = "foreground"
      BY <1>4, ProcessesAssumption DEF Steady, TableSteady, Children
    <2> QED
      BY <2>1 DEF Cast, Awaited, AtWork
  <1>5. SubShell(p)' => SubShell(p) /\ ("exec" \notin may => mem'[p].pc = "exec")
    <2>1. SubShell(p)' => SubShell(p)
      BY <1>1, <1>2 DEF SubShell
    <2>2. mem[p].pc # "exec"
      BY <1>1 DEF ShellPlaces
    <2> QED
      BY <2>1, <2>2 DEF Cast, NeedsExec
  <1> QED
    BY <1>3, <1>4, <1>5, SteadyKeepsCast

\* A kill: the others go on, but for the victims.
LEMMA KillSteady ==
  ASSUME JobInv, NEW p \in Pids, NEW w, NEW m, Kill(p, w, m)
  PROVE  /\ Steady(p) /\ mem'[p] = m
         /\ \A q \in Pids : q # w /\ (w # -1 \/ q = p) /\ Alive(q) => Alive(q)'
PROOF
  <1> DEFINE victims == {c \in Pids : Alive(c) /\ (c = w \/ (w = -1 /\ c # p))}
  <1>1. proc' = Without(victims) /\ mem' = [Forget(victims) EXCEPT ![p] = m]
    BY DEF Kill
  <1>2. mem'[p] = m /\ \A q \in Pids \ {p} : mem'[q] = IF q \in victims THEN Blank ELSE mem[q]
    BY <1>1 DEF Forget
  <1>3. /\ TableSteady /\ \A q \in Pids \ victims : Alive(q) => Alive(q)'
        /\ \A q \in victims : ~Alive(q)'
    <2>1. victims \in SUBSET Pids
      OBVIOUS
    <2> HIDE DEF victims
    <2> QED
      BY <1>1, <2>1, EndSteady DEF JobInv
  <1>4. Steady(p)
    <2> HIDE DEF victims
    <2> QED
      BY <1>2, <1>3 DEF Steady, OthersSteady
  <1>5. \A q \in Pids : q # w /\ (w # -1 \/ q = p) => q \notin victims
    OBVIOUS
  <1> HIDE DEF victims
  <1> QED
    BY <1>2, <1>3, <1>4, <1>5

\* c is a new child of p.
Born(p, c, kind, child) ==
  /\ c # p /\ proc[c].status = "free" /\ Children(c) = {}
  /\ proc'[c] = [status |-> "run", parent |-> p, group |-> proc[p].group,
                 kind |-> kind, listens |-> proc[p].listens]
  /\ mem'[c] = child
  /\ \A q \in Pids \ {c} : proc'[q] = proc[q]
  /\ \A q \in Pids \ {c, p} : mem'[q] = mem[q]
  /\ Children(p)' = Children(p) \cup {c}
  /\ \A q \in Pids \ {p} : Children(q)' = Children(q)

\* A fork that succeeds.
LEMMA ForkBears ==
  ASSUME JobInv, NEW p \in Pids, Alive(p), NEW kind, NEW parent, NEW child,
         Fork(p, kind, parent, child)
  PROVE  \/ /\ "fork" \in may /\ UNCHANGED proc
            /\ mem'[p] = parent[-1] /\ \A q \in Pids \ {p} : mem'[q] = mem[q]
         \/ \E c \in Pids : mem'[p] = parent[c] /\ Born(p, c, kind, child)
PROOF
  <1> USE DEF JobInv, Shape
  <1>1. CASE "fork" \in may /\ UNCHANGED proc /\ mem' = [mem EXCEPT ![p] = parent[-1]]
    BY <1>1
  <1>2. ASSUME NEW c \in Pids, proc[c].status = "free",
               proc' = [proc EXCEPT ![c] = [proc[p] EXCEPT !.parent = p, !.kind = kind]],
               mem' = [mem EXCEPT ![p] = parent[c], ![c] = child]
        PROVE  mem'[p] = parent[c] /\ Born(p, c, kind, child)
    <2>1. c # p
      BY <1>2 DEF Alive
    <2>2. Children(c) = {}
      BY <1>2 DEF ParentsAlive, Children, Alive
    <2>3. proc'[c] = [status |-> "run", parent |-> p, group |-> proc[p].group,
                      kind |-> kind, listens |-> proc[p].listens]
      BY <1>2 DEF ProcType, Alive
    <2>4. \A q \in Pids \ {c} : proc'[q] = proc[q]
      BY <1>2
    <2>5. /\ mem'[p] = parent[c] /\ mem'[c] = child
          /\ \A q \in Pids \ {c, p} : mem'[q] = mem[q]
      BY <1>2, <2>1
    <2>6. /\ Children(p)' = Children(p) \cup {c}
          /\ \A q \in Pids \ {p} : Children(q)' = Children(q)
      BY <1>2, <2>3, <2>4 DEF Children
    <2> QED
      BY <1>2, <2>1, <2>2, <2>3, <2>4, <2>5, <2>6 DEF Born
  <1> QED
    BY <1>1, <1>2 DEF Fork

\* A child for work other than a program in the foreground.
LEMMA WorkerKeepsCast ==
  ASSUME JobInv, Cast, NEW p \in Pids, Alive(p), NEW c \in Pids, UNCHANGED may,
         NEW kind \in {"job", "first", "second"}, NEW child, Born(p, c, kind, child),
         child.pc = "program" \/ (child.pc = "born" /\ kind = "job"),
         child.server = "none", child.client = "none",
         mem[p].pc \in ShellPlaces, mem'[p].pc \in ShellPlaces,
         mem[p].pc = "join" \/ mem'[p].pc # "join",
         mem[p].pc = "waitpid" => mem'[p].pc = "waitpid" /\ mem'[p].waits = mem[p].waits,
         mem[p].pc = "join" => mem'[p].pc = "join",
         mem'[p].pc # "join" => mem'[p].server = "none" /\ mem'[p].client = "none"
  PROVE  Cast'
PROOF
  <1>1. Roles'
    <2> SUFFICES ASSUME NEW q \in Pids
                 PROVE  (Alive(q) => RoleOf(q))' /\ (~Alive(q) => mem[q].pc \in {"none", "reapjob"})'
      BY DEF Roles
    <2>1. CASE q = c
      BY <2>1 DEF Born, RoleOf, Alive, ShellPlaces, ShellKinds
    <2>2. CASE q = p
      BY <2>2 DEF Born, Cast, Roles, RoleOf, Alive, ShellPlaces
    <2>3. CASE q # p /\ q # c
      BY <2>3 DEF Born, Cast, Roles, RoleOf, Alive
    <2> QED
      BY <2>1, <2>2, <2>3
  <1>2. FirstShell'
    BY MyshAssumption DEF Born, Cast, FirstShell
  <1>3. OneGroup'
    BY DEF Born, Cast, OneGroup, ShellKinds
  <1>4. ASSUME NEW s \in Pids, NEW d \in Pids, d \in Children(s)', proc'[d].kind = "foreground"
        PROVE  mem'[s].pc = "waitpid" /\ mem'[s].waits = d
    <2>1. d # c /\ d \in Children(s) /\ proc[d].kind = "foreground"
      BY <1>4 DEF Born
    <2>2. s # c
      BY <2>1 DEF Born
    <2> QED
      BY <2>1, <2>2 DEF Cast, Awaited, Born
  <1>5. \A q \in Pids : SubShell(q)' => SubShell(q) /\ q # c
    BY DEF Born, SubShell, Alive
  <1>6. OneSubShell'
    <2>1. Shell # c /\ (Alive(Shell)' => Alive(Shell))
      BY MyshAssumption DEF Born, Cast, FirstShell, Alive
    <2> QED
      BY <1>5, <2>1 DEF Born, Cast, OneSubShell
  <1>7. NeedsExec'
    <2>1. mem[p].pc # "exec"
      BY DEF ShellPlaces
    <2> QED
      BY <1>5, <2>1 DEF Born, Cast, NeedsExec
  <1> QED
    BY <1>1, <1>2, <1>3, <1>4, <1>6, <1>7 DEF Cast, Awaited

\* A program in the foreground, by a shell that runs.
LEMMA ProgramKeepsCast ==
  ASSUME JobInv, Cast, NEW p \in Pids, NEW c \in Pids, UNCHANGED may, AtWork(p),
         NEW child, Born(p, c, "foreground", child),
         child.pc = "exec", child.server = "none", child.client = "none",
         mem'[p].pc = "waitpid", mem'[p].waits = c,
         mem'[p].server = "none" /\ mem'[p].client = "none"
  PROVE  Cast'
PROOF
  <1>1. /\ Alive(p) /\ mem[p].pc \in ShellPlaces \ {"waitpid"} /\ proc[p].kind \in ShellKinds
        /\ \A d \in Children(p) : proc[d].kind # "foreground"
    BY DEF AtWork, IsShell, ShellKinds, Cast, Awaited, Children
  <1>2. Roles'
    <2> SUFFICES ASSUME NEW q \in Pids
                 PROVE  (Alive(q) => RoleOf(q))' /\ (~Alive(q) => mem[q].pc \in {"none", "reapjob"})'
      BY DEF Roles
    <2>1. CASE q = c
      BY <2>1 DEF Born, RoleOf, Alive, ShellPlaces, ShellKinds
    <2>2. CASE q = p
      BY <1>1, <2>2 DEF Born, Cast, Roles, RoleOf, Alive, ShellPlaces
    <2>3. CASE q # p /\ q # c
      BY <2>3 DEF Born, Cast, Roles, RoleOf, Alive
    <2> QED
      BY <2>1, <2>2, <2>3
  <1>3. FirstShell'
    BY MyshAssumption DEF Born, Cast, FirstShell
  <1>4. OneGroup'
    BY <1>1 DEF Born, Cast, OneGroup, ShellKinds, Alive
  <1>5. ASSUME NEW s \in Pids, NEW d \in Pids, d \in Children(s)', proc'[d].kind = "foreground"
        PROVE  mem'[s].pc = "waitpid" /\ mem'[s].waits = d
    <2>1. CASE s = p
      BY <1>1, <1>5, <2>1 DEF Born
    <2>2. CASE s # p
      <3>1. d \in Children(s) /\ d # c /\ s # c
        BY <1>5, <2>2 DEF Born, Children
      <3> QED
        BY <1>5, <2>2, <3>1 DEF Born, Cast, Awaited
    <2> QED
      BY <2>1, <2>2
  <1>6. \A q \in Pids : SubShell(q)' => SubShell(q) \/ (q = c /\ p = Shell)
    BY <1>1 DEF Born, SubShell, Alive, ShellPlaces
  <1>7. OneSubShell'
    <2>1. Shell # c /\ (Alive(Shell)' => Alive(Shell))
      BY MyshAssumption DEF Born, Cast, FirstShell, Alive
    <2>2. ASSUME p = Shell, NEW q \in Pids, SubShell(q) PROVE FALSE
      <3>1. q \in Children(p)
        BY <1>1, <2>2 DEF Cast, OneSubShell, Children, SubShell, Alive
      <3> QED
        BY <1>1, <2>2, <3>1 DEF SubShell
    <2>3. \A q \in Pids : SubShell(q) => q # c
      BY DEF Born, SubShell, Alive
    <2> QED
      BY <1>6, <2>1, <2>2, <2>3 DEF Born, Cast, OneSubShell
  <1>8. NeedsExec'
    <2>1. mem[p].pc # "exec"
      BY <1>1 DEF ShellPlaces
    <2>2. \A q \in Pids : SubShell(q)' /\ q # c => SubShell(q)
      BY <1>6
    <2>3. SubShell(p) => "exec" \in may
      BY <2>1 DEF Cast, NeedsExec
    <2> QED
      BY <2>1, <2>2, <2>3 DEF Born, Cast, NeedsExec
  <1> QED
    BY <1>2, <1>3, <1>4, <1>5, <1>7, <1>8 DEF Cast, Awaited

-----------------------------------------------------------------------------
(* The steps, and the cast.                                                *)

Step(p) == Input(p) \/ ShellStep(p) \/ ChildStep(p) \/ ServerStep(p) \/ ClientStep(p)

Forks(p) == StartJob(p) \/ StartProgram(p) \/ ForkFirst(p) \/ ForkSecond(p)

\* All steps but the forks are steady, and only a kill ends others.
LEMMA StepSteady ==
  ASSUME JobInv, Cast, NEW p \in Pids, Step(p)
  PROVE  \/ Steady(p) /\ (OthersLive(p) \/ KillCommand(p) \/ KillJob(p))
         \/ Forks(p)
PROOF
  <1> USE DEF JobInv, Shape
  <1>1. UNCHANGED proc => TableSteady /\ \A q \in Pids : Alive(q) => Alive(q)'
    BY DEF TableSteady, Alive
  <1>2. \A w : WaitReturns(p, w) => TableSteady /\ \A q \in Pids : Alive(q) => Alive(q)'
    BY WaitSteady
  <1>3. ASSUME TableSteady /\ \A q \in Pids : Alive(q) => Alive(q)',
               \A q \in Pids \ {p} : mem'[q] = mem[q]
        PROVE  Steady(p) /\ OthersLive(p)
    BY <1>3 DEF Steady, OthersSteady, OthersLive
  <1>4. Exit(p) => Steady(p) /\ OthersLive(p)
    <2> SUFFICES ASSUME Exit(p) PROVE Steady(p) /\ OthersLive(p)
      OBVIOUS
    <2>1. TableSteady /\ (\A q \in Pids \ {p} : Alive(q) => Alive(q)')
      BY EndSteady DEF Exit
    <2>2. \A q \in Pids \ {p} : mem'[q] = mem[q]
      BY DEF Exit, Forget
    <2> QED
      BY <2>1, <2>2 DEF Steady, OthersSteady, OthersLive
  <1>5. ASSUME /\ proc'[p].status = proc[p].status /\ proc'[p].kind = proc[p].kind
               /\ proc'[p].parent = proc[p].parent
               /\ proc'[p].group = proc[p].group \/ proc[p].kind = "job"
               /\ \A q \in Pids \ {p} : proc'[q] = proc[q]
        PROVE  TableSteady /\ \A q \in Pids : Alive(q) => Alive(q)'
    BY <1>5 DEF TableSteady, Alive
  <1>6. CASE Input(p)
    <2>1. CASE ReadCommand(p) \/ ReadEof(p) \/ ReadExit(p)
      BY <1>1, <1>3, <2>1 DEF ReadCommand, ReadEof, ReadExit
    <2> QED
      BY <1>4, <1>6, <2>1 DEF Input, Terminate
  <1>7. CASE ShellStep(p)
    <2>1. CASE CheckRunning(p) \/ DoNothing(p) \/ RefuseJob(p) \/ StartPipeHere(p) \/ PipeDone(p)
      BY <1>1, <1>3, <2>1 DEF CheckRunning, DoNothing, RefuseJob, StartPipeHere, PipeDone, Go
    <2>2. CASE FgChecks(p) \/ FgNoJob(p) \/ FgGives(p) \/ FgTakesBack(p)
      BY <1>1, <1>3, <2>2 DEF FgChecks, FgNoJob, FgGives, FgTakesBack, Go
    <2>3. CASE CheckDone(p) \/ CheckAgain(p) \/ ProgramDone(p) \/ FgWaits(p) \/ ReapJob(p)
      BY <1>2, <1>3, <2>3 DEF CheckDone, CheckAgain, ProgramDone, FgWaits, ReapJob, Go
    <2>4. CASE KillCommand(p) \/ KillJob(p)
      BY <2>4, KillSteady DEF KillCommand, KillJob
    <2>5. CASE Leave(p)
      BY <1>4, <2>5 DEF Leave
    <2> QED
      BY <1>7, <2>1, <2>2, <2>3, <2>4, <2>5 DEF ShellStep, Forks
  <1>8. CASE ChildStep(p)
    <2>1. CASE SetGroup(p)
      <3>1. mem[p].pc = "born" /\ proc[p].kind = "job"
        BY <2>1 DEF SetGroup, At, Cast, Roles, RoleOf
      <3>2. TableSteady /\ \A q \in Pids : Alive(q) => Alive(q)'
        BY <1>5, <2>1, <3>1 DEF SetGroup, ProcType
      <3> QED
        BY <1>3, <2>1, <3>2 DEF SetGroup
    <2>2. CASE PipeJobDone(p) \/ ProgramEnds(p)
      BY <1>4, <2>2 DEF PipeJobDone, ProgramEnds
    <2>3. CASE Exec(p) \/ ExecFails(p)
      BY <1>1, <1>3, <2>3 DEF Exec, ExecFails
    <2> QED
      BY <1>8, <2>1, <2>2, <2>3 DEF ChildStep
  <1>9. CASE ServerStep(p)
    <2>1. CASE Unlink(p) \/ Accept(p)
      BY <1>1, <1>3, <2>1 DEF Unlink, Accept, ServerGoes
    <2>2. CASE Bind(p) \/ Close(p)
      <3>1. TableSteady /\ \A q \in Pids : Alive(q) => Alive(q)'
        BY <1>5, <2>2 DEF Bind, Close, ProcType
      <3> QED
        BY <1>3, <2>2, <3>1 DEF Bind, Close, ServerGoes
    <2>3. CASE BindFails(p)
      BY <1>4, <2>3 DEF BindFails
    <2>4. CASE WaitFirst(p)
      BY <1>2, <1>3, <2>4 DEF WaitFirst, ServerGoes
    <2> QED
      BY <1>9, <2>1, <2>2, <2>3, <2>4 DEF ServerStep, Forks
  <1>10. CASE ClientStep(p)
    <2>1. CASE Connect(p) \/ SeeToken(p)
      BY <1>1, <1>3, <2>1 DEF Connect, SeeToken, ClientGoes
    <2>2. CASE WaitSecond(p)
      BY <1>2, <1>3, <2>2 DEF WaitSecond
    <2> QED
      BY <1>10, <2>1, <2>2 DEF ClientStep, Forks
  <1> QED
    BY <1>6, <1>7, <1>8, <1>9, <1>10 DEF Step

\* A step of a thread of a pipe.
LEMMA ThreadKeepsCast ==
  ASSUME JobInv, JobInv', Cast, NEW p \in Pids, Steady(p), UNCHANGED may,
         Alive(p), Alive(p)', mem[p].pc = "join", mem'[p].pc = "join"
  PROVE  Cast'
PROOF
  <1>1. proc'[p].kind = proc[p].kind
    BY DEF Steady, TableSteady, Alive
  <1>2. RoleOf(p)'
    BY <1>1 DEF Cast, Roles, RoleOf, ShellPlaces
  <1>3. ASSUME NEW c \in Children(p)', proc'[c].kind = "foreground" PROVE FALSE
    <2>1. c \in Pids /\ c \in Children(p) /\ proc[c].kind = "foreground"
      BY <1>3, ProcessesAssumption DEF Steady, TableSteady, Children
    <2> QED
      BY <2>1 DEF Cast, Awaited
  <1>4. SubShell(p)' => SubShell(p) /\ "exec" \in may
    BY <1>1 DEF SubShell, ShellPlaces, Cast, NeedsExec
  <1> QED
    BY <1>2, <1>3, <1>4, SteadyKeepsCast

\* The end of a wait for a program.
LEMMA ProgramEndKeepsCast ==
  ASSUME JobInv, JobInv', Cast, NEW p \in Pids, Steady(p), UNCHANGED may,
         At(p, "waitpid"), WaitReturns(p, mem[p].waits), Alive(p)',
         mem'[p].pc = "read", mem'[p].server = "none", mem'[p].client = "none"
  PROVE  Cast'
PROOF
  <1>1. proc'[p].kind = proc[p].kind
    BY DEF Steady, TableSteady, Alive
  <1>2. RoleOf(p)'
    BY <1>1 DEF At, Cast, Roles, RoleOf, ShellPlaces
  <1>3. ASSUME NEW c \in Children(p)', proc'[c].kind = "foreground" PROVE FALSE
    <2>1. c \in Pids /\ c \in Children(p) /\ proc[c].kind = "foreground"
      BY <1>3, ProcessesAssumption DEF Steady, TableSteady, Children
    <2>2. mem[p].waits = c
      BY <2>1 DEF Cast, Awaited
    <2>3. c # -1
      BY <2>1, ProcessesAssumption
    <2>4. Named(p, mem[p].waits) = {c}
      BY <2>1, <2>2, <2>3 DEF Named
    <2>5. proc' = [proc EXCEPT ![c] = Free]
      BY <2>4 DEF WaitReturns, Reap
    <2>6. proc'[c].status = "free"
      BY <2>1, <2>5 DEF JobInv, Shape, Free
    <2> QED
      BY <1>3, <2>6 DEF Children
  <1>4. SubShell(p)' => SubShell(p) /\ "exec" \in may
    BY <1>1 DEF SubShell, ShellPlaces, At, Cast, NeedsExec
  <1> QED
    BY <1>2, <1>3, <1>4, SteadyKeepsCast

\* Every step keeps the cast.
LEMMA StepKeepsCast ==
  ASSUME JobInv, JobInv', Cast, NEW p \in Pids, Step(p)
  PROVE  Cast'
PROOF
  <1>1. mem[p] \in MemType
    BY DEF JobInv, Shape
  <1>2. UNCHANGED may
    BY DEF Step, Input, ReadCommand, ReadEof, ReadExit, Terminate, ShellStep, CheckRunning,
       CheckDone, CheckAgain, DoNothing, RefuseJob, StartJob, StartProgram, ProgramDone,
       StartPipeHere, PipeDone, KillCommand, FgChecks, FgNoJob, FgGives, FgWaits, FgTakesBack,
       KillJob, ReapJob, Leave, ChildStep, SetGroup, PipeJobDone, Exec, ExecFails, ProgramEnds,
       ServerStep, Unlink, Bind, BindFails, Accept, ForkFirst, WaitFirst, Close,
       ClientStep, Connect, SeeToken, ForkSecond, WaitSecond
  <1>3. ~Forks(p) => Steady(p)
    BY StepSteady
  \* where the loop's steps begin
  <1>4. ASSUME NEW pc \in ShellPlaces \ {"join", "waitpid"}, At(p, pc)
        PROVE  AtWork(p) /\ mem[p].server = "none" /\ mem[p].client = "none"
    BY <1>4, InLoop DEF At, AtWork, Cast, Roles, RoleOf
  \* and where they lead
  <1>5. ASSUME NEW pc \in ShellPlaces \ {"join", "waitpid"}, At(p, pc), Steady(p),
               mem'[p].pc \in ShellPlaces, Alive(p)' \/ mem'[p].pc = "reapjob",
               mem'[p].pc # "join" =>
                 mem'[p].server = mem[p].server /\ mem'[p].client = mem[p].client
        PROVE  Cast'
    BY <1>2, <1>4, <1>5, LoopKeepsCast
  <1>6. /\ "read" \in ShellPlaces \ {"join", "waitpid"} /\ "poll" \in ShellPlaces \ {"join", "waitpid"}
        /\ "again" \in ShellPlaces \ {"join", "waitpid"} /\ "act" \in ShellPlaces \ {"join", "waitpid"}
        /\ "fgwait" \in ShellPlaces \ {"join", "waitpid"} /\ "fgback" \in ShellPlaces \ {"join", "waitpid"}
        /\ "killjob" \in ShellPlaces \ {"join", "waitpid"} /\ "reapjob" \in ShellPlaces \ {"join", "waitpid"}
        /\ "leave" \in ShellPlaces \ {"join", "waitpid"} /\ "join" \in ShellPlaces
        /\ "waitpid" \in ShellPlaces
    BY DEF ShellPlaces
  <1>7. ASSUME NEW m \in MemType
        PROVE  Back(m).pc = "read" /\ Back(m).server = m.server /\ Back(m).client = m.client
    BY DEF Back, MemType
  <1>8. UNCHANGED proc => (Alive(p) => Alive(p)')
    BY DEF Alive
  <1>9. \A w : WaitReturns(p, w) => (Alive(p) => Alive(p)')
    BY WaitSteady DEF JobInv
  <1>10. Exit(p) => Cast'
    BY <1>2, ExitKeepsCast
  <1>11. CASE Input(p) /\ Steady(p)
    <2>1. CASE ReadCommand(p) \/ ReadEof(p) \/ ReadExit(p)
      <3>1. At(p, "read") /\ UNCHANGED proc
        BY <2>1 DEF ReadCommand, ReadEof, ReadExit, Reading
      <3>2. /\ mem'[p].pc \in {"poll", "leave", "killjob"}
            /\ mem'[p].server = mem[p].server /\ mem'[p].client = mem[p].client
        <4>1. \E c, pc : /\ pc \in {"poll", "leave", "killjob"}
                         /\ mem' = [mem EXCEPT ![p].cmd = c, ![p].pc = pc]
          BY <2>1 DEF ReadCommand, ReadEof, ReadExit
        <4>2. PICK c, pc : /\ pc \in {"poll", "leave", "killjob"}
                           /\ mem' = [mem EXCEPT ![p].cmd = c, ![p].pc = pc]
          BY <4>1
        <4>3. mem'[p] = [mem[p] EXCEPT !.cmd = c, !.pc = pc]
          BY <4>2 DEF JobInv, Shape
        <4>4. mem'[p].pc = pc /\ mem'[p].server = mem[p].server /\ mem'[p].client = mem[p].client
          BY <1>1, <4>3 DEF MemType
        <4> QED
          BY <4>2, <4>4
      <3> QED
        BY <1>5, <1>6, <1>8, <1>11, <3>1, <3>2 DEF At
    <2> QED
      BY <1>10, <1>11, <2>1 DEF Input, Terminate
  <1>12. CASE ShellStep(p) /\ Steady(p) /\ ~Forks(p)
    <2>1. CASE CheckRunning(p) \/ CheckDone(p) \/ CheckAgain(p) \/ FgChecks(p) \/ FgGives(p)
               \/ FgWaits(p) \/ ReapJob(p)
      <3>1. \E pc \in {"poll", "again", "act", "fgwait", "reapjob"} : At(p, pc)
        BY <2>1 DEF CheckRunning, CheckDone, CheckAgain, FgChecks, FgGives, FgWaits, ReapJob, Acting
      <3>2. /\ mem'[p].pc \in {"poll", "again", "act", "fgwait", "fgback", "leave"}
            /\ mem'[p].server = mem[p].server /\ mem'[p].client = mem[p].client
        BY <2>1
        DEF CheckRunning, CheckDone, CheckAgain, FgChecks, FgGives, FgWaits, ReapJob, Go,
            JobInv, Shape, MemType
      <3>3. Alive(p)'
        BY <1>8, <1>9, <2>1, <3>1
        DEF CheckRunning, CheckDone, CheckAgain, FgChecks, FgGives, FgWaits, ReapJob, At
      <3> QED
        BY <1>5, <1>6, <1>12, <3>1, <3>2, <3>3
    <2>2. CASE DoNothing(p) \/ RefuseJob(p) \/ FgNoJob(p)
      <3>1. At(p, "act") /\ UNCHANGED proc /\ mem'[p] = Back(mem[p])
        BY <2>2 DEF DoNothing, RefuseJob, FgNoJob, Acting, JobInv, Shape
      <3> QED
        BY <1>1, <1>5, <1>6, <1>7, <1>8, <1>12, <3>1 DEF At
    <2>3. CASE FgTakesBack(p)
      <3>1. At(p, "fgback") /\ UNCHANGED proc /\ mem'[p] = Back([mem[p] EXCEPT !.bgOpen = 0])
        BY <2>3 DEF FgTakesBack, JobInv, Shape
      <3>2. mem'[p].pc = "read" /\ mem'[p].server = mem[p].server /\ mem'[p].client = mem[p].client
        BY <1>1, <3>1 DEF Back, MemType
      <3> QED
        BY <1>5, <1>6, <1>8, <1>12, <3>1, <3>2 DEF At
    <2>4. CASE StartPipeHere(p)
      <3>1. At(p, "act") /\ UNCHANGED proc /\ mem'[p] = StartPipe(mem[p])
        BY <2>4 DEF StartPipeHere, Acting, JobInv, Shape
      <3>2. mem'[p].pc = "join"
        BY <1>1, <3>1 DEF StartPipe, MemType
      <3> QED
        BY <1>5, <1>6, <1>8, <1>12, <3>1, <3>2 DEF At
    <2>5. CASE PipeDone(p)
      <3>1. /\ AtWork(p) /\ UNCHANGED proc
            /\ mem'[p] = Back([mem[p] EXCEPT !.server = "none", !.client = "none"])
        BY <2>5 DEF PipeDone, At, AtWork, JobInv, Shape
      <3>2. mem'[p].pc = "read" /\ mem'[p].server = "none" /\ mem'[p].client = "none"
        BY <1>1, <3>1 DEF Back, MemType
      <3> QED
        BY <1>2, <1>6, <1>8, <1>12, <3>1, <3>2, LoopKeepsCast DEF AtWork
    <2>6. CASE ProgramDone(p)
      <3>1. /\ At(p, "waitpid") /\ WaitReturns(p, mem[p].waits) /\ Alive(p)'
            /\ mem'[p] = Back([mem[p] EXCEPT !.waits = 0])
        BY <1>9, <2>6 DEF ProgramDone, At, JobInv, Shape
      <3>2. mem[p].server = "none" /\ mem[p].client = "none"
        BY <3>1 DEF At, Cast, Roles, RoleOf
      <3>3. mem'[p].pc = "read" /\ mem'[p].server = "none" /\ mem'[p].client = "none"
        BY <1>1, <3>1, <3>2 DEF Back, MemType
      <3> QED
        BY <1>2, <1>12, <3>1, <3>3, ProgramEndKeepsCast
    <2>7. CASE KillCommand(p)
      <3>1. At(p, "act")
        BY <2>7 DEF KillCommand, Acting
      <3>2. PICK v \in {0} \cup {c \in Pids : "kill" \in may /\ ~IsShell(c)} :
              Kill(p, v, Back(mem[p]))
        BY <2>7 DEF KillCommand
      <3>3. p # v
        BY <1>4, <1>6, <3>1, ProcessesAssumption DEF AtWork
      <3>4. mem'[p] = Back(mem[p]) /\ Alive(p)'
        BY <3>1, <3>2, <3>3, KillSteady DEF At
      <3> QED
        BY <1>1, <1>5, <1>6, <1>7, <1>12, <3>1, <3>4
    <2>8. CASE KillJob(p)
      <3>1. At(p, "killjob") /\ Kill(p, mem[p].pbg, [mem[p] EXCEPT !.pc = "reapjob"])
        BY <2>8 DEF KillJob
      <3>2. mem'[p] = [mem[p] EXCEPT !.pc = "reapjob"]
        BY <3>1, KillSteady
      <3>3. /\ mem'[p].pc = "reapjob"
            /\ mem'[p].server = mem[p].server /\ mem'[p].client = mem[p].client
        BY <1>1, <3>2 DEF MemType
      <3> QED
        BY <1>5, <1>6, <1>12, <3>1, <3>3
    <2>9. CASE Leave(p)
      BY <1>10, <2>9 DEF Leave
    <2> QED
      BY <1>12, <2>1, <2>2, <2>3, <2>4, <2>5, <2>6, <2>7, <2>8, <2>9 DEF ShellStep, Forks
  <1>13. CASE ChildStep(p) /\ Steady(p)
    <2>1. CASE SetGroup(p)
      <3>1. At(p, "born") /\ mem[p].server = "none" /\ mem[p].client = "none"
        BY <2>1 DEF SetGroup, At, Cast, Roles, RoleOf
      <3>2. proc[p].kind = "job" /\ (Alive(p)' => proc'[p].kind = "job")
        BY <1>13, <3>1 DEF At, Cast, Roles, RoleOf, Steady, TableSteady, Alive
      <3>3. \/ mem'[p].pc = "join"
            \/ mem'[p].pc = "program" /\ mem'[p].server = "none" /\ mem'[p].client = "none"
        BY <1>1, <2>1 DEF SetGroup, StartPipe, Blank, JobInv, Shape, MemType
      <3>4. Alive(p)'
        BY <2>1 DEF SetGroup, At, Alive, JobInv, Shape, ProcType
      <3>5. ~SubShell(p)' /\ RoleOf(p)'
        BY <3>2, <3>3, <3>4 DEF SubShell, RoleOf, ShellPlaces, ShellKinds
      <3>6. \A c \in Children(p)' : proc'[c].kind # "foreground"
        <4>1. \A c \in Children(p)' : c \in Children(p) /\ proc'[c].kind = proc[c].kind
          BY <1>13, ProcessesAssumption DEF Steady, TableSteady, Children
        <4> QED
          BY <3>1, <4>1 DEF Cast, Awaited, At, Children
      <3> QED
        BY <1>2, <1>13, <3>4, <3>5, <3>6, SteadyKeepsCast
    <2>2. CASE PipeJobDone(p) \/ ProgramEnds(p)
      BY <1>10, <2>2 DEF PipeJobDone, ProgramEnds
    <2>3. CASE Exec(p) \/ ExecFails(p)
      <3>1. /\ At(p, "exec") /\ proc[p].kind = "foreground" /\ UNCHANGED proc
            /\ mem[p].server = "none" /\ mem[p].client = "none"
        BY <2>3 DEF Exec, ExecFails, At, Cast, Roles, RoleOf
      <3>2. \/ mem'[p].pc = "program"
            \/ mem'[p].pc = "read" /\ "exec" \in may /\ proc[p].parent = Shell
        BY <1>1, <1>7, <2>3 DEF Exec, ExecFails, Blank, JobInv, Shape
      <3>3. mem'[p].server = "none" /\ mem'[p].client = "none"
        BY <1>1, <1>7, <2>3, <3>1 DEF Exec, ExecFails, Blank, JobInv, Shape
      <3>4. Alive(p)' /\ RoleOf(p)'
        BY <3>1, <3>2, <3>3 DEF At, Alive, RoleOf, ShellPlaces, ShellKinds
      <3>5. SubShell(p)' => SubShell(p) /\ "exec" \in may
        BY <3>1, <3>2 DEF At, SubShell, ShellPlaces
      <3>6. \A c \in Children(p)' : proc'[c].kind # "foreground"
        BY <3>1 DEF Cast, Awaited, At, Children
      <3> QED
        BY <1>2, <1>13, <3>4, <3>5, <3>6, SteadyKeepsCast
    <2> QED
      BY <1>13, <2>1, <2>2, <2>3 DEF ChildStep
  \* the threads of a pipe
  <1>14. ASSUME NEW at, ServerAt(p, at) \/ ClientAt(p, at), at # "none"
         PROVE  Alive(p) /\ mem[p].pc = "join"
    BY <1>14 DEF ServerAt, ClientAt, Cast, Roles, RoleOf
  <1>15. CASE (ServerStep(p) \/ ClientStep(p)) /\ Steady(p) /\ ~Forks(p)
    <2>1. CASE BindFails(p)
      BY <1>10, <2>1 DEF BindFails
    <2>2. CASE ~BindFails(p)
      <3>1. Alive(p) /\ mem[p].pc = "join"
        BY <1>14, <1>15, <2>2
        DEF ServerStep, Unlink, Bind, Accept, ForkFirst, WaitFirst, Close,
            ClientStep, Connect, SeeToken, ForkSecond, WaitSecond, Forks
      <3>2. mem'[p].pc = mem[p].pc
        BY <1>15, <2>2
        DEF ServerStep, Unlink, Bind, Accept, WaitFirst, Close, ServerGoes,
            ClientStep, Connect, SeeToken, WaitSecond, ClientGoes, Forks, JobInv, Shape, MemType
      <3>3. Alive(p)'
        BY <1>8, <1>9, <1>15, <2>2, <3>1
        DEF ServerStep, Unlink, Bind, Accept, WaitFirst, Close,
            ClientStep, Connect, SeeToken, WaitSecond, Forks, Alive, JobInv, Shape, ProcType
      <3> QED
        BY <1>2, <1>15, <3>1, <3>2, <3>3, ThreadKeepsCast
    <2> QED
      BY <2>1, <2>2
  \* a fork that fails
  <1>16. ASSUME UNCHANGED proc, \A q \in Pids \ {p} : mem'[q] = mem[q]
         PROVE  Steady(p) /\ (Alive(p) => Alive(p)')
    BY <1>16 DEF Steady, TableSteady, OthersSteady, Alive
  <1>17. CASE StartJob(p)
    <2> DEFINE m(pid) == Back([mem[p] EXCEPT !.bgOpen = 1, !.pbg = pid])
               child == [Blank EXCEPT !.pc = "born", !.cmd = mem[p].cmd]
    <2>1. /\ At(p, "act") /\ AtWork(p) /\ mem[p].server = "none" /\ mem[p].client = "none"
          /\ Fork(p, "job", [pid \in ForkAnswers |-> m(pid)], child)
      BY <1>4, <1>6, <1>17 DEF StartJob, Acting
    <2>2. \A pid \in ForkAnswers :
            m(pid).pc = "read" /\ m(pid).server = "none" /\ m(pid).client = "none"
      BY <1>1, <2>1 DEF Back, MemType
    <2>3. child.pc = "born" /\ child.server = "none" /\ child.client = "none"
      BY DEF Blank
    <2> HIDE DEF m, child
    <2>4. CASE UNCHANGED proc /\ mem'[p] = m(-1) /\ \A q \in Pids \ {p} : mem'[q] = mem[q]
      <3>1. mem'[p].pc = "read" /\ mem'[p].server = "none" /\ mem'[p].client = "none"
        BY <2>2, <2>4 DEF ForkAnswers
      <3> QED
        BY <1>5, <1>6, <1>16, <2>1, <2>4, <3>1 DEF At
    <2>5. CASE \E c \in Pids : mem'[p] = m(c) /\ Born(p, c, "job", child)
      <3>1. PICK c \in Pids : mem'[p] = m(c) /\ Born(p, c, "job", child)
        BY <2>5
      <3>2. mem'[p].pc = "read" /\ mem'[p].server = "none" /\ mem'[p].client = "none"
        BY <2>2, <3>1 DEF ForkAnswers
      <3> QED
        BY <1>2, <1>6, <2>1, <2>3, <3>1, <3>2, WorkerKeepsCast DEF At
    <2> QED
      BY <2>1, <2>4, <2>5, ForkBears DEF At, ForkAnswers
  <1>18. CASE StartProgram(p)
    <2> DEFINE m(pid) == [mem[p] EXCEPT !.waits = pid, !.pc = "waitpid"]
               child == [mem[p] EXCEPT !.pc = "exec"]
    <2>1. /\ At(p, "act") /\ AtWork(p) /\ mem[p].server = "none" /\ mem[p].client = "none"
          /\ Fork(p, "foreground", [pid \in ForkAnswers |-> m(pid)], child)
      BY <1>4, <1>6, <1>18 DEF StartProgram, Acting
    <2>2. \A pid \in ForkAnswers :
            /\ m(pid).pc = "waitpid" /\ m(pid).waits = pid
            /\ m(pid).server = "none" /\ m(pid).client = "none"
      BY <1>1, <2>1 DEF MemType
    <2>3. child.pc = "exec" /\ child.server = "none" /\ child.client = "none"
      BY <1>1, <2>1 DEF MemType
    <2> HIDE DEF m, child
    <2>4. CASE UNCHANGED proc /\ mem'[p] = m(-1) /\ \A q \in Pids \ {p} : mem'[q] = mem[q]
      <3>1. mem'[p].pc = "waitpid" /\ mem'[p].server = "none" /\ mem'[p].client = "none"
        BY <2>2, <2>4 DEF ForkAnswers
      <3> QED
        BY <1>5, <1>6, <1>16, <2>1, <2>4, <3>1 DEF At
    <2>5. CASE \E c \in Pids : mem'[p] = m(c) /\ Born(p, c, "foreground", child)
      <3>1. PICK c \in Pids : mem'[p] = m(c) /\ Born(p, c, "foreground", child)
        BY <2>5
      <3>2. /\ mem'[p].pc = "waitpid" /\ mem'[p].waits = c
            /\ mem'[p].server = "none" /\ mem'[p].client = "none"
        BY <2>2, <3>1 DEF ForkAnswers
      <3> QED
        BY <1>2, <2>1, <2>3, <3>1, <3>2, ProgramKeepsCast
    <2> QED
      BY <2>1, <2>4, <2>5, ForkBears DEF At, ForkAnswers
  <1>19. ASSUME NEW kind \in {"first", "second"}, NEW m,
                Fork(p, kind, [pid \in ForkAnswers |-> m], [Blank EXCEPT !.pc = "program"]),
                Alive(p), mem[p].pc = "join", m.pc = mem[p].pc
         PROVE  Cast'
    <2> DEFINE child == [Blank EXCEPT !.pc = "program"]
    <2>1. child.pc = "program" /\ child.server = "none" /\ child.client = "none"
      BY DEF Blank
    <2> HIDE DEF child
    <2>2. CASE UNCHANGED proc /\ mem'[p] = m /\ \A q \in Pids \ {p} : mem'[q] = mem[q]
      BY <1>2, <1>16, <1>19, <2>2, ThreadKeepsCast
    <2>3. CASE \E c \in Pids : mem'[p] = m /\ Born(p, c, kind, child)
      BY <1>2, <1>6, <1>19, <2>1, <2>3, WorkerKeepsCast
    <2>4. Fork(p, kind, [pid \in ForkAnswers |-> m], child)
      BY <1>19 DEF child
    <2> QED
      BY <1>19, <2>2, <2>3, <2>4, ForkBears DEF ForkAnswers
  <1>20. CASE ForkFirst(p)
    <2> DEFINE m == [mem[p] EXCEPT !.server = "wait"]
    <2>1. /\ Alive(p) /\ mem[p].pc = "join" /\ m.pc = mem[p].pc
          /\ Fork(p, "first", [pid \in ForkAnswers |-> m], [Blank EXCEPT !.pc = "program"])
      BY <1>1, <1>14, <1>20 DEF ForkFirst, MemType
    <2> HIDE DEF m
    <2> QED
      BY <1>19, <2>1
  <1>21. CASE ForkSecond(p)
    <2> DEFINE m == [mem[p] EXCEPT !.client = "wait"]
    <2>1. /\ Alive(p) /\ mem[p].pc = "join" /\ m.pc = mem[p].pc
          /\ Fork(p, "second", [pid \in ForkAnswers |-> m], [Blank EXCEPT !.pc = "program"])
      BY <1>1, <1>14, <1>21 DEF ForkSecond, MemType
    <2> HIDE DEF m
    <2> QED
      BY <1>19, <2>1
  <1> QED
    BY <1>3, <1>11, <1>12, <1>13, <1>15, <1>17, <1>18, <1>20, <1>21 DEF Step, Forks

-----------------------------------------------------------------------------
(* The terminal.                                                           *)

InFg(s) == At(s, "fgwait") \/ At(s, "fgback")

SomeShell == \E s \in Pids : Alive(s) /\ IsShell(s)

\* The terminal is the shells', or fg has lent it, or no shell is left.
TakenBack == term = Shell \/ (\E s \in Pids : InFg(s)) \/ ~SomeShell

\* Only a failing execv makes a shell of what was none.
LEMMA NewShell ==
  ASSUME JobInv, Cast, NEW p \in Pids, Step(p), Alive(p), ~IsShell(p),
         Alive(p)', IsShell(p)', proc'[p].kind = proc[p].kind
  PROVE  At(p, "exec") /\ proc[p].parent = Shell
PROOF
  <1>1. mem[p].pc \notin ShellPlaces /\ mem'[p].pc \in ShellPlaces
        /\ proc[p].kind \in ShellKinds
    BY DEF IsShell, ShellKinds
  <1>2. mem[p].server = "none" /\ mem[p].client = "none" /\ mem[p].pc # "born"
    BY <1>1 DEF Cast, Roles, RoleOf, ShellPlaces, ShellKinds
  <1>3. ~(ServerStep(p) \/ ClientStep(p))
    BY <1>2 DEF ServerStep, Unlink, Bind, BindFails, Accept, ForkFirst, WaitFirst, Close, ServerAt,
                ClientStep, Connect, SeeToken, ForkSecond, WaitSecond, ClientAt
  <1>4. ~(Input(p) \/ ShellStep(p))
    BY <1>1 DEF ShellPlaces, Input, ReadCommand, ReadEof, ReadExit, Reading, Terminate, IsShell,
       ShellStep, CheckRunning, CheckDone, CheckAgain, DoNothing, RefuseJob, StartJob,
       StartProgram, ProgramDone, StartPipeHere, PipeDone, KillCommand, FgChecks, FgNoJob,
       FgGives, FgWaits, FgTakesBack, KillJob, ReapJob, Leave, Acting, At
  <1>5. ~(SetGroup(p) \/ PipeJobDone(p))
    BY <1>1, <1>2 DEF SetGroup, PipeJobDone, At, ShellPlaces
  <1>6. ~ProgramEnds(p)
    <2>1. Exit(p) => mem'[p] = Blank
      BY DEF Exit, Forget
    <2> QED
      BY <1>1, <2>1 DEF ProgramEnds, Blank, ShellPlaces
  <1>7. ~Exec(p)
    BY <1>1 DEF Exec, Blank, ShellPlaces, JobInv, Shape
  <1> QED
    BY <1>3, <1>4, <1>5, <1>6, <1>7 DEF Step, ChildStep, ExecFails

\* A fork changes no shell but the one that forks, and makes no new one.
LEMMA ForkOthers ==
  ASSUME JobInv, Cast, NEW p \in Pids, Forks(p)
  PROVE  /\ Alive(p) /\ mem[p].pc \in {"act", "join"}
         /\ \A q \in Pids \ {p} : Alive(q) => Alive(q)' /\ mem'[q] = mem[q]
         /\ mem[p].pc = "join" =>
              \A q \in Pids : Alive(q)' /\ IsShell(q)' => Alive(q) /\ IsShell(q)
PROOF
  <1>1. ASSUME NEW kind, NEW parent, NEW child, Fork(p, kind, parent, child), Alive(p)
        PROVE  \A q \in Pids \ {p} : Alive(q) => Alive(q)' /\ mem'[q] = mem[q]
    <2>1. CASE UNCHANGED proc /\ \A q \in Pids \ {p} : mem'[q] = mem[q]
      BY <2>1 DEF Alive
    <2>2. CASE \E c \in Pids : Born(p, c, kind, child)
      BY <2>2 DEF Born, Alive
    <2> QED
      BY <1>1, <2>1, <2>2, ForkBears
  <1>2. CASE StartJob(p) \/ StartProgram(p)
    BY <1>1, <1>2 DEF StartJob, StartProgram, Acting, At
  <1>3. ASSUME NEW kind \in {"first", "second"}, NEW m, NEW child,
               Fork(p, kind, [pid \in ForkAnswers |-> m], child), Alive(p), m.pc = mem[p].pc
        PROVE  \A q \in Pids : Alive(q)' /\ IsShell(q)' => Alive(q) /\ IsShell(q)
    <2>1. CASE UNCHANGED proc /\ mem'[p] = m /\ \A q \in Pids \ {p} : mem'[q] = mem[q]
      BY <1>3, <2>1 DEF IsShell, Alive
    <2>2. CASE \E c \in Pids : mem'[p] = m /\ Born(p, c, kind, child)
      BY <1>3, <2>2 DEF Born, IsShell, Alive
    <2> QED
      BY <1>3, <2>1, <2>2, ForkBears DEF ForkAnswers
  <1>4. CASE ForkFirst(p)
    <2> DEFINE m == [mem[p] EXCEPT !.server = "wait"]
    <2>1. /\ Alive(p) /\ mem[p].pc = "join" /\ m.pc = mem[p].pc
          /\ Fork(p, "first", [pid \in ForkAnswers |-> m], [Blank EXCEPT !.pc = "program"])
      BY <1>4 DEF ForkFirst, ServerAt, Cast, Roles, RoleOf, JobInv, Shape, MemType
    <2> HIDE DEF m
    <2> QED
      BY <1>1, <1>3, <2>1
  <1>5. CASE ForkSecond(p)
    <2> DEFINE m == [mem[p] EXCEPT !.client = "wait"]
    <2>1. /\ Alive(p) /\ mem[p].pc = "join" /\ m.pc = mem[p].pc
          /\ Fork(p, "second", [pid \in ForkAnswers |-> m], [Blank EXCEPT !.pc = "program"])
      BY <1>5 DEF ForkSecond, ClientAt, Cast, Roles, RoleOf, JobInv, Shape, MemType
    <2> HIDE DEF m
    <2> QED
      BY <1>1, <1>3, <2>1
  <1> QED
    BY <1>2, <1>4, <1>5 DEF Forks

\* Every step keeps this, if no second shell is ended by a signal.
LEMMA StepKeepsTerminal ==
  ASSUME JobInv, JobInv', Cast, Cast', TakenBack, NEW p \in Pids, Step(p),
         ~({"exec", "term"} \subseteq may)
  PROVE  TakenBack'
PROOF
  <1>1. CASE FgGives(p)
    BY <1>1 DEF FgGives, Acting, At, Go, TakenBack, InFg, Alive, JobInv, Shape
  <1>2. CASE FgTakesBack(p)
    BY <1>2 DEF FgTakesBack, At, Alive, TakenBack, Cast, Roles, RoleOf, OneGroup, ShellPlaces
  <1>3. CASE ~FgGives(p) /\ ~FgTakesBack(p)
    <2>1. term' = term
      BY <1>3 DEF Step, Input, ReadCommand, ReadEof, ReadExit, Terminate, ShellStep, CheckRunning,
         CheckDone, CheckAgain, DoNothing, RefuseJob, StartJob, StartProgram, ProgramDone,
         StartPipeHere, PipeDone, KillCommand, FgChecks, FgNoJob, FgWaits,
         KillJob, ReapJob, Leave, ChildStep, SetGroup, PipeJobDone, Exec, ExecFails, ProgramEnds,
         ServerStep, Unlink, Bind, BindFails, Accept, ForkFirst, WaitFirst, Close,
         ClientStep, Connect, SeeToken, ForkSecond, WaitSecond
    <2>2. CASE term = Shell
      BY <2>1, <2>2 DEF TakenBack
    <2>3. CASE ~SomeShell
      <3> SUFFICES ASSUME NEW q \in Pids, Alive(q)', IsShell(q)' PROVE FALSE
        BY DEF TakenBack, SomeShell
      <3>1. CASE Steady(p)
        <4>1. Alive(q) /\ proc'[q].kind = proc[q].kind
          BY <3>1 DEF Steady, TableSteady, Alive
        <4>2. CASE q # p
          BY <2>3, <3>1, <4>1, <4>2 DEF Steady, OthersSteady, SomeShell, IsShell
        <4>3. CASE q = p
          <5>1. At(p, "exec") /\ proc[p].parent = Shell
            BY <2>3, <4>1, <4>3, NewShell DEF SomeShell
          <5>2. Alive(Shell)
            BY <5>1, MyshAssumption DEF At, Alive, Children, JobInv, ParentsAlive
          <5>3. IsShell(Shell)
            BY <5>2, MyshAssumption DEF Cast, FirstShell, Roles, RoleOf, IsShell
          <5> QED
            BY <2>3, <5>2, <5>3, MyshAssumption DEF SomeShell
        <4> QED
          BY <4>2, <4>3
      <3>2. CASE Forks(p)
        <4>1. mem[p].pc = "act" => IsShell(p)
          BY <3>2, ForkOthers, InLoop DEF ShellPlaces
        <4> QED
          BY <2>3, <3>2, <4>1, ForkOthers DEF SomeShell
      <3> QED
        BY <3>1, <3>2, StepSteady
    <2>4. ASSUME NEW s \in Pids, InFg(s) PROVE TakenBack'
      <3>1. AtWork(s)
        BY <2>4, InLoop DEF InFg, At, AtWork, ShellPlaces
      <3>2. CASE s # p /\ (OthersLive(p) \/ Forks(p))
        BY <2>4, <3>2, ForkOthers DEF OthersLive, TakenBack, InFg, At
      <3>3. CASE s # p /\ (KillCommand(p) \/ KillJob(p))
        <4>1. AtWork(p)
          BY <3>3, InLoop DEF KillCommand, KillJob, Acting, At, AtWork, ShellPlaces
        <4> QED
          BY <3>1, <3>3, <4>1, OneAtWork
      <3>4. CASE s = p /\ FgWaits(p)
        <4>1. Alive(p)'
          BY <3>4, WaitSteady DEF FgWaits, At, JobInv
        <4> QED
          BY <3>4, <4>1 DEF FgWaits, Go, TakenBack, InFg, At, JobInv, Shape
      <3>5. CASE s = p /\ Terminate(p)
        <4> SUFFICES ASSUME NEW q \in Pids, Alive(q)', IsShell(q)' PROVE FALSE
          BY DEF TakenBack, SomeShell
        <4>1. "exec" \notin may
          BY <3>5 DEF Terminate
        <4>2. /\ q # p /\ Alive(q) /\ IsShell(q)
          BY <3>5, EndSteady DEF Terminate, Exit, Forget, JobInv, TableSteady, Alive, IsShell
        <4>3. \A r \in Pids : Alive(r) /\ IsShell(r) => r = Shell
          BY <4>1 DEF IsShell, ShellPlaces, Cast, NeedsExec, SubShell, FirstShell, Alive
        <4> QED
          BY <3>1, <3>5, <4>2, <4>3 DEF AtWork
      <3>6. s = p => FgWaits(p) \/ Terminate(p)
        <4> SUFFICES ASSUME s = p PROVE FgWaits(p) \/ Terminate(p)
          OBVIOUS
        <4>1. /\ Alive(p) /\ mem[p].pc \in {"fgwait", "fgback"}
              /\ mem[p].server = "none" /\ mem[p].client = "none"
          BY <2>4 DEF InFg, At, Cast, Roles, RoleOf
        <4>2. ~(ServerStep(p) \/ ClientStep(p) \/ ChildStep(p))
          BY <4>1 DEF ServerStep, Unlink, Bind, BindFails, Accept, ForkFirst, WaitFirst, Close,
             ServerAt, ClientStep, Connect, SeeToken, ForkSecond, WaitSecond, ClientAt,
             ChildStep, SetGroup, PipeJobDone, Exec, ExecFails, ProgramEnds, At
        <4> QED
          BY <1>3, <4>1, <4>2
          DEF Step, Input, ReadCommand, ReadEof, ReadExit, Reading, ShellStep, CheckRunning,
              CheckDone, CheckAgain, DoNothing, RefuseJob, StartJob, StartProgram, ProgramDone,
              StartPipeHere, PipeDone, KillCommand, FgChecks, FgNoJob, KillJob, ReapJob, Leave,
              Acting, At
      <3> QED
        BY <3>2, <3>3, <3>4, <3>5, <3>6, StepSteady
    <2> QED
      BY <2>2, <2>3, <2>4 DEF TakenBack
  <1> QED
    BY <1>1, <1>2, <1>3

\* In the first state the first shell is alone, and reads.
LEMMA CastInit == Init => Cast /\ TakenBack
PROOF
  <1> SUFFICES ASSUME Init PROVE Cast /\ TakenBack
    OBVIOUS
  <1>1. /\ proc[Shell] = [status |-> "run", parent |-> Login, group |-> Shell, kind |-> "shell",
                          listens |-> 0]
        /\ mem[Shell] = [Blank EXCEPT !.pc = "read"] /\ Shell \in Pids
        /\ \A p \in Pids \ {Shell} : proc[p] = Free /\ mem[p] = Blank
    BY MyshAssumption DEF Init
  <1>2. Roles
    <2>1. RoleOf(Shell) /\ Alive(Shell)
      BY <1>1 DEF RoleOf, Alive, Blank, ShellKinds, ShellPlaces
    <2>2. \A p \in Pids \ {Shell} : ~Alive(p) /\ mem[p].pc = "none"
      <3> SUFFICES ASSUME NEW p \in Pids \ {Shell} PROVE ~Alive(p) /\ mem[p].pc = "none"
        OBVIOUS
      <3>1. proc[p].status = "free"
        BY <1>1 DEF Free
      <3>2. mem[p].pc = "none"
        BY <1>1 DEF Blank
      <3> QED
        BY <3>1, <3>2 DEF Alive
    <2> QED
      BY <2>1, <2>2 DEF Roles
  <1>3. FirstShell /\ OneGroup
    BY <1>1 DEF FirstShell, OneGroup, Free
  <1>4. \A s \in Pids : Children(s) = {}
    <2>1. Login \notin Pids
      BY ProcessesAssumption DEF Login
    <2> QED
      BY <1>1, <2>1 DEF Children, Free
  <1>5. Awaited
    BY <1>4 DEF Awaited
  <1>6. OneSubShell /\ NeedsExec
    BY <1>1 DEF OneSubShell, NeedsExec, SubShell, Alive, Free
  <1>7. TakenBack
    BY DEF Init, TakenBack
  <1> QED
    BY <1>2, <1>3, <1>5, <1>6, <1>7 DEF Cast

\* Every step of the shell keeps the cast.
LEMMA CastNext == JobInv /\ Cast /\ [Next]_vars => Cast'
PROOF
  <1> SUFFICES ASSUME JobInv, Cast, [Next]_vars PROVE Cast'
    OBVIOUS
  <1>1. JobInv'
    BY JobInvNext
  <1>2. CASE Next
    BY <1>1, <1>2, StepKeepsCast DEF Next, Step
  <1>3. CASE UNCHANGED vars
    BY <1>3 DEF vars, Cast, Roles, RoleOf, FirstShell, OneGroup, Awaited, OneSubShell, NeedsExec,
                SubShell, Children, Alive
  <1> QED
    BY <1>2, <1>3

\* No second shell is ended by a signal, as none is there or no signal comes.
NoSubShellKilled == ~({"exec", "term"} \subseteq may)

\* The mishaps of a session are given at its start.
LEMMA MayKept == [Next]_vars => UNCHANGED may
PROOF
  BY DEF vars, Next, Input, ReadCommand, ReadEof, ReadExit, Terminate, ShellStep, CheckRunning,
     CheckDone, CheckAgain, DoNothing, RefuseJob, StartJob, StartProgram, ProgramDone,
     StartPipeHere, PipeDone, KillCommand, FgChecks, FgNoJob, FgGives, FgWaits, FgTakesBack,
     KillJob, ReapJob, Leave, ChildStep, SetGroup, PipeJobDone, Exec, ExecFails, ProgramEnds,
     ServerStep, Unlink, Bind, BindFails, Accept, ForkFirst, WaitFirst, Close,
     ClientStep, Connect, SeeToken, ForkSecond, WaitSecond

\* A shell that reads has the terminal, for any processes and whatever goes
\* wrong, but for one thing: that a second shell, the child of an execv that
\* failed, is ended by a signal while fg has lent the terminal out.  (mysh.c
\* 130-134)
THEOREM PromptKeepsTerminal == Spec => [](NoSubShellKilled => PromptHasTerminal)
PROOF
  <1> DEFINE Inv == JobInv /\ Cast /\ (NoSubShellKilled => TakenBack)
  <1>1. Init => Inv
    BY JobInvInit, CastInit
  <1>2. Inv /\ [Next]_vars => Inv'
    <2> SUFFICES ASSUME Inv, [Next]_vars PROVE Inv'
      OBVIOUS
    <2>1. JobInv' /\ Cast' /\ UNCHANGED may
      BY JobInvNext, CastNext, MayKept
    <2>2. NoSubShellKilled' => TakenBack'
      <3> SUFFICES ASSUME NoSubShellKilled PROVE TakenBack'
        BY <2>1 DEF NoSubShellKilled
      <3>1. CASE Next
        BY <2>1, <3>1, StepKeepsTerminal DEF Next, Step, NoSubShellKilled
      <3>2. CASE UNCHANGED vars
        BY <3>2 DEF vars, TakenBack, SomeShell, InFg, At, Alive, IsShell
      <3> QED
        BY <3>1, <3>2
    <2> QED
      BY <2>1, <2>2
  <1>3. Inv => (NoSubShellKilled => PromptHasTerminal)
    <2> SUFFICES ASSUME Inv, NoSubShellKilled, NEW s \in Pids, mem[s].pc = "read"
                 PROVE  term = proc[s].group
      BY DEF PromptHasTerminal
    <2>1. Alive(s)
      BY DEF Cast, Roles
    <2>2. AtWork(s)
      BY <2>1, InLoop DEF AtWork, ShellPlaces
    <2>3. proc[s].group = Shell
      BY <2>1, <2>2 DEF Cast, OneGroup, AtWork, IsShell, ShellKinds, Alive
    <2>4. ASSUME NEW q \in Pids, InFg(q) PROVE FALSE
      <3>1. AtWork(q)
        BY <2>4, InLoop DEF InFg, At, AtWork, ShellPlaces
      <3>2. q = s
        BY <2>2, <3>1, OneAtWork
      <3> QED
        BY <2>4, <3>2 DEF InFg, At
    <2>5. SomeShell
      BY <2>2 DEF SomeShell, AtWork
    <2> QED
      BY <2>3, <2>4, <2>5 DEF TakenBack
  <1> QED
    BY <1>1, <1>2, <1>3, PTL DEF Spec

-----------------------------------------------------------------------------
(* What a calm session keeps: the shell's own places.                      *)

\* The host of a pipe, and a process that is going to be one.
Host(h) == At(h, "join")
Working(h) == Host(h) \/ (At(h, "born") /\ mem[h].cmd = "pipe_job")

\* The dead stand nowhere.
DeadGone == \A p \in Pids : ~Alive(p) => mem[p].pc = "none"

\* bgOpen means a job, until it has been waited for.
Held ==
  Alive(Shell) /\ mem[Shell].bgOpen = 1 /\ mem[Shell].pc \notin {"fgback", "leave"} =>
    mem[Shell].pbg \in JobsOf(Shell)

\* exit kills only if there is a job, and leaves with none.
Exits ==
  /\ mem[Shell].pc \in {"killjob", "reapjob"} => mem[Shell].bgOpen = 1
  /\ mem[Shell].pc = "leave" /\ mem[Shell].cmd = "exit" => JobsOf(Shell) = {}

\* The shell waits for a program it has started.
WaitsForOwn ==
  mem[Shell].pc = "waitpid" =>
    mem[Shell].waits \in Children(Shell) /\ proc[mem[Shell].waits].kind = "foreground"

\* A pipe begins when the shell is alone, and runs in the shell when no job is
\* there.
Begins ==
  Alive(Shell) /\ mem[Shell].cmd \in {"pipe", "pipe_job"} /\ mem[Shell].pc \in {"poll", "again", "act"}

Quiet ==
  /\ Begins => \A p \in Pids : Alive(p) => p = Shell
  /\ Begins /\ mem[Shell].pc # "poll" => mem[Shell].bgOpen = 0
  /\ mem[Shell].pc \in {"join", "again"} => mem[Shell].bgOpen = 0

LoopOrder == DeadGone /\ Held /\ Exits /\ WaitsForOwn /\ Quiet

-----------------------------------------------------------------------------
(* And its pipes.                                                          *)

\* h has one child, of this kind.
Sole(h, kind) == \E c \in Pids : Children(h) = {c} /\ proc[c].kind = kind

\* How far the two threads of h are, together.
Stage(h) ==
  LET m == mem[h] IN
    \/ /\ m.server \in {"unlink", "bind"} /\ m.client = "connect"
       /\ m.syncToken = 0 /\ Children(h) = {} /\ proc[h].listens = 0
    \/ /\ m.server = "accept" /\ m.client \in {"connect", "spin"}
       /\ m.syncToken = 0 /\ Children(h) = {} /\ proc[h].listens # 0
    \/ /\ m.server \in {"fork", "close"} /\ m.client = "spin"
       /\ m.syncToken = 0 /\ Children(h) = {}
    \/ /\ m.server = "wait" /\ m.client = "spin"
       /\ m.syncToken = 0 /\ Sole(h, "first")
    \/ /\ m.server = "done" /\ m.client \in {"spin", "fork"}
       /\ m.syncToken = 1 /\ Children(h) = {} /\ proc[h].listens = 0
    \/ /\ m.server = "done" /\ m.client = "wait"
       /\ m.syncToken = 1 /\ Sole(h, "second") /\ proc[h].listens = 0
    \/ /\ m.server = "done" /\ m.client = "done"
       /\ m.syncToken = 0 /\ Children(h) = {} /\ proc[h].listens = 0

\* Who is not the host of a pipe has neither token, nor commands of one, nor,
\* unless it is the first command of one, its socket.
Plain(p) ==
  /\ mem[p].syncToken = 0
  /\ \A c \in Children(p) : proc[c].kind \in {"job", "foreground"}
  /\ proc[p].kind # "first" => proc[p].listens = 0

\* One pipe at a time.
OnePipe == \A p, q \in Pids : Working(p) /\ Working(q) => p = q

\* While there is a pipe there is no first command but its own.
OwnFirst ==
  \A p, h \in Pids : Alive(p) /\ proc[p].kind = "first" /\ Working(h) => proc[p].parent = h

\* A connection waits for the server of its own process.
Connected ==
  /\ backlog \in [Sockets -> SUBSET Pids]
  /\ \A k \in Sockets : \A h \in backlog[k] :
       Host(h) /\ mem[h].server = "accept" /\ mem[h].client = "spin" /\ proc[h].listens = k

PipeOrder ==
  /\ \A p \in Pids : Alive(p) => IF Host(p) THEN Stage(p) ELSE Plain(p)
  /\ OnePipe /\ OwnFirst /\ Connected

\* The inductive invariant of a calm session.
Order == LoopOrder /\ PipeOrder

-----------------------------------------------------------------------------
(* What a step leaves as it was.                                           *)

\* The row of h in the table, and its children.
TableSame(h) ==
  /\ Children(h)' = Children(h)
  /\ proc'[h].kind = proc[h].kind /\ proc'[h].listens = proc[h].listens
  /\ \A c \in Children(h) : proc'[c].kind = proc[c].kind

\* Nobody's step changes another process that lives on, nor its children.
LEMMA OthersSame ==
  ASSUME JobInv, Cast, NEW p \in Pids, Step(p),
         NEW h \in Pids \ {p}, Alive(h), Alive(h)'
  PROVE  mem'[h] = mem[h] /\ TableSame(h)
PROOF
  <1>1. mem'[h] = mem[h]
    <2>1. CASE Steady(p)
      BY <2>1 DEF Steady, OthersSteady
    <2> QED
      BY <2>1, StepSteady, ForkOthers
  <1> SUFFICES TableSame(h)
    BY <1>1
  <1>2. UNCHANGED proc => TableSame(h)
    BY DEF TableSame, Children
  <1>3. ASSUME NEW w, WaitReturns(p, w) PROVE TableSame(h)
    <2>1. CASE Reap(p, w)
      <3>1. PICK z \in Pids : proc[z].parent = p /\ proc[z].status = "zombie"
                              /\ proc' = [proc EXCEPT ![z] = Free]
        BY <2>1 DEF Reap, Named, Children
      <3>2. z # h /\ proc'[z].status = "free" /\ \A q \in Pids \ {z} : proc'[q] = proc[q]
        BY <3>1 DEF Alive, JobInv, Shape, Free
      <3> QED
        BY <3>1, <3>2 DEF TableSame, Children
    <2> QED
      BY <1>2, <1>3, <2>1 DEF WaitReturns
  <1>4. ASSUME NEW P \in SUBSET Pids, proc' = Without(P) PROVE TableSame(h)
    <2>1. h \notin P
      BY <1>4, EndSteady DEF JobInv
    <2>2. h # 0
      BY ProcessesAssumption
    <2>3. \A c \in Pids : c \in Children(h) =>
            proc'[c].status # "free" /\ proc'[c].parent = h /\ proc'[c].kind = proc[c].kind
      BY <1>4, <2>1, <2>2 DEF Children, Without, JobInv, Shape, ProcType
    <2>4. \A c \in Pids : c \in Children(h)' => c \in Children(h)
      BY <1>4, <2>2 DEF Children, Without, Free, JobInv, Shape, ProcType
    <2>5. proc'[h].kind = proc[h].kind /\ proc'[h].listens = proc[h].listens
      BY <1>4, <2>1 DEF Without, Alive, JobInv, Shape, ProcType
    <2>6. Children(h)' \subseteq Pids /\ Children(h) \subseteq Pids
      BY DEF Children
    <2> QED
      BY <2>3, <2>4, <2>5, <2>6 DEF TableSame, Children
  <1>5. ASSUME /\ proc'[p].status = proc[p].status /\ proc'[p].kind = proc[p].kind
               /\ proc'[p].parent = proc[p].parent
               /\ \A q \in Pids \ {p} : proc'[q] = proc[q]
        PROVE  TableSame(h)
    BY <1>5 DEF TableSame, Children
  <1>6. ASSUME NEW kind, NEW parent, NEW child, Fork(p, kind, parent, child), Alive(p)
        PROVE  TableSame(h)
    <2>1. CASE \E c \in Pids : Born(p, c, kind, child)
      <3>1. PICK c \in Pids : Born(p, c, kind, child)
        BY <2>1
      <3>2. c # h /\ c \notin Children(h)
        BY <3>1 DEF Born, Alive, Children
      <3> QED
        BY <3>1, <3>2 DEF Born, TableSame, Children
    <2> QED
      BY <1>2, <1>6, <2>1, ForkBears
  <1>7. Exit(p) => TableSame(h)
    BY <1>4 DEF Exit
  <1>8. ASSUME NEW w, NEW m, Kill(p, w, m) PROVE TableSame(h)
    BY <1>4, <1>8 DEF Kill
  <1>9. CASE Input(p)
    BY <1>2, <1>7, <1>9 DEF Input, ReadCommand, ReadEof, ReadExit, Terminate
  <1>10. CASE ShellStep(p)
    <2>1. CASE StartJob(p) \/ StartProgram(p)
      BY <1>6, <2>1 DEF StartJob, StartProgram, Acting, At
    <2>2. CASE KillCommand(p) \/ KillJob(p) \/ Leave(p)
      BY <1>7, <1>8, <2>2 DEF KillCommand, KillJob, Leave
    <2>3. CASE CheckDone(p) \/ CheckAgain(p) \/ ProgramDone(p) \/ FgWaits(p) \/ ReapJob(p)
      BY <1>3, <2>3 DEF CheckDone, CheckAgain, ProgramDone, FgWaits, ReapJob
    <2> QED
      BY <1>2, <1>10, <2>1, <2>2, <2>3
      DEF ShellStep, CheckRunning, DoNothing, RefuseJob, StartPipeHere, PipeDone, FgChecks,
          FgNoJob, FgGives, FgTakesBack
  <1>11. CASE ChildStep(p)
    <2>1. CASE SetGroup(p)
      BY <1>5, <2>1 DEF SetGroup, JobInv, Shape, ProcType
    <2> QED
      BY <1>2, <1>7, <1>11, <2>1 DEF ChildStep, PipeJobDone, Exec, ExecFails, ProgramEnds
  <1>12. CASE ServerStep(p)
    <2>1. CASE Bind(p) \/ Close(p)
      BY <1>5, <2>1 DEF Bind, Close, JobInv, Shape, ProcType
    <2>2. CASE ForkFirst(p)
      BY <1>6, <2>2 DEF ForkFirst, ServerAt
    <2> QED
      BY <1>2, <1>3, <1>7, <1>12, <2>1, <2>2 DEF ServerStep, Unlink, BindFails, Accept, WaitFirst
  <1>13. CASE ClientStep(p)
    <2>1. CASE ForkSecond(p)
      BY <1>6, <2>1 DEF ForkSecond, ClientAt
    <2> QED
      BY <1>2, <1>3, <1>13, <2>1 DEF ClientStep, Connect, SeeToken, WaitSecond
  <1> QED
    BY <1>9, <1>10, <1>11, <1>12, <1>13 DEF Step

\* In a calm session the first shell is the only one.
LEMMA CalmShell ==
  ASSUME Cast, Calm, NEW p \in Pids, Alive(p)
  PROVE  /\ IsShell(p) \/ mem[p].pc \in ShellPlaces \ {"join"} => p = Shell
         /\ mem[p].pc = "join" => p = Shell \/ proc[p].kind = "job"
         /\ p = Shell => IsShell(p)
PROOF
  <1>1. "exec" \notin may
    BY DEF Calm
  <1>2. ASSUME IsShell(p) PROVE p = Shell
    <2>1. proc[p].kind = "foreground" => SubShell(p)
      BY <1>2 DEF SubShell, IsShell
    <2>2. mem[p].pc # "exec"
      BY <1>2 DEF IsShell, ShellPlaces
    <2> QED
      BY <1>1, <1>2, <2>1, <2>2 DEF Cast, NeedsExec, FirstShell, IsShell, Alive
  <1>3. mem[p].pc \in ShellPlaces \ {"join"} => IsShell(p)
    BY InLoop
  <1>4. mem[p].pc = "join" /\ proc[p].kind # "job" => IsShell(p)
    BY DEF Cast, Roles, RoleOf, IsShell, ShellPlaces, ShellKinds
  <1>5. p = Shell => IsShell(p)
    BY MyshAssumption DEF Cast, FirstShell, Roles, RoleOf, IsShell, Alive
  <1> QED
    BY <1>2, <1>3, <1>4, <1>5

\* Only a live process takes a step, and its main thread one of a kind.
LEMMA StepOf ==
  ASSUME Cast, Calm, NEW p \in Pids, Step(p)
  PROVE  /\ Alive(p)
         /\ p # Shell => ChildStep(p) \/ ServerStep(p) \/ ClientStep(p)
         /\ p = Shell => Input(p) \/ ShellStep(p) \/ ServerStep(p) \/ ClientStep(p)
         /\ ~Terminate(p) /\ ~ExecFails(p)
PROOF
  <1>1. Alive(p)
    BY DEF Step, Input, ReadCommand, ReadEof, ReadExit, Reading, Terminate, ShellStep, CheckRunning,
       CheckDone, CheckAgain, DoNothing, RefuseJob, StartJob, StartProgram, ProgramDone,
       StartPipeHere, PipeDone, KillCommand, FgChecks, FgNoJob, FgGives, FgWaits, FgTakesBack,
       KillJob, ReapJob, Leave, ChildStep, SetGroup, PipeJobDone, Exec, ExecFails, ProgramEnds,
       ServerStep, Unlink, Bind, BindFails, Accept, ForkFirst, WaitFirst, Close, ServerAt,
       ClientStep, Connect, SeeToken, ForkSecond, WaitSecond, ClientAt, Acting, At
  <1>2. ~Terminate(p) /\ ~ExecFails(p)
    BY DEF Calm, Terminate, ExecFails
  <1>3. Input(p) \/ ShellStep(p) => IsShell(p) \/ mem[p].pc \in ShellPlaces \ {"join"}
    BY DEF ShellPlaces, Input, ReadCommand, ReadEof, ReadExit, Reading, Terminate,
       ShellStep, CheckRunning, CheckDone, CheckAgain, DoNothing, RefuseJob, StartJob,
       StartProgram, ProgramDone, StartPipeHere, PipeDone, KillCommand, FgChecks, FgNoJob,
       FgGives, FgWaits, FgTakesBack, KillJob, ReapJob, Leave, Acting, At
  <1>4. p = Shell => IsShell(p)
    BY <1>1, CalmShell
  <1>5. ChildStep(p) => ~IsShell(p)
    <2>1. IsShell(p) => mem[p].pc \in ShellPlaces
      BY DEF IsShell
    <2> QED
      BY <2>1 DEF ShellPlaces, ChildStep, SetGroup, PipeJobDone, Exec, ExecFails, ProgramEnds, At
  <1> QED
    BY <1>1, <1>2, <1>3, <1>4, <1>5, CalmShell DEF Step

\* The victims of a kill leave the others' children.
LEMMA KillKeepsJobs ==
  ASSUME JobInv, NEW p \in Pids, NEW w, NEW m, Kill(p, w, m), Alive(p), w # p
  PROVE  JobsOf(p)' = JobsOf(p) /\ Alive(p)' /\ proc'[p].listens = proc[p].listens
PROOF
  <1> DEFINE victims == {c \in Pids : Alive(c) /\ (c = w \/ (w = -1 /\ c # p))}
  <1>1. proc' = Without(victims) /\ victims \in SUBSET Pids /\ p \notin victims
    BY DEF Kill
  <1> HIDE DEF victims
  <1>2. p # 0
    BY ProcessesAssumption
  <1>3. \A c \in Pids : proc[c].status # "free" /\ proc[c].parent = p =>
          proc'[c].status # "free" /\ proc'[c].parent = p /\ proc'[c].kind = proc[c].kind
    BY <1>1, <1>2 DEF Without, JobInv, Shape, ProcType
  <1>4. \A c \in Pids : proc'[c].status # "free" /\ proc'[c].parent = p =>
          proc[c].status # "free" /\ proc[c].parent = p /\ proc'[c].kind = proc[c].kind
    BY <1>1, <1>2 DEF Without, Free, JobInv, Shape, ProcType
  <1>5. Alive(p)'
    BY <1>1, EndSteady DEF JobInv
  <1>6. proc'[p].listens = proc[p].listens
    BY <1>1 DEF Without, Alive, JobInv, Shape, ProcType
  <1> QED
    BY <1>3, <1>4, <1>5, <1>6 DEF JobsOf, Children

\* A thread leaves alone what the main thread has in memory, unless the host
\* ends.
LEMMA ThreadStep ==
  ASSUME JobInv, Cast, NEW p \in Pids, ServerStep(p) \/ ClientStep(p)
  PROVE  /\ Alive(p) /\ mem[p].pc = "join"
         /\ \/ BindFails(p) /\ mem'[p] = Blank /\ ~Alive(p)'
            \/ /\ Alive(p)' /\ mem'[p].pc = "join" /\ mem'[p].bgOpen = mem[p].bgOpen
               /\ mem'[p].pbg = mem[p].pbg /\ mem'[p].cmd = mem[p].cmd
PROOF
  <1>1. mem[p] \in MemType
    BY DEF JobInv, Shape
  <1>2. Alive(p) /\ mem[p].pc = "join"
    BY DEF ServerStep, Unlink, Bind, BindFails, Accept, ForkFirst, WaitFirst, Close, ServerAt,
       ClientStep, Connect, SeeToken, ForkSecond, WaitSecond, ClientAt, Cast, Roles, RoleOf
  <1>3. CASE BindFails(p)
    BY <1>2, <1>3, EndSteady DEF BindFails, Exit, Forget, JobInv
  <1>4. ASSUME NEW m \in MemType, mem'[p] = m, UNCHANGED proc \/ Alive(p)',
               m.pc = mem[p].pc, m.bgOpen = mem[p].bgOpen, m.pbg = mem[p].pbg, m.cmd = mem[p].cmd
        PROVE  /\ Alive(p)' /\ mem'[p].pc = "join" /\ mem'[p].bgOpen = mem[p].bgOpen
               /\ mem'[p].pbg = mem[p].pbg /\ mem'[p].cmd = mem[p].cmd
    BY <1>2, <1>4 DEF Alive
  <1>5. ASSUME NEW kind, NEW m, NEW child, Fork(p, kind, [pid \in ForkAnswers |-> m], child)
        PROVE  mem'[p] = m /\ Alive(p)'
    <2>1. CASE UNCHANGED proc /\ mem'[p] = m
      BY <1>2, <2>1 DEF Alive
    <2>2. CASE \E c \in Pids : mem'[p] = m /\ Born(p, c, kind, child)
      BY <1>2, <2>2 DEF Born, Alive
    <2> QED
      BY <1>2, <1>5, <2>1, <2>2, ForkBears DEF ForkAnswers
  <1>6. CASE ForkFirst(p)
    <2> DEFINE m == [mem[p] EXCEPT !.server = "wait"]
    <2>1. /\ m \in MemType /\ m.pc = mem[p].pc /\ m.bgOpen = mem[p].bgOpen /\ m.pbg = mem[p].pbg
          /\ m.cmd = mem[p].cmd
          /\ Fork(p, "first", [pid \in ForkAnswers |-> m], [Blank EXCEPT !.pc = "program"])
      BY <1>1, <1>6, PipeNames DEF ForkFirst, MemType
    <2> HIDE DEF m
    <2> QED
      BY <1>2, <1>4, <1>5, <2>1
  <1>7. CASE ForkSecond(p)
    <2> DEFINE m == [mem[p] EXCEPT !.client = "wait"]
    <2>1. /\ m \in MemType /\ m.pc = mem[p].pc /\ m.bgOpen = mem[p].bgOpen /\ m.pbg = mem[p].pbg
          /\ m.cmd = mem[p].cmd
          /\ Fork(p, "second", [pid \in ForkAnswers |-> m], [Blank EXCEPT !.pc = "program"])
      BY <1>1, <1>7, PipeNames DEF ForkSecond, MemType
    <2> HIDE DEF m
    <2> QED
      BY <1>2, <1>4, <1>5, <2>1
  <1>8. CASE Unlink(p) \/ Bind(p) \/ Accept(p) \/ WaitFirst(p) \/ Close(p)
             \/ Connect(p) \/ SeeToken(p) \/ WaitSecond(p)
    <2>1. /\ mem'[p].pc = mem[p].pc /\ mem'[p].bgOpen = mem[p].bgOpen
          /\ mem'[p].pbg = mem[p].pbg /\ mem'[p].cmd = mem[p].cmd
      BY <1>1, <1>8
      DEF Unlink, Bind, Accept, WaitFirst, Close, ServerGoes, Connect, SeeToken, WaitSecond,
          ClientGoes, JobInv, Shape, MemType
    <2>2. Alive(p)'
      <3>1. CASE WaitFirst(p) \/ WaitSecond(p)
        BY <1>2, <3>1, WaitSteady DEF WaitFirst, WaitSecond, JobInv
      <3>2. CASE Bind(p) \/ Close(p)
        BY <1>2, <3>2 DEF Bind, Close, Alive, JobInv, Shape, ProcType
      <3> QED
        BY <1>2, <1>8, <3>1, <3>2 DEF Unlink, Accept, Connect, SeeToken, Alive
    <2> QED
      BY <1>2, <2>1, <2>2
  <1> QED
    BY <1>2, <1>3, <1>6, <1>7, <1>8 DEF ServerStep, ClientStep

\* Whatever forks, and whatever for.
LEMMA ForkEither ==
  ASSUME JobInv, NEW p \in Pids, Forks(p)
  PROVE  \/ UNCHANGED proc /\ \A q \in Pids \ {p} : mem'[q] = mem[q]
         \/ \E c, kind, child : c \in Pids /\ Born(p, c, kind, child)
PROOF
  <1>1. ASSUME NEW kind, NEW parent, NEW child, Fork(p, kind, parent, child), Alive(p)
        PROVE  \/ UNCHANGED proc /\ \A q \in Pids \ {p} : mem'[q] = mem[q]
               \/ \E c \in Pids : Born(p, c, kind, child)
    BY <1>1, ForkBears
  <1>2. PICK kind, parent, child : Fork(p, kind, parent, child) /\ Alive(p)
    BY DEF Forks, StartJob, StartProgram, ForkFirst, ForkSecond, Acting, At, ServerAt, ClientAt
  <1> QED
    BY <1>1, <1>2

\* Where a process stands that forks.
LEMMA ForkPlaces ==
  ASSUME NEW p \in Pids, Forks(p)
  PROVE  Alive(p) /\ (mem[p].pc = "act" \/ mem[p].server = "fork" \/ mem[p].client = "fork")
PROOF
  BY Zenon DEF Forks, StartJob, StartProgram, ForkFirst, ForkSecond, Acting, At, ServerAt, ClientAt

\* A step of another process leaves the shell's places.
LEMMA OthersKeepLoop ==
  ASSUME JobInv, JobInv', Cast, Cast', Calm, Order, NEW p \in Pids \ {Shell}, Step(p)
  PROVE  LoopOrder'
PROOF
  <1> USE DEF Order, LoopOrder
  <1>1. Alive(p) /\ (ChildStep(p) \/ ServerStep(p) \/ ClientStep(p)) /\ ~ExecFails(p)
    BY StepOf
  <1>2. mem'[p].pc \in {"none", "program", "join"}
    <2>1. CASE ServerStep(p) \/ ClientStep(p)
      BY <2>1, ThreadStep DEF Blank
    <2>2. CASE SetGroup(p) \/ Exec(p)
      <3>1. mem'[p] = StartPipe(mem[p]) \/ mem'[p] = [Blank EXCEPT !.pc = "program"]
        BY <2>2 DEF SetGroup, Exec, JobInv, Shape
      <3>2. StartPipe(mem[p]).pc = "join"
        BY DEF StartPipe, JobInv, Shape, MemType
      <3> QED
        BY <3>1, <3>2 DEF Blank
    <2>3. CASE PipeJobDone(p) \/ ProgramEnds(p)
      BY <2>3 DEF PipeJobDone, ProgramEnds, Exit, Forget, Blank
    <2> QED
      BY <1>1, <2>1, <2>2, <2>3 DEF ChildStep
  <1>3. mem[p].pc \notin {"act", "killjob"}
    BY <1>1, CalmShell DEF ShellPlaces
  <1>4. (Steady(p) /\ OthersLive(p)) \/ Forks(p)
    BY <1>3, StepSteady DEF KillCommand, KillJob, Acting, At
  <1>5. DeadGone'
    <2> SUFFICES ASSUME NEW q \in Pids, ~Alive(q)' PROVE mem'[q].pc = "none"
      BY DEF DeadGone
    <2>1. mem'[q].pc \in {"none", "reapjob"}
      BY DEF Cast, Roles
    <2>2. CASE q = p
      BY <1>2, <2>1, <2>2
    <2>3. CASE q # p /\ OthersLive(p)
      BY <2>3 DEF DeadGone, OthersLive
    <2>4. CASE q # p /\ Forks(p)
      <3>1. mem'[q] = mem[q]
        <4>1. CASE \E c, kind, child : c \in Pids /\ Born(p, c, kind, child)
          <5>1. PICK c, kind, child : c \in Pids /\ Born(p, c, kind, child)
            BY <4>1
          <5>2. q # c
            BY <5>1 DEF Born, Alive
          <5> QED
            BY <2>4, <5>1, <5>2 DEF Born
        <4> QED
          BY <2>4, <4>1, ForkEither
      <3>2. ~Alive(q)
        BY <2>4, ForkOthers
      <3> QED
        BY <3>1, <3>2 DEF DeadGone
    <2> QED
      BY <1>4, <2>2, <2>3, <2>4
  <1>6. CASE ~Alive(Shell)'
    <2>1. mem'[Shell].pc = "none"
      BY <1>5, <1>6, MyshAssumption DEF DeadGone
    <2> QED
      BY <1>5, <1>6, <2>1 DEF Held, Exits, WaitsForOwn, Quiet, Begins
  <1>7. CASE Alive(Shell)'
    <2>1. Alive(Shell)
      <3>1. CASE Steady(p)
        BY <1>7, <3>1, MyshAssumption DEF Steady, TableSteady, Alive
      <3>2. CASE Forks(p)
        BY <1>7, <3>2, ForkEither, MyshAssumption DEF Born, Alive, Cast, FirstShell
      <3> QED
        BY <1>4, <3>1, <3>2
    <2>2. mem'[Shell] = mem[Shell] /\ TableSame(Shell)
      BY <1>7, <2>1, OthersSame, MyshAssumption
    <2>3. JobsOf(Shell)' = JobsOf(Shell)
      BY <2>2 DEF TableSame, JobsOf
    <2>4. ~Begins /\ ~Begins'
      BY <1>1, <2>1, <2>2 DEF Quiet, Begins
    <2>5. Held' /\ Exits'
      BY <2>1, <2>2, <2>3 DEF Held, Exits
    <2>6. WaitsForOwn'
      BY <2>2 DEF WaitsForOwn, TableSame
    <2>7. Quiet'
      BY <2>2, <2>4 DEF Quiet
    <2> QED
      BY <1>5, <2>5, <2>6, <2>7
  <1> QED
    BY <1>6, <1>7

\* Nor does a step of the shell spoil them.
LEMMA OwnKeepsLoop ==
  ASSUME JobInv, JobInv', Cast, Cast', Calm, Order, Step(Shell)
  PROVE  LoopOrder'
PROOF
  <1> DEFINE Goal == /\ Alive(Shell)' \/ mem'[Shell].pc = "none"
                     /\ Held' /\ Exits' /\ WaitsForOwn' /\ Quiet'
  <1>1. Shell \in Pids /\ mem[Shell] \in MemType /\ Alive(Shell)
    BY StepOf, MyshAssumption DEF JobInv, Shape
  <1>2. SUFFICES Goal
    <2> SUFFICES ASSUME NEW q \in Pids \ {Shell}, ~Alive(q)', Goal PROVE mem'[q].pc = "none"
      BY DEF LoopOrder, DeadGone
    <2>1. CASE Steady(Shell)
      BY <2>1 DEF Steady, OthersSteady, Order, LoopOrder, DeadGone, Blank
    <2>2. CASE \E c, kind, child : c \in Pids /\ Born(Shell, c, kind, child)
      <3>1. PICK c, kind, child : c \in Pids /\ Born(Shell, c, kind, child)
        BY <2>2
      <3>2. q # c
        BY <3>1 DEF Born, Alive
      <3> QED
        BY <3>1, <3>2 DEF Born, Order, LoopOrder, DeadGone, Alive
    <2>3. CASE UNCHANGED proc /\ \A r \in Pids \ {Shell} : mem'[r] = mem[r]
      BY <2>3 DEF Order, LoopOrder, DeadGone, Alive
    <2> QED
      BY <1>1, <2>1, <2>2, <2>3, StepSteady, ForkEither
  <1>3. JobsOf(Shell) # {} => mem[Shell].bgOpen = 1 /\ mem[Shell].pbg \in JobsOf(Shell)
    BY <1>1 DEF JobInv, Tracked
  <1>4. UNCHANGED proc => JobsOf(Shell)' = JobsOf(Shell) /\ \A q \in Pids : Alive(q)' => Alive(q)
    BY DEF JobsOf, Children, Alive
  <1>5. UNCHANGED proc => Alive(Shell)'
    BY <1>1 DEF Alive
  \* places that ask for nothing but the job
  <1>6. ASSUME Alive(Shell)', mem'[Shell].pc \in {"read", "fgwait", "fgback", "join"},
               mem'[Shell].pc = "join" => mem'[Shell].bgOpen = 0,
               mem'[Shell].bgOpen = 1 /\ mem'[Shell].pc # "fgback" =>
                 mem'[Shell].pbg \in JobsOf(Shell)'
        PROVE  Goal
    BY <1>6 DEF Held, Exits, WaitsForOwn, Quiet, Begins
  <1>7. ASSUME NEW m \in MemType
        PROVE  /\ Back(m).pc = "read" /\ Back(m).bgOpen = m.bgOpen
               /\ m.bgOpen = 1 => Back(m).pbg = m.pbg
    BY DEF Back, MemType
  <1>8. Exit(Shell) => Goal
    <2> SUFFICES ASSUME Exit(Shell) PROVE Goal
      OBVIOUS
    <2>1. mem'[Shell] = Blank /\ ~Alive(Shell)'
      BY <1>1, EndSteady DEF Exit, Forget, JobInv
    <2> QED
      BY <2>1 DEF Held, Exits, WaitsForOwn, Quiet, Begins, Blank
  <1>9. mem[Shell].bgOpen = 1 /\ mem[Shell].pc \notin {"fgback", "leave"} =>
          mem[Shell].pbg \in JobsOf(Shell)
    BY <1>1 DEF Order, LoopOrder, Held
  <1>10. CASE Input(Shell)
    <2>1. CASE ReadCommand(Shell)
      <3>1. PICK c \in Commands : /\ c \in {"pipe", "pipe_job"} => PipeMayBegin(Shell)
                                 /\ mem' = [mem EXCEPT ![Shell].cmd = c, ![Shell].pc = "poll"]
        BY <2>1 DEF ReadCommand
      <3>2. mem'[Shell] = [mem[Shell] EXCEPT !.cmd = c, !.pc = "poll"]
        BY <1>1, <3>1 DEF JobInv, Shape
      <3>3. /\ mem'[Shell].pc = "poll" /\ mem'[Shell].cmd = c
            /\ mem'[Shell].bgOpen = mem[Shell].bgOpen /\ mem'[Shell].pbg = mem[Shell].pbg
        BY <1>1, <3>2 DEF MemType
      <3>4. UNCHANGED proc /\ mem[Shell].pc = "read"
        BY <2>1 DEF ReadCommand, Reading, At
      <3>5. c \in {"pipe", "pipe_job"} => \A q \in Pids : Alive(q) => q = Shell
        BY <3>1, CalmShell DEF PipeMayBegin, Calm
      <3>6. Held'
        BY <1>4, <1>9, <3>3, <3>4 DEF Held
      <3>7. Quiet'
        BY <1>4, <3>3, <3>4, <3>5 DEF Quiet, Begins
      <3> QED
        BY <1>5, <3>3, <3>4, <3>6, <3>7 DEF Exits, WaitsForOwn
    <2>2. CASE ReadEof(Shell)
      <3>1. mem'[Shell] = [mem[Shell] EXCEPT !.cmd = "eof", !.pc = "leave"] /\ UNCHANGED proc
        BY <1>1, <2>2 DEF ReadEof, JobInv, Shape
      <3>2. mem'[Shell].pc = "leave" /\ mem'[Shell].cmd = "eof"
        BY <1>1, <3>1 DEF MemType
      <3> QED
        BY <1>5, <3>1, <3>2 DEF Held, Exits, WaitsForOwn, Quiet, Begins
    <2>3. CASE ReadExit(Shell)
      <3> DEFINE pc == IF mem[Shell].bgOpen = 1 THEN "killjob" ELSE "leave"
      <3>1. /\ mem'[Shell] = [mem[Shell] EXCEPT !.cmd = "exit", !.pc = pc]
            /\ UNCHANGED proc /\ mem[Shell].pc = "read"
        BY <1>1, <2>3 DEF ReadExit, Reading, At, JobInv, Shape
      <3>2. /\ mem'[Shell].pc = pc
            /\ mem'[Shell].bgOpen = mem[Shell].bgOpen /\ mem'[Shell].pbg = mem[Shell].pbg
        BY <1>1, <3>1 DEF MemType
      <3>3. Held' /\ Exits'
        BY <1>3, <1>4, <1>9, <3>1, <3>2 DEF Held, Exits
      <3> QED
        BY <1>5, <3>1, <3>2, <3>3 DEF WaitsForOwn, Quiet, Begins
    <2> QED
      BY <1>10, <2>1, <2>2, <2>3, StepOf, <1>1 DEF Input
  <1>11. CASE ServerStep(Shell) \/ ClientStep(Shell)
    <2>1. CASE BindFails(Shell)
      BY <1>8, <2>1 DEF BindFails
    <2>2. CASE ~BindFails(Shell)
      <3>1. Alive(Shell)' /\ mem'[Shell].pc = "join" /\ mem'[Shell].bgOpen = mem[Shell].bgOpen
            /\ mem[Shell].pc = "join"
        BY <1>1, <1>11, <2>2, ThreadStep
      <3> QED
        BY <1>6, <3>1 DEF Order, LoopOrder, Quiet
    <2> QED
      BY <2>1, <2>2
  <1>12. ASSUME NEW w, WaitReturns(Shell, w)
         PROVE  Alive(Shell)' /\ JobsOf(Shell)' \subseteq JobsOf(Shell)
                /\ \A q \in Pids : Alive(q)' => Alive(q)
    <2>1. NoNewChildren
      BY <1>1, <1>12, WaitBringsNone DEF JobInv
    <2>2. JobsOf(Shell)' \subseteq JobsOf(Shell)
      BY <1>1, <2>1 DEF NoNewChildren, JobsOf, Children
    <2> QED
      BY <1>1, <1>12, <2>2, WaitSteady DEF JobInv
  <1>13. CASE ShellStep(Shell)
    \* looking at the job
    <2>1. CASE CheckRunning(Shell)
      <3>1. mem'[Shell] = [mem[Shell] EXCEPT !.pc = "act"] /\ UNCHANGED proc /\ mem[Shell].pc = "poll"
        BY <1>1, <2>1 DEF CheckRunning, Go, At, JobInv, Shape
      <3>2. /\ mem'[Shell].pc = "act" /\ mem'[Shell].cmd = mem[Shell].cmd
            /\ mem'[Shell].bgOpen = mem[Shell].bgOpen /\ mem'[Shell].pbg = mem[Shell].pbg
        BY <1>1, <3>1 DEF MemType
      <3>3. Begins => mem[Shell].bgOpen = 0
        <4> SUFFICES ASSUME Begins, mem[Shell].bgOpen = 1 PROVE FALSE
          BY <1>1 DEF MemType
        <4>1. PICK c \in Children(Shell) : Alive(c)
          BY <2>1 DEF CheckRunning, StillRunning, Named
        <4>2. c \in Pids /\ proc[c].parent = Shell
          BY <4>1 DEF Children
        <4>3. c = Shell
          BY <4>1, <4>2 DEF Order, LoopOrder, Quiet
        <4> QED
          BY <1>1, <4>2, <4>3, ProcessesAssumption DEF Cast, FirstShell, Login
      <3>4. Held'
        BY <1>4, <1>9, <3>1, <3>2 DEF Held
      <3>5. Begins' => Begins
        BY <1>1, <3>1, <3>2 DEF Begins
      <3>6. Quiet'
        BY <1>4, <3>1, <3>2, <3>3, <3>5 DEF Quiet, Order, LoopOrder
      <3> QED
        BY <1>5, <3>1, <3>2, <3>4, <3>6 DEF Exits, WaitsForOwn
    <2>2. CASE CheckDone(Shell) \/ CheckAgain(Shell)
      <3>1. PICK pc \in {"again", "act"} :
              mem'[Shell] = [mem[Shell] EXCEPT !.bgOpen = 0, !.pc = pc]
        <4>1. CASE CheckDone(Shell)
          BY <1>1, <4>1 DEF CheckDone, JobInv, Shape
        <4>2. CASE CheckAgain(Shell)
          <5>1. mem[Shell].bgOpen = 0
            BY <4>2 DEF CheckAgain, At, Order, LoopOrder, Quiet
          <5>2. mem'[Shell] = [mem[Shell] EXCEPT !.pc = "act"]
            BY <1>1, <4>2 DEF CheckAgain, Go, JobInv, Shape
          <5>3. [mem[Shell] EXCEPT !.pc = "act"] = [mem[Shell] EXCEPT !.bgOpen = 0, !.pc = "act"]
            BY <1>1, <5>1 DEF MemType
          <5> QED
            BY <5>2, <5>3
        <4> QED
          BY <2>2, <4>1, <4>2
      <3>2. /\ mem'[Shell].pc = pc /\ mem'[Shell].cmd = mem[Shell].cmd
            /\ mem'[Shell].bgOpen = 0
        BY <1>1, <3>1 DEF MemType
      <3>3. /\ Alive(Shell)' /\ \A q \in Pids : Alive(q)' => Alive(q)
            /\ mem[Shell].pc \in {"poll", "again"}
        BY <1>12, <2>2 DEF CheckDone, CheckAgain, At
      <3>4. Begins' => Begins
        BY <1>1, <3>2, <3>3 DEF Begins
      <3>5. Quiet'
        BY <3>2, <3>3, <3>4 DEF Quiet, Order, LoopOrder
      <3> QED
        BY <3>2, <3>3, <3>5 DEF Held, Exits, WaitsForOwn
    \* back to the head of the loop
    <2>3. CASE DoNothing(Shell) \/ RefuseJob(Shell) \/ FgNoJob(Shell)
      <3>1. mem'[Shell] = Back(mem[Shell]) /\ UNCHANGED proc /\ mem[Shell].pc = "act"
        BY <1>1, <2>3 DEF DoNothing, RefuseJob, FgNoJob, Acting, At, JobInv, Shape
      <3> QED
        BY <1>1, <1>4, <1>5, <1>6, <1>7, <1>9, <3>1
    <2>4. CASE FgTakesBack(Shell)
      <3>1. mem'[Shell] = Back([mem[Shell] EXCEPT !.bgOpen = 0]) /\ UNCHANGED proc
        BY <1>1, <2>4 DEF FgTakesBack, JobInv, Shape
      <3>2. [mem[Shell] EXCEPT !.bgOpen = 0] \in MemType
        BY <1>1 DEF MemType
      <3>3. mem'[Shell].pc = "read" /\ mem'[Shell].bgOpen = 0
        BY <1>1, <1>7, <3>1, <3>2 DEF MemType
      <3> QED
        BY <1>5, <1>6, <3>1, <3>3
    <2>5. CASE PipeDone(Shell)
      <3> DEFINE m == [mem[Shell] EXCEPT !.server = "none", !.client = "none"]
      <3>1. mem'[Shell] = Back(m) /\ UNCHANGED proc /\ mem[Shell].pc = "join"
        BY <1>1, <2>5 DEF PipeDone, At, JobInv, Shape
      <3>2. m \in MemType /\ m.bgOpen = mem[Shell].bgOpen
        BY <1>1, PipeNames DEF MemType
      <3>3. mem[Shell].bgOpen = 0
        BY <3>1 DEF Order, LoopOrder, Quiet
      <3> HIDE DEF m
      <3> QED
        BY <1>5, <1>6, <1>7, <3>1, <3>2, <3>3
    <2>6. CASE ProgramDone(Shell)
      <3> DEFINE m == [mem[Shell] EXCEPT !.waits = 0]
      <3>1. mem'[Shell] = Back(m) /\ mem[Shell].pc = "waitpid"
            /\ WaitReturns(Shell, mem[Shell].waits)
        BY <1>1, <2>6 DEF ProgramDone, At, JobInv, Shape
      <3>2. m \in MemType /\ m.bgOpen = mem[Shell].bgOpen /\ m.pbg = mem[Shell].pbg
        BY <1>1 DEF MemType
      <3> HIDE DEF m
      <3>3. JobsOf(Shell)' = JobsOf(Shell)
        <4> DEFINE z == mem[Shell].waits
        <4>1. z \in Children(Shell) /\ proc[z].kind = "foreground" /\ z # -1
          BY <3>1, ProcessesAssumption DEF Order, LoopOrder, WaitsForOwn, Children
        <4>2. proc' = [proc EXCEPT ![z] = Free]
          BY <3>1, <4>1 DEF WaitReturns, Reap, Named
        <4> HIDE DEF z
        <4>3. \A q \in Pids \ {z} : proc'[q] = proc[q]
          BY <4>2 DEF JobInv, Shape
        <4>4. proc'[z].kind # "job"
          BY <4>1, <4>2 DEF Children, JobInv, Shape, Free
        <4> QED
          BY <4>1, <4>3, <4>4 DEF JobsOf, Children
      <3> QED
        BY <1>6, <1>7, <1>9, <1>12, <3>1, <3>2, <3>3
    <2>7. CASE StartPipeHere(Shell)
      <3>1. mem'[Shell] = StartPipe(mem[Shell]) /\ UNCHANGED proc
            /\ mem[Shell].cmd = "pipe" /\ mem[Shell].pc = "act"
        BY <1>1, <2>7 DEF StartPipeHere, Acting, At, JobInv, Shape
      <3>2. mem'[Shell].pc = "join" /\ mem'[Shell].bgOpen = mem[Shell].bgOpen
        BY <1>1, <3>1 DEF StartPipe, MemType
      <3>3. mem[Shell].bgOpen = 0
        BY <1>1, <3>1 DEF Order, LoopOrder, Quiet, Begins
      <3> QED
        BY <1>5, <1>6, <3>1, <3>2, <3>3
    \* fg
    <2>8. CASE FgChecks(Shell)
      <3>1. /\ mem'[Shell] = [mem[Shell] EXCEPT !.cmd = "fg_checked", !.pc = "poll"]
            /\ UNCHANGED proc /\ mem[Shell].pc = "act"
        BY <1>1, <2>8 DEF FgChecks, Acting, At, JobInv, Shape
      <3>2. /\ mem'[Shell].pc = "poll" /\ mem'[Shell].cmd = "fg_checked"
            /\ mem'[Shell].bgOpen = mem[Shell].bgOpen /\ mem'[Shell].pbg = mem[Shell].pbg
        BY <1>1, <3>1 DEF MemType
      <3> QED
        BY <1>4, <1>5, <1>9, <3>1, <3>2 DEF Held, Exits, WaitsForOwn, Quiet, Begins
    <2>9. CASE FgGives(Shell)
      <3>1. mem'[Shell] = [mem[Shell] EXCEPT !.pc = "fgwait"] /\ UNCHANGED proc /\ mem[Shell].pc = "act"
        BY <1>1, <2>9 DEF FgGives, Go, Acting, At, JobInv, Shape
      <3>2. /\ mem'[Shell].pc = "fgwait"
            /\ mem'[Shell].bgOpen = mem[Shell].bgOpen /\ mem'[Shell].pbg = mem[Shell].pbg
        BY <1>1, <3>1 DEF MemType
      <3> QED
        BY <1>4, <1>5, <1>6, <1>9, <3>1, <3>2
    <2>10. CASE FgWaits(Shell)
      <3>1. mem'[Shell] = [mem[Shell] EXCEPT !.pc = "fgback"] /\ Alive(Shell)'
        BY <1>1, <1>12, <2>10 DEF FgWaits, Go, JobInv, Shape
      <3>2. mem'[Shell].pc = "fgback"
        BY <1>1, <3>1 DEF MemType
      <3> QED
        BY <1>6, <3>1, <3>2
    \* forks, which do not fail
    <2>11. ASSUME NEW kind, NEW parent, NEW child, Fork(Shell, kind, parent, child)
           PROVE  \E c \in Pids :
                    /\ mem'[Shell] = parent[c] /\ Alive(Shell)'
                    /\ c \in Children(Shell)' /\ proc'[c].kind = kind
                    /\ JobsOf(Shell) \subseteq JobsOf(Shell)'
      <3>1. "fork" \notin may
        BY DEF Calm
      <3>2. PICK c \in Pids : mem'[Shell] = parent[c] /\ Born(Shell, c, kind, child)
        BY <1>1, <2>11, <3>1, ForkBears
      <3>3. Alive(Shell)' /\ c \in Children(Shell)' /\ proc'[c].kind = kind
        BY <1>1, <3>2 DEF Born, Alive
      <3>4. JobsOf(Shell) \subseteq JobsOf(Shell)'
        BY <3>2 DEF Born, JobsOf, Children
      <3> QED
        BY <3>2, <3>3, <3>4
    <2>12. CASE StartJob(Shell)
      <3> DEFINE m(pid) == Back([mem[Shell] EXCEPT !.bgOpen = 1, !.pbg = pid])
                 child == [Blank EXCEPT !.pc = "born", !.cmd = mem[Shell].cmd]
      <3>1. Fork(Shell, "job", [pid \in ForkAnswers |-> m(pid)], child)
        BY <2>12 DEF StartJob
      <3>2. \A pid \in Pids : m(pid).pc = "read" /\ m(pid).bgOpen = 1 /\ m(pid).pbg = pid
        BY <1>1 DEF Back, MemType
      <3> HIDE DEF m, child
      <3>3. PICK c \in Pids : /\ mem'[Shell] = m(c) /\ Alive(Shell)'
                             /\ c \in Children(Shell)' /\ proc'[c].kind = "job"
        BY <2>11, <3>1 DEF ForkAnswers
      <3>4. c \in JobsOf(Shell)'
        BY <3>3 DEF JobsOf
      <3> QED
        BY <1>6, <3>2, <3>3, <3>4
    <2>13. CASE StartProgram(Shell)
      <3> DEFINE m(pid) == [mem[Shell] EXCEPT !.waits = pid, !.pc = "waitpid"]
                 child == [mem[Shell] EXCEPT !.pc = "exec"]
      <3>1. Fork(Shell, "foreground", [pid \in ForkAnswers |-> m(pid)], child)
            /\ mem[Shell].pc = "act"
        BY <2>13 DEF StartProgram, Acting, At
      <3>2. \A pid \in Pids :
              /\ m(pid).pc = "waitpid" /\ m(pid).waits = pid
              /\ m(pid).bgOpen = mem[Shell].bgOpen /\ m(pid).pbg = mem[Shell].pbg
        BY <1>1 DEF MemType
      <3> HIDE DEF m, child
      <3>3. PICK c \in Pids : /\ mem'[Shell] = m(c) /\ Alive(Shell)'
                             /\ c \in Children(Shell)' /\ proc'[c].kind = "foreground"
                             /\ JobsOf(Shell) \subseteq JobsOf(Shell)'
        BY <2>11, <3>1 DEF ForkAnswers
      <3>4. Held'
        BY <1>9, <3>1, <3>2, <3>3 DEF Held
      <3>5. WaitsForOwn'
        BY <3>2, <3>3 DEF WaitsForOwn
      <3> QED
        BY <3>2, <3>3, <3>4, <3>5 DEF Exits, Quiet, Begins
    \* kills and the way out
    <2>14. CASE KillCommand(Shell)
      <3>1. PICK v \in {0} \cup {c \in Pids : "kill" \in may /\ ~IsShell(c)} :
              Kill(Shell, v, Back(mem[Shell]))
        BY <2>14 DEF KillCommand
      <3>2. v # Shell /\ mem[Shell].pc = "act"
        BY <1>1, <2>14, <3>1, CalmShell, ProcessesAssumption DEF KillCommand, Acting, At
      <3>3. /\ mem'[Shell] = Back(mem[Shell])
            /\ JobsOf(Shell)' = JobsOf(Shell) /\ Alive(Shell)'
        BY <1>1, <3>1, <3>2, KillSteady, KillKeepsJobs
      <3> QED
        BY <1>1, <1>6, <1>7, <1>9, <3>2, <3>3
    <2>15. CASE KillJob(Shell)
      <3>1. /\ Kill(Shell, mem[Shell].pbg, [mem[Shell] EXCEPT !.pc = "reapjob"])
            /\ mem[Shell].pc = "killjob" /\ mem[Shell].bgOpen = 1
        BY <2>15 DEF KillJob, At, Order, LoopOrder, Exits
      <3>2. mem[Shell].pbg # Shell
        <4>1. Shell \notin JobsOf(Shell)
          BY <1>1, ProcessesAssumption DEF JobsOf, Children, Cast, FirstShell, Login
        <4> QED
          BY <1>9, <3>1, <4>1
      <3>3. /\ mem'[Shell] = [mem[Shell] EXCEPT !.pc = "reapjob"]
            /\ JobsOf(Shell)' = JobsOf(Shell) /\ Alive(Shell)'
        BY <1>1, <3>1, <3>2, KillSteady, KillKeepsJobs
      <3>4. /\ mem'[Shell].pc = "reapjob" /\ mem'[Shell].bgOpen = 1
            /\ mem'[Shell].pbg = mem[Shell].pbg
        BY <1>1, <3>1, <3>3 DEF MemType
      <3> QED
        BY <1>9, <3>1, <3>3, <3>4 DEF Held, Exits, WaitsForOwn, Quiet, Begins
    <2>16. CASE ReapJob(Shell)
      <3>1. /\ mem'[Shell] = [mem[Shell] EXCEPT !.pc = "leave"]
            /\ Alive(Shell)' /\ JobsOf(Shell)' = {}
        BY <1>1, <1>12, <2>16, WaitEndsJob DEF ReapJob, Go, JobInv, Shape
      <3>2. mem'[Shell].pc = "leave"
        BY <1>1, <3>1 DEF MemType
      <3> QED
        BY <3>1, <3>2 DEF Held, Exits, WaitsForOwn, Quiet, Begins
    <2>17. CASE Leave(Shell)
      BY <1>8, <2>17 DEF Leave
    <2> QED
      BY <1>13, <2>1, <2>2, <2>3, <2>4, <2>5, <2>6, <2>7, <2>8, <2>9, <2>10, <2>12, <2>13, <2>14,
         <2>15, <2>16, <2>17 DEF ShellStep
  <1> QED
    BY <1>1, <1>10, <1>11, <1>13, StepOf

-----------------------------------------------------------------------------
(* The pipes.                                                              *)

Threads(q) == IF Host(q) THEN Stage(q) ELSE Plain(q)

\* Nobody's step changes how far the pipe of another process is.
LEMMA OthersKeepPipes ==
  ASSUME JobInv, Cast, Order, NEW p \in Pids, Step(p),
         NEW q \in Pids \ {p}, Alive(q), Alive(q)'
  PROVE  /\ mem'[q] = mem[q] /\ proc'[q].kind = proc[q].kind
         /\ proc'[q].listens = proc[q].listens
         /\ Working(q)' => Working(q)
         /\ Threads(q)'
PROOF
  <1>1. mem'[q] = mem[q] /\ TableSame(q)
    BY OthersSame
  <1>2. Threads(q)
    BY DEF Order, PipeOrder, Threads
  <1>3. (Host(q)' <=> Host(q)) /\ (Working(q)' <=> Working(q))
    BY <1>1 DEF Host, Working, At
  <1>4. Stage(q) => Stage(q)'
    <2>1. \A kind : Sole(q, kind) => Sole(q, kind)'
      BY <1>1 DEF Sole, TableSame
    <2> QED
      BY <1>1, <2>1 DEF Stage, TableSame
  <1>5. Plain(q) => Plain(q)'
    BY <1>1 DEF Plain, TableSame
  <1> QED
    BY <1>1, <1>2, <1>3, <1>4, <1>5 DEF Threads, TableSame

\* Nobody's connection outlives the socket it was made to.
LEMMA NoStrayConnection ==
  ASSUME JobInv, Order, TableSteady, NEW h \in Pids, NEW k \in Sockets, h \in backlog[k],
         ~Alive(h)', Open(k)',
         \A q \in Pids : Alive(q)' /\ proc'[q].listens # 0 =>
           proc[q].kind = "first" \/ (Host(q) /\ q # h)
  PROVE  FALSE
PROOF
  <1>1. Host(h) /\ mem[h].server = "accept"
    BY DEF Order, PipeOrder, Connected
  <1>2. Children(h) = {}
    BY <1>1 DEF Order, PipeOrder, Stage, Host, At
  <1>3. PICK q \in Pids : Alive(q)' /\ proc'[q].listens = k
    BY DEF Open
  <1>4. Alive(q) /\ k # 0
    BY <1>3, PipeAssumption DEF TableSteady, Alive
  <1>5. CASE proc[q].kind = "first"
    <2>1. q \in Children(h)
      BY <1>1, <1>4, <1>5 DEF Order, PipeOrder, OwnFirst, Working, Children, Alive
    <2> QED
      BY <1>2, <2>1
  <1>6. CASE Host(q) /\ q # h
    BY <1>1, <1>6 DEF Order, PipeOrder, OnePipe, Working
  <1> QED
    BY <1>3, <1>4, <1>5, <1>6

\* A step outside of a pipe, or the last one of it.
LEMMA PlainStep ==
  ASSUME JobInv, JobInv', Cast, Order, NEW p \in Pids, Step(p), Alive(p), Steady(p),
         mem'[p].pc \notin {"join", "born"},
         Alive(p)' => /\ mem'[p].syncToken \in {0, mem[p].syncToken}
                      /\ proc'[p].listens = proc[p].listens,
         Host(p) => Joined(p) \/ ~Alive(p)',
         HangUp \/ (UNCHANGED backlog /\ \A q \in Pids : Alive(q) => Alive(q)')
  PROVE  PipeOrder'
PROOF
  <1>1. ASSUME NEW q \in Pids, Alive(q)'
        PROVE  /\ Alive(q) /\ proc'[q].kind = proc[q].kind
               /\ proc'[q].parent = proc[q].parent \/ proc'[q].parent = 0
    BY <1>1 DEF Steady, TableSteady, Alive
  <1>2. Alive(p)' => Plain(p)'
    <2> SUFFICES ASSUME Alive(p)' PROVE Plain(p)'
      OBVIOUS
    <2>1. Threads(p)
      BY DEF Order, PipeOrder, Threads
    <2>2. \A c \in Children(p)' : c \in Children(p) /\ proc'[c].kind = proc[c].kind
      BY ProcessesAssumption DEF Steady, TableSteady, Children
    <2>3. CASE Host(p)
      <3>1. mem[p].syncToken = 0 /\ Children(p) = {} /\ proc[p].listens = 0
        BY <2>1, <2>3 DEF Threads, Stage, Joined
      <3> QED
        BY <2>2, <3>1 DEF Plain
    <2>4. CASE ~Host(p)
      BY <1>1, <2>1, <2>2, <2>4 DEF Threads, Plain
    <2> QED
      BY <2>3, <2>4
  <1>3. ~Working(p)'
    BY DEF Working, Host, At
  <1>4. \A q \in Pids : Alive(q)' => Threads(q)' /\ (Working(q)' => Working(q))
    BY <1>1, <1>2, <1>3, OthersKeepPipes DEF Threads, Working
  <1>5. OnePipe'
    BY <1>4 DEF Order, PipeOrder, OnePipe, Working, Host, At
  <1>6. OwnFirst'
    <2> SUFFICES ASSUME NEW q \in Pids, NEW h \in Pids, Alive(q)', proc'[q].kind = "first", Working(h)'
                 PROVE  proc'[q].parent = h
      BY DEF OwnFirst
    <2>1. Alive(h)' /\ Working(h)
      BY <1>4 DEF Working, Host, At
    <2>2. proc[q].parent = h
      BY <1>1, <2>1 DEF Order, PipeOrder, OwnFirst
    <2> QED
      BY <2>1, <2>2 DEF Steady, TableSteady, Alive
  <1>7. \A k \in Sockets : backlog'[k] \subseteq backlog[k]
    BY DEF HangUp
  <1>8. backlog' \in [Sockets -> SUBSET Pids]
    BY DEF HangUp, Order, PipeOrder, Connected
  <1>9. ASSUME NEW k \in Sockets, NEW h \in backlog'[k]
        PROVE  (Host(h) /\ mem[h].server = "accept" /\ mem[h].client = "spin" /\ proc[h].listens = k)'
    <2>1. /\ h \in backlog[k] /\ h \in Pids
          /\ Host(h) /\ mem[h].server = "accept" /\ mem[h].client = "spin" /\ proc[h].listens = k
      BY <1>7, <1>8, <1>9 DEF Order, PipeOrder, Connected
    <2>2. CASE Alive(h)'
      <3>1. h # p
        BY <2>1, <2>2 DEF Joined
      <3> QED
        BY <2>1, <2>2, <3>1, OthersKeepPipes DEF Host, At
    <2>3. CASE ~Alive(h)'
      <3>1. HangUp /\ Open(k)'
        BY <1>9, <2>1, <2>3 DEF Host, At, HangUp
      <3>2. ASSUME NEW q \in Pids, Alive(q)', proc'[q].listens # 0
            PROVE  proc[q].kind = "first" \/ (Host(q) /\ q # h)
        <4>1. CASE q = p
          BY <1>1, <1>2, <3>2, <4>1 DEF Plain
        <4>2. CASE q # p
          <5>1. proc[q].listens # 0 /\ Alive(q)
            BY <1>1, <3>2, <4>2, OthersKeepPipes
          <5> QED
            BY <2>3, <3>2, <5>1 DEF Order, PipeOrder, Plain
        <4> QED
          BY <4>1, <4>2
      <3> QED
        BY <2>1, <2>3, <3>1, <3>2, NoStrayConnection DEF Steady
    <2> QED
      BY <2>2, <2>3
  <1> QED
    BY <1>4, <1>5, <1>6, <1>8, <1>9 DEF PipeOrder, Connected, Threads

\* The step that starts the threads.
LEMMA HostStep ==
  ASSUME JobInv, Cast, Order, NEW p \in Pids, Step(p), Alive(p), ~Host(p),
         \A q \in Pids : /\ proc'[q].status = proc[q].status /\ proc'[q].kind = proc[q].kind
                         /\ proc'[q].parent = proc[q].parent
                         /\ proc'[q].listens = proc[q].listens,
         mem'[p] = StartPipe(mem[p]),
         UNCHANGED backlog,
         Children(p) = {}, proc[p].kind # "first",
         Working(p) \/ \A q \in Pids : Alive(q) => q = p
  PROVE  PipeOrder'
PROOF
  <1>1. \A q \in Pids : (Alive(q)' <=> Alive(q)) /\ Children(q)' = Children(q)
    BY DEF Alive, Children
  <1>2. /\ mem'[p].pc = "join" /\ mem'[p].server = "unlink" /\ mem'[p].client = "connect"
        /\ mem'[p].syncToken = mem[p].syncToken
    BY DEF JobInv, Shape, StartPipe, MemType
  <1>3. mem[p].syncToken = 0 /\ proc[p].listens = 0
    BY DEF Order, PipeOrder, Plain
  <1>4. Host(p)' /\ Stage(p)'
    BY <1>1, <1>2, <1>3 DEF Host, At, Stage
  <1>5. \A q \in Pids : Alive(q)' => Threads(q)' /\ (Working(q)' => q = p \/ Working(q))
    BY <1>1, <1>4, OthersKeepPipes DEF Threads
  <1>6. OnePipe'
    BY <1>1, <1>5 DEF Order, PipeOrder, OnePipe, Working, Host, At
  <1>7. OwnFirst'
    <2> SUFFICES ASSUME NEW q \in Pids, NEW h \in Pids, Alive(q)', proc'[q].kind = "first", Working(h)'
                 PROVE  proc'[q].parent = h
      BY DEF OwnFirst
    <2>1. Alive(q) /\ proc[q].kind = "first" /\ q # p
      BY <1>1
    <2>2. Working(p) /\ (h = p \/ Working(h))
      BY <1>5, <2>1 DEF Working, Host, At
    <2> QED
      BY <2>1, <2>2 DEF Order, PipeOrder, OwnFirst
  <1>8. ASSUME NEW k \in Sockets, NEW h \in backlog'[k]
        PROVE  (Host(h) /\ mem[h].server = "accept" /\ mem[h].client = "spin" /\ proc[h].listens = k)'
    <2>1. /\ h \in Pids /\ h # p
          /\ Host(h) /\ mem[h].server = "accept" /\ mem[h].client = "spin" /\ proc[h].listens = k
      BY <1>8 DEF Order, PipeOrder, Connected
    <2> QED
      BY <1>1, <2>1, OthersKeepPipes DEF Host, At
  <1> QED
    BY <1>5, <1>6, <1>7, <1>8 DEF PipeOrder, Connected, Order, Threads

\* A child of the shell, for a job or for a program in the foreground.
LEMMA BirthStep ==
  ASSUME JobInv, Cast, Order, Step(Shell), Alive(Shell), ~Host(Shell), NEW c \in Pids,
         NEW kind \in {"job", "foreground"}, NEW child, Born(Shell, c, kind, child),
         mem'[Shell].pc \notin {"join", "born"}, mem'[Shell].syncToken = mem[Shell].syncToken,
         child.pc \in {"born", "exec"}, child.syncToken \in {0, mem[Shell].syncToken},
         child.pc = "born" /\ child.cmd = "pipe_job" => \A q \in Pids : Alive(q) => q = Shell,
         UNCHANGED backlog
  PROVE  PipeOrder'
PROOF
  <1>1. \A q \in Pids \ {c} : proc'[q] = proc[q] /\ (Alive(q)' <=> Alive(q))
    BY DEF Born, Alive
  <1>2. Plain(Shell) /\ Shell \in Pids /\ c # Shell
    BY MyshAssumption DEF Order, PipeOrder, Born
  <1>3. mem[Shell].syncToken = 0 /\ proc[Shell].listens = 0 /\ proc[Shell].kind = "shell"
    BY <1>2 DEF Plain, Cast, FirstShell
  <1>4. ~Host(Shell)' /\ ~Working(Shell)' /\ Plain(Shell)'
    <2>1. ~Host(Shell)' /\ ~Working(Shell)'
      BY DEF Host, Working, At
    <2> QED
      BY <1>2, <1>3, <2>1 DEF Born, Plain, Children
  <1>5. /\ ~Host(c)' /\ Plain(c)' /\ proc'[c].kind = kind /\ mem'[c] = child
        /\ Working(c)' => \A q \in Pids : Alive(q) => q = Shell
    BY <1>3 DEF Born, Host, Working, At, Plain
  <1>6. \A q \in Pids \ {Shell, c} : Alive(q)' => Threads(q)' /\ (Working(q)' => Working(q))
    BY <1>1, <1>2, OthersKeepPipes
  <1>7. \A q \in Pids : Alive(q)' => Threads(q)'
    BY <1>4, <1>5, <1>6 DEF Threads
  <1>8. OnePipe'
    <2>1. \A q \in Pids \ {Shell, c} : Working(q)' => Working(q) /\ ~Working(c)'
      BY <1>1, <1>5, <1>6 DEF Working, Host, At
    <2> QED
      BY <1>4, <2>1 DEF OnePipe, Order, PipeOrder
  <1>9. OwnFirst'
    <2> SUFFICES ASSUME NEW q \in Pids, NEW h \in Pids, Alive(q)', proc'[q].kind = "first", Working(h)'
                 PROVE  proc'[q].parent = h
      BY DEF OwnFirst
    <2>1. q \notin {c, Shell} /\ Alive(q) /\ proc'[q] = proc[q]
      BY <1>1, <1>2, <1>3, <1>5
    <2>2. h \notin {c, Shell}
      BY <1>4, <1>5, <2>1
    <2>3. Working(h)
      BY <1>6, <2>2 DEF Working, Host, At
    <2> QED
      BY <2>1, <2>3 DEF Order, PipeOrder, OwnFirst
  <1>10. ASSUME NEW k \in Sockets, NEW h \in backlog'[k]
         PROVE  (Host(h) /\ mem[h].server = "accept" /\ mem[h].client = "spin" /\ proc[h].listens = k)'
    <2>1. /\ h \in Pids
          /\ Host(h) /\ mem[h].server = "accept" /\ mem[h].client = "spin" /\ proc[h].listens = k
      BY <1>10 DEF Order, PipeOrder, Connected
    <2>2. h \notin {c, Shell}
      BY <2>1 DEF Host, At, Alive, Born
    <2> QED
      BY <1>1, <1>2, <2>1, <2>2, OthersKeepPipes DEF Host, At
  <1> QED
    BY <1>7, <1>8, <1>9, <1>10 DEF PipeOrder, Connected, Order, Threads

\* A step of a pipe.
LEMMA ThreadsGoOn ==
  ASSUME JobInv, Cast, Order, NEW p \in Pids, Step(p), Host(p), Host(p)', Stage(p)', Connected',
         \/ Steady(p)
         \/ \E c \in Pids, kind \in {"first", "second"} :
              /\ Born(p, c, kind, [Blank EXCEPT !.pc = "program"])
              /\ kind = "first" \/ proc[p].listens = 0
  PROVE  PipeOrder'
PROOF
  <1>1. \A q \in Pids \ {p} : Alive(q) /\ Alive(q)' => Threads(q)' /\ (Working(q)' => Working(q))
    BY OthersKeepPipes
  <1>2. CASE Steady(p)
    <2>1. \A q \in Pids : Alive(q)' => Alive(q) /\ proc'[q].kind = proc[q].kind
      BY <1>2 DEF Steady, TableSteady, Alive
    <2>2. \A q \in Pids : (Alive(q)' => Threads(q)') /\ (Working(q)' => Working(q))
      BY <1>1, <2>1 DEF Threads, Working, Host, At
    <2>3. OnePipe'
      BY <2>2 DEF Order, PipeOrder, OnePipe
    <2>4. OwnFirst'
      <3> SUFFICES ASSUME NEW q \in Pids, NEW h \in Pids, Alive(q)', proc'[q].kind = "first", Working(h)'
                   PROVE  proc'[q].parent = h
        BY DEF OwnFirst
      <3>1. proc[q].parent = h /\ Alive(h)'
        BY <2>1, <2>2 DEF Order, PipeOrder, OwnFirst, Working, Host, At
      <3> QED
        BY <1>2, <3>1 DEF Steady, TableSteady, Alive
    <2> QED
      BY <2>2, <2>3, <2>4 DEF PipeOrder, Threads
  <1>3. CASE \E c \in Pids, kind \in {"first", "second"} :
               /\ Born(p, c, kind, [Blank EXCEPT !.pc = "program"])
               /\ kind = "first" \/ proc[p].listens = 0
    <2>1. PICK c \in Pids, kind \in {"first", "second"} :
            /\ Born(p, c, kind, [Blank EXCEPT !.pc = "program"])
            /\ kind = "first" \/ proc[p].listens = 0
      BY <1>3
    <2>2. /\ \A q \in Pids \ {c} : proc'[q] = proc[q] /\ (Alive(q)' <=> Alive(q))
          /\ c # p /\ proc'[c].parent = p
      BY <2>1 DEF Born, Alive
    <2>3. ~Host(c)' /\ ~Working(c)' /\ Plain(c)'
      <3>1. mem'[c].pc = "program" /\ mem'[c].syncToken = 0
        BY <2>1 DEF Born, Blank
      <3> QED
        BY <2>1, <3>1 DEF Born, Host, Working, At, Plain
    <2>4. \A q \in Pids : (Alive(q)' => Threads(q)') /\ (Working(q)' => Working(q))
      BY <1>1, <2>2, <2>3 DEF Threads, Working, Host, At
    <2>5. OnePipe'
      BY <2>4 DEF Order, PipeOrder, OnePipe
    <2>6. OwnFirst'
      <3> SUFFICES ASSUME NEW q \in Pids, NEW h \in Pids, Alive(q)', proc'[q].kind = "first", Working(h)'
                   PROVE  proc'[q].parent = h
        BY DEF OwnFirst
      <3>1. Working(h) /\ h = p
        BY <2>4 DEF Order, PipeOrder, OnePipe, Working
      <3> QED
        BY <2>2, <3>1 DEF Order, PipeOrder, OwnFirst
    <2> QED
      BY <2>4, <2>5, <2>6 DEF PipeOrder, Threads
  <1> QED
    BY <1>2, <1>3

\* What the backlog holds when a thread of p takes a step.
LEMMA PipeBacklog ==
  ASSUME Order, NEW p \in Pids, Host(p)
  PROVE  /\ \A k \in Sockets : backlog[k] \subseteq {p}
         /\ mem[p].server # "accept" \/ mem[p].client # "spin" => \A k \in Sockets : backlog[k] = {}
         /\ \A k \in Sockets : k # proc[p].listens => backlog[k] = {}
PROOF
  <1>1. \A k \in Sockets : \A h \in backlog[k] :
          /\ h = p /\ mem[p].server = "accept" /\ mem[p].client = "spin" /\ proc[p].listens = k
    BY DEF Order, PipeOrder, Connected, OnePipe, Working
  <1> QED
    BY <1>1

\* No connection, no question.
LEMMA NoConnection ==
  ASSUME \A k \in Sockets : backlog[k] = {}, Order, HangUp \/ UNCHANGED backlog
  PROVE  Connected'
PROOF
  BY DEF HangUp, Order, PipeOrder, Connected

\* The waits of the two threads.
LEMMA WaitSole ==
  ASSUME JobInv, NEW p \in Pids, NEW kind, Sole(p, kind), WaitReturns(p, -1)
  PROVE  Children(p)' = {} /\ proc'[p].listens \in {proc[p].listens, 0}
PROOF
  <1>1. PICK c \in Pids : Children(p) = {c}
    BY DEF Sole
  <1>2. proc' = [proc EXCEPT ![c] = Free]
    BY <1>1 DEF WaitReturns, Reap, Named
  <1>3. Children(p)' = {}
    BY <1>1, <1>2 DEF Children, JobInv, Shape, Free
  <1>4. proc'[p].listens \in {proc[p].listens, 0}
    BY <1>2 DEF Free, JobInv, Shape
  <1> QED
    BY <1>3, <1>4

\* The steps of serverOut and clientIn keep the order of the pipe.
LEMMA ThreadsKeepPipes ==
  ASSUME JobInv, JobInv', Cast, Calm, Order, NEW p \in Pids, ServerStep(p) \/ ClientStep(p)
  PROVE  PipeOrder'
PROOF
  <1>1. /\ Alive(p) /\ mem[p].pc = "join" /\ Host(p) /\ Step(p) /\ mem[p] \in MemType
        /\ "fork" \notin may
    BY ThreadStep DEF Host, At, Step, JobInv, Shape, Calm
  <1>2. Stage(p) /\ \A k \in Sockets : k # 0
    BY <1>1, PipeAssumption DEF Order, PipeOrder
  <1>3. (Steady(p) /\ OthersLive(p)) \/ Forks(p)
    BY <1>1, StepSteady DEF KillCommand, KillJob, Acting, At
  <1>4. ~BindFails(p) => Host(p)'
    BY ThreadStep DEF Host, At
  <1>5. Steady(p) /\ ~BindFails(p) /\ Stage(p)' /\ Connected' => PipeOrder'
    BY <1>1, <1>4, ThreadsGoOn
  <1>6. UNCHANGED proc => Children(p)' = Children(p) /\ \A kind : Sole(p, kind)' <=> Sole(p, kind)
    BY DEF Children, Sole
  <1>7. /\ mem[p].server # "fork" /\ mem[p].client # "fork" => ~Forks(p)
        /\ mem[p].server # "bind" \/ name = 0 => ~BindFails(p)
    BY <1>1, ForkPlaces DEF BindFails, ServerAt
  \* serverOut
  <1>8. CASE Unlink(p)
    <2>1. mem'[p] = [mem[p] EXCEPT !.server = "bind"] /\ mem[p].server = "unlink" /\ UNCHANGED proc
      BY <1>8 DEF Unlink, ServerAt, ServerGoes, JobInv, Shape
    <2>2. /\ mem'[p].server = "bind" /\ mem'[p].client = mem[p].client
          /\ mem'[p].syncToken = mem[p].syncToken
      BY <1>1, <2>1 DEF MemType
    <2>3. Stage(p)'
      BY <1>2, <1>6, <2>1, <2>2 DEF Stage
    <2>4. Connected'
      BY <1>1, <1>8, <2>1, PipeBacklog, NoConnection DEF Unlink
    <2>5. ~BindFails(p) /\ ~Forks(p)
      BY <1>2, <1>7, <2>1 DEF Stage
    <2> QED
      BY <1>3, <1>5, <2>3, <2>4, <2>5
  <1>9. CASE Bind(p)
    <2>1. PICK k \in Sockets : proc' = [proc EXCEPT ![p].listens = k]
      BY <1>9 DEF Bind
    <2>2. mem'[p] = [mem[p] EXCEPT !.server = "accept"] /\ mem[p].server = "bind"
      BY <1>9 DEF Bind, ServerAt, ServerGoes, JobInv, Shape
    <2>3. /\ mem'[p].server = "accept" /\ mem'[p].client = mem[p].client
          /\ mem'[p].syncToken = mem[p].syncToken
      BY <1>1, <2>2 DEF MemType
    <2>4. Children(p)' = Children(p) /\ proc'[p].listens = k
      BY <2>1 DEF Children, JobInv, Shape, ProcType
    <2>5. Stage(p)'
      BY <1>2, <2>2, <2>3, <2>4 DEF Stage
    <2>6. Connected'
      BY <1>1, <1>9, <2>2, PipeBacklog, NoConnection DEF Bind
    <2>7. ~BindFails(p) /\ ~Forks(p)
      BY <1>2, <1>9, <1>7, <2>2 DEF Bind, Stage
    <2> QED
      BY <1>3, <1>5, <2>5, <2>6, <2>7
  <1>10. CASE BindFails(p)
    <2>1. ~Alive(p)' /\ mem'[p] = Blank /\ HangUp
      BY <1>10, EndSteady DEF BindFails, Exit, Forget, JobInv
    <2>2. Steady(p)
      <3>1. mem[p].server = "bind" /\ mem[p].client = "connect"
        BY <1>2, <1>10 DEF BindFails, ServerAt, Stage
      <3> QED
        BY <1>3, <1>7, <3>1
    <2>3. mem'[p].pc = "none"
      BY <2>1 DEF Blank
    <2> QED
      BY <1>1, <2>1, <2>2, <2>3, PlainStep
  <1>11. CASE Accept(p)
    <2> DEFINE k == proc[p].listens
    <2>1. /\ mem'[p] = [mem[p] EXCEPT !.server = "fork"] /\ mem[p].server = "accept"
          /\ UNCHANGED proc /\ k \in Sockets
          /\ \E c \in backlog[k] : backlog' = [backlog EXCEPT ![k] = @ \ {c}]
      <3>1. k # 0
        BY <1>2, <1>11 DEF Accept, ServerAt, Stage
      <3>2. k \in Sockets
        BY <3>1 DEF JobInv, Shape, ProcType
      <3> QED
        BY <1>11, <3>2 DEF Accept, ServerAt, ServerGoes, JobInv, Shape
    <2>2. /\ mem'[p].server = "fork" /\ mem'[p].client = mem[p].client
          /\ mem'[p].syncToken = mem[p].syncToken
      BY <1>1, <2>1 DEF MemType
    <2>3. mem[p].client = "spin"
      BY <1>1, <2>1, PipeBacklog
    <2>4. Stage(p)'
      BY <1>2, <1>6, <2>1, <2>2, <2>3 DEF Stage
    <2>5. backlog \in [Sockets -> SUBSET Pids]
      BY DEF Order, PipeOrder, Connected
    <2>6. \A j \in Sockets : backlog'[j] = {}
      BY <1>1, <2>1, <2>5, PipeBacklog
    <2>7. Connected'
      BY <2>1, <2>5, <2>6 DEF Connected
    <2>8. ~BindFails(p) /\ ~Forks(p)
      BY <1>2, <1>7, <2>1, <2>3
    <2> QED
      BY <1>3, <1>5, <2>4, <2>7, <2>8
  <1>12. CASE ForkFirst(p)
    <2> DEFINE m == [mem[p] EXCEPT !.server = "wait"]
    <2>1. /\ Fork(p, "first", [pid \in ForkAnswers |-> m], [Blank EXCEPT !.pc = "program"])
          /\ mem[p].server = "fork" /\ UNCHANGED backlog
      BY <1>12 DEF ForkFirst, ServerAt, pipeVars
    <2>2. m.server = "wait" /\ m.client = mem[p].client /\ m.syncToken = mem[p].syncToken
      BY <1>1 DEF MemType
    <2> HIDE DEF m
    <2>3. PICK c \in Pids : mem'[p] = m /\ Born(p, c, "first", [Blank EXCEPT !.pc = "program"])
      BY <1>1, <2>1, ForkBears DEF ForkAnswers
    <2>4. Children(p) = {} /\ mem[p].client = "spin" /\ mem[p].syncToken = 0
      BY <1>2, <2>1 DEF Stage
    <2>5. Sole(p, "first")'
      BY <2>3, <2>4 DEF Sole, Born
    <2>6. Stage(p)'
      BY <2>2, <2>3, <2>4, <2>5 DEF Stage
    <2>7. Connected'
      BY <1>1, <2>1, PipeBacklog, NoConnection
    <2>8. ~BindFails(p)
      BY <2>1 DEF BindFails, ServerAt
    <2> QED
      BY <1>1, <1>4, <2>3, <2>6, <2>7, <2>8, ThreadsGoOn
  <1>13. CASE WaitFirst(p)
    <2>1. /\ mem'[p] = [mem[p] EXCEPT !.server = "close"] /\ mem[p].server = "wait"
          /\ WaitReturns(p, -1) /\ UNCHANGED backlog
      BY <1>13 DEF WaitFirst, ServerAt, ServerGoes, pipeVars, JobInv, Shape
    <2>2. /\ mem'[p].server = "close" /\ mem'[p].client = mem[p].client
          /\ mem'[p].syncToken = mem[p].syncToken
      BY <1>1, <2>1 DEF MemType
    <2>3. Sole(p, "first") /\ mem[p].client = "spin" /\ mem[p].syncToken = 0
      BY <1>2, <2>1 DEF Stage
    <2>4. Stage(p)'
      BY <2>1, <2>2, <2>3, WaitSole DEF Stage
    <2>5. Connected'
      BY <1>1, <2>1, PipeBacklog, NoConnection
    <2>6. ~BindFails(p) /\ ~Forks(p)
      BY <1>2, <1>7, <2>1, <2>3
    <2> QED
      BY <1>3, <1>5, <2>4, <2>5, <2>6
  <1>14. CASE Close(p)
    <2>1. /\ mem'[p] = [mem[p] EXCEPT !.server = "done", !.syncToken = 1]
          /\ mem[p].server = "close" /\ proc' = [proc EXCEPT ![p].listens = 0] /\ HangUp
      BY <1>14 DEF Close, ServerAt, JobInv, Shape
    <2>2. /\ mem'[p].server = "done" /\ mem'[p].client = mem[p].client
          /\ mem'[p].syncToken = 1
      BY <1>1, <2>1 DEF MemType
    <2>3. Children(p) = {} /\ mem[p].client = "spin"
      BY <1>2, <2>1 DEF Stage
    <2>4. Children(p)' = Children(p) /\ proc'[p].listens = 0
      BY <2>1 DEF Children, JobInv, Shape, ProcType
    <2>5. Stage(p)'
      BY <2>2, <2>3, <2>4 DEF Stage
    <2>6. Connected'
      BY <1>1, <2>1, PipeBacklog, NoConnection
    <2>7. ~BindFails(p) /\ ~Forks(p)
      BY <1>2, <1>7, <2>1, <2>3
    <2> QED
      BY <1>3, <1>5, <2>5, <2>6, <2>7
  \* clientIn
  <1>15. CASE Connect(p)
    <2>1. /\ mem'[p] = [mem[p] EXCEPT !.client = "spin"] /\ mem[p].client = "connect"
          /\ UNCHANGED proc /\ name # 0 /\ Open(name)
          /\ backlog' = [backlog EXCEPT ![name] = @ \cup {p}]
      BY <1>15 DEF Connect, ClientAt, ClientGoes, JobInv, Shape
    <2>2. /\ mem'[p].client = "spin" /\ mem'[p].server = mem[p].server
          /\ mem'[p].syncToken = mem[p].syncToken
      BY <1>1, <2>1 DEF MemType
    <2>3. PICK q \in Pids : Alive(q) /\ proc[q].listens = name
      BY <2>1 DEF Open
    <2>4. q = p
      <3>1. Children(p) = {}
        BY <1>2, <2>1 DEF Stage
      <3>2. CASE Host(q)
        BY <1>1, <3>2 DEF Order, PipeOrder, OnePipe, Working
      <3>3. CASE ~Host(q)
        <4>1. proc[q].kind = "first"
          BY <2>1, <2>3, <3>3 DEF Order, PipeOrder, Plain
        <4>2. q \in Children(p)
          BY <1>1, <2>3, <4>1 DEF Order, PipeOrder, OwnFirst, Working, Children, Alive
        <4> QED
          BY <3>1, <4>2
      <3> QED
        BY <3>2, <3>3
    <2>5. mem[p].server = "accept" /\ proc[p].listens = name /\ name \in Sockets
      <3>1. mem[p].server = "accept"
        BY <1>2, <2>1, <2>3, <2>4 DEF Stage
      <3>2. name \in Sockets
        BY <2>1, <2>3 DEF JobInv, Shape, ProcType
      <3> QED
        BY <2>3, <2>4, <3>1, <3>2
    <2>6. Stage(p)'
      BY <1>2, <1>6, <2>1, <2>2, <2>5 DEF Stage
    <2>7. Connected'
      <3>1. backlog \in [Sockets -> SUBSET Pids] /\ \A k \in Sockets : backlog[k] = {}
        BY <1>1, <2>1, PipeBacklog DEF Order, PipeOrder, Connected
      <3>2. Host(p)'
        BY <1>1, <2>1 DEF Host, At, Alive, MemType
      <3>3. \A k \in Sockets : backlog'[k] = IF k = name THEN {p} ELSE {}
        BY <2>1, <2>5, <3>1
      <3>4. backlog' \in [Sockets -> SUBSET Pids]
        BY <2>1, <3>1, <3>3
      <3>5. proc'[p].listens = name
        BY <2>1, <2>5
      <3> QED
        BY <2>2, <2>5, <3>2, <3>3, <3>4, <3>5 DEF Connected
    <2>8. ~BindFails(p) /\ ~Forks(p)
      BY <1>2, <1>7, <2>1, <2>5
    <2> QED
      BY <1>3, <1>5, <2>6, <2>7, <2>8
  <1>16. CASE SeeToken(p)
    <2>1. /\ mem'[p] = [mem[p] EXCEPT !.client = "fork"] /\ mem[p].client = "spin"
          /\ mem[p].syncToken # 0 /\ UNCHANGED <<proc, backlog>>
      BY <1>16 DEF SeeToken, ClientAt, ClientGoes, pipeVars, JobInv, Shape
    <2>2. /\ mem'[p].client = "fork" /\ mem'[p].server = mem[p].server
          /\ mem'[p].syncToken = mem[p].syncToken
      BY <1>1, <2>1 DEF MemType
    <2>3. /\ mem[p].server = "done" /\ mem[p].syncToken = 1
          /\ Children(p) = {} /\ proc[p].listens = 0
      BY <1>2, <2>1 DEF Stage
    <2>4. Stage(p)'
      BY <1>6, <2>1, <2>2, <2>3 DEF Stage
    <2>5. Connected'
      BY <1>1, <2>1, <2>3, PipeBacklog, NoConnection
    <2>6. ~BindFails(p) /\ ~Forks(p)
      BY <1>2, <1>7, <2>1, <2>3
    <2> QED
      BY <1>3, <1>5, <2>4, <2>5, <2>6
  <1>17. CASE ForkSecond(p)
    <2> DEFINE m == [mem[p] EXCEPT !.client = "wait"]
    <2>1. /\ Fork(p, "second", [pid \in ForkAnswers |-> m], [Blank EXCEPT !.pc = "program"])
          /\ mem[p].client = "fork" /\ UNCHANGED backlog
      BY <1>17 DEF ForkSecond, ClientAt, pipeVars
    <2>2. m.client = "wait" /\ m.server = mem[p].server /\ m.syncToken = mem[p].syncToken
      BY <1>1 DEF MemType
    <2> HIDE DEF m
    <2>3. PICK c \in Pids : mem'[p] = m /\ Born(p, c, "second", [Blank EXCEPT !.pc = "program"])
      BY <1>1, <2>1, ForkBears DEF ForkAnswers
    <2>4. /\ Children(p) = {} /\ mem[p].server = "done" /\ mem[p].syncToken = 1
          /\ proc[p].listens = 0
      BY <1>2, <2>1 DEF Stage
    <2>5. Sole(p, "second")' /\ proc'[p].listens = 0
      BY <2>3, <2>4 DEF Sole, Born
    <2>6. Stage(p)'
      BY <2>2, <2>3, <2>4, <2>5 DEF Stage
    <2>7. Connected'
      BY <1>1, <2>1, <2>4, PipeBacklog, NoConnection
    <2>8. ~BindFails(p)
      BY <2>4 DEF BindFails, ServerAt
    <2> QED
      BY <1>1, <1>4, <2>3, <2>4, <2>6, <2>7, <2>8, ThreadsGoOn
  <1>18. CASE WaitSecond(p)
    <2>1. /\ mem'[p] = [mem[p] EXCEPT !.client = "done", !.syncToken = 0]
          /\ mem[p].client = "wait" /\ WaitReturns(p, -1) /\ UNCHANGED backlog
      BY <1>18 DEF WaitSecond, ClientAt, pipeVars, JobInv, Shape
    <2>2. /\ mem'[p].client = "done" /\ mem'[p].server = mem[p].server
          /\ mem'[p].syncToken = 0
      BY <1>1, <2>1 DEF MemType
    <2>3. Sole(p, "second") /\ mem[p].server = "done" /\ proc[p].listens = 0
      BY <1>2, <2>1 DEF Stage
    <2>4. Stage(p)'
      BY <2>1, <2>2, <2>3, WaitSole DEF Stage
    <2>5. Connected'
      BY <1>1, <2>1, <2>3, PipeBacklog, NoConnection
    <2>6. ~BindFails(p) /\ ~Forks(p)
      BY <1>2, <1>7, <2>1, <2>3
    <2> QED
      BY <1>3, <1>5, <2>4, <2>5, <2>6
  <1> QED
    BY <1>8, <1>9, <1>10, <1>11, <1>12, <1>13, <1>14, <1>15, <1>16, <1>17, <1>18
    DEF ServerStep, ClientStep

\* The children's steps keep the order of the pipes.
LEMMA ChildKeepsPipes ==
  ASSUME JobInv, JobInv', Cast, Calm, Order, NEW p \in Pids, ChildStep(p)
  PROVE  PipeOrder'
PROOF
  <1>1. Step(p) /\ Alive(p) /\ ~ExecFails(p) /\ mem[p] \in MemType
    BY StepOf DEF Step, JobInv, Shape
  <1>2. ASSUME mem[p].pc \notin {"act", "killjob"}, ~Forks(p) PROVE Steady(p) /\ OthersLive(p)
    BY <1>1, <1>2, StepSteady DEF KillCommand, KillJob, Acting, At
  <1>3. ASSUME mem[p].pc \in {"born", "exec", "program"} PROVE ~Host(p) /\ ~Forks(p)
    <2>1. mem[p].server = "none" /\ mem[p].client = "none"
      BY <1>1, <1>3 DEF Cast, Roles, RoleOf
    <2> QED
      BY <1>3, <2>1, ForkPlaces DEF Host, At
  <1>4. ASSUME Exit(p), HangUp, Steady(p) PROVE PipeOrder'
    <2>1. ~Alive(p)' /\ mem'[p] = Blank
      BY <1>4, EndSteady DEF Exit, Forget, JobInv
    <2>2. mem'[p].pc = "none"
      BY <2>1 DEF Blank
    <2> QED
      BY <1>1, <1>4, <2>1, <2>2, PlainStep
  <1>5. ASSUME mem[p].pc \in {"born", "exec"}, mem'[p] = [Blank EXCEPT !.pc = "program"],
               proc'[p].listens = proc[p].listens, UNCHANGED backlog
        PROVE  PipeOrder'
    <2>1. mem'[p].pc = "program" /\ mem'[p].syncToken = 0
      BY <1>5 DEF Blank
    <2>2. ~Host(p) /\ Steady(p) /\ OthersLive(p)
      BY <1>2, <1>3, <1>5
    <2>3. \A q \in Pids : Alive(q) => Alive(q)'
      <3>1. Alive(p)'
        BY <1>1, <1>5, <2>1 DEF ChildStep, SetGroup, PipeJobDone, Exec, ProgramEnds, At, Alive,
           JobInv, Shape, ProcType
      <3> QED
        BY <2>2, <3>1 DEF OthersLive
    <2> QED
      BY <1>1, <1>5, <2>1, <2>2, <2>3, PlainStep
  <1>6. CASE SetGroup(p)
    <2>1. mem[p].pc = "born" /\ UNCHANGED backlog /\ proc' = [proc EXCEPT ![p].group = p]
      BY <1>6 DEF SetGroup, At, pipeVars
    <2>2. \A q \in Pids : /\ proc'[q].status = proc[q].status /\ proc'[q].kind = proc[q].kind
                          /\ proc'[q].parent = proc[q].parent
                          /\ proc'[q].listens = proc[q].listens
      BY <2>1 DEF JobInv, Shape, ProcType
    <2>3. CASE mem[p].cmd = "pipe_job"
      <3>1. mem'[p] = StartPipe(mem[p]) /\ Working(p) /\ ~Host(p)
        BY <1>1, <1>3, <1>6, <2>1, <2>3 DEF SetGroup, Working, At, JobInv, Shape
      <3>2. proc[p].kind = "job"
        BY <1>1, <2>1 DEF Cast, Roles, RoleOf
      <3>3. Children(p) = {}
        <4> SUFFICES ASSUME NEW c \in Children(p) PROVE FALSE
          OBVIOUS
        <4>1. c \in Pids
          BY DEF Children
        <4>2. proc[c].kind \in {"job", "foreground"}
          BY <1>1, <3>1 DEF Order, PipeOrder, Plain
        <4>3. proc[c].kind # "job"
          BY <2>1, <4>1 DEF JobInv, NoJobThere, WithoutJob, Jobless, JobsOf
        <4>4. proc[c].kind # "foreground"
          BY <2>1, <4>1 DEF Cast, Awaited
        <4> QED
          BY <4>2, <4>3, <4>4
      <3> QED
        BY <1>1, <2>1, <2>2, <3>1, <3>2, <3>3, HostStep
    <2>4. CASE mem[p].cmd # "pipe_job"
      <3>1. mem'[p] = [Blank EXCEPT !.pc = "program"]
        BY <1>6, <2>4 DEF SetGroup, JobInv, Shape
      <3> QED
        BY <1>5, <2>1, <2>2, <3>1
    <2> QED
      BY <2>3, <2>4
  <1>7. CASE Exec(p)
    BY <1>5, <1>7 DEF Exec, At, pipeVars, JobInv, Shape
  <1>8. CASE ProgramEnds(p)
    BY <1>2, <1>3, <1>4, <1>8 DEF ProgramEnds, At
  <1>9. CASE PipeJobDone(p)
    <2>1. ~Forks(p)
      BY <1>9, ForkPlaces DEF PipeJobDone, Joined, At
    <2> QED
      BY <1>2, <1>4, <1>9, <2>1 DEF PipeJobDone, At
  <1> QED
    BY <1>1, <1>6, <1>7, <1>8, <1>9 DEF ChildStep

\* So do the steps of the shell's loop.
LEMMA LoopKeepsPipes ==
  ASSUME JobInv, JobInv', Cast, Calm, Order, Input(Shell) \/ ShellStep(Shell)
  PROVE  PipeOrder'
PROOF
  <1>1. /\ Shell \in Pids /\ Step(Shell) /\ Alive(Shell) /\ mem[Shell] \in MemType
        /\ ~Terminate(Shell) /\ "fork" \notin may
    BY StepOf, MyshAssumption DEF Step, JobInv, Shape, Calm
  <1>2. Steady(Shell) \/ Forks(Shell)
    BY <1>1, StepSteady
  <1>3. ASSUME mem[Shell].pc \notin {"act", "join"} PROVE ~Forks(Shell) /\ ~Host(Shell)
    <2>1. mem[Shell].server = "none" /\ mem[Shell].client = "none"
      BY <1>1, <1>3 DEF Cast, Roles, RoleOf
    <2> QED
      BY <1>3, <2>1, ForkPlaces, <1>1 DEF Host, At
  <1>4. ASSUME Exit(Shell), HangUp, Steady(Shell) PROVE PipeOrder'
    <2>1. ~Alive(Shell)' /\ mem'[Shell] = Blank
      BY <1>1, <1>4, EndSteady DEF Exit, Forget, JobInv
    <2>2. mem'[Shell].pc = "none"
      BY <2>1 DEF Blank
    <2> QED
      BY <1>1, <1>4, <2>1, <2>2, PlainStep
  \* the steps that neither fork nor begin a pipe
  <1>5. ASSUME Steady(Shell), mem'[Shell].pc \in ShellPlaces \ {"join"},
               mem'[Shell].syncToken = mem[Shell].syncToken,
               proc'[Shell].listens = proc[Shell].listens,
               Host(Shell) => Joined(Shell),
               HangUp \/ (UNCHANGED backlog /\ \A q \in Pids : Alive(q) => Alive(q)')
        PROVE  PipeOrder'
    <2>1. mem'[Shell].pc \notin {"join", "born"}
      BY <1>5 DEF ShellPlaces
    <2> QED
      BY <1>1, <1>5, <2>1, PlainStep
  <1>6. UNCHANGED proc =>
          proc'[Shell].listens = proc[Shell].listens /\ \A q \in Pids : Alive(q) => Alive(q)'
    BY DEF Alive
  <1>7. ASSUME NEW w, WaitReturns(Shell, w)
        PROVE  proc'[Shell].listens = proc[Shell].listens /\ \A q \in Pids : Alive(q) => Alive(q)'
    <2>1. \A q \in Pids : Alive(q) => Alive(q)'
      BY <1>1, <1>7, WaitSteady DEF JobInv
    <2>2. CASE Reap(Shell, w)
      <3>1. PICK z \in Pids : proc[z].status = "zombie" /\ proc' = [proc EXCEPT ![z] = Free]
        BY <2>2 DEF Reap, Named, Children
      <3> QED
        BY <1>1, <2>1, <3>1 DEF Alive, JobInv, Shape
    <2> QED
      BY <1>6, <1>7, <2>2 DEF WaitReturns
  <1>8. ASSUME NEW m \in MemType
        PROVE  Back(m).pc = "read" /\ Back(m).syncToken = m.syncToken
    BY DEF Back, MemType
  <1>9. mem[Shell].pc = "act" => ~Host(Shell) /\ mem[Shell].server = "none" /\ mem[Shell].client = "none"
    BY <1>1 DEF Host, At, Cast, Roles, RoleOf
  <1>10. CASE Input(Shell)
    <2>1. /\ UNCHANGED proc /\ UNCHANGED backlog /\ mem[Shell].pc = "read"
          /\ \E c, pc : /\ pc \in {"poll", "leave", "killjob"}
                        /\ mem' = [mem EXCEPT ![Shell].cmd = c, ![Shell].pc = pc]
      BY <1>1, <1>10 DEF Input, ReadCommand, ReadEof, ReadExit, Reading, At, pipeVars
    <2>2. PICK c, pc : /\ pc \in {"poll", "leave", "killjob"}
                       /\ mem'[Shell] = [mem[Shell] EXCEPT !.cmd = c, !.pc = pc]
      BY <1>1, <2>1 DEF JobInv, Shape
    <2>3. mem'[Shell].pc = pc /\ mem'[Shell].syncToken = mem[Shell].syncToken
      BY <1>1, <2>2 DEF MemType
    <2>4. mem'[Shell].pc \in ShellPlaces \ {"join"}
      BY <2>2, <2>3 DEF ShellPlaces
    <2>5. Steady(Shell) /\ ~Host(Shell)
      BY <1>2, <1>3, <2>1
    <2> QED
      BY <1>5, <1>6, <2>1, <2>3, <2>4, <2>5
  <1>11. CASE CheckRunning(Shell) \/ CheckDone(Shell) \/ CheckAgain(Shell) \/ FgWaits(Shell)
              \/ ReapJob(Shell)
    <2>1. /\ mem[Shell].pc \in {"poll", "again", "fgwait", "reapjob"} /\ UNCHANGED backlog
          /\ UNCHANGED proc \/ \E w : WaitReturns(Shell, w)
      BY <1>11 DEF CheckRunning, CheckDone, CheckAgain, FgWaits, ReapJob, At, pipeVars
    <2>2. /\ mem'[Shell].pc \in {"act", "again", "fgback", "leave"}
          /\ mem'[Shell].syncToken = mem[Shell].syncToken
      BY <1>1, <1>11 DEF CheckRunning, CheckDone, CheckAgain, FgWaits, ReapJob, Go,
         JobInv, Shape, MemType
    <2>3. mem'[Shell].pc \in ShellPlaces \ {"join"}
      BY <2>2 DEF ShellPlaces
    <2>4. Steady(Shell) /\ ~Host(Shell)
      BY <1>2, <1>3, <2>1
    <2> QED
      BY <1>5, <1>6, <1>7, <2>1, <2>2, <2>3, <2>4
  <1>12. CASE ProgramDone(Shell)
    <2>1. /\ mem[Shell].pc = "waitpid" /\ UNCHANGED backlog /\ \E w : WaitReturns(Shell, w)
          /\ mem'[Shell] = Back([mem[Shell] EXCEPT !.waits = 0])
      BY <1>1, <1>12 DEF ProgramDone, At, pipeVars, JobInv, Shape
    <2>2. mem'[Shell].pc = "read" /\ mem'[Shell].syncToken = mem[Shell].syncToken
      BY <1>1, <2>1 DEF Back, MemType
    <2>3. mem'[Shell].pc \in ShellPlaces \ {"join"}
      BY <2>2 DEF ShellPlaces
    <2>4. Steady(Shell) /\ ~Host(Shell)
      BY <1>2, <1>3, <2>1
    <2> QED
      BY <1>5, <1>7, <2>1, <2>2, <2>3, <2>4
  <1>13. CASE FgTakesBack(Shell)
    <2>1. /\ mem[Shell].pc = "fgback" /\ UNCHANGED proc /\ UNCHANGED backlog
          /\ mem'[Shell] = Back([mem[Shell] EXCEPT !.bgOpen = 0])
      BY <1>1, <1>13 DEF FgTakesBack, At, pipeVars, JobInv, Shape
    <2>2. mem'[Shell].pc = "read" /\ mem'[Shell].syncToken = mem[Shell].syncToken
      BY <1>1, <2>1 DEF Back, MemType
    <2>3. mem'[Shell].pc \in ShellPlaces \ {"join"}
      BY <2>2 DEF ShellPlaces
    <2>4. Steady(Shell) /\ ~Host(Shell)
      BY <1>2, <1>3, <2>1
    <2> QED
      BY <1>5, <1>6, <2>1, <2>2, <2>3, <2>4
  <1>14. CASE PipeDone(Shell)
    <2>1. /\ mem[Shell].pc = "join" /\ UNCHANGED proc /\ UNCHANGED backlog /\ Joined(Shell)
          /\ mem'[Shell] = Back([mem[Shell] EXCEPT !.server = "none", !.client = "none"])
      BY <1>1, <1>14 DEF PipeDone, At, pipeVars, JobInv, Shape
    <2>2. mem'[Shell].pc = "read" /\ mem'[Shell].syncToken = mem[Shell].syncToken
      BY <1>1, <2>1 DEF Back, MemType
    <2>3. mem'[Shell].pc \in ShellPlaces \ {"join"}
      BY <2>2 DEF ShellPlaces
    <2>4. Steady(Shell)
      BY <1>1, <1>2, <2>1, ForkPlaces DEF Joined
    <2> QED
      BY <1>5, <1>6, <2>1, <2>2, <2>3, <2>4
  \* the commands
  <1>15. CASE DoNothing(Shell) \/ RefuseJob(Shell) \/ FgNoJob(Shell) \/ FgChecks(Shell) \/ FgGives(Shell)
    <2>1. /\ mem[Shell].pc = "act" /\ UNCHANGED proc /\ UNCHANGED backlog
          /\ \A q \in Pids \ {Shell} : mem'[q] = mem[q]
      BY <1>15 DEF DoNothing, RefuseJob, FgNoJob, FgChecks, FgGives, Go, Acting, At, pipeVars,
         JobInv, Shape
    <2>2. mem'[Shell].pc \in {"read", "poll", "fgwait"} /\ mem'[Shell].syncToken = mem[Shell].syncToken
      <3>1. CASE DoNothing(Shell) \/ RefuseJob(Shell) \/ FgNoJob(Shell)
        <4>1. mem'[Shell] = Back(mem[Shell])
          BY <1>1, <3>1 DEF DoNothing, RefuseJob, FgNoJob, JobInv, Shape
        <4> QED
          BY <1>1, <1>8, <4>1
      <3>2. CASE FgChecks(Shell) \/ FgGives(Shell)
        BY <1>1, <3>2 DEF FgChecks, FgGives, Go, JobInv, Shape, MemType
      <3> QED
        BY <1>15, <3>1, <3>2
    <2>3. mem'[Shell].pc \in ShellPlaces \ {"join"}
      BY <2>2 DEF ShellPlaces
    <2>4. Steady(Shell)
      <3>1. TableSteady
        BY <2>1 DEF TableSteady, Alive
      <3>2. OthersSteady(Shell)
        BY <2>1 DEF OthersSteady, Alive
      <3> QED
        BY <3>1, <3>2 DEF Steady
    <2> QED
      BY <1>5, <1>6, <1>9, <2>1, <2>2, <2>3, <2>4
  <1>16. CASE KillCommand(Shell)
    <2>1. PICK v \in {0} \cup {c \in Pids : "kill" \in may /\ ~IsShell(c)} :
            Kill(Shell, v, Back(mem[Shell]))
      BY <1>16 DEF KillCommand
    <2>2. v # Shell /\ mem[Shell].pc = "act" /\ HangUp
      BY <1>1, <1>16, <2>1, CalmShell, ProcessesAssumption DEF KillCommand, Acting, At
    <2>3. /\ mem'[Shell] = Back(mem[Shell]) /\ Steady(Shell)
          /\ proc'[Shell].listens = proc[Shell].listens
      BY <1>1, <2>1, <2>2, KillSteady, KillKeepsJobs
    <2>4. mem'[Shell].pc \in ShellPlaces \ {"join"}
      BY <1>1, <1>8, <2>3 DEF ShellPlaces
    <2> QED
      BY <1>1, <1>5, <1>8, <1>9, <2>2, <2>3, <2>4
  <1>17. CASE KillJob(Shell)
    <2>1. /\ Kill(Shell, mem[Shell].pbg, [mem[Shell] EXCEPT !.pc = "reapjob"])
          /\ mem[Shell].pc = "killjob" /\ HangUp
      BY <1>17 DEF KillJob, At
    <2>2. mem[Shell].pbg # Shell
      <3>1. mem[Shell].pbg \in JobsOf(Shell)
        BY <1>1, <2>1 DEF Order, LoopOrder, Exits, Held
      <3>2. Shell \notin JobsOf(Shell)
        BY <1>1, ProcessesAssumption DEF JobsOf, Children, Cast, FirstShell, Login
      <3> QED
        BY <3>1, <3>2
    <2>3. /\ mem'[Shell] = [mem[Shell] EXCEPT !.pc = "reapjob"] /\ Steady(Shell)
          /\ proc'[Shell].listens = proc[Shell].listens
      BY <1>1, <2>1, <2>2, KillSteady, KillKeepsJobs
    <2>4. mem'[Shell].pc = "reapjob" /\ mem'[Shell].syncToken = mem[Shell].syncToken
      BY <1>1, <2>3 DEF MemType
    <2>5. mem'[Shell].pc \in ShellPlaces \ {"join"}
      BY <2>4 DEF ShellPlaces
    <2> QED
      BY <1>3, <1>5, <2>1, <2>3, <2>4, <2>5
  <1>18. CASE Leave(Shell)
    BY <1>2, <1>3, <1>4, <1>18 DEF Leave, At
  <1>19. CASE StartPipeHere(Shell)
    <2>1. /\ UNCHANGED proc /\ UNCHANGED backlog /\ mem'[Shell] = StartPipe(mem[Shell])
          /\ mem[Shell].pc = "act" /\ mem[Shell].cmd = "pipe"
      BY <1>1, <1>19 DEF StartPipeHere, Acting, At, pipeVars, JobInv, Shape
    <2>2. mem[Shell].bgOpen = 0 /\ \A q \in Pids : Alive(q) => q = Shell
      BY <1>1, <2>1 DEF Order, LoopOrder, Quiet, Begins
    <2>3. Children(Shell) = {}
      <3> SUFFICES ASSUME NEW c \in Children(Shell) PROVE FALSE
        OBVIOUS
      <3>1. c \in Pids
        BY DEF Children
      <3>2. proc[c].kind \in {"job", "foreground"}
        BY <1>1, <1>9, <2>1 DEF Order, PipeOrder, Plain
      <3>3. proc[c].kind # "job"
        BY <1>1, <2>2 DEF JobInv, Tracked, JobsOf
      <3>4. proc[c].kind # "foreground"
        BY <1>1, <2>1, <3>1 DEF Cast, Awaited
      <3> QED
        BY <3>2, <3>3, <3>4
    <2>4. proc[Shell].kind # "first"
      BY <1>1 DEF Cast, FirstShell
    <2> QED
      BY <1>1, <1>9, <2>1, <2>2, <2>3, <2>4, HostStep
  <1>20. CASE StartJob(Shell)
    <2> DEFINE m(pid) == Back([mem[Shell] EXCEPT !.bgOpen = 1, !.pbg = pid])
               child == [Blank EXCEPT !.pc = "born", !.cmd = mem[Shell].cmd]
    <2>1. Fork(Shell, "job", [pid \in ForkAnswers |-> m(pid)], child)
      BY <1>20 DEF StartJob
    <2>2. mem[Shell].pc = "act" /\ UNCHANGED backlog
      BY <1>20, Zenon DEF StartJob, Acting, At, pipeVars
    <2>3. \A pid \in Pids : m(pid).pc = "read" /\ m(pid).syncToken = mem[Shell].syncToken
      BY <1>1 DEF Back, MemType
    <2>4. child.pc = "born" /\ child.syncToken = 0 /\ child.cmd = mem[Shell].cmd
      BY DEF Blank
    <2> HIDE DEF m, child
    <2>5. PICK c \in Pids : mem'[Shell] = m(c) /\ Born(Shell, c, "job", child)
      BY <1>1, <2>1, ForkBears DEF ForkAnswers
    <2>6. mem[Shell].cmd = "pipe_job" => \A q \in Pids : Alive(q) => q = Shell
      BY <1>1, <2>2 DEF Order, LoopOrder, Quiet, Begins
    <2>7. mem'[Shell].pc = "read" /\ mem'[Shell].syncToken = mem[Shell].syncToken
      BY <2>3, <2>5
    <2> QED
      BY <1>1, <1>9, <2>2, <2>4, <2>5, <2>6, <2>7, BirthStep
  <1>21. CASE StartProgram(Shell)
    <2> DEFINE m(pid) == [mem[Shell] EXCEPT !.waits = pid, !.pc = "waitpid"]
               child == [mem[Shell] EXCEPT !.pc = "exec"]
    <2>1. Fork(Shell, "foreground", [pid \in ForkAnswers |-> m(pid)], child)
      BY <1>21 DEF StartProgram
    <2>2. mem[Shell].pc = "act" /\ UNCHANGED backlog
      BY <1>21, Zenon DEF StartProgram, Acting, At, pipeVars
    <2>3. \A pid \in Pids : m(pid).pc = "waitpid" /\ m(pid).syncToken = mem[Shell].syncToken
      BY <1>1 DEF MemType
    <2>4. child.pc = "exec" /\ child.syncToken = mem[Shell].syncToken
      BY <1>1 DEF MemType
    <2> HIDE DEF m, child
    <2>5. PICK c \in Pids : mem'[Shell] = m(c) /\ Born(Shell, c, "foreground", child)
      BY <1>1, <2>1, ForkBears DEF ForkAnswers
    <2>6. mem'[Shell].pc = "waitpid" /\ mem'[Shell].syncToken = mem[Shell].syncToken
      BY <2>3, <2>5
    <2> QED
      BY <1>1, <1>9, <2>2, <2>4, <2>5, <2>6, BirthStep
  <1> QED
    BY <1>10, <1>11, <1>12, <1>13, <1>14, <1>15, <1>16, <1>17, <1>18, <1>19, <1>20, <1>21
    DEF ShellStep

\* In the first state nobody is at work.
LEMMA OrderInit == Init => Order
PROOF
  <1> SUFFICES ASSUME Init PROVE Order
    OBVIOUS
  <1>1. /\ proc[Shell] = [status |-> "run", parent |-> Login, group |-> Shell, kind |-> "shell",
                          listens |-> 0]
        /\ mem[Shell] = [Blank EXCEPT !.pc = "read"] /\ Shell \in Pids
        /\ \A p \in Pids \ {Shell} : proc[p] = Free /\ mem[p] = Blank
    BY MyshAssumption DEF Init
  <1>2. /\ mem[Shell].pc = "read" /\ mem[Shell].bgOpen = 0 /\ mem[Shell].cmd = "none"
        /\ mem[Shell].syncToken = 0 /\ Alive(Shell)
        /\ \A p \in Pids \ {Shell} : mem[p].pc = "none" /\ mem[p].cmd = "none"
    BY <1>1 DEF Blank, Alive
  <1>3. ASSUME NEW p \in Pids \ {Shell} PROVE ~Alive(p)
    <2>1. proc[p].status = "free"
      BY <1>1 DEF Free
    <2> QED
      BY <2>1 DEF Alive
  <1>4. Children(Shell) = {}
    <2>1. Login \notin Pids
      BY ProcessesAssumption DEF Login
    <2> QED
      BY <1>1, <2>1 DEF Children, Free
  <1>5. LoopOrder
    BY <1>2, <1>3 DEF LoopOrder, DeadGone, Held, Exits, WaitsForOwn, Quiet, Begins
  <1>6. PipeOrder
    <2>1. \A p \in Pids : ~Working(p)
      BY <1>2 DEF Working, Host, At
    <2>2. Plain(Shell)
      BY <1>1, <1>2, <1>4 DEF Plain
    <2>3. Connected
      BY DEF Init, PipeInit, Connected
    <2> QED
      BY <1>3, <2>1, <2>2, <2>3 DEF PipeOrder, OnePipe, OwnFirst, Working
  <1> QED
    BY <1>5, <1>6 DEF Order

\* Every step of a calm session keeps its order.
LEMMA OrderNext ==
  ASSUME JobInv, JobInv', Cast, Cast', Calm, Order, [Next]_vars
  PROVE  Order'
PROOF
  <1>1. ASSUME NEW p \in Pids, Step(p) PROVE Order'
    <2>1. LoopOrder'
      BY <1>1, OthersKeepLoop, OwnKeepsLoop
    <2>2. CASE ServerStep(p) \/ ClientStep(p)
      BY <2>1, <2>2, ThreadsKeepPipes DEF Order
    <2>3. CASE ChildStep(p)
      BY <2>1, <2>3, ChildKeepsPipes DEF Order
    <2>4. CASE Input(p) \/ ShellStep(p)
      <3>1. p = Shell
        <4> SUFFICES ASSUME p # Shell PROVE FALSE
          OBVIOUS
        <4>1. IsShell(p) \/ mem[p].pc \in ShellPlaces \ {"join"}
          BY <2>4 DEF ShellPlaces, Input, ReadCommand, ReadEof, ReadExit, Reading, Terminate,
             ShellStep, CheckRunning, CheckDone, CheckAgain, DoNothing, RefuseJob, StartJob,
             StartProgram, ProgramDone, StartPipeHere, PipeDone, KillCommand, FgChecks, FgNoJob,
             FgGives, FgWaits, FgTakesBack, KillJob, ReapJob, Leave, Acting, At
        <4> QED
          BY <1>1, <4>1, StepOf, CalmShell
      <3> QED
        BY <2>1, <2>4, <3>1, LoopKeepsPipes DEF Order
    <2> QED
      BY <1>1, <2>2, <2>3, <2>4 DEF Step
  <1>2. CASE UNCHANGED vars
    <2>1. /\ UNCHANGED <<proc, mem, backlog>>
          /\ \A p \in Pids : /\ (Alive(p)' <=> Alive(p)) /\ Children(p)' = Children(p)
                             /\ JobsOf(p)' = JobsOf(p)
                             /\ (Host(p)' <=> Host(p)) /\ (Working(p)' <=> Working(p))
      BY <1>2 DEF vars, pipeVars, Alive, Children, JobsOf, Host, Working, At
    <2>2. LoopOrder'
      BY <2>1, MyshAssumption
      DEF Order, LoopOrder, DeadGone, Held, Exits, WaitsForOwn, Quiet, Begins
    <2>3. \A p \in Pids : (Stage(p) => Stage(p)') /\ (Plain(p) => Plain(p)')
      <3>1. \A p \in Pids : \A kind : Sole(p, kind)' <=> Sole(p, kind)
        BY <2>1 DEF Sole
      <3> QED
        BY <2>1, <3>1 DEF Stage, Plain
    <2>4. PipeOrder'
      BY <2>1, <2>3 DEF Order, PipeOrder, OnePipe, OwnFirst, Connected
    <2> QED
      BY <2>2, <2>4 DEF Order
  <1> QED
    BY <1>1, <1>2 DEF Next, Step

\* A session without failing forks and execs, signals and overlapping pipes
\* keeps its order, for any number of processes and sockets.
LEMMA CalmInvariance == Spec => [](JobInv /\ Cast /\ (Calm => Order))
PROOF
  <1> DEFINE Inv == JobInv /\ Cast /\ (Calm => Order)
  <1>1. Init => Inv
    BY JobInvInit, CastInit, OrderInit
  <1>2. Inv /\ [Next]_vars => Inv'
    <2> SUFFICES ASSUME Inv, [Next]_vars PROVE Inv'
      OBVIOUS
    <2>1. JobInv' /\ Cast' /\ UNCHANGED may
      BY JobInvNext, CastNext, MayKept
    <2>2. Calm' => Calm
      BY <2>1 DEF Calm
    <2> QED
      BY <2>1, <2>2, OrderNext
  <1> QED
    BY <1>1, <1>2, PTL DEF Spec

\* In a calm session exit kills the shell's own job and waits for it, and for
\* nothing else: bgOpen and pbg still mean the job they were set for.  (mysh.c 80-84)
THEOREM ExitKillsOwnJob == Spec => []KillsOwnJob
PROOF
  <1>1. JobInv /\ Cast /\ (Calm => Order) => KillsOwnJob
    <2> SUFFICES ASSUME JobInv, Cast, Calm, Order, NEW s \in Pids,
                        mem[s].pc \in {"killjob", "reapjob"}
                 PROVE  mem[s].pbg \in Children(s) /\ proc[mem[s].pbg].kind = "job"
      BY DEF KillsOwnJob
    <2>1. Alive(s)
      BY DEF Order, LoopOrder, DeadGone
    <2>2. s = Shell
      BY <2>1, CalmShell DEF ShellPlaces
    <2>3. mem[Shell].pbg \in JobsOf(Shell)
      BY <2>1, <2>2 DEF Order, LoopOrder, Exits, Held
    <2> QED
      BY <2>2, <2>3 DEF JobsOf
  <1> QED
    BY <1>1, CalmInvariance, PTL

\* When the command exit leaves, the job is gone, whatever went wrong before; in
\* a calm session nothing is left for zombieAlert to find, as whoever started a
\* child has waited for it.  (mysh.c 43-50, 78-86, 210)
THEOREM ExitLeavesNoZombie == Spec => []NoZombieAtExit
PROOF
  <1>1. JobInv /\ Cast /\ (Calm => Order) => NoZombieAtExit
    <2> SUFFICES ASSUME JobInv, Cast, Calm => Order, NEW s \in Pids,
                        mem[s].pc = "leave", mem[s].cmd = "exit", NEW c \in Children(s)
                 PROVE  proc[c].kind # "job" /\ ~Calm
      BY DEF NoZombieAtExit
    <2>1. proc[c].kind # "job"
      BY DEF JobInv, NoJobThere, WithoutJob, Jobless, JobsOf
    <2>2. ASSUME Calm PROVE FALSE
      <3>1. Order /\ Alive(s) /\ c \in Pids
        BY <2>2 DEF Order, LoopOrder, DeadGone, Children
      <3>2. proc[c].kind \in {"job", "foreground"}
        BY <3>1 DEF Order, PipeOrder, Plain, Host, At
      <3>3. proc[c].kind # "foreground"
        BY <3>1 DEF Cast, Awaited
      <3> QED
        BY <2>1, <3>2, <3>3
    <2> QED
      BY <2>1, <2>2
  <1> QED
    BY <1>1, CalmInvariance, PTL

\* The second command of a pipe starts when the first has ended, although the
\* threads share nothing but syncToken.  (fs.c 91-93, 118)
THEOREM SecondWaits == Spec => []SecondWaitsInCalm
PROOF
  <1>1. JobInv /\ Cast /\ (Calm => Order) => SecondWaitsInCalm
    <2> SUFFICES ASSUME JobInv, Cast, Calm, Order, NEW h \in Pids, NEW c \in Pids,
                        mem[h].client = "fork", c \in Children(h)
                 PROVE  FALSE
      BY DEF SecondWaitsInCalm, SecondWaitsForFirst
    <2>1. Alive(h)
      BY DEF JobInv, ParentsAlive
    <2>2. Host(h)
      BY <2>1 DEF Cast, Roles, RoleOf, Host, At
    <2>3. Children(h) = {}
      BY <2>1, <2>2 DEF Order, PipeOrder, Stage
    <2> QED
      BY <2>3
  <1> QED
    BY <1>1, CalmInvariance, PTL

\* A client is connected to the server of its own pipe, although the name of
\* the socket is the same for all.  (fs.c 45-71, 112-116)
THEOREM PipeIsItsOwn == Spec => []WiredToItself
PROOF
  <1>1. JobInv /\ Cast /\ (Calm => Order) => WiredToItself
    BY DEF WiredToItself, Order, PipeOrder, Connected
  <1> QED
    BY <1>1, CalmInvariance, PTL

=============================================================================
