-------------------------------- MODULE Pipe --------------------------------
(***************************************************************************)
(* The pipe of fs.c.  A host process, the shell itself or the background   *)
(* process it forks, runs two threads: serverOut binds a socket to a fixed *)
(* name, accepts a client, runs the first command with its output going to *)
(* the client, and waits; clientIn connects, spins on syncToken until the  *)
(* server is done, runs the second command on the connection, and waits.   *)
(***************************************************************************)
EXTENDS Processes

CONSTANT Sockets  \* listening sockets

ASSUME PipeAssumption == Sockets \subseteq Nat \ {0}

VARIABLES
  name,     \* the socket that FILE_SERVER names, 0 if there is no such file
  backlog   \* backlog[k]: the hosts whose clients wait for k's accept

pipeVars == <<name, backlog>>

\* A socket is listened on while a process has it open; fork passes it on.
Open(k) == \E p \in Pids : Alive(p) /\ proc[p].listens = k

\* Connections wait for an accept only while somebody can make it.
HangUp == backlog' = [k \in Sockets |-> IF Open(k)' THEN backlog[k] ELSE {}]

PipeInit == name = 0 /\ backlog = [k \in Sockets |-> {}]

\* The threads of h are created.
StartPipe(m) == [m EXCEPT !.pc = "join", !.server = "unlink", !.client = "connect"]

-----------------------------------------------------------------------------
(* serverOut                                                               *)

ServerAt(h, at) == Alive(h) /\ mem[h].server = at
ServerGoes(h, to) == mem' = [mem EXCEPT ![h].server = to]

\* access and unlink.
Unlink(h) ==
  /\ ServerAt(h, "unlink")
  /\ name' = 0
  /\ ServerGoes(h, "bind")
  /\ UNCHANGED <<may, term, proc, backlog>>

\* socket, bind and listen: until it listens nobody can connect.
Bind(h) ==
  /\ ServerAt(h, "bind")
  /\ name = 0
  /\ \E k \in Sockets :
       /\ ~Open(k) /\ \A j \in Sockets : ~Open(j) => k <= j
       /\ name' = k
       /\ proc' = [proc EXCEPT ![h].listens = k]
  /\ ServerGoes(h, "accept")
  /\ UNCHANGED <<may, term, backlog>>

\* The name is taken again since it was removed: exit(1) ends the whole host.
BindFails(h) ==
  /\ ServerAt(h, "bind")
  /\ name # 0
  /\ Exit(h) /\ HangUp
  /\ UNCHANGED <<may, term, name>>

Accept(h) ==
  /\ ServerAt(h, "accept")
  /\ \E c \in backlog[proc[h].listens] :
       backlog' = [backlog EXCEPT ![proc[h].listens] = @ \ {c}]
  /\ ServerGoes(h, "fork")
  /\ UNCHANGED <<may, term, proc, name>>

\* The child becomes the first command; without a child the server goes on.
ForkFirst(h) ==
  /\ ServerAt(h, "fork")
  /\ Fork(h, "first", [pid \in ForkAnswers |-> [mem[h] EXCEPT !.server = "wait"]],
          [Blank EXCEPT !.pc = "program"])
  /\ UNCHANGED <<may, term, pipeVars>>

\* wait(NULL): any child of the host will do.
WaitFirst(h) ==
  /\ ServerAt(h, "wait")
  /\ WaitReturns(h, -1)
  /\ ServerGoes(h, "close")
  /\ UNCHANGED <<may, term, pipeVars>>

\* Fault: the listening socket stays open.
CloseConnectionOnly(h) ==
  /\ ServerAt(h, "close")
  /\ mem' = [mem EXCEPT ![h].server = "done", ![h].syncToken = 1]
  /\ UNCHANGED <<may, term, proc, pipeVars>>

\* Both sockets are closed, then the client may run.
Close(h) ==
  /\ ServerAt(h, "close")
  /\ proc' = [proc EXCEPT ![h].listens = 0]
  /\ mem' = [mem EXCEPT ![h].server = "done", ![h].syncToken = 1]
  /\ HangUp
  /\ UNCHANGED <<may, term, name>>

-----------------------------------------------------------------------------
(* clientIn                                                                *)

ClientAt(h, at) == Alive(h) /\ mem[h].client = at
ClientGoes(h, to) == mem' = [mem EXCEPT ![h].client = to]

\* Fault: one attempt, whatever comes of it.
ConnectOnce(h) ==
  /\ ClientAt(h, "connect")
  /\ backlog' = IF name # 0 /\ Open(name)
                  THEN [backlog EXCEPT ![name] = @ \cup {h}] ELSE backlog
  /\ ClientGoes(h, "spin")
  /\ UNCHANGED <<may, term, proc, name>>

\* The attempt that succeeds: the name leads to a socket somebody listens on.
Connect(h) ==
  /\ ClientAt(h, "connect")
  /\ name # 0 /\ Open(name)
  /\ backlog' = [backlog EXCEPT ![name] = @ \cup {h}]
  /\ ClientGoes(h, "spin")
  /\ UNCHANGED <<may, term, proc, name>>

\* The last iteration of while(syncToken == 0).
SeeToken(h) ==
  /\ ClientAt(h, "spin")
  /\ mem[h].syncToken # 0
  /\ ClientGoes(h, "fork")
  /\ UNCHANGED <<may, term, proc, pipeVars>>

ForkSecond(h) ==
  /\ ClientAt(h, "fork")
  /\ Fork(h, "second", [pid \in ForkAnswers |-> [mem[h] EXCEPT !.client = "wait"]],
          [Blank EXCEPT !.pc = "program"])
  /\ UNCHANGED <<may, term, pipeVars>>

\* Fault: the token is left for the next pipe.
WaitSecondOnly(h) ==
  /\ ClientAt(h, "wait")
  /\ WaitReturns(h, -1)
  /\ ClientGoes(h, "done")
  /\ UNCHANGED <<may, term, pipeVars>>

\* wait(NULL), and the token is reset.
WaitSecond(h) ==
  /\ ClientAt(h, "wait")
  /\ WaitReturns(h, -1)
  /\ mem' = [mem EXCEPT ![h].client = "done", ![h].syncToken = 0]
  /\ UNCHANGED <<may, term, pipeVars>>

ServerStep(h) ==
  \/ Unlink(h) \/ Bind(h) \/ BindFails(h) \/ Accept(h)
  \/ ForkFirst(h) \/ WaitFirst(h) \/ Close(h)

ClientStep(h) == Connect(h) \/ SeeToken(h) \/ ForkSecond(h) \/ WaitSecond(h)

\* pthread_join of both threads.
Joined(h) == mem[h].server = "done" /\ mem[h].client = "done"

=============================================================================
