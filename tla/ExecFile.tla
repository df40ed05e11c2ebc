------------------------------ MODULE ExecFile ------------------------------
(***************************************************************************)
(* rpc::ExecFile::execute (src/src/rpc/exec_file.cc) and the global lock.   *)
(*                                                                         *)
(* The main thread runs execute() holding the global lock.  With           *)
(* flag_capture it opens a pipe, forks, reads the child's output to EOF    *)
(* and waits for it, all under the lock; otherwise it forks, releases the  *)
(* lock, waits, and takes the lock back.  With flag_background the child   *)
(* forks again and exits at once, leaving a detached grandchild.           *)
(*                                                                         *)
(* Around it: an RPC thread that needs the global lock to serve a request, *)
(* the main loop that lets the lock go while it polls, and the executed    *)
(* command, which may call back into the client over RPC and wait for the  *)
(* answer before it writes its output and exits.                           *)
(***************************************************************************)
EXTENDS Naturals, ExecChild

CONSTANTS
  Commands       \* what may be executed: [capture, background, callback]

Command == [capture : BOOLEAN, background : BOOLEAN, callback : BOOLEAN]

ASSUME Commands \subseteq Command

VARIABLES
  mainPc,        \* "loop", "poll", "reading", "waiting", "reacquire", "done"
  cmd,           \* the command execute() is running
  lock,          \* holder of the global lock: "main", "rpc" or "free"
  pipeOpen,      \* pipeFd[0] / pipeFd[1] of the call in progress are open
  leaked,        \* a pipe of an earlier call was never closed
  child,         \* the process waitpid waits for: "none", "running", "exited"
  worker,        \* the process running the command: "none", "running",
                 \* "calling" (waiting for its RPC answer), "exited"
  holdsPipe,     \* the command's process holds a write end of the pipe
  rpcPc          \* "idle", "queued", "serving"

vars == <<mainPc, cmd, lock, pipeOpen, leaked, child, worker, holdsPipe, rpcPc>>

NoCommand == [capture |-> FALSE, background |-> FALSE, callback |-> FALSE]

Init ==
  /\ mainPc = "loop"
  /\ cmd = NoCommand
  /\ lock = "main"
  /\ pipeOpen = FALSE
  /\ leaked = FALSE
  /\ child = "none"
  /\ worker = "none"
  /\ holdsPipe = FALSE
  /\ rpcPc = "idle"

(* The main loop lets the lock go while it polls, and takes it back.      *)
PollRelease ==
  /\ mainPc = "loop"
  /\ mainPc' = "poll"
  /\ lock' = "free"
  /\ UNCHANGED <<cmd, pipeOpen, leaked, child, worker, rpcPc, holdsPipe>>

PollAcquire ==
  /\ mainPc = "poll"
  /\ lock = "free"
  /\ mainPc' = "loop"
  /\ lock' = "main"
  /\ UNCHANGED <<cmd, pipeOpen, leaked, child, worker, rpcPc, holdsPipe>>

(* execute(), up to the fork failing: the pipe (if capturing) is created,  *)
(* fork() returns -1 and input_error is thrown with the pipe still open.   *)
ForkFail(c) ==
  /\ mainPc = "loop"
  /\ leaked' = (leaked \/ c.capture)
  /\ UNCHANGED <<mainPc, cmd, lock, pipeOpen, child, worker, rpcPc, holdsPipe>>

(* Mutation of execute(): the lock is released for captured commands      *)
(* instead of the others (the test on flag_capture inverted).             *)
ExecStartReleaseSwapped(c) ==
  /\ mainPc = "loop"
  /\ worker \in {"none", "exited"}
  /\ cmd' = c
  /\ pipeOpen' = c.capture
  /\ child' = IF c.background THEN "exited" ELSE "running"
  /\ worker' = "running"
  /\ holdsPipe' \in PipeKept[c.capture, c.background]
  /\ IF c.capture
       THEN /\ mainPc' = "reading"
            /\ lock' = "free"
       ELSE /\ mainPc' = "waiting"
            /\ UNCHANGED lock
  /\ UNCHANGED <<leaked, rpcPc>>

(* execute(), through a successful fork.  The child (or, in the           *)
(* background case, the detached grandchild) runs the command; the        *)
(* intermediate child of a background command exits at once.  Without     *)
(* flag_capture the parent releases the global lock; with it, the parent   *)
(* closes pipeFd[1] and reads.  A background child drops flag_capture and  *)
(* its copies of the pipe go with close_all_fds(), unless that closes      *)
(* nothing (ExecChild's PipeKept says which tables allow it).              *)
ExecStart(c) ==
  /\ mainPc = "loop"
  /\ worker \in {"none", "exited"}         \* one command process at a time
  /\ cmd' = c
  /\ pipeOpen' = c.capture
  /\ child' = IF c.background THEN "exited" ELSE "running"
  /\ worker' = "running"
  /\ holdsPipe' \in PipeKept[c.capture, c.background]
  /\ IF c.capture
       THEN /\ mainPc' = "reading"
            /\ UNCHANGED lock
       ELSE /\ mainPc' = "waiting"
            /\ lock' = "free"
  /\ UNCHANGED <<leaked, rpcPc>>

(* The command calls back over RPC and waits for the answer.              *)
WorkerCall ==
  /\ worker = "running"
  /\ cmd.callback
  /\ rpcPc = "idle"
  /\ worker' = "calling"
  /\ rpcPc' = "queued"
  /\ UNCHANGED <<mainPc, cmd, lock, pipeOpen, leaked, child, holdsPipe>>

(* The command writes its output and exits (after its call, if any).      *)
WorkerExit ==
  /\ \/ worker = "running" /\ ~cmd.callback
     \/ worker = "calling" /\ rpcPc = "idle"
  /\ worker' = "exited"
  /\ child' = IF child = "running" THEN "exited" ELSE child
  /\ holdsPipe' = FALSE
  /\ UNCHANGED <<mainPc, cmd, lock, pipeOpen, leaked, rpcPc>>

(* The RPC thread takes the global lock, serves the request, answers and   *)
(* lets the lock go.                                                       *)
RpcAcquire ==
  /\ rpcPc = "queued"
  /\ lock = "free"
  /\ lock' = "rpc"
  /\ rpcPc' = "serving"
  /\ UNCHANGED <<mainPc, cmd, pipeOpen, leaked, child, worker, holdsPipe>>

RpcRelease ==
  /\ rpcPc = "serving"
  /\ lock' = "free"
  /\ rpcPc' = "idle"
  /\ UNCHANGED <<mainPc, cmd, pipeOpen, leaked, child, worker, holdsPipe>>

(* The capture loop: read() returns 0 once every write end is closed: the  *)
(* parent closed its own, and the command's process has exited or never   *)
(* held one; then pipeFd[0] is closed.                                    *)
ReadToEof ==
  /\ mainPc = "reading"
  /\ ~holdsPipe
  /\ mainPc' = "waiting"
  /\ pipeOpen' = FALSE
  /\ UNCHANGED <<cmd, lock, leaked, child, worker, rpcPc, holdsPipe>>

(* Mutation of the wait: the lock is not taken back after waitpid.        *)
WaitNoReacquire ==
  /\ mainPc = "waiting"
  /\ child = "exited"
  /\ mainPc' = "done"
  /\ UNCHANGED <<cmd, lock, pipeOpen, leaked, child, worker, rpcPc, holdsPipe>>

(* waitpid returns the child's status.                                    *)
Wait ==
  /\ mainPc = "waiting"
  /\ child = "exited"
  /\ mainPc' = IF cmd.capture THEN "done" ELSE "reacquire"
  /\ UNCHANGED <<cmd, lock, pipeOpen, leaked, child, worker, rpcPc, holdsPipe>>

(* Mutation of the reacquire: the lock is taken without waiting for it.   *)
ReacquireNoWait ==
  /\ mainPc = "reacquire"
  /\ mainPc' = "done"
  /\ lock' = "main"
  /\ UNCHANGED <<cmd, pipeOpen, leaked, child, worker, rpcPc, holdsPipe>>

(* acquire_global_lock() after the wait, when it was released.            *)
Reacquire ==
  /\ mainPc = "reacquire"
  /\ lock = "free"
  /\ mainPc' = "done"
  /\ lock' = "main"
  /\ UNCHANGED <<cmd, pipeOpen, leaked, child, worker, rpcPc, holdsPipe>>

(* The status is logged and returned; the main loop carries on.           *)
Return ==
  /\ mainPc = "done"
  /\ mainPc' = "loop"
  /\ child' = "none"
  /\ UNCHANGED <<cmd, lock, pipeOpen, leaked, worker, rpcPc, holdsPipe>>

Next ==
  \/ PollRelease \/ PollAcquire
  \/ \E c \in Commands : ForkFail(c) \/ ExecStart(c)
  \/ WorkerCall \/ WorkerExit
  \/ RpcAcquire \/ RpcRelease
  \/ ReadToEof \/ Wait \/ Reacquire \/ Return

(* The operating system runs every process and thread that can run.  The  *)
(* main loop's polling and its choice of commands get no fairness.        *)
Fairness ==
  /\ WF_vars(WorkerCall) /\ WF_vars(WorkerExit)
  /\ SF_vars(RpcAcquire) /\ WF_vars(RpcRelease)
  /\ WF_vars(ReadToEof) /\ WF_vars(Wait) /\ SF_vars(Reacquire) /\ WF_vars(Return)

Spec == Init /\ [][Next]_vars
FairSpec == Spec /\ Fairness

-----------------------------------------------------------------------------
InExecute == mainPc \in {"reading", "waiting", "reacquire", "done"}

(* Every variable has the type the code gives it, and the lock has one    *)
(* holder: the RPC thread serves only while the lock is its own.          *)
TypeOK ==
  /\ mainPc \in {"loop", "poll", "reading", "waiting", "reacquire", "done"}
  /\ cmd \in Command
  /\ lock \in {"main", "rpc", "free"}
  /\ pipeOpen \in BOOLEAN
  /\ leaked \in BOOLEAN
  /\ child \in {"none", "running", "exited"}
  /\ worker \in {"none", "running", "calling", "exited"}
  /\ holdsPipe \in BOOLEAN
  /\ rpcPc \in {"idle", "queued", "serving"}
  /\ rpcPc = "serving" => lock = "rpc"

(* The global lock is the main thread's whenever it runs client code: in   *)
(* the main loop, while capturing, and once execute() has its status; it   *)
(* is let go only while polling or while waiting for a non-captured child. *)
LockHeldByMainCode == mainPc \in {"loop", "reading", "done"} => lock = "main"

(* Every execute() returns: the command's callbacks are served while the   *)
(* main thread waits ("so that XMLRPC and other threads can continue       *)
(* working", lines 169-170).                                               *)
ExecuteReturns == InExecute ~> mainPc = "loop"

(* execute() leaves no descriptor of its pipe open once it is back in the  *)
(* main loop, whether it returned or threw.                               *)
NoPipeLeak == mainPc = "loop" => ~pipeOpen /\ ~leaked

(* While the command runs, it holds only the standard streams its flags    *)
(* ask for (ExecChild: the child's dup2 chain and close_all_fds): no       *)
(* socket of the client, no pipe read end, and the pipe's write end only   *)
(* as stdout of a captured foreground command.  This holds for nearly      *)
(* empty and nearly full descriptor tables and for a /proc/self/fd listing *)
(* that takes several getdents() calls, except when /dev/null takes the    *)
(* last free descriptor (DevNullTakesLastFd).                              *)
CommandInheritsOnlyStdio ==
  worker \in {"running", "calling"} => StdioOnly[cmd.capture, cmd.background]
=============================================================================
