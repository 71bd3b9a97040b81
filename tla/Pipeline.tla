------------------------------ MODULE Pipeline ------------------------------
(***************************************************************************)
(* execute_pipeline (src/pipe): the shell creates the pipes and forks one  *)
(* child per command, from left to right; the children rewire their        *)
(* standard descriptors and run concurrently; the shell then closes its    *)
(* pipe ends, restores its standard descriptors and waits for every child. *)
(*                                                                         *)
(* Processes are numbered: 0 is the shell and p \in 1..N the child forked  *)
(* for the p-th command, which is also its pid.  Each process has its own  *)
(* descriptor table and, because fork copies memory, its own copy of the   *)
(* t_pipe context and of the exit-status fields of t_env.                  *)
(***************************************************************************)
EXTENDS Descriptors, StatusLatch, Sequences, FiniteSets

CONSTANTS
  N,              \* number of commands of the pipeline
  Pipelines,      \* the command lists considered
  Capacity,       \* items a pipe holds before a writer blocks
  EntryEnv,       \* exit_status and latch when the pipeline is entered
  MaxInterrupts   \* bound on the Ctrl-C the user types during the pipeline

Shell == 0
Stage == 1 .. N
Proc  == 0 .. N

(***************************************************************************)
(* What the model keeps of a command: how its program behaves, where its   *)
(* input comes from and where its output goes when it redirects them.      *)
(*   yes, cat, head  external programs: write for ever, copy to the end of *)
(*                   the input, take one item                              *)
(*   builtin, failing  a builtin that succeeds, one that reports an error  *)
(*   empty           no word at all: "a | > f"                             *)
(*   exit, exitargs  the exit builtin, with at most one and with two or    *)
(*                   more arguments                                        *)
(***************************************************************************)
External == {"yes", "cat", "head"}
Builtin  == {"builtin", "failing"}
Exit     == {"exit", "exitargs"}
Command  == [prog : External \cup Builtin \cup Exit \cup {"empty"},
             in   : {"pipe", "file", "heredoc"},
             out  : {"pipe", "file"}]

\* pids[64] of t_pipe is filled without a check, so longer pipelines are
\* outside the model.
ASSUME PipelineAssumption ==
  /\ N \in 2 .. 64
  /\ Pipelines \subseteq [Stage -> Command]
  /\ EntryEnv \subseteq Env
  /\ Capacity \in Nat \ {0}
  /\ MaxInterrupts \in Nat

Tty     == <<"tty", 0>>     \* the terminal, on 0, 1 and 2 of the shell
File(p) == <<"file", p>>    \* a file or heredoc command p redirects
Rd(p)   == <<"read", p>>    \* read end of the pipe after command p
Wr(p)   == <<"write", p>>   \* its write end

Object == {Tty} \cup {File(p) : p \in Stage} \cup {Rd(p) : p \in Stage}
                \cup {Wr(p) : p \in Stage}

Signalled == -1             \* wait status of a child a signal killed

VARIABLES
  cmd,        \* the command list
  fd_in,      \* its fd_in fields, opened by process_heredocs beforehand
  fdtab,      \* descriptor table of every process
  ctx,        \* t_pipe of every process
  env,        \* exit_status and the exit latch of t_env, in every process
  exit_requested,
  pids,       \* children recorded by the shell, in order
  last_pid,   \* NoPid until the last command is forked
  spc, cur,   \* where the shell is, and the command it is at
  waited,     \* how many of pids have been waited for
  cpc,        \* where each child is
  code,       \* the wait status a child left
  buf,        \* items in each pipe
  released,   \* how often free_cmds was called on the list
  interrupts  \* Ctrl-C typed so far

shellVars == <<exit_requested, pids, last_pid, spc, cur, waited, released>>
childVars == <<cpc, code, buf, interrupts>>
vars == <<cmd, fd_in, fdtab, ctx, env, shellVars, childVars>>

NoPid == 0

Ctx == [prev : Fd \cup {NoFd}, p0 : Fd \cup {NoFd}, p1 : Fd \cup {NoFd},
        bin : Fd \cup {NoFd}, bout : Fd \cup {NoFd}, berr : Fd \cup {NoFd}]

-----------------------------------------------------------------------------
(* Helpers *)

\* Operators named Fault... are variants of the definition that follows them
\* with one plausible mistake in the code.  No specification uses them.

PipeFds(c) == {c.prev, c.p0, c.p1}
\* close_unused_fd closing the first descriptors instead of the recorded ones.
FaultBackups(c) == 3 .. 5

Backups(c) == {c.bin, c.bout, c.berr}

\* close_all_pipe_fds()
ForgetPipes(c) == [c EXCEPT !.prev = NoFd, !.p0 = NoFd, !.p1 = NoFd]

\* restore_std_fd(): dup2 each backup over its standard descriptor, close it.
Restore(t, c) ==
  CloseAll(Dup2(Dup2(Dup2(t, c.bin, 0), c.bout, 1), c.berr, 2), Backups(c))
ForgetBackups(c) == [c EXCEPT !.bin = NoFd, !.bout = NoFd, !.berr = NoFd]

\* restore_std_fd left out.
FaultRecovered(t, c) == CloseAll(t, PipeFds(c))

\* Closing every pipe end and restoring the standard descriptors.
Recovered(t, c) == Restore(CloseAll(t, PipeFds(c)), c)
Forgotten(c)    == ForgetBackups(ForgetPipes(c))

\* ft_exit closes 3..9, whatever they are.
ExitCloses == 3 .. 9

HasNext(p) == p < N

Holds(p, d)  == \E f \in Fd : fdtab[p][f] = d
Held(d)      == \E p \in Proc : Holds(p, d)
Launched(p)  == cpc[p] # "none"
Exited(p)    == cpc[p] \in {"zombie", "reaped"}

-----------------------------------------------------------------------------
(* Entry: the heredocs of the list are open, on the lowest numbers. *)

HeredocFd(c, p) ==
  IF c[p].in = "heredoc"
  THEN 3 + Cardinality({q \in 1 .. p - 1 : c[q].in = "heredoc"})
  ELSE 0

\* A heredoc that could not be opened leaves fd_in at 0, and its command takes
\* its input from the pipe (setup_pipe_input): to the pipeline it is none.
ASSUME HeredocsOpen ==
  \A c \in Pipelines, p \in Stage : c[p].in = "heredoc" => HeredocFd(c, p) \in Fd

IsHeredoc(p, f) == cmd[p].in = "heredoc" /\ fd_in[p] = f

EntryTable ==
  [f \in Fd |-> IF f < 3 THEN Tty
                ELSE IF \E p \in Stage : IsHeredoc(p, f)
                     THEN File(CHOOSE p \in Stage : IsHeredoc(p, f))
                     ELSE Closed]

NoCtx == [prev |-> NoFd, p0 |-> NoFd, p1 |-> NoFd,
          bin |-> NoFd, bout |-> NoFd, berr |-> NoFd]

Init ==
  /\ cmd \in Pipelines
  /\ fd_in = [p \in Stage |-> HeredocFd(cmd, p)]
  /\ fdtab = [p \in Proc |-> IF p = Shell THEN EntryTable ELSE AllClosed]
  /\ ctx = [p \in Proc |-> NoCtx]
  /\ \E e \in EntryEnv : env = [p \in Proc |-> e]
  /\ exit_requested = FALSE
  /\ pids = <<>> /\ last_pid = NoPid
  /\ spc = "setup" /\ cur = 1 /\ waited = 0 /\ released = 0
  /\ cpc = [p \in Stage |-> "none"]
  /\ code = [p \in Stage |-> 0]
  /\ buf = [p \in Stage |-> 0]
  /\ interrupts = 0

-----------------------------------------------------------------------------
(* The shell *)

ShellTable(t) == fdtab' = [fdtab EXCEPT ![Shell] = t]
ShellCtx(c)   == ctx' = [ctx EXCEPT ![Shell] = c]
Report(c)     == env' = [env EXCEPT ![Shell] = ExitStatus(@, c)]
NextCommand   == cur' = cur + 1 /\ spc' = IF HasNext(cur) THEN "launch"
                                                         ELSE "cleanup"

\* setup_pipeline: the backups of the standard descriptors; from here to
\* Return the shell ignores SIGINT and SIGQUIT.
SetupPipeline ==
  /\ spc = "setup"
  /\ \E i \in {Dup(fdtab[Shell], 0)} : \E o \in {Dup(i.tab, 1)} :
       \E e \in {Dup(o.tab, 2)} :
         /\ ShellTable(e.tab)
         /\ ShellCtx([NoCtx EXCEPT !.bin = i.fd, !.bout = o.fd, !.berr = e.fd])
  /\ last_pid' = NoPid
  /\ spc' = "launch"
  /\ UNCHANGED <<cmd, fd_in, env, exit_requested, pids, cur, waited, released,
                 childVars>>

AtCommand == spc = "launch" /\ cmd[cur].prog \notin Exit
AtExit(e) == spc = "launch" /\ cmd[cur].prog \in e

\* The break after exit_handler left out: the loop goes on.
FaultExitBeforeLast ==
  /\ AtExit(Exit) /\ HasNext(cur)
  /\ exit_requested' = TRUE
  /\ NextCommand
  /\ UNCHANGED <<cmd, fd_in, fdtab, ctx, env, pids, last_pid, waited, released,
                 childVars>>

\* exit_handler for an exit that is not the last command.
ExitBeforeLast ==
  /\ AtExit(Exit) /\ HasNext(cur)
  /\ exit_requested' = TRUE
  /\ spc' = "cleanup"
  /\ UNCHANGED <<cmd, fd_in, fdtab, ctx, env, pids, last_pid, cur, waited,
                 released, childVars>>

\* exit_handler and ft_exit for a last command that really exits.
ExitLast ==
  /\ AtExit({"exit"}) /\ ~HasNext(cur)
  /\ \E c \in Codes : Report(c)
  /\ exit_requested' = TRUE
  /\ ShellTable(CloseAll(fdtab[Shell], ExitCloses))
  /\ spc' = "cleanup"
  /\ UNCHANGED <<cmd, fd_in, ctx, pids, last_pid, cur, waited, released,
                 childVars>>

\* ft_exit refuses two arguments or more, and returns early.
ExitRefused ==
  /\ AtExit({"exitargs"}) /\ ~HasNext(cur)
  /\ \E c \in {1, 2} : Report(c)
  /\ spc' = "cleanup"
  /\ UNCHANGED <<cmd, fd_in, fdtab, ctx, exit_requested, pids, last_pid, cur,
                 waited, released, childVars>>

\* The shell's own process_redirect opens and closes the files and its result
\* is dropped: nothing of it is left in the state.
CreatePipe ==
  /\ AtCommand /\ HasNext(cur)
  /\ \E r \in {Alloc(fdtab[Shell], Rd(cur))} : \E w \in {Alloc(r.tab, Wr(cur))} :
         /\ w.fd # NoFd
         /\ ShellTable(w.tab)
         /\ ShellCtx([ctx[Shell] EXCEPT !.p0 = r.fd, !.p1 = w.fd])
  /\ spc' = "fork"
  /\ UNCHANGED <<cmd, fd_in, env, exit_requested, pids, last_pid, cur, waited,
                 released, childVars>>

\* The failed command is skipped, the descriptors stay.
FaultGiveUpCommand ==
  /\ Report(1)
  /\ ShellCtx(Forgotten(ctx[Shell]))
  /\ NextCommand
  /\ UNCHANGED <<cmd, fd_in, fdtab, exit_requested, pids, last_pid, waited,
                 released, childVars>>

\* create_cmd_pipe and handle_fork_error undo the whole set-up, and the loop
\* goes on to the next command.
GiveUpCommand ==
  /\ Report(1)
  /\ ShellTable(Recovered(fdtab[Shell], ctx[Shell]))
  /\ ShellCtx(Forgotten(ctx[Shell]))
  /\ NextCommand
  /\ UNCHANGED <<cmd, fd_in, exit_requested, pids, last_pid, waited, released,
                 childVars>>

\* pipe() fails for want of descriptors here (EMFILE) or system-wide (ENFILE).
PipeFails == AtCommand /\ HasNext(cur) /\ GiveUpCommand

ReadyToFork == spc = "fork" \/ (AtCommand /\ ~HasNext(cur))

\* The child inherits the table, the context and t_env.
Fork ==
  /\ ReadyToFork
  /\ fdtab' = [fdtab EXCEPT ![cur] = fdtab[Shell]]
  /\ ctx' = [ctx EXCEPT ![cur] = ctx[Shell]]
  /\ env' = [env EXCEPT ![cur] = env[Shell]]
  /\ cpc' = [cpc EXCEPT ![cur] = "start"]
  /\ spc' = "parent"
  /\ UNCHANGED <<cmd, fd_in, exit_requested, pids, last_pid, cur, waited,
                 released, code, buf, interrupts>>

ForkFails == ReadyToFork /\ GiveUpCommand

\* The write end, or the previous read end, left open in the shell.
FaultKeepsWriteEnd(c) == {c.prev}
FaultKeepsReadEnd(c)  == IF HasNext(cur) THEN {c.p1} ELSE {}

\* execute_parent_process, then the exit_requested test of process_pipeline.
ParentFds(c) == {c.prev} \cup IF HasNext(cur) THEN {c.p1} ELSE {}

ExecuteParentProcess ==
  /\ spc = "parent"
  /\ pids' = Append(pids, cur)
  /\ last_pid' = IF HasNext(cur) THEN last_pid ELSE cur
  /\ LET old == ctx[Shell]
         t == CloseAll(fdtab[Shell], ParentFds(old))
         c == [old EXCEPT !.prev = IF HasNext(cur) THEN old.p0 ELSE NoFd]
     IN  IF exit_requested
         THEN /\ ShellTable(Recovered(t, c)) /\ ShellCtx(Forgotten(c))
              /\ released' = released + 1
              /\ spc' = "cleanup" /\ UNCHANGED cur
         ELSE /\ ShellTable(t) /\ ShellCtx(c)
              /\ NextCommand
              /\ UNCHANGED released
  /\ UNCHANGED <<cmd, fd_in, env, exit_requested, waited, childVars>>

\* cleanup_pipeline up to the wait, which a requested exit skips.
Cleanup ==
  /\ spc = "cleanup"
  /\ ShellTable(Recovered(fdtab[Shell], ctx[Shell]))
  /\ ShellCtx(Forgotten(ctx[Shell]))
  /\ spc' = IF exit_requested THEN "return" ELSE "wait"
  /\ UNCHANGED <<cmd, fd_in, env, exit_requested, pids, last_pid, cur, waited,
                 released, childVars>>

\* The test for last_pid left out.
FaultWaitForChild ==
  /\ spc = "wait" /\ waited < Len(pids)
  /\ cpc[pids[waited + 1]] = "zombie"
  /\ cpc' = [cpc EXCEPT ![pids[waited + 1]] = "reaped"]
  /\ Report(IF code[pids[waited + 1]] = Signalled THEN 0
            ELSE code[pids[waited + 1]])
  /\ waited' = waited + 1
  /\ UNCHANGED <<cmd, fd_in, fdtab, ctx, exit_requested, pids, last_pid, spc,
                 cur, released, code, buf, interrupts>>

\* One turn of wait_for_child: waitpid blocks until that child is a zombie.
WaitForChild ==
  /\ spc = "wait" /\ waited < Len(pids)
  /\ LET p == pids[waited + 1]
     IN  /\ cpc[p] = "zombie"
         /\ cpc' = [cpc EXCEPT ![p] = "reaped"]
         /\ IF p = last_pid /\ code[p] # Signalled
            THEN Report(code[p])
            ELSE UNCHANGED env
  /\ waited' = waited + 1
  /\ UNCHANGED <<cmd, fd_in, fdtab, ctx, exit_requested, pids, last_pid, spc,
                 cur, released, code, buf, interrupts>>

\* The last turn of wait_for_child left out.
FaultReturn ==
  /\ spc = "return" \/ (spc = "wait" /\ waited + 1 >= Len(pids))
  /\ released' = released + 1
  /\ spc' = "done"
  /\ UNCHANGED <<cmd, fd_in, fdtab, ctx, env, exit_requested, pids, last_pid,
                 cur, waited, childVars>>

\* free_cmds, reset_input_state and restore_signal_handlers.
Return ==
  /\ spc = "return" \/ (spc = "wait" /\ waited = Len(pids))
  /\ released' = released + 1
  /\ spc' = "done"
  /\ UNCHANGED <<cmd, fd_in, fdtab, ctx, env, exit_requested, pids, last_pid,
                 cur, waited, childVars>>

ShellStep ==
  \/ SetupPipeline \/ ExitBeforeLast \/ ExitLast \/ ExitRefused
  \/ CreatePipe \/ PipeFails \/ Fork \/ ForkFails \/ ExecuteParentProcess
  \/ Cleanup \/ WaitForChild \/ Return

-----------------------------------------------------------------------------
(* The stages: execute_pipe_child in the process forked for command p. *)

Moves(p, t, pc) ==
  /\ fdtab' = [fdtab EXCEPT ![p] = t]
  /\ cpc' = [cpc EXCEPT ![p] = pc]
  /\ UNCHANGED <<cmd, fd_in, shellVars, interrupts>>

Continue(p, t, pc) == Moves(p, t, pc) /\ UNCHANGED <<code, buf>>

\* The kernel closes the descriptors of a process that exits.
Die(p, c) ==
  /\ Moves(p, AllClosed, "zombie")
  /\ code' = [code EXCEPT ![p] = c]
  /\ UNCHANGED <<ctx, env, buf>>

FileIn(p)  == cmd[p].in = "file"
FileOut(p) == cmd[p].out = "file"

\* What the error paths of setup_pipe_input close.
PipesOf(p) == {ctx[p].prev} \cup IF HasNext(p) THEN {ctx[p].p0, ctx[p].p1}
                                               ELSE {}
ForgetPrev(p) == ctx' = [ctx EXCEPT ![p].prev = NoFd]
ChildFails(p) == env' = [env EXCEPT ![p] = ExitStatus(@, 1)]

\* Default signal actions; until here SIGINT is ignored as in the shell.
StageStart(p) ==
  /\ cpc[p] = "start"
  /\ Continue(p, CloseAll(fdtab[p], Backups(ctx[p])), "redirect")
  /\ UNCHANGED <<ctx, env>>

\* process_redirect opens and closes each file of the command in turn.
RedirectsPass(p) ==
  /\ cpc[p] = "redirect"
  /\ FileIn(p) \/ FileOut(p) => FreeFds(fdtab[p]) # {}
  /\ Continue(p, fdtab[p], "input")
  /\ UNCHANGED <<ctx, env>>

RedirectFails(p) ==
  /\ cpc[p] = "redirect"
  /\ FileIn(p) \/ FileOut(p)
  /\ Die(p, 1)

InputKept(p) ==
  /\ cpc[p] = "input" /\ cmd[p].in = "pipe" /\ ctx[p].prev = NoFd
  /\ Continue(p, fdtab[p], "output")
  /\ UNCHANGED <<ctx, env>>

\* setup_pipe_input returns 0 when dup fails, too.
InputFromPipe(p) ==
  /\ cpc[p] = "input" /\ cmd[p].in = "pipe" /\ ctx[p].prev # NoFd
  /\ \E b \in {Dup(fdtab[p], 0)} :
         Continue(p, IF b.fd # NoFd
                     THEN CloseAll(Dup2(b.tab, ctx[p].prev, 0), {ctx[p].prev})
                     ELSE CloseAll(fdtab[p], PipesOf(p)),
                  "output")
  /\ ForgetPrev(p) /\ UNCHANGED env

\* handle_input_redirect; the pipe end stays open beside the file.
InputFromRedirect(p) ==
  /\ cpc[p] = "input" /\ cmd[p].in # "pipe"
  /\ \E b \in {Dup(fdtab[p], 0)} :
       \E f \in {IF FileIn(p) THEN Alloc(b.tab, File(p))
                              ELSE [fd |-> fd_in[p], tab |-> b.tab]} :
         /\ b.fd # NoFd /\ f.fd # NoFd
         /\ Continue(p, CloseAll(Dup2(f.tab, f.fd, 0), {f.fd}), "output")
  /\ UNCHANGED <<ctx, env>>

\* The file cannot be opened any more, or there is no descriptor: the error is
\* recorded, the pipe is closed, and the stage goes on all the same.
InputRedirectFails(p) ==
  /\ cpc[p] = "input" /\ cmd[p].in # "pipe"
  /\ FileIn(p) \/ FreeFds(fdtab[p]) = {}
  /\ Continue(p, CloseAll(fdtab[p], PipesOf(p)), "output")
  /\ ForgetPrev(p) /\ ChildFails(p)

\* The ends closed before they are used.
FaultAfterPipe(p) ==
  IF HasNext(p)
  THEN Dup2(CloseAll(fdtab[p], {ctx[p].p0, ctx[p].p1}), ctx[p].p1, 1)
  ELSE fdtab[p]

\* setup_pipe_output up to the pipe: stdout becomes the write end, and both
\* ends are closed.  A dup2 that fails closes the backup as well.
AfterPipe(p) ==
  LET b == Dup(fdtab[p], 1)
      ends == {ctx[p].p0, ctx[p].p1}
  IN  IF ~HasNext(p)
      THEN fdtab[p]
      ELSE IF IsOpen(b.tab, ctx[p].p1)
           THEN CloseAll(Dup2(b.tab, ctx[p].p1, 1), ends)
           ELSE CloseAll(b.tab, ends \cup {b.fd})

OutputDupFails(p) ==
  /\ cpc[p] = "output" /\ HasNext(p) /\ FreeFds(fdtab[p]) = {}
  /\ Die(p, env[p].exit_status)

CanSetOutput(p) ==
  cpc[p] = "output" /\ (HasNext(p) => FreeFds(fdtab[p]) # {})

OutputReady(p) ==
  /\ CanSetOutput(p) /\ ~FileOut(p)
  /\ Continue(p, AfterPipe(p), "exec")
  /\ UNCHANGED <<ctx, env>>

\* handle_output_redirect after the pipe.
OutputToFile(p) ==
  /\ CanSetOutput(p) /\ FileOut(p)
  /\ \E t \in {AfterPipe(p)} : \E b \in {Dup(t, 1)} :
       \E f \in {Alloc(b.tab, File(p))} :
         /\ b.fd # NoFd /\ f.fd # NoFd
         /\ Continue(p, CloseAll(Dup2(f.tab, f.fd, 1), {f.fd}), "exec")
  /\ UNCHANGED <<ctx, env>>

\* Its failure is recorded and the command runs with the output it has.
OutputFileFails(p) ==
  /\ CanSetOutput(p) /\ FileOut(p)
  /\ Continue(p, AfterPipe(p), "exec")
  /\ ChildFails(p) /\ UNCHANGED ctx

\* execute_external: no such command, or one that cannot be executed.
NotFound(p) ==
  /\ cpc[p] = "exec" /\ cmd[p].prog \in External
  /\ \E c \in {126, 127} : Die(p, ExitStatus(env[p], c).exit_status)

Exec(p) ==
  /\ cpc[p] = "exec" /\ cmd[p].prog # "empty"
  /\ Continue(p, fdtab[p], IF cmd[p].prog \in {"cat", "head"} THEN "read"
                                                             ELSE "write")
  /\ UNCHANGED <<ctx, env>>

\* execute_cmd passes args[0] to is_builtin, which reads through it.
NoWord(p) ==
  /\ cpc[p] = "exec" /\ cmd[p].prog = "empty"
  /\ Die(p, Signalled)

-----------------------------------------------------------------------------
(* The programs: what is read and written is the number of items in pipes;  *)
(* the terminal and the files have no content.                             *)

Reads(p, q)  == cpc[p] = "read" /\ fdtab[p][0] = Rd(q)
Writes(p, q) == cpc[p] = "write" /\ fdtab[p][1] = Wr(q)

Transfer(p, q, n, pc) ==
  /\ buf' = [buf EXCEPT ![q] = n]
  /\ Moves(p, fdtab[p], pc)
  /\ UNCHANGED <<ctx, env, code>>

Read(p, q) == Reads(p, q) /\ buf[q] > 0 /\ Transfer(p, q, buf[q] - 1, "write")

\* A read returns 0 once the pipe is empty and no process can write to it.
EndOfInput(p) ==
  /\ cpc[p] = "read"
  /\ \A q \in Stage : Reads(p, q) => buf[q] = 0 /\ ~Held(Wr(q))
  /\ \E c \in {0, 1} : Die(p, c)

AfterWrite(p) == CASE cmd[p].prog = "yes" -> "write"
                   [] cmd[p].prog = "cat" -> "read"
                   [] OTHER -> "finish"

\* write() blocks while the pipe is full and somebody can read it.
Write(p, q) ==
  /\ Writes(p, q) /\ Held(Rd(q)) /\ buf[q] < Capacity
  /\ Transfer(p, q, buf[q] + 1, AfterWrite(p))

WriteElsewhere(p) ==
  /\ cpc[p] = "write" /\ \A q \in Stage : ~Writes(p, q)
  /\ Continue(p, fdtab[p], AfterWrite(p))
  /\ UNCHANGED <<ctx, env>>

\* SIGPIPE is ignored, across execve too: write() returns EPIPE, programs
\* report it and fail, builtins do not look at the result.
BrokenPipe(p, q) ==
  /\ Writes(p, q) /\ ~Held(Rd(q))
  /\ \/ cmd[p].prog \in External /\ Die(p, 1)
     \/ /\ cmd[p].prog \notin External
        /\ Continue(p, fdtab[p], "finish") /\ UNCHANGED <<ctx, env>>

\* A builtin leaves its status in t_env, and one that succeeds leaves none:
\* the child exits with whatever status it inherited.
FinalCode(p) == CASE cmd[p].prog = "builtin" -> env[p].exit_status
                  [] cmd[p].prog = "failing" -> ExitStatus(env[p], 1).exit_status
                  [] OTHER -> 0

Finish(p) == cpc[p] = "finish" /\ Die(p, FinalCode(p))

StageStep(p) ==
  \/ StageStart(p) \/ RedirectsPass(p) \/ RedirectFails(p)
  \/ InputKept(p) \/ InputFromPipe(p)
  \/ InputFromRedirect(p) \/ InputRedirectFails(p)
  \/ OutputDupFails(p) \/ OutputReady(p) \/ OutputToFile(p) \/ OutputFileFails(p)
  \/ NotFound(p) \/ Exec(p) \/ NoWord(p)
  \/ EndOfInput(p) \/ WriteElsewhere(p) \/ Finish(p)
  \/ \E q \in Stage : Read(p, q) \/ Write(p, q) \/ BrokenPipe(p, q)

-----------------------------------------------------------------------------
\* Ctrl-C reaches the whole foreground process group: the shell ignores it, and
\* so do the children that have not yet reset the action.
Interruptible == {p \in Stage : Launched(p) /\ ~Exited(p) /\ cpc[p] # "start"}

Interrupt ==
  /\ spc \notin {"setup", "done"} /\ interrupts < MaxInterrupts
  /\ Interruptible # {}
  /\ fdtab' = [p \in Proc |-> IF p \in Interruptible THEN AllClosed ELSE fdtab[p]]
  /\ cpc' = [p \in Stage |-> IF p \in Interruptible THEN "zombie" ELSE cpc[p]]
  /\ code' = [p \in Stage |-> IF p \in Interruptible THEN Signalled ELSE code[p]]
  /\ interrupts' = interrupts + 1
  /\ UNCHANGED <<cmd, fd_in, ctx, env, shellVars, buf>>

\* The command line is over; what a requested exit left behind has exited too.
Over ==
  /\ spc = "done" /\ \A p \in Stage : Launched(p) => Exited(p)
  /\ UNCHANGED vars

Next == ShellStep \/ (\E p \in Stage : StageStep(p)) \/ Interrupt \/ Over

\* The kernel schedules every process that can run; a blocked read or write is
\* a disabled step.  The user ends the input that is read from the terminal.
Fairness == WF_vars(ShellStep) /\ \A p \in Stage : WF_vars(StageStep(p))

Spec == Init /\ [][Next]_vars /\ Fairness

=============================================================================
