------------------------- MODULE PipelineProperties -------------------------
(***************************************************************************)
(* What execute_pipeline promises: every stage sees the end of its input   *)
(* and a broken pipe when it should, the shell keeps its descriptors, every *)
(* child is waited for, and the status is that of the last command.        *)
(***************************************************************************)
EXTENDS Pipeline

J == INSTANCE Job WITH
       phase    <- CASE spc = "done" -> "over"
                     [] spc \in {"wait", "return", "cleanup"} -> "waiting"
                     [] OTHER -> "launching",
       leaving  <- exit_requested,
       launched <- {p \in Stage : Launched(p)},
       exited   <- {p \in Stage : Exited(p)},
       reaped   <- {p \in Stage : cpc[p] = "reaped"}

(***************************************************************************)
(* Types of all variables.                                                 *)
(***************************************************************************)
ShellPc == {"setup", "launch", "fork", "parent", "cleanup", "wait", "return",
            "done"}
Setting == {"start", "redirect", "input", "output"}
ChildPc == {"none", "exec", "read", "write", "finish", "zombie", "reaped"}
             \cup Setting

TypeOK ==
  /\ cmd \in Pipelines
  /\ fd_in \in [Stage -> Nat]
  /\ fdtab \in [Proc -> [Fd -> Object \cup {Closed}]]
  /\ ctx \in [Proc -> Ctx]
  /\ env \in [Proc -> Env]
  /\ exit_requested \in BOOLEAN
  /\ pids \in Seq(Stage) /\ last_pid \in Stage \cup {NoPid}
  /\ spc \in ShellPc /\ cur \in 1 .. N + 1
  /\ waited \in Nat /\ released \in Nat
  /\ cpc \in [Stage -> ChildPc]
  /\ code \in [Stage -> Codes \cup {Signalled}]
  /\ buf \in [Stage -> 0 .. Capacity]
  /\ interrupts \in 0 .. MaxInterrupts

(***************************************************************************)
(* The write end of a pipe is open only in the command before it, and in   *)
(* the shell between pipe() and execute_parent_process.  One more copy     *)
(* anywhere and the reader never sees the end of its input.                *)
(***************************************************************************)
WriteEndsConfined ==
  \A q \in Stage, p \in Proc :
    Holds(p, Wr(q)) =>
      p = q \/ (p = Shell /\ cur = q /\ spc \in {"fork", "parent"})

(***************************************************************************)
(* The read end is open only in the command after the pipe, in the command *)
(* before it until that has wired its output, and in the shell until it    *)
(* has forked the reader.  One more copy and a writer whose reader is gone *)
(* blocks for ever instead of failing with EPIPE.                          *)
(***************************************************************************)
ReadEndsConfined ==
  \A q \in Stage, p \in Proc :
    Holds(p, Rd(q)) =>
      \/ p = q + 1
      \/ p = q /\ cpc[q] \in Setting
      \/ /\ p = Shell
         /\ \/ cur = q /\ spc \in {"fork", "parent"}
            \/ cur = q + 1 /\ spc \in {"launch", "fork", "parent", "cleanup"}

(***************************************************************************)
(* cleanup_pipeline leaves the shell the descriptors it had on entry; an   *)
(* exit as the last command closes 3..9.                                   *)
(***************************************************************************)
DescriptorsBalanced ==
  spc \in {"wait", "return", "done"} =>
    fdtab[Shell] = IF exit_requested /\ cur = N
                   THEN CloseAll(EntryTable, ExitCloses)
                   ELSE EntryTable

(***************************************************************************)
(* The numbers left in pipefd after a close are closed again later.  None  *)
(* of those closes hits the heredoc a stage still has to read.             *)
(***************************************************************************)
HeredocReachesStage ==
  \A p \in Stage : cmd[p].in = "heredoc" =>
    /\ spc # "done" /\ ~exit_requested => fdtab[Shell][fd_in[p]] = File(p)
    /\ cpc[p] \in {"start", "redirect", "input"} => fdtab[p][fd_in[p]] = File(p)

(***************************************************************************)
(* A stage runs with its neighbours' pipes on its standard descriptors     *)
(* (when descriptors do not run out).  One that redirects its input from a *)
(* file never gets a neighbour's pipe instead: where the file could not be *)
(* opened after all, the error is dropped and it reads the terminal.       *)
(***************************************************************************)
Wired ==
  \A p \in Stage : cpc[p] \in {"exec", "read", "write"} =>
    /\ cmd[p].in = "heredoc" => fdtab[p][0] = File(p)
    /\ cmd[p].in = "file" => fdtab[p][0] \in {File(p), Tty}
    /\ cmd[p].in = "pipe" /\ p > 1 =>
         fdtab[p][0] = IF Launched(p - 1) THEN Rd(p - 1) ELSE Tty
    /\ cmd[p].in # "file" /\ cmd[p].out = "pipe" =>
         fdtab[p][1] = IF HasNext(p) THEN Wr(p) ELSE Tty

(***************************************************************************)
(* free_cmds is called once on the command list, on every path.            *)
(***************************************************************************)
ReleasedOnce == released = IF spc = "done" THEN 1 ELSE 0

(***************************************************************************)
(* When every command was forked and no status was pending on entry, the   *)
(* status is the exit code of the last command, whatever the order in which *)
(* the children end.                                                       *)
(***************************************************************************)
StatusOfLast ==
  ~env[Shell].exit =>
    [](spc = "done" /\ Len(pids) = N /\ code[N] # Signalled =>
         env[Shell].exit_status = code[N])

(***************************************************************************)
(* Only a requested exit leaves children behind: see Job.                  *)
(***************************************************************************)
JobSpec == J!Spec

(***************************************************************************)
(* ft_pwd.c:15-18: a builtin that succeeds is documented to return 0, so a *)
(* stage that runs one exits with 0.                                       *)
(***************************************************************************)
SuccessfulBuiltinExitsZero ==
  [][\A p \in Stage : cpc[p] = "finish" /\ cmd[p].prog = "builtin"
                        /\ cpc'[p] = "zombie" => code'[p] \in {0, Signalled}]_vars

(***************************************************************************)
(* A pipeline without a program that writes for ever comes to its end.     *)
(***************************************************************************)
EofPropagates ==
  (\A p \in Stage : cmd[p].prog # "yes") => <>(spc = "done")

(***************************************************************************)
(* A command that writes to a reader that is gone exits in turn.           *)
(***************************************************************************)
BrokenPipePropagates ==
  \A p \in Stage :
    (HasNext(p) /\ Writes(p, p) /\ Exited(p + 1)) ~> Exited(p)

=============================================================================
