-------------------------------- MODULE Shell --------------------------------
(***************************************************************************)
(* The command-line loop (src/main): a line is read, its heredocs are read *)
(* from the terminal, it is run, and its status is kept for $?.  Between   *)
(* any two steps Ctrl-C or Ctrl-\ may arrive; which handler then runs      *)
(* depends on what was installed last (src/signal), and all handlers write *)
(* the fields of t_env the loop is using.                                  *)
(*                                                                         *)
(* A pipeline is one step here: Pipeline has its detail.                   *)
(***************************************************************************)
EXTENDS StatusLatch

CONSTANTS
  Lines,       \* the lines a user may type
  MaxLines,    \* bound on the lines read in a session
  MaxSignals,  \* bound on the Ctrl-C and Ctrl-\ typed in a session
  MaxFaults    \* bound on the calls of open and fork that fail

(***************************************************************************)
(* A line is the number of its heredocs, what it runs, and the code that   *)
(* the program, the last command of the pipeline, or exit is given.        *)
(*   blank, syntax   nothing to run; rejected by parse_tokens              *)
(*   noword          only redirections: "> f"                              *)
(*   badfile         a redirection that fails                              *)
(*   builtin, failing, exit, exitargs  builtins, as in Pipeline            *)
(*   program, endless, missing  external: ends by itself, only by a        *)
(*                   signal, cannot be executed                            *)
(*   pipeline, exitpipe  two commands or more, without and with an exit    *)
(***************************************************************************)
Kind == {"blank", "syntax", "noword", "badfile", "builtin", "failing", "exit",
         "exitargs", "program", "endless", "missing", "pipeline", "exitpipe"}
Line == [kind : Kind \cup {"eof"}, code : Codes, heredocs : Nat]

Blank == [kind |-> "blank", code |-> 0, heredocs |-> 0]
Eof   == [kind |-> "eof", code |-> 0, heredocs |-> 0]

ASSUME ShellAssumption ==
  /\ {130, 131} \subseteq Codes
  /\ Lines \subseteq Line
  /\ MaxLines \in Nat /\ MaxSignals \in Nat /\ MaxFaults \in Nat

Signalled == -1  \* wait status of a child that a signal killed

External  == {"program", "endless", "missing"}
Pipelined == {"pipeline", "exitpipe"}

VARIABLES
  pc,             \* where the shell is
  line, lines,    \* the line being processed, how many have been read
  heredoc,        \* the heredoc being read, counted from 1
  entered,        \* what readline returned in a heredoc: "text" or "end"
  env,            \* exit_status and the latch
  at_prompt, exit_requested, heredoc_interrupted,
  action,         \* what the shell does on SIGINT and on SIGQUIT
  saved,          \* the actions a pipeline saved
  child,          \* the process forked for an external command
  status,         \* what wait left in the local variable status
  eintr,          \* wait() has been interrupted by a handler
  injected,       \* newlines TIOCSTI has put in the terminal's input
  faults, signals,
  quiet,          \* no signal or fault has touched this line, see Disturb
  cancelled       \* Ctrl-C was typed into a heredoc of this line

signalVars == <<action, saved, injected, signals>>
childVars  == <<child, status, eintr>>
flagVars   == <<at_prompt, exit_requested, heredoc_interrupted>>
vars == <<pc, line, lines, heredoc, entered, env, flagVars, signalVars, childVars,
          faults, quiet, cancelled>>

Prompting == [int |-> "prompt", quit |-> "prompt"]      \* setup_signal
InHeredoc == [int |-> "heredoc", quit |-> "ignore"]     \* setup_heredoc_signals
Ignoring  == [int |-> "ignore", quit |-> "ignore"]      \* in a pipeline
Action    == {Prompting, InHeredoc, Ignoring}

NoChild == [pc |-> "none", env |-> FreshEnv]

Init ==
  /\ pc = "reset" /\ line = Blank /\ lines = 0 /\ heredoc = 1 /\ entered = "end"
  /\ env = FreshEnv
  /\ at_prompt = FALSE /\ exit_requested = FALSE /\ heredoc_interrupted = FALSE
  /\ action = Prompting /\ saved = Prompting
  /\ child = NoChild /\ status = 0 /\ eintr = FALSE
  /\ injected = 0 /\ faults = 0 /\ signals = 0
  /\ quiet = TRUE /\ cancelled = FALSE

Report(c) == env' = ExitStatus(env, c)

\* A call the system refuses.
Fault == faults < MaxFaults /\ faults' = faults + 1 /\ quiet' = FALSE

-----------------------------------------------------------------------------
(* The loop *)

\* The latch is left as it is.
FaultReset ==
  /\ pc = "reset"
  /\ pc' = "prompt"
  /\ quiet' = TRUE /\ cancelled' = FALSE
  /\ UNCHANGED <<line, lines, heredoc, entered, env, flagVars, signalVars,
                 childVars, faults>>

Reset ==
  /\ pc = "reset"
  /\ env' = [env EXCEPT !.exit = FALSE]
  /\ pc' = "prompt"
  /\ quiet' = TRUE /\ cancelled' = FALSE
  /\ UNCHANGED <<line, lines, heredoc, entered, flagVars, signalVars, childVars,
                 faults>>

Prompt ==
  /\ pc = "prompt"
  /\ at_prompt' = TRUE
  /\ pc' = "readline"
  /\ UNCHANGED <<line, lines, heredoc, entered, env, exit_requested,
                 heredoc_interrupted, signalVars, childVars, faults, quiet,
                 cancelled>>

\* readline returns what the user types, or a newline that was put in the
\* terminal's input before.
ReadLine ==
  /\ pc = "readline" /\ lines < MaxLines /\ injected = 0
  /\ line' \in Lines \cup {Eof}
  /\ lines' = lines + 1 /\ pc' = "accept"
  /\ UNCHANGED <<heredoc, entered, env, flagVars, signalVars, childVars, faults,
                 quiet, cancelled>>

ReadInjected ==
  /\ pc = "readline" /\ injected > 0
  /\ line' = Blank /\ injected' = injected - 1 /\ pc' = "accept"
  /\ UNCHANGED <<lines, heredoc, entered, env, flagVars, action, saved, signals,
                 childVars, faults, quiet, cancelled>>

\* at_prompt is left as it is.
FaultAccept ==
  /\ pc = "accept"
  /\ pc' = CASE line.kind = "eof" -> "gone"
             [] line.kind = "blank" -> "finish"
             [] OTHER -> "parse"
  /\ UNCHANGED <<line, lines, heredoc, entered, env, flagVars, signalVars,
                 childVars, faults, quiet, cancelled>>

\* NULL leaves the loop.
Accept ==
  /\ pc = "accept"
  /\ at_prompt' = FALSE
  /\ pc' = CASE line.kind = "eof" -> "gone"
             [] line.kind = "blank" -> "finish"
             [] OTHER -> "parse"
  /\ UNCHANGED <<line, lines, heredoc, entered, env, exit_requested,
                 heredoc_interrupted, signalVars, childVars, faults, quiet,
                 cancelled>>

\* process_command_line and parse_tokens.
Parse ==
  /\ pc = "parse"
  /\ \/ /\ line.kind = "syntax"
        /\ Report(2) /\ pc' = "finish"
        /\ UNCHANGED <<heredoc, heredoc_interrupted>>
     \/ /\ line.kind # "syntax"
        /\ heredoc_interrupted' = FALSE /\ heredoc' = 1 /\ pc' = "heredocs"
        /\ UNCHANGED env
  /\ UNCHANGED <<line, lines, entered, at_prompt, exit_requested, signalVars,
                 childVars, faults, quiet, cancelled>>

Finish ==
  /\ pc = "finish"
  /\ pc' = IF exit_requested THEN "gone" ELSE IF env.exit THEN "reset" ELSE "zero"
  /\ UNCHANGED <<line, lines, heredoc, entered, env, flagVars, signalVars,
                 childVars, faults, quiet, cancelled>>

\* A line that reported nothing has succeeded.
Zero ==
  /\ pc = "zero"
  /\ env' = [env EXCEPT !.exit_status = 0]
  /\ pc' = "reset"
  /\ UNCHANGED <<line, lines, heredoc, entered, flagVars, signalVars, childVars,
                 faults, quiet, cancelled>>

LoopStep == Reset \/ Prompt \/ ReadInjected \/ Accept \/ Parse \/ Finish \/ Zero

-----------------------------------------------------------------------------
(* The heredocs of the line, one after the other (process_heredocs) *)

HeredocMoves(next) ==
  /\ pc' = next
  /\ UNCHANGED <<line, lines, at_prompt, exit_requested, saved, signals,
                 childVars, cancelled>>

\* The test of heredoc_interrupted left out.
FaultHeredocsDone ==
  /\ pc = "heredocs" /\ heredoc > line.heredocs
  /\ HeredocMoves("run")
  /\ UNCHANGED <<heredoc, entered, env, heredoc_interrupted, action, injected,
                 faults, quiet>>

\* process_tokens_and_execute runs the line unless a heredoc was interrupted.
HeredocsDone ==
  /\ pc = "heredocs" /\ heredoc > line.heredocs
  /\ HeredocMoves(IF heredoc_interrupted THEN "finish" ELSE "run")
  /\ UNCHANGED <<heredoc, entered, env, heredoc_interrupted, action, injected,
                 faults, quiet>>

\* The flag is cleared, and the temporary file created.
HeredocOpen ==
  /\ pc = "heredocs" /\ heredoc <= line.heredocs
  /\ heredoc_interrupted' = FALSE
  /\ \/ HeredocMoves("hd_signals") /\ UNCHANGED <<env, faults, quiet>>
     \/ HeredocMoves("hd_failed") /\ Report(1) /\ Fault
  /\ UNCHANGED <<heredoc, entered, action, injected>>

SetupHeredocSignals ==
  /\ pc = "hd_signals"
  /\ action' = InHeredoc
  /\ HeredocMoves("hd_clear")
  /\ UNCHANGED <<heredoc, entered, env, heredoc_interrupted, injected, faults, quiet>>

\* handle_heredoc clears the flag again.
HeredocClear ==
  /\ pc = "hd_clear"
  /\ heredoc_interrupted' = FALSE
  /\ HeredocMoves("hd_loop")
  /\ UNCHANGED <<heredoc, entered, env, action, injected, faults, quiet>>

HeredocLoop ==
  /\ pc = "hd_loop"
  /\ HeredocMoves(IF heredoc_interrupted THEN "hd_close" ELSE "hd_read")
  /\ UNCHANGED <<heredoc, entered, env, heredoc_interrupted, action, injected,
                 faults, quiet>>

\* A line of text, or the delimiter or the end of the input.
HeredocType ==
  /\ pc = "hd_read" /\ injected = 0
  /\ entered' \in {"text", "end"}
  /\ HeredocMoves("hd_line")
  /\ UNCHANGED <<heredoc, env, heredoc_interrupted, action, injected, faults, quiet>>

HeredocInjected ==
  /\ pc = "hd_read" /\ injected > 0
  /\ entered' = "text" /\ injected' = injected - 1
  /\ HeredocMoves("hd_line")
  /\ UNCHANGED <<heredoc, env, heredoc_interrupted, action, faults, quiet>>

\* The line is written to the file only if no interrupt came with it.
ProcessHeredocLine ==
  /\ pc = "hd_line"
  /\ HeredocMoves(IF heredoc_interrupted \/ entered = "end" THEN "hd_close"
                                                            ELSE "hd_loop")
  /\ UNCHANGED <<heredoc, entered, env, heredoc_interrupted, action, injected,
                 faults, quiet>>

\* cleanup_heredoc reads the flag once, and opens the file again.
CleanupHeredoc ==
  /\ pc = "hd_close"
  /\ \/ /\ heredoc_interrupted
        /\ HeredocMoves("hd_failed") /\ UNCHANGED <<env, faults, quiet>>
     \/ /\ ~heredoc_interrupted
        /\ HeredocMoves("hd_restore") /\ UNCHANGED <<env, faults, quiet>>
     \/ /\ ~heredoc_interrupted
        /\ HeredocMoves("hd_failed") /\ Report(1) /\ Fault
  /\ UNCHANGED <<heredoc, entered, heredoc_interrupted, action, injected>>

\* The handlers of the heredoc stay installed.
FaultHeredocRestore ==
  /\ pc = "hd_restore"
  /\ heredoc' = heredoc + 1
  /\ HeredocMoves("heredocs")
  /\ UNCHANGED <<entered, env, heredoc_interrupted, action, injected, faults, quiet>>

HeredocRestore ==
  /\ pc = "hd_restore"
  /\ action' = Prompting
  /\ heredoc' = heredoc + 1
  /\ HeredocMoves("heredocs")
  /\ UNCHANGED <<entered, env, heredoc_interrupted, injected, faults, quiet>>

\* process_heredocs gives up the other heredocs; the handlers are restored
\* only after an interrupt.
HeredocFailed ==
  /\ pc = "hd_failed"
  /\ action' = IF heredoc_interrupted THEN Prompting ELSE action
  /\ heredoc' = line.heredocs + 1
  /\ HeredocMoves("heredocs")
  /\ UNCHANGED <<entered, env, heredoc_interrupted, injected, faults, quiet>>

HeredocStep ==
  \/ HeredocsDone \/ HeredocOpen \/ SetupHeredocSignals \/ HeredocClear
  \/ HeredocLoop \/ HeredocInjected \/ ProcessHeredocLine \/ CleanupHeredoc
  \/ HeredocRestore \/ HeredocFailed

-----------------------------------------------------------------------------
(* Running the line (execute_commands) *)

RunMoves(next) ==
  /\ pc' = next
  /\ UNCHANGED <<line, lines, heredoc, entered, heredoc_interrupted, injected,
                 signals, cancelled>>

\* A command without a word, with a redirection that fails, or a builtin.
RunInShell ==
  /\ pc = "run"
  /\ \/ line.kind \in {"noword", "builtin"} /\ UNCHANGED env
     \/ line.kind \in {"badfile", "failing"} /\ Report(1)
     \/ line.kind = "exit" /\ Report(line.code)
     \/ line.kind = "exitargs" /\ \E c \in {1, 2} : Report(c)
  /\ exit_requested' = (line.kind = "exit")
  /\ RunMoves("finish")
  /\ UNCHANGED <<at_prompt, action, saved, childVars, faults, quiet>>

Fork ==
  /\ pc = "run" /\ line.kind \in External
  /\ child' = [pc |-> "young", env |-> env]
  /\ RunMoves("wait")
  /\ UNCHANGED <<env, at_prompt, exit_requested, action, saved, status, eintr,
                 faults, quiet>>

\* ft_fork ends the shell.
ForkFails ==
  /\ pc = "run" /\ line.kind \in External
  /\ Fault
  /\ RunMoves("aborted")
  /\ UNCHANGED <<env, at_prompt, exit_requested, action, saved, childVars>>

\* The interrupted wait() is not repeated.
FaultWaitAgain ==
  /\ pc = "wait" /\ eintr
  /\ eintr' = FALSE
  /\ RunMoves("finish")
  /\ UNCHANGED <<env, at_prompt, exit_requested, action, saved, child, status,
                 faults, quiet>>

\* ft_wait repeats a wait() that was interrupted.
WaitAgain ==
  /\ pc = "wait" /\ eintr
  /\ eintr' = FALSE
  /\ RunMoves("wait")
  /\ UNCHANGED <<env, at_prompt, exit_requested, action, saved, child, status,
                 faults, quiet>>

\* wait() is repeated until a child has exited normally.
FaultWaitForExit ==
  /\ pc = "wait" /\ ~eintr /\ child.pc = "zombie"
  /\ \/ status = Signalled /\ UNCHANGED vars
     \/ /\ status # Signalled /\ child' = NoChild /\ Report(status)
        /\ RunMoves("finish")
        /\ UNCHANGED <<at_prompt, exit_requested, action, saved, status, eintr,
                       faults, quiet>>

\* The status of a child that a signal killed is not reported.
Wait ==
  /\ pc = "wait" /\ ~eintr /\ child.pc = "zombie"
  /\ child' = NoChild
  /\ IF status = Signalled THEN UNCHANGED env ELSE Report(status)
  /\ RunMoves("finish")
  /\ UNCHANGED <<at_prompt, exit_requested, action, saved, status, eintr, faults,
                 quiet>>

PipelineStart ==
  /\ pc = "run" /\ line.kind \in Pipelined
  /\ saved' = action /\ action' = Ignoring
  /\ at_prompt' = FALSE
  /\ RunMoves("pipeline")
  /\ UNCHANGED <<env, exit_requested, childVars, faults, quiet>>

\* What Pipeline shows: the status reported is that of the last command, if
\* that was forked and no signal killed it; an exit asks the shell to leave.
PipelineEnd ==
  /\ pc = "pipeline"
  /\ \/ /\ line.kind = "exitpipe"
        /\ exit_requested' = TRUE
        /\ UNCHANGED env \/ Report(line.code)
        /\ UNCHANGED <<status, faults, quiet>>
     \/ /\ line.kind = "pipeline"
        /\ status' \in {line.code, Signalled}
        /\ IF status' = Signalled THEN UNCHANGED env ELSE Report(status')
        /\ UNCHANGED <<exit_requested, faults, quiet>>
     \/ /\ Report(1) /\ Fault
        /\ exit_requested' = (line.kind = "exitpipe")
        /\ UNCHANGED status
  /\ action' = saved
  /\ RunMoves("pipeline_end")
  /\ UNCHANGED <<at_prompt, saved, child, eintr>>

\* cleanup_pipeline sets at_prompt when it is done.
PipelinePrompt ==
  /\ pc = "pipeline_end"
  /\ at_prompt' = TRUE
  /\ RunMoves("finish")
  /\ UNCHANGED <<env, exit_requested, action, saved, childVars, faults, quiet>>

RunStep ==
  \/ RunInShell \/ Fork \/ ForkFails \/ WaitAgain \/ Wait
  \/ PipelineStart \/ PipelineEnd \/ PipelinePrompt

-----------------------------------------------------------------------------
(* The child of an external command *)

ChildMoves(next) ==
  /\ child' = [child EXCEPT !.pc = next]
  /\ UNCHANGED <<pc, line, lines, heredoc, entered, env, flagVars, signalVars,
                 eintr, faults, quiet, cancelled>>

Exec ==
  /\ child.pc = "young" /\ line.kind # "missing"
  /\ ChildMoves("running") /\ UNCHANGED status

\* execute_external exits with the status field, whoever has set it.
NotFound ==
  /\ child.pc = "young" /\ line.kind = "missing"
  /\ \E c \in {126, 127} : status' = ExitStatus(child.env, c).exit_status
  /\ ChildMoves("zombie")

ProgramEnds ==
  /\ child.pc = "running" /\ line.kind = "program"
  /\ status' = line.code
  /\ ChildMoves("zombie")

ChildStep == Exec \/ NotFound \/ ProgramEnds

-----------------------------------------------------------------------------
(* Signals: the terminal sends them to the shell and to its child.         *)

\* Once a command runs, Ctrl-C is its own affair.
Disturb(sig) ==
  quiet' = (quiet /\ ( \/ pc = "pipeline"
                       \/ sig = "int" /\ pc \in {"run", "wait", "pipeline_end"}))

\* A program may catch the signal; an ignored one stays ignored after execve.
\* Before that the child still has the handlers of the shell, and e is what its
\* handler makes of its t_env.
ChildGets(disposition, e) ==
  \/ /\ child.pc = "running" /\ disposition # "ignore"
     /\ child' = [child EXCEPT !.pc = "zombie"] /\ status' = Signalled
  \/ /\ child.pc = "running"
     /\ line.kind = "program" \/ disposition = "ignore"
     /\ UNCHANGED <<child, status>>
  \/ /\ child.pc # "running"
     /\ child' = [child EXCEPT !.env = IF child.pc = "young" THEN e ELSE @]
     /\ UNCHANGED status

Handled(disposition) ==
  /\ eintr' = (eintr \/ (pc = "wait" /\ disposition # "ignore"))
  /\ signals < MaxSignals /\ signals' = signals + 1
  /\ UNCHANGED <<pc, line, lines, heredoc, entered, at_prompt, exit_requested,
                 action, saved, faults>>

\* No newline put in the input.
FaultNewlines == 0

\* heredoc_sigint_handler makes readline return; a child that has not called
\* execve yet does so as well.
Newlines == IF child.pc = "young" THEN 2 ELSE 1

\* Ctrl-C
Sigint ==
  /\ pc \notin {"gone", "aborted"}
  /\ Handled(action.int)
  /\ Disturb("int")
  /\ CASE action.int = "prompt" ->
            /\ IF at_prompt THEN Report(130) ELSE UNCHANGED env
            /\ ChildGets("prompt", child.env)
            /\ UNCHANGED <<heredoc_interrupted, injected, cancelled>>
       [] action.int = "heredoc" ->
            /\ heredoc_interrupted' = TRUE /\ injected' = injected + Newlines
            /\ Report(130)
            /\ ChildGets("heredoc", ExitStatus(child.env, 130))
            /\ cancelled' = (cancelled \/ pc = "hd_read")
       [] action.int = "ignore" ->
            UNCHANGED <<env, child, status, heredoc_interrupted, injected, cancelled>>

\* Ctrl-\
Sigquit ==
  /\ pc \notin {"gone", "aborted"}
  /\ Handled(action.quit)
  /\ Disturb("quit")
  /\ CASE action.quit = "prompt" ->
            /\ Report(IF at_prompt THEN 0 ELSE 131)
            /\ ChildGets("prompt", ExitStatus(child.env, 131))
       [] action.quit = "ignore" ->
            UNCHANGED env /\ ChildGets("ignore", child.env)
  /\ UNCHANGED <<heredoc_interrupted, injected, cancelled>>

\* The session is over, or the shell waits for the user, or for a program that
\* only the user can end.
Idle ==
  /\ \/ pc \in {"gone", "aborted"}
     \/ pc \in {"readline", "hd_read"} /\ injected = 0
     \/ child.pc = "running" /\ line.kind = "endless"
  /\ UNCHANGED vars

ShellStep == LoopStep \/ HeredocStep \/ RunStep

Next ==
  \/ ShellStep \/ ChildStep \/ ReadLine \/ HeredocType
  \/ Sigint \/ Sigquit \/ Idle

\* The kernel schedules the shell and its child; nobody is obliged to type.
Fairness == WF_vars(ShellStep) /\ WF_vars(ChildStep)

Spec == Init /\ [][Next]_vars /\ Fairness

=============================================================================
