--------------------------- MODULE ShellProperties ---------------------------
(***************************************************************************)
(* What the command-line loop promises, whenever the signals arrive.       *)
(***************************************************************************)
EXTENDS Shell

(***************************************************************************)
(* Types of all variables.                                                 *)
(***************************************************************************)
Reading == {"prompt", "readline", "accept", "parse"}
HeredocPc == {"heredocs", "hd_signals", "hd_clear", "hd_loop", "hd_read",
              "hd_line", "hd_close", "hd_restore", "hd_failed"}
Running == {"run", "wait", "pipeline", "pipeline_end"}
Ended   == {"finish", "zero", "reset"}

TypeOK ==
  /\ pc \in Reading \cup HeredocPc \cup Running \cup Ended \cup {"gone", "aborted"}
  /\ line \in Line /\ lines \in 0 .. MaxLines
  /\ heredoc \in Nat /\ entered \in {"text", "end"}
  /\ env \in Env
  /\ at_prompt \in BOOLEAN /\ exit_requested \in BOOLEAN
  /\ heredoc_interrupted \in BOOLEAN
  /\ action \in Action /\ saved \in Action
  /\ child \in [pc : {"none", "young", "running", "zombie"}, env : Env]
  /\ status \in Codes \cup {Signalled}
  /\ eintr \in BOOLEAN
  /\ injected \in Nat /\ faults \in 0 .. MaxFaults /\ signals \in 0 .. MaxSignals
  /\ quiet \in BOOLEAN /\ cancelled \in BOOLEAN

(***************************************************************************)
(* $? is what the line made it: neither a status left from an earlier line, *)
(* nor one a handler reported, provided that no signal came before the     *)
(* command ran, and no Ctrl-\ while it did.                                *)
(***************************************************************************)
Expected ==
  CASE line.kind \in {"blank", "noword", "builtin"} -> {0}
    [] line.kind \in {"badfile", "failing"} -> {1}
    [] line.kind = "syntax" -> {2}
    [] line.kind = "exitargs" -> {1, 2}
    [] line.kind = "missing" -> {126, 127}
    [] line.kind \in {"endless", "exitpipe"} -> Codes
    [] OTHER -> {line.code}

\* A program that a signal killed leaves 0.
StatusOfLine ==
  pc = "reset" /\ quiet /\ action = Prompting =>
    \/ env.exit_status \in Expected
    \/ line.kind \in {"program", "endless", "pipeline"} /\ status = Signalled
         /\ env.exit_status = 0

(***************************************************************************)
(* The handlers of the prompt are in place whenever the shell waits for a  *)
(* line, after whatever pipelines and interrupted heredocs (as long as no  *)
(* call has failed).                                                       *)
(***************************************************************************)
PromptReady ==
  pc = "readline" /\ faults = 0 => at_prompt /\ action = Prompting

(***************************************************************************)
(* A signal that interrupts wait() does not make the shell lose its child: *)
(* at the end of the line there is none, and while the shell waits there   *)
(* is one to wait for.                                                     *)
(***************************************************************************)
ChildAwaited == pc = "wait" <=> child.pc # "none"

(***************************************************************************)
(* Handlers that redraw the prompt are never at work while a child or a    *)
(* heredoc has the terminal.                                               *)
(***************************************************************************)
TerminalOwned ==
  pc \in HeredocPc \cup {"run", "wait", "pipeline"} => ~at_prompt

(***************************************************************************)
(* A line with a heredoc that was interrupted while it was read does not   *)
(* run.                                                                    *)
(***************************************************************************)
InterruptedHeredocNeverRuns == pc \in Running => ~cancelled

(***************************************************************************)
(* Ctrl-C in a heredoc brings the prompt back without another key.         *)
(***************************************************************************)
InterruptReturnsToPrompt ==
  (pc = "hd_read" /\ heredoc_interrupted) ~> pc = "readline"

(***************************************************************************)
(* The shell comes back from every program that ends.                      *)
(***************************************************************************)
CommandsComeBack ==
  (pc = "run" /\ line.kind # "endless") ~> pc \in {"readline", "gone", "aborted"}

=============================================================================
