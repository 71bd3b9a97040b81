---------------------------- MODULE ShellProofs ----------------------------
(***************************************************************************)
(* Proofs about the command-line loop, for every set of lines, every set   *)
(* of exit codes and any number of lines, signals and faults.              *)
(***************************************************************************)
EXTENDS ShellProperties, TLAPS

LEMMA ExitStatusType ==
  ASSUME NEW e \in Env, NEW c \in Codes
  PROVE  ExitStatus(e, c) \in Env
BY DEF ExitStatus, Env

LEMMA CodesPresent == {0, 1, 2, 126, 127, 130, 131} \subseteq Codes
BY CodesAssumption, ShellAssumption

LEMMA SpecialLines == Blank \in Line /\ Eof \in Line /\ Lines \subseteq Line
BY ShellAssumption, CodesPresent DEF Blank, Eof, Line, Kind

LEMMA FreshTypes == FreshEnv \in Env
BY CodesPresent DEF FreshEnv, Env

-----------------------------------------------------------------------------
(* Types *)

LEMMA InitType == Init => TypeOK
<1> SUFFICES ASSUME Init PROVE TypeOK
  OBVIOUS
<1>1. line \in Line /\ env \in Env /\ status \in Codes
  BY SpecialLines, FreshTypes, CodesPresent DEF Init
<1>2. child \in [pc : {"none", "young", "running", "zombie"}, env : Env]
  BY FreshTypes DEF Init, NoChild
<1>3. lines \in 0 .. MaxLines /\ faults \in 0 .. MaxFaults /\ signals \in 0 .. MaxSignals
  BY ShellAssumption DEF Init
<1> QED
  BY <1>1, <1>2, <1>3 DEF Init, TypeOK, Ended, Action

LEMMA ReportTypes ==
  ASSUME TypeOK
  PROVE  /\ \A c \in Codes : Report(c) => env' \in Env
         /\ Report(0) \/ Report(1) \/ Report(2) \/ Report(130) \/ Report(131)
              => env' \in Env
BY ExitStatusType, CodesPresent DEF TypeOK, Report

LEMMA LoopTypes ==
  ASSUME TypeOK, LoopStep \/ ReadLine
  PROVE  TypeOK'
<1> USE DEF TypeOK, flagVars, signalVars, childVars
<1>1. CASE Reset
  BY <1>1 DEF Reset, Reading, Env
<1>2. CASE Prompt
  BY <1>2 DEF Prompt, Reading
<1>3. CASE ReadInjected
  BY <1>3, SpecialLines DEF ReadInjected, Reading
<1>4. CASE Accept
  <2>1. pc' \in {"gone", "finish", "parse"}
    BY <1>4 DEF Accept
  <2> QED
    BY <1>4, <2>1 DEF Accept, Reading, Ended
<1>5. CASE Parse
  <2>1. env' \in Env
    BY <1>5, ReportTypes DEF Parse
  <2>2. heredoc_interrupted' \in BOOLEAN
    BY <1>5 DEF Parse
  <2>3. pc' \in HeredocPc \cup Ended /\ heredoc' \in Nat
    BY <1>5 DEF Parse, HeredocPc, Ended
  <2> QED
    BY <1>5, <2>1, <2>2, <2>3 DEF Parse
<1>6. CASE Finish
  BY <1>6 DEF Finish, Ended
<1>7. CASE Zero
  BY <1>7, CodesPresent DEF Zero, Ended, Env
<1>8. CASE ReadLine
  BY <1>8, SpecialLines, ShellAssumption DEF ReadLine, Reading
<1> QED
  BY <1>1, <1>2, <1>3, <1>4, <1>5, <1>6, <1>7, <1>8 DEF LoopStep

LEMMA FaultTypes ==
  ASSUME TypeOK, Fault
  PROVE  faults' \in 0 .. MaxFaults /\ quiet' = FALSE
BY ShellAssumption DEF TypeOK, Fault

LEMMA HeredocTypes ==
  ASSUME TypeOK, HeredocStep \/ HeredocType
  PROVE  TypeOK'
<1> USE DEF TypeOK, flagVars, signalVars, childVars, HeredocMoves, HeredocPc
<1>1. CASE HeredocsDone
  BY <1>1 DEF HeredocsDone, Ended, Running
<1>2. CASE HeredocOpen
  BY <1>2, ExitStatusType, CodesPresent, FaultTypes DEF HeredocOpen, Report
<1>3. CASE SetupHeredocSignals
  BY <1>3 DEF SetupHeredocSignals, Action
<1>4. CASE HeredocClear
  BY <1>4 DEF HeredocClear
<1>5. CASE HeredocLoop
  BY <1>5 DEF HeredocLoop
<1>6. CASE HeredocInjected
  BY <1>6 DEF HeredocInjected
<1>7. CASE ProcessHeredocLine
  BY <1>7 DEF ProcessHeredocLine
<1>8. CASE CleanupHeredoc
  BY <1>8, ExitStatusType, CodesPresent, FaultTypes DEF CleanupHeredoc, Report
<1>9. CASE HeredocRestore
  BY <1>9 DEF HeredocRestore, Action
<1>10. CASE HeredocFailed
  BY <1>10 DEF HeredocFailed, Action, Line
<1>11. CASE HeredocType
  BY <1>11 DEF HeredocType
<1> QED
  BY <1>1, <1>2, <1>3, <1>4, <1>5, <1>6, <1>7, <1>8, <1>9, <1>10, <1>11 DEF HeredocStep

LEMMA RunTypes ==
  ASSUME TypeOK, RunStep
  PROVE  TypeOK'
<1> USE DEF TypeOK, flagVars, signalVars, childVars, RunMoves
<1>1. CASE RunInShell
  <2>1. env' \in Env
    BY <1>1, ReportTypes DEF RunInShell, Line
  <2> QED
    BY <1>1, <2>1 DEF RunInShell, Ended
<1>2. CASE Fork
  BY <1>2 DEF Fork, Running
<1>3. CASE ForkFails
  BY <1>3, FaultTypes DEF ForkFails
<1>4. CASE WaitAgain
  BY <1>4 DEF WaitAgain, Running
<1>5. CASE Wait
  BY <1>5, ExitStatusType, FreshTypes DEF Wait, Report, NoChild, Ended
<1>6. CASE PipelineStart
  BY <1>6 DEF PipelineStart, Action, Running
<1>7. CASE PipelineEnd
  <2>1. env' \in Env /\ status' \in Codes \cup {Signalled}
    BY <1>7, ExitStatusType, CodesPresent DEF PipelineEnd, Report, Line
  <2> QED
    BY <1>7, <2>1, FaultTypes DEF PipelineEnd, Running
<1>8. CASE PipelinePrompt
  BY <1>8 DEF PipelinePrompt, Ended
<1> QED
  BY <1>1, <1>2, <1>3, <1>4, <1>5, <1>6, <1>7, <1>8 DEF RunStep

LEMMA ChildTypes ==
  ASSUME TypeOK, ChildStep
  PROVE  TypeOK'
<1> USE DEF TypeOK, flagVars, signalVars, ChildMoves
<1>1. CASE Exec
  BY <1>1 DEF Exec
<1>2. CASE NotFound
  BY <1>2, ExitStatusType, CodesPresent DEF NotFound, Env
<1>3. CASE ProgramEnds
  BY <1>3 DEF ProgramEnds, Line
<1> QED
  BY <1>1, <1>2, <1>3 DEF ChildStep

LEMMA ChildGetsTypes ==
  ASSUME TypeOK, NEW d, NEW e \in Env, ChildGets(d, e)
  PROVE  /\ child' \in [pc : {"none", "young", "running", "zombie"}, env : Env]
         /\ status' \in Codes \cup {Signalled}
BY DEF TypeOK, ChildGets

LEMMA ActionCases ==
  ASSUME TypeOK
  PROVE  /\ action.int \in {"prompt", "heredoc", "ignore"}
         /\ action.quit \in {"prompt", "ignore"}
BY DEF TypeOK, Action, Prompting, InHeredoc, Ignoring

\* A signal ends the child or leaves it, but does not take it away.
LEMMA SignalLeavesChild ==
  ASSUME TypeOK, Sigint \/ Sigquit
  PROVE  child'.pc = "none" <=> child.pc = "none"
<1>1. ASSUME NEW d, NEW e, ChildGets(d, e)
      PROVE  child'.pc = "none" <=> child.pc = "none"
  BY <1>1 DEF ChildGets, TypeOK
<1>2. CASE Sigint /\ action.int = "prompt"
  BY <1>1, <1>2 DEF Sigint
<1>3. CASE Sigint /\ action.int = "heredoc"
  BY <1>1, <1>3 DEF Sigint
<1>4. CASE Sigint /\ action.int = "ignore"
  BY <1>4 DEF Sigint
<1>5. CASE Sigquit
  BY <1>1, <1>5, ActionCases DEF Sigquit
<1> QED
  BY <1>2, <1>3, <1>4, <1>5, ActionCases

LEMMA SignalTypes ==
  ASSUME TypeOK, Sigint \/ Sigquit
  PROVE  TypeOK'
<1>1. \A d : Handled(d) => eintr' \in BOOLEAN /\ signals' \in 0 .. MaxSignals
  BY ShellAssumption DEF TypeOK, Handled
<1>2. quiet' \in BOOLEAN
  BY DEF Sigint, Sigquit, Disturb, TypeOK
<1>3. \A c \in {130, 131} : ExitStatus(child.env, c) \in Env /\ ExitStatus(env, c) \in Env
  BY ExitStatusType, CodesPresent DEF TypeOK
<1>4. ExitStatus(env, 0) \in Env /\ child.env \in Env
  BY ExitStatusType, CodesPresent DEF TypeOK
<1>5. action.int \in {"prompt", "heredoc", "ignore"} /\ action.quit \in {"prompt", "ignore"}
  BY ActionCases
<1>6. CASE Sigint
  <2>1. /\ child' \in [pc : {"none", "young", "running", "zombie"}, env : Env]
        /\ status' \in Codes \cup {Signalled}
    BY <1>3, <1>4, <1>5, <1>6, ChildGetsTypes DEF Sigint, TypeOK
  <2>2. env' \in Env /\ injected' \in Nat /\ heredoc_interrupted' \in BOOLEAN
          /\ cancelled' \in BOOLEAN
    <3>1. Newlines \in Nat
      BY DEF Newlines
    <3>2. CASE action.int = "prompt"
      BY <1>6, <3>2, ReportTypes DEF Sigint, TypeOK
    <3>3. CASE action.int = "heredoc"
      BY <1>6, <3>1, <3>3, ReportTypes DEF Sigint, TypeOK
    <3>4. CASE action.int = "ignore"
      BY <1>6, <3>4 DEF Sigint, TypeOK
    <3> QED
      BY <1>5, <3>2, <3>3, <3>4
  <2> QED
    BY <1>1, <1>2, <1>6, <2>1, <2>2 DEF Sigint, Handled, TypeOK
<1>7. CASE Sigquit
  <2>1. /\ child' \in [pc : {"none", "young", "running", "zombie"}, env : Env]
        /\ status' \in Codes \cup {Signalled}
    BY <1>3, <1>4, <1>5, <1>7, ChildGetsTypes DEF Sigquit, TypeOK
  <2>2. env' \in Env
    BY <1>3, <1>4, <1>5, <1>7 DEF Sigquit, Report, TypeOK
  <2> QED
    BY <1>1, <1>2, <1>7, <2>1, <2>2 DEF Sigquit, Handled, TypeOK
<1> QED
  BY <1>6, <1>7

LEMMA NextType == TypeOK /\ [Next]_vars => TypeOK'
<1> SUFFICES ASSUME TypeOK, [Next]_vars PROVE TypeOK'
  OBVIOUS
<1>1. CASE UNCHANGED vars
  BY <1>1 DEF vars, flagVars, signalVars, childVars, TypeOK
<1> QED
  BY <1>1, LoopTypes, HeredocTypes, RunTypes, ChildTypes, SignalTypes
  DEF Next, ShellStep, Idle

\* Every variable keeps its type.
THEOREM TypeCorrect == Spec => []TypeOK
BY InitType, NextType, PTL DEF Spec

-----------------------------------------------------------------------------
(* The child and the terminal.                                               *)

\* at_prompt is set only from the prompt to the acceptance of a line, and from
\* the end of a pipeline to the end of its line.
PromptOnlyOutside ==
  at_prompt => pc \in {"readline", "accept", "prompt", "gone"} \cup Ended

OwnInv == ChildAwaited /\ PromptOnlyOutside

LEMMA NextOwn == TypeOK /\ OwnInv /\ [Next]_vars => OwnInv'
<1> SUFFICES ASSUME TypeOK, OwnInv, [Next]_vars PROVE OwnInv'
  OBVIOUS
<1> USE DEF OwnInv, ChildAwaited, PromptOnlyOutside, Ended
<1>1. CASE LoopStep \/ ReadLine
  BY <1>1 DEF LoopStep, Reset, Prompt, ReadInjected, Accept, Parse, Finish, Zero,
              ReadLine, flagVars, signalVars, childVars
<1>2. CASE HeredocStep \/ HeredocType
  BY <1>2 DEF HeredocStep, HeredocType, HeredocMoves, HeredocsDone, HeredocOpen,
              SetupHeredocSignals, HeredocClear, HeredocLoop, HeredocInjected,
              ProcessHeredocLine, CleanupHeredoc, HeredocRestore, HeredocFailed,
              childVars
<1>3. CASE RunStep
  BY <1>3 DEF RunStep, RunMoves, RunInShell, Fork, ForkFails, WaitAgain, Wait,
              PipelineStart, PipelineEnd, PipelinePrompt, NoChild, childVars
<1>4. CASE ChildStep
  BY <1>4 DEF ChildStep, ChildMoves, Exec, NotFound, ProgramEnds, TypeOK, flagVars
<1>5. CASE Sigint \/ Sigquit
  <2>1. UNCHANGED <<pc, at_prompt>>
    BY <1>5 DEF Sigint, Sigquit, Handled
  <2> QED
    BY <1>5, <2>1, SignalLeavesChild
<1>6. CASE UNCHANGED vars
  BY <1>6 DEF vars, flagVars, childVars
<1> QED
  BY <1>1, <1>2, <1>3, <1>4, <1>5, <1>6 DEF Next, ShellStep, Idle

LEMMA OwnInvariant == Spec => [](TypeOK /\ OwnInv)
<1>1. Init => OwnInv
  BY DEF Init, OwnInv, ChildAwaited, PromptOnlyOutside, NoChild
<1> QED
  BY <1>1, InitType, NextType, NextOwn, PTL DEF Spec

\* No signal makes the shell lose the child it waits for, and no line ends with
\* a child left.
THEOREM ChildIsAwaited == Spec => []ChildAwaited
BY OwnInvariant, PTL DEF OwnInv

\* The handlers never redraw a prompt while a child or a heredoc has the
\* terminal.
THEOREM TerminalIsOwned == Spec => []TerminalOwned
<1>1. OwnInv => TerminalOwned
  BY DEF OwnInv, PromptOnlyOutside, TerminalOwned, Ended, HeredocPc
<1> QED
  BY <1>1, OwnInvariant, PTL

-----------------------------------------------------------------------------
(* Interrupted heredocs.                                                     *)

\* The way of an interrupt from the heredoc that was being read to the end of
\* the line: the flag stays set until no heredoc is left that would clear it.
CancelInv ==
  cancelled =>
    \/ pc \in {"hd_read", "hd_line", "hd_close", "hd_failed"} /\ heredoc_interrupted
    \/ pc = "heredocs" /\ heredoc_interrupted /\ heredoc > line.heredocs
    \/ pc \in Ended \cup {"gone"}

LEMMA NextCancel == TypeOK /\ CancelInv /\ [Next]_vars => CancelInv'
<1> SUFFICES ASSUME TypeOK, CancelInv, [Next]_vars PROVE CancelInv'
  OBVIOUS
<1> USE DEF CancelInv, Ended
<1>1. CASE LoopStep \/ ReadLine
  BY <1>1 DEF LoopStep, Reset, Prompt, ReadInjected, Accept, Parse, Finish, Zero,
              ReadLine, flagVars
<1>2. CASE HeredocStep \/ HeredocType
  <2>1. CASE HeredocsDone \/ HeredocOpen \/ HeredocFailed
    <3>1. CASE HeredocsDone
      BY <3>1 DEF HeredocsDone, HeredocMoves
    <3>2. CASE HeredocOpen
      <4>1. ~cancelled
        BY <3>2 DEF HeredocOpen, TypeOK, Line
      <4> QED
        BY <3>2, <4>1 DEF HeredocOpen, HeredocMoves
    <3>3. CASE HeredocFailed
      <4>1. heredoc' > line'.heredocs /\ pc' = "heredocs"
              /\ UNCHANGED <<heredoc_interrupted, cancelled>>
        BY <3>3 DEF HeredocFailed, HeredocMoves, TypeOK, Line
      <4> QED
        BY <3>3, <4>1 DEF HeredocFailed
    <3> QED
      BY <2>1, <3>1, <3>2, <3>3
  <2>2. CASE ~(HeredocsDone \/ HeredocOpen \/ HeredocFailed)
    BY <1>2, <2>2
    DEF HeredocStep, HeredocType, HeredocMoves, SetupHeredocSignals, HeredocClear,
        HeredocLoop, HeredocInjected, ProcessHeredocLine, CleanupHeredoc,
        HeredocRestore
  <2> QED
    BY <2>1, <2>2
<1>3. CASE RunStep
  BY <1>3 DEF RunStep, RunMoves, RunInShell, Fork, ForkFails, WaitAgain, Wait,
              PipelineStart, PipelineEnd, PipelinePrompt
<1>4. CASE ChildStep
  BY <1>4 DEF ChildStep, ChildMoves, Exec, NotFound, ProgramEnds, flagVars
<1>5. CASE Sigint \/ Sigquit
  <2>1. UNCHANGED <<pc, line, heredoc>>
    BY <1>5 DEF Sigint, Sigquit, Handled
  <2>2. UNCHANGED <<heredoc_interrupted, cancelled>>
          \/ (heredoc_interrupted' /\ cancelled' = (cancelled \/ pc = "hd_read"))
    BY <1>5, ActionCases DEF Sigint, Sigquit
  <2> QED
    BY <2>1, <2>2
<1>6. CASE UNCHANGED vars
  BY <1>6 DEF vars, flagVars
<1> QED
  BY <1>1, <1>2, <1>3, <1>4, <1>5, <1>6 DEF Next, ShellStep, Idle

\* A line whose heredoc was interrupted while it was read does not run, however
\* many heredocs it has and whatever fails.
THEOREM InterruptedLinesNeverRun == Spec => []InterruptedHeredocNeverRuns
<1>1. Init => CancelInv
  BY DEF Init, CancelInv
<1>2. CancelInv => InterruptedHeredocNeverRuns
  BY DEF CancelInv, InterruptedHeredocNeverRuns, Running, Ended
<1> QED
  BY <1>1, <1>2, InitType, NextType, NextCancel, PTL DEF Spec

-----------------------------------------------------------------------------
(* The actions on signals.                                                   *)

\* Which actions are installed where, as long as no call has failed; a pipeline
\* keeps those of the prompt aside.
HeredocActions == {"hd_clear", "hd_loop", "hd_read", "hd_line", "hd_close", "hd_restore"}

ActionInv ==
  /\ pc = "readline" => at_prompt
  /\ faults = 0 =>
       CASE pc \in HeredocActions -> action = InHeredoc
         [] pc = "hd_failed" -> heredoc_interrupted
         [] pc = "pipeline" -> saved = Prompting
         [] OTHER -> action = Prompting

LEMMA NextAction == TypeOK /\ ActionInv /\ [Next]_vars => ActionInv'
<1> SUFFICES ASSUME TypeOK, ActionInv, [Next]_vars PROVE ActionInv'
  OBVIOUS
<1> USE DEF ActionInv, HeredocActions
<1>1. CASE LoopStep \/ ReadLine
  BY <1>1 DEF LoopStep, Reset, Prompt, ReadInjected, Accept, Parse, Finish, Zero,
              ReadLine, flagVars, signalVars
<1>2. CASE HeredocStep \/ HeredocType
  BY <1>2
  DEF HeredocStep, HeredocType, HeredocMoves, HeredocsDone, HeredocOpen,
      SetupHeredocSignals, HeredocClear, HeredocLoop, HeredocInjected,
      ProcessHeredocLine, CleanupHeredoc, HeredocRestore, HeredocFailed, Fault, TypeOK
<1>3. CASE RunStep
  BY <1>3 DEF RunStep, RunMoves, RunInShell, Fork, ForkFails, WaitAgain, Wait,
              PipelineStart, PipelineEnd, PipelinePrompt, Fault, TypeOK
<1>4. CASE ChildStep
  BY <1>4 DEF ChildStep, ChildMoves, Exec, NotFound, ProgramEnds, flagVars, signalVars
<1>5. CASE Sigint \/ Sigquit
  <2>1. UNCHANGED <<pc, at_prompt, action, saved, faults>>
    BY <1>5 DEF Sigint, Sigquit, Handled
  <2>2. heredoc_interrupted => heredoc_interrupted'
    BY <1>5, ActionCases DEF Sigint, Sigquit
  <2> QED
    BY <2>1, <2>2
<1>6. CASE UNCHANGED vars
  BY <1>6 DEF vars, flagVars, signalVars
<1> QED
  BY <1>1, <1>2, <1>3, <1>4, <1>5, <1>6 DEF Next, ShellStep, Idle

\* The handlers of the prompt are in place whenever the shell waits for a line,
\* after any number of pipelines and heredocs.
THEOREM PromptIsReady == Spec => []PromptReady
<1>1. Init => ActionInv
  BY DEF Init, ActionInv, HeredocActions
<1>2. ActionInv => PromptReady
  BY DEF ActionInv, HeredocActions, PromptReady
<1> QED
  BY <1>1, <1>2, InitType, NextType, NextAction, PTL DEF Spec

-----------------------------------------------------------------------------
(* The status of the line.                                                   *)

\* A signal killed what ran, which leaves no status.
Killed == line.kind \in {"program", "endless", "pipeline"} /\ status = Signalled

\* The actions of the prompt are, or will be, in place at the end of the line.
Calm == IF pc = "pipeline" THEN saved = Prompting ELSE action = Prompting

\* The latch holds what the line reported; if it reported nothing, 0 is right.
Settled ==
  IF env.exit THEN env.exit_status \in Expected ELSE 0 \in Expected \/ Killed

\* A child that no handler has written to.
ChildFaithful ==
  /\ line.kind \in External
  /\ child.pc # "zombie" => ~child.env.exit
  /\ child.pc = "running" => line.kind # "missing"
  /\ child.pc = "zombie" => status \in Expected \/ Killed

\* Until the command runs nothing has been reported; then the latch and the
\* child carry only what the line itself makes.
QuietInv ==
  /\ pc = "pipeline" => action = Ignoring
  /\ quiet =>
       /\ pc \in Reading => ~env.exit
       /\ pc \in HeredocPc => ~env.exit /\ ~heredoc_interrupted /\ pc # "hd_failed"
       /\ Calm =>
            /\ pc \in {"run", "wait", "pipeline"} => ~env.exit
            /\ pc = "wait" => ChildFaithful
            /\ pc \in {"pipeline_end", "finish"} => Settled
            /\ pc = "zero" => 0 \in Expected \/ Killed
            /\ pc = "reset" => \/ env.exit_status \in Expected
                               \/ Killed /\ env.exit_status = 0

LEMMA ExpectedOf ==
  /\ line.kind \in {"blank", "noword", "builtin"} => Expected = {0}
  /\ line.kind \in {"badfile", "failing"} => Expected = {1}
  /\ line.kind = "syntax" => Expected = {2}
  /\ line.kind = "exitargs" => Expected = {1, 2}
  /\ line.kind = "missing" => Expected = {126, 127}
  /\ line.kind \in {"endless", "exitpipe"} => Expected = Codes
  /\ line.kind \in {"exit", "program", "pipeline"} => Expected = {line.code}
BY DEF Expected

LEMMA ReportTwice ==
  ASSUME NEW c, Report(c)
  PROVE  /\ ~env.exit => env' = [exit_status |-> c, exit |-> TRUE]
         /\ env.exit => env' = env
BY DEF Report, ExitStatus

LEMMA LoopQuiet ==
  ASSUME TypeOK, QuietInv, LoopStep \/ ReadLine
  PROVE  QuietInv'
<1> USE DEF QuietInv, Reading, HeredocPc
<1>1. CASE Reset
  BY <1>1 DEF Reset, TypeOK, Env
<1>2. CASE Prompt \/ ReadInjected \/ ReadLine
  BY <1>2 DEF Prompt, ReadInjected, ReadLine
<1>3. CASE Accept
  <2>1. quiet' => ~env'.exit
    BY <1>3 DEF Accept
  <2>2. pc' = "finish" => line'.kind = "blank" /\ UNCHANGED line
    BY <1>3 DEF Accept
  <2>3. pc' = "finish" => 0 \in Expected'
    BY <2>2, ExpectedOf DEF Expected
  <2>4. pc' \in {"gone", "finish", "parse"}
    BY <1>3 DEF Accept
  <2> QED
    BY <2>1, <2>3, <2>4 DEF Settled
<1>4. CASE Parse
  <2>1. CASE line.kind = "syntax"
    <3>1. quiet' => env'.exit /\ env'.exit_status = 2
      BY <1>4, <2>1, ReportTwice DEF Parse
    <3>2. pc' = "finish" /\ Expected' = {2}
      BY <1>4, <2>1 DEF Parse, Expected
    <3> QED
      BY <3>1, <3>2 DEF Settled
  <2>2. CASE line.kind # "syntax"
    BY <1>4, <2>2 DEF Parse
  <2> QED
    BY <2>1, <2>2
<1>5. CASE Finish
  <2>1. UNCHANGED <<quiet, env, line, status, action, saved>>
    BY <1>5 DEF Finish, signalVars, childVars
  <2>2. Expected' = Expected /\ Killed' = Killed
    BY <2>1 DEF Expected, Killed
  <2>3. Calm' => Calm
    BY <1>5, <2>1 DEF Finish, Calm
  <2> QED
    BY <1>5, <2>1, <2>2, <2>3 DEF Finish, Settled
<1>6. CASE Zero
  <2>1. UNCHANGED <<quiet, line, status, action, saved>>
    BY <1>6 DEF Zero, signalVars, childVars
  <2>2. Expected' = Expected /\ Killed' = Killed
    BY <2>1 DEF Expected, Killed
  <2>3. Calm' => Calm
    BY <1>6, <2>1 DEF Zero, Calm
  <2>4. env'.exit_status = 0
    BY <1>6 DEF Zero, TypeOK, Env
  <2> QED
    BY <1>6, <2>1, <2>2, <2>3, <2>4 DEF Zero
<1> QED
  BY <1>1, <1>2, <1>3, <1>4, <1>5, <1>6 DEF LoopStep

LEMMA HeredocQuiet ==
  ASSUME TypeOK, QuietInv, HeredocStep \/ HeredocType
  PROVE  QuietInv'
<1> USE DEF QuietInv, Reading, HeredocPc, HeredocMoves
<1>1. CASE HeredocsDone
  BY <1>1 DEF HeredocsDone
<1>2. CASE HeredocOpen \/ CleanupHeredoc
  BY <1>2 DEF HeredocOpen, CleanupHeredoc, Fault
<1>3. CASE SetupHeredocSignals \/ HeredocClear \/ HeredocLoop \/ HeredocInjected
             \/ HeredocType \/ ProcessHeredocLine \/ HeredocRestore \/ HeredocFailed
  BY <1>3 DEF SetupHeredocSignals, HeredocClear, HeredocLoop, HeredocInjected,
              HeredocType, ProcessHeredocLine, HeredocRestore, HeredocFailed
<1> QED
  BY <1>1, <1>2, <1>3 DEF HeredocStep

LEMMA RunQuiet ==
  ASSUME TypeOK, OwnInv, QuietInv, RunStep
  PROVE  QuietInv'
<1> USE DEF QuietInv, Reading, HeredocPc, RunMoves
<1>0. UNCHANGED line /\ Expected' = Expected
  BY DEF RunStep, RunInShell, Fork, ForkFails, WaitAgain, Wait, PipelineStart,
         PipelineEnd, PipelinePrompt, Expected
<1>1. CASE RunInShell
  <2>1. SUFFICES ASSUME quiet, Calm PROVE Settled'
    BY <1>1 DEF RunInShell, Calm
  <2>2. ~env.exit
    BY <1>1, <2>1 DEF RunInShell
  <2>3. CASE line.kind \in {"noword", "builtin"} /\ UNCHANGED env
    BY <1>0, <2>2, <2>3, ExpectedOf DEF Settled
  <2>4. CASE line.kind \in {"badfile", "failing"} /\ Report(1)
    BY <1>0, <2>2, <2>4, ExpectedOf, ReportTwice DEF Settled
  <2>5. CASE line.kind = "exit" /\ Report(line.code)
    BY <1>0, <2>2, <2>5, ExpectedOf, ReportTwice DEF Settled
  <2>6. CASE line.kind = "exitargs" /\ \E c \in {1, 2} : Report(c)
    BY <1>0, <2>2, <2>6, ExpectedOf, ReportTwice DEF Settled
  <2> QED
    BY <1>1, <2>3, <2>4, <2>5, <2>6 DEF RunInShell
<1>2. CASE Fork
  BY <1>0, <1>2 DEF Fork, Calm, ChildFaithful
<1>3. CASE ForkFails
  BY <1>3 DEF ForkFails
<1>4. CASE WaitAgain
  BY <1>0, <1>4 DEF WaitAgain, Calm, ChildFaithful, Killed
<1>5. CASE Wait
  <2>1. SUFFICES ASSUME quiet, Calm PROVE Settled'
    BY <1>5 DEF Wait, Calm
  <2>2. ~env.exit /\ (status \in Expected \/ Killed) /\ UNCHANGED status
    BY <1>5, <2>1 DEF Wait, ChildFaithful
  <2>3. CASE status = Signalled
    <3>1. Signalled \notin Expected
      BY <2>1, CodesAssumption, ExpectedOf, <1>5 DEF Signalled, Wait, ChildFaithful,
         External, TypeOK, Line
    <3> QED
      BY <1>0, <1>5, <2>2, <2>3, <3>1 DEF Wait, Settled, Killed
  <2>4. CASE status # Signalled
    BY <1>0, <1>5, <2>2, <2>4, ReportTwice DEF Wait, Settled, Killed
  <2> QED
    BY <2>3, <2>4
<1>6. CASE PipelineStart
  BY <1>6 DEF PipelineStart, Calm
<1>7. CASE PipelineEnd
  <2>1. SUFFICES ASSUME quiet', saved = Prompting PROVE Settled'
    BY <1>7 DEF PipelineEnd, Calm
  <2>2. quiet /\ ~env.exit
    BY <1>7, <2>1 DEF PipelineEnd, Calm, Fault
  <2>3. CASE line.kind = "exitpipe"
    <3>1. Expected = Codes /\ 0 \in Codes /\ env' \in Env
      BY <2>3, ExpectedOf, CodesPresent, NextType, RunTypes DEF TypeOK
    <3> QED
      BY <1>0, <3>1 DEF Settled, Env
  <2>4. CASE line.kind = "pipeline"
    <3>1. \/ status' = Signalled /\ UNCHANGED env
          \/ status' = line.code /\ Report(line.code)
      BY <1>7, <2>1, <2>4 DEF PipelineEnd, Fault
    <3> QED
      BY <1>0, <2>2, <2>4, <3>1, ExpectedOf, ReportTwice DEF Settled, Killed
  <2> QED
    BY <1>7, <2>1, <2>3, <2>4 DEF PipelineEnd, Fault
<1>8. CASE PipelinePrompt
  BY <1>0, <1>8 DEF PipelinePrompt, Calm, Settled, Killed, childVars
<1> QED
  BY <1>1, <1>2, <1>3, <1>4, <1>5, <1>6, <1>7, <1>8 DEF RunStep

LEMMA ChildQuiet ==
  ASSUME TypeOK, OwnInv, QuietInv, ChildStep
  PROVE  QuietInv'
<1>1. pc = "wait" /\ UNCHANGED <<pc, line, env, quiet, action, saved>>
  BY DEF ChildStep, Exec, NotFound, ProgramEnds, ChildMoves, OwnInv, ChildAwaited,
         signalVars
<1>2. Expected' = Expected /\ Calm' = Calm
  BY <1>1 DEF Expected, Calm
<1>3. ASSUME quiet, Calm PROVE ChildFaithful'
  <2>1. ChildFaithful
    BY <1>1, <1>3 DEF QuietInv
  <2>2. CASE Exec
    BY <1>1, <2>1, <2>2 DEF Exec, ChildMoves, ChildFaithful, TypeOK
  <2>3. CASE NotFound
    <3>1. PICK c \in {126, 127} : status' = ExitStatus(child.env, c).exit_status
      BY <2>3 DEF NotFound
    <3>2. status' = c
      BY <2>1, <2>3, <3>1 DEF NotFound, ExitStatus, ChildFaithful
    <3>3. Expected = {126, 127} /\ child'.pc = "zombie"
      BY <2>3, ExpectedOf DEF NotFound, ChildMoves, TypeOK
    <3> QED
      BY <1>1, <1>2, <2>1, <3>2, <3>3 DEF ChildFaithful
  <2>4. CASE ProgramEnds
    <3>1. status' \in Expected /\ child'.pc = "zombie"
      BY <2>4, ExpectedOf DEF ProgramEnds, ChildMoves, TypeOK
    <3> QED
      BY <1>1, <1>2, <2>1, <3>1 DEF ChildFaithful
  <2> QED
    BY <2>2, <2>3, <2>4 DEF ChildStep
<1> QED
  BY <1>1, <1>2, <1>3 DEF QuietInv, Reading, HeredocPc

LEMMA SignalQuiet ==
  ASSUME TypeOK, OwnInv, QuietInv, Sigint \/ Sigquit
  PROVE  QuietInv'
<1>1. UNCHANGED <<pc, line, action, saved>>
  BY DEF Sigint, Sigquit, Handled
<1>2. Expected' = Expected /\ Calm' = Calm
  BY <1>1 DEF Expected, Calm
<1>3. ASSUME quiet'
      PROVE  /\ quiet
             /\ \/ pc = "pipeline"
                \/ Sigint /\ pc \in {"run", "wait", "pipeline_end"}
  <2>1. CASE Sigint
    <3>1. quiet' = (quiet /\ (pc = "pipeline" \/ pc \in {"run", "wait", "pipeline_end"}))
      BY <2>1 DEF Sigint, Disturb
    <3>2. quiet /\ (pc = "pipeline" \/ pc \in {"run", "wait", "pipeline_end"})
      BY <1>3, <3>1, Zenon
    <3> QED
      BY <2>1, <3>2, Zenon
  <2>2. CASE Sigquit
    <3>1. quiet' = (quiet /\ pc = "pipeline")
      BY <2>2 DEF Sigquit, Disturb
    <3> QED
      BY <1>3, <3>1, Zenon
  <2> QED
    BY <2>1, <2>2
<1>4. CASE pc = "pipeline"
  <2>1. UNCHANGED <<env, status>>
    BY <1>4 DEF Sigint, Sigquit, QuietInv, Ignoring, ChildGets, OwnInv, ChildAwaited
  <2> QED
    BY <1>1, <1>2, <1>3, <1>4, <2>1 DEF QuietInv, Reading, HeredocPc
<1>5. CASE quiet' /\ Calm /\ Sigint /\ pc \in {"run", "wait", "pipeline_end"}
  <2>1. action.int = "prompt"
    BY <1>5 DEF Calm, Prompting
  <2>2. ChildGets("prompt", child.env)
    BY <1>5, <2>1 DEF Sigint
  <2>3. UNCHANGED env
    BY <1>5, <2>1 DEF Sigint, OwnInv, PromptOnlyOutside, Ended
  <2>4. pc = "wait" => ChildFaithful'
    <3>1. SUFFICES ASSUME pc = "wait" PROVE ChildFaithful'
      OBVIOUS
    <3>2. ChildFaithful
      BY <1>3, <1>5, <3>1 DEF QuietInv
    <3>3. CASE child'.pc = "zombie" /\ child.pc = "running" /\ status' = Signalled
      BY <1>1, <3>2, <3>3, ExpectedOf DEF ChildFaithful, Killed, External
    <3>4. CASE UNCHANGED <<child, status>>
      BY <1>1, <1>2, <3>2, <3>4 DEF ChildFaithful, Killed
    <3>5. CASE child.pc # "running" /\ UNCHANGED status
                 /\ child' = [child EXCEPT !.env = child.env]
      BY <1>1, <1>2, <3>2, <3>5 DEF ChildFaithful, Killed, TypeOK
    <3> QED
      BY <2>2, <3>3, <3>4, <3>5 DEF ChildGets, TypeOK
  <2>5. pc # "wait" => UNCHANGED status
    BY <2>2 DEF ChildGets, OwnInv, ChildAwaited
  <2> QED
    BY <1>1, <1>2, <1>3, <1>5, <2>3, <2>4, <2>5
    DEF QuietInv, Reading, HeredocPc, Settled, Killed
<1>6. CASE ~quiet' \/ ~Calm
  BY <1>1, <1>2, <1>3, <1>6 DEF QuietInv, Reading, HeredocPc
<1> QED
  BY <1>3, <1>4, <1>5, <1>6

LEMMA NextQuiet == TypeOK /\ OwnInv /\ QuietInv /\ [Next]_vars => QuietInv'
<1>1. ASSUME QuietInv, UNCHANGED vars PROVE QuietInv'
  BY <1>1
  DEF vars, flagVars, signalVars, childVars, QuietInv, Calm, ChildFaithful, Settled,
      Killed, Expected
<1> QED
  BY <1>1, LoopQuiet, HeredocQuiet, RunQuiet, ChildQuiet, SignalQuiet
  DEF Next, ShellStep, Idle

\* The status kept for $? is that of the last line, for every line and whenever
\* Ctrl-C hits its command.
THEOREM StatusIsOfLine == Spec => []StatusOfLine
<1>1. Init => QuietInv
  BY DEF Init, QuietInv, Calm, Reading, HeredocPc, Expected, Blank, FreshEnv
<1>2. QuietInv => StatusOfLine
  BY DEF QuietInv, StatusOfLine, Calm, Killed
<1> QED
  BY <1>1, <1>2, InitType, NextType, OwnInvariant, NextQuiet, PTL DEF Spec

=============================================================================
