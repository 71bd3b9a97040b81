-------------------------- MODULE RedirectProperties --------------------------
(***************************************************************************)
(* What the redirections of a single command promise: the command runs     *)
(* with the files it named or not at all, the shell has its own            *)
(* descriptors again afterwards, and the files end as sh would leave them. *)
(***************************************************************************)
EXTENDS Redirect, FiniteSets, SequencesExt

(***************************************************************************)
(* Types of all variables.                                                 *)
(***************************************************************************)
TypeOK ==
  /\ pc \in {"prompt", "readline", "heredocs", "check", "input", "output", "run",
             "restore", "finish", "gone"}
  /\ line \in Lines \cup {NoLine} /\ lines \in 0 .. MaxLines
  /\ hd \in Nat /\ fd_in \in Fd
  /\ todo \in Seq(Redirection)
  /\ fds \in [Fd -> Object \cup {Closed}]
  /\ stdin_backup \in Fd \cup {NoFd} /\ stdout_backup \in Fd \cup {NoFd}
  /\ env \in Env /\ exit_requested \in BOOLEAN
  /\ buffer \in 0 .. MaxLines
  /\ files \in [Files -> File]
  /\ changes \in 0 .. MaxChanges /\ faults \in 0 .. MaxFaults
  /\ before \in [fds : [Fd -> Object \cup {Closed}], files : [Files -> File]]
  /\ ran \in [in : Object \cup {Closed}, out : Object \cup {Closed}]
  /\ refused \in {"no", "check", "input", "output"}
  /\ calm \in BOOLEAN

Ran == ran # NotRun

\* o is what the last redirection of these types names, or own without one.
LastOr(types, own, o) ==
  LET rs == line.redirects
  IN  \/ o = own /\ \A i \in DOMAIN rs : rs[i].type \notin types
      \/ \E i \in DOMAIN rs :
           /\ rs[i].type \in types /\ o = FileObj(rs[i].file)
           /\ \A j \in i + 1 .. Len(rs) : rs[j].type \notin types

(***************************************************************************)
(* A command that runs reads its heredoc, else the last file it redirects  *)
(* its input from, else what the shell reads, and its output goes to the   *)
(* last file it names, whatever happens to the files, the descriptors and  *)
(* the heredocs meanwhile.                                                 *)
(***************************************************************************)
RunsWithItsFiles ==
  Ran => /\ IF fd_in > 0 THEN ran.in = HereDoc(lines)
                         ELSE LastOr({"in"}, before.fds[0], ran.in)
         /\ LastOr({"out", "append"}, before.fds[1], ran.out)

(***************************************************************************)
(* After a command has run, the table is as it was before its line.  A     *)
(* line that did not run leaves 0, 1 and 2 alone and every descriptor that *)
(* was open, and what is open besides is a heredoc of that line.  Only a   *)
(* line given up at its output keeps more.  An exit leaves the loop.       *)
(***************************************************************************)
TableRestored ==
  pc = "finish" /\ ~exit_requested =>
    /\ Ran => fds = before.fds
    /\ refused # "output" =>
         \A f \in Fd : fds[f] # before.fds[f] =>
           before.fds[f] = Closed /\ fds[f] = HereDoc(lines)

\* sh tries the redirections from left to right and stops at the first that
\* fails; each opens its file, and the last one of a kind counts.
ShRedirect(st, r) ==
  IF ~st.ok \/ ~Openable(st.files, r) THEN [st EXCEPT !.ok = FALSE]
  ELSE IF r.type = "in" THEN [st EXCEPT !.in = FileObj(r.file)]
  ELSE [st EXCEPT !.out = FileObj(r.file),
                  !.files = Opened(st.files, r.file, r.type)]

ShStart == [ok |-> TRUE, files |-> before.files, out |-> before.fds[1],
            in |-> IF line.heredocs > 0 THEN HereDoc(lines) ELSE before.fds[0]]

\* Where sh is after each number of redirections.
ShAfter ==
  LET sh[k \in 0 .. Len(line.redirects)] ==
        IF k = 0 THEN ShStart ELSE ShRedirect(sh[k - 1], line.redirects[k])
  IN sh

ShLine == ShAfter[Len(line.redirects)]

\* Nothing outside the shell meets the line, and descriptors do not run out.
Undisturbed ==
  calm /\ Cardinality(FreeFds(before.fds)) >= line.heredocs + 3

\* The lines that are compared with sh: alone, and not a heredoc together with a
\* file, nor output without a newline, which are another matter.
Comparable ==
  /\ Undisturbed
  /\ line.command \in {"builtin", "exit", "program", "missing"}
  /\ line.heredocs > 0 => Of(line.redirects, {"in"}) = {}

(***************************************************************************)
(* Undisturbed, a command does what sh does: it runs or is refused alike,  *)
(* with the same input and output, and every file, used or only named on   *)
(* the way, ends with the same text, although the code opens the last      *)
(* ones twice and in another order.                                        *)
(***************************************************************************)
LinesDoAsSh ==
  pc = "finish" /\ Comparable =>
    LET sh == ShLine
    IN  /\ Ran <=> sh.ok
        /\ sh.ok => ran = [in |-> sh.in, out |-> sh.out]
        /\ files = IF sh.ok /\ line.command # "missing"
                   THEN Written(sh.files, sh.out, lines) ELSE sh.files
        /\ ~sh.ok => env.exit_status = 1

(***************************************************************************)
(* redirect_utils2.c:60 "restore std input after execution": when the      *)
(* prompt comes back, 0 and 1 are the shell's own again.                   *)
(***************************************************************************)
StdioRestored == pc = "prompt" => fds[0] = Tty /\ fds[1] = Tty

(***************************************************************************)
(* ft_echo.c:15-20: echo -n "print[s] out the args", to the file its       *)
(* output is redirected to, as far as that is still there to be seen at    *)
(* the next line.                                                          *)
(***************************************************************************)
EchoReachesItsFile ==
  pc = "readline" /\ Ran /\ line.command = "partial" =>
    \A f \in Files : ran.out = FileObj(f) => lines \in Range(files[f].text)

=============================================================================
