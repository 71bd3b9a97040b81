------------------------------- MODULE Redirect -------------------------------
(***************************************************************************)
(* The redirections of a command that runs alone (src/redirect, and        *)
(* execute_shell around them): the heredocs of the line are read, every    *)
(* redirection is tried once, then the last input and the last output are  *)
(* put on descriptors 0 and 1 of the shell itself, the command runs, and   *)
(* the shell takes its own descriptors back.  The files belong to the      *)
(* system: another process may change them between any two steps.          *)
(*                                                                         *)
(* A pipeline is one step here, which leaves the shell its descriptors     *)
(* (Pipeline!DescriptorsBalanced); Heredoc has the text of the heredocs.   *)
(***************************************************************************)
EXTENDS Descriptors, StatusLatch, Sequences

CONSTANTS
  Files,       \* the files a redirection may name
  FirstFiles,  \* how those files may be when the shell starts
  Lines,       \* the lines a user may type
  MaxLines,    \* bound on the lines read in a session
  MaxChanges,  \* bound on the changes other processes make to the files
  MaxFaults    \* bound on heredocs that fail or are interrupted, and on forks

(***************************************************************************)
(* A command is a builtin whose output ends with a newline, one whose      *)
(* output does not (echo -n), exit, a program, or a name that is not       *)
(* found; "none" has no word, and "pipeline" is several commands.          *)
(***************************************************************************)
Redirection == [type : {"in", "out", "append"}, file : Files]
Line == [command : {"none", "builtin", "partial", "exit", "program", "missing",
                    "pipeline"},
         heredocs : Nat, redirects : Seq(Redirection)]

\* What may be done with a file (with a missing one: whether it can be
\* created), and the numbers of the lines that wrote to it.
File == [exists : BOOLEAN, read : BOOLEAN, write : BOOLEAN, text : Seq(Nat)]

\* parse_tokens keeps one heredoc for each command.
ASSUME RedirectAssumption ==
  /\ 130 \in Codes
  /\ Lines \subseteq Line
  /\ \A l \in Lines : l.command # "pipeline" => l.heredocs <= 1
  /\ FirstFiles \subseteq [Files -> File]
  /\ MaxLines \in Nat /\ MaxChanges \in Nat /\ MaxFaults \in Nat

VARIABLES
  pc,             \* where the shell is
  line, lines,    \* the line being run, how many have been read
  hd, fd_in,      \* heredocs read so far, the descriptor of the last
  todo,           \* redirections process_redirect has still to try
  fds,            \* the shell's descriptor table
  stdin_backup, stdout_backup,
  env, exit_requested,
  buffer,         \* what stdio holds back: the number of a line, 0 for nothing
  files, changes, faults,
  before,         \* the table and the files when the line was read
  ran,            \* what the command found on 0 and 1 when it ran
  refused,        \* the step that gave the line up
  calm            \* nothing outside the shell has met this line: no change, no fault

lineVars    == <<line, lines, before>>
heredocVars == <<hd, fd_in>>
backups     == <<stdin_backup, stdout_backup>>
statusVars  == <<env, exit_requested>>
worldVars   == <<changes, faults>>
outcome     == <<ran, refused>>
vars == <<pc, lineVars, heredocVars, todo, fds, backups, statusVars, buffer, files,
          worldVars, outcome, calm>>

Tty        == <<"tty", 0>>
FileObj(f) == <<"file", f>>
HereDoc(n) == <<"heredoc", n>>  \* of the n-th line
Object     == {Tty} \cup {FileObj(f) : f \in Files} \cup {HereDoc(n) : n \in 1 .. MaxLines}

NotRun == [in |-> Closed, out |-> Closed]
NoLine == [command |-> "none", heredocs |-> 0, redirects |-> <<>>]

Init ==
  /\ pc = "prompt" /\ line = NoLine /\ lines = 0
  /\ hd = 0 /\ fd_in = 0 /\ todo = <<>>
  /\ fds = [f \in Fd |-> IF f <= 2 THEN Tty ELSE Closed]
  /\ stdin_backup = NoFd /\ stdout_backup = NoFd
  /\ env = FreshEnv /\ exit_requested = FALSE /\ buffer = 0
  /\ files \in FirstFiles
  /\ changes = 0 /\ faults = 0
  /\ before = [fds |-> fds, files |-> files]
  /\ ran = NotRun /\ refused = "no" /\ calm = TRUE

-----------------------------------------------------------------------------
(* Files and what the parser keeps of the redirections *)

Readable(fs, f) == fs[f].exists /\ fs[f].read

\* open() for writing: "out" truncates, "append" does not, both create.
Opened(fs, f, type) ==
  LET text == IF type = "out" THEN <<>> ELSE fs[f].text
  IN  [fs EXCEPT ![f] = [fs[f] EXCEPT !.exists = TRUE, !.text = text]]

\* The text of line n arrives at object o.
Written(fs, o, n) ==
  [f \in Files |-> IF o = FileObj(f) THEN [fs[f] EXCEPT !.text = Append(@, n)]
                                     ELSE fs[f]]

\* update_cmd_files: the last of each kind is the one that is used.
Of(rs, types)     == {i \in DOMAIN rs : rs[i].type \in types}
TheOne(rs, types) == rs[CHOOSE i \in Of(rs, types) : \A j \in Of(rs, types) : j <= i]

infile  == {"in"}
outfile == {"out", "append"}

Report(c) == env' = ExitStatus(env, c)

\* The line is given up at this step.
Refuse(step) ==
  /\ Report(1) /\ refused' = step
  /\ UNCHANGED ran

-----------------------------------------------------------------------------
(* Reading a line and its heredocs *)

\* readline writes the prompt and with it whatever stdio still holds.
Prompt ==
  /\ pc = "prompt"
  /\ files' = IF buffer = 0 THEN files ELSE Written(files, fds[1], buffer)
  /\ buffer' = 0
  /\ env' = [env EXCEPT !.exit = FALSE]
  /\ pc' = "readline"
  /\ UNCHANGED <<lineVars, heredocVars, todo, fds, backups, exit_requested,
                 worldVars, outcome, calm>>

ReadLine ==
  /\ pc = "readline" /\ lines < MaxLines
  /\ line' \in Lines /\ lines' = lines + 1
  /\ hd' = 0 /\ fd_in' = 0 /\ todo' = line'.redirects
  /\ before' = [fds |-> fds, files |-> files]
  /\ ran' = NotRun /\ refused' = "no" /\ calm' = TRUE
  /\ pc' = "heredocs"
  /\ UNCHANGED <<fds, backups, statusVars, buffer, files, worldVars>>

EndOfInput ==
  /\ pc = "readline"
  /\ pc' = "gone"
  /\ UNCHANGED <<lineVars, heredocVars, todo, fds, backups, statusVars, buffer,
                 files, worldVars, outcome, calm>>

HeredocMoves(next) ==
  /\ pc' = next
  /\ UNCHANGED <<lineVars, todo, backups, exit_requested, buffer, files, changes,
                 outcome>>

\* handle_heredoc writes the temporary file and opens it again for reading.
Heredoc ==
  /\ pc = "heredocs" /\ hd < line.heredocs
  /\ FreeFds(fds) # {}
  /\ LET o == Alloc(fds, HereDoc(lines)) IN fds' = o.tab /\ fd_in' = o.fd
  /\ hd' = hd + 1
  /\ HeredocMoves("heredocs")
  /\ UNCHANGED <<env, faults, calm>>

\* process_heredocs gives up the heredocs, and the line runs without them.
HeredocFails ==
  /\ pc = "heredocs" /\ hd < line.heredocs
  /\ \/ FreeFds(fds) = {} /\ UNCHANGED faults
     \/ faults < MaxFaults /\ faults' = faults + 1
  /\ Report(1)
  /\ hd' = line.heredocs /\ calm' = FALSE
  /\ HeredocMoves("heredocs")
  /\ UNCHANGED <<fds, fd_in>>

\* Ctrl-C: the line is not run.
HeredocInterrupted ==
  /\ pc = "heredocs" /\ hd < line.heredocs /\ FreeFds(fds) # {}
  /\ faults < MaxFaults /\ faults' = faults + 1
  /\ Report(130)
  /\ calm' = FALSE
  /\ HeredocMoves("finish")
  /\ UNCHANGED <<heredocVars, fds>>

-----------------------------------------------------------------------------
(* execute_commands and execute_shell *)

Moves(next) ==
  /\ pc' = next
  /\ UNCHANGED <<lineVars, heredocVars, changes>>

\* execute_shell returns at once when there is no word; execute_pipeline
\* reports the status of its last command, if any.
NotAlone ==
  /\ pc = "heredocs" /\ hd = line.heredocs
  /\ \/ line.command = "none" /\ UNCHANGED env
     \/ line.command = "pipeline" /\ \/ UNCHANGED env
                                     \/ \E c \in Codes : Report(c)
  /\ Moves("finish")
  /\ UNCHANGED <<todo, fds, backups, exit_requested, buffer, files, faults, outcome,
                 calm>>

Alone ==
  /\ pc = "heredocs" /\ hd = line.heredocs
  /\ line.command \notin {"none", "pipeline"}
  /\ stdin_backup' = NoFd /\ stdout_backup' = NoFd
  /\ Moves("check")
  /\ UNCHANGED <<todo, fds, statusVars, buffer, files, faults, outcome, calm>>

\* handle_output_redirect1 opens as if every file were appended to.
FaultTried(fs, r) == IF r.type = "in" THEN fs ELSE Opened(fs, r.file, "append")

\* process_redirect: each redirection is opened and closed again.
Tried(fs, r) == IF r.type = "in" THEN fs ELSE Opened(fs, r.file, r.type)

Openable(fs, r) == IF r.type = "in" THEN Readable(fs, r.file) ELSE fs[r.file].write

Check ==
  /\ pc = "check"
  /\ \/ /\ todo = <<>>
        /\ Moves("input")
        /\ UNCHANGED <<todo, env, files, outcome>>
     \/ /\ todo # <<>> /\ Openable(files, Head(todo)) /\ FreeFds(fds) # {}
        /\ files' = Tried(files, Head(todo))
        /\ todo' = Tail(todo)
        /\ Moves("check")
        /\ UNCHANGED <<env, outcome>>
     \/ /\ todo # <<>> /\ ~(Openable(files, Head(todo)) /\ FreeFds(fds) # {})
        /\ Refuse("check") /\ Moves("finish")
        /\ UNCHANGED <<todo, files>>
  /\ UNCHANGED <<fds, backups, exit_requested, buffer, faults, calm>>

InputMoves(next) ==
  /\ pc = "input"
  /\ Moves(next)
  /\ UNCHANGED <<todo, stdout_backup, exit_requested, buffer, files, faults, calm>>

FromHeredoc == line.heredocs > 0 /\ fd_in > 0
FromFile    == ~FromHeredoc /\ Of(line.redirects, infile) # {}
InputFile   == TheOne(line.redirects, infile).file

NoInput ==
  /\ line.heredocs = 0 /\ Of(line.redirects, infile) = {}
  /\ stdin_backup' = NoFd
  /\ InputMoves("output")
  /\ UNCHANGED <<fds, env, outcome>>

SaveInputFails ==
  /\ line.heredocs > 0 \/ Of(line.redirects, infile) # {}
  /\ FreeFds(fds) = {}
  /\ stdin_backup' = NoFd
  /\ Refuse("input")
  /\ InputMoves("finish")
  /\ UNCHANGED fds

\* handle_heredoc_redirect.
HeredocInput ==
  /\ FromHeredoc /\ FreeFds(fds) # {}
  /\ LET saved == Dup(fds, 0)
     IN  /\ stdin_backup' = saved.fd
         /\ fds' = CloseAll(Dup2(saved.tab, fd_in, 0), {fd_in})
  /\ InputMoves("output")
  /\ UNCHANGED <<env, outcome>>

\* The heredoc has failed, and no file takes its place.
HeredocMissing ==
  /\ line.heredocs > 0 /\ ~FromHeredoc /\ ~FromFile /\ FreeFds(fds) # {}
  /\ LET saved == Dup(fds, 0) IN stdin_backup' = saved.fd /\ fds' = saved.tab
  /\ InputMoves("output")
  /\ UNCHANGED <<env, outcome>>

\* handle_file_input_redirect; NewInput is the table with the file open.
NewInput == Alloc(Dup(fds, 0).tab, FileObj(InputFile))

FileInput ==
  /\ FromFile /\ FreeFds(fds) # {} /\ Readable(files, InputFile) /\ NewInput.fd # NoFd
  /\ stdin_backup' = Dup(fds, 0).fd
  /\ fds' = CloseAll(Dup2(NewInput.tab, NewInput.fd, 0), {NewInput.fd})
  /\ InputMoves("output")
  /\ UNCHANGED <<env, outcome>>

\* The command runs all the same.
FaultFileInputFails ==
  /\ FromFile /\ FreeFds(fds) # {}
  /\ ~Readable(files, InputFile) \/ NewInput.fd = NoFd
  /\ stdin_backup' = NoFd
  /\ Report(1)
  /\ InputMoves("output")
  /\ UNCHANGED <<fds, outcome>>

\* The backup is closed before handle_input_redirect gives up.
FileInputFails ==
  /\ FromFile /\ FreeFds(fds) # {}
  /\ ~Readable(files, InputFile) \/ NewInput.fd = NoFd
  /\ LET saved == Dup(fds, 0)
     IN  /\ stdin_backup' = saved.fd
         /\ fds' = CloseAll(saved.tab, {saved.fd})
  /\ Refuse("input")
  /\ InputMoves("finish")

OutputMoves(next) ==
  /\ pc = "output"
  /\ Moves(next)
  /\ UNCHANGED <<todo, stdin_backup, exit_requested, buffer, faults, calm>>

ToFile     == Of(line.redirects, outfile) # {}
Output     == TheOne(line.redirects, outfile)
NewOutput  == Alloc(Dup(fds, 1).tab, FileObj(Output.file))

NoOutput ==
  /\ ~ToFile
  /\ stdout_backup' = NoFd
  /\ OutputMoves("run")
  /\ UNCHANGED <<fds, env, files, outcome>>

FileOutput ==
  /\ ToFile /\ FreeFds(fds) # {} /\ files[Output.file].write /\ NewOutput.fd # NoFd
  /\ stdout_backup' = Dup(fds, 1).fd
  /\ fds' = CloseAll(Dup2(NewOutput.tab, NewOutput.fd, 1), {NewOutput.fd})
  /\ files' = Opened(files, Output.file, Output.type)
  /\ OutputMoves("run")
  /\ UNCHANGED <<env, outcome>>

\* Neither the backup nor a redirected input is undone.
OutputFails ==
  /\ ToFile
  /\ FreeFds(fds) = {} \/ ~files[Output.file].write \/ NewOutput.fd = NoFd
  /\ stdout_backup' = Dup(fds, 1).fd
  /\ fds' = Dup(fds, 1).tab
  /\ Refuse("output")
  /\ OutputMoves("finish")
  /\ UNCHANGED files

-----------------------------------------------------------------------------
(* The command runs *)

RunMoves(next) ==
  /\ pc = "run"
  /\ ran' = [in |-> fds[0], out |-> fds[1]]
  /\ Moves(next)
  /\ UNCHANGED <<todo, backups, refused, calm>>

\* execute_builtin1.  What printf has not written yet stays with the shell;
\* an exit with too many arguments is one of these.
Builtin ==
  /\ line.command \in {"builtin", "partial"}
  /\ \/ /\ line.command = "builtin"
        /\ files' = Written(files, fds[1], lines)
        /\ UNCHANGED buffer
     \/ /\ line.command = "partial"
        /\ buffer' = lines
        /\ UNCHANGED files
  /\ UNCHANGED env \/ \E c \in {1, 2} : Report(c)
  /\ RunMoves("restore")
  /\ UNCHANGED <<fds, exit_requested, faults>>

\* ft_exit, leaving: it writes with write(), and closes what it takes for left
\* over.
Exit ==
  /\ line.command = "exit"
  /\ files' = Written(files, fds[1], lines)
  /\ \E c \in Codes : Report(c)
  /\ exit_requested' = TRUE
  /\ fds' = CloseAll(fds, 3 .. 9)
  /\ RunMoves("restore")
  /\ UNCHANGED <<buffer, faults>>

\* A child inherits the table; one that a signal kills reports nothing.
External ==
  /\ line.command \in {"program", "missing"}
  /\ \/ /\ line.command = "missing"
        /\ Report(127)
        /\ UNCHANGED files
     \/ /\ line.command = "program"
        /\ files' = Written(files, fds[1], lines)
        /\ UNCHANGED env \/ \E c \in Codes : Report(c)
  /\ RunMoves("restore")
  /\ UNCHANGED <<fds, exit_requested, buffer, faults>>

\* ft_fork ends the shell.
ForkFails ==
  /\ pc = "run" /\ line.command \in {"program", "missing"}
  /\ faults < MaxFaults /\ faults' = faults + 1
  /\ Moves("gone")
  /\ UNCHANGED <<todo, fds, backups, statusVars, buffer, files, outcome, calm>>

RestoreTable(fd, target, t) ==
  IF fd = NoFd THEN t ELSE CloseAll(Dup2(t, fd, target), {fd})

\* restore_io forgets to close the backup of the output.
FaultRestore ==
  /\ pc = "restore"
  /\ fds' = LET t == RestoreTable(stdin_backup, 0, fds)
            IN  IF stdout_backup = NoFd THEN t ELSE Dup2(t, stdout_backup, 1)
  /\ Moves("finish")
  /\ UNCHANGED <<todo, backups, statusVars, buffer, files, faults, outcome, calm>>

\* restore_io.
Restore ==
  /\ pc = "restore"
  /\ fds' = RestoreTable(stdout_backup, 1, RestoreTable(stdin_backup, 0, fds))
  /\ Moves("finish")
  /\ UNCHANGED <<todo, backups, statusVars, buffer, files, faults, outcome, calm>>

Finish ==
  /\ pc = "finish"
  /\ env' = IF exit_requested \/ env.exit THEN env ELSE [env EXCEPT !.exit_status = 0]
  /\ Moves(IF exit_requested THEN "gone" ELSE "prompt")
  /\ UNCHANGED <<todo, fds, backups, exit_requested, buffer, files, faults, outcome,
                 calm>>

-----------------------------------------------------------------------------
(* Other processes: the permissions of a file, or of its directory *)

Permit(fs, f, r, w) == [fs EXCEPT ![f] = [fs[f] EXCEPT !.read = r, !.write = w]]

Change ==
  /\ changes < MaxChanges /\ pc # "gone"
  /\ changes' = changes + 1 /\ calm' = FALSE
  /\ \E f \in Files, r, w \in BOOLEAN : files' = Permit(files, f, r, w)
  /\ UNCHANGED <<pc, lineVars, heredocVars, todo, fds, backups, statusVars, buffer,
                 faults, outcome>>

Next ==
  \/ Prompt \/ ReadLine \/ EndOfInput
  \/ Heredoc \/ HeredocFails \/ HeredocInterrupted
  \/ NotAlone \/ Alone \/ Check
  \/ NoInput \/ SaveInputFails \/ HeredocInput \/ HeredocMissing \/ FileInput
  \/ FileInputFails
  \/ NoOutput \/ FileOutput \/ OutputFails
  \/ Builtin \/ Exit \/ External \/ ForkFails \/ Restore \/ Finish
  \/ Change

Spec == Init /\ [][Next]_vars

=============================================================================
