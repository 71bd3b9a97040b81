------------------------------- MODULE Execution -------------------------------
(***************************************************************************)
(* How one command is carried out once its redirections are in place       *)
(* (execute_cmd, execute_builtin1): exit is a builtin that decides on its  *)
(* argument; an external command is looked for along PATH by the forked    *)
(* child, executed, and when that fails a status is made up from what the  *)
(* child then finds at the path.  Other processes may change the files     *)
(* between any two of these calls.                                         *)
(***************************************************************************)
EXTENDS StatusLatch, Sequences, SequencesExt

CONSTANTS
  Places,      \* the path names a command may be at
  Starts,      \* the commands that may be run, and what they find
  MaxChanges   \* bound on the changes other processes make

(***************************************************************************)
(* An argument is a sign, digits, and whether anything else is in it.      *)
(***************************************************************************)
Argument == [sign : {"none", "plus", "minus"}, digits : Seq(0 .. 9), junk : BOOLEAN]

(***************************************************************************)
(* exit with its arguments; a command with a slash in its name, which is   *)
(* the one place to look at; or a command to be looked for in the          *)
(* directories of PATH, if there is one.                                   *)
(***************************************************************************)
Command == [name : {"exit"}, args : Seq(Argument)]
             \cup [name : {"slash"}, place : Places]
             \cup [name : {"search"}, path : BOOLEAN, places : Seq(Places)]

(***************************************************************************)
(* What can be at a path: nothing, a program, an executable file of no     *)
(* known format, a file that is not executable, a directory, a directory   *)
(* that may be searched but not opened.                                    *)
(***************************************************************************)
Node       == {"absent", "program", "script", "data", "dir", "locked"}
Executable == {"program", "script", "dir", "locked"}  \* access(X_OK)

Nowhere == "nowhere"

(***************************************************************************)
(* exit takes a status of any eight bits.                                  *)
(***************************************************************************)
ASSUME ExecutionAssumption ==
  /\ Codes = 0 .. 255 /\ Nowhere \notin Places
  /\ Starts \subseteq [cmd : Command, tree : [Places -> Node], env : Env]
  /\ MaxChanges \in Nat

NoCode  == -1  \* the child has not ended
OwnCode == -2  \* what the program ends with, or the signal that kills it

VARIABLES
  pc,
  cmd,
  tree,     \* what is at each place
  first,    \* what was there when the command began
  i,        \* the directory find_path looks at
  path,     \* the path name found
  image,    \* the program that execve started
  entry,    \* env as the command found it
  env, exit_requested,
  code,     \* the child's exit code
  changes,
  touched   \* the places other processes have changed

vars == <<pc, cmd, tree, first, i, path, image, entry, env, exit_requested, code,
          changes, touched>>

Init ==
  /\ \E start \in Starts :
       cmd = start.cmd /\ tree = start.tree /\ first = tree
         /\ entry = start.env /\ env = entry
  /\ pc = "start" /\ i = 1 /\ path = Nowhere /\ image = Nowhere
  /\ exit_requested = FALSE /\ code = NoCode /\ changes = 0 /\ touched = {}

Moves(next) ==
  /\ pc' = next
  /\ UNCHANGED <<cmd, tree, first, entry, changes, touched>>

Report(c) == env' = ExitStatus(env, c)

-----------------------------------------------------------------------------
(* exit *)

\* is_digit allows a sign; is_valid_numeric_arg only a minus.
Numeric(a)      == ~a.junk
ValidNumeric(a) == ~a.junk /\ a.sign # "plus"

\* calculate_char_sum: all characters but a leading minus, by their codes.
CharSum(a) == FoldLeft(LAMBDA sum, d : sum + 48 + d,
                       IF a.sign = "plus" THEN 43 ELSE 0, a.digits)

TooLong(a) == CharSum(a) > IF a.sign = "minus" THEN 1001 ELSE 1000

\* A number below zero is left as it is.
FaultAtoi(a) == LET n == FoldLeft(LAMBDA sum, d : (sum * 10 + d) % 256, 0, a.digits)
                IN  IF a.sign = "minus" THEN -n ELSE n

\* ft_atoi, of which only the low eight bits reach the status.
Atoi(a) == LET n == FoldLeft(LAMBDA sum, d : (sum * 10 + d) % 256, 0, a.digits)
           IN  IF a.sign = "minus" THEN (256 - n) % 256 ELSE n

\* A number of any length is taken.
FaultExitArg(a) == IF ~Numeric(a) THEN 2 ELSE Atoi(a)

\* handle_exit_arg.
ExitArg(a) == IF ~Numeric(a) \/ TooLong(a) THEN 2 ELSE Atoi(a)

\* handle_too_many_args.
TooManyArgs(a) == IF ValidNumeric(a) THEN 1 ELSE 2

\* ft_exit.
Exit ==
  /\ pc = "start" /\ cmd.name = "exit"
  /\ \/ Len(cmd.args) = 0 /\ Report(0) /\ exit_requested' = TRUE
     \/ Len(cmd.args) = 1 /\ Report(ExitArg(cmd.args[1])) /\ exit_requested' = TRUE
     \/ Len(cmd.args) > 1 /\ Report(TooManyArgs(cmd.args[1])) /\ UNCHANGED exit_requested
  /\ Moves("done")
  /\ UNCHANGED <<i, path, image, code>>

-----------------------------------------------------------------------------
(* An external command, in the child *)

ChildMoves(next) ==
  /\ Moves(next)
  /\ UNCHANGED exit_requested

\* get_cmd_path.
GetCmdPath ==
  /\ pc = "start"
  /\ \/ cmd.name = "slash" /\ path' = cmd.place /\ ChildMoves("execve")
     \/ cmd.name = "search" /\ cmd.path /\ ChildMoves("search") /\ UNCHANGED path
     \/ cmd.name = "search" /\ ~cmd.path /\ ChildMoves("not_found") /\ UNCHANGED path
  /\ UNCHANGED <<i, image, env, code>>

\* A file that cannot be executed ends the search.
FaultFindPath ==
  /\ pc = "search"
  /\ \/ /\ i <= Len(cmd.places) /\ tree[cmd.places[i]] # "absent"
        /\ path' = cmd.places[i] /\ ChildMoves("execve")
        /\ UNCHANGED i
     \/ /\ i <= Len(cmd.places) /\ tree[cmd.places[i]] = "absent"
        /\ i' = i + 1 /\ ChildMoves("search")
        /\ UNCHANGED path
     \/ i > Len(cmd.places) /\ ChildMoves("not_found") /\ UNCHANGED <<i, path>>
  /\ UNCHANGED <<image, env, code>>

\* find_path, one directory at a time.
FindPath ==
  /\ pc = "search"
  /\ \/ /\ i <= Len(cmd.places) /\ tree[cmd.places[i]] \in Executable
        /\ path' = cmd.places[i] /\ ChildMoves("execve")
        /\ UNCHANGED i
     \/ /\ i <= Len(cmd.places) /\ tree[cmd.places[i]] \notin Executable
        /\ i' = i + 1 /\ ChildMoves("search")
        /\ UNCHANGED path
     \/ i > Len(cmd.places) /\ ChildMoves("not_found") /\ UNCHANGED <<i, path>>
  /\ UNCHANGED <<image, env, code>>

Execve ==
  /\ pc = "execve"
  /\ \/ tree[path] = "program" /\ image' = path /\ ChildMoves("running")
     \/ tree[path] # "program" /\ ChildMoves("check_dir") /\ UNCHANGED image
  /\ UNCHANGED <<i, path, env, code>>

\* check_execve_errors: opendir, stat, access.
CheckDir ==
  /\ pc = "check_dir"
  /\ \/ tree[path] = "dir" /\ Report(126) /\ ChildMoves("failed")
     \/ tree[path] # "dir" /\ ChildMoves("check_stat") /\ UNCHANGED env
  /\ UNCHANGED <<i, path, image, code>>

CheckStat ==
  /\ pc = "check_stat"
  /\ \/ tree[path] = "absent" /\ Report(127) /\ ChildMoves("failed")
     \/ tree[path] # "absent" /\ ChildMoves("check_access") /\ UNCHANGED env
  /\ UNCHANGED <<i, path, image, code>>

\* An executable file that could not be executed is given no status.
FaultCheckAccess ==
  /\ pc = "check_access"
  /\ IF tree[path] \in Executable THEN UNCHANGED env ELSE Report(126)
  /\ ChildMoves("failed")
  /\ UNCHANGED <<i, path, image, code>>

CheckAccess ==
  /\ pc = "check_access"
  /\ Report(IF tree[path] \in Executable THEN 127 ELSE 126)
  /\ ChildMoves("failed")
  /\ UNCHANGED <<i, path, image, code>>

\* execute_external goes on when ft_execve has left a status of 0.
Failed ==
  /\ pc = "failed"
  /\ ChildMoves(IF env.exit_status # 0 THEN "cleanup" ELSE "not_found")
  /\ UNCHANGED <<i, path, image, env, code>>

NotFound ==
  /\ pc = "not_found"
  /\ Report(127)
  /\ ChildMoves("cleanup")
  /\ UNCHANGED <<i, path, image, code>>

\* cleanup_external.
Cleanup ==
  /\ pc = "cleanup"
  /\ code' = env.exit_status
  /\ ChildMoves("done")
  /\ UNCHANGED <<i, path, image, env>>

\* The program itself.
Program ==
  /\ pc = "running"
  /\ code' = OwnCode
  /\ ChildMoves("done")
  /\ UNCHANGED <<i, path, image, env>>

\* Another process makes, removes or changes what is at a place.
Change ==
  /\ changes < MaxChanges /\ cmd.name # "exit" /\ pc # "done"
  /\ changes' = changes + 1
  /\ \E p \in Places, n \in Node :
       tree[p] # n /\ tree' = [tree EXCEPT ![p] = n] /\ touched' = touched \cup {p}
  /\ UNCHANGED <<pc, cmd, first, i, path, image, entry, env, exit_requested, code>>

Next ==
  \/ Exit \/ GetCmdPath \/ FindPath \/ Execve
  \/ CheckDir \/ CheckStat \/ CheckAccess \/ Failed \/ NotFound \/ Cleanup
  \/ Program \/ Change

Spec == Init /\ [][Next]_vars

=============================================================================
