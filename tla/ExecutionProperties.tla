-------------------------- MODULE ExecutionProperties --------------------------
(***************************************************************************)
(* What carrying out a command promises: the right file is executed, a     *)
(* command that was not executed says so, and exit means its number.       *)
(***************************************************************************)
EXTENDS Execution

(***************************************************************************)
(* Types of all variables.                                                 *)
(***************************************************************************)
TypeOK ==
  /\ pc \in {"start", "search", "execve", "running", "check_dir", "check_stat",
             "check_access", "failed", "not_found", "cleanup", "done"}
  /\ cmd \in Command
  /\ tree \in [Places -> Node] /\ first \in [Places -> Node]
  /\ i \in Nat \ {0}
  /\ path \in Places \cup {Nowhere} /\ image \in Places \cup {Nowhere}
  /\ entry \in Env /\ env \in Env /\ exit_requested \in BOOLEAN
  /\ code \in Codes \cup {OwnCode, NoCode}
  /\ changes \in 0 .. MaxChanges /\ touched \subseteq Places

\* The places a command is looked for at, in order.
Candidates ==
  CASE cmd.name = "slash" -> <<cmd.place>>
    [] cmd.name = "search" -> IF cmd.path THEN cmd.places ELSE <<>>
    [] OTHER -> <<>>

(***************************************************************************)
(* The program that runs is at the first place of PATH that has something  *)
(* executable, and one runs whenever a program is there.  Other processes  *)
(* disturb this only at the places they change: an executable file is      *)
(* passed over, and something else is run, only if its place was changed   *)
(* between the search and execve.                                          *)
(***************************************************************************)
Runnable(p) == first[p] \in Executable

FirstExecutable ==
  pc \in {"running", "done"} /\ cmd.name = "search" =>
    /\ \A n \in DOMAIN Candidates :
         /\ Runnable(Candidates[n]) /\ Candidates[n] \notin touched
         /\ \A m \in 1 .. n - 1 : ~Runnable(Candidates[m]) /\ Candidates[m] \notin touched
         => image = IF first[Candidates[n]] = "program" THEN Candidates[n] ELSE Nowhere
    /\ image # Nowhere =>
         /\ first[image] = "program" \/ image \in touched
         /\ \E n \in DOMAIN Candidates :
              /\ Candidates[n] = image
              /\ \A m \in 1 .. n - 1 : Runnable(Candidates[m]) => Candidates[m] \in touched

\* What is there and cannot be executed, and the two cases in which the code
\* does not say so: a directory that cannot be opened is reported as a command
\* that was not found, and a file in PATH that is not executable is passed over.
Unusable == {"dir", "locked", "data"}
Untold   == \/ path # Nowhere /\ first[path] = "locked"
            \/ /\ cmd.name = "search" /\ path = Nowhere
               /\ \E p \in Range(Candidates) : first[p] = "data"

(***************************************************************************)
(* A child that started no program never passes for one: it exits with 126 *)
(* or 127 however the files change between the search, execve and the      *)
(* checks after it, and not with the status of an earlier line.  Where a   *)
(* status was pending already, as after a heredoc that failed, it is that  *)
(* one.  If nobody changes the places of the command, then but for the two *)
(* cases above 126 means that something was there that cannot be executed, *)
(* and 127 that nothing was or that its format is unknown.                 *)
(***************************************************************************)
FailureCode ==
  pc = "done" /\ cmd.name # "exit" /\ image = Nowhere =>
    /\ code = IF entry.exit THEN entry.exit_status ELSE env.exit_status
    /\ ~entry.exit => code \in {126, 127}
    /\ ~entry.exit /\ Range(Candidates) \cap touched = {} /\ ~Untold =>
         /\ code = 126 <=> path # Nowhere /\ first[path] \in Unusable
         /\ code = 127 <=> \/ \A p \in Range(Candidates) : first[p] = "absent"
                           \/ path # Nowhere /\ first[path] = "script"

Digits(a) == Len(a.digits)
Value(a)  == FoldLeft(LAMBDA sum, d : sum * 10 + d, 0, a.digits)

(***************************************************************************)
(* eval/issue.txt:20 "exit 1000... should return 2".  With a fresh latch,  *)
(* a number of one to nine digits exits with that number modulo 256, below *)
(* zero too; one of more than 20 digits, or an argument with anything but  *)
(* a sign and digits in it, with 2; no number of up to 16 digits, all of   *)
(* which fit a long long, is refused.  With two arguments exit stays.  Of  *)
(* an argument without a digit, which is_digit accepts, nothing is said.   *)
(***************************************************************************)
ExitMeansItsNumber ==
  pc = "done" /\ cmd.name = "exit" =>
    /\ exit_requested <=> Len(cmd.args) < 2
    /\ \A a \in Range(cmd.args) : Len(cmd.args) = 1 /\ ~entry.exit =>
         /\ ~a.junk /\ Digits(a) \in 1 .. 9 =>
              (env.exit_status - IF a.sign = "minus" THEN -Value(a) ELSE Value(a)) % 256 = 0
         /\ a.junk \/ Digits(a) > 20 => env.exit_status = 2
         /\ ~a.junk /\ Digits(a) <= 16 => ~TooLong(a)

=============================================================================
