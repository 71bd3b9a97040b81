----------------------------- MODULE Environment -----------------------------
(***************************************************************************)
(* The environment of the shell (env_var of t_env) and the builtins that   *)
(* change it: export, unset and cd (src/builtin).  A shell started from    *)
(* the shell inherits the environment and raises SHLVL; the shells that    *)
(* wait for it are in outer.  Other processes may remove directories.      *)
(***************************************************************************)
EXTENDS StatusLatch, Sequences

CONSTANTS
  Keys,      \* names of variables; all of them are identifiers
  Strings,   \* texts a variable may have
  Dirs,      \* the directories, named as getcwd() names them
  Paths,     \* <<d, t, e>>: in directory d the text t leads to e
  Garbage,   \* what an uninitialized buffer may hold
  MaxInt,    \* INT_MAX
  Envps,     \* the environments main may be given
  Commands,  \* the command lines a user may type
  MaxLines,  \* bound on the command lines typed
  MaxDepth   \* bound on the shells inside one another

(***************************************************************************)
(* A value is a text; the text "#" stands for a decimal number, num.  The  *)
(* array env_var is a sequence of entries.                                 *)
(***************************************************************************)
Value   == [str : Strings, num : Int]
Entry   == [key : Keys, value : Value]
Text(t) == [str |-> t, num |-> 0]
Number(n) == [str |-> "#", num |-> n]

Bind(k, v) == [key |-> k, value |-> v]
Unique(s)  == \A i, j \in DOMAIN s : s[i].key = s[j].key => i = j

(***************************************************************************)
(* The arguments of export and unset: a name, and for "name=value" the     *)
(* value.  cd has its target in the value and no name.                                 *)
(***************************************************************************)
Refused == {"-x", "1x", ""}   \* names that are no identifiers
Arg     == [name : Keys \cup Refused, assigns : BOOLEAN, value : Value]
Command == [kind : {"export", "unset", "cd", "minishell", "exit"},
            args : Seq(Arg), code : Codes]

ASSUME EnvironmentAssumption ==
  /\ {"HOME", "PWD", "OLDPWD", "SHLVL"} \subseteq Keys
  /\ Refused \cap Keys = {}
  /\ {"#", "", "''"} \cup Dirs \cup Garbage \subseteq Strings
  /\ Paths \subseteq Dirs \X Strings \X Dirs
  /\ MaxInt \in Nat \ {0}
  /\ Envps \subseteq {s \in Seq(Entry) : Unique(s)}
  /\ Commands \subseteq Command
  /\ MaxLines \in Nat /\ MaxDepth \in Nat

VARIABLES
  env_var,   \* the environment of the shell that is running
  environ,   \* the one it was given, which getenv() reads
  cwd,       \* its current directory
  env,       \* exit_status and the latch
  strayed,   \* PWD need not be the current directory, see UpdatePwd
  outer,     \* the shells waiting for it, the outermost first
  pc, command, next,  \* the line, and the argument it is at
  lines, removed,     \* lines typed, directories removed
  before     \* env_var when the line was typed

process == <<env_var, environ, cwd, env, strayed, outer>>
vars == <<process, pc, command, next, lines, removed, before>>

-----------------------------------------------------------------------------
(* The array *)

Has(s, k)   == \E i \in DOMAIN s : s[i].key = k
First(s, k) == CHOOSE i \in DOMAIN s :
                 s[i].key = k /\ \A j \in 1 .. i - 1 : s[j].key # k
Lookup(s, k) == IF Has(s, k) THEN {s[First(s, k)].value} ELSE {}

\* The comparison with what is there left out.
FaultUpdateEnv(s, k, v) == Append(s, Bind(k, v))

\* update_env and add_env.
UpdateEnv(s, k, v) ==
  IF Has(s, k) THEN [s EXCEPT ![First(s, k)] = Bind(k, v)]
               ELSE Append(s, Bind(k, v))

Shift(s, f) == SubSeq(s, 1, f - 1) \o SubSeq(s, f + 1, Len(s))

\* The entries after the one removed are lost.
FaultUnsetEnv(s, k) == IF Has(s, k) THEN SubSeq(s, 1, First(s, k) - 1) ELSE s

\* ft_unsetenv.
UnsetEnv(s, k) == IF Has(s, k) THEN Shift(s, First(s, k)) ELSE s

\* A number assigned to an int.
Int32(n) == ((n + MaxInt + 1) % (2 * (MaxInt + 1))) - (MaxInt + 1)

\* The test against INT_MAX left out.
FaultRaised(n) == IF n < 0 THEN 0 ELSE n + 1

Raised(n) == IF n < 0 THEN 0 ELSE IF n >= MaxInt THEN 1 ELSE n + 1

\* An empty SHLVL counts as 0, anything else that is no number as absent.
AddShlvl(s) ==
  UpdateEnv(s, "SHLVL", Number(
    IF Has(s, "SHLVL") /\ s[First(s, "SHLVL")].value.str \in {"#", ""}
    THEN Raised(Int32(s[First(s, "SHLVL")].value.num))
    ELSE 1))

-----------------------------------------------------------------------------
Init ==
  /\ environ \in Envps /\ env_var = AddShlvl(environ)
  /\ cwd \in Dirs
  /\ strayed = (Lookup(environ, "PWD") # {Text(cwd)})
  /\ env = FreshEnv /\ outer = <<>>
  /\ pc = "started" /\ next = 1 /\ lines = 0 /\ removed = {}
  /\ command = [kind |-> "minishell", args |-> <<>>, code |-> 0]
  /\ before = env_var

Report(c) == env' = ExitStatus(env, c)
LineMoves(to) == pc' = to /\ UNCHANGED <<command, lines, removed, before>>

Started ==
  /\ pc = "started"
  /\ LineMoves("prompt")
  /\ UNCHANGED <<process, next>>

\* A command line, from the reset of the latch to the call of the builtin.
Type(c) ==
  /\ pc = "prompt" /\ lines < MaxLines
  /\ command' = c /\ next' = 1 /\ before' = env_var /\ lines' = lines + 1
  /\ pc' = IF c.kind \in {"export", "unset"} THEN "args" ELSE c.kind
  /\ env' = [env EXCEPT !.exit = FALSE]
  /\ UNCHANGED <<env_var, environ, cwd, strayed, outer, removed>>

EndOfLine ==
  /\ pc = "end"
  /\ env' = IF env.exit THEN env ELSE [env EXCEPT !.exit_status = 0]
  /\ LineMoves("prompt")
  /\ UNCHANGED <<env_var, environ, cwd, strayed, outer, next>>

\* One turn of the loops of ft_export and ft_unset.
AtArg(kind) == pc = "args" /\ command.kind = kind /\ next <= Len(command.args)
ThisArg     == command.args[next]

Touch(k) == strayed' = (strayed \/ k = "PWD")

ArgMoves ==
  /\ next' = next + 1
  /\ LineMoves("args")
  /\ UNCHANGED <<environ, cwd, outer>>

\* process_single_export_arg; a name without "=" gets the value ''.
ExportArg ==
  /\ AtArg("export") /\ ThisArg.name \in Keys
  /\ env_var' = UpdateEnv(env_var, ThisArg.name,
                          IF ThisArg.assigns THEN ThisArg.value ELSE Text("''"))
  /\ Touch(ThisArg.name)
  /\ ArgMoves /\ UNCHANGED env

\* The statuses of the two errors of validate_export_key exchanged.
FaultRefusal(name) == IF name = "-x" THEN 1 ELSE 2

Refusal(name) == IF name = "-x" THEN 2 ELSE 1

ExportRefused ==
  /\ AtArg("export") /\ ThisArg.name \notin Keys
  /\ Report(Refusal(ThisArg.name))
  /\ ArgMoves /\ UNCHANGED <<env_var, strayed>>

\* unset reports no error.
UnsetArg ==
  /\ AtArg("unset")
  /\ env_var' = UnsetEnv(env_var, ThisArg.name)
  /\ Touch(ThisArg.name)
  /\ ArgMoves /\ UNCHANGED env

ArgsDone ==
  /\ pc = "args" /\ next > Len(command.args)
  /\ LineMoves("end")
  /\ UNCHANGED <<process, next>>

-----------------------------------------------------------------------------
(* cd *)

CdMoves(to) == LineMoves(to) /\ UNCHANGED <<environ, outer, next>>

\* resolve_directory: HOME is taken from the environment the shell was given.
Target == CASE Len(command.args) = 0 -> Lookup(environ, "HOME")
            [] Len(command.args) = 1 -> {command.args[1].value}
            [] OTHER -> {}

Reachable == {d \in Dirs \ removed : \E v \in Target : <<cwd, v.str, d>> \in Paths}

\* Without a target there is nothing to do; two arguments are an error, and
\* so is a directory that is not there.
CdRefused ==
  /\ pc = "cd" /\ Reachable = {}
  /\ IF Target = {} /\ Len(command.args) = 0 THEN UNCHANGED env ELSE Report(1)
  /\ CdMoves("end")
  /\ UNCHANGED <<env_var, cwd, strayed>>

\* OLDPWD gets the directory left, whose name getcwd() may no longer find.
Chdir ==
  /\ pc = "cd"
  /\ \E d \in Reachable :
       \E old \in IF cwd \in removed THEN Garbage ELSE {cwd} :
         /\ cwd' = d
         /\ env_var' = UpdateEnv(env_var, "OLDPWD", Text(old))
  /\ CdMoves("pwd")
  /\ UNCHANGED <<env, strayed>>

\* PWD gets the name of the directory left.
FaultUpdatePwd ==
  /\ pc = "pwd"
  /\ \E v \in Lookup(env_var, "OLDPWD") : env_var' = UpdateEnv(env_var, "PWD", v)
  /\ strayed' = FALSE
  /\ CdMoves("end")
  /\ UNCHANGED <<env, cwd>>

\* The directory may have been removed since chdir().
UpdatePwd ==
  /\ pc = "pwd"
  /\ IF cwd \in removed
     THEN strayed' = TRUE /\ UNCHANGED env_var
     ELSE strayed' = FALSE /\ env_var' = UpdateEnv(env_var, "PWD", Text(cwd))
  /\ CdMoves("end")
  /\ UNCHANGED <<env, cwd>>

-----------------------------------------------------------------------------
(* Shells inside one another *)

\* fork, execve and main of the new shell.
StartShell ==
  /\ pc = "minishell" /\ Len(outer) < MaxDepth
  /\ outer' = Append(outer, [env_var |-> env_var, environ |-> environ, cwd |-> cwd,
                             strayed |-> strayed])
  /\ environ' = env_var /\ env_var' = AddShlvl(env_var)
  /\ env' = FreshEnv
  /\ LineMoves("started")
  /\ UNCHANGED <<cwd, strayed, next>>

\* The shell does not start.
StartFails ==
  /\ pc = "minishell"
  /\ \E c \in {126, 127} : Report(c)
  /\ LineMoves("end")
  /\ UNCHANGED <<env_var, environ, cwd, strayed, outer, next>>

Waited(c) == [exit_status |-> c, exit |-> TRUE]

\* exit, and the report of its code by the shell that has waited.
ExitShell ==
  /\ pc = "exit"
  /\ IF outer = <<>>
     THEN LineMoves("gone") /\ UNCHANGED process
     ELSE LET o == outer[Len(outer)]
          IN  /\ outer' = SubSeq(outer, 1, Len(outer) - 1)
              /\ env_var' = o.env_var /\ environ' = o.environ
              /\ cwd' = o.cwd /\ strayed' = o.strayed
              /\ env' = Waited(command.code)
              /\ LineMoves("end")
  /\ UNCHANGED next

-----------------------------------------------------------------------------
\* Another process removes a directory.
Remove(d) ==
  /\ d \notin removed
  /\ removed' = removed \cup {d}
  /\ UNCHANGED <<process, pc, command, next, lines, before>>

\* The session is over, or the user types nothing more.
Idle == pc \in {"prompt", "gone"} /\ UNCHANGED vars

ShellStep ==
  \/ Started \/ EndOfLine \/ ExportArg \/ ExportRefused \/ UnsetArg \/ ArgsDone
  \/ CdRefused \/ Chdir \/ UpdatePwd \/ StartShell \/ StartFails \/ ExitShell

Next ==
  \/ ShellStep \/ Idle
  \/ \E c \in Commands : Type(c)
  \/ \E d \in Dirs : Remove(d)

Spec == Init /\ [][Next]_vars

=============================================================================
