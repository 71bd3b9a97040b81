------------------------ MODULE EnvironmentProperties ------------------------
EXTENDS Environment

Shell == [env_var : Seq(Entry), environ : Seq(Entry), cwd : Dirs, strayed : BOOLEAN]

\* Type invariant: every variable keeps its type, and codes stay codes.
TypeOK ==
  /\ env_var \in Seq(Entry) /\ environ \in Seq(Entry) /\ before \in Seq(Entry)
  /\ cwd \in Dirs /\ strayed \in BOOLEAN
  /\ env \in Env
  /\ outer \in Seq(Shell) /\ Len(outer) <= MaxDepth
  /\ pc \in {"started", "prompt", "args", "cd", "pwd", "minishell", "exit", "end", "gone"}
  /\ command \in Command /\ next \in Nat \ {0}
  /\ lines \in 0 .. MaxLines /\ removed \subseteq Dirs

\* No sequence of export, unset and cd leaves a name twice in env_var, where a
\* reader would find the first and unset would uncover the second (update_env,
\* add_env and ft_unsetenv search by name from the start).
KeysUnique ==
  /\ Unique(env_var)
  /\ \A i \in DOMAIN outer : Unique(outer[i].env_var)

\* Unless PWD was inherited wrong, set or unset by the user, or the directory
\* was removed while cd was at work, PWD names the current directory of every
\* shell, whatever else was done.  And a cd leaves PWD as it was or gives it the
\* name of the current directory, whatever is removed under it: a getcwd() that
\* fails does not reach PWD (execute_cd).
PwdFollows ==
  /\ pc # "pwd" /\ ~strayed => Lookup(env_var, "PWD") = {Text(cwd)}
  /\ \A i \in DOMAIN outer :
       ~outer[i].strayed => Lookup(outer[i].env_var, "PWD") = {Text(outer[i].cwd)}
  /\ pc = "end" /\ command.kind = "cd" =>
       Lookup(env_var, "PWD") \in {Lookup(before, "PWD"), {Text(cwd)}}

Turns(k)  == {i \in DOMAIN command.args : command.args[i].name = k}
Refusals  == {i \in DOMAIN command.args : command.args[i].name \notin Keys}
LastOf(S) == CHOOSE i \in S : \A j \in S : j <= i
FirstOf(S) == CHOOSE i \in S : \A j \in S : i <= j
LastArg(k) == command.args[LastOf(Turns(k))]

\* An export gives each name of its arguments the value of the last argument
\* with that name, or some value if that one has none; an unset removes exactly
\* the names given to it, known or not, once or more often; and both leave all
\* other names alone.  Refused arguments of an export neither stop the loop nor
\* change a variable: the status is that of the first one (ft_export,
\* validate_export_key, ft_unset).
ArgumentsApplied ==
  pc = "end" /\ command.kind \in {"export", "unset"} =>
    /\ \A k \in Keys :
         /\ Turns(k) = {} => Lookup(env_var, k) = Lookup(before, k)
         /\ Turns(k) # {} /\ command.kind = "unset" => Lookup(env_var, k) = {}
         /\ Turns(k) # {} /\ command.kind = "export" =>
              /\ Lookup(env_var, k) # {}
              /\ LastArg(k).assigns => Lookup(env_var, k) = {LastArg(k).value}
    /\ command.kind = "export" =>
         /\ env.exit = (Refusals # {})
         /\ env.exit => env.exit_status =
              IF command.args[FirstOf(Refusals)].name = "-x" THEN 2 ELSE 1

\* A shell starts with a SHLVL that is a number an int holds, whatever it
\* inherited (add_shlvl).
ShlvlInRange ==
  pc = "started" =>
    \E n \in 0 .. MaxInt : Lookup(env_var, "SHLVL") = {Number(n)}

\* What a user may rely on, Bindings: one value for a name, one name changed at
\* a time, and nothing left of a shell inside the shell after its exit.
Entries(s) == {s[i] : i \in DOMAIN s}
B == INSTANCE Bindings WITH
       bindings <- Entries(env_var),
       outside  <- [i \in DOMAIN outer |-> Entries(outer[i].env_var)]
BindingsSpec == B!Spec

=============================================================================
