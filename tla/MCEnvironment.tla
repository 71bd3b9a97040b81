---------------------------- MODULE MCEnvironment ----------------------------
EXTENDS EnvironmentProperties

MCKeys    == {"HOME", "PWD", "OLDPWD", "SHLVL", "A", "B"}
MCDirs    == {"/a", "/b"}
MCGarbage == {"junk"}
MCStrings == {"#", "", "''", "../b", "x", "y"} \cup MCDirs \cup MCGarbage
MCPaths   == {<<"/a", "../b", "/b">>} \cup {<<d, e, e>> : d \in MCDirs, e \in MCDirs}

\* No environment at all, one as login leaves it, one with an odd SHLVL.
MCEnvps ==
  { <<>>,
    << Bind("HOME", Text("/b")), Bind("SHLVL", Number(MaxInt)), Bind("PWD", Text("/a")) >>,
    << Bind("A", Text("x")), Bind("PWD", Text("/b")), Bind("SHLVL", Text("")),
       Bind("B", Text("y")) >>,
    << Bind("SHLVL", Text("x")), Bind("HOME", Text("/b")) >> }

Cmd(kind, args) == [kind |-> kind, args |-> args, code |-> 0]
Assign(k, t)    == [name |-> k, assigns |-> TRUE, value |-> Text(t)]
Name(k)         == [name |-> k, assigns |-> FALSE, value |-> Text("")]

MCCommands ==
  { Cmd("export", << Assign("A", "x"), Name("B") >>),
    Cmd("export", << Assign("1x", "y"), Assign("A", "y"), Name("-x"), Assign("A", "x") >>),
    Cmd("export", << Assign("HOME", "/a"), Assign("PWD", "x") >>),
    Cmd("export", << [name |-> "SHLVL", assigns |-> TRUE, value |-> Number(MaxInt)] >>),
    Cmd("export", << [name |-> "SHLVL", assigns |-> TRUE, value |-> Number(MaxInt + 2)] >>),
    Cmd("unset", << Name("A"), Name("PWD"), Name("1x"), Name("A") >>),
    Cmd("unset", << Name("SHLVL") >>),
    Cmd("cd", <<>>),
    Cmd("cd", << Assign("", "../b") >>),
    Cmd("cd", << Assign("", "/a") >>),
    Cmd("cd", << Assign("", "/a"), Assign("", "/b") >>),
    Cmd("minishell", <<>>),
    [kind |-> "exit", args |-> <<>>, code |-> 3] }

=============================================================================
