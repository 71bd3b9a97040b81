------------------------------- MODULE MCShell -------------------------------
(* Lines for the runs of ShellProperties.                                   *)
EXTENDS ShellProperties

L(kind, code, heredocs) == [kind |-> kind, code |-> code, heredocs |-> heredocs]

MCCodes == {0, 1, 2, 3, 126, 127, 130, 131}

\* Every kind of line, and heredocs before each kind of execution.
MCLines == {
  L("blank", 0, 0), L("syntax", 0, 0), L("noword", 0, 1), L("badfile", 0, 0),
  L("builtin", 0, 1), L("failing", 0, 0), L("exit", 3, 0), L("exitargs", 0, 0),
  L("program", 3, 2), L("endless", 0, 0), L("missing", 0, 0),
  L("pipeline", 3, 1), L("exitpipe", 0, 0) }
=============================================================================
