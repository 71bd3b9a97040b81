----------------------------- MODULE MCPipeline -----------------------------
(* Command lists and other constants for the runs of PipelineProperties.    *)
EXTENDS PipelineProperties

C(prog)             == [prog |-> prog, in |-> "pipe", out |-> "pipe"]
R(prog, in, out)    == [prog |-> prog, in |-> in, out |-> out]

MCCodes == {0, 1, 2, 126, 127}
Fresh   == {[exit_status |-> 0, exit |-> FALSE]}
Entries == Fresh \cup {[exit_status |-> 1, exit |-> FALSE],
                       [exit_status |-> 1, exit |-> TRUE]}

MCPipelines == {
  <<C("yes"), C("cat"), C("head")>>,
  <<C("builtin"), C("cat"), C("failing")>>,
  <<R("head", "heredoc", "pipe"), R("cat", "heredoc", "pipe"), C("builtin")>>,
  <<R("cat", "file", "file"), C("empty"), R("cat", "file", "pipe")>>,
  <<C("yes"), C("head"), C("exit")>>,
  <<C("builtin"), C("exitargs"), C("cat")>>,
  <<C("cat"), C("builtin"), C("exitargs")>> }

\* Four commands on few descriptors: after a first pipe() that fails the
\* backups are gone, and later stages run out of descriptors themselves.
TightPipelines == {
  <<C("cat"), C("yes"), C("cat"), C("head")>>,
  <<C("cat"), R("head", "file", "pipe"), R("cat", "pipe", "file"), C("exit")>>,
  <<C("cat"), R("head", "heredoc", "pipe"), C("failing"), R("cat", "file", "file")>>,
  <<C("cat"), C("builtin"), R("cat", "heredoc", "pipe"), C("cat")>> }

\* Every kind of producer and consumer next to each other; on seven descriptors
\* the first two are connected and a later pipe() fails.  With two heredocs a
\* pipe takes the last descriptors, and its writer has none left for a dup().
LivePipelines == TightPipelines \cup {
  <<C("yes"), C("head"), C("cat"), C("empty")>>,
  <<C("yes"), R("cat", "file", "pipe"), C("cat"), C("head")>>,
  <<R("cat", "heredoc", "file"), C("head"), C("builtin"), C("cat")>>,
  <<C("yes"), C("cat"), R("cat", "heredoc", "pipe"), R("head", "heredoc", "pipe")>>,
  <<C("yes"), C("cat"), C("head"), C("exit")>> }
=============================================================================
