------------------------------ MODULE MCRedirect ------------------------------
(* Files and command lines for the runs of RedirectProperties.               *)
EXTENDS RedirectProperties

L(command, heredocs, redirects) ==
  [command |-> command, heredocs |-> heredocs, redirects |-> redirects]

In(f)     == [type |-> "in", file |-> f]
Out(f)    == [type |-> "out", file |-> f]
More(f)   == [type |-> "append", file |-> f]

MCCodes == {0, 1, 2, 126, 127, 130}

Missing   == [exists |-> FALSE, read |-> TRUE, write |-> TRUE, text |-> <<>>]
Forbidden == [exists |-> FALSE, read |-> TRUE, write |-> FALSE, text |-> <<>>]
Plain     == [exists |-> TRUE, read |-> TRUE, write |-> TRUE, text |-> <<0>>]
ReadOnly  == [exists |-> TRUE, read |-> TRUE, write |-> FALSE, text |-> <<0>>]

MCFiles == {1, 2}
MCFirstFiles == [MCFiles -> {Missing, Forbidden, Plain, ReadOnly}]

MCLines == {
  L("program", 0, <<In(1), Out(2)>>),
  L("builtin", 0, <<Out(1), More(1), Out(2)>>),
  L("builtin", 0, <<More(2), In(1), More(1)>>),
  L("program", 1, <<Out(1), In(2)>>),
  L("program", 1, <<More(1)>>),
  L("program", 1, <<>>),
  L("missing", 0, <<In(2), In(1)>>),
  L("partial", 1, <<Out(1)>>),
  L("exit", 0, <<In(1), Out(2)>>),
  L("none", 1, <<Out(1)>>),
  L("pipeline", 2, <<>>) }

FewLines == {
  L("program", 0, <<In(1), Out(2)>>),
  L("partial", 0, <<Out(1)>>) }
=============================================================================
