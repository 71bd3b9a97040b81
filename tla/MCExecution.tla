------------------------------ MODULE MCExecution ------------------------------
(* Commands for the run of ExecutionProperties.                               *)
EXTENDS ExecutionProperties

MCCodes == 0 .. 255

MCPlaces == {"/a/c", "/b/c"}

\* Short numbers, and long ones around the limits of ft_exit and long long.
Short == UNION {[1 .. n -> {0, 2, 5, 9}] : n \in 0 .. 3}
Long  == {[d \in 1 .. n |-> IF d = 1 THEN 1 ELSE 0] : n \in {9, 19, 20, 21, 42}}
           \cup {[d \in 1 .. n |-> 9] : n \in {9, 16, 17, 21}}
Numbers == {[sign |-> s, digits |-> ds, junk |-> j] :
              s \in {"none", "plus", "minus"}, ds \in Short \cup Long, j \in BOOLEAN}
One == [sign |-> "none", digits |-> <<1>>, junk |-> FALSE]

Exits == {[name |-> "exit", args |-> args] :
            args \in {<<>>} \cup {<<a>> : a \in Numbers} \cup {<<a, One>> : a \in Numbers}}
Slash          == [name |-> "slash", place |-> "/a/c"]
Search(set, ps) == [name |-> "search", path |-> set, places |-> ps]

MCEntryEnv == {FreshEnv, [exit_status |-> 1, exit |-> FALSE],
               [exit_status |-> 1, exit |-> TRUE], [exit_status |-> 0, exit |-> TRUE]}
MCTrees    == [MCPlaces -> Node]

Nothing    == {[p \in MCPlaces |-> "absent"]}

MCStarts ==
  [cmd : Exits \cup {Search(FALSE, <<>>), Search(TRUE, <<>>)}, tree : Nothing,
   env : MCEntryEnv]
    \cup [cmd : {Slash, Search(TRUE, <<"/a/c", "/b/c">>)}, tree : MCTrees,
          env : MCEntryEnv]
=============================================================================
