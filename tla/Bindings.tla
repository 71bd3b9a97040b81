------------------------------ MODULE Bindings ------------------------------
(***************************************************************************)
(* What a user may rely on of the variables of a shell: each name has at   *)
(* most one value, a step changes one name and leaves all others alone,    *)
(* and what a shell inside the shell does is forgotten when it exits.      *)
(***************************************************************************)
EXTENDS Sequences, Naturals

VARIABLES
  bindings,  \* the variables of the shell: a set of [key, value]
  outside    \* those of the shells waiting for it

bindingVars == <<bindings, outside>>

Put(b) == {c \in bindings : c.key # b.key} \cup {b}

Set ==
  /\ \E b \in bindings' : bindings' = Put(b)
  /\ UNCHANGED outside

Unset ==
  /\ \E b \in bindings : bindings' = bindings \ {b}
  /\ UNCHANGED outside

\* A shell starts inside the shell with the same variables but for SHLVL.
Enter ==
  /\ outside' = Append(outside, bindings)
  /\ \E b \in bindings' : b.key = "SHLVL" /\ bindings' = Put(b)

Leave ==
  /\ outside # <<>>
  /\ bindings' = outside[Len(outside)]
  /\ outside' = SubSeq(outside, 1, Len(outside) - 1)

Init ==
  /\ \A b, c \in bindings : b.key = c.key => b = c
  /\ outside = <<>>

Next == Set \/ Unset \/ Enter \/ Leave

Spec == Init /\ [][Next]_bindingVars

=============================================================================
