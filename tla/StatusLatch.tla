----------------------------- MODULE StatusLatch -----------------------------
(***************************************************************************)
(* The two fields of t_env that carry $?: the status, and the latch that   *)
(* makes exit_status() keep the first status reported since the main loop  *)
(* last cleared it.                                                        *)
(***************************************************************************)
EXTENDS Integers

CONSTANT Codes  \* exit codes

ASSUME CodesAssumption == {0, 1, 2, 126, 127} \subseteq Codes /\ Codes \subseteq 0 .. 255

Env == [exit_status : Codes, exit : BOOLEAN]

\* exit_status(): only the first status of a command line is kept.
ExitStatus(e, c) == IF e.exit THEN e ELSE [exit_status |-> c, exit |-> TRUE]

\* The status main leaves in a fresh t_env.
FreshEnv == [exit_status |-> 0, exit |-> FALSE]

=============================================================================
