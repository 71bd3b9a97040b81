-------------------------------- MODULE Job ---------------------------------
(***************************************************************************)
(* What a caller may rely on when the shell runs a pipeline: children are  *)
(* launched, exit in any order and are reaped, each once; the line is over *)
(* when none is left to reap, or when the shell is leaving.                *)
(***************************************************************************)
CONSTANT Stage  \* the commands of the pipeline

VARIABLES
  phase,     \* "launching", "waiting" or "over"
  leaving,   \* the shell was asked to exit
  launched,  \* commands that have been forked
  exited,    \* those of them that have terminated
  reaped     \* those of them the shell has waited for

jobVars == <<phase, leaving, launched, exited, reaped>>

Init ==
  /\ phase = "launching" /\ leaving = FALSE
  /\ launched = {} /\ exited = {} /\ reaped = {}

Launch(p) ==
  /\ phase = "launching" /\ ~leaving /\ p \notin launched
  /\ launched' = launched \cup {p}
  /\ UNCHANGED <<phase, leaving, exited, reaped>>

\* An interrupt ends several children at once.
Exit(P) ==
  /\ P \subseteq launched \ exited
  /\ exited' = exited \cup P
  /\ UNCHANGED <<phase, leaving, launched, reaped>>

StopLaunching ==
  /\ phase = "launching"
  /\ phase' = "waiting" /\ leaving' \in BOOLEAN
  /\ UNCHANGED <<launched, exited, reaped>>

Reap(p) ==
  /\ phase = "waiting" /\ ~leaving /\ p \in exited \ reaped
  /\ reaped' = reaped \cup {p}
  /\ UNCHANGED <<phase, leaving, launched, exited>>

Finish ==
  /\ phase = "waiting" /\ (leaving \/ reaped = launched)
  /\ phase' = "over"
  /\ UNCHANGED <<leaving, launched, exited, reaped>>

Next ==
  \/ \E p \in Stage : Launch(p) \/ Reap(p)
  \/ \E P \in SUBSET Stage : Exit(P)
  \/ StopLaunching \/ Finish

Spec == Init /\ [][Next]_jobVars

=============================================================================
