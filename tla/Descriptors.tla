---------------------------- MODULE Descriptors ----------------------------
(***************************************************************************)
(* Descriptor tables of Unix processes, as far as the shell depends on     *)
(* them: a table maps each descriptor number to what is open there, a new  *)
(* descriptor takes the lowest free number, dup copies an entry and dup2   *)
(* replaces one.  The kernel is not part of the repository; these          *)
(* operators model it from the way src/pipe and src/redirect use it.       *)
(***************************************************************************)
EXTENDS Integers

CONSTANT FdLimit  \* number of descriptors a process may have (RLIMIT_NOFILE)

\* stdin, stdout and stderr exist in every process of the shell.
ASSUME FdLimitAssumption == FdLimit \in Nat /\ FdLimit > 2

Fd   == 0 .. FdLimit - 1
NoFd == -1                 \* what a failed call returns, "none" in the code

Closed == <<"closed", 0>>  \* the entry of a number that is not in use

AllClosed == [f \in Fd |-> Closed]

FreeFds(t) == {f \in Fd : t[f] = Closed}

LowestFree(t) == CHOOSE f \in FreeFds(t) : \A g \in FreeFds(t) : f <= g

(***************************************************************************)
(* Each call that can run out of descriptors returns the new number (or    *)
(* NoFd) together with the table it leaves behind.                         *)
(***************************************************************************)
Alloc(t, d) ==
  IF FreeFds(t) = {}
  THEN [fd |-> NoFd, tab |-> t]
  ELSE [fd |-> LowestFree(t), tab |-> [t EXCEPT ![LowestFree(t)] = d]]

IsOpen(t, f) == f \in Fd /\ t[f] # Closed

Dup(t, f) ==
  IF IsOpen(t, f) THEN Alloc(t, t[f]) ELSE [fd |-> NoFd, tab |-> t]

\* A dup2 whose source is not open fails and changes nothing.
Dup2(t, f, g) == IF IsOpen(t, f) THEN [t EXCEPT ![g] = t[f]] ELSE t

\* close() on each number of F; numbers that are not open are EBADF.
CloseAll(t, F) == [f \in Fd |-> IF f \in F THEN Closed ELSE t[f]]

=============================================================================
