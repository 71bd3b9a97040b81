--------------------------- MODULE HeredocProperties ---------------------------
(***************************************************************************)
(* What the shared temporary file leaves of the promise that a command     *)
(* reads the text of its heredoc.                                          *)
(***************************************************************************)
EXTENDS Heredoc, SequencesExt

(***************************************************************************)
(* Types of all variables.                                                 *)
(***************************************************************************)
File  == 0 .. Len(text)
Place == [file : File, offset : Nat]

TypeOK ==
  /\ pc \in [Shells -> {"idle", "create", "type", "reopen", "run"}]
  /\ count \in [Shells -> 0 .. MaxHeredocs] /\ k \in [Shells -> Index]
  /\ text \in Seq(Seq(Nat)) /\ path \in File
  /\ writer \in [Shells -> Place] /\ reader \in [Shells -> [Index -> Place]]
  /\ lines \in Nat /\ faults \in Nat /\ clock \in Nat
  /\ typed \in [Shells -> [Index -> Seq(Nat)]]
  /\ created \in [Shells -> [Index -> Nat]]
  /\ got \in [Shells -> [Index -> Seq(Nat)]]
  /\ eof \in [Shells -> [Index -> BOOLEAN]]
  /\ own \in [Shells -> BOOLEAN]

(***************************************************************************)
(* The last heredoc of a line reaches its command, complete, in order and  *)
(* with nothing added, if no other shell opens, writes or removes the file *)
(* from the moment it is opened until it has been read, and the system     *)
(* refuses neither open.                                                   *)
(***************************************************************************)
OwnText ==
  \A s \in Shells : pc[s] = "run" /\ own[s] =>
    /\ reader[s][k[s]].file # NoFile
    /\ IsPrefix(got[s][k[s]], typed[s][k[s]])
    /\ eof[s][k[s]] => got[s][k[s]] = typed[s][k[s]]

(***************************************************************************)
(* However the shells get in each other's way, and whatever is left over   *)
(* of heredocs that were interrupted, no command reads a line that was     *)
(* written before its own heredoc began.                                   *)
(***************************************************************************)
NoStaleText ==
  \A s \in Shells, j \in Index : \A c \in DOMAIN got[s][j] :
    got[s][j][c] # Hole => got[s][j][c] > created[s][j]

(***************************************************************************)
(* redirect_utils3.c:91-99: the "input lines are read & written to the     *)
(* temp file", which is "reopen[ed]" for the command: each command of the  *)
(* line gets the lines of its own heredoc.                                 *)
(***************************************************************************)
EachReadsItsOwn ==
  \A s \in Shells, j \in Index :
    pc[s] = "run" /\ eof[s][j] => got[s][j] = typed[s][j]

=============================================================================
