-------------------------------- MODULE Heredoc --------------------------------
(***************************************************************************)
(* Where the text of a heredoc goes (handle_heredoc in src/redirect): every *)
(* heredoc of every shell is written to the one file /tmp/minishell_heredoc, *)
(* which is truncated and not removed, then opened again for its command.  *)
(* The commands read when all heredocs of their line have been typed.      *)
(* Several shells may run at once; Shell has the signals of a heredoc.     *)
(*                                                                         *)
(* A line of text is one cell of the file, and is known by the time it was *)
(* written.                                                                *)
(***************************************************************************)
EXTENDS Naturals, Sequences

CONSTANTS
  Shells,
  MaxHeredocs,  \* bound on the heredocs of a line
  MaxLines,     \* bound on the lines all shells run
  MaxWrites,    \* bound on the lines of text typed in all
  MaxFaults     \* bound on the opens that the system refuses

ASSUME HeredocAssumption ==
  /\ MaxHeredocs \in Nat \ {0} /\ MaxLines \in Nat
  /\ MaxWrites \in Nat /\ MaxFaults \in Nat

Index  == 1 .. MaxHeredocs
NoFile == 0
Hole   == 0   \* a cell nobody wrote

VARIABLES
  pc,        \* where each shell is
  count, k,  \* heredocs of its line, the one being typed
  path,      \* the file at /tmp/minishell_heredoc
  text,      \* the cells of each file made so far
  writer,    \* the file handle_heredoc writes to, and its offset
  reader,    \* the same for what each command reads
  lines, faults,
  clock,     \* lines of text written so far
  typed,     \* the text of each heredoc of the line, as it was typed
  created,   \* the time its file was opened for writing
  got, eof,  \* what its command has read, and whether it met the end
  own        \* its heredoc could be opened, and no other shell was busy with one since

systemVars == <<path, text, faults>>
inputVars  == <<writer, clock, typed, created, own>>
readVars   == <<reader, got, eof>>
vars == <<pc, count, k, lines, systemVars, inputVars, readVars>>

AtStart     == [file |-> NoFile, offset |-> 0]
Advanced(p) == [file |-> p.file, offset |-> p.offset + 1]

Init ==
  /\ pc = [s \in Shells |-> "idle"]
  /\ count = [s \in Shells |-> 0] /\ k = [s \in Shells |-> 1]
  /\ path = NoFile /\ text = <<>>
  /\ writer = [s \in Shells |-> AtStart]
  /\ reader = [s \in Shells |-> [j \in Index |-> AtStart]]
  /\ lines = 0 /\ faults = 0 /\ clock = 0
  /\ typed = [s \in Shells |-> [j \in Index |-> <<>>]]
  /\ created = [s \in Shells |-> [j \in Index |-> 0]]
  /\ got = [s \in Shells |-> [j \in Index |-> <<>>]]
  /\ eof = [s \in Shells |-> [j \in Index |-> FALSE]]
  /\ own = [s \in Shells |-> FALSE]

Goes(s, where) == pc' = [pc EXCEPT ![s] = where]

\* The line is over, and its command list freed.
Idle(s) ==
  /\ Goes(s, "idle")
  /\ count' = [count EXCEPT ![s] = 0] /\ k' = [k EXCEPT ![s] = 1]
  /\ writer' = [writer EXCEPT ![s] = AtStart]
  /\ reader' = [reader EXCEPT ![s] = [j \in Index |-> AtStart]]
  /\ typed' = [typed EXCEPT ![s] = [j \in Index |-> <<>>]]
  /\ created' = [created EXCEPT ![s] = [j \in Index |-> 0]]
  /\ got' = [got EXCEPT ![s] = [j \in Index |-> <<>>]]
  /\ eof' = [eof EXCEPT ![s] = [j \in Index |-> FALSE]]

\* The heredocs of the other shells have company.
Company(s) == [t \in Shells |-> t = s /\ own[s]]

\* process_heredocs starts on the heredocs of a line.
Begin(s) ==
  /\ pc[s] = "idle" /\ lines < MaxLines
  /\ lines' = lines + 1
  /\ \E n \in Index : count' = [count EXCEPT ![s] = n]
  /\ Goes(s, "create")
  /\ UNCHANGED <<k, systemVars, inputVars, readVars>>

\* open() for writing: an existing file is used again.
NewFile == IF path = NoFile THEN Len(text) + 1 ELSE path

\* O_TRUNC left out.
FaultCreate(s) ==
  /\ pc[s] = "create"
  /\ path' = NewFile
  /\ text' = IF path = NoFile THEN Append(text, <<>>) ELSE text
  /\ writer' = [writer EXCEPT ![s] = [file |-> NewFile, offset |-> 0]]
  /\ created' = [created EXCEPT ![s][k[s]] = clock]
  /\ own' = [t \in Shells |-> t = s]
  /\ Goes(s, "type")
  /\ UNCHANGED <<count, k, lines, faults, clock, typed, readVars>>

\* create_heredoc_file.
Create(s) ==
  /\ pc[s] = "create"
  /\ path' = NewFile
  /\ text' = IF path = NoFile THEN Append(text, <<>>) ELSE [text EXCEPT ![path] = <<>>]
  /\ writer' = [writer EXCEPT ![s] = [file |-> NewFile, offset |-> 0]]
  /\ created' = [created EXCEPT ![s][k[s]] = clock]
  /\ own' = [t \in Shells |-> t = s]
  /\ Goes(s, "type")
  /\ UNCHANGED <<count, k, lines, faults, clock, typed, readVars>>

\* process_heredocs leaves its loop, and the line runs with what there is.
CreateFails(s) ==
  /\ pc[s] = "create" /\ faults < MaxFaults
  /\ faults' = faults + 1
  /\ own' = [own EXCEPT ![s] = FALSE]
  /\ Goes(s, "run")
  /\ UNCHANGED <<count, k, lines, path, text, writer, clock, typed, created,
                 readVars>>

\* write() at an offset beyond the end leaves a hole.
WrittenAt(cells, offset, x) ==
  [c \in 1 .. IF Len(cells) > offset THEN Len(cells) ELSE offset + 1 |->
     IF c = offset + 1 THEN x ELSE IF c <= Len(cells) THEN cells[c] ELSE Hole]

\* write_line_to_heredoc.
Type(s) ==
  /\ pc[s] = "type" /\ clock < MaxWrites
  /\ clock' = clock + 1
  /\ typed' = [typed EXCEPT ![s][k[s]] = Append(@, clock')]
  /\ LET w == writer[s]
     IN  /\ text' = [text EXCEPT ![w.file] = WrittenAt(@, w.offset, clock')]
         /\ writer' = [writer EXCEPT ![s] = Advanced(@)]
  /\ own' = Company(s)
  /\ UNCHANGED <<pc, count, k, lines, path, faults, created, readVars>>

\* The delimiter, or the end of the input.
End(s) ==
  /\ pc[s] = "type"
  /\ Goes(s, "reopen")
  /\ UNCHANGED <<count, k, lines, systemVars, inputVars, readVars>>

\* Ctrl-C: cleanup_heredoc removes the file, whosever it is, and the line is
\* not run.
Interrupt(s) ==
  /\ pc[s] = "type"
  /\ path' = NoFile
  /\ own' = [t \in Shells |-> FALSE]
  /\ Idle(s)
  /\ UNCHANGED <<lines, text, faults, clock>>

\* The descriptor that was written with is handed on.
FaultReopen(s) ==
  /\ pc[s] = "reopen" /\ path # NoFile
  /\ reader' = [reader EXCEPT ![s][k[s]] = writer[s]]
  /\ k' = IF k[s] < count[s] THEN [k EXCEPT ![s] = @ + 1] ELSE k
  /\ Goes(s, IF k[s] < count[s] THEN "create" ELSE "run")
  /\ UNCHANGED <<count, lines, systemVars, inputVars, got, eof>>

\* cleanup_heredoc opens what is at the path now.
Reopen(s) ==
  /\ pc[s] = "reopen" /\ path # NoFile
  /\ reader' = [reader EXCEPT ![s][k[s]] = [file |-> path, offset |-> 0]]
  /\ k' = IF k[s] < count[s] THEN [k EXCEPT ![s] = @ + 1] ELSE k
  /\ Goes(s, IF k[s] < count[s] THEN "create" ELSE "run")
  /\ UNCHANGED <<count, lines, systemVars, inputVars, got, eof>>

\* Another shell has removed the file, or the system refuses to open it.
ReopenFails(s) ==
  /\ pc[s] = "reopen"
  /\ \/ path = NoFile /\ UNCHANGED <<faults, own>>
     \/ /\ path # NoFile /\ faults < MaxFaults
        /\ faults' = faults + 1
        /\ own' = [own EXCEPT ![s] = FALSE]
  /\ Goes(s, "run")
  /\ UNCHANGED <<count, k, lines, path, text, writer, clock, typed, created, readVars>>

\* A command reads from its heredoc.
Read(s, j) ==
  /\ pc[s] = "run" /\ ~eof[s][j] /\ reader[s][j].file # NoFile
  /\ LET r == reader[s][j]
     IN  IF r.offset < Len(text[r.file])
         THEN /\ got' = [got EXCEPT ![s][j] = Append(@, text[r.file][r.offset + 1])]
              /\ reader' = [reader EXCEPT ![s][j] = Advanced(@)]
              /\ UNCHANGED eof
         ELSE /\ eof' = [eof EXCEPT ![s][j] = TRUE]
              /\ UNCHANGED <<got, reader>>
  /\ UNCHANGED <<pc, count, k, lines, systemVars, inputVars>>

\* The commands are done; they need not have read everything.
Finish(s) ==
  /\ pc[s] = "run"
  /\ own' = [own EXCEPT ![s] = FALSE]
  /\ Idle(s)
  /\ UNCHANGED <<lines, systemVars, clock>>

Next ==
  \E s \in Shells :
    \/ Begin(s) \/ Create(s) \/ CreateFails(s) \/ Type(s) \/ End(s) \/ Interrupt(s)
    \/ Reopen(s) \/ ReopenFails(s) \/ Finish(s)
    \/ \E j \in Index : Read(s, j)

Spec == Init /\ [][Next]_vars

=============================================================================
