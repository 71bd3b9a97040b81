---------------------------- MODULE RedirectProofs ----------------------------
(***************************************************************************)
(* RunsWithItsFiles and TableRestored hold for every set of lines and      *)
(* files and every number of descriptors.  The inductive invariant follows *)
(* the table from step to step: which of the four numbers in play (0, 1    *)
(* and the two backups) may differ from the table before the line, and     *)
(* what they hold.                                                         *)
(***************************************************************************)
EXTENDS RedirectProperties, DescriptorsProofs, SequenceTheorems, FiniteSetTheorems

Entry == Object \cup {Closed}

-----------------------------------------------------------------------------
(* Facts about the redirections of a line *)

\* A set of indices has a greatest element.
LEMMA GreatestIndex ==
  ASSUME NEW n \in Nat, NEW S \in SUBSET (1 .. n), S # {}
  PROVE  \E i \in S : \A j \in S : j <= i
<1> DEFINE Less == {ss \in Nat \X Nat : ss[1] < ss[2]}
           D    == {n - i : i \in S}
<1>1. D # {} /\ D \subseteq Nat
  <2>1. ASSUME NEW i \in S PROVE n - i \in Nat
    OBVIOUS
  <2>2. D \subseteq Nat
    BY <2>1
  <2> QED
    BY <2>2
<1>2. IsWellFoundedOn(Less, Nat)
  BY Zenon, NatLessThanWellFounded DEF OpToRel
<1>3. PICK x \in D : \A y \in D : ~(<<y, x>> \in Less)
  BY <1>1, <1>2, WFMin, Zenon
<1>4. PICK i \in S : x = n - i
  OBVIOUS
<1>5. ASSUME NEW j \in S PROVE j <= i
  <2>1. n - j \in D /\ n - j \in Nat /\ n - i \in Nat
    OBVIOUS
  <2>2. ~(n - j < n - i)
    BY <1>3, <1>4, <2>1
  <2> QED
    BY <2>2
<1> QED
  BY <1>5

\* TheOne is the last redirection of the given types.
LEMMA TheOneIsLast ==
  ASSUME NEW rs \in Seq(Redirection), NEW types, Of(rs, types) # {}
  PROVE  \E i \in DOMAIN rs :
           /\ rs[i].type \in types /\ TheOne(rs, types) = rs[i]
           /\ \A j \in i + 1 .. Len(rs) : rs[j].type \notin types
<1>1. Of(rs, types) \in SUBSET (1 .. Len(rs)) /\ Len(rs) \in Nat
  BY DEF Of
<1>2. \E i \in Of(rs, types) : \A j \in Of(rs, types) : j <= i
  BY <1>1, GreatestIndex
<1> DEFINE last == CHOOSE i \in Of(rs, types) : \A j \in Of(rs, types) : j <= i
<1>3. last \in Of(rs, types) /\ \A j \in Of(rs, types) : j <= last
  BY <1>2
<1>4. TheOne(rs, types) = rs[last]
  BY DEF TheOne
<1> HIDE DEF last
<1>5. last \in DOMAIN rs /\ last \in Nat /\ rs[last].type \in types
  BY <1>1, <1>3 DEF Of
<1>6. ASSUME NEW j \in last + 1 .. Len(rs) PROVE rs[j].type \notin types
  <2>1. j \in DOMAIN rs /\ ~(j <= last)
    BY <1>1, <1>5
  <2> QED
    BY <1>3, <2>1 DEF Of
<1> QED
  BY <1>4, <1>5, <1>6

-----------------------------------------------------------------------------
(* Types *)

\* What open() and the commands write leaves the files files.
LEMMA FilesStay ==
  ASSUME NEW fs \in [Files -> File]
  PROVE  /\ \A f \in Files : \A type : Opened(fs, f, type) \in [Files -> File]
         /\ \A o : \A n \in Nat : Written(fs, o, n) \in [Files -> File]
<1>1. ASSUME NEW f \in Files, NEW type
      PROVE  Opened(fs, f, type) \in [Files -> File]
  <2> DEFINE text == IF type = "out" THEN <<>> ELSE fs[f].text
             new  == [fs[f] EXCEPT !.exists = TRUE, !.text = text]
  <2>1. fs[f] \in File /\ text \in Seq(Nat)
    BY DEF File
  <2> HIDE DEF text
  <2>2. new \in File
    BY <2>1 DEF File
  <2>3. Opened(fs, f, type) = [fs EXCEPT ![f] = new]
    BY Zenon DEF Opened, text
  <2> QED
    BY <2>2, <2>3
<1>2. ASSUME NEW o, NEW n \in Nat
      PROVE  Written(fs, o, n) \in [Files -> File]
  <2>1. \A g \in Files : fs[g] \in File /\ Append(fs[g].text, n) \in Seq(Nat)
    BY DEF File
  <2>2. \A g \in Files : [fs[g] EXCEPT !.text = Append(@, n)] \in File
    BY <2>1 DEF File
  <2> QED
    BY <2>1, <2>2 DEF Written
<1> QED
  BY <1>1, <1>2

LEMMA PermitStays ==
  ASSUME NEW fs \in [Files -> File], NEW f \in Files, NEW r \in BOOLEAN, NEW w \in BOOLEAN
  PROVE  Permit(fs, f, r, w) \in [Files -> File]
<1> DEFINE new == [fs[f] EXCEPT !.read = r, !.write = w]
<1>1. fs[f] \in File
  OBVIOUS
<1>2. new \in File
  BY <1>1 DEF File
<1>3. Permit(fs, f, r, w) = [fs EXCEPT ![f] = new]
  BY Zenon DEF Permit
<1> HIDE DEF new
<1> QED
  BY <1>2, <1>3

LEMMA StatusStays ==
  ASSUME NEW e \in Env, NEW c \in Codes
  PROVE  ExitStatus(e, c) \in Env
BY DEF ExitStatus, Env

\* What a line is made of.
LEMMA LineParts ==
  ASSUME NEW l \in Lines \cup {NoLine}
  PROVE  /\ l.heredocs \in Nat /\ l.redirects \in Seq(Redirection)
         /\ l.command # "pipeline" => l.heredocs <= 1
<1>1. CASE l \in Lines
  BY <1>1, RedirectAssumption DEF Line
<1>2. CASE l = NoLine
  BY <1>2 DEF NoLine
<1> QED
  BY <1>1, <1>2

LEMMA TheOneTyped ==
  ASSUME NEW rs \in Seq(Redirection), NEW types, Of(rs, types) # {}
  PROVE  TheOne(rs, types).file \in Files
<1>1. PICK i \in DOMAIN rs : TheOne(rs, types) = rs[i]
  BY TheOneIsLast
<1>2. rs[i] \in Redirection
  OBVIOUS
<1> QED
  BY <1>1, <1>2 DEF Redirection

\* The calls on the table keep it a table.
LEMMA TableStays ==
  ASSUME NEW t \in [Fd -> Entry], NEW d \in Entry, NEW f, NEW g, NEW F
  PROVE  /\ Alloc(t, d).tab \in [Fd -> Entry] /\ Alloc(t, d).fd \in Fd \cup {NoFd}
         /\ Dup(t, f).tab \in [Fd -> Entry] /\ Dup(t, f).fd \in Fd \cup {NoFd}
         /\ Dup2(t, f, g) \in [Fd -> Entry]
         /\ CloseAll(t, F) \in [Fd -> Entry]
         /\ RestoreTable(f, g, t) \in [Fd -> Entry]
<1>1. Closed \in Entry /\ [Fd -> Entry] = Table(Entry)
  BY DEF Entry, Table
<1>2. Dup2(t, f, g) \in Table(Entry)
  BY <1>1, Dup2Table
<1>3. RestoreTable(f, g, t) \in Table(Entry)
  BY <1>1, <1>2, CloseAllTable DEF RestoreTable
<1> QED
  BY <1>1, <1>2, <1>3, AllocTable, DupTable, CloseAllTable

LEMMA Descriptors012 == {0, 1, 2} \subseteq Fd /\ NoFd \notin Fd /\ \A f \in Fd : f \in Nat
BY FdLimitAssumption DEF Fd, NoFd

LEMMA TypeInit == Init => TypeOK
<1> SUFFICES ASSUME Init PROVE TypeOK
  OBVIOUS
<1>1. fds \in [Fd -> Object \cup {Closed}]
  BY DEF Init, Object
<1>2. files \in [Files -> File]
  BY RedirectAssumption DEF Init
<1>3. FreshEnv \in Env
  BY CodesAssumption DEF FreshEnv, Env
<1>4. /\ 0 \in Fd /\ 0 \in 0 .. MaxLines /\ 0 \in 0 .. MaxChanges /\ 0 \in 0 .. MaxFaults
  BY Descriptors012, RedirectAssumption
<1>5. NotRun \in [in : Object \cup {Closed}, out : Object \cup {Closed}]
  BY DEF NotRun
<1>6. before \in [fds : [Fd -> Object \cup {Closed}], files : [Files -> File]]
  BY <1>1, <1>2 DEF Init
<1>7. todo \in Seq(Redirection) /\ line \in Lines \cup {NoLine} /\ hd \in Nat
  BY DEF Init
<1> QED
  BY <1>1, <1>2, <1>3, <1>4, <1>5, <1>6, <1>7 DEF Init, TypeOK

\* A line is being run.
Started == pc \notin {"prompt", "readline", "gone"} => lines \in 1 .. MaxLines

LEMMA TypeStep ==
  ASSUME TypeOK, Started, [Next]_vars
  PROVE  TypeOK' /\ Started'
<1> USE DEF TypeOK, Started, lineVars, heredocVars, backups, statusVars, worldVars, outcome
<1>1. /\ line.heredocs \in Nat /\ line.redirects \in Seq(Redirection)
      /\ 0 \in Fd /\ 1 \in Fd /\ 2 \in Fd /\ {0, 1, 127, 130} \subseteq Codes
      /\ MaxFaults \in Nat /\ MaxChanges \in Nat
  BY LineParts, Descriptors012, CodesAssumption, RedirectAssumption
<1>2. \A c \in Codes : ExitStatus(env, c) \in Env
  BY StatusStays
<1>3. [fds |-> fds, files |-> files]
        \in [fds : [Fd -> Object \cup {Closed}], files : [Files -> File]]
  OBVIOUS
<1>4. /\ [env EXCEPT !.exit = FALSE] \in Env /\ [env EXCEPT !.exit_status = 0] \in Env
  BY <1>1 DEF Env
<1>5. NotRun \in [in : Object \cup {Closed}, out : Object \cup {Closed}]
  BY DEF NotRun
<1>6. CASE UNCHANGED vars
  BY <1>6 DEF vars
<1>7. CASE Prompt
  <2>1. buffer \in Nat /\ 0 \in 0 .. MaxLines
    BY RedirectAssumption
  <2>2. files' \in [Files -> File]
    BY <1>7, <2>1, FilesStay DEF Prompt
  <2> QED
    BY <1>4, <1>7, <2>1, <2>2 DEF Prompt
<1>8. CASE ReadLine
  <2>1. line' \in Lines /\ lines' \in 1 .. MaxLines /\ line'.redirects \in Seq(Redirection)
    BY <1>8, LineParts, RedirectAssumption DEF ReadLine
  <2>2. lines' \in 0 .. MaxLines
    BY <2>1
  <2>3. before' \in [fds : [Fd -> Object \cup {Closed}], files : [Files -> File]]
    BY <1>3, <1>8 DEF ReadLine
  <2>4. /\ line' \in Lines \cup {NoLine} /\ hd' \in Nat /\ fd_in' \in Fd
        /\ todo' \in Seq(Redirection) /\ pc' = "heredocs" /\ refused' = "no"
        /\ calm' = TRUE
    BY <1>1, <1>8, <2>1 DEF ReadLine
  <2>5. ran' \in [in : Object \cup {Closed}, out : Object \cup {Closed}]
    BY <1>5, <1>8 DEF ReadLine
  <2>6. UNCHANGED <<fds, stdin_backup, stdout_backup, env, exit_requested, buffer,
                    files, changes, faults>>
    BY <1>8 DEF ReadLine
  <2>7. Started'
    BY <2>1
  <2>8. lines' \in 0 .. MaxLines
    BY <2>2
  <2>9. TypeOK'
    BY <2>2, <2>3, <2>4, <2>5, <2>6
  <2> QED
    BY ONLY <2>7, <2>9
<1>9. CASE EndOfInput
  BY <1>9 DEF EndOfInput
<1>10. CASE Heredoc
  <2>1. HereDoc(lines) \in Entry
    BY <1>10 DEF Heredoc, Entry, Object
  <2>2. fds' \in [Fd -> Entry] /\ fd_in' \in Fd
    BY <1>10, <2>1, AllocEffect, TableStays DEF Heredoc, Entry
  <2> QED
    BY <1>10, <2>2 DEF Heredoc, HeredocMoves, Entry
<1>11. CASE HeredocFails
  <2>1. env' \in Env
    BY <1>1, <1>2, <1>11 DEF HeredocFails, Report
  <2>2. faults' \in 0 .. MaxFaults
    BY <1>1, <1>11 DEF HeredocFails
  <2> QED
    BY <1>1, <1>11, <2>1, <2>2 DEF HeredocFails, HeredocMoves
<1>12. CASE HeredocInterrupted
  <2>1. env' \in Env
    BY <1>1, <1>2, <1>12 DEF HeredocInterrupted, Report
  <2>2. faults' \in 0 .. MaxFaults
    BY <1>1, <1>12 DEF HeredocInterrupted
  <2> QED
    BY <1>12, <2>1, <2>2 DEF HeredocInterrupted, HeredocMoves
<1>13. CASE NotAlone
  BY <1>2, <1>13 DEF NotAlone, Moves, Report
<1>14. CASE Alone
  BY <1>14 DEF Alone, Moves
<1>15. CASE Check
  <2>1. CASE todo = <<>>
    BY <1>15, <2>1 DEF Check, Moves
  <2>2. CASE todo # <<>>
    <3>1. Head(todo) \in Redirection /\ Tail(todo) \in Seq(Redirection)
      BY <2>2
    <3>2. Tried(files, Head(todo)) \in [Files -> File]
      BY <3>1, FilesStay DEF Tried, Redirection
    <3> QED
      BY <1>1, <1>2, <1>15, <2>2, <3>1, <3>2 DEF Check, Moves, Refuse, Report
  <2> QED
    BY <2>1, <2>2
<1>16. CASE NoInput
  BY <1>16 DEF NoInput, InputMoves, Moves
<1>17. CASE SaveInputFails
  BY <1>1, <1>2, <1>17 DEF SaveInputFails, InputMoves, Moves, Refuse, Report
<1> DEFINE saved(f) == Dup(fds, f)
<1>18. \A f : /\ saved(f).tab \in [Fd -> Object \cup {Closed}]
              /\ saved(f).fd \in Fd \cup {NoFd}
  BY TableStays DEF Entry
<1>19. CASE HeredocInput
  <2>1. CloseAll(Dup2(saved(0).tab, fd_in, 0), {fd_in}) \in [Fd -> Object \cup {Closed}]
    BY <1>18, TableStays DEF Entry
  <2> QED
    BY <1>18, <1>19, <2>1 DEF HeredocInput, InputMoves, Moves
<1>20. CASE HeredocMissing
  BY <1>18, <1>20 DEF HeredocMissing, InputMoves, Moves
<1>21. CASE FileInput
  <2>1. FileObj(InputFile) \in Entry
    BY <1>1, <1>21, TheOneTyped DEF FileInput, FromFile, InputFile, Entry, Object
  <2>2. NewInput.tab \in [Fd -> Entry]
    BY <1>18, <2>1, TableStays DEF NewInput, Entry
  <2>3. CloseAll(Dup2(NewInput.tab, NewInput.fd, 0), {NewInput.fd}) \in [Fd -> Entry]
    BY <2>2, TableStays
  <2> QED
    BY <1>18, <1>21, <2>3 DEF FileInput, InputMoves, Moves, Entry
<1>22. CASE FileInputFails
  <2>1. CloseAll(saved(0).tab, {saved(0).fd}) \in [Fd -> Object \cup {Closed}]
    BY <1>18, TableStays DEF Entry
  <2> QED
    BY <1>1, <1>2, <1>18, <1>22, <2>1 DEF FileInputFails, InputMoves, Moves, Refuse, Report
<1>23. CASE NoOutput
  BY <1>23 DEF NoOutput, OutputMoves, Moves
<1>24. CASE FileOutput
  <2>1. Output.file \in Files
    BY <1>1, <1>24, TheOneTyped DEF FileOutput, ToFile, Output
  <2>2. FileObj(Output.file) \in Entry
    BY <2>1 DEF Entry, Object
  <2>3. NewOutput.tab \in [Fd -> Entry]
    BY <1>18, <2>2, TableStays DEF NewOutput, Entry
  <2>4. CloseAll(Dup2(NewOutput.tab, NewOutput.fd, 1), {NewOutput.fd}) \in [Fd -> Entry]
    BY <2>3, TableStays
  <2>5. Opened(files, Output.file, Output.type) \in [Files -> File]
    BY <2>1, FilesStay
  <2> QED
    BY <1>18, <1>24, <2>4, <2>5 DEF FileOutput, OutputMoves, Moves, Entry
<1>25. CASE OutputFails
  BY <1>1, <1>2, <1>18, <1>25 DEF OutputFails, OutputMoves, Moves, Refuse, Report
<1>26. /\ [in |-> fds[0], out |-> fds[1]]
            \in [in : Object \cup {Closed}, out : Object \cup {Closed}]
       /\ lines \in Nat /\ Written(files, fds[1], lines) \in [Files -> File]
  BY <1>1, FilesStay
<1>27. CASE Builtin
  <2>1. lines \in 0 .. MaxLines /\ buffer \in 0 .. MaxLines /\ files \in [Files -> File]
    OBVIOUS
  <2>2. buffer' \in 0 .. MaxLines /\ files' \in [Files -> File]
    BY <1>26, <1>27, <2>1 DEF Builtin
  <2>3. env' \in Env /\ ran' \in [in : Object \cup {Closed}, out : Object \cup {Closed}]
    <3>1. env' = env \/ \E c \in {1, 2} : env' = ExitStatus(env, c)
      BY <1>27 DEF Builtin, Report
    <3>2. \A c \in {1, 2} : ExitStatus(env, c) \in Env
      BY <1>2, CodesAssumption
    <3>3. ran' = [in |-> fds[0], out |-> fds[1]]
      BY <1>27 DEF Builtin, RunMoves
    <3>4. QED
      BY <1>1, <1>26, <3>1, <3>2, <3>3
  <2>4. /\ UNCHANGED <<line, lines, before, hd, fd_in, todo, fds, stdin_backup,
                       stdout_backup, exit_requested, changes, faults, refused, calm>>
        /\ pc' = "restore" /\ lines \in 1 .. MaxLines
    BY <1>27 DEF Builtin, RunMoves, Moves
  <2>5. TypeOK'
    BY <2>2, <2>3, <2>4
  <2>6. Started'
    BY <2>4
  <2> QED
    BY ONLY <2>5, <2>6
<1>28. CASE Exit
  <2>1. CloseAll(fds, 3 .. 9) \in [Fd -> Object \cup {Closed}]
    BY TableStays DEF Entry
  <2> QED
    BY <1>2, <1>26, <1>28, <2>1 DEF Exit, RunMoves, Moves, Report
<1>29. CASE External
  BY <1>1, <1>2, <1>26, <1>29 DEF External, RunMoves, Moves, Report
<1>30. CASE ForkFails
  BY <1>1, <1>30 DEF ForkFails, Moves
<1>31. CASE Restore
  <2>1. RestoreTable(stdin_backup, 0, fds) \in [Fd -> Entry]
    BY TableStays DEF Entry
  <2>2. fds' \in [Fd -> Entry]
    BY <1>31, <2>1, TableStays DEF Restore
  <2> QED
    BY <1>31, <2>2 DEF Restore, Moves, Entry
<1>32. CASE Finish
  BY <1>4, <1>32 DEF Finish, Moves
<1>33. CASE Change
  <2>1. PICK f \in Files, r \in BOOLEAN, w \in BOOLEAN : files' = Permit(files, f, r, w)
    BY <1>33, Zenon DEF Change
  <2>2. files \in [Files -> File]
    OBVIOUS
  <2>3. files' \in [Files -> File]
    BY ONLY <2>1, <2>2, PermitStays, Zenon
  <2>4. changes' \in 0 .. MaxChanges
    BY <1>1, <1>33 DEF Change
  <2>5. /\ UNCHANGED <<pc, line, lines, before, hd, fd_in, todo, fds, stdin_backup,
                       stdout_backup, env, exit_requested, buffer, faults, ran, refused>>
        /\ calm' = FALSE
    BY <1>33, Zenon DEF Change
  <2>6. TypeOK'
    BY <2>3, <2>4, <2>5
  <2>7. Started'
    BY <2>5
  <2> QED
    BY ONLY <2>6, <2>7
<1> QED
  BY <1>6, <1>7, <1>8, <1>9, <1>10, <1>11, <1>12, <1>13, <1>14, <1>15, <1>16, <1>17, <1>19,
     <1>20, <1>21, <1>22, <1>23, <1>24, <1>25, <1>27, <1>28, <1>29, <1>30, <1>31, <1>32,
     <1>33 DEF Next

-----------------------------------------------------------------------------
(* The inductive invariant *)

own == before.fds

\* 0, 1 and 2 are open.
StdioOpen(t) == \A f \in {0, 1, 2} : t[f] # Closed

\* The table is own, but for heredocs of this line.
OnlyHeredocs ==
  \A f \in Fd : fds[f] # own[f] => own[f] = Closed /\ fds[f] = HereDoc(lines)

\* A command that is alone has at most one.
OneHeredoc ==
  \/ fd_in = 0 /\ fds = own
  \/ /\ fd_in > 2 /\ own[fd_in] = Closed
     /\ hd = 1 /\ line.heredocs = 1
     /\ fds[fd_in] = HereDoc(lines)
     /\ \A f \in Fd \ {fd_in} : fds[f] = own[f]

\* A backup is where nothing was, unless there is none.
Backup(b, std) ==
  \/ b = NoFd /\ fds[std] = own[std]
  \/ b > 2 /\ own[b] = Closed /\ fds[b] = own[std]

\* What the command is to find on 0 and 1.
InputRight ==
  IF fd_in > 0 THEN fds[0] = HereDoc(lines) ELSE LastOr({"in"}, own[0], fds[0])
OutputRight == LastOr({"out", "append"}, own[1], fds[1])

Fresh == ran = NotRun /\ refused = "no"

AtHeredocs == OnlyHeredocs /\ Fresh /\ (line.command # "pipeline" => OneHeredoc)

AtInput == OneHeredoc /\ Fresh /\ hd = line.heredocs

AtOutput ==
  /\ Fresh /\ Backup(stdin_backup, 0) /\ InputRight
  /\ fds[0] # Closed
  /\ \A f \in Fd \ {0, stdin_backup} : fds[f] = own[f]

Redirected ==
  /\ Backup(stdin_backup, 0) /\ Backup(stdout_backup, 1)
  /\ stdin_backup # stdout_backup \/ stdin_backup = NoFd
  /\ \A f \in Fd \ {0, 1, stdin_backup, stdout_backup} : fds[f] = own[f]

AtRun == Redirected /\ Fresh /\ InputRight /\ OutputRight

IInv ==
  /\ exit_requested => pc \in {"restore", "finish", "gone"}
  /\ pc \in {"prompt", "readline"} => StdioOpen(fds)
  /\ StdioOpen(own)
  /\ pc = "heredocs" => AtHeredocs
  /\ pc \in {"check", "input"} => AtInput
  /\ pc = "output" => AtOutput
  /\ pc = "run" => AtRun
  /\ pc = "restore" /\ ~exit_requested => Redirected /\ refused = "no"
  /\ pc = "finish" /\ ~exit_requested => StdioOpen(fds)
  /\ TableRestored
  /\ RunsWithItsFiles

-----------------------------------------------------------------------------
(* What the steps do to the table *)

\* A duplicate takes a number that was free.
LEMMA Saved ==
  ASSUME NEW t \in [Fd -> Entry], NEW std \in Fd, t[std] # Closed, FreeFds(t) # {}
  PROVE  \E s \in Fd : /\ t[s] = Closed
                       /\ Dup(t, std).fd = s
                       /\ Dup(t, std).tab = [t EXCEPT ![s] = t[std]]
<1>1. Dup(t, std) = Alloc(t, t[std])
  BY DEF Dup, IsOpen
<1>2. PICK s \in Fd : /\ t[s] = Closed
                      /\ Alloc(t, t[std]) = [fd |-> s, tab |-> [t EXCEPT ![s] = t[std]]]
  BY AllocEffect
<1>3. Dup(t, std).fd = s /\ Dup(t, std).tab = [t EXCEPT ![s] = t[std]]
  BY <1>1, <1>2
<1> QED
  BY <1>2, <1>3

\* The table after o has been opened and put on std, which was saved first.
PutOn(t, std, o) ==
  LET N == Alloc(Dup(t, std).tab, o) IN CloseAll(Dup2(N.tab, N.fd, std), {N.fd})

\* Saving std and putting o on it leaves o there, the backup, and nothing else.
LEMMA Replaced ==
  ASSUME NEW t \in [Fd -> Entry], NEW std \in Fd, t[std] # Closed, FreeFds(t) # {},
         NEW o, o # Closed, Alloc(Dup(t, std).tab, o).fd # NoFd
  PROVE  \E s \in Fd :
           /\ t[s] = Closed /\ Dup(t, std).fd = s
           /\ \A f \in Fd : PutOn(t, std, o)[f]
                              = IF f = std THEN o ELSE IF f = s THEN t[std] ELSE t[f]
<1> DEFINE N == Alloc(Dup(t, std).tab, o)
<1>0. N.fd # NoFd /\ PutOn(t, std, o) = CloseAll(Dup2(N.tab, N.fd, std), {N.fd})
  BY DEF PutOn
<1>1. PICK s \in Fd : /\ t[s] = Closed
                      /\ Dup(t, std).fd = s
                      /\ Dup(t, std).tab = [t EXCEPT ![s] = t[std]]
  BY Saved
<1> DEFINE t1 == [t EXCEPT ![s] = t[std]]
<1>2. t1 = Dup(t, std).tab
  BY <1>1
<1>3. DOMAIN t1 = Fd /\ \A f \in Fd : t1[f] = IF f = s THEN t[std] ELSE t[f]
  OBVIOUS
<1> HIDE DEF t1, N
<1>4. PICK n \in Fd : t1[n] = Closed /\ N = [fd |-> n, tab |-> [t1 EXCEPT ![n] = o]]
  <2>1. N = Alloc(t1, o)
    BY <1>2, Zenon DEF N
  <2>2. \/ N = [fd |-> NoFd, tab |-> t1]
        \/ \E f \in Fd : t1[f] = Closed /\ N = [fd |-> f, tab |-> [t1 EXCEPT ![f] = o]]
    <3>1. \/ Alloc(t1, o) = [fd |-> NoFd, tab |-> t1]
          \/ \E f \in Fd : /\ t1[f] = Closed
                           /\ Alloc(t1, o) = [fd |-> f, tab |-> [t1 EXCEPT ![f] = o]]
      BY AllocEffect
    <3> QED
      BY ONLY <2>1, <3>1
  <2>3. N # [fd |-> NoFd, tab |-> t1]
    BY <1>0
  <2> QED
    BY ONLY <2>2, <2>3
<1>5. n # s /\ n # std /\ s # std
  BY <1>1, <1>3, <1>4
<1> DEFINE t2 == [t1 EXCEPT ![n] = o]
<1>6. N.fd = n /\ N.tab = t2
  BY <1>4
<1>7. DOMAIN t2 = Fd /\ \A f \in Fd : t2[f] = IF f = n THEN o ELSE t1[f]
  BY <1>3
<1> HIDE DEF t2
<1>8. Dup2(t2, n, std) = [t2 EXCEPT ![std] = o]
  BY <1>7 DEF Dup2, IsOpen
<1>9. \A f \in Fd : CloseAll(Dup2(t2, n, std), {n})[f]
                      = IF f = n THEN Closed ELSE IF f = std THEN o ELSE t2[f]
  <2> DEFINE t3 == [t2 EXCEPT ![std] = o]
  <2>1. DOMAIN t3 = Fd /\ \A f \in Fd : t3[f] = IF f = std THEN o ELSE t2[f]
    BY <1>7
  <2>2. Dup2(t2, n, std) = t3
    BY <1>8
  <2> HIDE DEF t3
  <2>3. \A f \in Fd : CloseAll(t3, {n})[f] = IF f = n THEN Closed ELSE t3[f]
    BY DEF CloseAll
  <2>4. \A f \in Fd : CloseAll(t3, {n})[f]
                         = IF f = n THEN Closed ELSE IF f = std THEN o ELSE t2[f]
    BY ONLY <2>1, <2>3
  <2> QED
    BY ONLY <2>2, <2>4
<1>10. /\ t[s] = Closed /\ Dup(t, std).fd = s
       /\ \A f \in Fd : CloseAll(Dup2(t2, n, std), {n})[f]
                              = IF f = std THEN o ELSE IF f = s THEN t[std] ELSE t[f]
  <2>1. t[s] = Closed /\ t1[n] = Closed /\ Dup(t, std).fd = s
    BY <1>1, <1>4
  <2>2. t[n] = Closed
    BY <1>3, <1>5, <2>1
  <2> QED
    BY ONLY <1>3, <1>5, <1>7, <1>9, <2>1, <2>2
<1> QED
  BY <1>0, <1>6, <1>10, Zenon

\* restore_io gives one number back what it had, and frees the backup.
LEMMA RestoredOne ==
  ASSUME NEW t \in [Fd -> Entry], NEW was \in [Fd -> Entry], NEW std \in Fd,
         was[std] # Closed,
         NEW b \in Fd \cup {NoFd},
         \/ b = NoFd /\ t[std] = was[std]
         \/ b \in Fd /\ b # std /\ was[b] = Closed /\ t[b] = was[std]
  PROVE  \A f \in Fd : RestoreTable(b, std, t)[f]
                         = IF f \in {b, std} THEN was[f] ELSE t[f]
<1>1. CASE b = NoFd
  BY <1>1, Descriptors012 DEF RestoreTable
<1>2. CASE b \in Fd
  <2>1. b # NoFd /\ b # std /\ was[b] = Closed /\ t[b] = was[std]
    BY <1>2, Descriptors012
  <2>2. Dup2(t, b, std) = [t EXCEPT ![std] = was[std]]
    BY <1>2, <2>1 DEF Dup2, IsOpen
  <2> DEFINE t3 == [t EXCEPT ![std] = was[std]]
  <2>3. DOMAIN t3 = Fd /\ \A f \in Fd : t3[f] = IF f = std THEN was[f] ELSE t[f]
    OBVIOUS
  <2>4. RestoreTable(b, std, t) = CloseAll(t3, {b})
    BY <2>1, <2>2 DEF RestoreTable
  <2> HIDE DEF t3
  <2>5. \A f \in Fd : CloseAll(t3, {b})[f] = IF f = b THEN Closed ELSE t3[f]
    BY DEF CloseAll
  <2>6. \A f \in Fd : CloseAll(t3, {b})[f] = IF f \in {b, std} THEN was[f] ELSE t[f]
    BY ONLY <2>1, <2>3, <2>5
  <2> QED
    BY ONLY <2>4, <2>6
<1> QED
  BY <1>1, <1>2

-----------------------------------------------------------------------------
(* The invariant holds at first, and no step breaks it *)

LEMMA InvInit == Init => IInv
<1> SUFFICES ASSUME Init PROVE IInv
  OBVIOUS
<1>1. StdioOpen(fds) /\ own = fds
  BY Descriptors012 DEF Init, StdioOpen, own, Tty, Closed
<1> QED
  BY <1>1 DEF Init, IInv, TableRestored, RunsWithItsFiles, Ran

\* What the invariant does not speak of may change.
LEMMA Unaffected ==
  ASSUME IInv, UNCHANGED <<pc, line, lines, before, hd, fd_in, fds, stdin_backup,
                           stdout_backup, exit_requested, ran, refused>>
  PROVE  IInv'
BY DEF IInv, own, StdioOpen, OnlyHeredocs, OneHeredoc, Backup, InputRight, OutputRight,
       Fresh, AtHeredocs, AtInput, AtOutput, Redirected, AtRun, TableRestored,
       RunsWithItsFiles, Ran, LastOr

LEMMA InputStays ==
  ASSUME InputRight, UNCHANGED <<line, lines, before, fd_in>>, fds'[0] = fds[0]
  PROVE  InputRight'
BY DEF InputRight, LastOr, own

\* What a command has run with does not change before the next line.
LEMMA RunStays ==
  ASSUME RunsWithItsFiles, \/ UNCHANGED <<line, lines, before, fd_in, ran>>
                           \/ ran' = NotRun
  PROVE  RunsWithItsFiles'
BY DEF RunsWithItsFiles, LastOr, Ran

\* Heredocs never take 0, 1 or 2.
LEMMA HeredocsBeside ==
  ASSUME TypeOK, StdioOpen(own)
  PROVE  /\ OnlyHeredocs => StdioOpen(fds)
         /\ OneHeredoc => OnlyHeredocs
<1>1. OnlyHeredocs => StdioOpen(fds)
  BY Descriptors012 DEF OnlyHeredocs, StdioOpen
<1>2. OneHeredoc => OnlyHeredocs
  BY DEF OneHeredoc, OnlyHeredocs
<1> QED
  BY <1>1, <1>2

\* A line may be given up while the table is its own, but for heredocs.
LEMMA GivenUp ==
  ASSUME TypeOK, IInv, OnlyHeredocs, ran = NotRun, ~exit_requested,
         UNCHANGED <<lines, before, fds, ran, exit_requested>>, pc' = "finish"
  PROVE  IInv'
<1>1. StdioOpen(fds) /\ StdioOpen(own)
  BY HeredocsBeside DEF IInv
<1>2. StdioOpen(fds)' /\ StdioOpen(own)'
  BY <1>1 DEF StdioOpen, own
<1>3. TableRestored'
  BY DEF OnlyHeredocs, TableRestored, Ran, own
<1>4. RunsWithItsFiles'
  BY RunStays DEF IInv
<1> QED
  BY <1>2, <1>3, <1>4 DEF IInv

LEMMA StepPrompt ==
  ASSUME TypeOK, IInv, Prompt \/ ReadLine \/ EndOfInput
  PROVE  IInv'
<1> USE DEF lineVars, heredocVars, backups, statusVars, worldVars, outcome
<1>1. CASE Prompt
  <2>1. UNCHANGED <<line, lines, before, fds, fd_in, ran, exit_requested>>
        /\ pc' = "readline" /\ pc = "prompt"
    BY <1>1 DEF Prompt
  <2>2. StdioOpen(fds)' /\ StdioOpen(own)' /\ RunsWithItsFiles'
    BY <2>1, RunStays DEF IInv, StdioOpen, own
  <2> QED
    BY <2>1, <2>2 DEF IInv, TableRestored
<1>2. CASE ReadLine
  <2>1. /\ before'.fds = fds /\ fds' = fds /\ hd' = 0 /\ fd_in' = 0 /\ ran' = NotRun
        /\ refused' = "no" /\ pc' = "heredocs" /\ exit_requested' = exit_requested
        /\ pc = "readline"
    BY <1>2 DEF ReadLine
  <2>2. StdioOpen(own)' /\ OnlyHeredocs' /\ OneHeredoc' /\ Fresh' /\ RunsWithItsFiles'
    BY <2>1, RunStays DEF IInv, StdioOpen, own, OnlyHeredocs, OneHeredoc, Fresh
  <2> QED
    BY <2>1, <2>2 DEF IInv, AtHeredocs, TableRestored
<1>3. CASE EndOfInput
  <2>1. UNCHANGED <<line, lines, before, fds, fd_in, ran, exit_requested>>
        /\ pc' = "gone" /\ pc = "readline"
    BY <1>3 DEF EndOfInput
  <2>2. StdioOpen(own)' /\ RunsWithItsFiles'
    BY <2>1, RunStays DEF IInv, StdioOpen, own
  <2> QED
    BY <2>1, <2>2 DEF IInv, TableRestored
<1> QED
  BY <1>1, <1>2, <1>3

LEMMA StepHeredoc ==
  ASSUME TypeOK, IInv, Heredoc
  PROVE  IInv'
<1> USE DEF lineVars, heredocVars, backups, statusVars, worldVars, outcome
<1>1. /\ UNCHANGED <<line, lines, before, ran, refused, exit_requested>>
      /\ pc = "heredocs" /\ pc' = "heredocs" /\ hd' = hd + 1 /\ hd < line.heredocs
  BY DEF Heredoc, HeredocMoves
<1>2. AtHeredocs /\ StdioOpen(own) /\ StdioOpen(fds) /\ ~exit_requested
  BY <1>1, HeredocsBeside DEF IInv, AtHeredocs
<1>3. PICK f \in Fd : /\ fds[f] = Closed /\ fd_in' = f
                      /\ fds' = [fds EXCEPT ![f] = HereDoc(lines)]
  BY AllocEffect DEF Heredoc
<1>4. f \in Nat /\ f > 2
  <2>1. f \notin {0, 1, 2} /\ f \in Nat
    BY <1>2, <1>3, Descriptors012 DEF StdioOpen
  <2> QED
    BY <2>1
<1>5. HereDoc(lines) # Closed /\ DOMAIN fds = Fd
  BY DEF HereDoc, Closed, TypeOK
<1>6. own[f] = Closed
  BY <1>2, <1>3, <1>5 DEF AtHeredocs, OnlyHeredocs
<1>7. own' = own /\ HereDoc(lines') = HereDoc(lines)
  BY <1>1 DEF own
<1>8. OnlyHeredocs'
  BY <1>1, <1>2, <1>3, <1>5, <1>6, <1>7 DEF AtHeredocs, OnlyHeredocs
<1>9. ASSUME line.command # "pipeline" PROVE OneHeredoc'
  <2>1. line.heredocs <= 1 /\ hd \in Nat /\ line.heredocs \in Nat
    BY <1>9, LineParts DEF TypeOK
  <2>2. hd' = 1 /\ line.heredocs = 1 /\ hd = 0
    BY <1>1, <2>1
  <2>3. fds = own
    BY <1>2, <1>9, <2>2 DEF AtHeredocs, OneHeredoc
  <2> QED
    BY <1>1, <1>3, <1>4, <1>5, <1>6, <1>7, <2>2, <2>3 DEF OneHeredoc
<1>10. Fresh' /\ AtHeredocs'
  BY <1>1, <1>2, <1>8, <1>9 DEF AtHeredocs, Fresh
<1>11. StdioOpen(own)' /\ RunsWithItsFiles'
  BY <1>1, <1>2, <1>10, RunStays DEF IInv, StdioOpen, own, Fresh
<1> QED
  BY <1>1, <1>2, <1>10, <1>11 DEF IInv, TableRestored

LEMMA StepHeredocs ==
  ASSUME TypeOK, IInv, HeredocFails \/ HeredocInterrupted \/ NotAlone \/ Alone
  PROVE  IInv'
<1> USE DEF lineVars, heredocVars, backups, statusVars, worldVars, outcome
<1>1. pc = "heredocs" /\ UNCHANGED <<line, lines, before, fds, fd_in, ran, refused,
                                     exit_requested>>
  BY DEF HeredocFails, HeredocMoves, HeredocInterrupted, NotAlone, Alone, Moves
<1>2. AtHeredocs /\ OnlyHeredocs /\ Fresh /\ StdioOpen(own) /\ ~exit_requested
  BY <1>1 DEF IInv, AtHeredocs
<1>3. CASE HeredocInterrupted \/ NotAlone
  <2>1. pc' = "finish"
    BY <1>3 DEF HeredocInterrupted, HeredocMoves, NotAlone, Moves
  <2> QED
    BY <1>1, <1>2, <2>1, GivenUp DEF Fresh
<1>4. StdioOpen(own)' /\ RunsWithItsFiles' /\ Fresh' /\ OnlyHeredocs'
  BY <1>1, <1>2, RunStays DEF IInv, StdioOpen, own, Fresh, OnlyHeredocs
<1>5. CASE HeredocFails
  <2>1. pc' = "heredocs" /\ hd' = line.heredocs
    BY <1>5 DEF HeredocFails, HeredocMoves
  <2>2. line.command # "pipeline" => OneHeredoc'
    BY <1>1, <1>2, <2>1 DEF AtHeredocs, OneHeredoc, own
  <2> QED
    BY <1>1, <1>2, <1>4, <2>1, <2>2 DEF IInv, AtHeredocs, TableRestored
<1>6. CASE Alone
  <2>1. pc' = "check" /\ hd' = hd /\ hd = line.heredocs /\ line.command # "pipeline"
    BY <1>6 DEF Alone, Moves
  <2>2. AtInput'
    BY <1>1, <1>2, <1>4, <2>1 DEF AtHeredocs, AtInput, OneHeredoc, own
  <2> QED
    BY <1>1, <1>2, <1>4, <2>1, <2>2 DEF IInv, TableRestored
<1> QED
  BY <1>3, <1>5, <1>6

LEMMA StepCheck ==
  ASSUME TypeOK, IInv, Check
  PROVE  IInv'
<1> USE DEF lineVars, heredocVars, backups, statusVars, worldVars, outcome
<1>1. /\ pc = "check" /\ pc' \in {"check", "input", "finish"}
      /\ UNCHANGED <<line, lines, before, hd, fds, fd_in, ran, exit_requested>>
      /\ pc' # "finish" => refused' = refused
  BY DEF Check, Moves, Refuse
<1>2. AtInput /\ OnlyHeredocs /\ Fresh /\ StdioOpen(own) /\ ~exit_requested
  BY <1>1, HeredocsBeside DEF IInv, AtInput
<1>3. CASE pc' = "finish"
  BY <1>1, <1>2, <1>3, GivenUp DEF Fresh
<1>4. CASE pc' # "finish"
  <2>1. StdioOpen(own)' /\ RunsWithItsFiles' /\ Fresh'
    BY <1>1, <1>2, <1>4, RunStays DEF IInv, StdioOpen, own, Fresh
  <2>2. AtInput'
    BY <1>1, <1>2, <2>1 DEF AtInput, OneHeredoc, own
  <2> QED
    BY <1>1, <1>2, <1>4, <2>1, <2>2 DEF IInv, TableRestored
<1> QED
  BY <1>3, <1>4

\* Once the input is in place, all but the table of AtOutput is as before.
LEMMA InputPlaced ==
  ASSUME TypeOK, IInv, pc = "input", pc' = "output",
         UNCHANGED <<line, lines, before, hd, fd_in, ran, refused, exit_requested>>,
         Backup(stdin_backup, 0)', InputRight', fds'[0] # Closed,
         \A f \in Fd \ {0, stdin_backup'} : fds'[f] = own[f]
  PROVE  IInv'
<1>1. Fresh /\ StdioOpen(own) /\ ~exit_requested
  BY DEF IInv, AtInput
<1>2. Fresh' /\ StdioOpen(own)' /\ RunsWithItsFiles'
  BY <1>1, RunStays DEF IInv, StdioOpen, own, Fresh
<1>3. AtOutput'
  BY <1>2 DEF AtOutput, own
<1> QED
  BY <1>1, <1>2, <1>3 DEF IInv, TableRestored

LEMMA StepInput ==
  ASSUME TypeOK, TypeOK', Started, IInv, NoInput \/ HeredocInput \/ HeredocMissing \/ FileInput
  PROVE  IInv'
<1> USE DEF lineVars, heredocVars, backups, statusVars, worldVars, outcome
<1>1. /\ pc = "input" /\ pc' = "output"
      /\ UNCHANGED <<line, lines, before, hd, fd_in, ran, refused, exit_requested>>
  BY DEF NoInput, HeredocInput, HeredocMissing, FileInput, InputMoves, Moves
<1>2. AtInput /\ OnlyHeredocs /\ OneHeredoc /\ StdioOpen(own) /\ StdioOpen(fds)
  BY <1>1, HeredocsBeside DEF IInv, AtInput
<1>3. /\ fds \in [Fd -> Entry] /\ 0 \in Fd /\ fds[0] # Closed /\ fds[0] = own[0]
      /\ own' = own /\ own[0] # Closed /\ fd_in \in Nat
  <2>1. fds \in [Fd -> Entry] /\ 0 \in Fd /\ fd_in \in Nat
    BY Descriptors012 DEF TypeOK, Entry
  <2>2. fds[0] # Closed /\ own[0] # Closed
    BY <1>2 DEF StdioOpen
  <2> QED
    BY <1>1, <1>2, <2>1, <2>2 DEF OnlyHeredocs, own
<1>4. CASE NoInput
  <2>1. fds' = fds /\ stdin_backup' = NoFd /\ Of(line.redirects, {"in"}) = {} /\ fd_in = 0
    BY <1>2, <1>4 DEF NoInput, infile, OneHeredoc
  <2>2. \A f \in Fd : fds[f] = own[f]
    BY <1>2, <1>3, <2>1 DEF OneHeredoc
  <2>3. InputRight'
    BY <1>1, <1>3, <2>1 DEF InputRight, LastOr, Of, own
  <2> QED
    BY <1>1, <1>3, <2>1, <2>2, <2>3, InputPlaced DEF Backup
<1>5. CASE HeredocMissing
  <2>1. /\ FreeFds(fds) # {} /\ stdin_backup' = Dup(fds, 0).fd /\ fds' = Dup(fds, 0).tab
        /\ Of(line.redirects, {"in"}) = {} /\ ~(fd_in > 0)
    BY <1>5 DEF HeredocMissing, FromHeredoc, FromFile, infile
  <2>2. PICK s \in Fd : /\ fds[s] = Closed
                        /\ Dup(fds, 0).fd = s
                        /\ Dup(fds, 0).tab = [fds EXCEPT ![s] = fds[0]]
    BY <1>3, <2>1, Saved
  <2>3. stdin_backup' = s /\ fds' = [fds EXCEPT ![s] = fds[0]]
    BY <2>1, <2>2
  <2>4. fd_in = 0 /\ fds = own
    BY <1>2, <1>3, <2>1 DEF OneHeredoc
  <2>5. s > 2
    BY <1>2, <2>2, Descriptors012 DEF StdioOpen
  <2>6. InputRight'
    BY <1>1, <1>3, <2>1, <2>3, <2>5 DEF InputRight, LastOr, Of, own
  <2>7. Backup(stdin_backup, 0)'
    BY <1>3, <2>2, <2>3, <2>4, <2>5 DEF Backup
  <2>8. fds'[0] # Closed /\ \A f \in Fd \ {0, stdin_backup'} : fds'[f] = own[f]
    BY <1>3, <2>3, <2>4, <2>5
  <2> QED
    BY <1>1, <2>6, <2>7, <2>8, InputPlaced
<1>6. CASE FileInput
  <2> DEFINE o == FileObj(InputFile)
  <2>1. /\ FromFile /\ FreeFds(fds) # {} /\ Alloc(Dup(fds, 0).tab, o).fd # NoFd
        /\ stdin_backup' = Dup(fds, 0).fd /\ fds' = PutOn(fds, 0, o)
    BY <1>6 DEF FileInput, NewInput, PutOn
  <2>2. o # Closed
    BY DEF FileObj, Closed
  <2> HIDE DEF o
  <2>3. PICK s \in Fd : /\ fds[s] = Closed /\ stdin_backup' = s
                        /\ \A f \in Fd : fds'[f] = IF f = 0 THEN o ELSE IF f = s
                                                   THEN fds[0] ELSE fds[f]
    <3>1. PICK s \in Fd :
            /\ fds[s] = Closed /\ Dup(fds, 0).fd = s
            /\ \A f \in Fd : PutOn(fds, 0, o)[f]
                               = IF f = 0 THEN o ELSE IF f = s THEN fds[0] ELSE fds[f]
      BY <1>3, <2>1, <2>2, Replaced
    <3> QED
      BY ONLY <2>1, <3>1
  <2>4. fd_in = 0 /\ fds = own
    BY <1>2, <1>3, <2>1 DEF FromFile, FromHeredoc, OneHeredoc
  <2>5. s > 2
    BY <1>2, <2>3, Descriptors012 DEF StdioOpen
  <2>6. \E i \in DOMAIN line.redirects :
          /\ line.redirects[i].type \in {"in"} /\ o = FileObj(line.redirects[i].file)
          /\ \A j \in i + 1 .. Len(line.redirects) : line.redirects[j].type \notin {"in"}
    <3> DEFINE rs == line.redirects
    <3>1. rs \in Seq(Redirection) /\ Of(rs, {"in"}) # {}
      BY <2>1, LineParts DEF FromFile, infile, TypeOK
    <3>2. o = FileObj(TheOne(rs, {"in"}).file)
      BY DEF o, InputFile, infile
    <3> HIDE DEF rs
    <3>3. PICK i \in DOMAIN rs :
            /\ rs[i].type \in {"in"} /\ TheOne(rs, {"in"}) = rs[i]
            /\ \A j \in i + 1 .. Len(rs) : rs[j].type \notin {"in"}
      BY <3>1, TheOneIsLast
    <3>4. o = FileObj(rs[i].file)
      BY <3>2, <3>3
    <3> QED
      BY <3>3, <3>4 DEF rs
  <2>7. InputRight'
    BY <1>1, <1>3, <2>3, <2>4, <2>6 DEF InputRight, LastOr
  <2>8. Backup(stdin_backup, 0)'
    BY <1>3, <2>3, <2>4, <2>5 DEF Backup
  <2>9. fds'[0] # Closed /\ \A f \in Fd \ {0, stdin_backup'} : fds'[f] = own[f]
    BY <1>3, <2>2, <2>3, <2>4
  <2> QED
    BY <1>1, <2>7, <2>8, <2>9, InputPlaced
<1>7. CASE HeredocInput
  <2>1. /\ fd_in > 0 /\ FreeFds(fds) # {} /\ stdin_backup' = Dup(fds, 0).fd
        /\ fds' = CloseAll(Dup2(Dup(fds, 0).tab, fd_in, 0), {fd_in})
    BY <1>7 DEF HeredocInput, FromHeredoc
  <2>2. PICK s \in Fd : /\ fds[s] = Closed
                        /\ Dup(fds, 0).fd = s
                        /\ Dup(fds, 0).tab = [fds EXCEPT ![s] = fds[0]]
    BY <1>3, <2>1, Saved
  <2>3. /\ fd_in \in Fd /\ fd_in > 2 /\ own[fd_in] = Closed /\ fds[fd_in] = HereDoc(lines)
        /\ HereDoc(lines) # Closed
        /\ \A f \in Fd \ {fd_in} : fds[f] = own[f]
    BY <1>2, <2>1 DEF OneHeredoc, TypeOK, HereDoc, Closed
  <2>4. s > 2 /\ s # fd_in
    BY <1>2, <2>2, <2>3, Descriptors012 DEF StdioOpen
  <2> DEFINE t1 == [fds EXCEPT ![s] = fds[0]]
             t2 == [t1 EXCEPT ![0] = HereDoc(lines)]
  <2>5. DOMAIN t1 = Fd /\ \A f \in Fd : t1[f] = IF f = s THEN fds[0] ELSE fds[f]
    BY <1>3
  <2>6. stdin_backup' = s /\ fds' = CloseAll(Dup2(t1, fd_in, 0), {fd_in})
    BY <2>1, <2>2
  <2> HIDE DEF t1
  <2>7. DOMAIN t2 = Fd /\ \A f \in Fd : t2[f] = IF f = 0 THEN HereDoc(lines) ELSE t1[f]
    BY <2>5
  <2>8. Dup2(t1, fd_in, 0) = t2
    BY <2>3, <2>4, <2>5 DEF Dup2, IsOpen
  <2> HIDE DEF t2
  <2>9. \A f \in Fd : fds'[f] = IF f = fd_in THEN Closed ELSE t2[f]
    BY <2>6, <2>8 DEF CloseAll
  <2>10. fds'[0] = HereDoc(lines) /\ fds'[s] = own[0] /\ own[s] = Closed
    BY <1>3, <2>2, <2>3, <2>4, <2>5, <2>7, <2>9
  <2>11. \A f \in Fd \ {0, s} : fds'[f] = own[f]
    BY <2>3, <2>5, <2>7, <2>9
  <2>12. InputRight' /\ Backup(stdin_backup, 0)'
    BY <1>1, <1>3, <2>1, <2>4, <2>6, <2>10 DEF InputRight, Backup
  <2> QED
    BY <1>1, <2>3, <2>6, <2>10, <2>11, <2>12, InputPlaced
<1> QED
  BY <1>4, <1>5, <1>6, <1>7

LEMMA StepInputFails ==
  ASSUME TypeOK, TypeOK', IInv, SaveInputFails \/ FileInputFails
  PROVE  IInv'
<1> USE DEF lineVars, heredocVars, backups, statusVars, worldVars, outcome
<1>1. /\ pc = "input" /\ pc' = "finish"
      /\ UNCHANGED <<line, lines, before, hd, fd_in, ran, exit_requested>>
  BY DEF SaveInputFails, FileInputFails, InputMoves, Moves, Refuse
<1>2. OnlyHeredocs /\ ran = NotRun /\ ~exit_requested /\ StdioOpen(fds)
  BY <1>1, HeredocsBeside DEF IInv, AtInput, Fresh
<1>3. CASE SaveInputFails
  <2>1. fds' = fds
    BY <1>3 DEF SaveInputFails
  <2> QED
    BY <1>1, <1>2, <2>1, GivenUp
<1>4. CASE FileInputFails
  <2>1. fds \in [Fd -> Entry] /\ 0 \in Fd /\ fds[0] # Closed /\ fds' \in [Fd -> Entry]
    BY <1>2, Descriptors012 DEF TypeOK, Entry, StdioOpen
  <2>2. FreeFds(fds) # {} /\ fds' = CloseAll(Dup(fds, 0).tab, {Dup(fds, 0).fd})
    BY <1>4 DEF FileInputFails
  <2>3. PICK s \in Fd : /\ fds[s] = Closed /\ Dup(fds, 0).fd = s
                        /\ Dup(fds, 0).tab = [fds EXCEPT ![s] = fds[0]]
    BY <2>1, <2>2, Saved
  <2> DEFINE t1 == [fds EXCEPT ![s] = fds[0]]
  <2>4. \A f \in Fd : t1[f] = IF f = s THEN fds[0] ELSE fds[f]
    BY <2>1
  <2>5. fds' = CloseAll(t1, {s})
    BY <2>2, <2>3
  <2> HIDE DEF t1
  <2>6. \A f \in Fd : fds'[f] = IF f = s THEN Closed ELSE t1[f]
    BY <2>5 DEF CloseAll
  <2>7. \A f \in Fd : fds'[f] = fds[f]
    BY ONLY <2>3, <2>4, <2>6
  <2>8. fds' = fds
    BY <2>1, <2>7
  <2> QED
    BY <1>1, <1>2, <2>8, GivenUp
<1> QED
  BY <1>3, <1>4

LEMMA StepOutput ==
  ASSUME TypeOK, TypeOK', IInv, NoOutput \/ FileOutput \/ OutputFails
  PROVE  IInv'
<1> USE DEF lineVars, heredocVars, backups, statusVars, worldVars, outcome
<1>1. /\ pc = "output" /\ pc' \in {"run", "finish"}
      /\ UNCHANGED <<line, lines, before, hd, fd_in, ran, exit_requested, stdin_backup>>
  BY DEF NoOutput, FileOutput, OutputFails, OutputMoves, Moves, Refuse
<1>2. AtOutput /\ Fresh /\ StdioOpen(own) /\ ~exit_requested /\ own' = own
  BY <1>1 DEF IInv, AtOutput, own
<1>3. /\ fds \in [Fd -> Entry] /\ own \in [Fd -> Entry] /\ {0, 1} \subseteq Fd
      /\ stdin_backup \in Fd \cup {NoFd} /\ NoFd \notin Fd /\ Fd \subseteq Nat
      /\ own[1] # Closed
  BY <1>2, Descriptors012 DEF TypeOK, Entry, own, StdioOpen
<1>4. \/ stdin_backup = NoFd /\ fds[0] = own[0]
      \/ stdin_backup > 2 /\ own[stdin_backup] = Closed /\ fds[stdin_backup] = own[0]
  BY <1>2 DEF AtOutput, Backup
<1>5. fds[1] = own[1] /\ fds[0] # Closed /\ own[0] # Closed
  <2>1. stdin_backup # 1
    BY <1>3, <1>4, Descriptors012 DEF NoFd
  <2> QED
    BY <1>2, <1>3, <2>1 DEF AtOutput, StdioOpen
<1>6. RunsWithItsFiles' /\ StdioOpen(own)'
  BY <1>1, <1>2, RunStays DEF IInv, StdioOpen
<1>7. CASE OutputFails
  <2>1. pc' = "finish" /\ refused' = "output" /\ fds' = Dup(fds, 1).tab
    BY <1>7 DEF OutputFails, OutputMoves, Moves, Refuse
  <2>2. \A f \in {0, 1, 2} : fds[f] # Closed
    <3>1. 2 \in Fd /\ stdin_backup # 2
      BY <1>3, <1>4, Descriptors012 DEF NoFd
    <3>2. fds[2] = own[2] /\ own[2] # Closed
      BY <1>2, <3>1 DEF AtOutput, StdioOpen
    <3> QED
      BY <1>3, <1>5, <3>2
  <2>3. StdioOpen(fds)'
    <3>1. CASE FreeFds(fds) = {}
      <4>1. Dup(fds, 1).tab = fds
        BY <3>1 DEF Dup, Alloc
      <4> QED
        BY <2>1, <2>2, <4>1 DEF StdioOpen
    <3>2. CASE FreeFds(fds) # {}
      <4>1. PICK s \in Fd : fds[s] = Closed /\ fds' = [fds EXCEPT ![s] = fds[1]]
        BY <1>3, <1>5, <2>1, <3>2, Saved
      <4> QED
        BY <1>3, <2>2, <4>1 DEF StdioOpen
    <3> QED
      BY <3>1, <3>2
  <2>4. ~Ran'
    BY <1>1, <1>2 DEF Ran, Fresh
  <2> QED
    BY <1>1, <1>2, <1>6, <2>1, <2>3, <2>4 DEF IInv, TableRestored
<1>8. ASSUME pc' = "run", refused' = refused, Redirected', OutputRight', fds'[0] = fds[0]
      PROVE  IInv'
  <2>1. InputRight'
    BY <1>1, <1>2, <1>8, InputStays DEF AtOutput
  <2>2. AtRun'
    BY <1>1, <1>2, <1>8, <2>1 DEF AtRun, Fresh
  <2> QED
    BY <1>1, <1>2, <1>6, <1>8, <2>2 DEF IInv, TableRestored
<1>9. CASE NoOutput
  <2>1. /\ fds' = fds /\ stdout_backup' = NoFd /\ pc' = "run" /\ refused' = refused
        /\ Of(line.redirects, {"out", "append"}) = {}
    BY <1>9 DEF NoOutput, ToFile, outfile, OutputMoves, Moves
  <2>2. Redirected'
    BY <1>1, <1>2, <1>3, <1>4, <1>5, <2>1 DEF Redirected, Backup, AtOutput
  <2>3. OutputRight'
    BY <1>1, <1>2, <1>5, <2>1 DEF OutputRight, LastOr, Of
  <2> QED
    BY <1>8, <2>1, <2>2, <2>3
<1>10. CASE FileOutput
  <2> DEFINE o == FileObj(Output.file)
  <2>1. /\ ToFile /\ FreeFds(fds) # {} /\ Alloc(Dup(fds, 1).tab, o).fd # NoFd
        /\ stdout_backup' = Dup(fds, 1).fd /\ fds' = PutOn(fds, 1, o)
        /\ pc' = "run" /\ refused' = refused
    BY <1>10 DEF FileOutput, NewOutput, PutOn, OutputMoves, Moves
  <2>2. o # Closed
    BY DEF FileObj, Closed
  <2>3. \E i \in DOMAIN line.redirects :
          /\ line.redirects[i].type \in {"out", "append"}
          /\ o = FileObj(line.redirects[i].file)
          /\ \A j \in i + 1 .. Len(line.redirects) :
               line.redirects[j].type \notin {"out", "append"}
    <3> DEFINE rs == line.redirects
    <3>1. rs \in Seq(Redirection) /\ Of(rs, {"out", "append"}) # {}
      BY <2>1, LineParts DEF ToFile, outfile, TypeOK
    <3>2. o = FileObj(TheOne(rs, {"out", "append"}).file)
      BY DEF o, Output, outfile
    <3> HIDE DEF rs
    <3>3. PICK i \in DOMAIN rs :
            /\ rs[i].type \in {"out", "append"} /\ TheOne(rs, {"out", "append"}) = rs[i]
            /\ \A j \in i + 1 .. Len(rs) : rs[j].type \notin {"out", "append"}
      BY <3>1, TheOneIsLast
    <3>4. o = FileObj(rs[i].file)
      BY <3>2, <3>3
    <3> QED
      BY <3>3, <3>4 DEF rs
  <2> HIDE DEF o
  <2>4. PICK s \in Fd : /\ fds[s] = Closed /\ stdout_backup' = s
                        /\ \A f \in Fd : fds'[f] = IF f = 1 THEN o ELSE IF f = s
                                                   THEN fds[1] ELSE fds[f]
    <3>1. PICK s \in Fd :
            /\ fds[s] = Closed /\ Dup(fds, 1).fd = s
            /\ \A f \in Fd : PutOn(fds, 1, o)[f]
                               = IF f = 1 THEN o ELSE IF f = s THEN fds[1] ELSE fds[f]
      BY <1>3, <1>5, <2>1, <2>2, Replaced
    <3> QED
      BY ONLY <2>1, <3>1
  <2>5. s # 0 /\ s # 1 /\ s # stdin_backup
    BY <1>3, <1>4, <1>5, <2>4
  <2>6. fds[s] = own[s] /\ s > 2
    <3>1. fds[s] = own[s]
      BY <1>2, <2>5 DEF AtOutput
    <3>2. s # 2
      BY <1>2, <2>4, <3>1 DEF StdioOpen
    <3> QED
      BY <1>3, <2>5, <3>1, <3>2
  <2>7. fds'[0] = fds[0] /\ fds'[1] = o /\ fds'[s] = own[1]
    BY <1>3, <1>5, <2>4, <2>5
  <2>8. stdin_backup # NoFd => fds'[stdin_backup] = fds[stdin_backup]
    BY <1>3, <1>4, <2>4, <2>5
  <2>9. \A f \in Fd \ {0, 1, stdin_backup, s} : fds'[f] = own[f]
    BY <1>2, <2>4 DEF AtOutput
  <2>10. Backup(stdin_backup, 0)' /\ Backup(stdout_backup, 1)'
    <3>1. stdin_backup > 2 => stdin_backup # NoFd
      BY <1>3 DEF NoFd
    <3>2. Backup(stdin_backup, 0)'
      BY <1>1, <1>2, <1>4, <2>7, <2>8, <3>1 DEF Backup
    <3>3. Backup(stdout_backup, 1)'
      BY <1>2, <2>4, <2>6, <2>7 DEF Backup
    <3> QED
      BY <3>2, <3>3
  <2>11. Redirected'
    BY <1>1, <1>2, <2>4, <2>5, <2>9, <2>10 DEF Redirected
  <2>12. OutputRight'
    BY <1>1, <1>2, <2>3, <2>7 DEF OutputRight, LastOr
  <2> QED
    BY <1>8, <2>1, <2>7, <2>11, <2>12
<1> QED
  BY <1>7, <1>9, <1>10

LEMMA StepRun ==
  ASSUME TypeOK, TypeOK', IInv, Builtin \/ Exit \/ External \/ ForkFails
  PROVE  IInv'
<1> USE DEF lineVars, heredocVars, backups, statusVars, worldVars, outcome
<1>1. /\ pc = "run"
      /\ UNCHANGED <<line, lines, before, hd, fd_in, stdin_backup, stdout_backup, refused>>
  BY DEF Builtin, Exit, External, ForkFails, RunMoves, Moves
<1>2. AtRun /\ Fresh /\ StdioOpen(own) /\ ~exit_requested /\ StdioOpen(own)'
  BY <1>1 DEF IInv, AtRun, own, StdioOpen
<1>3. CASE ForkFails
  <2>1. pc' = "gone" /\ ran' = ran /\ exit_requested' = exit_requested
    BY <1>3 DEF ForkFails, Moves
  <2>2. RunsWithItsFiles'
    BY <1>1, <2>1, RunStays DEF IInv
  <2> QED
    BY <1>2, <2>1, <2>2 DEF IInv, TableRestored
<1>4. CASE Builtin \/ Exit \/ External
  <2>1. /\ pc' = "restore" /\ ran' = [in |-> fds[0], out |-> fds[1]]
        /\ Exit \/ UNCHANGED <<fds, exit_requested>>
    <3>1. CASE Builtin
      BY <3>1 DEF Builtin, RunMoves, Moves
    <3>2. CASE Exit
      <4>1. pc' = "restore" /\ ran' = [in |-> fds[0], out |-> fds[1]]
        BY <3>2 DEF Exit, RunMoves, Moves
      <4> QED
        BY <3>2, <4>1
    <3>3. CASE External
      BY <3>3 DEF External, RunMoves, Moves
    <3> QED
      BY <1>4, <3>1, <3>2, <3>3
  <2>2. ran'.in = fds[0] /\ ran'.out = fds[1]
    BY <2>1
  <2>3. RunsWithItsFiles'
    BY <1>1, <1>2, <2>2
       DEF RunsWithItsFiles, AtRun, InputRight, OutputRight, LastOr, own
  <2>4. CASE Exit
    <3>1. exit_requested'
      BY <2>4 DEF Exit
    <3> QED
      BY <1>2, <2>1, <2>3, <3>1 DEF IInv, TableRestored
  <2>5. CASE fds' = fds /\ exit_requested' = exit_requested
    <3>1. Redirected' /\ refused' = "no"
      BY <1>1, <1>2, <2>5 DEF AtRun, Fresh, Redirected, Backup, own
    <3> QED
      BY <1>2, <2>1, <2>3, <2>5, <3>1 DEF IInv, TableRestored
  <2> QED
    BY <2>1, <2>4, <2>5
<1> QED
  BY <1>3, <1>4

LEMMA StepRestore ==
  ASSUME TypeOK, TypeOK', IInv, Restore
  PROVE  IInv'
<1> USE DEF lineVars, heredocVars, backups, statusVars, worldVars, outcome
<1>1. /\ pc = "restore" /\ pc' = "finish"
      /\ UNCHANGED <<line, lines, before, hd, fd_in, stdin_backup, stdout_backup,
                     exit_requested, ran, refused>>
      /\ fds' = RestoreTable(stdout_backup, 1, RestoreTable(stdin_backup, 0, fds))
  BY DEF Restore, Moves
<1>2. StdioOpen(own) /\ own' = own /\ RunsWithItsFiles'
  BY <1>1, RunStays DEF IInv, own
<1>3. CASE exit_requested
  BY <1>1, <1>2, <1>3 DEF IInv, TableRestored, StdioOpen
<1>4. CASE ~exit_requested
  <2>1. Redirected
    BY <1>1, <1>4 DEF IInv
  <2>2. /\ fds \in [Fd -> Entry] /\ own \in [Fd -> Entry] /\ fds' \in [Fd -> Entry]
        /\ stdin_backup \in Fd \cup {NoFd} /\ stdout_backup \in Fd \cup {NoFd}
        /\ NoFd \notin Fd /\ Fd \subseteq Nat /\ 0 \in Fd /\ 1 \in Fd
        /\ own[0] # Closed /\ own[1] # Closed
    BY <1>2, Descriptors012 DEF TypeOK, Entry, own, StdioOpen
  <2> DEFINE t == RestoreTable(stdin_backup, 0, fds)
  <2>3. t \in [Fd -> Entry]
    <3>1. Closed \in Entry
      BY DEF Entry
    <3> QED
      BY <2>2, <3>1, TableStays
  <2>4. \/ stdin_backup = NoFd /\ fds[0] = own[0]
        \/ /\ stdin_backup \in Fd /\ stdin_backup \notin {0, 1}
           /\ own[stdin_backup] = Closed /\ fds[stdin_backup] = own[0]
    BY <2>1, <2>2 DEF Redirected, Backup, NoFd
  <2>5. \/ stdout_backup = NoFd /\ fds[1] = own[1]
        \/ /\ stdout_backup \in Fd /\ stdout_backup \notin {0, 1}
           /\ own[stdout_backup] = Closed /\ fds[stdout_backup] = own[1]
    BY <2>1, <2>2 DEF Redirected, Backup, NoFd
  <2>6. \A f \in Fd : t[f] = IF f \in {stdin_backup, 0} THEN own[f] ELSE fds[f]
    <3>1. \/ stdin_backup = NoFd /\ fds[0] = own[0]
          \/ /\ stdin_backup \in Fd /\ stdin_backup # 0
             /\ own[stdin_backup] = Closed /\ fds[stdin_backup] = own[0]
      BY <2>4
    <3> QED
      BY <2>2, <3>1, RestoredOne
  <2> HIDE DEF t
  <2>7. \/ stdout_backup = NoFd /\ t[1] = own[1]
        \/ /\ stdout_backup \in Fd /\ stdout_backup # 1
           /\ own[stdout_backup] = Closed /\ t[stdout_backup] = own[1]
    <3>1. stdin_backup # 1 /\ (stdout_backup \in Fd => stdin_backup # stdout_backup)
      BY <2>1, <2>2, <2>4 DEF Redirected, NoFd
    <3>2. t[1] = fds[1]
      BY <2>2, <2>6, <3>1
    <3> QED
      BY <2>2, <2>5, <2>6, <3>1, <3>2
  <2>8. \A f \in Fd : fds'[f] = IF f \in {stdout_backup, 1} THEN own[f] ELSE t[f]
    <3>1. fds' = RestoreTable(stdout_backup, 1, t)
      BY <1>1 DEF t
    <3>2. \A f \in Fd : RestoreTable(stdout_backup, 1, t)[f]
                          = IF f \in {stdout_backup, 1} THEN own[f] ELSE t[f]
      BY <2>2, <2>3, <2>7, RestoredOne
    <3> QED
      BY <3>1, <3>2
  <2>9. \A f \in Fd : fds'[f] = own[f]
    <3>1. \A f \in Fd \ {0, 1, stdin_backup, stdout_backup} : fds[f] = own[f]
      BY <2>1 DEF Redirected
    <3> QED
      BY ONLY <2>6, <2>8, <3>1
  <2>10. fds' = own
    <3>1. fds' \in [Fd -> Entry] /\ own \in [Fd -> Entry]
      BY <2>2
    <3> QED
      BY ONLY <2>9, <3>1
  <2>11. StdioOpen(fds)' /\ StdioOpen(own)'
    BY <1>2, <2>10 DEF StdioOpen
  <2>12. TableRestored'
    BY <1>2, <2>10 DEF TableRestored, own
  <2> QED
    BY <1>1, <1>2, <1>4, <2>11, <2>12 DEF IInv
<1> QED
  BY <1>3, <1>4

LEMMA StepFinish ==
  ASSUME TypeOK, IInv, Finish
  PROVE  IInv'
<1> USE DEF lineVars, heredocVars, backups, statusVars, worldVars, outcome
<1>1. /\ pc = "finish" /\ pc' = IF exit_requested THEN "gone" ELSE "prompt"
      /\ UNCHANGED <<line, lines, before, fd_in, fds, exit_requested, ran>>
  BY DEF Finish, Moves
<1>2. RunsWithItsFiles' /\ StdioOpen(own)' /\ (~exit_requested => StdioOpen(fds)')
  BY <1>1, RunStays DEF IInv, StdioOpen, own
<1> QED
  BY <1>1, <1>2 DEF IInv, TableRestored

LEMMA InvStep ==
  ASSUME TypeOK, TypeOK', Started, IInv, [Next]_vars
  PROVE  IInv'
<1>1. CASE UNCHANGED vars
  BY <1>1, Unaffected
     DEF vars, lineVars, heredocVars, backups, statusVars, worldVars, outcome
<1>2. CASE Change
  BY <1>2, Unaffected
     DEF Change, lineVars, heredocVars, backups, statusVars, worldVars, outcome
<1> QED
  BY <1>1, <1>2, StepPrompt, StepHeredoc, StepHeredocs, StepCheck, StepInput,
     StepInputFails, StepOutput, StepRun, StepRestore, StepFinish DEF Next

-----------------------------------------------------------------------------
(* The code and sh.  sh is after k redirections where the check is, and what *)
(* the code opens a second time is as sh left it.                            *)

Count == Len(line.redirects)

\* process_redirect has k redirections behind it.
Behind(k) ==
  /\ Len(todo) = Count - k
  /\ \A i \in 1 .. Count - k : todo[i] = line.redirects[k + i]

\* The heredoc of a line is read if it has one.
HeredocRead == fd_in > 0 <=> line.heredocs > 0

AsSh ==
  /\ pc = "readline" => ~env.exit
  /\ calm /\ pc \in {"heredocs", "check", "input", "output"} => ~env.exit
  /\ calm /\ pc = "heredocs" =>
       /\ files = before.files /\ todo = line.redirects
       /\ fd_in > 0 <=> hd > 0
  /\ calm /\ pc \in {"check", "input", "output", "run"} => HeredocRead
  /\ Comparable /\ pc = "check" =>
       \E k \in 0 .. Count : Behind(k) /\ ShAfter[k].ok /\ files = ShAfter[k].files
  /\ Comparable /\ pc \in {"input", "output", "run"} => ShLine.ok /\ files = ShLine.files
  /\ Comparable /\ pc = "restore" =>
       /\ Ran /\ ShLine.ok /\ ran = [in |-> ShLine.in, out |-> ShLine.out]
       /\ files = IF line.command = "missing" THEN ShLine.files
                  ELSE Written(ShLine.files, ShLine.out, lines)
  /\ LinesDoAsSh

\* What holds of 0 and passes from each number to the next holds up to n.
LEMMA UpTo ==
  ASSUME NEW n \in Nat, NEW T, 0 \in T, \A k \in 0 .. n - 1 : k \in T => k + 1 \in T
  PROVE  \A k \in 0 .. n : k \in T
<1> DEFINE m == n + 1
           S == {i \in 1 .. m : \A j \in 0 .. i - 1 : j \in T}
<1>1. 1 \in S
  <2>1. \A j \in 0 .. 1 - 1 : j = 0
    OBVIOUS
  <2> QED
    BY <2>1
<1>2. PICK i \in S : \A j \in S : j <= i
  <2>0. m \in Nat
    OBVIOUS
  <2>1. S \in SUBSET (1 .. m)
    OBVIOUS
  <2> HIDE DEF S, m
  <2> QED
    BY <1>1, <2>0, <2>1, GreatestIndex
<1>3. CASE i = n + 1
  BY <1>2, <1>3
<1>4. CASE i # n + 1
  <2>1. i \in 1 .. n /\ i - 1 \in 0 .. n - 1 /\ i - 1 \in T
    BY <1>2, <1>4
  <2>2. i - 1 + 1 \in T
    BY <2>1
  <2>3. i \in T
    BY <2>1, <2>2
  <2>4. \A j \in 0 .. i : j = i \/ j \in 0 .. i - 1
    BY <2>1
  <2>5. i + 1 \in 1 .. m /\ \A j \in 0 .. i + 1 - 1 : j \in T
    BY <1>2, <2>1, <2>3, <2>4
  <2>6. i + 1 \in S
    BY <2>5
  <2> QED
    BY <1>2, <2>1, <2>6
<1> QED
  BY <1>3, <1>4

\* sh takes one redirection after the other.
LEMMA ShSteps ==
  ASSUME Count \in Nat
  PROVE  /\ ShAfter[0] = ShStart
         /\ \A k \in 1 .. Count : ShAfter[k] = ShRedirect(ShAfter[k - 1], line.redirects[k])
<1> DEFINE n == Count
           e(f, k) == IF k = 0 THEN ShStart ELSE ShRedirect(f[k - 1], line.redirects[k])
           P(f, m) == f = [k \in 0 .. m |-> e(f, k)]
           T == {m \in 0 .. n : \E g : P(g, m)}
<1>1. n \in Nat
  OBVIOUS
<1>2. 0 \in T
  <2> DEFINE g == [k \in 0 .. 0 |-> ShStart]
  <2>1. \A k \in 0 .. 0 : k = 0
    OBVIOUS
  <2>2. P(g, 0)
    BY <2>1
  <2>3. 0 \in 0 .. n
    OBVIOUS
  <2> HIDE DEF P, g
  <2> QED
    BY <2>2, <2>3
<1>3. ASSUME NEW m \in 0 .. n - 1, m \in T PROVE m + 1 \in T
  <2>1. PICK g : P(g, m)
    BY <1>3
  <2> DEFINE h == [i \in 0 .. m + 1 |->
                     IF i = m + 1 THEN ShRedirect(g[m], line.redirects[m + 1]) ELSE g[i]]
  <2>2. \A i \in 0 .. m : g[i] = e(g, i)
    BY <2>1
  <2>3. m \in Nat /\ m + 1 \in 0 .. n /\ \A i \in 0 .. m : h[i] = g[i]
    BY <1>3
  <2>4. h[m + 1] = ShRedirect(g[m], line.redirects[m + 1])
    BY <2>3
  <2> HIDE DEF h
  <2>5. ASSUME NEW i \in 0 .. m + 1 PROVE h[i] = e(h, i)
    <3>1. CASE i = m + 1
      <4>1. i # 0 /\ i - 1 = m /\ h[m] = g[m]
        BY <2>3, <3>1
      <4> QED
        BY <2>4, <3>1, <4>1
    <3>2. CASE i \in 1 .. m
      <4>1. i \in 0 .. m /\ i - 1 \in 0 .. m /\ i # 0
        BY <2>3, <3>2
      <4>2. h[i] = g[i] /\ h[i - 1] = g[i - 1]
        BY <2>3, <4>1
      <4>3. g[i] = e(g, i)
        BY <2>2, <4>1
      <4> QED
        BY <4>1, <4>2, <4>3
    <3>3. CASE i = 0
      BY <2>2, <2>3, <3>3
    <3> QED
      BY <2>3, <3>1, <3>2, <3>3
  <2>6. h = [i \in 0 .. m + 1 |-> h[i]]
    BY DEF h
  <2> HIDE DEF e
  <2>7. P(h, m + 1)
    BY <2>5, <2>6
  <2> HIDE DEF P
  <2> QED
    BY <2>3, <2>7
<1>4. n \in T
  <2> HIDE DEF T, n
  <2>1. \A k \in 0 .. n : k \in T
    BY <1>1, <1>2, <1>3, UpTo
  <2> QED
    BY <1>1, <2>1
<1>5. ShAfter = CHOOSE f : P(f, n)
  BY DEF ShAfter, Count
<1>6. P(ShAfter, n)
  <2>1. \E g : P(g, n)
    BY <1>4
  <2> HIDE DEF P
  <2> QED
    BY <1>5, <2>1
<1> HIDE DEF e
<1>7. \A k \in 0 .. n : ShAfter[k] = e(ShAfter, k)
  BY <1>6
<1> HIDE DEF P, T
<1>8. ShAfter[0] = e(ShAfter, 0) /\ \A k \in 1 .. n : k \in 0 .. n /\ k # 0
  BY <1>1, <1>7
<1> QED
  BY <1>7, <1>8 DEF e

ShState == [ok : BOOLEAN, files : [Files -> File], in : Entry \cup {ShStart.in}, out : Entry]

LEMMA OpenedAgain ==
  ASSUME NEW fs \in [Files -> File], NEW f \in Files, NEW type
  PROVE  /\ Opened(Opened(fs, f, type), f, type) = Opened(fs, f, type)
         /\ \A r \in Redirection : Openable(fs, r) => Openable(Opened(fs, f, type), r)
<1> DEFINE fs1 == Opened(fs, f, type)
           text == IF type = "out" THEN <<>> ELSE fs[f].text
<1>1. fs1 = [fs EXCEPT ![f] = [fs[f] EXCEPT !.exists = TRUE, !.text = text]]
  BY DEF Opened
<1>2. fs[f] \in File
  OBVIOUS
<1>3. /\ fs1[f].exists = TRUE /\ fs1[f].text = text
      /\ fs1[f].read = fs[f].read /\ fs1[f].write = fs[f].write
      /\ \A g \in Files \ {f} : fs1[g] = fs[g]
  BY <1>1, <1>2 DEF File
<1>4. fs1 \in [Files -> File]
  BY FilesStay
<1>5. \A r \in Redirection : Openable(fs, r) => Openable(fs1, r)
  BY <1>3 DEF Openable, Readable, Redirection
<1> HIDE DEF fs1
<1>6. Opened(fs1, f, type) = fs1
  <2> DEFINE new == [fs1[f] EXCEPT !.exists = TRUE,
                                   !.text = IF type = "out" THEN <<>> ELSE fs1[f].text]
  <2>1. fs1[f] \in File
    BY <1>4
  <2>2. (IF type = "out" THEN <<>> ELSE fs1[f].text) = fs1[f].text
    BY <1>3
  <2>3. new = [fs1[f] EXCEPT !.exists = TRUE, !.text = fs1[f].text]
    BY <2>2
  <2>4. new = fs1[f]
    BY <1>3, <2>1, <2>3 DEF File
  <2>5. Opened(fs1, f, type) = [fs1 EXCEPT ![f] = new]
    BY Zenon DEF Opened
  <2> HIDE DEF new
  <2> QED
    BY <1>4, <2>4, <2>5
<1> QED
  BY <1>5, <1>6 DEF fs1

\* Where sh is if it has opened k files: the last of a kind counts, each could be
\* opened again, and the last one for output is as it would leave it then.
Right(st, k) ==
  LET rs == line.redirects
  IN  /\ \A i \in 1 .. k : Openable(st.files, rs[i])
      /\ (\A j \in 1 .. k : rs[j].type # "in") => st.in = ShStart.in
      /\ \A i \in 1 .. k :
           rs[i].type = "in" /\ (\A j \in i + 1 .. k : rs[j].type # "in") =>
             st.in = FileObj(rs[i].file)
      /\ (\A j \in 1 .. k : rs[j].type = "in") => st.out = own[1]
      /\ \A i \in 1 .. k :
           rs[i].type # "in" /\ (\A j \in i + 1 .. k : rs[j].type = "in") =>
             /\ st.out = FileObj(rs[i].file)
             /\ Opened(st.files, rs[i].file, rs[i].type) = st.files

LEMMA LineIs ==
  ASSUME TypeOK
  PROVE  /\ line.redirects \in Seq(Redirection) /\ Count \in Nat
         /\ DOMAIN line.redirects = 1 .. Count
         /\ \A i \in 1 .. Count : line.redirects[i] \in Redirection
<1>1. line.redirects \in Seq(Redirection)
  BY LineParts DEF TypeOK
<1> QED
  BY <1>1, LenProperties, ElementOfSeq DEF Count

LEMMA ShRedirectRight ==
  ASSUME TypeOK, NEW k \in 1 .. Count, NEW st \in ShState, st.ok => Right(st, k - 1)
  PROVE  LET new == ShRedirect(st, line.redirects[k])
         IN  new \in ShState /\ (new.ok => Right(new, k))
<1> DEFINE rs == line.redirects
           r == rs[k]
           new == ShRedirect(st, r)
<1>1. r \in Redirection /\ Count \in Nat /\ \A i \in 1 .. Count : rs[i] \in Redirection
  BY LineIs
<1>2. r.file \in Files /\ r.type \in {"in", "out", "append"} /\ FileObj(r.file) \in Entry
  BY <1>1 DEF Redirection, Entry, Object
<1>3. st.files \in [Files -> File] /\ st.ok \in BOOLEAN
  BY DEF ShState
<1>4. \A i \in 1 .. k : i \in 1 .. Count /\ (i = k \/ i \in 1 .. k - 1)
  BY <1>1
<1>5. \A i \in 1 .. k - 1 : i \in 1 .. k /\ k \in i + 1 .. k
                            /\ \A j \in i + 1 .. k - 1 : j \in i + 1 .. k
  BY <1>1
<1>50. \A i \in 1 .. k - 1 : \A j \in i + 1 .. k : j = k \/ j \in i + 1 .. k - 1
  BY <1>1
<1>51. k \in 1 .. k /\ \A j \in k + 1 .. k : FALSE
  BY <1>1
<1> HIDE DEF r, rs
<1>6. CASE ~st.ok \/ ~Openable(st.files, r)
  <2>1. new = [st EXCEPT !.ok = FALSE]
    BY <1>6 DEF ShRedirect
  <2>2. new \in ShState /\ ~new.ok
    BY <2>1 DEF ShState
  <2> QED
    BY <2>2 DEF r, rs
<1>7. CASE st.ok /\ Openable(st.files, r) /\ r.type = "in"
  <2>1. new = [st EXCEPT !.in = FileObj(r.file)]
    BY <1>7 DEF ShRedirect
  <2>2. new \in ShState
    BY <1>2, <2>1 DEF ShState
  <2>3. new.files = st.files /\ new.in = FileObj(r.file) /\ new.out = st.out
    BY <2>1 DEF ShState
  <2> HIDE DEF new
  <2>4. Right(st, k - 1)
    BY <1>7
  <2>5. \A i \in 1 .. k : Openable(new.files, rs[i])
    BY <1>4, <1>7, <2>3, <2>4 DEF Right, r, rs
  <2>6. (\A j \in 1 .. k : rs[j].type # "in") => new.in = ShStart.in
    BY <1>7, <1>51 DEF r
  <2>7. ASSUME NEW i \in 1 .. k, rs[i].type = "in", \A j \in i + 1 .. k : rs[j].type # "in"
        PROVE  new.in = FileObj(rs[i].file)
    <3>1. i = k
      BY <1>4, <1>5, <1>7, <2>7 DEF r
    <3> QED
      BY <2>3, <3>1 DEF r
  <2>8. (\A j \in 1 .. k : rs[j].type = "in") => new.out = own[1]
    BY <1>5, <2>3, <2>4 DEF Right, rs
  <2>9. ASSUME NEW i \in 1 .. k, rs[i].type # "in", \A j \in i + 1 .. k : rs[j].type = "in"
        PROVE  /\ new.out = FileObj(rs[i].file)
               /\ Opened(new.files, rs[i].file, rs[i].type) = new.files
    <3>1. i \in 1 .. k - 1 /\ \A j \in i + 1 .. k - 1 : rs[j].type = "in"
      BY <1>4, <1>5, <1>7, <2>9 DEF r
    <3> QED
      BY <2>3, <2>4, <2>9, <3>1 DEF Right, rs
  <2>10. Right(new, k)
    BY <2>5, <2>6, <2>7, <2>8, <2>9 DEF Right, rs
  <2> QED
    BY <2>2, <2>10 DEF new, r, rs
<1>8. CASE st.ok /\ Openable(st.files, r) /\ r.type # "in"
  <2> DEFINE fs == Opened(st.files, r.file, r.type)
  <2>1. new = [st EXCEPT !.out = FileObj(r.file), !.files = fs]
    BY <1>8 DEF ShRedirect
  <2>2. /\ fs \in [Files -> File] /\ Opened(fs, r.file, r.type) = fs
        /\ \A q \in Redirection : Openable(st.files, q) => Openable(fs, q)
    BY <1>2, <1>3, FilesStay, OpenedAgain
  <2> HIDE DEF fs
  <2>3. new \in ShState
    BY <1>2, <2>1, <2>2 DEF ShState
  <2>4. new.files = fs /\ new.out = FileObj(r.file) /\ new.in = st.in
    BY <2>1 DEF ShState
  <2> HIDE DEF new
  <2>5. Right(st, k - 1)
    BY <1>8
  <2>6. \A i \in 1 .. k : Openable(new.files, rs[i])
    <3>1. \A i \in 1 .. k - 1 : Openable(st.files, rs[i])
      BY <2>5 DEF Right, rs
    <3>2. \A i \in 1 .. k : rs[i] \in Redirection
      BY <1>1, <1>4
    <3> QED
      BY <1>4, <1>8, <2>2, <2>4, <3>1, <3>2 DEF r
  <2>7. (\A j \in 1 .. k : rs[j].type # "in") => new.in = ShStart.in
    BY <1>5, <2>4, <2>5 DEF Right, rs
  <2>8. ASSUME NEW i \in 1 .. k, rs[i].type = "in", \A j \in i + 1 .. k : rs[j].type # "in"
        PROVE  new.in = FileObj(rs[i].file)
    <3>1. i \in 1 .. k - 1 /\ \A j \in i + 1 .. k - 1 : rs[j].type # "in"
      BY <1>4, <1>5, <1>8, <2>8 DEF r
    <3> QED
      BY <2>4, <2>5, <2>8, <3>1 DEF Right, rs
  <2>9. (\A j \in 1 .. k : rs[j].type = "in") => new.out = own[1]
    BY <1>8, <1>51 DEF r
  <2>10. ASSUME NEW i \in 1 .. k, rs[i].type # "in", \A j \in i + 1 .. k : rs[j].type = "in"
         PROVE  /\ new.out = FileObj(rs[i].file)
                /\ Opened(new.files, rs[i].file, rs[i].type) = new.files
    <3>1. i = k
      BY <1>4, <1>5, <1>8, <2>10 DEF r
    <3> QED
      BY <2>2, <2>4, <3>1 DEF r
  <2>11. Right(new, k)
    BY <2>6, <2>7, <2>8, <2>9, <2>10 DEF Right, rs
  <2> QED
    BY <2>3, <2>11 DEF new, r, rs
<1> QED
  BY <1>6, <1>7, <1>8

LEMMA ShRight ==
  ASSUME TypeOK
  PROVE  \A k \in 0 .. Count : ShAfter[k] \in ShState /\ (ShAfter[k].ok => Right(ShAfter[k], k))
<1> DEFINE T == {k \in 0 .. Count :
                   ShAfter[k] \in ShState /\ (ShAfter[k].ok => Right(ShAfter[k], k))}
<1>1. Count \in Nat
  BY LineIs
<1>2. 0 \in T
  <2>1. ShAfter[0] = ShStart
    BY <1>1, ShSteps
  <2>2. before.files \in [Files -> File] /\ before.fds[1] \in Entry
    BY Descriptors012 DEF TypeOK, Entry
  <2> DEFINE in == ShStart.in
  <2>3. ShStart = [ok |-> TRUE, files |-> before.files, out |-> before.fds[1], in |-> in]
    BY DEF ShStart
  <2> HIDE DEF in
  <2>4. ShStart \in [ok : BOOLEAN, files : [Files -> File], in : Entry \cup {in}, out : Entry]
    BY <2>2, <2>3
  <2>5. ShStart \in ShState
    BY <2>4 DEF ShState, in
  <2>6. \A i \in 1 .. 0 : FALSE
    OBVIOUS
  <2>7. Right(ShStart, 0)
    BY <2>6 DEF Right, ShStart, own
  <2> QED
    BY <1>1, <2>1, <2>5, <2>7
<1>3. ASSUME NEW k \in 0 .. Count - 1, k \in T PROVE k + 1 \in T
  <2>1. k + 1 \in 1 .. Count /\ k + 1 - 1 = k /\ k + 1 \in 0 .. Count
    BY <1>1
  <2>2. ShAfter[k + 1] = ShRedirect(ShAfter[k], line.redirects[k + 1])
    BY <1>1, <2>1, ShSteps
  <2>3. ShAfter[k] \in ShState /\ (ShAfter[k].ok => Right(ShAfter[k], k + 1 - 1))
    BY <1>3, <2>1
  <2>4. ShAfter[k + 1] \in ShState /\ (ShAfter[k + 1].ok => Right(ShAfter[k + 1], k + 1))
    BY <2>1, <2>2, <2>3, ShRedirectRight
  <2> QED
    BY <2>1, <2>4
<1> HIDE DEF T
<1>4. \A k \in 0 .. Count : k \in T
  BY <1>1, <1>2, <1>3, UpTo
<1> QED
  BY <1>4 DEF T

\* sh stops at the first redirection that fails.
LEMMA ShStops ==
  ASSUME TypeOK, NEW k \in 0 .. Count, ~ShAfter[k].ok
  PROVE  ShLine = ShAfter[k]
<1> DEFINE T == {j \in 0 .. Count : j >= k => ShAfter[j] = ShAfter[k]}
<1>1. Count \in Nat /\ ShAfter[k] \in ShState
  BY LineIs, ShRight
<1>2. 0 \in T
  BY <1>1
<1>3. ASSUME NEW j \in 0 .. Count - 1, j \in T PROVE j + 1 \in T
  <2>1. j + 1 \in 1 .. Count /\ j + 1 - 1 = j /\ j + 1 \in 0 .. Count
    BY <1>1
  <2>2. CASE j >= k
    <3>1. ShAfter[j + 1] = ShRedirect(ShAfter[j], line.redirects[j + 1])
      BY <1>1, <2>1, ShSteps
    <3>2. ShAfter[j] = ShAfter[k]
      BY <1>3, <2>2
    <3> DEFINE st == ShAfter[k]
    <3>3. ShAfter[j + 1] = [st EXCEPT !.ok = FALSE]
      BY <3>1, <3>2 DEF ShRedirect
    <3>4. st \in ShState /\ ~st.ok
      BY <1>1
    <3> HIDE DEF st
    <3>5. [st EXCEPT !.ok = FALSE] = st
      BY <3>4 DEF ShState
    <3> QED
      BY <2>1, <3>3, <3>5 DEF st
  <2>3. CASE ~(j >= k)
    <3>1. j + 1 >= k => j + 1 = k
      BY <1>1, <2>3
    <3> QED
      BY <2>1, <3>1
  <2> QED
    BY <2>2, <2>3
<1> HIDE DEF T
<1>4. \A j \in 0 .. Count : j \in T
  BY <1>1, <1>2, <1>3, UpTo
<1>5. Count \in T /\ Count >= k
  BY <1>1, <1>4
<1> QED
  BY <1>5 DEF T, ShLine, Count

LEMMA ShLineRight ==
  ASSUME TypeOK
  PROVE  /\ ShLine = ShAfter[Count] /\ ShLine \in ShState
         /\ ShLine.ok => Right(ShLine, Count)
<1>1. ShLine = ShAfter[Count] /\ Count \in 0 .. Count
  BY LineIs DEF ShLine, Count
<1> QED
  BY <1>1, ShRight

\* Only one object is what the last redirection of some types names.
LEMMA LastOrUnique ==
  ASSUME TypeOK, NEW types, NEW o, NEW p, NEW q, LastOr(types, o, p), LastOr(types, o, q)
  PROVE  p = q
<1> DEFINE rs == line.redirects
           IsLast(i) == /\ rs[i].type \in types
                        /\ \A j \in i + 1 .. Count : rs[j].type \notin types
<1>1. DOMAIN rs = 1 .. Count /\ Count \in Nat
  BY LineIs
<1>2. \/ p = o /\ \A i \in 1 .. Count : rs[i].type \notin types
      \/ \E i \in 1 .. Count : p = FileObj(rs[i].file) /\ IsLast(i)
  BY <1>1 DEF LastOr, Count
<1>3. \/ q = o /\ \A i \in 1 .. Count : rs[i].type \notin types
      \/ \E i \in 1 .. Count : q = FileObj(rs[i].file) /\ IsLast(i)
  BY <1>1 DEF LastOr, Count
<1>4. ASSUME NEW i \in 1 .. Count, NEW j \in 1 .. Count, IsLast(i), IsLast(j)
      PROVE  i = j
  <2>1. i < j => j \in i + 1 .. Count
    BY <1>1
  <2>2. j < i => i \in j + 1 .. Count
    BY <1>1
  <2>3. ~(i < j) /\ ~(j < i)
    BY <1>4, <2>1, <2>2
  <2> QED
    BY <1>1, <2>3
<1> HIDE DEF rs
<1>5. CASE \A i \in 1 .. Count : rs[i].type \notin types
  BY <1>2, <1>3, <1>5
<1>6. CASE ~(\A i \in 1 .. Count : rs[i].type \notin types)
  <2>1. PICK i \in 1 .. Count : p = FileObj(rs[i].file) /\ IsLast(i)
    BY <1>2, <1>6
  <2>2. PICK j \in 1 .. Count : q = FileObj(rs[j].file) /\ IsLast(j)
    BY <1>3, <1>6
  <2> HIDE DEF IsLast
  <2> QED
    BY <1>4, <2>1, <2>2
<1> QED
  BY <1>5, <1>6

\* sh puts on 0 and 1 what the last redirections name.
LEMMA ShFinds ==
  ASSUME TypeOK, ShLine.ok
  PROVE  /\ LastOr({"in"}, ShStart.in, ShLine.in)
         /\ LastOr({"out", "append"}, own[1], ShLine.out)
<1> DEFINE rs == line.redirects
<1>1. /\ DOMAIN rs = 1 .. Count /\ Count \in Nat /\ Count = Len(rs) /\ rs \in Seq(Redirection)
      /\ \A i \in 1 .. Count : rs[i].type \in {"in", "out", "append"}
  BY LineIs DEF Redirection, Count
<1>2. Right(ShLine, Count)
  BY ShLineRight
<1>3. LastOr({"in"}, ShStart.in, ShLine.in)
  <2>1. CASE \A i \in 1 .. Count : rs[i].type # "in"
    BY <1>1, <1>2, <2>1 DEF LastOr, Right
  <2>2. CASE ~(\A i \in 1 .. Count : rs[i].type # "in")
    <3>1. Of(rs, {"in"}) # {}
      BY <1>1, <2>2 DEF Of
    <3>2. PICK i \in 1 .. Count : /\ rs[i].type \in {"in"}
                                  /\ \A j \in i + 1 .. Count : rs[j].type \notin {"in"}
      <4> HIDE DEF rs
      <4> QED
        BY <1>1, <3>1, TheOneIsLast
    <3>3. ShLine.in = FileObj(rs[i].file)
      BY <1>2, <3>2 DEF Right
    <3> QED
      BY <1>1, <3>2, <3>3 DEF LastOr
  <2> QED
    BY <2>1, <2>2
<1>4. LastOr({"out", "append"}, own[1], ShLine.out)
  <2>1. CASE \A i \in 1 .. Count : rs[i].type = "in"
    <3>1. ShLine.out = own[1]
      BY <1>2, <2>1 DEF Right
    <3> QED
      BY <1>1, <2>1, <3>1 DEF LastOr
  <2>2. CASE ~(\A i \in 1 .. Count : rs[i].type = "in")
    <3>1. Of(rs, {"out", "append"}) # {}
      BY <1>1, <2>2 DEF Of
    <3>2. PICK i \in 1 .. Count :
            /\ rs[i].type \in {"out", "append"}
            /\ \A j \in i + 1 .. Count : rs[j].type \notin {"out", "append"}
      <4> HIDE DEF rs
      <4> QED
        BY <1>1, <3>1, TheOneIsLast
    <3>3. rs[i].type # "in" /\ \A j \in i + 1 .. Count : rs[j].type = "in"
      <4>1. \A j \in i + 1 .. Count : j \in 1 .. Count
        BY <1>1
      <4> QED
        BY <1>1, <3>2, <4>1
    <3>4. ShLine.out = FileObj(rs[i].file)
      BY <1>2, <3>3 DEF Right
    <3> QED
      BY <1>1, <3>2, <3>4 DEF LastOr
  <2> QED
    BY <2>1, <2>2
<1> QED
  BY <1>3, <1>4

\* The last redirection of a kind can be opened as sh left it, and opening it
\* for output again changes nothing.
LEMMA LastAgain ==
  ASSUME TypeOK, ShLine.ok
  PROVE  /\ Of(line.redirects, {"in"}) # {} => Readable(ShLine.files, InputFile)
         /\ ToFile => /\ ShLine.files[Output.file].write
                      /\ Opened(ShLine.files, Output.file, Output.type) = ShLine.files
<1> DEFINE rs == line.redirects
<1>1. /\ DOMAIN rs = 1 .. Count /\ Count \in Nat /\ Count = Len(rs) /\ rs \in Seq(Redirection)
      /\ \A i \in 1 .. Count : rs[i].type \in {"in", "out", "append"}
  BY LineIs DEF Redirection, Count
<1>2. Right(ShLine, Count)
  BY ShLineRight
<1>3. ASSUME Of(rs, {"in"}) # {} PROVE Readable(ShLine.files, InputFile)
  <2>1. PICK i \in 1 .. Count : rs[i].type \in {"in"} /\ TheOne(rs, {"in"}) = rs[i]
    <3> HIDE DEF rs
    <3> QED
      BY <1>1, <1>3, TheOneIsLast
  <2>2. Openable(ShLine.files, rs[i])
    BY <1>2 DEF Right
  <2> QED
    BY <2>1, <2>2 DEF Openable, InputFile, infile
<1>4. ASSUME ToFile
      PROVE  /\ ShLine.files[Output.file].write
             /\ Opened(ShLine.files, Output.file, Output.type) = ShLine.files
  <2>1. PICK i \in 1 .. Count :
          /\ rs[i].type \in {"out", "append"} /\ TheOne(rs, {"out", "append"}) = rs[i]
          /\ \A j \in i + 1 .. Count : rs[j].type \notin {"out", "append"}
    <3>1. Of(rs, {"out", "append"}) # {}
      BY <1>4 DEF ToFile, outfile
    <3> HIDE DEF rs
    <3> QED
      BY <1>1, <3>1, TheOneIsLast
  <2>2. Output = rs[i]
    BY <2>1 DEF Output, outfile
  <2>3. rs[i].type # "in" /\ \A j \in i + 1 .. Count : rs[j].type = "in"
    <3>1. \A j \in i + 1 .. Count : j \in 1 .. Count
      BY <1>1
    <3> QED
      BY <1>1, <2>1, <3>1
  <2>4. Openable(ShLine.files, rs[i]) /\ Opened(ShLine.files, rs[i].file, rs[i].type) = ShLine.files
    BY <1>2, <2>3 DEF Right
  <2> QED
    BY <2>2, <2>3, <2>4 DEF Openable
<1> QED
  BY <1>3, <1>4

\* Three numbers that are free leave two whichever one is taken.
LEMMA Spare ==
  ASSUME TypeOK, Undisturbed, NEW n
  PROVE  \E a, b \in FreeFds(own) \ {n} : a # b
<1> DEFINE S == FreeFds(own)
           U == S \ {n}
<1>1. IsFiniteSet(S)
  <2>1. IsFiniteSet(Fd) /\ S \in SUBSET Fd
    BY FdLimitAssumption, FS_Interval DEF Fd, FreeFds
  <2> QED
    BY <2>1, FS_Subset
<1>2. Cardinality(S) >= 3 /\ Cardinality(S) \in Nat
  <2>1. line.heredocs \in Nat /\ Cardinality(S) >= line.heredocs + 3
    BY LineParts DEF TypeOK, Undisturbed, own
  <2>2. Cardinality(S) \in Nat
    BY <1>1, FS_CardinalityType
  <2> QED
    BY <2>1, <2>2
<1> HIDE DEF S
<1>3. IsFiniteSet(U) /\ Cardinality(U) \in Nat /\ Cardinality(U) >= 2
  BY <1>1, <1>2, FS_RemoveElement
<1> HIDE DEF U
<1>4. PICK a \in U : TRUE
  BY <1>3, FS_EmptySet
<1>5. IsFiniteSet(U \ {a}) /\ Cardinality(U \ {a}) >= 1
  BY <1>3, <1>4, FS_RemoveElement
<1>6. PICK b \in U \ {a} : TRUE
  BY <1>5, FS_EmptySet
<1> QED
  BY <1>4, <1>6 DEF U, S

\* With two free numbers a descriptor can be saved and a file opened.
LEMMA Enough ==
  ASSUME NEW t \in [Fd -> Entry], NEW std \in Fd, t[std] # Closed, NEW o,
         NEW a \in FreeFds(t), NEW b \in FreeFds(t), a # b
  PROVE  FreeFds(t) # {} /\ Alloc(Dup(t, std).tab, o).fd # NoFd
<1>1. PICK s \in Fd : t[s] = Closed /\ Dup(t, std).tab = [t EXCEPT ![s] = t[std]]
  BY Saved
<1> DEFINE t1 == [t EXCEPT ![s] = t[std]]
<1>2. a \in Fd /\ b \in Fd /\ t[a] = Closed /\ t[b] = Closed
  BY DEF FreeFds
<1>3. a \in FreeFds(t1) \/ b \in FreeFds(t1)
  BY <1>2 DEF FreeFds
<1> HIDE DEF t1
<1>4. Alloc(t1, o).fd \in Fd
  BY <1>3, AllocEffect
<1> QED
  BY <1>1, <1>4, Descriptors012 DEF t1

\* The comparison depends on the line and on what the files were before it.
LEMMA SameLine ==
  ASSUME UNCHANGED <<line, lines, before, calm>>
  PROVE  /\ Comparable' = Comparable /\ Count' = Count
         /\ ShAfter' = ShAfter /\ ShLine' = ShLine /\ ShStart' = ShStart
BY DEF Comparable, Undisturbed, Count, ShAfter, ShLine, ShStart

\* A line that something has met is not compared.
LEMMA DisturbedAsSh ==
  ASSUME calm' = FALSE, pc' = "readline" => ~env'.exit
  PROVE  AsSh'
BY DEF AsSh, Comparable, Undisturbed, LinesDoAsSh

LEMMA BetweenAsSh ==
  ASSUME TypeOK, AsSh, Prompt \/ EndOfInput \/ ForkFails \/ Finish
  PROVE  AsSh'
<1>1. pc' \in {"readline", "gone", "prompt"} /\ (pc' = "readline" => ~env'.exit)
  BY DEF Prompt, EndOfInput, ForkFails, Finish, Moves, TypeOK, Env
<1> QED
  BY <1>1 DEF AsSh, LinesDoAsSh

LEMMA ReadAsSh ==
  ASSUME TypeOK, IInv, AsSh, ReadLine \/ Heredoc \/ NotAlone \/ Alone
  PROVE  AsSh'
<1> USE DEF lineVars, heredocVars, backups, statusVars, worldVars, outcome
<1>1. CASE ReadLine
  <2>1. /\ pc = "readline" /\ pc' = "heredocs" /\ env' = env /\ files' = files
        /\ todo' = line'.redirects /\ before'.files = files /\ hd' = 0 /\ fd_in' = 0
    BY <1>1 DEF ReadLine
  <2>2. ~env'.exit
    BY <2>1 DEF AsSh
  <2> QED
    BY <2>1, <2>2 DEF AsSh, LinesDoAsSh
<1>2. CASE Heredoc
  <2>1. /\ pc = "heredocs" /\ pc' = "heredocs" /\ hd' = hd + 1 /\ hd \in Nat
        /\ UNCHANGED <<line, lines, before, calm, env, files, todo>>
    BY <1>2 DEF Heredoc, HeredocMoves, TypeOK
  <2>2. StdioOpen(fds)
    BY <2>1, HeredocsBeside DEF IInv, AtHeredocs
  <2>3. fd_in' > 0
    <3>1. PICK f \in Fd : fds[f] = Closed /\ fd_in' = f
      BY <1>2, AllocEffect DEF Heredoc
    <3>2. f # 0 /\ f \in Nat
      BY <2>2, <3>1, Descriptors012 DEF StdioOpen
    <3> QED
      BY <3>1, <3>2
  <2>4. hd' > 0
    BY <2>1
  <2> QED
    BY <2>1, <2>3, <2>4 DEF AsSh, LinesDoAsSh
<1>3. CASE NotAlone
  <2>1. pc' = "finish" /\ line' = line /\ line.command \in {"none", "pipeline"}
    BY <1>3 DEF NotAlone, Moves
  <2>2. ~Comparable'
    BY <2>1 DEF Comparable
  <2> QED
    BY <2>1, <2>2 DEF AsSh, LinesDoAsSh
<1>4. CASE Alone
  <2>1. /\ pc = "heredocs" /\ pc' = "check" /\ hd = line.heredocs
        /\ UNCHANGED <<line, lines, before, calm, env, files, todo, fd_in>>
    BY <1>4 DEF Alone, Moves
  <2>2. /\ Comparable' = Comparable /\ Count' = Count /\ ShAfter' = ShAfter
    BY <2>1, SameLine
  <2>3. ASSUME calm
        PROVE  /\ ~env'.exit /\ HeredocRead'
               /\ \E k \in 0 .. Count : Behind(k)' /\ ShAfter[k].ok /\ files' = ShAfter[k].files
    <3>1. /\ ~env.exit /\ files = before.files /\ todo = line.redirects
          /\ fd_in > 0 <=> hd > 0
      BY <2>1, <2>3 DEF AsSh
    <3>2. HeredocRead'
      BY <2>1, <3>1 DEF HeredocRead
    <3>3. Count \in Nat /\ ShAfter[0] = ShStart
      BY LineIs, ShSteps
    <3>4. ShAfter[0].ok /\ ShAfter[0].files = files
      BY <3>1, <3>3 DEF ShStart
    <3>5. Behind(0)'
      BY <2>1, <2>2, <3>1, <3>3 DEF Behind, Count
    <3> QED
      BY <2>1, <3>1, <3>2, <3>3, <3>4, <3>5
  <2>4. Comparable' => calm
    BY <2>1 DEF Comparable, Undisturbed
  <2> QED
    BY <2>1, <2>2, <2>3, <2>4 DEF AsSh, LinesDoAsSh
<1> QED
  BY <1>1, <1>2, <1>3, <1>4

\* Below a number of spare descriptors, the table of an undisturbed line has two.
LEMMA TableHasSpares ==
  ASSUME TypeOK, IInv, Comparable, pc \in {"check", "input", "output"}
  PROVE  \E a, b \in FreeFds(fds) : a # b
<1>1. CASE pc \in {"check", "input"}
  <2>1. PICK a, b \in FreeFds(own) \ {fd_in} : a # b
    BY Spare DEF Comparable
  <2>2. OneHeredoc
    BY <1>1 DEF IInv, AtInput
  <2>3. a \in FreeFds(fds) /\ b \in FreeFds(fds)
    BY <2>1, <2>2 DEF OneHeredoc, FreeFds
  <2> QED
    BY <2>1, <2>3
<1>2. CASE pc = "output"
  <2>1. PICK a, b \in FreeFds(own) \ {stdin_backup} : a # b
    BY Spare DEF Comparable
  <2>2. AtOutput /\ own[0] # Closed
    BY <1>2 DEF IInv, StdioOpen
  <2>3. a \in FreeFds(fds) /\ b \in FreeFds(fds)
    BY <2>1, <2>2 DEF AtOutput, FreeFds
  <2> QED
    BY <2>1, <2>3
<1> QED
  BY <1>1, <1>2

LEMMA CheckAsSh ==
  ASSUME TypeOK, IInv, AsSh, Check
  PROVE  AsSh'
<1> USE DEF lineVars, heredocVars, backups, statusVars, worldVars, outcome
<1>1. /\ pc = "check" /\ UNCHANGED <<line, lines, before, calm, fd_in>>
      /\ pc' \in {"check", "input", "finish"}
  BY DEF Check, Moves, Refuse
<1>2. /\ Comparable' = Comparable /\ Count' = Count
      /\ ShAfter' = ShAfter /\ ShLine' = ShLine
  BY <1>1, SameLine
<1>3. calm => ~env.exit /\ HeredocRead /\ HeredocRead'
  BY <1>1 DEF AsSh, HeredocRead
<1>4. Comparable => calm
  BY DEF Comparable, Undisturbed
<1>5. Comparable => FreeFds(fds) # {}
  BY <1>1, TableHasSpares
<1>6. todo \in Seq(Redirection)
  BY DEF TypeOK
<1>7. CASE todo = <<>>
  <2>1. pc' = "input" /\ UNCHANGED <<env, files>>
    BY <1>7 DEF Check, Moves
  <2>2. ASSUME Comparable PROVE ShLine.ok /\ files = ShLine.files
    <3>1. PICK k \in 0 .. Count : Behind(k) /\ ShAfter[k].ok /\ files = ShAfter[k].files
      BY <1>1, <2>2 DEF AsSh
    <3>2. k = Count
      BY <1>7, <3>1, LineIs DEF Behind
    <3> QED
      BY <3>1, <3>2, ShLineRight
  <2> QED
    BY <1>2, <1>3, <1>1, <2>1, <2>2 DEF AsSh, LinesDoAsSh
<1> DEFINE r == Head(todo)
<1>8. ASSUME todo # <<>>, Comparable
      PROVE  \E k \in 0 .. Count - 1 :
               /\ Behind(k) /\ ShAfter[k].ok /\ files = ShAfter[k].files
               /\ r = line.redirects[k + 1] /\ ShAfter[k] \in ShState
               /\ ShAfter[k + 1] = ShRedirect(ShAfter[k], r)
  <2>1. PICK k \in 0 .. Count : Behind(k) /\ ShAfter[k].ok /\ files = ShAfter[k].files
    BY <1>1, <1>8 DEF AsSh
  <2>2. Count \in Nat
    BY LineIs
  <2>3. k \in 0 .. Count - 1
    <3>1. Len(todo) # 0
      BY <1>6, <1>8, EmptySeq
    <3> QED
      BY <2>1, <2>2, <3>1 DEF Behind
  <2>4. r = line.redirects[k + 1]
    <3>1. 1 \in 1 .. Count - k
      BY <2>2, <2>3
    <3>2. todo[1] = line.redirects[k + 1]
      BY <2>1, <3>1 DEF Behind
    <3> QED
      BY <3>2
  <2>5. k + 1 \in 1 .. Count /\ k + 1 - 1 = k
    BY <2>2, <2>3
  <2>6. ShAfter[k + 1] = ShRedirect(ShAfter[k], r)
    BY <2>2, <2>4, <2>5, ShSteps
  <2>7. ShAfter[k] \in ShState
    BY ShRight
  <2> HIDE DEF r
  <2> QED
    BY <2>1, <2>3, <2>4, <2>6, <2>7
<1>9. CASE todo # <<>> /\ Openable(files, r) /\ FreeFds(fds) # {}
  <2>1. pc' = "check" /\ env' = env /\ files' = Tried(files, r) /\ todo' = Tail(todo)
    BY <1>9 DEF Check, Moves
  <2>2. ASSUME Comparable
        PROVE  \E k \in 0 .. Count : Behind(k)' /\ ShAfter[k].ok /\ files' = ShAfter[k].files
    <3>1. PICK k \in 0 .. Count - 1 :
            /\ Behind(k) /\ ShAfter[k].ok /\ files = ShAfter[k].files
            /\ r = line.redirects[k + 1] /\ ShAfter[k] \in ShState
            /\ ShAfter[k + 1] = ShRedirect(ShAfter[k], r)
      BY <1>8, <1>9, <2>2
    <3>2. Count \in Nat /\ k + 1 \in 0 .. Count
      BY LineIs
    <3> DEFINE st == ShAfter[k]
    <3>3. st \in ShState /\ st.ok /\ Openable(st.files, r) /\ files = st.files
      BY <1>9, <3>1
    <3>4. ShAfter[k + 1] = ShRedirect(st, r)
      BY <3>1
    <3> HIDE DEF st, r
    <3>5. ShAfter[k + 1].ok /\ ShAfter[k + 1].files = files'
      <4>1. CASE r.type = "in"
        <5>1. ShAfter[k + 1] = [st EXCEPT !.in = FileObj(r.file)]
          BY <3>3, <3>4, <4>1 DEF ShRedirect
        <5>2. files' = files
          BY <2>1, <4>1 DEF Tried
        <5> QED
          BY <3>3, <5>1, <5>2 DEF ShState
      <4>2. CASE r.type # "in"
        <5> DEFINE fs == Opened(st.files, r.file, r.type)
        <5>1. ShAfter[k + 1] = [st EXCEPT !.out = FileObj(r.file), !.files = fs]
          BY <3>3, <3>4, <4>2 DEF ShRedirect
        <5>2. files' = fs
          BY <2>1, <3>3, <4>2 DEF Tried
        <5> HIDE DEF fs
        <5> QED
          BY <3>3, <5>1, <5>2 DEF ShState
      <4> QED
        BY <4>1, <4>2
    <3>6. Behind(k + 1)'
      <4>1. /\ Len(Tail(todo)) = Len(todo) - 1
            /\ \A i \in 1 .. Len(Tail(todo)) : Tail(todo)[i] = todo[i + 1]
        BY <1>6, <1>9, HeadTailProperties
      <4>2. Len(todo) = Count - k /\ \A i \in 1 .. Count - k : todo[i] = line.redirects[k + i]
        BY <3>1 DEF Behind
      <4>3. Len(todo') = Count - (k + 1)
        BY <2>1, <3>2, <4>1, <4>2
      <4>4. ASSUME NEW i \in 1 .. Count - (k + 1)
            PROVE  todo'[i] = line.redirects[k + 1 + i]
        <5>1. i \in 1 .. Len(Tail(todo)) /\ i + 1 \in 1 .. Count - k /\ k + (i + 1) = k + 1 + i
          BY <3>2, <4>1, <4>2
        <5> QED
          BY <2>1, <4>1, <4>2, <5>1
      <4> QED
        BY <1>1, <1>2, <4>3, <4>4 DEF Behind
    <3> QED
      BY <3>2, <3>5, <3>6
  <2> QED
    BY <1>1, <1>2, <1>3, <2>1, <2>2 DEF AsSh, LinesDoAsSh
<1>10. CASE todo # <<>> /\ ~(Openable(files, r) /\ FreeFds(fds) # {})
  <2>1. pc' = "finish" /\ env' = ExitStatus(env, 1) /\ files' = files /\ ran' = ran
    BY <1>10 DEF Check, Moves, Refuse, Report
  <2>2. ASSUME Comparable
        PROVE  /\ ~Ran' /\ ~ShLine.ok /\ files' = ShLine.files /\ env'.exit_status = 1
    <3>1. PICK k \in 0 .. Count - 1 :
            /\ Behind(k) /\ ShAfter[k].ok /\ files = ShAfter[k].files
            /\ r = line.redirects[k + 1] /\ ShAfter[k] \in ShState
            /\ ShAfter[k + 1] = ShRedirect(ShAfter[k], r)
      BY <1>8, <1>10, <2>2
    <3>2. k + 1 \in 0 .. Count /\ ~Openable(files, r)
      BY <1>5, <1>10, <2>2, LineIs
    <3> DEFINE st == ShAfter[k]
    <3>3. st \in ShState /\ ~Openable(st.files, r) /\ files = st.files
      BY <3>1, <3>2
    <3>4. ShAfter[k + 1] = ShRedirect(st, r)
      BY <3>1
    <3> HIDE DEF st, r
    <3>5. ShAfter[k + 1] = [st EXCEPT !.ok = FALSE]
      BY <3>3, <3>4 DEF ShRedirect
    <3>6. ~ShAfter[k + 1].ok /\ ShAfter[k + 1].files = files
      BY <3>3, <3>5 DEF ShState
    <3>7. ShLine = ShAfter[k + 1]
      BY <3>2, <3>6, ShStops
    <3>8. ran = NotRun
      BY <1>1 DEF IInv, AtInput, Fresh
    <3>9. env'.exit_status = 1
      BY <1>3, <1>4, <2>1, <2>2 DEF ExitStatus
    <3> QED
      BY <2>1, <3>6, <3>7, <3>8, <3>9 DEF Ran
  <2> QED
    BY <1>1, <1>2, <2>1, <2>2 DEF AsSh, LinesDoAsSh
<1> QED
  BY <1>7, <1>9, <1>10

LEMMA InputAsSh ==
  ASSUME TypeOK, IInv, AsSh,
         NoInput \/ SaveInputFails \/ HeredocInput \/ HeredocMissing \/ FileInput
           \/ FileInputFails
  PROVE  AsSh'
<1> USE DEF lineVars, heredocVars, backups, statusVars, worldVars, outcome
<1>1. /\ pc = "input" /\ UNCHANGED <<line, lines, before, calm, fd_in, files>>
  BY DEF NoInput, SaveInputFails, HeredocInput, HeredocMissing, FileInput, FileInputFails,
     InputMoves, Moves
<1>2. /\ Comparable' = Comparable /\ Count' = Count
      /\ ShAfter' = ShAfter /\ ShLine' = ShLine
  BY <1>1, SameLine
<1>3. calm => ~env.exit /\ HeredocRead /\ HeredocRead'
  BY <1>1 DEF AsSh, HeredocRead
<1>4. CASE pc' = "output" /\ env' = env
  BY <1>1, <1>2, <1>3, <1>4 DEF AsSh, LinesDoAsSh
<1>5. CASE NoInput \/ HeredocInput \/ HeredocMissing \/ FileInput
  BY <1>4, <1>5 DEF NoInput, HeredocInput, HeredocMissing, FileInput, InputMoves, Moves
<1>6. CASE SaveInputFails \/ FileInputFails
  <2>1. pc' = "finish"
    BY <1>6 DEF SaveInputFails, FileInputFails, InputMoves, Moves
  <2>2. ASSUME Comparable PROVE FALSE
    <3>1. PICK a, b \in FreeFds(fds) : a # b
      BY <1>1, <2>2, TableHasSpares
    <3>2. /\ fds \in [Fd -> Entry] /\ 0 \in Fd /\ fds[0] # Closed
      <4>1. StdioOpen(fds)
        BY <1>1, HeredocsBeside DEF IInv, AtInput
      <4> QED
        BY <4>1, Descriptors012 DEF TypeOK, Entry, StdioOpen
    <3>3. FreeFds(fds) # {} /\ NewInput.fd # NoFd
      BY <3>1, <3>2, Enough DEF NewInput
    <3>4. FromFile => Readable(files, InputFile)
      <4>1. ShLine.ok /\ files = ShLine.files
        BY <1>1, <2>2 DEF AsSh
      <4> QED
        BY <4>1, LastAgain DEF FromFile, infile
    <3> QED
      BY <1>6, <3>3, <3>4 DEF SaveInputFails, FileInputFails
  <2> QED
    BY <1>2, <2>1, <2>2 DEF AsSh, LinesDoAsSh
<1> QED
  BY <1>5, <1>6

LEMMA OutputAsSh ==
  ASSUME TypeOK, IInv, AsSh, NoOutput \/ FileOutput \/ OutputFails
  PROVE  AsSh'
<1> USE DEF lineVars, heredocVars, backups, statusVars, worldVars, outcome
<1>1. /\ pc = "output" /\ UNCHANGED <<line, lines, before, calm, fd_in>>
  BY DEF NoOutput, FileOutput, OutputFails, OutputMoves, Moves
<1>2. /\ Comparable' = Comparable /\ Count' = Count
      /\ ShAfter' = ShAfter /\ ShLine' = ShLine
  BY <1>1, SameLine
<1>3. calm => HeredocRead /\ HeredocRead'
  BY <1>1 DEF AsSh, HeredocRead
<1>4. Comparable => ShLine.ok /\ files = ShLine.files
  BY <1>1 DEF AsSh
<1>5. ASSUME pc' = "run", Comparable => files' = files PROVE AsSh'
  BY <1>1, <1>2, <1>3, <1>4, <1>5 DEF AsSh, LinesDoAsSh
<1>6. CASE NoOutput
  BY <1>5, <1>6 DEF NoOutput, OutputMoves, Moves
<1>7. CASE FileOutput
  <2>1. /\ ToFile /\ pc' = "run" /\ files' = Opened(files, Output.file, Output.type)
    BY <1>7 DEF FileOutput, OutputMoves, Moves
  <2>2. Comparable => files' = files
    BY <1>4, <2>1, LastAgain
  <2> QED
    BY <1>5, <2>1, <2>2
<1>8. CASE OutputFails
  <2>1. pc' = "finish"
    BY <1>8 DEF OutputFails, OutputMoves, Moves
  <2>2. ASSUME Comparable PROVE FALSE
    <3>1. PICK a, b \in FreeFds(fds) : a # b
      BY <1>1, <2>2, TableHasSpares
    <3>2. /\ fds \in [Fd -> Entry] /\ 1 \in Fd /\ fds[1] # Closed
      <4>1. AtOutput /\ own[1] # Closed /\ 1 \in Fd /\ 1 # NoFd
        BY <1>1, Descriptors012 DEF IInv, StdioOpen, NoFd
      <4>2. stdin_backup # 1
        BY <4>1 DEF AtOutput, Backup
      <4>3. fds[1] = own[1]
        BY <4>1, <4>2 DEF AtOutput
      <4> QED
        BY <4>1, <4>3 DEF TypeOK, Entry
    <3>3. FreeFds(fds) # {} /\ NewOutput.fd # NoFd
      BY <3>1, <3>2, Enough DEF NewOutput
    <3>4. ToFile => files[Output.file].write
      BY <1>4, <2>2, LastAgain
    <3> QED
      BY <1>8, <3>3, <3>4 DEF OutputFails
  <2> QED
    BY <1>2, <2>1, <2>2 DEF AsSh, LinesDoAsSh
<1> QED
  BY <1>6, <1>7, <1>8

LEMMA RunAsSh ==
  ASSUME TypeOK, IInv, AsSh, Builtin \/ Exit \/ External
  PROVE  AsSh'
<1> USE DEF lineVars, heredocVars, backups, statusVars, worldVars, outcome
<1>1. /\ pc = "run" /\ pc' = "restore" /\ ran' = [in |-> fds[0], out |-> fds[1]]
      /\ UNCHANGED <<line, lines, before, calm>>
  BY DEF Builtin, Exit, External, RunMoves, Moves
<1>2. Comparable' = Comparable /\ ShLine' = ShLine
  BY <1>1, SameLine
<1>3. ASSUME Comparable
      PROVE  /\ ShLine.ok /\ files = ShLine.files
             /\ fds[0] = ShLine.in /\ fds[1] = ShLine.out /\ fds[0] # Closed
  <2>1. ShLine.ok /\ files = ShLine.files /\ HeredocRead
    BY <1>1, <1>3 DEF AsSh, Comparable, Undisturbed
  <2>2. InputRight /\ OutputRight /\ own[0] # Closed
    BY <1>1 DEF IInv, AtRun, StdioOpen
  <2>3. LastOr({"in"}, ShStart.in, ShLine.in) /\ LastOr({"out", "append"}, own[1], ShLine.out)
    BY <2>1, ShFinds
  <2>4. fds[1] = ShLine.out
    BY <2>2, <2>3, LastOrUnique DEF OutputRight
  <2>5. CASE fd_in > 0
    <3>1. line.heredocs > 0 /\ Of(line.redirects, {"in"}) = {}
      BY <1>3, <2>1, <2>5 DEF HeredocRead, Comparable
    <3>2. ShStart.in = HereDoc(lines) /\ fds[0] = HereDoc(lines)
      BY <2>2, <2>5, <3>1 DEF ShStart, InputRight
    <3>3. ShLine.in = ShStart.in
      BY <2>3, <3>1 DEF LastOr, Of
    <3> QED
      BY <2>1, <2>4, <3>2, <3>3 DEF HereDoc, Closed
  <2>6. CASE ~(fd_in > 0)
    <3>1. ~(line.heredocs > 0)
      BY <2>1, <2>6 DEF HeredocRead
    <3>2. ShStart.in = own[0] /\ LastOr({"in"}, own[0], fds[0])
      BY <2>2, <2>6, <3>1 DEF ShStart, InputRight, own
    <3>3. ShLine.in = fds[0]
      BY <2>3, <3>2, LastOrUnique
    <3>4. fds[0] # Closed
      BY <2>2, <3>2 DEF LastOr, FileObj, Closed
    <3> QED
      BY <2>1, <2>4, <3>3, <3>4
  <2> QED
    BY <2>5, <2>6
<1>4. ASSUME Comparable
      PROVE  files' = IF line.command = "missing" THEN files ELSE Written(files, fds[1], lines)
  <2>1. line.command \in {"builtin", "exit", "program", "missing"}
    BY <1>4 DEF Comparable
  <2> QED
    BY <2>1 DEF Builtin, Exit, External
<1>5. ASSUME Comparable
      PROVE  /\ Ran' /\ ShLine.ok /\ ran' = [in |-> ShLine.in, out |-> ShLine.out]
             /\ files' = IF line.command = "missing" THEN ShLine.files
                         ELSE Written(ShLine.files, ShLine.out, lines)
  <2>1. ran'.in # Closed
    BY <1>1, <1>3, <1>5
  <2>2. Ran'
    BY <2>1 DEF Ran, NotRun
  <2> QED
    BY <1>1, <1>3, <1>4, <1>5, <2>2
<1> QED
  BY <1>1, <1>2, <1>5 DEF AsSh, LinesDoAsSh

LEMMA RestoreAsSh ==
  ASSUME AsSh, Restore
  PROVE  AsSh'
<1>1. /\ pc = "restore" /\ pc' = "finish"
      /\ UNCHANGED <<line, lines, before, calm, ran, files>>
  BY DEF Restore, Moves, lineVars, outcome
<1>2. Comparable' = Comparable /\ ShLine' = ShLine
  BY <1>1, SameLine
<1>3. Comparable => /\ Ran' /\ ShLine.ok /\ ran' = [in |-> ShLine.in, out |-> ShLine.out]
                    /\ files' = IF line.command = "missing" THEN ShLine.files
                                ELSE Written(ShLine.files, ShLine.out, lines)
  BY <1>1 DEF AsSh, Ran
<1> QED
  BY <1>1, <1>2, <1>3 DEF AsSh, LinesDoAsSh

LEMMA AsShStep ==
  ASSUME TypeOK, IInv, AsSh, [Next]_vars
  PROVE  AsSh'
<1>1. CASE UNCHANGED vars
  <2>1. UNCHANGED <<pc, line, lines, hd, fd_in, todo, env, files, before, ran, calm>>
    BY <1>1 DEF vars, lineVars, heredocVars, statusVars, outcome
  <2>2. /\ Comparable' = Comparable /\ Count' = Count
        /\ ShAfter' = ShAfter /\ ShLine' = ShLine
    BY <2>1, SameLine
  <2>3. HeredocRead' = HeredocRead /\ Ran' = Ran /\ \A k : Behind(k)' = Behind(k)
    BY <2>1, <2>2 DEF HeredocRead, Ran, Behind
  <2> QED
    BY <2>1, <2>2, <2>3 DEF AsSh, LinesDoAsSh
<1>2. CASE HeredocFails \/ HeredocInterrupted \/ Change
  <2>1. calm' = FALSE /\ (pc' = "readline" => pc = "readline" /\ env' = env)
    BY <1>2 DEF HeredocFails, HeredocInterrupted, HeredocMoves, Change, statusVars
  <2> QED
    BY <2>1, DisturbedAsSh DEF AsSh
<1> QED
  BY <1>1, <1>2, BetweenAsSh, ReadAsSh, CheckAsSh, InputAsSh, OutputAsSh, RunAsSh,
     RestoreAsSh DEF Next

-----------------------------------------------------------------------------
(* The theorems *)

\* Every variable keeps its type: no number is ever taken for a descriptor that
\* is none, and nothing but the terminal, files and heredocs is ever open.
THEOREM TypeCorrect == Spec => []TypeOK
<1>1. Init => TypeOK /\ Started
  BY TypeInit DEF Init, Started
<1>2. TypeOK /\ Started /\ [Next]_vars => (TypeOK /\ Started)'
  BY TypeStep
<1> QED
  BY <1>1, <1>2, PTL DEF Spec

LEMMA Invariant == Spec => [](TypeOK /\ IInv)
<1>1. Init => TypeOK /\ Started /\ IInv
  BY TypeInit, InvInit DEF Init, Started
<1>2. TypeOK /\ Started /\ IInv /\ [Next]_vars => (TypeOK /\ Started /\ IInv)'
  BY TypeStep, InvStep
<1> QED
  BY <1>1, <1>2, PTL DEF Spec

\* A command that runs has its heredoc, else the last file named for its input,
\* on 0 and the last one named for its output on 1 (handle_redirect).
THEOREM RunsWithFiles == Spec => []RunsWithItsFiles
<1>1. IInv => RunsWithItsFiles
  BY DEF IInv
<1> QED
  BY <1>1, Invariant, PTL

\* After a command the shell's table is as it was before the line (restore_io),
\* and a line that did not run leaves at most its heredocs open.
THEOREM TableIsRestored == Spec => []TableRestored
<1>1. IInv => TableRestored
  BY DEF IInv
<1> QED
  BY <1>1, Invariant, PTL

\* Undisturbed, a command that is alone does what sh does, whatever its
\* redirections: process_redirect stops where sh stops, having done to the files
\* what sh has done, and nothing that is opened again afterwards fails or changes
\* a file.
THEOREM CommandsDoAsSh == Spec => []LinesDoAsSh
<1>1. Init => AsSh
  BY DEF Init, AsSh, LinesDoAsSh
<1>2. TypeOK /\ IInv /\ AsSh /\ [Next]_vars => AsSh'
  BY AsShStep
<1>3. AsSh => LinesDoAsSh
  BY DEF AsSh
<1> QED
  BY <1>1, <1>2, <1>3, Invariant, PTL DEF Spec

=============================================================================
