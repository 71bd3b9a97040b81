----------------------------- MODULE HeredocProofs -----------------------------
(***************************************************************************)
(* NoStaleText holds for any number of shells, heredocs and lines.  What   *)
(* keeps old text away is that the file at the path was empty when the     *)
(* heredoc began, and that whoever puts another file there has made it     *)
(* later: so as long as a heredoc is being typed, whatever is at the path  *)
(* is younger than the heredoc, and it is that file which is opened again. *)
(* OwnText holds of the heredocs that no other shell meets with: for them  *)
(* the file at the path is the one that is written, at its end, and read.  *)
(***************************************************************************)
EXTENDS HeredocProperties, TLAPS

\* Nothing in these cells was written at time t or before.
After(cells, t) == \A c \in DOMAIN cells : cells[c] # Hole => cells[c] > t

IInv ==
  \A s \in Shells :
    /\ \A j \in Index :
         /\ created[s][j] <= clock
         /\ reader[s][j].file # NoFile => After(text[reader[s][j].file], created[s][j])
         /\ After(got[s][j], created[s][j])
         /\ pc[s] \in {"idle", "create", "type", "reopen"} /\ j >= k[s] =>
              reader[s][j].file = NoFile /\ got[s][j] = <<>>
    /\ pc[s] \in {"type", "reopen"} /\ path # NoFile => After(text[path], created[s][k[s]])

\* The shell that types has a file to write to.
Writing == \A s \in Shells : pc[s] = "type" => writer[s].file # NoFile

-----------------------------------------------------------------------------
(* Types *)

LEMMA Constants == MaxHeredocs \in Nat /\ 1 \in Index /\ Index \subseteq Nat
BY HeredocAssumption DEF Index

\* An update of one place leaves the rest of a table alone.
LEMMA Update ==
  ASSUME NEW S, NEW f \in [Shells -> [Index -> S]], NEW s \in Shells, NEW j \in Index,
         NEW v \in S
  PROVE  /\ [f EXCEPT ![s][j] = v] \in [Shells -> [Index -> S]]
         /\ \A t \in Shells, i \in Index :
              [f EXCEPT ![s][j] = v][t][i] = IF t = s /\ i = j THEN v ELSE f[t][i]
OBVIOUS

\* What is written is a line more of text, and a hole is no text.
LEMMA WrittenAtEffect ==
  ASSUME NEW cells \in Seq(Nat), NEW offset \in Nat, NEW x \in Nat
  PROVE  /\ WrittenAt(cells, offset, x) \in Seq(Nat)
         /\ \A t \in Nat : After(cells, t) /\ x > t => After(WrittenAt(cells, offset, x), t)
<1> DEFINE n == IF Len(cells) > offset THEN Len(cells) ELSE offset + 1
           w == [c \in 1 .. n |-> IF c = offset + 1 THEN x
                                  ELSE IF c <= Len(cells) THEN cells[c] ELSE Hole]
<1>1. n \in Nat /\ WrittenAt(cells, offset, x) = w
  BY DEF WrittenAt
<1> HIDE DEF n
<1>2. \A c \in 1 .. n : w[c] \in Nat
  BY <1>1 DEF Hole
<1>3. w \in Seq(Nat) /\ DOMAIN w = 1 .. n
  BY <1>1, <1>2
<1>4. ASSUME NEW t \in Nat, After(cells, t), x > t PROVE After(w, t)
  BY <1>1, <1>4 DEF After
<1> QED
  BY <1>1, <1>3, <1>4, Zenon

\* A command that reads has a file.
LEMMA ReaderFile ==
  ASSUME TypeOK, NEW s \in Shells, NEW j \in Index
  PROVE  reader[s][j] \in Place
         /\ (reader[s][j].file # NoFile => reader[s][j].file \in 1 .. Len(text))
<1>1. reader[s][j] \in Place /\ Len(text) \in Nat
  BY DEF TypeOK
<1>2. reader[s][j].file \in 0 .. Len(text)
  BY <1>1 DEF Place, File
<1> QED
  BY <1>1, <1>2 DEF NoFile

\* Files are made and not forgotten.
LEMMA FilesGrow ==
  ASSUME TypeOK, NEW s \in Shells, Create(s)
  PROVE  /\ text' \in Seq(Seq(Nat)) /\ path' \in 1 .. Len(text') /\ Len(text) <= Len(text')
         /\ text'[path'] = <<>> /\ path' = NewFile
         /\ \A i \in 1 .. Len(text) : i # path' => text'[i] = text[i]
<1> USE DEF TypeOK, File
<1>1. CASE path = NoFile
  BY <1>1 DEF Create, NewFile
<1>2. CASE path # NoFile
  BY <1>2 DEF Create, NewFile, NoFile
<1> QED
  BY <1>1, <1>2

LEMMA TypeInit == Init => TypeOK /\ Writing
BY Constants DEF Init, TypeOK, Writing, File, Place, AtStart, NoFile

\* What a table of places held, it may hold when there are more files.
LEMMA PlacesStay ==
  ASSUME TypeOK, text' \in Seq(Seq(Nat)), Len(text) <= Len(text')
  PROVE  /\ writer \in [Shells -> Place'] /\ reader \in [Shells -> [Index -> Place']]
         /\ path \in File' /\ AtStart \in Place'
<1>1. Len(text) \in Nat /\ Len(text') \in Nat
  BY DEF TypeOK
<1>2. \A n \in File : n \in File'
  BY <1>1 DEF File
<1>3. \A p \in Place : p \in Place'
  BY <1>2 DEF Place
<1>4. 0 \in File'
  BY <1>1 DEF File
<1> QED
  BY <1>2, <1>3, <1>4 DEF TypeOK, AtStart, Place, NoFile

LEMMA IdleTypes ==
  ASSUME TypeOK, NEW s \in Shells, Idle(s), UNCHANGED text
  PROVE  /\ pc' \in [Shells -> {"idle", "create", "type", "reopen", "run"}]
         /\ count' \in [Shells -> 0 .. MaxHeredocs] /\ k' \in [Shells -> Index]
         /\ writer' \in [Shells -> Place'] /\ reader' \in [Shells -> [Index -> Place']]
         /\ typed' \in [Shells -> [Index -> Seq(Nat)]]
         /\ created' \in [Shells -> [Index -> Nat]]
         /\ got' \in [Shells -> [Index -> Seq(Nat)]]
         /\ eof' \in [Shells -> [Index -> BOOLEAN]]
<1>1. text' \in Seq(Seq(Nat)) /\ Len(text) <= Len(text')
  BY DEF TypeOK
<1>2. /\ writer \in [Shells -> Place'] /\ reader \in [Shells -> [Index -> Place']]
      /\ AtStart \in Place'
  BY <1>1, PlacesStay
<1>3. writer' \in [Shells -> Place'] /\ reader' \in [Shells -> [Index -> Place']]
  BY <1>2 DEF Idle
<1>4. /\ pc' \in [Shells -> {"idle", "create", "type", "reopen", "run"}]
      /\ count' \in [Shells -> 0 .. MaxHeredocs] /\ k' \in [Shells -> Index]
  BY Constants DEF Idle, Goes, TypeOK
<1>5. /\ typed' \in [Shells -> [Index -> Seq(Nat)]]
      /\ created' \in [Shells -> [Index -> Nat]]
  BY DEF Idle, TypeOK
<1>6. /\ got' \in [Shells -> [Index -> Seq(Nat)]]
      /\ eof' \in [Shells -> [Index -> BOOLEAN]]
  BY DEF Idle, TypeOK
<1> QED
  BY <1>3, <1>4, <1>5, <1>6

LEMMA TypeStep ==
  ASSUME TypeOK, Writing, [Next]_vars
  PROVE  TypeOK' /\ Writing'
<1> USE DEF systemVars, inputVars, readVars
<1>1. CASE UNCHANGED vars
  BY <1>1 DEF vars, TypeOK, Writing, Place, File
<1>2. CASE \E s \in Shells : Begin(s)
  <2>1. PICK s \in Shells : Begin(s)
    BY <1>2
  <2>2. TypeOK'
    <3>1. PICK n \in Index : count' = [count EXCEPT ![s] = n]
      BY <2>1 DEF Begin
    <3>2. n \in 0 .. MaxHeredocs
      BY Constants DEF Index
    <3>3. count' \in [Shells -> 0 .. MaxHeredocs]
      BY <3>1, <3>2 DEF TypeOK
    <3>4. lines' \in Nat /\ pc' \in [Shells -> {"idle", "create", "type", "reopen", "run"}]
      BY <2>1 DEF Begin, Goes, TypeOK
    <3>5. UNCHANGED <<k, path, text, faults, writer, clock, typed, created, own, reader, got,
                      eof>>
      BY <2>1 DEF Begin
    <3> QED
      BY <3>3, <3>4, <3>5 DEF TypeOK, Place, File
  <2>3. Writing'
    BY <2>1 DEF Begin, Goes, Writing, TypeOK
  <2> QED
    BY <2>2, <2>3
<1>3. CASE \E s \in Shells : Create(s)
  <2>1. PICK s \in Shells : Create(s)
    BY <1>3
  <2>2. /\ text' \in Seq(Seq(Nat)) /\ Len(text) <= Len(text') /\ path' = NewFile
        /\ path' \in 1 .. Len(text')
    BY <2>1, FilesGrow
  <2>3. writer \in [Shells -> Place'] /\ reader \in [Shells -> [Index -> Place']]
    BY <2>2, PlacesStay
  <2>4. path' \in File' /\ [file |-> NewFile, offset |-> 0] \in Place'
    BY <2>2 DEF File, Place
  <2>5. writer' \in [Shells -> Place'] /\ reader' \in [Shells -> [Index -> Place']]
    BY <2>1, <2>3, <2>4 DEF Create
  <2>6. created' \in [Shells -> [Index -> Nat]]
    <3>1. created' = [created EXCEPT ![s][k[s]] = clock]
      BY <2>1 DEF Create
    <3> QED
      BY <3>1, Update DEF TypeOK
  <2>7. /\ pc' \in [Shells -> {"idle", "create", "type", "reopen", "run"}]
        /\ own' \in [Shells -> BOOLEAN]
        /\ UNCHANGED <<count, k, lines, faults, clock, typed, got, eof>>
    BY <2>1 DEF Create, Goes, TypeOK
  <2>8. TypeOK'
    BY <2>2, <2>4, <2>5, <2>6, <2>7 DEF TypeOK
  <2>9. Writing'
    BY <2>1, <2>2 DEF Create, Goes, Writing, TypeOK, NoFile
  <2> QED
    BY <2>8, <2>9
<1>4. CASE \E s \in Shells : CreateFails(s) \/ End(s) \/ ReopenFails(s)
  <2>1. PICK s \in Shells : CreateFails(s) \/ End(s) \/ ReopenFails(s)
    BY <1>4
  <2>2. /\ UNCHANGED <<count, k, lines, path, text, writer, clock, typed, created, reader,
                       got, eof>>
        /\ UNCHANGED lines /\ faults' \in Nat /\ own' \in [Shells -> BOOLEAN]
        /\ pc' = [pc EXCEPT ![s] = "run"] \/ pc' = [pc EXCEPT ![s] = "reopen"]
    <3>1. CASE CreateFails(s)
      BY <3>1 DEF CreateFails, Goes, TypeOK
    <3>2. CASE End(s)
      BY <3>2 DEF End, Goes, TypeOK
    <3>3. CASE ReopenFails(s)
      <4>1. faults' \in Nat /\ own' \in [Shells -> BOOLEAN]
        <5>1. faults \in Nat /\ own \in [Shells -> BOOLEAN]
          BY DEF TypeOK
        <5>2. \/ UNCHANGED <<faults, own>>
              \/ faults' = faults + 1 /\ own' = [own EXCEPT ![s] = FALSE]
          BY <3>3 DEF ReopenFails
        <5>3. CASE UNCHANGED <<faults, own>>
          BY <5>1, <5>3
        <5>4. CASE faults' = faults + 1 /\ own' = [own EXCEPT ![s] = FALSE]
          BY <5>1, <5>4
        <5> QED
          BY <5>2, <5>3, <5>4
      <4>2. UNCHANGED <<count, k, lines, path, text, writer, clock, typed, created, reader,
                        got, eof>>
        BY <3>3 DEF ReopenFails, readVars
      <4>3. pc' = [pc EXCEPT ![s] = "run"]
        BY <3>3 DEF ReopenFails, Goes
      <4> QED
        BY <4>1, <4>2, <4>3
    <3> QED
      BY <2>1, <3>1, <3>2, <3>3
  <2> QED
    BY <2>2 DEF TypeOK, Writing, Place, File
<1>5. CASE \E s \in Shells : Type(s)
  <2>1. PICK s \in Shells : Type(s)
    BY <1>5
  <2>2. /\ writer[s] \in Place /\ k[s] \in Index /\ clock' = clock + 1 /\ clock' \in Nat
        /\ text \in Seq(Seq(Nat))
    BY <2>1 DEF Type, TypeOK
  <2> DEFINE w == writer[s]
             new == WrittenAt(text[w.file], w.offset, clock')
  <2>3. w.offset \in Nat /\ w.file \in 1 .. Len(text)
    BY <2>1, <2>2 DEF Type, Writing, Place, File, NoFile
  <2>4. text' = [text EXCEPT ![w.file] = new]
    BY <2>1 DEF Type
  <2>5. new \in Seq(Nat)
    <3>1. text[w.file] \in Seq(Nat)
      BY <2>2, <2>3
    <3> QED
      BY <2>2, <2>3, <3>1, WrittenAtEffect
  <2> HIDE DEF new
  <2>6. text' \in Seq(Seq(Nat)) /\ Len(text') = Len(text)
    BY <2>2, <2>3, <2>4, <2>5
  <2>7. Len(text) <= Len(text')
    BY <2>2, <2>6
  <2>8. /\ writer \in [Shells -> Place'] /\ reader \in [Shells -> [Index -> Place']]
        /\ path \in File'
    BY <2>6, <2>7, PlacesStay
  <2>9. writer' \in [Shells -> Place'] /\ \A t \in Shells : writer'[t].file = writer[t].file
    <3>1. writer' = [writer EXCEPT ![s] = Advanced(w)]
      BY <2>1 DEF Type
    <3>2. w.file \in File'
      BY <2>8 DEF Place
    <3>3. Advanced(w) \in Place' /\ Advanced(w).file = w.file
      BY <2>3, <3>2 DEF Advanced, Place
    <3> QED
      BY <2>8, <3>1, <3>3
  <2>10. typed' \in [Shells -> [Index -> Seq(Nat)]]
    <3>1. typed' = [typed EXCEPT ![s][k[s]] = Append(typed[s][k[s]], clock')]
      BY <2>1 DEF Type
    <3>2. typed[s][k[s]] \in Seq(Nat) /\ typed \in [Shells -> [Index -> Seq(Nat)]]
      BY <2>2 DEF TypeOK
    <3>3. Append(typed[s][k[s]], clock') \in Seq(Nat)
      BY <2>2, <3>2
    <3> QED
      BY <2>2, <3>1, <3>2, <3>3, Update
  <2>11. own' \in [Shells -> BOOLEAN]
    BY <2>1 DEF Type, Company, TypeOK
  <2>12. UNCHANGED <<pc, count, k, lines, path, faults, created, reader, got, eof>>
    BY <2>1 DEF Type
  <2>13. TypeOK'
    BY <2>2, <2>6, <2>8, <2>9, <2>10, <2>11, <2>12 DEF TypeOK
  <2>14. Writing'
    BY <2>9, <2>12 DEF Writing
  <2> QED
    BY <2>13, <2>14
<1>6. CASE \E s \in Shells : Interrupt(s) \/ Finish(s)
  <2>1. PICK s \in Shells : Interrupt(s) \/ Finish(s)
    BY <1>6
  <2>2. /\ Idle(s) /\ UNCHANGED <<lines, text, faults, clock>>
        /\ path' \in {path, NoFile} /\ own' \in [Shells -> BOOLEAN]
    BY <2>1 DEF Interrupt, Finish, TypeOK
  <2>3. path' \in File'
    BY <2>2 DEF TypeOK, File, NoFile
  <2>4. TypeOK'
    BY <2>2, <2>3, IdleTypes DEF TypeOK
  <2>5. Writing'
    BY <2>2 DEF Idle, Goes, Writing, TypeOK
  <2> QED
    BY <2>4, <2>5
<1>7. CASE \E s \in Shells : Reopen(s)
  <2>1. PICK s \in Shells : Reopen(s)
    BY <1>7
  <2>2. [file |-> path, offset |-> 0] \in Place /\ k[s] \in Index
    BY DEF TypeOK, Place
  <2>3. reader' \in [Shells -> [Index -> Place]]
    <3>1. reader' = [reader EXCEPT ![s][k[s]] = [file |-> path, offset |-> 0]]
      BY <2>1 DEF Reopen
    <3> QED
      BY <2>2, <3>1, Update DEF TypeOK
  <2>4. k' \in [Shells -> Index]
    <3>1. k[s] < count[s] => k[s] + 1 \in Index
      BY <2>2, Constants DEF TypeOK, Index
    <3> QED
      BY <2>1, <3>1 DEF Reopen, TypeOK
  <2>5. /\ pc' \in [Shells -> {"idle", "create", "type", "reopen", "run"}]
        /\ UNCHANGED <<count, lines, path, text, faults, writer, clock, typed, created, own,
                       got, eof>>
        /\ \A t \in Shells : pc'[t] = "type" => pc[t] = "type"
    BY <2>1 DEF Reopen, Goes, TypeOK
  <2> QED
    BY <2>3, <2>4, <2>5 DEF TypeOK, Writing, Place, File
<1>8. CASE \E s \in Shells : \E j \in Index : Read(s, j)
  <2>1. PICK s \in Shells, j \in Index : Read(s, j)
    BY <1>8
  <2> DEFINE r == reader[s][j]
  <2>2. r \in Place /\ r.file \in 1 .. Len(text) /\ text[r.file] \in Seq(Nat)
    <3>1. text \in Seq(Seq(Nat)) /\ r.file # NoFile
      BY <2>1 DEF Read, TypeOK
    <3> QED
      BY <3>1, ReaderFile
  <2>3. /\ UNCHANGED <<pc, count, k, lines, path, text, faults, writer, clock, typed,
                       created, own>>
    BY <2>1 DEF Read
  <2>4. CASE r.offset < Len(text[r.file])
    <3> DEFINE x == text[r.file][r.offset + 1]
    <3>1. x \in Nat /\ got[s][j] \in Seq(Nat)
      <4>1. r.offset \in Nat
        BY <2>2 DEF Place
      <4>2. x \in Nat
        <5> DEFINE cells == text[r.file]
        <5>1. cells \in Seq(Nat) /\ r.offset + 1 \in 1 .. Len(cells)
          BY <2>2, <2>4, <4>1
        <5> HIDE DEF cells
        <5>2. cells[r.offset + 1] \in Nat
          BY <5>1
        <5> QED
          BY <5>2 DEF cells
      <4> QED
        BY <4>2 DEF TypeOK
    <3>2. /\ got' = [got EXCEPT ![s][j] = Append(got[s][j], x)]
          /\ reader' = [reader EXCEPT ![s][j] = Advanced(r)] /\ eof' = eof
      BY <2>1, <2>4 DEF Read
    <3> HIDE DEF x
    <3>3. Append(got[s][j], x) \in Seq(Nat)
      BY <3>1
    <3>4. got' \in [Shells -> [Index -> Seq(Nat)]]
      <4>1. got \in [Shells -> [Index -> Seq(Nat)]]
        BY DEF TypeOK
      <4> QED
        BY <3>2, <3>3, <4>1, Update
    <3>5. Advanced(r) \in Place
      BY <2>2 DEF Place, Advanced
    <3>6. reader' \in [Shells -> [Index -> Place]]
      <4>1. reader \in [Shells -> [Index -> Place]]
        BY DEF TypeOK
      <4> QED
        BY <3>2, <3>5, <4>1, Update
    <3> QED
      BY <2>3, <3>2, <3>4, <3>6 DEF TypeOK, Writing, Place, File
  <2>5. CASE ~(r.offset < Len(text[r.file]))
    <3>1. eof' = [eof EXCEPT ![s][j] = TRUE] /\ UNCHANGED <<got, reader>>
      BY <2>1, <2>5 DEF Read
    <3>2. eof' \in [Shells -> [Index -> BOOLEAN]]
      BY <3>1, Update DEF TypeOK
    <3> QED
      BY <2>3, <3>1, <3>2 DEF TypeOK, Writing, Place, File
  <2> QED
    BY <2>4, <2>5
<1> QED
  BY <1>1, <1>2, <1>3, <1>4, <1>5, <1>6, <1>7, <1>8 DEF Next

-----------------------------------------------------------------------------
(* The invariant *)

LEMMA EmptyIsAfter == \A t : After(<<>>, t)
BY DEF After

LEMMA InvInit == Init => IInv
<1> SUFFICES ASSUME Init PROVE IInv
  OBVIOUS
<1>1. ASSUME NEW s \in Shells, NEW j \in Index
      PROVE  created[s][j] = 0 /\ got[s][j] = <<>> /\ reader[s][j].file = NoFile
  BY DEF Init, AtStart
<1>2. path = NoFile /\ clock = 0 /\ 0 <= clock
  BY DEF Init
<1> QED
  BY <1>1, <1>2, EmptyIsAfter DEF IInv

\* The parts of IInv, for one shell and one heredoc.
Young(s, j) ==
  /\ created[s][j] <= clock
  /\ reader[s][j].file # NoFile => After(text[reader[s][j].file], created[s][j])
  /\ After(got[s][j], created[s][j])
  /\ pc[s] \in {"idle", "create", "type", "reopen"} /\ j >= k[s] =>
       reader[s][j].file = NoFile /\ got[s][j] = <<>>

YoungPath(s) ==
  pc[s] \in {"type", "reopen"} /\ path # NoFile => After(text[path], created[s][k[s]])

LEMMA Parts == IInv <=> \A s \in Shells : YoungPath(s) /\ \A j \in Index : Young(s, j)
BY DEF IInv, Young, YoungPath

\* A line that is over leaves its shell nothing to be wrong about.
LEMMA IdleInv ==
  ASSUME TypeOK, IInv, NEW s \in Shells, Idle(s), UNCHANGED <<text, clock>>,
         path' \in {path, NoFile}
  PROVE  IInv'
<1>1. \A t \in Shells \ {s} :
        /\ pc'[t] = pc[t] /\ k'[t] = k[t] /\ reader'[t] = reader[t]
        /\ created'[t] = created[t] /\ got'[t] = got[t]
  BY DEF Idle, Goes, TypeOK
<1>2. /\ pc'[s] = "idle" /\ reader'[s] = [j \in Index |-> AtStart]
      /\ created'[s] = [j \in Index |-> 0] /\ got'[s] = [j \in Index |-> <<>>]
  BY DEF Idle, Goes, TypeOK
<1>3. clock \in Nat
  BY DEF TypeOK
<1>4. ASSUME NEW j \in Index PROVE Young(s, j)'
  <2>1. reader'[s][j] = AtStart /\ created'[s][j] = 0 /\ got'[s][j] = <<>>
    BY <1>2
  <2>2. AtStart.file = NoFile
    BY DEF AtStart
  <2> QED
    BY <1>2, <1>3, <2>1, <2>2, EmptyIsAfter DEF Young
<1>5. YoungPath(s)'
  BY <1>2 DEF YoungPath
<1>6. ASSUME NEW t \in Shells \ {s} PROVE YoungPath(t)' /\ \A j \in Index : Young(t, j)'
  <2>1. YoungPath(t) /\ \A j \in Index : Young(t, j)
    BY Parts
  <2> QED
    BY <1>1, <2>1 DEF YoungPath, Young
<1>7. \A t \in Shells : YoungPath(t)' /\ \A j \in Index : Young(t, j)'
  BY <1>4, <1>5, <1>6
<1> QED
  BY <1>7 DEF IInv, Young, YoungPath

LEMMA InvCreate ==
  ASSUME TypeOK, IInv, NEW s \in Shells, Create(s)
  PROVE  IInv'
<1>1. /\ pc[s] = "create" /\ pc' = [pc EXCEPT ![s] = "type"]
      /\ created' = [created EXCEPT ![s][k[s]] = clock]
      /\ UNCHANGED <<k, clock, reader, got>>
  BY DEF Create, Goes, readVars
<1>2. /\ text'[path'] = <<>> /\ path' # NoFile
      /\ \A i \in 1 .. Len(text) : i # path' => text'[i] = text[i]
  BY FilesGrow DEF NoFile
<1>3. k[s] \in Index /\ Index \subseteq Nat /\ clock \in Nat
      /\ created \in [Shells -> [Index -> Nat]]
  BY Constants DEF TypeOK
<1>4. \A t \in Shells, j \in Index :
        created'[t][j] = IF t = s /\ j = k[s] THEN clock ELSE created[t][j]
  BY <1>1, <1>3, Update
<1>5. reader[s][k[s]].file = NoFile /\ got[s][k[s]] = <<>>
  <2>1. k[s] \in Nat
    BY <1>3
  <2>2. k[s] >= k[s]
    BY ONLY <2>1
  <2> QED
    BY <1>1, <1>3, <2>2 DEF IInv
<1>6. ASSUME NEW t \in Shells, NEW j \in Index, reader[t][j].file # NoFile, NEW n \in Nat,
             After(text[reader[t][j].file], n)
      PROVE  After(text'[reader[t][j].file], n)
  <2>1. reader[t][j].file \in 1 .. Len(text)
    BY <1>6, ReaderFile
  <2> QED
    BY <1>2, <1>6, <2>1, EmptyIsAfter
<1>7. ASSUME NEW t \in Shells, NEW j \in Index PROVE Young(t, j)'
  <2>1. Young(t, j)
    BY Parts
  <2>2. pc'[t] \in {"idle", "create", "type", "reopen"} =>
          pc[t] \in {"idle", "create", "type", "reopen"}
    BY <1>1 DEF TypeOK
  <2>3. CASE t = s /\ j = k[s]
    <3>1. created'[t][j] = clock /\ reader'[t][j].file = NoFile /\ got'[t][j] = <<>>
      BY <1>1, <1>4, <1>5, <2>3
    <3> QED
      BY <1>1, <1>3, <3>1, EmptyIsAfter DEF Young
  <2>4. CASE ~(t = s /\ j = k[s])
    <3>1. created'[t][j] = created[t][j] /\ created[t][j] \in Nat
      BY <1>3, <1>4, <2>4
    <3> QED
      BY <1>1, <1>6, <2>1, <2>2, <3>1 DEF Young
  <2> QED
    BY <2>3, <2>4
<1>8. ASSUME NEW t \in Shells PROVE YoungPath(t)'
  BY <1>2, EmptyIsAfter DEF YoungPath
<1> QED
  BY <1>7, <1>8 DEF IInv, Young, YoungPath

LEMMA InvType ==
  ASSUME TypeOK, Writing, IInv, NEW s \in Shells, Type(s)
  PROVE  IInv'
<1>1. /\ clock' = clock + 1 /\ pc[s] = "type" /\ writer[s] \in Place /\ clock \in Nat
      /\ UNCHANGED <<pc, k, path, created, reader, got>>
  BY DEF Type, readVars, TypeOK
<1> DEFINE w == writer[s]
           new == WrittenAt(text[w.file], w.offset, clock')
<1>2. w.offset \in Nat /\ w.file \in 1 .. Len(text) /\ text \in Seq(Seq(Nat))
  BY <1>1 DEF Writing, Place, File, NoFile, TypeOK
<1>3. text' = [text EXCEPT ![w.file] = new]
  BY DEF Type
<1>4. text[w.file] \in Seq(Nat) /\ clock' \in Nat
  BY <1>1, <1>2
<1>5. \A n \in Nat : After(text[w.file], n) /\ clock' > n => After(new, n)
  BY <1>2, <1>4, WrittenAtEffect
<1> HIDE DEF new
<1>6. ASSUME NEW i \in 1 .. Len(text), NEW n \in Nat, n <= clock, After(text[i], n)
      PROVE  After(text'[i], n)
  <2>1. clock' > n
    BY <1>1, <1>6
  <2>2. text'[i] = IF i = w.file THEN new ELSE text[i]
    BY <1>2, <1>3
  <2> QED
    BY <1>5, <1>6, <2>1, <2>2
<1>7. ASSUME NEW t \in Shells, NEW j \in Index PROVE Young(t, j)'
  <2>1. Young(t, j) /\ created[t][j] \in Nat /\ created[t][j] <= clock
    BY Parts DEF TypeOK, Young
  <2>2. reader[t][j].file # NoFile => reader[t][j].file \in 1 .. Len(text)
    BY ReaderFile
  <2>3. created[t][j] <= clock'
    BY <1>1, <2>1
  <2> QED
    BY <1>1, <1>6, <2>1, <2>2, <2>3 DEF Young
<1>8. ASSUME NEW t \in Shells PROVE YoungPath(t)'
  <2>1. YoungPath(t) /\ k[t] \in Index /\ created[t][k[t]] \in Nat
    BY Parts DEF TypeOK
  <2>2. created[t][k[t]] <= clock
    BY <2>1 DEF IInv
  <2>3. path # NoFile => path \in 1 .. Len(text)
    BY DEF TypeOK, File, NoFile
  <2> QED
    BY <1>1, <1>6, <2>1, <2>2, <2>3 DEF YoungPath
<1> QED
  BY <1>7, <1>8 DEF IInv, Young, YoungPath

LEMMA InvReopen ==
  ASSUME TypeOK, IInv, NEW s \in Shells, Reopen(s)
  PROVE  IInv'
<1>1. /\ pc[s] = "reopen" /\ path # NoFile
      /\ reader' = [reader EXCEPT ![s][k[s]] = [file |-> path, offset |-> 0]]
      /\ k' = IF k[s] < count[s] THEN [k EXCEPT ![s] = @ + 1] ELSE k
      /\ pc' = [pc EXCEPT ![s] = IF k[s] < count[s] THEN "create" ELSE "run"]
      /\ UNCHANGED <<path, text, clock, created, got>>
  BY DEF Reopen, Goes, systemVars, inputVars
<1>2. /\ k[s] \in Index /\ Index \subseteq Nat /\ [file |-> path, offset |-> 0] \in Place
      /\ reader \in [Shells -> [Index -> Place]]
  BY Constants DEF TypeOK, Place
<1>3. \A t \in Shells, j \in Index :
        reader'[t][j] = IF t = s /\ j = k[s] THEN [file |-> path, offset |-> 0]
                                             ELSE reader[t][j]
  BY <1>1, <1>2, Update
<1>4. \A t \in Shells \ {s} : pc'[t] = pc[t] /\ k'[t] = k[t]
  BY <1>1 DEF TypeOK
<1>5. pc'[s] = "run" \/ (pc'[s] = "create" /\ k'[s] = k[s] + 1)
  BY <1>1 DEF TypeOK
<1>6. After(text[path], created[s][k[s]])
  BY <1>1 DEF IInv
<1>7. ASSUME NEW t \in Shells, NEW j \in Index PROVE Young(t, j)'
  <2>1. Young(t, j)
    BY Parts
  <2>2. CASE t # s
    BY <1>1, <1>3, <1>4, <2>1, <2>2 DEF Young
  <2>3. CASE t = s /\ j = k[s]
    <3>1. ~(j >= k[s] + 1)
      BY <1>2, <2>3
    <3>2. reader'[t][j].file = path
      BY <1>3, <2>3
    <3> QED
      BY <1>1, <1>5, <1>6, <2>1, <2>3, <3>1, <3>2 DEF Young
  <2>4. CASE t = s /\ j # k[s]
    <3>1. j >= k[s] + 1 => j >= k[s]
      <4>1. j \in Nat /\ k[s] \in Nat
        BY <1>2
      <4> QED
        BY ONLY <4>1
    <3>2. reader'[t][j] = reader[t][j]
      BY <1>3, <2>4
    <3> QED
      BY <1>1, <1>5, <2>1, <2>4, <3>1, <3>2 DEF Young
  <2> QED
    BY <2>2, <2>3, <2>4
<1>8. ASSUME NEW t \in Shells PROVE YoungPath(t)'
  <2>1. YoungPath(t)
    BY Parts
  <2> QED
    BY <1>1, <1>4, <1>5, <2>1 DEF YoungPath
<1> QED
  BY <1>7, <1>8 DEF IInv, Young, YoungPath

LEMMA InvRead ==
  ASSUME TypeOK, IInv, NEW s \in Shells, NEW j \in Index, Read(s, j)
  PROVE  IInv'
<1> DEFINE r == reader[s][j]
<1>1. /\ pc[s] = "run" /\ r.file # NoFile
      /\ UNCHANGED <<pc, k, path, text, clock, created>>
  BY DEF Read, systemVars, inputVars
<1>2. r \in Place /\ r.file \in 1 .. Len(text) /\ text[r.file] \in Seq(Nat)
  <2>1. text \in Seq(Seq(Nat))
    BY DEF TypeOK
  <2> QED
    BY <1>1, <2>1, ReaderFile
<1>3. CASE UNCHANGED <<got, reader>>
  BY <1>1, <1>3 DEF IInv
<1>4. CASE ~UNCHANGED <<got, reader>>
  <2> DEFINE x == text[r.file][r.offset + 1]
  <2>1. /\ r.offset < Len(text[r.file])
        /\ got' = [got EXCEPT ![s][j] = Append(got[s][j], x)]
        /\ reader' = [reader EXCEPT ![s][j] = Advanced(r)]
    BY <1>4 DEF Read
  <2>2. r.offset + 1 \in DOMAIN text[r.file]
    <3>1. r.offset \in Nat /\ Len(text[r.file]) \in Nat
      BY <1>2 DEF Place
    <3> QED
      BY <1>2, <2>1, <3>1
  <2>3. x \in Nat /\ (x # Hole => x > created[s][j])
    <3>1. After(text[r.file], created[s][j])
      BY <1>1 DEF IInv
    <3>2. x # Hole => x > created[s][j]
      BY <2>2, <3>1 DEF After
    <3> DEFINE cells == text[r.file]
    <3>3. cells \in Seq(Nat) /\ r.offset + 1 \in DOMAIN cells
      BY <1>2, <2>2
    <3> HIDE DEF cells
    <3>4. cells[r.offset + 1] \in Nat
      BY <3>3
    <3> QED
      BY <3>2, <3>4 DEF cells
  <2> HIDE DEF x
  <2>4. Append(got[s][j], x) \in Seq(Nat) /\ got \in [Shells -> [Index -> Seq(Nat)]]
    <3>1. got \in [Shells -> [Index -> Seq(Nat)]]
      BY DEF TypeOK
    <3> QED
      BY <2>3, <3>1
  <2>5. Advanced(r) \in Place /\ Advanced(r).file = r.file
    BY <1>2 DEF Advanced, Place
  <2>6. \A t \in Shells, i \in Index :
          /\ got'[t][i] = IF t = s /\ i = j THEN Append(got[s][j], x) ELSE got[t][i]
          /\ reader'[t][i] = IF t = s /\ i = j THEN Advanced(r) ELSE reader[t][i]
    <3>1. reader \in [Shells -> [Index -> Place]]
      BY DEF TypeOK
    <3> QED
      BY <2>1, <2>4, <2>5, <3>1, Update
  <2>7. After(Append(got[s][j], x), created[s][j])
    <3>1. After(got[s][j], created[s][j]) /\ got[s][j] \in Seq(Nat)
      BY <2>4 DEF IInv
    <3> QED
      BY <2>3, <3>1 DEF After
  <2>8. ASSUME NEW t \in Shells, NEW i \in Index PROVE Young(t, i)'
    <3>1. Young(t, i)
      BY Parts
    <3>2. CASE t = s /\ i = j
      <4>1. got'[t][i] = Append(got[s][j], x) /\ reader'[t][i].file = r.file
        BY <2>5, <2>6, <3>2
      <4> QED
        BY <1>1, <2>7, <3>1, <3>2, <4>1 DEF Young
    <3>3. CASE ~(t = s /\ i = j)
      BY <1>1, <2>6, <3>1, <3>3 DEF Young
    <3> QED
      BY <3>2, <3>3
  <2>9. \A t \in Shells : YoungPath(t)'
    BY <1>1, Parts DEF YoungPath
  <2> QED
    BY <2>8, <2>9 DEF IInv, Young, YoungPath
<1> QED
  BY <1>3, <1>4

\* The steps that touch no text.
LEMMA InvRest ==
  ASSUME TypeOK, IInv, NEW s \in Shells,
         Begin(s) \/ CreateFails(s) \/ End(s) \/ ReopenFails(s)
  PROVE  IInv'
<1>1. /\ UNCHANGED <<k, path, text, clock, created, reader, got>>
      /\ \A t \in Shells \ {s} : pc'[t] = pc[t]
  BY DEF Begin, CreateFails, End, ReopenFails, Goes, systemVars, inputVars, readVars, TypeOK
<1>2. \/ pc[s] = "idle" /\ pc'[s] = "create"
      \/ pc'[s] = "run"
      \/ pc[s] = "type" /\ pc'[s] = "reopen"
  BY DEF Begin, CreateFails, End, ReopenFails, Goes, TypeOK
<1>3. ASSUME NEW t \in Shells, NEW j \in Index PROVE Young(t, j)'
  <2>1. Young(t, j)
    BY Parts
  <2> QED
    BY <1>1, <1>2, <2>1 DEF Young
<1>4. ASSUME NEW t \in Shells PROVE YoungPath(t)'
  <2>1. YoungPath(t)
    BY Parts
  <2> QED
    BY <1>1, <1>2, <2>1 DEF YoungPath
<1> QED
  BY <1>3, <1>4 DEF IInv, Young, YoungPath

LEMMA InvStep ==
  ASSUME TypeOK, Writing, IInv, [Next]_vars
  PROVE  IInv'
<1>1. CASE UNCHANGED vars
  BY <1>1 DEF vars, systemVars, inputVars, readVars, IInv
<1>2. ASSUME NEW s \in Shells, Interrupt(s) \/ Finish(s) PROVE IInv'
  BY <1>2, IdleInv DEF Interrupt, Finish, systemVars
<1> QED
  BY <1>1, <1>2, InvCreate, InvType, InvReopen, InvRead, InvRest DEF Next

-----------------------------------------------------------------------------
(* A heredoc that nobody else disturbs.  The file at the path is then the    *)
(* shell's own, holds what was typed and nothing more, and is written at its *)
(* end; so it is this text that is there to be opened again and read.        *)

\* g is the first n of the cells.
Beginning(g, cells, n) ==
  /\ n <= Len(cells) /\ Len(g) = n
  /\ \A c \in 1 .. n : g[c] = cells[c]

\* Nothing is left of an earlier line's heredoc.
Fresh(s) ==
  /\ pc[s] = "idle" => own[s] = FALSE
  /\ \A j \in Index :
       /\ pc[s] \in {"idle", "create"} /\ j >= k[s] => typed[s][j] = <<>>
       /\ pc[s] \in {"type", "reopen"} /\ j > k[s] => typed[s][j] = <<>>
       /\ pc[s] # "run" => eof[s][j] = FALSE

OwnFile(s) ==
  own[s] /\ pc[s] \in {"type", "reopen", "run"} =>
    path # NoFile /\ text[path] = typed[s][k[s]]

OwnWriter(s) ==
  own[s] /\ pc[s] = "type" =>
    writer[s].file = path /\ writer[s].offset = Len(text[path])

OwnReader(s) ==
  own[s] /\ pc[s] = "run" =>
    /\ reader[s][k[s]].file = path
    /\ Beginning(got[s][k[s]], text[path], reader[s][k[s]].offset)
    /\ eof[s][k[s]] => reader[s][k[s]].offset = Len(text[path])

Own(s) == Fresh(s) /\ OwnFile(s) /\ OwnWriter(s) /\ OwnReader(s)

OwnInv == \A s \in Shells : Own(s)

LEMMA OwnInit == Init => OwnInv
<1> SUFFICES ASSUME Init, NEW s \in Shells PROVE Own(s)
  BY DEF OwnInv
<1>1. /\ pc[s] = "idle" /\ own[s] = FALSE
      /\ \A j \in Index : typed[s][j] = <<>> /\ eof[s][j] = FALSE
  BY DEF Init
<1> QED
  BY <1>1 DEF Own, Fresh, OwnFile, OwnWriter, OwnReader

\* What a shell has is its own: a step of another either leaves the file alone or
\* is known to have disturbed it.
LEMMA OtherOwn ==
  ASSUME NEW t \in Shells, Own(t),
         pc'[t] = pc[t], k'[t] = k[t], writer'[t] = writer[t], reader'[t] = reader[t],
         typed'[t] = typed[t], got'[t] = got[t], eof'[t] = eof[t],
         own'[t] = FALSE \/ (own'[t] = own[t] /\ UNCHANGED <<path, text>>)
  PROVE  Own(t)'
<1>1. Fresh(t)'
  BY DEF Own, Fresh
<1>2. CASE own'[t] = FALSE
  BY <1>1, <1>2 DEF Own, OwnFile, OwnWriter, OwnReader
<1>3. CASE own'[t] = own[t] /\ UNCHANGED <<path, text>>
  <2>1. OwnFile(t)'
    BY <1>3 DEF Own, OwnFile
  <2>2. OwnWriter(t)'
    BY <1>3 DEF Own, OwnWriter
  <2>3. OwnReader(t)'
    BY <1>3 DEF Own, OwnReader
  <2> QED
    BY <1>1, <2>1, <2>2, <2>3 DEF Own
<1> QED
  BY <1>2, <1>3

LEMMA OwnIdle ==
  ASSUME TypeOK, OwnInv, NEW s \in Shells, Idle(s), UNCHANGED text, own'[s] = FALSE,
         \A t \in Shells \ {s} :
           own'[t] = FALSE \/ (own'[t] = own[t] /\ UNCHANGED path)
  PROVE  OwnInv'
<1>1. /\ pc'[s] = "idle"
      /\ \A j \in Index : typed'[s][j] = <<>> /\ eof'[s][j] = FALSE
  BY DEF Idle, Goes, TypeOK
<1>2. Own(s)'
  BY <1>1 DEF Own, Fresh, OwnFile, OwnWriter, OwnReader
<1>3. ASSUME NEW t \in Shells \ {s} PROVE Own(t)'
  <2>1. /\ pc'[t] = pc[t] /\ k'[t] = k[t] /\ writer'[t] = writer[t]
        /\ reader'[t] = reader[t] /\ typed'[t] = typed[t] /\ got'[t] = got[t]
        /\ eof'[t] = eof[t]
    BY DEF Idle, Goes, TypeOK
  <2> QED
    BY <2>1, OtherOwn DEF OwnInv
<1>4. \A t \in Shells : Own(t)'
  BY <1>2, <1>3
<1> QED
  BY <1>4 DEF OwnInv

LEMMA OwnCreate ==
  ASSUME TypeOK, IInv, OwnInv, NEW s \in Shells, Create(s)
  PROVE  OwnInv'
<1>1. /\ pc[s] = "create" /\ pc' = [pc EXCEPT ![s] = "type"]
      /\ writer' = [writer EXCEPT ![s] = [file |-> NewFile, offset |-> 0]]
      /\ own' = [t \in Shells |-> t = s]
      /\ UNCHANGED <<k, typed, reader, got, eof>>
  BY DEF Create, Goes, readVars
<1>2. text'[path'] = <<>> /\ path' # NoFile /\ path' = NewFile
  BY FilesGrow DEF NoFile
<1>3. k[s] \in Index /\ Index \subseteq Nat
  BY Constants DEF TypeOK
<1>4. k[s] \in Index /\ k[s] >= k[s] /\ \A j \in Index : j > k[s] => j >= k[s]
  <2>1. \A a, b \in Nat : a >= a /\ (b > a => b >= a)
    OBVIOUS
  <2> QED
    BY <1>3, <2>1, Zenon
<1>5. Own(s)'
  <2>1. pc'[s] = "type" /\ k'[s] = k[s] /\ typed'[s] = typed[s] /\ eof'[s] = eof[s]
    BY <1>1 DEF TypeOK
  <2>2. typed[s][k[s]] = <<>>
    BY <1>1, <1>4 DEF OwnInv, Own, Fresh
  <2>3. Fresh(s)'
    BY <1>1, <1>4, <2>1 DEF OwnInv, Own, Fresh
  <2>4. OwnFile(s)'
    BY <1>2, <2>1, <2>2 DEF OwnFile
  <2>5. writer'[s] = [file |-> NewFile, offset |-> 0]
    BY <1>1 DEF TypeOK
  <2>6. OwnWriter(s)'
    BY <1>2, <2>5 DEF OwnWriter
  <2>7. OwnReader(s)'
    BY <2>1 DEF OwnReader
  <2> QED
    BY <2>3, <2>4, <2>6, <2>7 DEF Own
<1>6. ASSUME NEW t \in Shells \ {s} PROVE Own(t)'
  <2>1. /\ pc'[t] = pc[t] /\ k'[t] = k[t] /\ writer'[t] = writer[t]
        /\ reader'[t] = reader[t] /\ typed'[t] = typed[t] /\ got'[t] = got[t]
        /\ eof'[t] = eof[t] /\ own'[t] = FALSE
    BY <1>1 DEF TypeOK
  <2> QED
    BY <2>1, OtherOwn DEF OwnInv
<1> QED
  BY <1>5, <1>6 DEF OwnInv

\* A line at the end of the file is the file with a line more.
LEMMA WrittenAtEnd ==
  ASSUME NEW cells \in Seq(Nat), NEW x \in Nat
  PROVE  WrittenAt(cells, Len(cells), x) = Append(cells, x)
<1> DEFINE n == Len(cells)
           w == WrittenAt(cells, n, x)
           a == Append(cells, x)
<1>1. n \in Nat
  OBVIOUS
<1>2. w = [c \in 1 .. n + 1 |-> IF c = n + 1 THEN x ELSE IF c <= n THEN cells[c] ELSE Hole]
  BY <1>1 DEF WrittenAt
<1>3. a \in Seq(Nat) /\ Len(a) = n + 1
        /\ \A c \in 1 .. n + 1 : a[c] = IF c = n + 1 THEN x ELSE cells[c]
  OBVIOUS
<1>5. \A c \in 1 .. n + 1 : c # n + 1 => c <= n
  <2> HIDE DEF n
  <2> QED
    BY <1>1
<1> HIDE DEF w, a, n
<1>4. a = [c \in 1 .. n + 1 |-> a[c]]
  BY <1>1, <1>3
<1>6. [c \in 1 .. n + 1 |-> a[c]] = w
  BY <1>2, <1>3, <1>5
<1> QED
  BY <1>4, <1>6 DEF w, a, n

LEMMA OwnType ==
  ASSUME TypeOK, Writing, OwnInv, NEW s \in Shells, Type(s)
  PROVE  OwnInv'
<1> DEFINE w == writer[s]
<1>1. /\ clock' = clock + 1 /\ pc[s] = "type" /\ clock \in Nat
      /\ typed' = [typed EXCEPT ![s][k[s]] = Append(typed[s][k[s]], clock')]
      /\ text' = [text EXCEPT ![w.file] = WrittenAt(text[w.file], w.offset, clock')]
      /\ writer' = [writer EXCEPT ![s] = Advanced(w)]
      /\ own' = Company(s)
      /\ UNCHANGED <<pc, k, path, reader, got, eof>>
  BY DEF Type, readVars, TypeOK
<1>2. w \in Place /\ w.file \in 1 .. Len(text) /\ text \in Seq(Seq(Nat)) /\ k[s] \in Index
      /\ clock' \in Nat
  BY <1>1 DEF Writing, Place, File, NoFile, TypeOK
<1>3. \A t \in Shells, j \in Index :
        typed'[t][j] = IF t = s /\ j = k[s] THEN Append(typed[s][k[s]], clock')
                                            ELSE typed[t][j]
  <2>1. typed \in [Shells -> [Index -> Seq(Nat)]] /\ typed[s][k[s]] \in Seq(Nat)
    BY <1>2 DEF TypeOK
  <2>2. Append(typed[s][k[s]], clock') \in Seq(Nat)
    BY <1>2, <2>1
  <2> QED
    BY <1>1, <1>2, <2>1, <2>2, Update
<1>4. own'[s] = own[s] /\ \A t \in Shells \ {s} : own'[t] = FALSE
  BY <1>1 DEF Company, TypeOK
<1>5. Own(s)'
  <2>1. Own(s)
    BY DEF OwnInv
  <2>2. Fresh(s)'
    <3>1. \A j \in Index : j > k[s] => j # k[s]
      BY <1>2, Constants
    <3> QED
      BY <1>1, <1>2, <1>3, <2>1, <3>1 DEF Own, Fresh
  <2>3. OwnReader(s)'
    BY <1>1 DEF OwnReader
  <2>4. CASE own[s] = FALSE
    BY <1>4, <2>2, <2>3, <2>4 DEF Own, OwnFile, OwnWriter
  <2>5. CASE own[s] = TRUE
    <3>1. /\ path # NoFile /\ text[path] = typed[s][k[s]] /\ w.file = path
          /\ w.offset = Len(text[path])
      BY <1>1, <2>1, <2>5 DEF Own, OwnFile, OwnWriter
    <3>2. text[path] \in Seq(Nat) /\ path \in 1 .. Len(text)
      BY <1>2, <3>1
    <3>3. text'[path] = Append(text[path], clock')
      <4>1. WrittenAt(text[path], Len(text[path]), clock') = Append(text[path], clock')
        BY <1>2, <3>2, WrittenAtEnd
      <4> QED
        BY <1>1, <1>2, <3>1, <3>2, <4>1
    <3>4. OwnFile(s)'
      BY <1>1, <1>2, <1>3, <3>1, <3>3 DEF OwnFile
    <3>5. writer'[s] = Advanced(w)
      BY <1>1 DEF TypeOK
    <3>6. Len(text'[path]) = Len(text[path]) + 1
      BY <1>2, <3>2, <3>3
    <3>7. OwnWriter(s)'
      BY <1>1, <3>1, <3>5, <3>6 DEF OwnWriter, Advanced
    <3> QED
      BY <2>2, <2>3, <3>4, <3>7 DEF Own
  <2> QED
    BY <2>4, <2>5 DEF TypeOK
<1>6. ASSUME NEW t \in Shells \ {s} PROVE Own(t)'
  <2>1. /\ pc'[t] = pc[t] /\ k'[t] = k[t] /\ writer'[t] = writer[t]
        /\ reader'[t] = reader[t] /\ typed'[t] = typed[t] /\ got'[t] = got[t]
        /\ eof'[t] = eof[t] /\ own'[t] = FALSE
    BY <1>1, <1>4 DEF TypeOK
  <2> QED
    BY <2>1, OtherOwn DEF OwnInv
<1> QED
  BY <1>5, <1>6 DEF OwnInv

LEMMA OwnReopen ==
  ASSUME TypeOK, IInv, OwnInv, NEW s \in Shells, Reopen(s)
  PROVE  OwnInv'
<1> DEFINE start == [file |-> path, offset |-> 0]
<1>1. /\ pc[s] = "reopen" /\ path # NoFile
      /\ reader' = [reader EXCEPT ![s][k[s]] = start]
      /\ k' = IF k[s] < count[s] THEN [k EXCEPT ![s] = @ + 1] ELSE k
      /\ pc' = [pc EXCEPT ![s] = IF k[s] < count[s] THEN "create" ELSE "run"]
      /\ UNCHANGED <<path, text, writer, typed, own, got, eof>>
  BY DEF Reopen, Goes, systemVars, inputVars
<1>2. /\ k[s] \in Index /\ Index \subseteq Nat /\ start \in Place
      /\ reader \in [Shells -> [Index -> Place]]
  BY Constants DEF TypeOK, Place
<1>3. \A t \in Shells, j \in Index :
        reader'[t][j] = IF t = s /\ j = k[s] THEN start ELSE reader[t][j]
  <2> HIDE DEF start
  <2> QED
    BY <1>1, <1>2, Update
<1>4. Own(s)
  BY DEF OwnInv
<1>5. CASE k[s] < count[s]
  <2>1. pc'[s] = "create" /\ k'[s] = k[s] + 1
    BY <1>1, <1>5 DEF TypeOK
  <2>2. \A j \in Index : j >= k[s] + 1 => j > k[s]
    <3>1. k[s] \in Nat /\ Index \subseteq Nat
      BY <1>2
    <3> QED
      BY ONLY <3>1
  <2> QED
    <3>1. Own(s)'
      BY <1>1, <1>4, <2>1, <2>2 DEF Own, Fresh, OwnFile, OwnWriter, OwnReader
    <3>2. ASSUME NEW t \in Shells \ {s} PROVE Own(t)'
      <4>1. /\ pc'[t] = pc[t] /\ k'[t] = k[t] /\ writer'[t] = writer[t]
            /\ reader'[t] = reader[t] /\ typed'[t] = typed[t] /\ got'[t] = got[t]
            /\ eof'[t] = eof[t] /\ own'[t] = own[t]
        BY <1>1, <1>5 DEF TypeOK
      <4> QED
        BY <1>1, <4>1, OtherOwn DEF OwnInv
    <3> QED
      BY <3>1, <3>2 DEF OwnInv
<1>6. CASE ~(k[s] < count[s])
  <2>1. pc'[s] = "run" /\ k' = k
    BY <1>1, <1>6 DEF TypeOK
  <2>2. got[s][k[s]] = <<>> /\ eof[s][k[s]] = FALSE
    <3>1. k[s] >= k[s]
      <4>1. k[s] \in Nat
        BY <1>2
      <4> QED
        BY ONLY <4>1
    <3> QED
      BY <1>1, <1>2, <1>4, <3>1 DEF IInv, Own, Fresh
  <2>3. reader'[s][k[s]] = start
    BY <1>2, <1>3
  <2>4. Len(text[path]) \in Nat
    BY <1>1 DEF TypeOK, File, NoFile
  <2>5. Beginning(<<>>, text[path], 0)
    BY <2>4 DEF Beginning
  <2>6. OwnReader(s)'
    BY <1>1, <2>1, <2>2, <2>3, <2>5 DEF OwnReader
  <2>7. OwnFile(s)'
    BY <1>1, <1>4, <2>1 DEF Own, OwnFile
  <2>8. Fresh(s)' /\ OwnWriter(s)'
    BY <2>1 DEF Fresh, OwnWriter
  <2>9. Own(s)'
    BY <2>6, <2>7, <2>8 DEF Own
  <2>10. ASSUME NEW t \in Shells \ {s} PROVE Own(t)'
    <3>1. /\ pc'[t] = pc[t] /\ k'[t] = k[t] /\ writer'[t] = writer[t]
          /\ reader'[t] = reader[t] /\ typed'[t] = typed[t] /\ got'[t] = got[t]
          /\ eof'[t] = eof[t] /\ own'[t] = own[t]
      BY <1>1, <2>1 DEF TypeOK
    <3> QED
      BY <1>1, <3>1, OtherOwn DEF OwnInv
  <2> QED
    BY <2>9, <2>10 DEF OwnInv
<1> QED
  BY <1>5, <1>6

LEMMA OwnRead ==
  ASSUME TypeOK, OwnInv, NEW s \in Shells, NEW j \in Index, Read(s, j)
  PROVE  OwnInv'
<1> DEFINE r == reader[s][j]
           cells == text[r.file]
           x == cells[r.offset + 1]
<1>1. /\ pc[s] = "run" /\ r.file # NoFile
      /\ UNCHANGED <<pc, k, path, text, writer, typed, own>>
  BY DEF Read, systemVars, inputVars
<1>2. r \in Place /\ r.file \in 1 .. Len(text) /\ cells \in Seq(Nat) /\ r.offset \in Nat
  <2>1. text \in Seq(Seq(Nat))
    BY DEF TypeOK
  <2> QED
    BY <1>1, <2>1, ReaderFile DEF Place
<1>3. /\ got \in [Shells -> [Index -> Seq(Nat)]] /\ got[s][j] \in Seq(Nat)
      /\ reader \in [Shells -> [Index -> Place]] /\ eof \in [Shells -> [Index -> BOOLEAN]]
      /\ k[s] \in Index
  BY DEF TypeOK
<1>4. Own(s)
  BY DEF OwnInv
<1>5. ASSUME NEW t \in Shells \ {s} PROVE Own(t)'
  <2>1. /\ reader'[t] = reader[t] /\ got'[t] = got[t] /\ eof'[t] = eof[t]
    BY DEF Read, TypeOK
  <2> QED
    BY <1>1, <2>1, OtherOwn DEF OwnInv
<1>6. Fresh(s)' /\ OwnWriter(s)'
  BY <1>1 DEF Fresh, OwnWriter
<1>7. OwnFile(s)'
  BY <1>1, <1>4 DEF Own, OwnFile
<1>8. CASE r.offset < Len(cells)
  <2>1. /\ got' = [got EXCEPT ![s][j] = Append(got[s][j], x)]
        /\ reader' = [reader EXCEPT ![s][j] = Advanced(r)] /\ eof' = eof
    BY <1>8 DEF Read
  <2>2. x \in Nat
    <3> HIDE DEF cells, r
    <3> QED
      BY <1>2, <1>8
  <2>3. Append(got[s][j], x) \in Seq(Nat) /\ Advanced(r) \in Place
    BY <1>2, <1>3, <2>2 DEF Advanced, Place
  <2>4. \A i \in Index :
          /\ got'[s][i] = IF i = j THEN Append(got[s][j], x) ELSE got[s][i]
          /\ reader'[s][i] = IF i = j THEN Advanced(r) ELSE reader[s][i]
    <3> HIDE DEF r, x, cells
    <3> QED
      BY <1>3, <2>1, <2>3, Update
  <2>5. CASE j # k[s]
    <3>1. OwnReader(s)'
      BY <1>1, <1>3, <1>4, <2>1, <2>4, <2>5 DEF Own, OwnReader
    <3> QED
      BY <1>5, <1>6, <1>7, <3>1 DEF Own, OwnInv
  <2>6. CASE j = k[s]
    <3>1. CASE own[s] = TRUE
      <4>1. r.file = path /\ Beginning(got[s][j], cells, r.offset) /\ eof[s][j] = FALSE
        BY <1>1, <1>3, <1>4, <2>6, <3>1 DEF Own, OwnReader, Read
      <4>2. Beginning(Append(got[s][j], x), cells, r.offset + 1)
        <5> HIDE DEF cells
        <5> DEFINE g == got[s][j]
                   n == r.offset
                   a == Append(g, x)
        <5>1. g \in Seq(Nat) /\ n \in Nat /\ Len(g) = n /\ Len(cells) \in Nat
              /\ n < Len(cells) /\ \A c \in 1 .. n : g[c] = cells[c]
          BY <1>2, <1>3, <1>8, <4>1 DEF Beginning
        <5>2. Len(a) = n + 1 /\ \A c \in 1 .. n + 1 : a[c] = IF c = n + 1 THEN x ELSE g[c]
          <6> HIDE DEF g, n
          <6> QED
            BY <2>2, <5>1
        <5>3. \A c \in 1 .. n + 1 : a[c] = cells[c]
          <6> HIDE DEF g, a
          <6> QED
            BY <5>1, <5>2
        <5>4. n + 1 <= Len(cells)
          BY <5>1
        <5> QED
          BY <5>2, <5>3, <5>4 DEF Beginning
      <4>3. /\ got'[s][j] = Append(got[s][j], x)
            /\ reader'[s][j].file = path /\ reader'[s][j].offset = r.offset + 1
        <5>1. Advanced(r).file = r.file /\ Advanced(r).offset = r.offset + 1
          BY DEF Advanced
        <5> HIDE DEF r, x, cells
        <5> QED
          BY <2>4, <4>1, <5>1
      <4>4. OwnReader(s)'
        BY <1>1, <2>1, <2>6, <4>1, <4>2, <4>3 DEF OwnReader
      <4> QED
        BY <1>5, <1>6, <1>7, <4>4 DEF Own, OwnInv
    <3>2. CASE own[s] = FALSE
      <4>1. OwnReader(s)'
        BY <1>1, <3>2 DEF OwnReader
      <4> QED
        BY <1>5, <1>6, <1>7, <4>1 DEF Own, OwnInv
    <3> QED
      BY <3>1, <3>2 DEF TypeOK
  <2> QED
    BY <2>5, <2>6
<1>9. CASE ~(r.offset < Len(cells))
  <2>1. eof' = [eof EXCEPT ![s][j] = TRUE] /\ UNCHANGED <<got, reader>>
    BY <1>9 DEF Read
  <2>2. \A i \in Index : eof'[s][i] = IF i = j THEN TRUE ELSE eof[s][i]
    <3>1. eof'[s] = [eof[s] EXCEPT ![j] = TRUE] /\ eof[s] \in [Index -> BOOLEAN]
      BY ONLY <1>3, <2>1
    <3> QED
      BY ONLY <3>1
  <2>3. OwnReader(s)'
    <3>1. CASE j # k[s]
      BY <1>1, <1>3, <1>4, <2>1, <2>2, <3>1 DEF Own, OwnReader
    <3>2. CASE j = k[s]
      <4>1. Len(cells) \in Nat
        BY <1>2
      <4>2. own[s] => r.file = path /\ Beginning(got[s][j], cells, r.offset)
        BY <1>1, <1>4, <3>2 DEF Own, OwnReader
      <4>3. own[s] => r.offset = Len(cells)
        BY <1>2, <1>9, <4>1, <4>2 DEF Beginning
      <4> QED
        BY <1>1, <2>1, <3>2, <4>2, <4>3 DEF OwnReader
    <3> QED
      BY <3>1, <3>2
  <2> QED
    BY <1>5, <1>6, <1>7, <2>3 DEF Own, OwnInv
<1> QED
  BY <1>8, <1>9

\* The steps that touch no text: a heredoc that is its shell's own can be opened
\* again, and one that could not be made is no longer called so.
LEMMA OwnRest ==
  ASSUME TypeOK, OwnInv, NEW s \in Shells,
         Begin(s) \/ CreateFails(s) \/ End(s) \/ ReopenFails(s)
  PROVE  OwnInv'
<1>1. /\ UNCHANGED <<k, path, text, writer, typed, reader, got, eof>>
      /\ \A t \in Shells \ {s} : pc'[t] = pc[t] /\ own'[t] = own[t]
  BY DEF Begin, CreateFails, End, ReopenFails, Goes, systemVars, inputVars, readVars, TypeOK
<1>2. Own(s)
  BY DEF OwnInv
<1>3. Own(s)'
  <2>1. CASE Begin(s)
    <3>1. pc[s] = "idle" /\ pc'[s] = "create" /\ own'[s] = own[s]
      BY <2>1 DEF Begin, Goes, inputVars, TypeOK
    <3> QED
      BY <1>1, <1>2, <3>1 DEF Own, Fresh, OwnFile, OwnWriter, OwnReader
  <2>2. CASE CreateFails(s)
    <3>1. pc'[s] = "run" /\ own'[s] = FALSE
      BY <2>2 DEF CreateFails, Goes, TypeOK
    <3> QED
      BY <1>1, <1>2, <3>1 DEF Own, Fresh, OwnFile, OwnWriter, OwnReader
  <2>3. CASE End(s)
    <3>1. pc[s] = "type" /\ pc'[s] = "reopen" /\ own'[s] = own[s]
      BY <2>3 DEF End, Goes, inputVars, TypeOK
    <3> QED
      BY <1>1, <1>2, <3>1 DEF Own, Fresh, OwnFile, OwnWriter, OwnReader
  <2>4. CASE ReopenFails(s)
    <3>1. pc[s] = "reopen" /\ pc'[s] = "run"
      BY <2>4 DEF ReopenFails, Goes, TypeOK
    <3>2. own'[s] = FALSE
      <4>1. CASE path = NoFile
        <5>1. own[s] = FALSE
          BY <1>2, <3>1, <4>1 DEF Own, OwnFile, TypeOK
        <5> QED
          BY <2>4, <4>1, <5>1 DEF ReopenFails
      <4>2. CASE path # NoFile
        BY <2>4, <4>2 DEF ReopenFails, TypeOK
      <4> QED
        BY <4>1, <4>2
    <3> QED
      BY <1>1, <1>2, <3>1, <3>2 DEF Own, Fresh, OwnFile, OwnWriter, OwnReader
  <2> QED
    BY <2>1, <2>2, <2>3, <2>4
<1>4. ASSUME NEW t \in Shells \ {s} PROVE Own(t)'
  BY <1>1, OtherOwn DEF OwnInv
<1> QED
  BY <1>3, <1>4 DEF OwnInv

LEMMA OwnStep ==
  ASSUME TypeOK, Writing, IInv, OwnInv, [Next]_vars
  PROVE  OwnInv'
<1>1. CASE UNCHANGED vars
  <2>1. UNCHANGED <<pc, k, path, text, writer, reader, typed, got, eof, own>>
    BY <1>1 DEF vars, systemVars, inputVars, readVars
  <2> QED
    BY <2>1, OtherOwn DEF OwnInv
<1>2. ASSUME NEW s \in Shells, Interrupt(s) PROVE OwnInv'
  <2>1. Idle(s) /\ UNCHANGED text /\ \A t \in Shells : own'[t] = FALSE
    BY <1>2 DEF Interrupt
  <2> QED
    BY <2>1, OwnIdle
<1>3. ASSUME NEW s \in Shells, Finish(s) PROVE OwnInv'
  <2>1. /\ Idle(s) /\ UNCHANGED <<text, path>> /\ own'[s] = FALSE
        /\ \A t \in Shells \ {s} : own'[t] = own[t]
    BY <1>3 DEF Finish, systemVars, TypeOK
  <2> QED
    BY <2>1, OwnIdle
<1> QED
  BY <1>1, <1>2, <1>3, OwnCreate, OwnType, OwnReopen, OwnRead, OwnRest DEF Next

-----------------------------------------------------------------------------
(* The theorems *)

LEMMA Invariant == Spec => [](TypeOK /\ IInv)
<1>1. Init => TypeOK /\ Writing /\ IInv
  BY TypeInit, InvInit
<1>2. TypeOK /\ Writing /\ IInv /\ [Next]_vars => (TypeOK /\ Writing /\ IInv)'
  BY TypeStep, InvStep
<1> QED
  BY <1>1, <1>2, PTL DEF Spec

\* Every variable keeps its type: no shell writes to, reads or opens a file that
\* has not been made.
THEOREM TypeCorrect == Spec => []TypeOK
BY Invariant, PTL

\* No command reads a line written before its heredoc began, with any number of
\* shells sharing the file (create_heredoc_file truncates it).
THEOREM NothingStale == Spec => []NoStaleText
<1>1. IInv => NoStaleText
  BY DEF IInv, After, NoStaleText
<1> QED
  BY <1>1, Invariant, PTL

\* A heredoc that no other shell disturbs reaches its command complete, in order and
\* with nothing added, with any number of shells, heredocs and lines of text
\* (handle_heredoc and cleanup_heredoc: opened, truncated, written, opened again).
THEOREM OwnTextArrives == Spec => []OwnText
<1>1. Init => TypeOK /\ Writing /\ IInv /\ OwnInv
  BY TypeInit, InvInit, OwnInit
<1>2. TypeOK /\ Writing /\ IInv /\ OwnInv /\ [Next]_vars
        => (TypeOK /\ Writing /\ IInv /\ OwnInv)'
  BY TypeStep, InvStep, OwnStep
<1>3. TypeOK /\ OwnInv => OwnText
  <2> SUFFICES ASSUME TypeOK, OwnInv, NEW s \in Shells, pc[s] = "run", own[s]
               PROVE  /\ reader[s][k[s]].file # NoFile
                      /\ IsPrefix(got[s][k[s]], typed[s][k[s]])
                      /\ eof[s][k[s]] => got[s][k[s]] = typed[s][k[s]]
    BY DEF OwnText
  <2> DEFINE g == got[s][k[s]]
             y == typed[s][k[s]]
             n == reader[s][k[s]].offset
  <2>2. /\ path # NoFile /\ reader[s][k[s]].file = path /\ Beginning(g, y, n)
        /\ (eof[s][k[s]] => n = Len(y))
    BY DEF OwnInv, Own, OwnFile, OwnReader
  <2>3. g \in Seq(Nat) /\ y \in Seq(Nat) /\ k[s] \in Index
    BY DEF TypeOK
  <2> HIDE DEF g, y, n
  <2>4. /\ Len(g) <= Len(y) /\ Len(g) \in Nat /\ Len(y) \in Nat
        /\ \A c \in 1 .. Len(g) : g[c] = y[c]
    BY <2>2, <2>3 DEF Beginning
  <2>5. SubSeq(g, 1, Len(g)) = SubSeq(y, 1, Len(g))
    <3>1. /\ SubSeq(g, 1, Len(g)) = [c \in 1 .. Len(g) |-> g[c]]
          /\ SubSeq(y, 1, Len(g)) = [c \in 1 .. Len(g) |-> y[c]]
      BY <2>3, <2>4
    <3> QED
      BY <2>4, <3>1
  <2>6. n = Len(y) => g = y
    <3>1. g = [c \in 1 .. Len(g) |-> g[c]] /\ y = [c \in 1 .. Len(y) |-> y[c]]
      BY <2>3
    <3>2. n = Len(g)
      BY <2>2 DEF Beginning
    <3> QED
      BY <2>4, <3>1, <3>2
  <2> QED
    BY <2>2, <2>4, <2>5, <2>6 DEF IsPrefix, g, y
<1> QED
  BY <1>1, <1>2, <1>3, PTL DEF Spec

=============================================================================
