------------------------- MODULE EnvironmentProofs -------------------------
(***************************************************************************)
(* Proofs about the environment, for every set of names, texts, paths and  *)
(* command lines, every INT_MAX and any number of lines and shells.        *)
(***************************************************************************)
EXTENDS EnvironmentProperties, SequenceTheorems, WellFoundedInduction, TLAPS

-----------------------------------------------------------------------------
(* The array *)

LEMMA LeastElement ==
  ASSUME NEW T \in SUBSET Nat, T # {}
  PROVE  \E x \in T : \A y \in T : x <= y
<1>1. IsWellFoundedOn(OpToRel(<, Nat), Nat)
  BY ONLY NatLessThanWellFounded, Zenon
<1>2. \E x \in T : \A y \in T : ~ (<<y, x>> \in OpToRel(<, Nat))
  BY <1>1, WFMin, Zenon
<1>3. PICK x \in T : \A y \in T : ~ (<<y, x>> \in OpToRel(<, Nat))
  BY <1>2, Zenon
<1>4. \A y \in T : ~ (y < x)
  BY <1>3 DEF OpToRel
<1> QED
  BY <1>4

LEMMA FirstFound ==
  ASSUME NEW s \in Seq(Entry), NEW k, Has(s, k)
  PROVE  First(s, k) \in 1 .. Len(s) /\ s[First(s, k)].key = k
<1> DEFINE T == {i \in 1 .. Len(s) : s[i].key = k}
<1>1. T \in SUBSET Nat /\ T # {}
  BY LenProperties DEF Has
<1>2. PICK i \in T : \A j \in T : i <= j
  BY <1>1, LeastElement
<1>3. \A j \in 1 .. i - 1 : s[j].key # k
  BY <1>2, LenProperties
<1> QED
  BY <1>2, <1>3, LenProperties DEF First

LEMMA EntriesIn ==
  ASSUME NEW s \in Seq(Entry)
  PROVE  /\ Len(s) \in Nat /\ DOMAIN s = 1 .. Len(s)
         /\ \A i \in 1 .. Len(s) : s[i] \in Entry
BY LenProperties, ElementOfSeq

LEMMA BindType ==
  ASSUME NEW k \in Keys, NEW v \in Value
  PROVE  Bind(k, v) \in Entry /\ Bind(k, v).key = k /\ Bind(k, v).value = v
BY DEF Bind, Entry

\* What update_env does to the array.
LEMMA UpdateEnvIs ==
  ASSUME NEW s \in Seq(Entry), Unique(s), NEW k \in Keys, NEW v \in Value
  PROVE  /\ UpdateEnv(s, k, v) \in Seq(Entry)
         /\ Unique(UpdateEnv(s, k, v))
         /\ Entries(UpdateEnv(s, k, v)) =
              {c \in Entries(s) : c.key # k} \cup {Bind(k, v)}
<1> DEFINE t == UpdateEnv(s, k, v)
<1>1. CASE Has(s, k)
  <2> DEFINE f == First(s, k)
  <2>1. t = [s EXCEPT ![f] = Bind(k, v)] /\ f \in 1 .. Len(s) /\ s[f].key = k
    BY <1>1, FirstFound DEF UpdateEnv
  <2>2. /\ t \in Seq(Entry) /\ Len(t) = Len(s)
        /\ \A j \in 1 .. Len(s) : t[j] = IF j = f THEN Bind(k, v) ELSE s[j]
    BY <2>1, BindType, ExceptSeq
  <2>3. \A i \in 1 .. Len(s) : i # f => s[i].key # k
    BY <2>1, EntriesIn DEF Unique
  <2>4. Unique(t)
    BY <2>1, <2>2, <2>3, EntriesIn, BindType DEF Unique
  <2>5. Entries(t) = {c \in Entries(s) : c.key # k} \cup {Bind(k, v)}
    BY <2>1, <2>2, <2>3, EntriesIn, BindType DEF Entries
  <2> QED
    BY <2>2, <2>4, <2>5
<1>2. CASE ~ Has(s, k)
  <2>1. t = Append(s, Bind(k, v)) /\ \A i \in 1 .. Len(s) : s[i].key # k
    BY <1>2, EntriesIn DEF UpdateEnv, Has
  <2>2. /\ t \in Seq(Entry) /\ Len(t) = Len(s) + 1
        /\ \A j \in 1 .. Len(s) : t[j] = s[j]
        /\ t[Len(s) + 1] = Bind(k, v)
    BY <2>1, BindType, AppendProperties
  <2>3. Unique(t)
    BY <2>1, <2>2, EntriesIn, BindType DEF Unique
  <2>4. Entries(t) = {c \in Entries(s) : c.key # k} \cup {Bind(k, v)}
    BY <2>1, <2>2, EntriesIn, BindType DEF Entries
  <2> QED
    BY <2>2, <2>3, <2>4
<1> QED
  BY <1>1, <1>2

LEMMA ShiftIs ==
  ASSUME NEW s \in Seq(Entry), NEW f \in 1 .. Len(s)
  PROVE  /\ Shift(s, f) \in Seq(Entry) /\ Len(Shift(s, f)) = Len(s) - 1
         /\ \A i \in 1 .. Len(s) - 1 :
              Shift(s, f)[i] = IF i < f THEN s[i] ELSE s[i + 1]
<1> DEFINE a == SubSeq(s, 1, f - 1)
           b == SubSeq(s, f + 1, Len(s))
<1>1. /\ a \in Seq(Entry) /\ Len(a) = f - 1
      /\ \A i \in 1 .. f - 1 : a[i] = s[i]
  BY EntriesIn, SubSeqProperties
<1>2. /\ b \in Seq(Entry) /\ Len(b) = Len(s) - f
      /\ \A i \in 1 .. Len(s) - f : b[i] = s[f + i]
  <2>1. \A i \in f + 1 .. Len(s) : s[i] \in Entry
    BY EntriesIn
  <2>2. f + 1 \in Int /\ Len(s) \in Int
    BY EntriesIn
  <2>3. /\ b \in Seq(Entry)
        /\ Len(b) = IF f + 1 <= Len(s) THEN Len(s) - (f + 1) + 1 ELSE 0
        /\ \A i \in 1 .. Len(s) - (f + 1) + 1 : b[i] = s[(f + 1) + i - 1]
    BY <2>1, <2>2, SubSeqProperties
  <2> QED
    BY <2>2, <2>3
<1>3. Shift(s, f) = a \o b
  BY DEF Shift
<1>4. /\ a \o b \in Seq(Entry) /\ Len(a \o b) = Len(a) + Len(b)
      /\ \A i \in 1 .. Len(a) + Len(b) :
           (a \o b)[i] = IF i <= Len(a) THEN a[i] ELSE b[i - Len(a)]
  BY <1>1, <1>2, ConcatProperties
<1> HIDE DEF a, b
<1> QED
  BY <1>1, <1>2, <1>3, <1>4, EntriesIn

\* What ft_unsetenv does to the array.
LEMMA UnsetEnvIs ==
  ASSUME NEW s \in Seq(Entry), Unique(s), NEW k
  PROVE  /\ UnsetEnv(s, k) \in Seq(Entry)
         /\ Unique(UnsetEnv(s, k))
         /\ Entries(UnsetEnv(s, k)) = {c \in Entries(s) : c.key # k}
<1> DEFINE t == UnsetEnv(s, k)
<1>1. CASE Has(s, k)
  <2> DEFINE f == First(s, k)
  <2>1. t = Shift(s, f) /\ f \in 1 .. Len(s) /\ s[f].key = k
    BY <1>1, FirstFound DEF UnsetEnv
  <2>2. /\ t \in Seq(Entry) /\ Len(t) = Len(s) - 1
        /\ \A i \in 1 .. Len(s) - 1 : t[i] = IF i < f THEN s[i] ELSE s[i + 1]
    BY <2>1, ShiftIs
  <2>3. \A i \in 1 .. Len(s) : i # f => s[i].key # k
    BY <2>1, EntriesIn DEF Unique
  <2> HIDE DEF t, f
  <2>4. /\ DOMAIN t = 1 .. Len(s) - 1 /\ DOMAIN s = 1 .. Len(s)
        /\ \A i \in 1 .. Len(s) - 1 :
             \E j \in 1 .. Len(s) : t[i] = s[j] /\ s[j].key # k
                                  /\ j = IF i < f THEN i ELSE i + 1
    <3>1. DOMAIN t = 1 .. Len(s) - 1 /\ DOMAIN s = 1 .. Len(s) /\ Len(s) \in Nat
      BY <2>2, EntriesIn
    <3>2. ASSUME NEW i \in 1 .. Len(s) - 1
          PROVE  \E j \in 1 .. Len(s) : t[i] = s[j] /\ s[j].key # k
                                       /\ j = IF i < f THEN i ELSE i + 1
      <4>1. CASE i < f
        BY <2>1, <2>2, <2>3, <3>1, <3>2, <4>1
      <4>2. CASE i >= f
        <5>1. i + 1 \in 1 .. Len(s) /\ i + 1 # f
          BY <2>1, <3>1, <4>2
        <5> QED
          BY <2>1, <2>2, <2>3, <3>1, <4>2, <5>1
      <4> QED
        BY <2>1, <4>1, <4>2
    <3> QED
      BY <3>1, <3>2
  <2>5. Entries(t) \subseteq {c \in Entries(s) : c.key # k}
    BY <2>4 DEF Entries
  <2>7. Unique(t)
    <3> SUFFICES ASSUME NEW i \in 1 .. Len(s) - 1, NEW j \in 1 .. Len(s) - 1,
                        t[i].key = t[j].key
                 PROVE  i = j
      BY <2>4 DEF Unique
    <3>1. PICK x \in 1 .. Len(s) : t[i] = s[x] /\ x = IF i < f THEN i ELSE i + 1
      BY <2>4
    <3>2. PICK y \in 1 .. Len(s) : t[j] = s[y] /\ y = IF j < f THEN j ELSE j + 1
      BY <2>4
    <3>3. x = y
      BY <2>4, <3>1, <3>2 DEF Unique
    <3> QED
      BY <2>1, <3>1, <3>2, <3>3
  <2>6. ASSUME NEW i \in 1 .. Len(s), s[i].key # k
        PROVE  s[i] \in Entries(t)
    <3>1. CASE i < f
      BY <2>1, <2>2, <3>1, EntriesIn DEF Entries
    <3>2. CASE i > f
      <4>1. i - 1 \in 1 .. Len(s) - 1 /\ t[i - 1] = s[i]
        BY <2>1, <2>2, <3>2, EntriesIn
      <4>2. DOMAIN t = 1 .. Len(s) - 1
        BY <2>2, EntriesIn
      <4> QED
        BY <4>1, <4>2 DEF Entries
    <3> QED
      BY <2>1, <2>6, <3>1, <3>2, EntriesIn
  <2> QED
    BY <2>2, <2>5, <2>6, <2>7, EntriesIn DEF Entries, t
<1>2. CASE ~ Has(s, k)
  BY <1>2, EntriesIn DEF UnsetEnv, Has, Entries
<1> QED
  BY <1>1, <1>2

\* What a reader of the array finds.
LEMMA LookupIs ==
  ASSUME NEW s \in Seq(Entry), Unique(s), NEW k
  PROVE  Lookup(s, k) = {c.value : c \in {d \in Entries(s) : d.key = k}}
<1>1. CASE Has(s, k)
  <2>1. First(s, k) \in 1 .. Len(s) /\ s[First(s, k)].key = k
    BY <1>1, FirstFound
  <2>2. {d \in Entries(s) : d.key = k} = {s[First(s, k)]}
    BY <2>1, EntriesIn DEF Unique, Entries
  <2> QED
    BY <1>1, <2>2 DEF Lookup
<1>2. CASE ~ Has(s, k)
  <2>1. {d \in Entries(s) : d.key = k} = {}
    BY <1>2 DEF Has, Entries
  <2> QED
    BY <1>2, <2>1 DEF Lookup
<1> QED
  BY <1>1, <1>2

LEMMA LookupUpdateEnv ==
  ASSUME NEW s \in Seq(Entry), Unique(s), NEW k \in Keys, NEW v \in Value, NEW j
  PROVE  Lookup(UpdateEnv(s, k, v), j) = IF j = k THEN {v} ELSE Lookup(s, j)
<1> DEFINE t == UpdateEnv(s, k, v)
<1>1. t \in Seq(Entry) /\ Unique(t)
      /\ Entries(t) = {c \in Entries(s) : c.key # k} \cup {Bind(k, v)}
  BY UpdateEnvIs
<1>2. Lookup(t, j) = {c.value : c \in {d \in Entries(t) : d.key = j}}
  BY <1>1, LookupIs
<1>3. Lookup(s, j) = {c.value : c \in {d \in Entries(s) : d.key = j}}
  BY LookupIs
<1> HIDE DEF t
<1>4. CASE j = k
  <2>1. {d \in Entries(t) : d.key = j} = {Bind(k, v)}
    BY <1>1, <1>4, BindType
  <2> QED
    BY <1>2, <1>4, <2>1, BindType DEF t
<1>5. CASE j # k
  <2>1. {d \in Entries(t) : d.key = j} = {d \in Entries(s) : d.key = j}
    BY <1>1, <1>5, BindType
  <2> QED
    BY <1>2, <1>3, <1>5, <2>1 DEF t
<1> QED
  BY <1>4, <1>5

LEMMA LookupUnsetEnv ==
  ASSUME NEW s \in Seq(Entry), Unique(s), NEW k, NEW j
  PROVE  Lookup(UnsetEnv(s, k), j) = IF j = k THEN {} ELSE Lookup(s, j)
<1> DEFINE t == UnsetEnv(s, k)
<1>1. t \in Seq(Entry) /\ Unique(t) /\ Entries(t) = {c \in Entries(s) : c.key # k}
  BY UnsetEnvIs
<1>2. /\ Lookup(t, j) = {c.value : c \in {d \in Entries(t) : d.key = j}}
      /\ Lookup(s, j) = {c.value : c \in {d \in Entries(s) : d.key = j}}
  BY <1>1, LookupIs
<1> HIDE DEF t
<1>3. {d \in Entries(t) : d.key = j}
        = IF j = k THEN {} ELSE {d \in Entries(s) : d.key = j}
  BY <1>1
<1> QED
  BY <1>2, <1>3 DEF t

LEMMA Bounds ==
  /\ MaxInt \in Nat /\ MaxInt >= 1
  /\ MaxLines \in Nat /\ MaxDepth \in Nat
<1>1. MaxInt \in Nat \ {0} /\ MaxLines \in Nat /\ MaxDepth \in Nat
  BY EnvironmentAssumption, Zenon
<1> QED
  BY <1>1

LEMMA KnownTexts == {"#", "", "''"} \cup Dirs \cup Garbage \subseteq Strings
BY EnvironmentAssumption, Zenon

\* A number as SHLVL is one an int holds.
LEMMA RaisedInRange ==
  ASSUME NEW n \in Int
  PROVE  Raised(Int32(n)) \in 0 .. MaxInt
<1>1. Int32(n) \in Int
  <2> DEFINE w == 2 * (MaxInt + 1)
  <2>1. w \in Int /\ w > 0 /\ n + MaxInt + 1 \in Int
    BY Bounds
  <2> HIDE DEF w
  <2>2. (n + MaxInt + 1) % w \in Int
    BY <2>1
  <2> QED
    BY <2>2, Bounds DEF Int32, w
<1>2. ASSUME NEW i \in Int PROVE Raised(i) \in 0 .. MaxInt
  BY Bounds DEF Raised
<1> QED
  BY <1>1, <1>2

LEMMA TextType ==
  /\ \A t \in Strings : Text(t) \in Value
  /\ \A n \in Int : Number(n) \in Value
<1>1. "#" \in Strings
  BY KnownTexts, Zenon
<1> QED
  BY <1>1 DEF Text, Number, Value

LEMMA KnownKeys == {"HOME", "PWD", "OLDPWD", "SHLVL"} \subseteq Keys
BY EnvironmentAssumption, Zenon

LEMMA AddShlvlIs ==
  ASSUME NEW s \in Seq(Entry)
  PROVE  \E n \in 0 .. MaxInt : /\ Number(n) \in Value
                                /\ AddShlvl(s) = UpdateEnv(s, "SHLVL", Number(n))
<1> DEFINE counts == Has(s, "SHLVL") /\ s[First(s, "SHLVL")].value.str \in {"#", ""}
           n == IF counts THEN Raised(Int32(s[First(s, "SHLVL")].value.num)) ELSE 1
<1>1. n \in 0 .. MaxInt
  <2>1. CASE counts
    <3>1. s[First(s, "SHLVL")].value.num \in Int
      BY <2>1, FirstFound, EntriesIn DEF Entry, Value
    <3> QED
      BY <2>1, <3>1, RaisedInRange, Zenon
  <2>2. CASE ~ counts
    <3>1. n = 1
      BY <2>2, Zenon
    <3>2. 1 \in 0 .. MaxInt
      BY Bounds
    <3> QED
      BY <3>1, <3>2, Zenon
  <2> QED
    BY <2>1, <2>2
<1> HIDE DEF n
<1>2. Number(n) \in Value
  BY <1>1, TextType, Bounds
<1>3. AddShlvl(s) = UpdateEnv(s, "SHLVL", Number(n))
  BY DEF AddShlvl, n
<1> QED
  BY <1>1, <1>2, <1>3

LEMMA AddShlvlType ==
  ASSUME NEW s \in Seq(Entry), Unique(s)
  PROVE  AddShlvl(s) \in Seq(Entry) /\ Unique(AddShlvl(s))
BY AddShlvlIs, UpdateEnvIs, KnownKeys

-----------------------------------------------------------------------------
(* Types *)

LEMMA LatchTypes ==
  /\ FreshEnv \in Env
  /\ \A c \in Codes : Waited(c) \in Env
  /\ \A e \in Env, c \in Codes : ExitStatus(e, c) \in Env
  /\ {0, 1, 2, 126, 127} \subseteq Codes
BY CodesAssumption DEF FreshEnv, Waited, ExitStatus, Env

LEMMA InitTyped == Init => TypeOK /\ KeysUnique
<1> SUFFICES ASSUME Init PROVE TypeOK /\ KeysUnique
  OBVIOUS
<1>1. environ \in Seq(Entry) /\ Unique(environ)
  BY EnvironmentAssumption DEF Init
<1>2. env_var \in Seq(Entry) /\ Unique(env_var)
  BY <1>1, AddShlvlType DEF Init
<1>3. command \in Command
  BY LatchTypes DEF Init, Command
<1>4. outer \in Seq(Shell) /\ Len(outer) = 0
  BY DEF Init
<1>5. TypeOK
  BY <1>1, <1>2, <1>3, <1>4, LatchTypes, Bounds DEF Init, TypeOK
<1> QED
  BY <1>2, <1>4, <1>5 DEF KeysUnique, Init

\* Steps that leave the other shells alone.
LEMMA LineTyped ==
  ASSUME TypeOK, KeysUnique,
         \/ Started \/ EndOfLine \/ ArgsDone \/ CdRefused \/ StartFails \/ Idle
         \/ \E c \in Commands : Type(c)
         \/ \E d \in Dirs : Remove(d)
  PROVE  TypeOK' /\ KeysUnique'
<1> USE DEF TypeOK, KeysUnique, LineMoves, process, Report
<1>1. CASE Started
  BY <1>1 DEF Started
<1>2. CASE EndOfLine
  <2>1. env' \in Env
    BY <1>2, LatchTypes DEF EndOfLine, Env
  <2> QED
    BY <1>2, <2>1 DEF EndOfLine
<1>3. CASE ArgsDone
  BY <1>3 DEF ArgsDone
<1>4. CASE CdRefused
  <2>1. env' \in Env
    BY <1>4, LatchTypes DEF CdRefused
  <2> QED
    BY <1>4, <2>1 DEF CdRefused, CdMoves
<1>5. CASE StartFails
  <2>1. env' \in Env
    BY <1>5, LatchTypes DEF StartFails
  <2> QED
    BY <1>5, <2>1 DEF StartFails
<1>6. CASE Idle
  BY <1>6 DEF Idle, vars
<1>7. ASSUME NEW c \in Commands, Type(c) PROVE TypeOK' /\ KeysUnique'
  <2>1. c \in Command
    BY EnvironmentAssumption
  <2>2. env' \in Env /\ pc' \in {"args", "cd", "minishell", "exit"}
    BY <1>7, <2>1 DEF Type, Env, Command
  <2>3. lines' \in 0 .. MaxLines
    BY <1>7, Bounds DEF Type
  <2> QED
    BY <1>7, <2>1, <2>2, <2>3 DEF Type
<1>8. ASSUME NEW d \in Dirs, Remove(d) PROVE TypeOK' /\ KeysUnique'
  BY <1>8 DEF Remove
<1> QED
  BY <1>1, <1>2, <1>3, <1>4, <1>5, <1>6, <1>7, <1>8

LEMMA ArgType ==
  ASSUME TypeOK, next <= Len(command.args)
  PROVE  ThisArg \in Arg
BY ElementOfSeq, LenProperties DEF TypeOK, ThisArg, Command

LEMMA GivenType ==
  ASSUME NEW a \in Arg
  PROVE  (IF a.assigns THEN a.value ELSE Text("''")) \in Value
BY TextType, KnownTexts DEF Arg

\* Steps that change the array.
LEMMA ArrayTyped ==
  ASSUME TypeOK, KeysUnique,
         ExportArg \/ ExportRefused \/ UnsetArg \/ Chdir \/ UpdatePwd
  PROVE  TypeOK' /\ KeysUnique'
<1> USE DEF TypeOK, KeysUnique, LineMoves, process, Touch, ArgMoves, CdMoves
<1>1. CASE ExportArg
  <2>1. ThisArg \in Arg /\ ThisArg.name \in Keys
    BY <1>1, ArgType DEF ExportArg, AtArg
  <2>2. env_var' \in Seq(Entry) /\ Unique(env_var')
    BY <1>1, <2>1, GivenType, UpdateEnvIs DEF ExportArg
  <2> QED
    BY <1>1, <2>2 DEF ExportArg
<1>2. CASE ExportRefused
  <2>1. env' \in Env
    BY <1>2, LatchTypes DEF ExportRefused, Report, Refusal
  <2> QED
    BY <1>2, <2>1 DEF ExportRefused
<1>3. CASE UnsetArg
  <2>1. env_var' \in Seq(Entry) /\ Unique(env_var')
    BY <1>3, UnsetEnvIs DEF UnsetArg
  <2> QED
    BY <1>3, <2>1 DEF UnsetArg
<1>4. CASE Chdir
  <2>1. PICK old \in Garbage \cup {cwd} : env_var' = UpdateEnv(env_var, "OLDPWD", Text(old))
    BY <1>4 DEF Chdir
  <2>2. Text(old) \in Value
    BY <2>1, TextType, KnownTexts
  <2>3. env_var' \in Seq(Entry) /\ Unique(env_var')
    BY <2>1, <2>2, KnownKeys, UpdateEnvIs
  <2>4. cwd' \in Dirs
    BY <1>4 DEF Chdir, Reachable
  <2> QED
    BY <1>4, <2>3, <2>4 DEF Chdir
<1>5. CASE UpdatePwd
  <2>1. Text(cwd) \in Value
    BY TextType, KnownTexts
  <2>2. env_var' = env_var \/ env_var' = UpdateEnv(env_var, "PWD", Text(cwd))
    BY <1>5 DEF UpdatePwd
  <2>4. env_var' \in Seq(Entry) /\ Unique(env_var')
    <3>1. UpdateEnv(env_var, "PWD", Text(cwd)) \in Seq(Entry)
          /\ Unique(UpdateEnv(env_var, "PWD", Text(cwd)))
      BY <2>1, KnownKeys, UpdateEnvIs
    <3> QED
      BY <2>2, <3>1
  <2>3. strayed' \in BOOLEAN
    BY <1>5 DEF UpdatePwd
  <2> QED
    BY <1>5, <2>3, <2>4 DEF UpdatePwd
<1> QED
  BY <1>1, <1>2, <1>3, <1>4, <1>5

LEMMA OuterIs ==
  ASSUME TypeOK
  PROVE  /\ Len(outer) \in Nat /\ DOMAIN outer = 1 .. Len(outer)
         /\ \A i \in 1 .. Len(outer) : outer[i] \in Shell
BY LenProperties, ElementOfSeq DEF TypeOK

\* What fork puts on the stack of shells, and what exit takes from it.
LEMMA Pushed ==
  ASSUME TypeOK, StartShell
  PROVE  /\ outer' \in Seq(Shell) /\ Len(outer') = Len(outer) + 1
         /\ DOMAIN outer' = 1 .. Len(outer) + 1
         /\ \A i \in 1 .. Len(outer) : outer'[i] = outer[i]
         /\ outer'[Len(outer) + 1] = [env_var |-> env_var, environ |-> environ,
                                      cwd |-> cwd, strayed |-> strayed]
<1> DEFINE sh == [env_var |-> env_var, environ |-> environ, cwd |-> cwd, strayed |-> strayed]
<1>1. sh \in Shell
  BY DEF TypeOK, Shell
<1>2. outer \in Seq(Shell) /\ outer' = Append(outer, sh)
  BY DEF TypeOK, StartShell
<1> HIDE DEF sh
<1>3. /\ Append(outer, sh) \in Seq(Shell)
      /\ Len(Append(outer, sh)) = Len(outer) + 1
      /\ \A i \in 1 .. Len(outer) : Append(outer, sh)[i] = outer[i]
      /\ Append(outer, sh)[Len(outer) + 1] = sh
  BY <1>1, <1>2, AppendProperties
<1>4. DOMAIN Append(outer, sh) = 1 .. Len(outer) + 1
  BY <1>3, LenProperties
<1> QED
  BY <1>2, <1>3, <1>4 DEF sh

LEMMA Popped ==
  ASSUME TypeOK, ExitShell, outer # <<>>
  PROVE  /\ Len(outer) \in 1 .. Len(outer) /\ outer[Len(outer)] \in Shell
         /\ outer' \in Seq(Shell) /\ Len(outer') = Len(outer) - 1
         /\ DOMAIN outer' = 1 .. Len(outer) - 1
         /\ \A i \in 1 .. Len(outer) - 1 : outer'[i] = outer[i]
         /\ env_var' = outer[Len(outer)].env_var
         /\ environ' = outer[Len(outer)].environ
         /\ cwd' = outer[Len(outer)].cwd /\ strayed' = outer[Len(outer)].strayed
<1>1. outer \in Seq(Shell)
  BY DEF TypeOK
<1>2. Len(outer) \in Nat \ {0}
  BY <1>1, EmptySeq
<1>3. outer' = SubSeq(outer, 1, Len(outer) - 1)
  BY DEF ExitShell
<1>4. /\ outer' \in Seq(Shell) /\ Len(outer') = Len(outer) - 1
      /\ \A i \in 1 .. Len(outer) - 1 : outer'[i] = outer[i]
  <2>1. \A i \in 1 .. Len(outer) - 1 : outer[i] \in Shell
    BY <1>2, OuterIs
  <2> DEFINE n == Len(outer) - 1
             t == SubSeq(outer, 1, n)
  <2>2. n \in Nat
    BY <1>2
  <2> HIDE DEF n
  <2>3. /\ t \in Seq(Shell)
        /\ Len(t) = IF 1 <= n THEN n - 1 + 1 ELSE 0
        /\ \A i \in 1 .. n - 1 + 1 : t[i] = outer[1 + i - 1]
    BY <2>1, <2>2, SubSeqProperties DEF n
  <2> HIDE DEF t
  <2>4. outer' = t /\ n = Len(outer) - 1
    BY <1>3 DEF n, t
  <2>5. Len(t) = n /\ \A i \in 1 .. n : t[i] = outer[i]
    BY <2>2, <2>3
  <2> QED
    BY <2>3, <2>4, <2>5
<1>5. DOMAIN outer' = 1 .. Len(outer) - 1
  BY <1>4, LenProperties
<1> QED
  BY <1>2, <1>4, <1>5, OuterIs DEF ExitShell

LEMMA ShellsTyped ==
  ASSUME TypeOK, KeysUnique, StartShell \/ ExitShell
  PROVE  TypeOK' /\ KeysUnique'
<1>1. CASE StartShell
  <2>1. env_var' \in Seq(Entry) /\ Unique(env_var')
    BY <1>1, AddShlvlType DEF StartShell, TypeOK, KeysUnique
  <2>2. outer' \in Seq(Shell) /\ Len(outer') <= MaxDepth
    BY <1>1, Pushed, OuterIs, Bounds DEF StartShell
  <2>3. \A i \in DOMAIN outer' : Unique(outer'[i].env_var)
    <3> SUFFICES ASSUME NEW i \in 1 .. Len(outer) + 1 PROVE Unique(outer'[i].env_var)
      BY <1>1, Pushed
    <3>1. CASE i \in 1 .. Len(outer)
      BY <1>1, <3>1, Pushed, OuterIs DEF KeysUnique
    <3>2. CASE i = Len(outer) + 1
      BY <1>1, <3>2, Pushed DEF KeysUnique
    <3> QED
      BY <3>1, <3>2, OuterIs
  <2>4. TypeOK'
    BY <1>1, <2>1, <2>2, LatchTypes DEF TypeOK, StartShell, LineMoves
  <2> QED
    BY <2>1, <2>3, <2>4 DEF KeysUnique
<1>2. CASE ExitShell /\ outer = <<>>
  BY <1>2 DEF ExitShell, TypeOK, KeysUnique, process, LineMoves
<1>3. CASE ExitShell /\ outer # <<>>
  <2>1. env' \in Env
    BY <1>3, LatchTypes DEF ExitShell, TypeOK, Command
  <2>2. /\ env_var' \in Seq(Entry) /\ environ' \in Seq(Entry)
        /\ cwd' \in Dirs /\ strayed' \in BOOLEAN
    BY <1>3, Popped DEF Shell
  <2>3. outer' \in Seq(Shell) /\ Len(outer') <= MaxDepth
    BY <1>3, Popped, OuterIs, Bounds DEF TypeOK
  <2>4. TypeOK'
    BY <1>3, <2>1, <2>2, <2>3 DEF ExitShell, TypeOK, LineMoves
  <2>5. Unique(env_var')
    BY <1>3, Popped, OuterIs DEF KeysUnique
  <2>6. \A i \in DOMAIN outer' : Unique(outer'[i].env_var)
    <3> SUFFICES ASSUME NEW i \in 1 .. Len(outer) - 1 PROVE Unique(outer'[i].env_var)
      BY <1>3, Popped
    <3>1. i \in DOMAIN outer
      BY OuterIs
    <3> QED
      BY <1>3, <3>1, Popped DEF KeysUnique
  <2> QED
    BY <2>4, <2>5, <2>6 DEF KeysUnique
<1> QED
  BY <1>1, <1>2, <1>3

LEMMA NextTyped == TypeOK /\ KeysUnique /\ [Next]_vars => TypeOK' /\ KeysUnique'
<1> SUFFICES ASSUME TypeOK, KeysUnique, [Next]_vars PROVE TypeOK' /\ KeysUnique'
  OBVIOUS
<1>1. CASE Next
  BY <1>1, LineTyped, ArrayTyped, ShellsTyped DEF Next, ShellStep
<1>2. CASE UNCHANGED vars
  BY <1>2 DEF vars, process, TypeOK, KeysUnique
<1> QED
  BY <1>1, <1>2

\* Every variable keeps its type, whatever is typed.
THEOREM TypeCorrect == Spec => []TypeOK
<1>1. Spec => [](TypeOK /\ KeysUnique)
  BY InitTyped, NextTyped, PTL DEF Spec
<1> QED
  BY <1>1, PTL

\* No name is in the environment twice after any sequence of builtins.
THEOREM KeysStayUnique == Spec => []KeysUnique
<1>1. Spec => [](TypeOK /\ KeysUnique)
  BY InitTyped, NextTyped, PTL DEF Spec
<1> QED
  BY <1>1, PTL

-----------------------------------------------------------------------------
(* SHLVL and PWD *)

LEMMA ShlvlAdded ==
  ASSUME NEW s \in Seq(Entry), Unique(s)
  PROVE  /\ \E n \in 0 .. MaxInt : Lookup(AddShlvl(s), "SHLVL") = {Number(n)}
         /\ Lookup(AddShlvl(s), "PWD") = Lookup(s, "PWD")
<1>1. PICK n \in 0 .. MaxInt : /\ Number(n) \in Value
                               /\ AddShlvl(s) = UpdateEnv(s, "SHLVL", Number(n))
  BY AddShlvlIs
<1>2. \A j : Lookup(AddShlvl(s), j) = IF j = "SHLVL" THEN {Number(n)} ELSE Lookup(s, j)
  BY <1>1, KnownKeys, LookupUpdateEnv
<1> QED
  BY <1>1, <1>2

\* PWD names the current directory of this shell and of the others.
PwdHere == pc # "pwd" /\ ~strayed => Lookup(env_var, "PWD") = {Text(cwd)}
OuterFollow ==
  \A i \in DOMAIN outer :
    ~outer[i].strayed => Lookup(outer[i].env_var, "PWD") = {Text(outer[i].cwd)}

LEMMA InitInherits == Init => ShlvlInRange /\ PwdHere /\ OuterFollow
<1> SUFFICES ASSUME Init PROVE ShlvlInRange /\ PwdHere /\ OuterFollow
  OBVIOUS
<1>1. environ \in Seq(Entry) /\ Unique(environ) /\ env_var = AddShlvl(environ)
  BY EnvironmentAssumption DEF Init
<1>2. ShlvlInRange
  BY <1>1, ShlvlAdded DEF ShlvlInRange
<1>3. PwdHere /\ OuterFollow
  <2>1. ~ strayed => Lookup(env_var, "PWD") = {Text(cwd)}
    BY <1>1, ShlvlAdded DEF Init
  <2>2. DOMAIN outer = {}
    BY DEF Init
  <2> QED
    BY <2>1, <2>2 DEF PwdHere, OuterFollow
<1> QED
  BY <1>2, <1>3

LEMMA NextShlvl ==
  TypeOK /\ KeysUnique /\ ShlvlInRange /\ [Next]_vars => ShlvlInRange'
<1> SUFFICES ASSUME TypeOK, KeysUnique, ShlvlInRange, [Next]_vars, pc' = "started"
             PROVE  (\E n \in 0 .. MaxInt : Lookup(env_var, "SHLVL") = {Number(n)})'
  BY DEF ShlvlInRange
<1>1. CASE StartShell
  BY <1>1, ShlvlAdded DEF StartShell, TypeOK, KeysUnique
<1>2. CASE UNCHANGED <<pc, env_var>>
  BY <1>2 DEF ShlvlInRange
<1>3. \A c \in Commands : ~ Type(c)
  <2>1. \A c \in Commands : c.kind # "started"
    BY EnvironmentAssumption DEF Command
  <2> QED
    BY <2>1 DEF Type
<1>4. CASE \E d \in Dirs : Remove(d)
  BY <1>2, <1>4 DEF Remove, process
<1>5. CASE Idle \/ UNCHANGED vars
  BY <1>2, <1>5 DEF Idle, vars, process
<1>6. CASE ShellStep
  BY <1>1, <1>6 DEF ShellStep, Started, EndOfLine, ExportArg, ExportRefused, UnsetArg,
     ArgsDone, CdRefused, Chdir, UpdatePwd, StartFails, ExitShell,
     LineMoves, ArgMoves, CdMoves
<1> QED
  BY <1>3, <1>4, <1>5, <1>6 DEF Next

\* A shell starts with a SHLVL that is a number an int holds.
THEOREM ShlvlStaysInRange == Spec => []ShlvlInRange
BY TypeCorrect, KeysStayUnique, InitInherits, NextShlvl, PTL DEF Spec

LEMMA NextPwd ==
  TypeOK /\ KeysUnique /\ PwdHere /\ OuterFollow /\ [Next]_vars => PwdHere' /\ OuterFollow'
<1> SUFFICES ASSUME TypeOK, KeysUnique, PwdHere, OuterFollow, [Next]_vars
             PROVE  PwdHere' /\ OuterFollow'
  OBVIOUS
<1>a. env_var \in Seq(Entry) /\ Unique(env_var) /\ cwd \in Dirs
  BY DEF TypeOK, KeysUnique
<1>b. PwdHere /\ OuterFollow
  OBVIOUS
<1>1. CASE UNCHANGED <<env_var, cwd, strayed, outer>> /\ pc # "pwd"
  BY <1>b, <1>1 DEF OuterFollow, PwdHere
<1>2. CASE UNCHANGED <<pc, env_var, cwd, strayed, outer>>
  BY <1>b, <1>2 DEF OuterFollow, PwdHere
<1>3. CASE UNCHANGED outer /\ (pc' = "pwd" \/ strayed')
  BY <1>b, <1>3 DEF OuterFollow, PwdHere
<1>4. CASE \E c \in Commands : Type(c)
  BY <1>1, <1>4 DEF Type
<1>5. CASE Idle \/ UNCHANGED vars \/ \E d \in Dirs : Remove(d)
  BY <1>2, <1>5 DEF Idle, vars, process, Remove
<1>6. CASE Started \/ EndOfLine \/ ExportRefused \/ ArgsDone \/ CdRefused \/ StartFails
  BY <1>1, <1>6 DEF Started, EndOfLine, ExportRefused, ArgsDone, CdRefused, StartFails,
     AtArg, LineMoves, ArgMoves, CdMoves, process
<1>7. CASE ExportArg
  <2>1. CASE ThisArg.name = "PWD"
    BY <1>3, <1>7, <2>1 DEF ExportArg, Touch, ArgMoves
  <2>2. CASE ThisArg.name # "PWD"
    <3> DEFINE v == IF ThisArg.assigns THEN ThisArg.value ELSE Text("''")
    <3>1. ThisArg.name \in Keys /\ v \in Value /\ env_var' = UpdateEnv(env_var, ThisArg.name, v)
      BY <1>7, ArgType, GivenType DEF ExportArg, AtArg
    <3>2. Lookup(env_var', "PWD") = Lookup(env_var, "PWD")
      BY <1>a, <2>2, <3>1, LookupUpdateEnv
    <3>3. UNCHANGED <<cwd, outer>> /\ (strayed' = (strayed \/ FALSE)) /\ pc # "pwd"
      BY <1>7, <2>2 DEF ExportArg, Touch, ArgMoves, AtArg
    <3> QED
      BY <1>b, <3>2, <3>3 DEF PwdHere, OuterFollow
  <2> QED
    BY <2>1, <2>2
<1>8. CASE UnsetArg
  <2>1. CASE ThisArg.name = "PWD"
    BY <1>3, <1>8, <2>1 DEF UnsetArg, Touch, ArgMoves
  <2>2. CASE ThisArg.name # "PWD"
    <3>1. Lookup(env_var', "PWD") = Lookup(env_var, "PWD")
      BY <1>8, <1>a, <2>2, LookupUnsetEnv DEF UnsetArg
    <3>2. UNCHANGED <<cwd, outer>> /\ (strayed' = (strayed \/ FALSE)) /\ pc # "pwd"
      BY <1>8, <2>2 DEF UnsetArg, Touch, ArgMoves, AtArg
    <3> QED
      BY <1>b, <3>1, <3>2 DEF PwdHere, OuterFollow
  <2> QED
    BY <2>1, <2>2
<1>9. CASE Chdir
  BY <1>3, <1>9 DEF Chdir, CdMoves, LineMoves
<1>10. CASE UpdatePwd
  <2>1. CASE cwd \in removed
    BY <1>3, <1>10, <2>1 DEF UpdatePwd, CdMoves
  <2>2. CASE cwd \notin removed
    <3>1. Text(cwd) \in Value
      BY <1>a, TextType, KnownTexts
    <3>2. Lookup(env_var', "PWD") = {Text(cwd)}
      BY <1>10, <1>a, <2>2, <3>1, KnownKeys, LookupUpdateEnv DEF UpdatePwd
    <3> QED
      BY <1>10, <1>b, <3>2 DEF UpdatePwd, CdMoves, PwdHere, OuterFollow
  <2> QED
    BY <2>1, <2>2
<1>11. CASE StartShell
  <2>1. Lookup(env_var', "PWD") = Lookup(env_var, "PWD")
    BY <1>11, <1>a, ShlvlAdded DEF StartShell
  <2>2. PwdHere'
    BY <1>11, <1>b, <2>1 DEF StartShell, PwdHere
  <2>3. ASSUME NEW i \in 1 .. Len(outer) + 1, ~ outer'[i].strayed
        PROVE  Lookup(outer'[i].env_var, "PWD") = {Text(outer'[i].cwd)}
    <3>1. CASE i \in 1 .. Len(outer)
      BY <1>11, <1>b, <2>3, <3>1, Pushed, OuterIs DEF OuterFollow
    <3>2. CASE i = Len(outer) + 1
      BY <1>11, <1>b, <2>3, <3>2, Pushed DEF StartShell, PwdHere
    <3> QED
      BY <3>1, <3>2, OuterIs
  <2>4. DOMAIN outer' = 1 .. Len(outer) + 1
    BY <1>11, Pushed
  <2> QED
    BY <2>2, <2>3, <2>4 DEF OuterFollow
<1>12. CASE ExitShell
  <2>1. CASE outer = <<>>
    BY <1>1, <1>12, <2>1 DEF ExitShell, process
  <2>2. CASE outer # <<>>
    <3>1. PwdHere'
      BY <1>12, <1>b, <2>2, Popped, OuterIs DEF OuterFollow, PwdHere
    <3>2. OuterFollow'
      <4>1. ASSUME NEW i \in 1 .. Len(outer) - 1, ~ outer'[i].strayed
            PROVE  Lookup(outer'[i].env_var, "PWD") = {Text(outer'[i].cwd)}
        <5>1. i \in DOMAIN outer /\ outer'[i] = outer[i]
          BY <1>12, <2>2, Popped, OuterIs
        <5> QED
          BY <1>b, <4>1, <5>1 DEF OuterFollow
      <4>2. DOMAIN outer' = 1 .. Len(outer) - 1
        BY <1>12, <2>2, Popped
      <4> QED
        BY <4>1, <4>2 DEF OuterFollow
    <3> QED
      BY <3>1, <3>2
  <2> QED
    BY <2>1, <2>2
<1> QED
  BY <1>4, <1>5, <1>6, <1>7, <1>8, <1>9, <1>10, <1>11, <1>12 DEF Next, ShellStep

-----------------------------------------------------------------------------
(* The loops over the arguments *)

Given(a) == IF a.assigns THEN a.value ELSE Text("''")

\* After n arguments of the command c, s is what they make of b: a name has
\* the value of the last of them that names it, or its own.
Bound(s, b, c, n) ==
  \A k \in Keys :
    /\ (\A i \in 1 .. n : c.args[i].name # k) => Lookup(s, k) = Lookup(b, k)
    /\ \A i \in 1 .. n :
         c.args[i].name = k /\ (\A j \in i + 1 .. n : c.args[j].name # k) =>
           Lookup(s, k) = IF c.kind = "unset" THEN {} ELSE {Given(c.args[i])}

\* After n arguments the latch holds the refusal of the first refused one.
Told(e, c, n) ==
  /\ (\A i \in 1 .. n : c.args[i].name \in Keys) => ~e.exit
  /\ \A i \in 1 .. n :
       c.args[i].name \notin Keys /\ (\A j \in 1 .. i - 1 : c.args[j].name \in Keys) =>
         e.exit /\ e.exit_status = Refusal(c.args[i].name)

Applied(n) ==
  /\ Bound(env_var, before, command, n)
  /\ command.kind = "export" => Told(env, command, n)

\* Which command a place of the shell belongs to, and what the arguments before
\* next have done.
ArgsInv ==
  /\ pc = "args" => /\ command.kind \in {"export", "unset"}
                    /\ next <= Len(command.args) + 1
                    /\ Applied(next - 1)
  /\ pc \in {"cd", "pwd"} => command.kind = "cd"
  /\ pc \in {"minishell", "exit"} => command.kind = pc
  /\ pc = "end" /\ command.kind \in {"export", "unset"} => Applied(Len(command.args))

LEMMA ArgsAre ==
  ASSUME TypeOK
  PROVE  /\ command.args \in Seq(Arg) /\ Len(command.args) \in Nat
         /\ DOMAIN command.args = 1 .. Len(command.args)
         /\ \A i \in 1 .. Len(command.args) : command.args[i] \in Arg
<1>1. command.args \in Seq(Arg)
  BY DEF TypeOK, Command
<1> QED
  BY <1>1, LenProperties, ElementOfSeq

LEMMA BoundNext ==
  ASSUME NEW s, NEW t, NEW b, NEW c, NEW n \in Nat,
         Bound(s, b, c, n),
         \A k \in Keys : Lookup(t, k) =
           IF c.args[n + 1].name = k
           THEN IF c.kind = "unset" THEN {} ELSE {Given(c.args[n + 1])}
           ELSE Lookup(s, k)
  PROVE  Bound(t, b, c, n + 1)
<1> SUFFICES ASSUME NEW k \in Keys
             PROVE  /\ (\A i \in 1 .. n + 1 : c.args[i].name # k) => Lookup(t, k) = Lookup(b, k)
                    /\ \A i \in 1 .. n + 1 :
                         /\ c.args[i].name = k
                         /\ \A j \in i + 1 .. n + 1 : c.args[j].name # k
                         => Lookup(t, k) = IF c.kind = "unset" THEN {} ELSE {Given(c.args[i])}
  BY DEF Bound
<1>1. CASE c.args[n + 1].name = k
  <2>1. ASSUME NEW i \in 1 .. n + 1, \A j \in i + 1 .. n + 1 : c.args[j].name # k
        PROVE  i = n + 1
    BY <1>1, <2>1
  <2>2. n + 1 \in 1 .. n + 1
    OBVIOUS
  <2> QED
    BY <1>1, <2>1, <2>2
<1>2. CASE c.args[n + 1].name # k
  <2>1. Lookup(t, k) = Lookup(s, k)
    BY <1>2
  <2>2. ASSUME \A i \in 1 .. n + 1 : c.args[i].name # k
        PROVE  Lookup(t, k) = Lookup(b, k)
    BY <2>1, <2>2 DEF Bound
  <2>3. ASSUME NEW i \in 1 .. n + 1, c.args[i].name = k,
               \A j \in i + 1 .. n + 1 : c.args[j].name # k
        PROVE  Lookup(t, k) = IF c.kind = "unset" THEN {} ELSE {Given(c.args[i])}
    <3>1. i \in 1 .. n
      BY <1>2, <2>3
    <3>2. \A j \in i + 1 .. n : c.args[j].name # k
      BY <2>3
    <3> QED
      BY <2>1, <2>3, <3>1, <3>2 DEF Bound
  <2> QED
    BY <2>2, <2>3
<1> QED
  BY <1>1, <1>2

LEMMA ToldNext ==
  ASSUME NEW e \in Env, NEW f, NEW c, NEW n \in Nat, Told(e, c, n),
         f = IF c.args[n + 1].name \in Keys THEN e
             ELSE ExitStatus(e, Refusal(c.args[n + 1].name))
  PROVE  Told(f, c, n + 1)
<1>1. CASE c.args[n + 1].name \in Keys
  <2>1. ASSUME NEW i \in 1 .. n + 1, c.args[i].name \notin Keys
        PROVE  i \in 1 .. n
    BY <1>1, <2>1
  <2>2. f = e
    BY <1>1
  <2> QED
    BY <2>1, <2>2 DEF Told
<1>2. CASE c.args[n + 1].name \notin Keys
  <2>1. f = ExitStatus(e, Refusal(c.args[n + 1].name)) /\ n + 1 \in 1 .. n + 1
    BY <1>2
  <2>2. CASE \A i \in 1 .. n : c.args[i].name \in Keys
    <3>1. ~e.exit
      BY <2>2 DEF Told
    <3>2. f.exit /\ f.exit_status = Refusal(c.args[n + 1].name)
      BY <2>1, <3>1 DEF ExitStatus
    <3>3. ASSUME NEW i \in 1 .. n + 1, c.args[i].name \notin Keys
          PROVE  i = n + 1
      BY <2>2, <3>3
    <3> QED
      BY <1>2, <2>1, <3>2, <3>3 DEF Told
  <2>3. CASE \E i \in 1 .. n : c.args[i].name \notin Keys
    <3> DEFINE T == {i \in 1 .. n : c.args[i].name \notin Keys}
    <3>1. T \in SUBSET Nat /\ T # {}
      BY <2>3
    <3>2. PICK m \in T : \A y \in T : m <= y
      BY <3>1, LeastElement
    <3>3. m \in 1 .. n /\ \A j \in 1 .. m - 1 : c.args[j].name \in Keys
      BY <3>2
    <3>4. e.exit
      BY <3>2, <3>3 DEF Told
    <3>5. f = e
      BY <2>1, <3>4 DEF ExitStatus
    <3>6. ASSUME NEW i \in 1 .. n + 1, \A j \in 1 .. i - 1 : c.args[j].name \in Keys
          PROVE  i \in 1 .. n
      <4>1. i = n + 1 => m \in 1 .. i - 1
        BY <3>3
      <4> QED
        BY <3>2, <3>6, <4>1
    <3> QED
      BY <1>2, <2>1, <3>5, <3>6 DEF Told
  <2> QED
    BY <2>2, <2>3
<1> QED
  BY <1>1, <1>2

LEMMA InitArgs == Init => ArgsInv
BY DEF Init, ArgsInv

\* One turn of ft_export or ft_unset.
LEMMA ArgApplied ==
  ASSUME TypeOK, KeysUnique, ArgsInv, ExportArg \/ ExportRefused \/ UnsetArg
  PROVE  Applied(next - 1)'
<1>1. /\ pc = "args" /\ next <= Len(command.args) /\ Applied(next - 1)
      /\ command.kind \in {"export", "unset"}
  BY DEF ExportArg, ExportRefused, UnsetArg, AtArg, ArgsInv
<1>2. UNCHANGED <<before, command>> /\ next' = next + 1
  BY DEF ExportArg, ExportRefused, UnsetArg, ArgMoves, LineMoves
<1> DEFINE n == next - 1
           a == command.args[next]
<1>3. n \in Nat /\ n + 1 = next /\ next \in 1 .. Len(command.args)
  BY <1>1, ArgsAre DEF TypeOK
<1>4. a \in Arg /\ ThisArg = a
  BY <1>3, ArgsAre DEF ThisArg
<1>5. env_var \in Seq(Entry) /\ Unique(env_var) /\ env \in Env
  BY DEF TypeOK, KeysUnique
<1>6. \A k \in Keys : Lookup(env_var', k) =
        IF a.name = k THEN IF command.kind = "unset" THEN {} ELSE {Given(a)}
        ELSE Lookup(env_var, k)
  <2>1. CASE ExportArg
    <3>1. Given(a) \in Value /\ a.name \in Keys /\ command.kind = "export"
      BY <1>4, <2>1, GivenType DEF Given, ExportArg, AtArg
    <3>2. env_var' = UpdateEnv(env_var, a.name, Given(a))
      BY <1>4, <2>1 DEF Given, ExportArg
    <3> HIDE DEF a
    <3>3. ASSUME NEW k \in Keys
          PROVE  Lookup(env_var', k) = IF k = a.name THEN {Given(a)} ELSE Lookup(env_var, k)
      <4>1. Lookup(UpdateEnv(env_var, a.name, Given(a)), k)
              = IF k = a.name THEN {Given(a)} ELSE Lookup(env_var, k)
        <5>1. CASE k = a.name
          BY <1>5, <3>1, <5>1, LookupUpdateEnv
        <5>2. CASE k # a.name
          BY <1>5, <3>1, <5>2, LookupUpdateEnv
        <5> QED
          BY <5>1, <5>2, Zenon
      <4> QED
        BY <3>2, <4>1
    <3> QED
      BY <3>1, <3>3
  <2>2. CASE ExportRefused
    BY <1>4, <2>2 DEF ExportRefused
  <2>3. CASE UnsetArg
    <3>1. command.kind = "unset" /\ env_var' = UnsetEnv(env_var, a.name)
      BY <1>4, <2>3 DEF UnsetArg, AtArg
    <3> HIDE DEF a
    <3>2. ASSUME NEW k \in Keys
          PROVE  Lookup(env_var', k) = IF k = a.name THEN {} ELSE Lookup(env_var, k)
      <4>1. Lookup(UnsetEnv(env_var, a.name), k)
              = IF k = a.name THEN {} ELSE Lookup(env_var, k)
        <5>1. CASE k = a.name
          BY <1>5, <5>1, LookupUnsetEnv
        <5>2. CASE k # a.name
          BY <1>5, <5>2, LookupUnsetEnv
        <5> QED
          BY <5>1, <5>2, Zenon
      <4> QED
        BY <3>1, <4>1
    <3> QED
      BY <3>1, <3>2
  <2> QED
    BY <2>1, <2>2, <2>3
<1>7. command.kind = "export" =>
        env' = IF a.name \in Keys THEN env ELSE ExitStatus(env, Refusal(a.name))
  BY <1>4 DEF ExportArg, ExportRefused, UnsetArg, AtArg, Report
<1>8. Bound(env_var, before, command, n) /\ (command.kind = "export" => Told(env, command, n))
  BY <1>1 DEF Applied
<1> HIDE DEF n
<1>9. Bound(env_var', before, command, n + 1)
  BY <1>3, <1>6, <1>8, BoundNext
<1>10. command.kind = "export" => Told(env', command, n + 1)
  BY <1>3, <1>5, <1>7, <1>8, ToldNext
<1>11. next' - 1 = n + 1
  BY <1>2, <1>3 DEF n
<1> QED
  BY <1>2, <1>9, <1>10, <1>11 DEF Applied

LEMMA NextArgs ==
  TypeOK /\ KeysUnique /\ ArgsInv /\ [Next]_vars => ArgsInv'
<1> SUFFICES ASSUME TypeOK, KeysUnique, ArgsInv, [Next]_vars PROVE ArgsInv'
  OBVIOUS
<1>1. CASE ExportArg \/ ExportRefused \/ UnsetArg
  <2>1. Applied(next - 1)'
    BY <1>1, ArgApplied
  <2>2. /\ pc = "args" /\ pc' = "args" /\ UNCHANGED command
        /\ next <= Len(command.args) /\ next' = next + 1
    BY <1>1 DEF ExportArg, ExportRefused, UnsetArg, AtArg, ArgMoves, LineMoves
  <2>3. next' <= Len(command.args)' + 1
    BY <2>2, ArgsAre DEF TypeOK
  <2> QED
    BY <2>1, <2>2, <2>3 DEF ArgsInv
<1>2. CASE ArgsDone
  <2>1. next - 1 = Len(command.args)
    BY <1>2, ArgsAre DEF ArgsDone, ArgsInv, TypeOK
  <2> QED
    BY <1>2, <2>1 DEF ArgsDone, ArgsInv, Applied, LineMoves, process
<1>3. ASSUME NEW c \in Commands, Type(c) PROVE ArgsInv'
  <2>1. c \in Command /\ Len(c.args) \in Nat
    BY EnvironmentAssumption, LenProperties DEF Command
  <2>2. next' - 1 = 0 /\ next' <= Len(command.args)' + 1 /\ ~env'.exit
    BY <1>3, <2>1 DEF Type, TypeOK, Env
  <2>3. /\ Bound(env_var', before', command', 0)
        /\ Told(env', command', 0)
    BY <1>3, <2>2 DEF Type, Bound, Told
  <2>4. Applied(next - 1)'
    BY <2>2, <2>3 DEF Applied
  <2>5. pc' = (IF c.kind \in {"export", "unset"} THEN "args" ELSE c.kind) /\ command' = c
    BY <1>3 DEF Type
  <2>6. c.kind \in {"export", "unset", "cd", "minishell", "exit"}
    BY <2>1 DEF Command
  <2> QED
    BY <2>2, <2>4, <2>5, <2>6 DEF ArgsInv
<1>4. CASE UNCHANGED <<pc, command, next, env_var, env, before>>
  BY <1>4 DEF ArgsInv, Applied
<1>5. CASE \/ Idle \/ UNCHANGED vars \/ \E d \in Dirs : Remove(d)
  BY <1>4, <1>5 DEF Idle, vars, process, Remove
<1>6. CASE Started \/ EndOfLine
  BY <1>6 DEF Started, EndOfLine, LineMoves, ArgsInv
<1>7. CASE CdRefused \/ Chdir \/ UpdatePwd \/ StartShell \/ StartFails \/ ExitShell
  <2>1. command.kind \notin {"export", "unset"} /\ UNCHANGED command
    BY <1>7 DEF CdRefused, Chdir, UpdatePwd, StartShell, StartFails, ExitShell,
       CdMoves, LineMoves, ArgsInv
  <2>2. pc' \in {"end", "gone", "started"} \/ (pc = "cd" /\ pc' = "pwd")
    BY <1>7 DEF CdRefused, Chdir, UpdatePwd, StartShell, StartFails, ExitShell,
       CdMoves, LineMoves
  <2> QED
    BY <2>1, <2>2 DEF ArgsInv
<1> QED
  BY <1>1, <1>2, <1>3, <1>5, <1>6, <1>7 DEF Next, ShellStep

LEMMA LastTurn ==
  ASSUME NEW n \in Nat, NEW S \in SUBSET (1 .. n), S # {}
  PROVE  LastOf(S) \in S /\ \A j \in S : j <= LastOf(S)
<1> DEFINE D == {n - i : i \in S}
<1>1. D \in SUBSET Nat /\ D # {}
  <2>1. ASSUME NEW i \in S PROVE n - i \in Nat
    OBVIOUS
  <2>2. PICK i \in S : TRUE
    OBVIOUS
  <2> QED
    BY <2>1, <2>2
<1>2. PICK x \in D : \A y \in D : x <= y
  BY <1>1, LeastElement
<1>3. PICK i \in S : x = n - i
  BY <1>2
<1>4. ASSUME NEW j \in S PROVE j <= i
  <2>1. n - i <= n - j
    BY <1>2, <1>3
  <2> QED
    BY <2>1
<1> QED
  BY <1>4 DEF LastOf

LEMMA FirstTurn ==
  ASSUME NEW S \in SUBSET Nat, S # {}
  PROVE  FirstOf(S) \in S /\ \A j \in S : FirstOf(S) <= j
BY LeastElement DEF FirstOf

LEMMA AllApplied == TypeOK /\ ArgsInv => ArgumentsApplied
<1> SUFFICES ASSUME TypeOK, ArgsInv, pc = "end", command.kind \in {"export", "unset"}
             PROVE  /\ \A k \in Keys :
                         /\ Turns(k) = {} => Lookup(env_var, k) = Lookup(before, k)
                         /\ Turns(k) # {} /\ command.kind = "unset" => Lookup(env_var, k) = {}
                         /\ Turns(k) # {} /\ command.kind = "export" =>
                              /\ Lookup(env_var, k) # {}
                              /\ LastArg(k).assigns => Lookup(env_var, k) = {LastArg(k).value}
                    /\ command.kind = "export" =>
                         /\ env.exit = (Refusals # {})
                         /\ env.exit => env.exit_status =
                              IF command.args[FirstOf(Refusals)].name = "-x" THEN 2 ELSE 1
  BY DEF ArgumentsApplied
<1> DEFINE n == Len(command.args)
<1>1. n \in Nat /\ DOMAIN command.args = 1 .. n
  BY ArgsAre
<1>2. Bound(env_var, before, command, n) /\ (command.kind = "export" => Told(env, command, n))
  BY DEF ArgsInv, Applied
<1> HIDE DEF n
<1>3. ASSUME NEW k \in Keys
      PROVE  Lookup(env_var, k) = IF Turns(k) = {} THEN Lookup(before, k)
                                  ELSE IF command.kind = "unset" THEN {}
                                  ELSE {Given(LastArg(k))}
  <2>1. Turns(k) = {i \in 1 .. n : command.args[i].name = k}
    BY <1>1 DEF Turns
  <2>2. CASE Turns(k) = {}
    BY <1>2, <2>1, <2>2 DEF Bound
  <2>3. CASE Turns(k) # {}
    <3> DEFINE last == LastOf(Turns(k))
    <3>1. last \in Turns(k) /\ \A j \in Turns(k) : j <= last
      BY <1>1, <2>1, <2>3, LastTurn
    <3> HIDE DEF last
    <3>2. /\ last \in 1 .. n /\ command.args[last].name = k
          /\ \A j \in last + 1 .. n : command.args[j].name # k
      BY <2>1, <3>1
    <3>3. Lookup(env_var, k) = IF command.kind = "unset" THEN {} ELSE {Given(command.args[last])}
      BY <1>2, <3>2 DEF Bound
    <3> QED
      BY <2>3, <3>3 DEF last, LastArg
  <2> QED
    BY <2>2, <2>3
<1>4. ASSUME command.kind = "export"
      PROVE  /\ env.exit = (Refusals # {})
             /\ env.exit => env.exit_status =
                  IF command.args[FirstOf(Refusals)].name = "-x" THEN 2 ELSE 1
  <2>1. Refusals = {i \in 1 .. n : command.args[i].name \notin Keys}
    BY <1>1 DEF Refusals
  <2>2. Told(env, command, n) /\ env.exit \in BOOLEAN
    BY <1>2, <1>4 DEF TypeOK, Env
  <2>3. CASE Refusals = {}
    BY <2>1, <2>2, <2>3 DEF Told
  <2>4. CASE Refusals # {}
    <3> DEFINE f == FirstOf(Refusals)
    <3>1. f \in Refusals /\ \A j \in Refusals : f <= j
      BY <2>1, <2>4, FirstTurn
    <3> HIDE DEF f
    <3>4. f \in 1 .. n /\ command.args[f].name \notin Keys
      BY <2>1, <3>1
    <3>5. ASSUME NEW j \in 1 .. f - 1 PROVE command.args[j].name \in Keys
      <4>1. j \in 1 .. n /\ ~(f <= j)
        BY <1>1, <3>4
      <4> QED
        BY <2>1, <3>1, <4>1
    <3>2. /\ f \in 1 .. n /\ command.args[f].name \notin Keys
          /\ \A j \in 1 .. f - 1 : command.args[j].name \in Keys
      BY <3>4, <3>5
    <3>3. env.exit /\ env.exit_status = Refusal(command.args[f].name)
      BY <2>2, <3>2 DEF Told
    <3> QED
      BY <2>4, <3>3 DEF f, Refusal
  <2> QED
    BY <2>3, <2>4
<1>5. \A k \in Keys : Turns(k) # {} /\ command.kind = "export" =>
        /\ Lookup(env_var, k) # {}
        /\ LastArg(k).assigns => Lookup(env_var, k) = {LastArg(k).value}
  BY <1>3 DEF Given
<1> QED
  BY <1>3, <1>4, <1>5

\* export gives each name the value of its last argument, unset removes the names
\* given to it, both leave all others alone, and a refused argument of export
\* sets the status and nothing else.
THEOREM ArgumentsAreApplied == Spec => []ArgumentsApplied
<1>1. Spec => []ArgsInv
  BY TypeCorrect, KeysStayUnique, InitArgs, NextArgs, PTL DEF Spec
<1> QED
  BY <1>1, TypeCorrect, AllApplied, PTL

-----------------------------------------------------------------------------
(* cd *)

\* While cd is at work PWD is as it was before the line; when it is done, it may
\* be the current directory instead.
CdInv ==
  /\ pc \in {"cd", "pwd"} => Lookup(env_var, "PWD") = Lookup(before, "PWD")
  /\ pc = "end" /\ command.kind = "cd" =>
       Lookup(env_var, "PWD") \in {Lookup(before, "PWD"), {Text(cwd)}}

LEMMA InitCd == Init => CdInv
BY DEF Init, CdInv

LEMMA NextCd ==
  TypeOK /\ KeysUnique /\ ArgsInv /\ CdInv /\ [Next]_vars => CdInv'
<1> SUFFICES ASSUME TypeOK, KeysUnique, ArgsInv, CdInv, [Next]_vars PROVE CdInv'
  OBVIOUS
<1>a. env_var \in Seq(Entry) /\ Unique(env_var) /\ cwd \in Dirs
  BY DEF TypeOK, KeysUnique
<1>1. CASE UNCHANGED <<pc, command, env_var, before, cwd>>
  BY <1>1 DEF CdInv
<1>2. CASE \/ Idle \/ UNCHANGED vars \/ \E d \in Dirs : Remove(d)
  BY <1>1, <1>2 DEF Idle, vars, process, Remove
<1>3. CASE \E c \in Commands : Type(c)
  <2>1. env_var' = env_var /\ before' = env_var
    BY <1>3 DEF Type
  <2>2. Lookup(env_var', "PWD") = Lookup(before', "PWD")
    BY <2>1
  <2> QED
    BY <2>2 DEF CdInv
<1>4. CASE ArgsDone \/ StartFails \/ ExitShell
  <2>1. command'.kind # "cd" /\ pc' \in {"end", "gone"}
    BY <1>4 DEF ArgsDone, StartFails, ExitShell, LineMoves, ArgsInv
  <2> QED
    BY <2>1 DEF CdInv
<1>5. CASE Started \/ EndOfLine \/ ExportArg \/ ExportRefused \/ UnsetArg \/ StartShell
  <2>1. pc' \in {"prompt", "args", "started"}
    BY <1>5 DEF Started, EndOfLine, ExportArg, ExportRefused, UnsetArg, StartShell,
       ArgMoves, LineMoves
  <2> QED
    BY <2>1 DEF CdInv
<1>6. CASE CdRefused
  <2>1. pc = "cd" /\ UNCHANGED <<env_var, before>>
    BY <1>6 DEF CdRefused, CdMoves, LineMoves
  <2>2. Lookup(env_var', "PWD") = Lookup(before', "PWD")
    BY <2>1 DEF CdInv
  <2> QED
    BY <2>2 DEF CdInv
<1>7. CASE Chdir
  <2>1. PICK old \in Garbage \cup {cwd} : env_var' = UpdateEnv(env_var, "OLDPWD", Text(old))
    BY <1>7 DEF Chdir
  <2>2. Text(old) \in Value
    BY <1>a, <2>1, TextType, KnownTexts
  <2>3. Lookup(env_var', "PWD") = Lookup(env_var, "PWD")
    BY <1>a, <2>1, <2>2, KnownKeys, LookupUpdateEnv
  <2>4. pc = "cd" /\ pc' = "pwd" /\ UNCHANGED before
    BY <1>7 DEF Chdir, CdMoves, LineMoves
  <2> QED
    BY <2>3, <2>4 DEF CdInv
<1>8. CASE UpdatePwd
  <2>1. pc = "pwd" /\ pc' = "end" /\ UNCHANGED <<before, cwd>>
    BY <1>8 DEF UpdatePwd, CdMoves, LineMoves
  <2>2. CASE cwd \in removed
    BY <1>8, <2>1, <2>2 DEF UpdatePwd, CdInv
  <2>3. CASE cwd \notin removed
    <3>1. Text(cwd) \in Value
      BY <1>a, TextType, KnownTexts
    <3>2. Lookup(env_var', "PWD") = {Text(cwd)}
      BY <1>8, <1>a, <2>3, <3>1, KnownKeys, LookupUpdateEnv DEF UpdatePwd
    <3> QED
      BY <2>1, <3>2 DEF CdInv
  <2> QED
    BY <2>2, <2>3
<1> QED
  BY <1>2, <1>3, <1>4, <1>5, <1>6, <1>7, <1>8 DEF Next, ShellStep

\* PWD names the current directory of every shell, unless the user or another
\* process has seen to it that it does not, and after a cd it is that or what it
\* was before.
THEOREM PwdFollowsCwd == Spec => []PwdFollows
<1>1. Spec => []ArgsInv
  BY TypeCorrect, KeysStayUnique, InitArgs, NextArgs, PTL DEF Spec
<1>2. Spec => []CdInv
  BY <1>1, TypeCorrect, KeysStayUnique, InitCd, NextCd, PTL DEF Spec
<1>3. Spec => [](PwdHere /\ OuterFollow)
  BY TypeCorrect, KeysStayUnique, InitInherits, NextPwd, PTL DEF Spec
<1>4. CdInv /\ PwdHere /\ OuterFollow => PwdFollows
  BY DEF CdInv, PwdHere, OuterFollow, PwdFollows
<1> QED
  BY <1>2, <1>3, <1>4, PTL

-----------------------------------------------------------------------------
(* The environment implements Bindings *)

bindings == Entries(env_var)
Sets(o)  == [i \in DOMAIN o |-> Entries(o[i].env_var)]
outside  == Sets(outer)

LEMMA SetsIs ==
  ASSUME NEW o \in Seq(Shell)
  PROVE  /\ Sets(o) \in Seq(SUBSET Entry) /\ Len(Sets(o)) = Len(o)
         /\ \A i \in 1 .. Len(o) : Sets(o)[i] = Entries(o[i].env_var)
<1>1. DOMAIN o = 1 .. Len(o) /\ Len(o) \in Nat /\ \A i \in 1 .. Len(o) : o[i] \in Shell
  BY LenProperties, ElementOfSeq
<1>2. \A i \in 1 .. Len(o) : Entries(o[i].env_var) \in SUBSET Entry
  BY <1>1, EntriesIn DEF Entries, Shell
<1>3. Sets(o) \in [1 .. Len(o) -> SUBSET Entry]
  BY <1>1, <1>2 DEF Sets
<1>4. Sets(o) \in Seq(SUBSET Entry)
  BY <1>1, <1>3, SeqDef
<1>5. Len(Sets(o)) \in Nat /\ 1 .. Len(Sets(o)) = 1 .. Len(o)
  BY <1>3, <1>4, LenProperties
<1>6. Len(Sets(o)) = Len(o)
  <2>1. Len(o) >= 1 => Len(o) \in 1 .. Len(Sets(o))
    BY <1>1, <1>5
  <2>2. Len(Sets(o)) >= 1 => Len(Sets(o)) \in 1 .. Len(o)
    BY <1>1, <1>5
  <2> QED
    BY <1>1, <1>5, <2>1, <2>2
<1> QED
  BY <1>1, <1>4, <1>6 DEF Sets

LEMMA OutsideIs ==
  ASSUME TypeOK, TypeOK'
  PROVE  /\ outside \in Seq(SUBSET Entry) /\ Len(outside) = Len(outer)
         /\ \A i \in 1 .. Len(outer) : outside[i] = Entries(outer[i].env_var)
         /\ outside' \in Seq(SUBSET Entry) /\ Len(outside') = Len(outer')
         /\ \A i \in 1 .. Len(outer') : outside'[i] = Entries(outer'[i].env_var)
<1>1. outside' = Sets(outer')
  BY DEF outside, Sets, Entries
<1> QED
  BY <1>1, SetsIs DEF TypeOK, outside

LEMMA InitBindings == Init => B!Init
<1> SUFFICES ASSUME Init PROVE B!Init
  OBVIOUS
<1>1. \A b, c \in Entries(env_var) : b.key = c.key => b = c
  BY InitTyped DEF KeysUnique, Unique, Entries
<1>2. [i \in DOMAIN outer |-> Entries(outer[i].env_var)] = <<>>
  BY DEF Init
<1> QED
  BY <1>1, <1>2 DEF B!Init

LEMMA SetBinding ==
  ASSUME TypeOK, KeysUnique, UNCHANGED outer,
         NEW k \in Keys, NEW v \in Value, env_var' = UpdateEnv(env_var, k, v)
  PROVE  B!Set
<1>1. Entries(env_var') = {c \in Entries(env_var) : c.key # k} \cup {Bind(k, v)}
  BY UpdateEnvIs DEF TypeOK, KeysUnique
<1>2. Entries(env_var)' = Entries(env_var')
  BY DEF Entries
<1>3. /\ Bind(k, v) \in Entries(env_var')
      /\ Entries(env_var') =
           {c \in Entries(env_var) : c.key # Bind(k, v).key} \cup {Bind(k, v)}
  BY <1>1, BindType
<1> QED
  BY <1>2, <1>3 DEF B!Set, B!Put

LEMMA UnsetBinding ==
  ASSUME TypeOK, KeysUnique, UNCHANGED outer,
         NEW k, env_var' = UnsetEnv(env_var, k)
  PROVE  [B!Next]_(B!bindingVars)
<1>1. Entries(env_var') = {c \in Entries(env_var) : c.key # k}
  BY UnsetEnvIs DEF TypeOK, KeysUnique
<1>2. \A b, c \in Entries(env_var) : b.key = c.key => b = c
  BY DEF KeysUnique, Unique, Entries
<1>3. CASE \E b \in Entries(env_var) : b.key = k
  <2>1. PICK b \in Entries(env_var) : b.key = k
    BY <1>3
  <2>2. Entries(env_var') = Entries(env_var) \ {b}
    BY <1>1, <1>2, <2>1
  <2> QED
    BY <2>2 DEF B!Unset, B!Next, Entries
<1>4. CASE ~ \E b \in Entries(env_var) : b.key = k
  <2>1. Entries(env_var') = Entries(env_var)
    BY <1>1, <1>4
  <2> QED
    BY <2>1 DEF B!bindingVars, Entries
<1> QED
  BY <1>3, <1>4

LEMMA EnterShell ==
  ASSUME TypeOK, KeysUnique, StartShell, TypeOK'
  PROVE  B!Enter
<1>1. PICK n \in 0 .. MaxInt : /\ Number(n) \in Value
                               /\ env_var' = UpdateEnv(env_var, "SHLVL", Number(n))
  BY AddShlvlIs DEF StartShell, TypeOK
<1> DEFINE b == Bind("SHLVL", Number(n))
<1>2. Entries(env_var') = {c \in Entries(env_var) : c.key # "SHLVL"} \cup {b}
  <2>1. env_var \in Seq(Entry) /\ Unique(env_var) /\ "SHLVL" \in Keys
    BY KnownKeys DEF TypeOK, KeysUnique
  <2> QED
    BY <1>1, <2>1, UpdateEnvIs
<1>3. b.key = "SHLVL"
  BY <1>1, KnownKeys, BindType
<1> HIDE DEF b
<1>4. /\ b \in Entries(env_var') /\ b.key = "SHLVL"
      /\ Entries(env_var') = {c \in Entries(env_var) : c.key # b.key} \cup {b}
  BY <1>2, <1>3
<1>5. outside' = Append(outside, bindings)
  <2>1. /\ outside \in Seq(SUBSET Entry) /\ Len(outside) = Len(outer)
        /\ \A i \in 1 .. Len(outer) : outside[i] = Entries(outer[i].env_var)
    BY OutsideIs
  <2>2. /\ outside' \in Seq(SUBSET Entry) /\ Len(outside') = Len(outer')
        /\ \A i \in 1 .. Len(outer') : outside'[i] = Entries(outer'[i].env_var)
    BY OutsideIs
  <2>3. bindings \in SUBSET Entry
    BY EntriesIn DEF TypeOK, bindings, Entries
  <2>4. /\ Append(outside, bindings) \in Seq(SUBSET Entry)
        /\ Len(Append(outside, bindings)) = Len(outside) + 1
        /\ \A i \in 1 .. Len(outside) : Append(outside, bindings)[i] = outside[i]
        /\ Append(outside, bindings)[Len(outside) + 1] = bindings
    BY <2>1, <2>3, AppendProperties
  <2>5. \A i \in 1 .. Len(outer) + 1 : outside'[i] = Append(outside, bindings)[i]
    <3>1. ASSUME NEW i \in 1 .. Len(outer)
          PROVE  outside'[i] = Append(outside, bindings)[i]
      BY <2>1, <2>2, <2>4, Pushed, OuterIs
    <3>2. outside'[Len(outer) + 1] = bindings
      BY <2>2, Pushed, OuterIs DEF bindings
    <3> QED
      BY <2>1, <2>4, <3>1, <3>2, OuterIs
  <2> QED
    BY <2>1, <2>2, <2>4, <2>5, Pushed, SeqEqual
<1> QED
  BY <1>4, <1>5 DEF B!Enter, B!Put, bindings, outside, Sets, Entries

LEMMA LeaveShell ==
  ASSUME TypeOK, KeysUnique, ExitShell, outer # <<>>, TypeOK'
  PROVE  B!Leave
<1> DEFINE n == Len(outer)
           t == SubSeq(outside, 1, n - 1)
<1>1. /\ outside \in Seq(SUBSET Entry) /\ Len(outside) = n /\ n \in Nat \ {0}
      /\ \A i \in 1 .. n : outside[i] = Entries(outer[i].env_var)
  BY OutsideIs, Popped
<1>2. /\ outside' \in Seq(SUBSET Entry) /\ Len(outside') = n - 1
      /\ \A i \in 1 .. n - 1 : outside'[i] = Entries(outer'[i].env_var)
  <2>1. /\ outside' \in Seq(SUBSET Entry) /\ Len(outside') = Len(outer')
        /\ \A i \in 1 .. Len(outer') : outside'[i] = Entries(outer'[i].env_var)
    BY OutsideIs
  <2> QED
    BY <2>1, Popped
<1>3. bindings' = outside[n] /\ outside # <<>>
  <2>1. bindings' = Entries(outer[n].env_var)
    BY Popped DEF bindings, Entries
  <2> QED
    BY <1>1, <2>1, EmptySeq
<1>4. /\ t \in Seq(SUBSET Entry) /\ Len(t) = n - 1
      /\ \A i \in 1 .. n - 1 : t[i] = outside[i]
  <2> DEFINE m == n - 1
             u == SubSeq(outside, 1, m)
  <2>1. m \in Nat
    BY <1>1
  <2>2. \A i \in 1 .. m : outside[i] \in SUBSET Entry
    BY <1>1, ElementOfSeq
  <2> HIDE DEF m
  <2>3. /\ u \in Seq(SUBSET Entry)
        /\ Len(u) = IF 1 <= m THEN m - 1 + 1 ELSE 0
        /\ \A i \in 1 .. m - 1 + 1 : u[i] = outside[1 + i - 1]
    BY <2>1, <2>2, SubSeqProperties
  <2> HIDE DEF u
  <2>4. Len(u) = m /\ \A i \in 1 .. m : u[i] = outside[i]
    BY <2>1, <2>3
  <2>5. u = t /\ m = n - 1
    BY DEF m, u
  <2> QED
    BY <2>3, <2>4, <2>5
<1>5. outside' = t
  <2>1. \A i \in 1 .. n - 1 : outside'[i] = t[i]
    BY <1>1, <1>2, <1>4, Popped
  <2> HIDE DEF t, n
  <2> QED
    BY <1>2, <1>4, <2>1, SeqEqual
<1> QED
  BY <1>1, <1>3, <1>5 DEF B!Leave, bindings, outside, Sets, Entries

LEMMA NextBindings ==
  TypeOK /\ TypeOK' /\ KeysUnique /\ [Next]_vars => [B!Next]_(B!bindingVars)
<1> SUFFICES ASSUME TypeOK, TypeOK', KeysUnique, [Next]_vars
             PROVE  [B!Next]_(B!bindingVars)
  OBVIOUS
<1>1. CASE UNCHANGED <<env_var, outer>>
  BY <1>1 DEF B!bindingVars, Entries
<1>2. CASE Idle \/ UNCHANGED vars \/ \E d \in Dirs : Remove(d)
  BY <1>1, <1>2 DEF Idle, vars, process, Remove
<1>3. CASE \E c \in Commands : Type(c)
  BY <1>1, <1>3 DEF Type
<1>4. CASE Started \/ EndOfLine \/ ExportRefused \/ ArgsDone \/ CdRefused \/ StartFails
  BY <1>1, <1>4 DEF Started, EndOfLine, ExportRefused, ArgsDone, CdRefused, StartFails,
     ArgMoves, CdMoves, process
<1>5. CASE ExportArg
  <2> DEFINE v == IF ThisArg.assigns THEN ThisArg.value ELSE Text("''")
  <2>1. /\ ThisArg.name \in Keys /\ v \in Value /\ UNCHANGED outer
        /\ env_var' = UpdateEnv(env_var, ThisArg.name, v)
    BY <1>5, ArgType, GivenType DEF ExportArg, AtArg, ArgMoves
  <2> QED
    BY <2>1, SetBinding DEF B!Next
<1>6. CASE UnsetArg
  BY <1>6, UnsetBinding DEF UnsetArg, ArgMoves
<1>7. CASE Chdir
  <2>1. PICK old \in Garbage \cup {cwd} : env_var' = UpdateEnv(env_var, "OLDPWD", Text(old))
    BY <1>7 DEF Chdir
  <2>2. Text(old) \in Value /\ UNCHANGED outer
    BY <1>7, <2>1, TextType, KnownTexts DEF Chdir, CdMoves, TypeOK
  <2> QED
    BY <2>1, <2>2, KnownKeys, SetBinding DEF B!Next
<1>8. CASE UpdatePwd
  <2>1. CASE cwd \in removed
    BY <1>1, <1>8, <2>1 DEF UpdatePwd, CdMoves
  <2>2. CASE cwd \notin removed
    <3>1. /\ Text(cwd) \in Value /\ UNCHANGED outer
          /\ env_var' = UpdateEnv(env_var, "PWD", Text(cwd))
      BY <1>8, <2>2, TextType, KnownTexts DEF UpdatePwd, CdMoves, TypeOK
    <3> QED
      BY <3>1, KnownKeys, SetBinding DEF B!Next
  <2> QED
    BY <2>1, <2>2
<1>9. CASE StartShell
  BY <1>9, EnterShell DEF B!Next
<1>10. CASE ExitShell
  <2>1. CASE outer = <<>>
    BY <1>1, <1>10, <2>1 DEF ExitShell, process
  <2>2. CASE outer # <<>>
    BY <1>10, <2>2, LeaveShell DEF B!Next
  <2> QED
    BY <2>1, <2>2
<1> QED
  BY <1>2, <1>3, <1>4, <1>5, <1>6, <1>7, <1>8, <1>9, <1>10 DEF Next, ShellStep

\* The array of strings implements Bindings: every step of a builtin sets or
\* removes one name and no other, and a shell leaves nothing behind.
THEOREM EnvironmentImplementsBindings == Spec => BindingsSpec
<1>1. Init => B!Init
  BY InitBindings
<1>2. TypeOK /\ TypeOK' /\ KeysUnique /\ [Next]_vars => [B!Next]_(B!bindingVars)
  BY NextBindings
<1> QED
  BY <1>1, <1>2, TypeCorrect, KeysStayUnique, PTL DEF Spec, BindingsSpec, B!Spec

=============================================================================
