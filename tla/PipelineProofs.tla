--------------------------- MODULE PipelineProofs ---------------------------
(***************************************************************************)
(* Theorems about execute_pipeline for pipelines of every length, every    *)
(* limit on descriptors and every set of command lists.                    *)
(***************************************************************************)
EXTENDS PipelineProperties, DescriptorsProofs, SequenceTheorems, FiniteSetTheorems

Entry == Object \cup {Closed}

\* The shell is at a command until it has launched the last one.
AtStage == spc \in {"setup", "launch", "fork", "parent"} => cur \in Stage

TypeInv == TypeOK /\ AtStage

-----------------------------------------------------------------------------
(* Operators *)

LEMMA StageProc == Stage \subseteq Proc /\ Shell \in Proc /\ Shell \notin Stage
BY PipelineAssumption DEF Stage, Proc, Shell

LEMMA EntryFacts ==
  /\ Closed \in Entry /\ Tty \in Entry
  /\ \A p \in Stage : File(p) \in Entry /\ Rd(p) \in Entry /\ Wr(p) \in Entry
BY DEF Entry, Object

LEMMA AllClosedTable == AllClosed \in Table(Entry) /\ Contents(AllClosed) \subseteq {Closed}
BY EntryFacts DEF AllClosed, Table, Contents

LEMMA RestoreTable ==
  ASSUME NEW t \in Table(Entry), NEW c
  PROVE  /\ Restore(t, c) \in Table(Entry)
         /\ Contents(Restore(t, c)) \subseteq Contents(t) \cup {Closed}
<1> DEFINE t1 == Dup2(t, c.bin, 0)
           t2 == Dup2(t1, c.bout, 1)
           t3 == Dup2(t2, c.berr, 2)
<1>1. t1 \in Table(Entry) /\ Contents(t1) \subseteq Contents(t)
  BY Dup2Table
<1>2. t2 \in Table(Entry) /\ Contents(t2) \subseteq Contents(t)
  <2> HIDE DEF t1
  <2> QED BY <1>1, Dup2Table
<1>3. t3 \in Table(Entry) /\ Contents(t3) \subseteq Contents(t)
  <2> HIDE DEF t2
  <2> QED BY <1>2, Dup2Table
<1>4. Restore(t, c) = CloseAll(t3, Backups(c))
  BY DEF Restore
<1> HIDE DEF t3
<1> QED
  BY <1>3, <1>4, CloseAllTable, EntryFacts

LEMMA RecoveredTable ==
  ASSUME NEW t \in Table(Entry), NEW c
  PROVE  /\ Recovered(t, c) \in Table(Entry)
         /\ Contents(Recovered(t, c)) \subseteq Contents(t) \cup {Closed}
<1> DEFINE u == CloseAll(t, PipeFds(c))
<1>1. u \in Table(Entry) /\ Contents(u) \subseteq Contents(t) \cup {Closed}
  BY CloseAllTable, EntryFacts
<1>2. Recovered(t, c) = Restore(u, c)
  BY DEF Recovered
<1> HIDE DEF u
<1> QED
  BY <1>1, <1>2, RestoreTable

LEMMA ContextTypes ==
  /\ NoCtx \in Ctx
  /\ \A c \in Ctx : Forgotten(c) \in Ctx
BY DEF NoCtx, Ctx, Forgotten, ForgetBackups, ForgetPipes

LEMMA ExitStatusType ==
  ASSUME NEW e \in Env, NEW c \in Codes
  PROVE  ExitStatus(e, c) \in Env
BY DEF ExitStatus, Env

-----------------------------------------------------------------------------
(* Type correctness *)

LEMMA EntryTableType ==
  ASSUME cmd \in Pipelines
  PROVE  EntryTable \in Table(Entry)
<1>1. \A f \in Fd : (\E p \in Stage : IsHeredoc(p, f)) =>
                      (CHOOSE p \in Stage : IsHeredoc(p, f)) \in Stage
  OBVIOUS
<1>2. ASSUME NEW f \in Fd
      PROVE  (IF f < 3 THEN Tty
              ELSE IF \E p \in Stage : IsHeredoc(p, f)
                   THEN File(CHOOSE p \in Stage : IsHeredoc(p, f))
                   ELSE Closed) \in Entry
  BY <1>1, EntryFacts
<1> QED
  BY <1>2 DEF EntryTable, Table

LEMMA HeredocFdType ==
  ASSUME NEW c, NEW p \in Stage
  PROVE  HeredocFd(c, p) \in Nat
<1> DEFINE Q == {q \in 1 .. p - 1 : c[q].in = "heredoc"}
<1>1. p \in Nat
  BY PipelineAssumption DEF Stage
<1>2. Cardinality(Q) \in Nat
  <2>1. IsFiniteSet(1 .. p - 1)
    BY <1>1, FS_Interval
  <2>2. IsFiniteSet(Q)
    BY <2>1, FS_Subset
  <2> QED
    BY <2>2, FS_CardinalityType
<1> QED
  BY <1>2 DEF HeredocFd

LEMMA InitType == Init => TypeInv
<1> SUFFICES ASSUME Init PROVE TypeInv
  OBVIOUS
<1>1. /\ cmd \in Pipelines /\ cur = 1 /\ spc = "setup" /\ interrupts = 0
      /\ waited = 0 /\ released = 0 /\ exit_requested = FALSE
      /\ last_pid = NoPid /\ pids = <<>>
  BY DEF Init
<1>2. fdtab \in [Proc -> Table(Entry)]
  BY EntryTableType, AllClosedTable DEF Init
<1>3. fd_in \in [Stage -> Nat]
  BY HeredocFdType DEF Init
<1>4. ctx \in [Proc -> Ctx]
  BY ContextTypes DEF Init
<1>5. env \in [Proc -> Env]
  BY PipelineAssumption DEF Init, Env
<1>6. /\ code \in [Stage -> Codes \cup {Signalled}]
      /\ buf \in [Stage -> 0 .. Capacity]
      /\ cpc \in [Stage -> ChildPc]
  BY PipelineAssumption, CodesAssumption DEF Init, ChildPc
<1>7. /\ 1 \in Stage /\ 1 \in 1 .. N + 1
      /\ 0 \in 0 .. MaxInterrupts
  BY PipelineAssumption DEF Stage
<1>8. pids \in Seq(Stage)
  BY <1>1, EmptySeq
<1> QED
  BY <1>1, <1>2, <1>3, <1>4, <1>5, <1>6, <1>7, <1>8
  DEF TypeInv, TypeOK, AtStage, Table, Entry, ShellPc

\* What each kind of update leaves well typed.
LEMMA UpdateTypes ==
  ASSUME TypeInv
  PROVE  /\ \A t \in Table(Entry) : ShellTable(t) => fdtab' \in [Proc -> Table(Entry)]
         /\ \A c \in Ctx : ShellCtx(c) => ctx' \in [Proc -> Ctx]
         /\ \A c \in Codes : Report(c) => env' \in [Proc -> Env]
         /\ cur \in Stage /\ NextCommand =>
              cur' \in 1 .. N + 1 /\ spc' \in ShellPc /\ AtStage'
         /\ fdtab[Shell] \in Table(Entry) /\ ctx[Shell] \in Ctx /\ env[Shell] \in Env
<1>1. \A c \in Codes : ExitStatus(env[Shell], c) \in Env
  BY StageProc, ExitStatusType DEF TypeInv, TypeOK
<1>2. \A c \in Codes : Report(c) => env' \in [Proc -> Env]
  BY <1>1 DEF Report, TypeInv, TypeOK
<1>3. ASSUME cur \in Stage, NextCommand
      PROVE  cur' \in 1 .. N + 1 /\ spc' \in ShellPc /\ AtStage'
  BY <1>3, PipelineAssumption DEF NextCommand, HasNext, ShellPc, AtStage, Stage
<1>4. fdtab \in [Proc -> Table(Entry)] /\ ctx \in [Proc -> Ctx] /\ env \in [Proc -> Env]
  BY DEF TypeInv, TypeOK, Table, Entry
<1>5. \A t \in Table(Entry) : ShellTable(t) => fdtab' \in [Proc -> Table(Entry)]
  BY <1>4 DEF ShellTable
<1>6. \A c \in Ctx : ShellCtx(c) => ctx' \in [Proc -> Ctx]
  BY <1>4 DEF ShellCtx
<1> QED
  BY <1>2, <1>3, <1>4, <1>5, <1>6, StageProc

LEMMA SetupPipelineType == TypeInv /\ SetupPipeline => TypeInv'
<1> SUFFICES ASSUME TypeInv, SetupPipeline PROVE TypeInv'
  OBVIOUS
<1>1. fdtab[Shell] \in Table(Entry)
  BY UpdateTypes
<1>2. PICK i \in {Dup(fdtab[Shell], 0)} : \E o \in {Dup(i.tab, 1)} :
             \E e \in {Dup(o.tab, 2)} :
               /\ ShellTable(e.tab)
               /\ ShellCtx([NoCtx EXCEPT !.bin = i.fd, !.bout = o.fd, !.berr = e.fd])
  BY DEF SetupPipeline
<1>3. PICK o \in {Dup(i.tab, 1)} : \E e \in {Dup(o.tab, 2)} :
               /\ ShellTable(e.tab)
               /\ ShellCtx([NoCtx EXCEPT !.bin = i.fd, !.bout = o.fd, !.berr = e.fd])
  BY <1>2
<1>4. PICK e \in {Dup(o.tab, 2)} :
               /\ ShellTable(e.tab)
               /\ ShellCtx([NoCtx EXCEPT !.bin = i.fd, !.bout = o.fd, !.berr = e.fd])
  BY <1>3
<1>5. i.tab \in Table(Entry) /\ i.fd \in Fd \cup {NoFd}
  BY <1>1, DupTable
<1>6. o.tab \in Table(Entry) /\ o.fd \in Fd \cup {NoFd}
  BY <1>5, DupTable
<1>7. e.tab \in Table(Entry) /\ e.fd \in Fd \cup {NoFd}
  BY <1>6, DupTable
<1>8. [NoCtx EXCEPT !.bin = i.fd, !.bout = o.fd, !.berr = e.fd] \in Ctx
  BY <1>5, <1>6, <1>7 DEF NoCtx, Ctx
<1>9. fdtab' \in [Proc -> Table(Entry)] /\ ctx' \in [Proc -> Ctx]
  BY <1>4, <1>7, <1>8, UpdateTypes
<1> QED
  BY <1>9 DEF SetupPipeline, TypeInv, TypeOK, AtStage, ShellPc, childVars, Table, Entry

LEMMA ExitType ==
  TypeInv /\ (ExitBeforeLast \/ ExitLast \/ ExitRefused) => TypeInv'
<1> SUFFICES ASSUME TypeInv, ExitBeforeLast \/ ExitLast \/ ExitRefused
             PROVE  TypeInv'
  OBVIOUS
<1> USE DEF childVars, Table, Entry
<1>1. CASE ExitBeforeLast
  BY <1>1 DEF ExitBeforeLast, TypeInv, TypeOK, AtStage, ShellPc
<1>2. CASE ExitLast
  <2>1. CloseAll(fdtab[Shell], ExitCloses) \in Table(Entry)
    BY UpdateTypes, CloseAllTable, EntryFacts
  <2>2. fdtab' \in [Proc -> Table(Entry)] /\ env' \in [Proc -> Env]
    BY <1>2, <2>1, UpdateTypes DEF ExitLast
  <2> QED
    BY <1>2, <2>2 DEF ExitLast, TypeInv, TypeOK, AtStage, ShellPc
<1>3. CASE ExitRefused
  <2>1. env' \in [Proc -> Env]
    BY <1>3, UpdateTypes, CodesAssumption DEF ExitRefused
  <2> QED
    BY <1>3, <2>1 DEF ExitRefused, TypeInv, TypeOK, AtStage, ShellPc
<1> QED
  BY <1>1, <1>2, <1>3

LEMMA GiveUpType == TypeInv /\ cur \in Stage /\ GiveUpCommand => TypeInv'
<1> SUFFICES ASSUME TypeInv, cur \in Stage, GiveUpCommand PROVE TypeInv'
  OBVIOUS
<1>1. fdtab' \in [Proc -> Table(Entry)]
  BY UpdateTypes, RecoveredTable DEF GiveUpCommand
<1>2. ctx' \in [Proc -> Ctx]
  BY UpdateTypes, ContextTypes DEF GiveUpCommand
<1>3. env' \in [Proc -> Env]
  BY UpdateTypes, CodesAssumption DEF GiveUpCommand
<1>4. cur' \in 1 .. N + 1 /\ spc' \in ShellPc /\ AtStage'
  BY UpdateTypes DEF GiveUpCommand
<1> QED
  BY <1>1, <1>2, <1>3, <1>4 DEF GiveUpCommand, TypeInv, TypeOK, childVars, Table, Entry

LEMMA CreatePipeType == TypeInv /\ CreatePipe => TypeInv'
<1> SUFFICES ASSUME TypeInv, CreatePipe PROVE TypeInv'
  OBVIOUS
<1>1. cur \in Stage
  BY DEF CreatePipe, AtCommand, TypeInv, AtStage
<1>2. PICK r \in {Alloc(fdtab[Shell], Rd(cur))} :
             \E w \in {Alloc(r.tab, Wr(cur))} :
               /\ ShellTable(w.tab)
               /\ ShellCtx([ctx[Shell] EXCEPT !.p0 = r.fd, !.p1 = w.fd])
  BY DEF CreatePipe
<1>3. PICK w \in {Alloc(r.tab, Wr(cur))} :
               /\ ShellTable(w.tab)
               /\ ShellCtx([ctx[Shell] EXCEPT !.p0 = r.fd, !.p1 = w.fd])
  BY <1>2
<1>4. r.tab \in Table(Entry) /\ r.fd \in Fd \cup {NoFd}
  BY <1>1, UpdateTypes, AllocTable, EntryFacts
<1>5. w.tab \in Table(Entry) /\ w.fd \in Fd \cup {NoFd}
  BY <1>1, <1>4, AllocTable, EntryFacts
<1>6. [ctx[Shell] EXCEPT !.p0 = r.fd, !.p1 = w.fd] \in Ctx
  BY <1>4, <1>5, UpdateTypes DEF Ctx
<1>7. fdtab' \in [Proc -> Table(Entry)] /\ ctx' \in [Proc -> Ctx]
  BY <1>3, <1>5, <1>6, UpdateTypes
<1> QED
  BY <1>1, <1>7 DEF CreatePipe, TypeInv, TypeOK, AtStage, ShellPc, childVars, Table, Entry

LEMMA ForkType == TypeInv /\ Fork => TypeInv'
<1> SUFFICES ASSUME TypeInv, Fork PROVE TypeInv'
  OBVIOUS
<1>1. cur \in Stage
  BY DEF Fork, ReadyToFork, AtCommand, TypeInv, AtStage
<1> QED
  BY <1>1, StageProc
  DEF Fork, TypeInv, TypeOK, AtStage, ShellPc, ChildPc, Setting, childVars

LEMMA ParentType == TypeInv /\ ExecuteParentProcess => TypeInv'
<1> SUFFICES ASSUME TypeInv, ExecuteParentProcess PROVE TypeInv'
  OBVIOUS
<1> DEFINE old == ctx[Shell]
           t == CloseAll(fdtab[Shell], ParentFds(old))
           c == [old EXCEPT !.prev = IF HasNext(cur) THEN old.p0 ELSE NoFd]
<1>1. cur \in Stage
  BY DEF ExecuteParentProcess, TypeInv, AtStage
<1>2. t \in Table(Entry) /\ Recovered(t, c) \in Table(Entry)
  BY UpdateTypes, CloseAllTable, RecoveredTable, EntryFacts
<1>3. c \in Ctx /\ Forgotten(c) \in Ctx
  <2>1. c \in Ctx
    BY UpdateTypes DEF Ctx
  <2> QED
    BY <2>1, ContextTypes
<1>4. pids' \in Seq(Stage) /\ last_pid' \in Stage \cup {NoPid}
  BY <1>1, AppendProperties DEF ExecuteParentProcess, TypeInv, TypeOK
<1>5. IF exit_requested
      THEN /\ ShellTable(Recovered(t, c)) /\ ShellCtx(Forgotten(c))
           /\ released' = released + 1
           /\ spc' = "cleanup" /\ cur' = cur
      ELSE /\ ShellTable(t) /\ ShellCtx(c)
           /\ NextCommand
           /\ released' = released
  BY DEF ExecuteParentProcess
<1> HIDE DEF t, c
<1>6. fdtab' \in [Proc -> Table(Entry)] /\ ctx' \in [Proc -> Ctx]
  BY <1>2, <1>3, <1>5, UpdateTypes
<1>7. released' \in Nat /\ cur' \in 1 .. N + 1 /\ spc' \in ShellPc /\ AtStage'
  BY <1>1, <1>5, UpdateTypes DEF TypeInv, TypeOK, ShellPc, AtStage
<1> QED
  BY <1>4, <1>6, <1>7
  DEF ExecuteParentProcess, TypeInv, TypeOK, childVars, Table, Entry

LEMMA CleanupType == TypeInv /\ Cleanup => TypeInv'
<1> SUFFICES ASSUME TypeInv, Cleanup PROVE TypeInv'
  OBVIOUS
<1>1. fdtab' \in [Proc -> Table(Entry)]
  BY UpdateTypes, RecoveredTable DEF Cleanup
<1>2. ctx' \in [Proc -> Ctx]
  BY UpdateTypes, ContextTypes DEF Cleanup
<1> QED
  BY <1>1, <1>2 DEF Cleanup, TypeInv, TypeOK, AtStage, ShellPc, childVars, Table, Entry

\* The child wait_for_child is at is one of the stages.
LEMMA AwaitedIsStage ==
  ASSUME TypeInv, waited < Len(pids)
  PROVE  pids[waited + 1] \in Stage
<1>1. pids \in Seq(Stage) /\ waited \in Nat
  BY DEF TypeInv, TypeOK
<1>2. waited + 1 \in 1 .. Len(pids)
  BY <1>1, LenProperties
<1> QED
  BY <1>1, <1>2, ElementOfSeq

LEMMA WaitType == TypeInv /\ (WaitForChild \/ Return) => TypeInv'
<1> SUFFICES ASSUME TypeInv, WaitForChild \/ Return PROVE TypeInv'
  OBVIOUS
<1>1. CASE WaitForChild
  <2> DEFINE p == pids[waited + 1]
  <2>1. p \in Stage
    BY <1>1, AwaitedIsStage DEF WaitForChild
  <2>2. /\ cpc' = [cpc EXCEPT ![p] = "reaped"]
        /\ IF p = last_pid /\ code[p] # Signalled
           THEN Report(code[p]) ELSE env' = env
    BY <1>1 DEF WaitForChild
  <2> HIDE DEF p
  <2>3. env' \in [Proc -> Env]
    BY <2>1, <2>2, UpdateTypes DEF TypeInv, TypeOK
  <2>4. cpc' \in [Stage -> ChildPc]
    BY <2>1, <2>2 DEF TypeInv, TypeOK, ChildPc
  <2> QED
    BY <1>1, <2>3, <2>4 DEF WaitForChild, TypeInv, TypeOK, AtStage, ShellPc
<1>2. CASE Return
  BY <1>2 DEF Return, TypeInv, TypeOK, AtStage, ShellPc, childVars
<1> QED
  BY <1>1, <1>2

LEMMA ShellStepType == TypeInv /\ ShellStep => TypeInv'
<1>1. TypeInv /\ PipeFails => TypeInv'
  BY GiveUpType DEF PipeFails, AtCommand, TypeInv, AtStage
<1>2. TypeInv /\ ForkFails => TypeInv'
  BY GiveUpType DEF ForkFails, ReadyToFork, AtCommand, TypeInv, AtStage
<1> QED
  BY <1>1, <1>2, SetupPipelineType, ExitType, CreatePipeType, ForkType, ParentType,
     CleanupType, WaitType
  DEF ShellStep

-----------------------------------------------------------------------------
(* The steps of a stage.  Alive are the places in which it can take one; all *)
(* it can add to its descriptors is the file it redirects.                   *)

Alive == ChildPc \ {"none", "zombie", "reaped"}

Effect(p) ==
  /\ cpc[p] \in Alive
  /\ \E t \in Table(Entry), pc \in Alive \cup {"zombie"} :
       /\ Moves(p, t, pc)
       /\ Contents(t) \subseteq Contents(fdtab[p]) \cup {Closed, File(p)}
  /\ ctx' \in [Proc -> Ctx] /\ env' \in [Proc -> Env]
  /\ code' \in [Stage -> Codes \cup {Signalled}]
  /\ buf' \in [Stage -> 0 .. Capacity]

LEMMA StageTypes ==
  ASSUME TypeInv, NEW p \in Stage
  PROVE  /\ p \in Proc /\ fdtab[p] \in Table(Entry) /\ ctx[p] \in Ctx /\ env[p] \in Env
         /\ ctx \in [Proc -> Ctx] /\ env \in [Proc -> Env]
         /\ code \in [Stage -> Codes \cup {Signalled}]
         /\ buf \in [Stage -> 0 .. Capacity]
BY StageProc DEF TypeInv, TypeOK, Table, Entry

LEMMA ContinueEffect ==
  ASSUME TypeInv, NEW p \in Stage, cpc[p] \in Alive,
         NEW t \in Table(Entry), NEW pc \in Alive, Continue(p, t, pc),
         Contents(t) \subseteq Contents(fdtab[p]) \cup {Closed, File(p)},
         ctx' \in [Proc -> Ctx], env' \in [Proc -> Env]
  PROVE  Effect(p)
BY StageTypes DEF Effect, Continue

LEMMA DieEffect ==
  ASSUME TypeInv, NEW p \in Stage, cpc[p] \in Alive,
         NEW c \in Codes \cup {Signalled}, Die(p, c)
  PROVE  Effect(p)
<1>1. code' \in [Stage -> Codes \cup {Signalled}]
  BY StageTypes DEF Die
<1>2. Moves(p, AllClosed, "zombie")
  BY DEF Die
<1>3. ctx' \in [Proc -> Ctx] /\ env' \in [Proc -> Env] /\ buf' \in [Stage -> 0 .. Capacity]
  BY StageTypes DEF Die
<1> QED
  BY <1>1, <1>2, <1>3, AllClosedTable DEF Effect

\* Writing -1 into the child's copy of prev_pipe_read, an error into its t_env.
LEMMA ChildUpdateTypes ==
  ASSUME TypeInv, NEW p \in Stage
  PROVE  /\ ForgetPrev(p) => ctx' \in [Proc -> Ctx]
         /\ ChildFails(p) => env' \in [Proc -> Env]
<1>1. ExitStatus(env[p], 1) \in Env
  BY StageTypes, ExitStatusType, CodesAssumption
<1>2. [ctx[p] EXCEPT !.prev = NoFd] \in Ctx
  BY StageTypes DEF Ctx
<1>3. ForgetPrev(p) => ctx' = [ctx EXCEPT ![p] = [ctx[p] EXCEPT !.prev = NoFd]]
  BY DEF ForgetPrev
<1>4. ChildFails(p) => env' = [env EXCEPT ![p] = ExitStatus(env[p], 1)]
  BY DEF ChildFails
<1> QED
  BY <1>1, <1>2, <1>3, <1>4, StageTypes

LEMMA AfterPipeTable ==
  ASSUME TypeInv, NEW p \in Stage
  PROVE  /\ AfterPipe(p) \in Table(Entry)
         /\ Contents(AfterPipe(p)) \subseteq Contents(fdtab[p]) \cup {Closed}
<1> DEFINE b == Dup(fdtab[p], 1)
           ends == {ctx[p].p0, ctx[p].p1}
           d == Dup2(b.tab, ctx[p].p1, 1)
<1>1. b.tab \in Table(Entry) /\ Contents(b.tab) \subseteq Contents(fdtab[p])
  BY StageTypes, DupTable
<1>2. \/ AfterPipe(p) = fdtab[p]
      \/ AfterPipe(p) = CloseAll(d, ends)
      \/ AfterPipe(p) = CloseAll(b.tab, ends \cup {b.fd})
  BY DEF AfterPipe
<1> HIDE DEF b, ends
<1>3. d \in Table(Entry) /\ Contents(d) \subseteq Contents(b.tab)
  BY <1>1, Dup2Table
<1> HIDE DEF d
<1>4. /\ CloseAll(d, ends) \in Table(Entry)
      /\ Contents(CloseAll(d, ends)) \subseteq Contents(fdtab[p]) \cup {Closed}
  BY <1>1, <1>3, CloseAllTable, EntryFacts
<1>5. /\ CloseAll(b.tab, ends \cup {b.fd}) \in Table(Entry)
      /\ Contents(CloseAll(b.tab, ends \cup {b.fd})) \subseteq Contents(fdtab[p]) \cup {Closed}
  BY <1>1, CloseAllTable, EntryFacts
<1> QED
  BY <1>2, <1>4, <1>5, StageTypes

LEMMA StartEffect ==
  ASSUME TypeInv, NEW p \in Stage,
         StageStart(p) \/ RedirectsPass(p) \/ RedirectFails(p)
  PROVE  Effect(p)
<1> DEFINE t == CloseAll(fdtab[p], Backups(ctx[p]))
<1>1. t \in Table(Entry) /\ Contents(t) \subseteq Contents(fdtab[p]) \cup {Closed}
  BY StageTypes, CloseAllTable, EntryFacts
<1>2. CASE StageStart(p)
  <2>1. /\ cpc[p] = "start" /\ Continue(p, t, "redirect")
        /\ ctx' = ctx /\ env' = env
    BY <1>2 DEF StageStart
  <2> HIDE DEF t
  <2> QED
    BY <1>1, <2>1, ContinueEffect, StageTypes DEF Alive, ChildPc, Setting
<1>3. CASE RedirectsPass(p)
  BY <1>3, ContinueEffect, StageTypes DEF RedirectsPass, Alive, ChildPc, Setting
<1>4. CASE RedirectFails(p)
  BY <1>4, DieEffect, CodesAssumption DEF RedirectFails, Alive, ChildPc, Setting
<1> QED
  BY <1>2, <1>3, <1>4

LEMMA InputEffect ==
  ASSUME TypeInv, NEW p \in Stage,
         InputKept(p) \/ InputFromPipe(p) \/ InputFromRedirect(p) \/ InputRedirectFails(p)
  PROVE  Effect(p)
<1> USE DEF Alive, ChildPc, Setting
<1>1. CASE InputKept(p)
  BY <1>1, ContinueEffect, StageTypes DEF InputKept
<1>2. CASE InputFromPipe(p)
  <2>1. PICK b \in {Dup(fdtab[p], 0)} :
          Continue(p, IF b.fd # NoFd
                      THEN CloseAll(Dup2(b.tab, ctx[p].prev, 0), {ctx[p].prev})
                      ELSE CloseAll(fdtab[p], PipesOf(p)),
                   "output")
    BY <1>2 DEF InputFromPipe
  <2> DEFINE d == Dup2(b.tab, ctx[p].prev, 0)
             t == IF b.fd # NoFd THEN CloseAll(d, {ctx[p].prev})
                                 ELSE CloseAll(fdtab[p], PipesOf(p))
  <2>2. b.tab \in Table(Entry) /\ Contents(b.tab) \subseteq Contents(fdtab[p])
    BY StageTypes, DupTable
  <2>3. d \in Table(Entry) /\ Contents(d) \subseteq Contents(fdtab[p])
    BY <2>2, Dup2Table
  <2>4. Continue(p, t, "output")
    BY <2>1
  <2> HIDE DEF d
  <2>5. t \in Table(Entry) /\ Contents(t) \subseteq Contents(fdtab[p]) \cup {Closed}
    BY <2>3, StageTypes, CloseAllTable, EntryFacts
  <2> HIDE DEF t
  <2>6. cpc[p] = "input" /\ ctx' \in [Proc -> Ctx] /\ env' \in [Proc -> Env]
    BY <1>2, ChildUpdateTypes, StageTypes DEF InputFromPipe
  <2> QED
    BY <2>4, <2>5, <2>6, ContinueEffect
<1>3. CASE InputFromRedirect(p)
  <2>1. PICK b \in {Dup(fdtab[p], 0)} :
          \E f \in {IF FileIn(p) THEN Alloc(b.tab, File(p))
                                 ELSE [fd |-> fd_in[p], tab |-> b.tab]} :
            Continue(p, CloseAll(Dup2(f.tab, f.fd, 0), {f.fd}), "output")
    BY <1>3 DEF InputFromRedirect
  <2>2. PICK f \in {IF FileIn(p) THEN Alloc(b.tab, File(p))
                                 ELSE [fd |-> fd_in[p], tab |-> b.tab]} :
            Continue(p, CloseAll(Dup2(f.tab, f.fd, 0), {f.fd}), "output")
    BY <2>1
  <2> DEFINE d == Dup2(f.tab, f.fd, 0)
             t == CloseAll(d, {f.fd})
  <2>3. b.tab \in Table(Entry) /\ Contents(b.tab) \subseteq Contents(fdtab[p])
    BY StageTypes, DupTable
  <2>4. f.tab \in Table(Entry) /\ Contents(f.tab) \subseteq Contents(fdtab[p]) \cup {File(p)}
    BY <2>3, AllocTable, EntryFacts
  <2>5. d \in Table(Entry) /\ Contents(d) \subseteq Contents(f.tab)
    BY <2>4, Dup2Table
  <2>6. Continue(p, t, "output")
    BY <2>2
  <2> HIDE DEF d
  <2>7. t \in Table(Entry) /\ Contents(t) \subseteq Contents(fdtab[p]) \cup {Closed, File(p)}
    BY <2>4, <2>5, CloseAllTable, EntryFacts
  <2> HIDE DEF t
  <2>8. cpc[p] = "input" /\ ctx' \in [Proc -> Ctx] /\ env' \in [Proc -> Env]
    BY <1>3, StageTypes DEF InputFromRedirect
  <2> QED
    BY <2>6, <2>7, <2>8, ContinueEffect
<1>4. CASE InputRedirectFails(p)
  <2> DEFINE t == CloseAll(fdtab[p], PipesOf(p))
  <2>1. t \in Table(Entry) /\ Contents(t) \subseteq Contents(fdtab[p]) \cup {Closed}
    BY StageTypes, CloseAllTable, EntryFacts
  <2>2. /\ cpc[p] = "input" /\ Continue(p, t, "output")
        /\ ctx' \in [Proc -> Ctx] /\ env' \in [Proc -> Env]
    BY <1>4, ChildUpdateTypes DEF InputRedirectFails
  <2> HIDE DEF t
  <2> QED
    BY <2>1, <2>2, ContinueEffect
<1> QED
  BY <1>1, <1>2, <1>3, <1>4

LEMMA OutputEffect ==
  ASSUME TypeInv, NEW p \in Stage,
         OutputDupFails(p) \/ OutputReady(p) \/ OutputToFile(p) \/ OutputFileFails(p)
  PROVE  Effect(p)
<1> USE DEF Alive, ChildPc, Setting
<1>1. CASE OutputDupFails(p)
  <2>1. env[p].exit_status \in Codes
    BY StageTypes DEF Env
  <2> QED
    BY <1>1, <2>1, DieEffect DEF OutputDupFails
<1>2. CASE OutputReady(p)
  BY <1>2, AfterPipeTable, ContinueEffect, StageTypes DEF OutputReady, CanSetOutput
<1>3. CASE OutputToFile(p)
  <2>1. PICK b \in {Dup(AfterPipe(p), 1)} : \E f \in {Alloc(b.tab, File(p))} :
          Continue(p, CloseAll(Dup2(f.tab, f.fd, 1), {f.fd}), "exec")
    BY <1>3 DEF OutputToFile
  <2>2. PICK f \in {Alloc(b.tab, File(p))} :
          Continue(p, CloseAll(Dup2(f.tab, f.fd, 1), {f.fd}), "exec")
    BY <2>1
  <2> DEFINE d == Dup2(f.tab, f.fd, 1)
             t == CloseAll(d, {f.fd})
  <2>3. b.tab \in Table(Entry) /\ Contents(b.tab) \subseteq Contents(fdtab[p]) \cup {Closed}
    BY AfterPipeTable, DupTable
  <2>4. /\ f.tab \in Table(Entry)
        /\ Contents(f.tab) \subseteq Contents(fdtab[p]) \cup {Closed, File(p)}
    BY <2>3, AllocTable, EntryFacts
  <2>5. d \in Table(Entry) /\ Contents(d) \subseteq Contents(f.tab)
    BY <2>4, Dup2Table
  <2>6. Continue(p, t, "exec")
    BY <2>2
  <2> HIDE DEF d
  <2>7. t \in Table(Entry) /\ Contents(t) \subseteq Contents(fdtab[p]) \cup {Closed, File(p)}
    BY <2>4, <2>5, CloseAllTable, EntryFacts
  <2> HIDE DEF t
  <2>8. cpc[p] = "output" /\ ctx' \in [Proc -> Ctx] /\ env' \in [Proc -> Env]
    BY <1>3, StageTypes DEF OutputToFile, CanSetOutput
  <2> QED
    BY <2>6, <2>7, <2>8, ContinueEffect
<1>4. CASE OutputFileFails(p)
  BY <1>4, AfterPipeTable, ContinueEffect, ChildUpdateTypes, StageTypes
  DEF OutputFileFails, CanSetOutput
<1> QED
  BY <1>1, <1>2, <1>3, <1>4

\* Programs leave the descriptors alone until they exit.
LEMMA ProgramEffect ==
  ASSUME TypeInv, NEW p \in Stage,
         \/ NotFound(p) \/ Exec(p) \/ NoWord(p)
         \/ EndOfInput(p) \/ WriteElsewhere(p) \/ Finish(p)
         \/ \E q \in Stage : Read(p, q) \/ Write(p, q) \/ BrokenPipe(p, q)
  PROVE  Effect(p)
<1> USE DEF Alive, ChildPc, Setting
<1>0. /\ \A c \in Codes : ExitStatus(env[p], c).exit_status \in Codes
      /\ env[p].exit_status \in Codes
      /\ {0, 1, 126, 127} \subseteq Codes
      /\ AfterWrite(p) \in {"read", "write", "finish"}
  BY StageTypes, ExitStatusType, CodesAssumption DEF Env, AfterWrite
<1>1. CASE NotFound(p)
  BY <1>0, <1>1, DieEffect DEF NotFound
<1>2. CASE Exec(p)
  BY <1>2, ContinueEffect, StageTypes DEF Exec
<1>3. CASE NoWord(p)
  BY <1>3, DieEffect DEF NoWord
<1>4. CASE EndOfInput(p)
  BY <1>0, <1>4, DieEffect DEF EndOfInput
<1>5. CASE WriteElsewhere(p)
  BY <1>0, <1>5, ContinueEffect, StageTypes DEF WriteElsewhere
<1>6. CASE Finish(p)
  <2>1. FinalCode(p) \in Codes
    BY <1>0 DEF FinalCode
  <2> QED
    BY <1>6, <2>1, DieEffect DEF Finish
<1>7. ASSUME NEW q \in Stage, NEW n \in 0 .. Capacity, NEW pc \in {"read", "write", "finish"},
             cpc[p] \in Alive, Transfer(p, q, n, pc)
      PROVE  Effect(p)
  <2>1. /\ Moves(p, fdtab[p], pc) /\ buf' \in [Stage -> 0 .. Capacity]
        /\ ctx' = ctx /\ env' = env /\ code' = code
    BY <1>7, StageTypes DEF Transfer
  <2> QED
    BY <1>7, <2>1, StageTypes DEF Effect
<1>8. ASSUME NEW q \in Stage, Read(p, q)
      PROVE  Effect(p)
  <2>1. buf[q] - 1 \in 0 .. Capacity
    BY <1>8, StageTypes, PipelineAssumption DEF Read
  <2> QED
    BY <1>7, <1>8, <2>1 DEF Read, Reads
<1>9. ASSUME NEW q \in Stage, Write(p, q)
      PROVE  Effect(p)
  <2>1. buf[q] + 1 \in 0 .. Capacity
    BY <1>9, StageTypes, PipelineAssumption DEF Write
  <2> QED
    BY <1>0, <1>7, <1>9, <2>1 DEF Write, Writes
<1>10. ASSUME NEW q \in Stage, BrokenPipe(p, q)
       PROVE  Effect(p)
  BY <1>0, <1>10, DieEffect, ContinueEffect, StageTypes DEF BrokenPipe, Writes
<1> QED
  BY <1>1, <1>2, <1>3, <1>4, <1>5, <1>6, <1>8, <1>9, <1>10

LEMMA StageEffect ==
  ASSUME TypeInv, NEW p \in Stage, StageStep(p)
  PROVE  Effect(p)
BY StartEffect, InputEffect, OutputEffect, ProgramEffect DEF StageStep

LEMMA StageStepType == TypeInv /\ (\E p \in Stage : StageStep(p)) => TypeInv'
<1> SUFFICES ASSUME TypeInv, NEW p \in Stage, StageStep(p) PROVE TypeInv'
  OBVIOUS
<1>1. Effect(p)
  BY StageEffect
<1>2. PICK t \in Table(Entry), pc \in Alive \cup {"zombie"} : Moves(p, t, pc)
  BY <1>1 DEF Effect
<1>3. fdtab' \in [Proc -> Table(Entry)] /\ cpc' \in [Stage -> ChildPc]
  BY <1>2, StageProc DEF Moves, Alive, ChildPc, Setting, TypeInv, TypeOK, Table, Entry
<1> QED
  BY <1>1, <1>2, <1>3 DEF Moves, Effect, shellVars, TypeInv, TypeOK, AtStage, Table, Entry

LEMMA InterruptType == TypeInv /\ Interrupt => TypeInv'
<1> SUFFICES ASSUME TypeInv, Interrupt PROVE TypeInv'
  OBVIOUS
<1>1. fdtab' \in [Proc -> Table(Entry)]
  BY AllClosedTable DEF Interrupt, TypeInv, TypeOK, Table, Entry
<1>2. cpc' \in [Stage -> ChildPc] /\ code' \in [Stage -> Codes \cup {Signalled}]
  BY DEF Interrupt, TypeInv, TypeOK, ChildPc
<1>3. interrupts' \in 0 .. MaxInterrupts
  BY PipelineAssumption DEF Interrupt, TypeInv, TypeOK
<1> QED
  BY <1>1, <1>2, <1>3 DEF Interrupt, TypeInv, TypeOK, AtStage, shellVars, Table, Entry

LEMMA NextType == TypeInv /\ [Next]_vars => TypeInv'
<1>1. TypeInv /\ UNCHANGED vars => TypeInv'
  BY DEF TypeInv, TypeOK, AtStage, vars, shellVars, childVars
<1> QED
  BY <1>1, ShellStepType, StageStepType, InterruptType DEF Next, Over

\* Every variable keeps its type: descriptors, contexts and statuses stay in
\* their ranges and no pipe holds more than it can, whatever the interleaving.
THEOREM TypeCorrect == Spec => []TypeOK
<1>1. Spec => []TypeInv
  BY InitType, NextType, PTL DEF Spec
<1>2. TypeInv => TypeOK
  BY DEF TypeInv
<1> QED
  BY <1>1, <1>2, PTL

-----------------------------------------------------------------------------
(* Write ends.  WriteEndsConfined is not inductive: when the shell closes    *)
(* pipefd[1] after a fork, its other descriptors must not be write ends      *)
(* either, so the invariant says where in the shell's table a write end is.  *)

StagesHoldOwn == \A p \in Stage, q \in Stage : Holds(p, Wr(q)) => p = q

ShellHoldsOne ==
  \A f \in Fd, q \in Stage :
    fdtab[Shell][f] = Wr(q) =>
      /\ spc \in {"fork", "parent"} /\ q = cur
      /\ HasNext(cur) /\ f = ctx[Shell].p1

WriteInv == StagesHoldOwn /\ ShellHoldsOne

NoWriteEnd(t) == \A q \in Stage : Wr(q) \notin Contents(t)

LEMMA WriteEndsDiffer ==
  \A q \in Stage :
    /\ Wr(q) # Closed /\ Wr(q) # Tty
    /\ \A p \in Stage : /\ Wr(q) # File(p) /\ Wr(q) # Rd(p)
                        /\ Wr(q) = Wr(p) => q = p
BY DEF Wr, Closed, Tty, File, Rd

LEMMA ShellClean ==
  ASSUME ShellHoldsOne, spc \notin {"fork", "parent"}
  PROVE  NoWriteEnd(fdtab[Shell])
BY DEF ShellHoldsOne, NoWriteEnd, Contents

\* A step that adds no write end to a shell table without any.
LEMMA ShellStaysClean ==
  ASSUME TypeInv, WriteInv, NEW t, ShellTable(t), NoWriteEnd(t)
  PROVE  WriteInv'
<1>1. fdtab'[Shell] = t /\ \A p \in Stage : fdtab'[p] = fdtab[p]
  BY StageProc DEF ShellTable, TypeInv, TypeOK
<1> QED
  BY <1>1 DEF WriteInv, StagesHoldOwn, ShellHoldsOne, NoWriteEnd, Contents, Holds

LEMMA InitWrite == Init => WriteInv
<1> SUFFICES ASSUME Init PROVE WriteInv
  OBVIOUS
<1>1. /\ fdtab[Shell] = EntryTable
      /\ \A p \in Stage : fdtab[p] = AllClosed
  BY StageProc DEF Init
<1>2. \A f \in Fd, q \in Stage : EntryTable[f] # Wr(q)
  <2> SUFFICES ASSUME NEW f \in Fd, NEW q \in Stage PROVE EntryTable[f] # Wr(q)
    OBVIOUS
  <2>1. CASE \E p \in Stage : IsHeredoc(p, f)
    <3>1. (CHOOSE p \in Stage : IsHeredoc(p, f)) \in Stage
      BY <2>1
    <3> QED
      BY <2>1, <3>1, WriteEndsDiffer DEF EntryTable
  <2>2. CASE ~ \E p \in Stage : IsHeredoc(p, f)
    BY <2>2, WriteEndsDiffer DEF EntryTable
  <2> QED
    BY <2>1, <2>2
<1>3. \A f \in Fd, q \in Stage : AllClosed[f] # Wr(q)
  BY WriteEndsDiffer DEF AllClosed
<1> QED
  BY <1>1, <1>2, <1>3 DEF WriteInv, StagesHoldOwn, ShellHoldsOne, Holds

LEMMA SetupWrite == TypeInv /\ WriteInv /\ SetupPipeline => WriteInv'
<1> SUFFICES ASSUME TypeInv, WriteInv, SetupPipeline PROVE WriteInv'
  OBVIOUS
<1>1. fdtab[Shell] \in Table(Entry) /\ NoWriteEnd(fdtab[Shell])
  BY UpdateTypes, ShellClean DEF SetupPipeline, WriteInv
<1>2. PICK i \in {Dup(fdtab[Shell], 0)} : \E o \in {Dup(i.tab, 1)} :
             \E e \in {Dup(o.tab, 2)} : ShellTable(e.tab)
  BY DEF SetupPipeline
<1>3. PICK o \in {Dup(i.tab, 1)} : \E e \in {Dup(o.tab, 2)} : ShellTable(e.tab)
  BY <1>2
<1>4. PICK e \in {Dup(o.tab, 2)} : ShellTable(e.tab)
  BY <1>3
<1>5. i.tab \in Table(Entry) /\ NoWriteEnd(i.tab)
  BY <1>1, DupTable DEF NoWriteEnd
<1>6. o.tab \in Table(Entry) /\ NoWriteEnd(o.tab)
  BY <1>5, DupTable DEF NoWriteEnd
<1>7. NoWriteEnd(e.tab)
  BY <1>6, DupTable DEF NoWriteEnd
<1> QED
  BY <1>4, <1>7, ShellStaysClean

LEMMA ExitWrite ==
  TypeInv /\ WriteInv /\ (ExitBeforeLast \/ ExitLast \/ ExitRefused) => WriteInv'
<1> SUFFICES ASSUME TypeInv, WriteInv, ExitBeforeLast \/ ExitLast \/ ExitRefused
             PROVE  WriteInv'
  OBVIOUS
<1>1. fdtab[Shell] \in Table(Entry) /\ NoWriteEnd(fdtab[Shell])
  BY UpdateTypes, ShellClean DEF ExitBeforeLast, ExitLast, ExitRefused, AtExit, WriteInv
<1>2. CASE ExitLast
  <2>1. NoWriteEnd(CloseAll(fdtab[Shell], ExitCloses))
    BY <1>1, CloseAllTable, EntryFacts, WriteEndsDiffer DEF NoWriteEnd
  <2> QED
    BY <1>2, <2>1, ShellStaysClean DEF ExitLast
<1>3. CASE fdtab' = fdtab
  BY <1>1, <1>3
  DEF WriteInv, StagesHoldOwn, ShellHoldsOne, NoWriteEnd, Contents, Holds
<1> QED
  BY <1>2, <1>3 DEF ExitBeforeLast, ExitRefused

LEMMA CreatePipeWrite == TypeInv /\ WriteInv /\ CreatePipe => WriteInv'
<1> SUFFICES ASSUME TypeInv, WriteInv, CreatePipe PROVE WriteInv'
  OBVIOUS
<1>1. cur \in Stage /\ NoWriteEnd(fdtab[Shell]) /\ fdtab[Shell] \in Table(Entry)
  BY UpdateTypes, ShellClean DEF CreatePipe, AtCommand, TypeInv, AtStage, WriteInv
<1>2. PICK r \in {Alloc(fdtab[Shell], Rd(cur))} :
             \E w \in {Alloc(r.tab, Wr(cur))} :
               /\ w.fd # NoFd
               /\ ShellTable(w.tab)
               /\ ShellCtx([ctx[Shell] EXCEPT !.p0 = r.fd, !.p1 = w.fd])
  BY DEF CreatePipe
<1>3. PICK w \in {Alloc(r.tab, Wr(cur))} :
               /\ w.fd # NoFd
               /\ ShellTable(w.tab)
               /\ ShellCtx([ctx[Shell] EXCEPT !.p0 = r.fd, !.p1 = w.fd])
  BY <1>2
<1>4. NoWriteEnd(r.tab) /\ r.tab \in Table(Entry)
  BY <1>1, AllocTable, EntryFacts, WriteEndsDiffer DEF NoWriteEnd
<1>5. \A f \in Fd, q \in Stage : w.tab[f] = Wr(q) => q = cur /\ f = w.fd
  <2>1. PICK g \in Fd : w = [fd |-> g, tab |-> [r.tab EXCEPT ![g] = Wr(cur)]]
    BY <1>3, AllocEffect
  <2> QED
    BY <1>1, <1>4, <2>1, WriteEndsDiffer DEF NoWriteEnd, Contents, Table
<1>6. ctx'[Shell].p1 = w.fd
  BY <1>3, UpdateTypes, StageProc DEF ShellCtx, Ctx, TypeInv, TypeOK
<1>7. /\ fdtab'[Shell] = w.tab /\ \A p \in Stage : fdtab'[p] = fdtab[p]
      /\ spc' = "fork" /\ cur' = cur /\ HasNext(cur)
  BY <1>3, StageProc DEF CreatePipe, ShellTable, TypeInv, TypeOK
<1> QED
  BY <1>5, <1>6, <1>7 DEF WriteInv, StagesHoldOwn, ShellHoldsOne, Holds, HasNext

\* Closing pipefd[1] leaves the shell without a write end.
LEMMA CloseWriteEnd ==
  ASSUME TypeInv, WriteInv, NEW F, HasNext(cur) => ctx[Shell].p1 \in F
  PROVE  NoWriteEnd(CloseAll(fdtab[Shell], F))
BY WriteEndsDiffer DEF NoWriteEnd, Contents, CloseAll, WriteInv, ShellHoldsOne

LEMMA RecoverWrite ==
  ASSUME TypeInv, WriteInv
  PROVE  NoWriteEnd(Recovered(fdtab[Shell], ctx[Shell]))
<1> DEFINE t == CloseAll(fdtab[Shell], PipeFds(ctx[Shell]))
<1>1. NoWriteEnd(t)
  BY CloseWriteEnd DEF PipeFds
<1>2. t \in Table(Entry)
  BY UpdateTypes, CloseAllTable, EntryFacts
<1>3. Recovered(fdtab[Shell], ctx[Shell]) = Restore(t, ctx[Shell])
  BY DEF Recovered
<1> HIDE DEF t
<1> QED
  BY <1>1, <1>2, <1>3, RestoreTable, WriteEndsDiffer DEF NoWriteEnd

LEMMA GiveUpWrite ==
  TypeInv /\ WriteInv /\ (GiveUpCommand \/ Cleanup) => WriteInv'
BY RecoverWrite, ShellStaysClean DEF GiveUpCommand, Cleanup

LEMMA ForkWrite == TypeInv /\ WriteInv /\ Fork => WriteInv'
<1> SUFFICES ASSUME TypeInv, WriteInv, Fork PROVE WriteInv'
  OBVIOUS
<1>1. cur \in Stage /\ cur' = cur /\ spc' = "parent"
  BY DEF Fork, ReadyToFork, AtCommand, TypeInv, AtStage
<1>2. /\ fdtab'[Shell] = fdtab[Shell] /\ fdtab'[cur] = fdtab[Shell]
      /\ \A p \in Stage : p # cur => fdtab'[p] = fdtab[p]
      /\ ctx'[Shell] = ctx[Shell]
  BY <1>1, StageProc DEF Fork, TypeInv, TypeOK
<1>3. StagesHoldOwn'
  BY <1>1, <1>2 DEF WriteInv, StagesHoldOwn, ShellHoldsOne, Holds
<1>4. ShellHoldsOne'
  BY <1>1, <1>2 DEF WriteInv, ShellHoldsOne, HasNext
<1> QED
  BY <1>3, <1>4 DEF WriteInv

LEMMA ParentWrite == TypeInv /\ WriteInv /\ ExecuteParentProcess => WriteInv'
<1> SUFFICES ASSUME TypeInv, WriteInv, ExecuteParentProcess PROVE WriteInv'
  OBVIOUS
<1> DEFINE t == CloseAll(fdtab[Shell], ParentFds(ctx[Shell]))
<1>1. t \in Table(Entry)
  BY UpdateTypes, CloseAllTable, EntryFacts
<1>2. NoWriteEnd(t)
  BY CloseWriteEnd DEF ParentFds
<1>3. ShellTable(t) \/ \E c : ShellTable(Recovered(t, c))
  BY DEF ExecuteParentProcess
<1> HIDE DEF t
<1>4. \A c : NoWriteEnd(Recovered(t, c))
  BY <1>1, <1>2, RecoveredTable, WriteEndsDiffer DEF NoWriteEnd
<1> QED
  BY <1>2, <1>3, <1>4, ShellStaysClean

LEMMA ShellKeepsWrite ==
  TypeInv /\ WriteInv /\ (WaitForChild \/ Return) => WriteInv'
BY DEF WaitForChild, Return, WriteInv, StagesHoldOwn, ShellHoldsOne, Holds

LEMMA StageStepWrite ==
  TypeInv /\ WriteInv /\ (\E p \in Stage : StageStep(p)) => WriteInv'
<1> SUFFICES ASSUME TypeInv, WriteInv, NEW p \in Stage, StageStep(p) PROVE WriteInv'
  OBVIOUS
<1>1. PICK t \in Table(Entry), pc \in Alive \cup {"zombie"} :
        /\ Moves(p, t, pc)
        /\ Contents(t) \subseteq Contents(fdtab[p]) \cup {Closed, File(p)}
  BY StageEffect DEF Effect
<1>2. /\ fdtab'[p] = t /\ \A r \in Proc : r # p => fdtab'[r] = fdtab[r]
      /\ spc' = spc /\ cur' = cur
  BY <1>1, StageProc DEF Moves, shellVars, TypeInv, TypeOK
<1>3. ctx'[Shell] = ctx[Shell]
  BY StageProc
  DEF StageStep, StageStart, RedirectsPass, RedirectFails, InputKept, InputFromPipe,
      InputFromRedirect, InputRedirectFails, OutputDupFails, OutputReady, OutputToFile,
      OutputFileFails, NotFound, Exec, NoWord, EndOfInput, WriteElsewhere, Finish, Read,
      Write, BrokenPipe, Transfer, Die, ForgetPrev, TypeInv, TypeOK
<1>4. \A q \in Stage : Wr(q) \in Contents(t) => Wr(q) \in Contents(fdtab[p])
  BY <1>1, WriteEndsDiffer
<1>5. StagesHoldOwn'
  BY <1>2, <1>4, StageProc DEF WriteInv, StagesHoldOwn, Holds, Contents
<1>6. ShellHoldsOne'
  BY <1>2, <1>3, StageProc DEF WriteInv, ShellHoldsOne, HasNext
<1> QED
  BY <1>5, <1>6 DEF WriteInv

LEMMA InterruptWrite == TypeInv /\ WriteInv /\ Interrupt => WriteInv'
<1> SUFFICES ASSUME TypeInv, WriteInv, Interrupt PROVE WriteInv'
  OBVIOUS
<1>1. /\ fdtab'[Shell] = fdtab[Shell]
      /\ \A p \in Stage : fdtab'[p] = AllClosed \/ fdtab'[p] = fdtab[p]
      /\ spc' = spc /\ cur' = cur /\ ctx' = ctx
  BY StageProc DEF Interrupt, Interruptible, shellVars
<1>2. \A f \in Fd, q \in Stage : AllClosed[f] # Wr(q)
  BY WriteEndsDiffer DEF AllClosed
<1> QED
  BY <1>1, <1>2 DEF WriteInv, StagesHoldOwn, ShellHoldsOne, Holds, HasNext

LEMMA NextWrite == TypeInv /\ WriteInv /\ [Next]_vars => WriteInv'
<1>1. TypeInv /\ WriteInv /\ UNCHANGED vars => WriteInv'
  BY DEF vars, shellVars, WriteInv, StagesHoldOwn, ShellHoldsOne, Holds
<1>2. TypeInv /\ WriteInv /\ ShellStep => WriteInv'
  BY SetupWrite, ExitWrite, CreatePipeWrite, GiveUpWrite, ForkWrite, ParentWrite,
     ShellKeepsWrite
  DEF ShellStep, PipeFails, ForkFails
<1> QED
  BY <1>1, <1>2, StageStepWrite, InterruptWrite DEF Next, Over

\* Only the writer keeps the write end of a pipe, so its reader sees the end of
\* the input: neither fork's copies, nor redirections, nor failures of pipe,
\* fork, dup and dup2 leave another one open.
THEOREM WriteEndsStayConfined == Spec => []WriteEndsConfined
<1>1. Spec => [](TypeInv /\ WriteInv)
  BY InitType, NextType, InitWrite, NextWrite, PTL DEF Spec
<1>2. TypeInv /\ WriteInv => WriteEndsConfined
  <2> SUFFICES ASSUME WriteInv, NEW q \in Stage, NEW p \in Proc, Holds(p, Wr(q))
               PROVE  p = q \/ (p = Shell /\ cur = q /\ spc \in {"fork", "parent"})
    BY DEF WriteEndsConfined
  <2>1. CASE p \in Stage
    BY <2>1 DEF WriteInv, StagesHoldOwn
  <2>2. CASE p = Shell
    BY <2>2 DEF WriteInv, ShellHoldsOne, Holds
  <2>3. p = Shell \/ p \in Stage
    BY PipelineAssumption DEF Proc, Stage, Shell
  <2> QED
    BY <2>1, <2>2, <2>3
<1> QED
  BY <1>1, <1>2, PTL

-----------------------------------------------------------------------------
(* The pipeline implements Job.                                              *)

\* No command from the current one on has been forked.
FutureUnforked ==
  \A p \in Stage :
    /\ spc \in {"setup", "launch", "fork"} /\ p >= cur => cpc[p] = "none"
    /\ spc = "parent" /\ p > cur => cpc[p] = "none"

\* is_exit_request in process_pipeline is never reached: no loop turn follows
\* an exit.
ExitEndsLaunching ==
  /\ exit_requested => spc \in {"cleanup", "return", "done"}
  /\ spc = "return" => exit_requested

\* Every child is on record, those before waited have been reaped.
ChildrenOnRecord ==
  /\ \A p \in Stage : Launched(p) =>
       (\E i \in 1 .. Len(pids) : pids[i] = p) \/ (spc = "parent" /\ p = cur)
  /\ \A i \in 1 .. Len(pids) : i <= waited => cpc[pids[i]] = "reaped"
  /\ waited <= Len(pids)

JobInv == FutureUnforked /\ ExitEndsLaunching /\ ChildrenOnRecord

LEMMA InitJob == Init => JobInv /\ J!Init
BY EmptySeq, PipelineAssumption
DEF Init, JobInv, FutureUnforked, ExitEndsLaunching, ChildrenOnRecord, J!Init, Launched,
    Exited

\* What the step of a stage means for the job: nothing, or that it exits.
StageProgress(p) ==
  /\ UNCHANGED shellVars
  /\ cpc[p] \in Alive
  /\ \E pc \in Alive \cup {"zombie"} : cpc' = [cpc EXCEPT ![p] = pc]

LEMMA StageProgresses ==
  ASSUME TypeInv, NEW p \in Stage, StageStep(p)
  PROVE  StageProgress(p)
BY StageEffect DEF Effect, Moves, StageProgress

LEMMA ShellLaunchesJob ==
  ASSUME TypeInv, JobInv,
         SetupPipeline \/ ExitBeforeLast \/ ExitLast \/ ExitRefused \/ CreatePipe
           \/ (cur \in Stage /\ spc \in {"launch", "fork"} /\ GiveUpCommand) \/ Cleanup
  PROVE  JobInv' /\ [J!Next]_J!jobVars
<1> USE DEF childVars, JobInv, FutureUnforked, ExitEndsLaunching, ChildrenOnRecord,
            Launched, Exited
<1>1. CASE SetupPipeline
  BY <1>1 DEF SetupPipeline, J!jobVars
<1>2. CASE ExitBeforeLast
  BY <1>2 DEF ExitBeforeLast, AtExit, J!jobVars, J!Next, J!StopLaunching
<1>3. CASE ExitLast
  BY <1>3 DEF ExitLast, AtExit, J!jobVars, J!Next, J!StopLaunching
<1>4. CASE ExitRefused
  BY <1>4 DEF ExitRefused, AtExit, J!jobVars, J!Next, J!StopLaunching, TypeInv, TypeOK
<1>5. CASE CreatePipe
  BY <1>5 DEF CreatePipe, AtCommand, J!jobVars
<1>6. CASE cur \in Stage /\ spc \in {"launch", "fork"} /\ GiveUpCommand
  <2>1. \/ spc' = "launch" /\ cur' = cur + 1
        \/ spc' = "cleanup"
    BY <1>6 DEF GiveUpCommand, NextCommand
  <2>2. cpc' = cpc /\ exit_requested' = exit_requested /\ pids' = pids /\ waited' = waited
    BY <1>6 DEF GiveUpCommand
  <2>3. JobInv'
    BY <1>6, <2>1, <2>2, PipelineAssumption DEF Stage
  <2>4. [J!Next]_J!jobVars
    BY <1>6, <2>1, <2>2 DEF J!jobVars, J!Next, J!StopLaunching, TypeInv, TypeOK
  <2> QED
    BY <2>3, <2>4
<1>7. CASE Cleanup
  BY <1>7 DEF Cleanup, J!jobVars
<1> QED
  BY <1>1, <1>2, <1>3, <1>4, <1>5, <1>6, <1>7

LEMMA ForkLaunchesJob == TypeInv /\ JobInv /\ Fork => JobInv' /\ J!Next
<1> SUFFICES ASSUME TypeInv, JobInv, Fork PROVE JobInv' /\ J!Next
  OBVIOUS
<1>1. cur \in Stage /\ spc \in {"launch", "fork"} /\ ~exit_requested
  BY DEF Fork, ReadyToFork, AtCommand, TypeInv, AtStage, JobInv, ExitEndsLaunching
<1>2. /\ cpc[cur] = "none" /\ cpc' = [cpc EXCEPT ![cur] = "start"]
      /\ cpc \in [Stage -> ChildPc]
  BY <1>1, PipelineAssumption DEF Fork, JobInv, FutureUnforked, TypeInv, TypeOK, Stage
<1>3. /\ spc' = "parent" /\ cur' = cur /\ pids' = pids /\ waited' = waited
      /\ exit_requested' = exit_requested
  BY DEF Fork
<1>4. FutureUnforked'
  BY <1>1, <1>2, <1>3, PipelineAssumption DEF JobInv, FutureUnforked, Stage
<1>5. ChildrenOnRecord'
  <2>1. \A i \in 1 .. Len(pids) : i <= waited => pids[i] # cur
    BY <1>2 DEF JobInv, ChildrenOnRecord
  <2>2. \A i \in 1 .. Len(pids) : pids[i] \in Stage
    BY ElementOfSeq DEF TypeInv, TypeOK
  <2> QED
    BY <1>1, <1>2, <1>3, <2>1, <2>2 DEF JobInv, ChildrenOnRecord, Launched
<1>6. J!Launch(cur)
  <2>1. {p \in Stage : Launched(p)}' = {p \in Stage : Launched(p)} \cup {cur}
    BY <1>1, <1>2 DEF Launched
  <2>2. /\ {p \in Stage : Exited(p)}' = {p \in Stage : Exited(p)}
        /\ {p \in Stage : cpc[p] = "reaped"}' = {p \in Stage : cpc[p] = "reaped"}
    BY <1>1, <1>2 DEF Exited
  <2> QED
    BY <1>1, <1>2, <1>3, <2>1, <2>2 DEF J!Launch, Launched
<1> QED
  BY <1>1, <1>3, <1>4, <1>5, <1>6 DEF J!Next, JobInv, ExitEndsLaunching

LEMMA ParentRecordsJob ==
  TypeInv /\ JobInv /\ ExecuteParentProcess => JobInv' /\ [J!Next]_J!jobVars
<1> SUFFICES ASSUME TypeInv, JobInv, ExecuteParentProcess
             PROVE  JobInv' /\ [J!Next]_J!jobVars
  OBVIOUS
<1>1. cur \in Stage /\ spc = "parent" /\ exit_requested = FALSE
  BY DEF ExecuteParentProcess, TypeInv, TypeOK, AtStage, JobInv, ExitEndsLaunching
<1>2. /\ pids' = Append(pids, cur) /\ NextCommand
      /\ cpc' = cpc /\ waited' = waited /\ exit_requested' = FALSE
  BY <1>1 DEF ExecuteParentProcess, childVars
<1>3. \/ spc' = "launch" /\ cur' = cur + 1
      \/ spc' = "cleanup"
  BY <1>2 DEF NextCommand
<1>4. FutureUnforked'
  BY <1>1, <1>2, <1>3, PipelineAssumption DEF JobInv, FutureUnforked, Stage
<1>5. ChildrenOnRecord'
  <2>1. /\ Len(pids') = Len(pids) + 1 /\ pids'[Len(pids) + 1] = cur
        /\ \A i \in 1 .. Len(pids) : pids'[i] = pids[i]
        /\ Len(pids) \in Nat /\ waited \in Nat
    BY <1>1, <1>2, AppendProperties, LenProperties DEF TypeInv, TypeOK
  <2>2. \A i \in 1 .. Len(pids') : i = Len(pids) + 1 \/ i \in 1 .. Len(pids)
    BY <2>1
  <2>3. ASSUME NEW p \in Stage, Launched(p)
        PROVE  \E i \in 1 .. Len(pids') : pids'[i] = p
    BY <1>1, <2>1, <2>3 DEF JobInv, ChildrenOnRecord
  <2> QED
    BY <1>2, <2>1, <2>2, <2>3 DEF JobInv, ChildrenOnRecord, Launched
<1>6. [J!Next]_J!jobVars
  BY <1>1, <1>2, <1>3
  DEF J!jobVars, J!Next, J!StopLaunching, Launched, Exited
<1> QED
  BY <1>2, <1>3, <1>4, <1>5, <1>6 DEF JobInv, ExitEndsLaunching

LEMMA WaitReapsJob == TypeInv /\ JobInv /\ WaitForChild => JobInv' /\ J!Next
<1> SUFFICES ASSUME TypeInv, JobInv, WaitForChild PROVE JobInv' /\ J!Next
  OBVIOUS
<1>0. PICK c \in Stage : c = pids[waited + 1]
  BY AwaitedIsStage DEF WaitForChild
<1>1. /\ cpc[c] = "zombie" /\ cpc' = [cpc EXCEPT ![c] = "reaped"]
      /\ spc = "wait" /\ spc' = "wait" /\ waited' = waited + 1
      /\ waited < Len(pids)
      /\ UNCHANGED <<exit_requested, pids, cur>>
  BY <1>0 DEF WaitForChild
<1>2. /\ cpc \in [Stage -> ChildPc] /\ waited \in Nat /\ Len(pids) \in Nat
      /\ \A i \in 1 .. Len(pids) : pids[i] \in Stage
      /\ ~exit_requested
  BY <1>1, ElementOfSeq, LenProperties
  DEF TypeInv, TypeOK, JobInv, ExitEndsLaunching
<1>3. \A i \in 1 .. Len(pids) : i <= waited + 1 => i <= waited \/ pids[i] = c
  BY <1>0, <1>2
<1>4. ChildrenOnRecord'
  BY <1>1, <1>2, <1>3 DEF JobInv, ChildrenOnRecord, Launched
<1>5. J!Reap(c)
  <2>1. {p \in Stage : cpc[p] = "reaped"}' = {p \in Stage : cpc[p] = "reaped"} \cup {c}
    BY <1>1, <1>2
  <2>2. /\ {p \in Stage : Exited(p)}' = {p \in Stage : Exited(p)}
        /\ {p \in Stage : Launched(p)}' = {p \in Stage : Launched(p)}
    BY <1>1, <1>2 DEF Exited, Launched
  <2> QED
    BY <1>1, <1>2, <2>1, <2>2 DEF J!Reap, Exited
<1>6. J!Next
  BY <1>1, <1>5 DEF J!Next
<1>7. FutureUnforked' /\ ExitEndsLaunching'
  BY <1>1, <1>2 DEF FutureUnforked, ExitEndsLaunching
<1> QED
  BY <1>4, <1>6, <1>7 DEF JobInv

LEMMA ReturnFinishesJob == TypeInv /\ JobInv /\ Return => JobInv' /\ J!Next
<1> SUFFICES ASSUME TypeInv, JobInv, Return PROVE JobInv' /\ J!Next
  OBVIOUS
<1>1. JobInv'
  BY DEF Return, JobInv, FutureUnforked, ExitEndsLaunching, ChildrenOnRecord, Launched,
         childVars
<1>2. CASE exit_requested
  <2>1. spc = "return" \/ spc = "wait"
    BY DEF Return
  <2>2. /\ {p \in Stage : Launched(p)}' = {p \in Stage : Launched(p)}
        /\ {p \in Stage : Exited(p)}' = {p \in Stage : Exited(p)}
        /\ {p \in Stage : cpc[p] = "reaped"}' = {p \in Stage : cpc[p] = "reaped"}
        /\ spc' = "done" /\ exit_requested' = exit_requested
    BY DEF Return, childVars, Launched, Exited
  <2>3. J!Finish
    BY <1>2, <2>1, <2>2 DEF J!Finish
  <2> QED
    BY <1>1, <2>3 DEF J!Next
<1>3. CASE ~exit_requested
  <2>1. spc = "wait" /\ waited = Len(pids)
    BY <1>3 DEF Return, JobInv, ExitEndsLaunching
  <2>2. \A p \in Stage : Launched(p) => cpc[p] = "reaped"
    BY <2>1 DEF JobInv, ChildrenOnRecord
  <2>3. {p \in Stage : Launched(p)} = {p \in Stage : cpc[p] = "reaped"}
    BY <2>2 DEF Launched
  <2>4. /\ {p \in Stage : Launched(p)}' = {p \in Stage : Launched(p)}
        /\ {p \in Stage : Exited(p)}' = {p \in Stage : Exited(p)}
        /\ {p \in Stage : cpc[p] = "reaped"}' = {p \in Stage : cpc[p] = "reaped"}
        /\ spc' = "done" /\ exit_requested' = exit_requested
    BY DEF Return, childVars, Launched, Exited
  <2>5. J!Finish
    BY <2>1, <2>3, <2>4 DEF J!Finish
  <2> QED
    BY <1>1, <2>5 DEF J!Next
<1> QED
  BY <1>1, <1>2, <1>3

LEMMA StageStepJob ==
  TypeInv /\ JobInv /\ (\E p \in Stage : StageStep(p)) => JobInv' /\ [J!Next]_J!jobVars
<1> SUFFICES ASSUME TypeInv, JobInv, NEW p \in Stage, StageStep(p)
             PROVE  JobInv' /\ [J!Next]_J!jobVars
  OBVIOUS
<1>1. StageProgress(p)
  BY StageProgresses
<1>2. PICK pc \in Alive \cup {"zombie"} : cpc' = [cpc EXCEPT ![p] = pc]
  BY <1>1 DEF StageProgress
<1>3. /\ cpc[p] \notin {"none", "zombie", "reaped"} /\ cpc \in [Stage -> ChildPc]
      /\ pc \notin {"none", "reaped"}
      /\ UNCHANGED shellVars
  BY <1>1 DEF StageProgress, Alive, TypeInv, TypeOK
<1>4. \A i \in 1 .. Len(pids) : pids[i] \in Stage
  BY ElementOfSeq DEF TypeInv, TypeOK
<1>5. JobInv'
  BY <1>2, <1>3, <1>4
  DEF JobInv, FutureUnforked, ExitEndsLaunching, ChildrenOnRecord, Launched, shellVars
<1>6. /\ {r \in Stage : Launched(r)}' = {r \in Stage : Launched(r)}
      /\ {r \in Stage : cpc[r] = "reaped"}' = {r \in Stage : cpc[r] = "reaped"}
  BY <1>2, <1>3 DEF Launched
<1>7. {r \in Stage : Exited(r)}' = {r \in Stage : Exited(r)}
        \cup IF pc = "zombie" THEN {p} ELSE {}
  BY <1>2, <1>3 DEF Exited, Alive
<1>8. CASE pc = "zombie"
  <2>1. J!Exit({p})
    BY <1>3, <1>6, <1>7, <1>8 DEF J!Exit, Launched, Exited, shellVars
  <2> QED
    BY <1>5, <2>1 DEF J!Next
<1>9. CASE pc # "zombie"
  BY <1>3, <1>5, <1>6, <1>7, <1>9 DEF J!jobVars, shellVars
<1> QED
  BY <1>8, <1>9

LEMMA InterruptJob == TypeInv /\ JobInv /\ Interrupt => JobInv' /\ J!Next
<1> SUFFICES ASSUME TypeInv, JobInv, Interrupt PROVE JobInv' /\ J!Next
  OBVIOUS
<1>1. /\ cpc' = [p \in Stage |-> IF p \in Interruptible THEN "zombie" ELSE cpc[p]]
      /\ UNCHANGED shellVars
  BY DEF Interrupt
<1>2. Interruptible \subseteq {p \in Stage : Launched(p)} \ {p \in Stage : Exited(p)}
  BY DEF Interruptible
<1>3. \A i \in 1 .. Len(pids) : pids[i] \in Stage
  BY ElementOfSeq DEF TypeInv, TypeOK
<1>4. JobInv'
  BY <1>1, <1>2, <1>3
  DEF JobInv, FutureUnforked, ExitEndsLaunching, ChildrenOnRecord, Launched, Exited,
      shellVars
<1>5. /\ {r \in Stage : Launched(r)}' = {r \in Stage : Launched(r)}
      /\ {r \in Stage : cpc[r] = "reaped"}' = {r \in Stage : cpc[r] = "reaped"}
      /\ {r \in Stage : Exited(r)}' = {r \in Stage : Exited(r)} \cup Interruptible
  BY <1>1, <1>2 DEF Launched, Exited
<1>6. J!Exit(Interruptible)
  BY <1>1, <1>2, <1>5 DEF J!Exit, shellVars
<1> QED
  BY <1>2, <1>4, <1>6 DEF J!Next

LEMMA NextJob == TypeInv /\ JobInv /\ [Next]_vars => JobInv' /\ [J!Next]_J!jobVars
<1> SUFFICES ASSUME TypeInv, JobInv, [Next]_vars PROVE JobInv' /\ [J!Next]_J!jobVars
  OBVIOUS
<1>1. CASE ShellStep
  <2>1. PipeFails \/ ForkFails => cur \in Stage /\ spc \in {"launch", "fork"} /\ GiveUpCommand
    BY DEF PipeFails, ForkFails, ReadyToFork, AtCommand, TypeInv, AtStage
  <2> QED
    BY <1>1, <2>1, ShellLaunchesJob, ForkLaunchesJob, ParentRecordsJob, WaitReapsJob,
       ReturnFinishesJob
    DEF ShellStep
<1>2. CASE UNCHANGED vars
  BY <1>2
  DEF vars, shellVars, childVars, JobInv, FutureUnforked, ExitEndsLaunching,
      ChildrenOnRecord, Launched, Exited, J!jobVars
<1> QED
  BY <1>1, <1>2, StageStepJob, InterruptJob DEF Next, Over

\* execute_pipeline returns only when every child it forked has been reaped,
\* each once, unless exit was requested, whatever fails and whatever the order
\* in which the children exit.
THEOREM PipelineImplementsJob == Spec => JobSpec
<1>1. Spec => [](TypeInv /\ JobInv)
  BY InitType, NextType, InitJob, NextJob, PTL DEF Spec
<1>2. TypeInv /\ JobInv /\ [Next]_vars => [J!Next]_J!jobVars
  BY NextJob
<1> QED
  BY <1>1, <1>2, InitJob, PTL DEF Spec, JobSpec, J!Spec

-----------------------------------------------------------------------------
(* The command list.                                                         *)

LEMMA NextReleased == TypeInv /\ JobInv /\ ReleasedOnce /\ [Next]_vars => ReleasedOnce'
<1> SUFFICES ASSUME TypeInv, JobInv, ReleasedOnce, [Next]_vars PROVE ReleasedOnce'
  OBVIOUS
<1> USE DEF ReleasedOnce
<1>1. CASE UNCHANGED <<released, spc>>
  BY <1>1
<1>2. CASE Return
  BY <1>2 DEF Return
<1>3. CASE ExecuteParentProcess
  BY <1>3 DEF ExecuteParentProcess, NextCommand, JobInv, ExitEndsLaunching
<1>4. CASE GiveUpCommand /\ spc # "done"
  BY <1>4 DEF GiveUpCommand, NextCommand
<1>5. CASE \/ SetupPipeline \/ ExitBeforeLast \/ ExitLast \/ ExitRefused \/ CreatePipe
           \/ Fork \/ Cleanup \/ WaitForChild
  BY <1>5
  DEF SetupPipeline, ExitBeforeLast, ExitLast, ExitRefused, AtExit, CreatePipe, AtCommand,
      Fork, ReadyToFork, Cleanup, WaitForChild
<1>6. CASE \E p \in Stage : StageStep(p)
  BY <1>1, <1>6, StageProgresses DEF StageProgress, shellVars
<1> QED
  BY <1>1, <1>2, <1>3, <1>4, <1>5, <1>6
  DEF Next, ShellStep, PipeFails, ForkFails, ReadyToFork, AtCommand, Interrupt, Over, vars,
      shellVars

\* No path through execute_pipeline frees the command list twice or not at all.
THEOREM CommandsReleasedOnce == Spec => []ReleasedOnce
<1>1. Init => ReleasedOnce
  BY DEF Init, ReleasedOnce
<1> QED
  BY <1>1, InitType, NextType, InitJob, NextJob, NextReleased, PTL DEF Spec

-----------------------------------------------------------------------------
(* The shell's descriptors.  DescriptorsBalanced says what they are once     *)
(* the pipeline is over.  While it runs the table is the one on entry but    *)
(* for the numbers the context records, which were free on entry: so that    *)
(* closing a number twice, once it is stale, never hits anything else.       *)

Base == IF exit_requested /\ cur = N THEN CloseAll(EntryTable, ExitCloses)
                                     ELSE EntryTable

Own(c) == Backups(c) \cup PipeFds(c)

\* Table t is e but for the numbers c records.
Keeps(t, c, e) ==
  /\ \A f \in Fd : f \notin Own(c) => t[f] = e[f]
  /\ \A f \in Fd : f \in Own(c) => e[f] = Closed
  /\ \A f \in Fd : f \in Backups(c) => t[f] \in {Tty, Closed} /\ f \notin PipeFds(c)

\* ExitLast closes backups; until then they are what they were made from.
BackupsHeld ==
  ~exit_requested => \A f \in Fd : f \in Backups(ctx[Shell]) => fdtab[Shell][f] = Tty

\* Before a pipe is made, what the context says of the last one is its read end.
OnePipeLeft ==
  /\ spc = "launch" => /\ ctx[Shell].p0 = ctx[Shell].prev
                       /\ ctx[Shell].p1 \in Fd => fdtab[Shell][ctx[Shell].p1] = Closed
  /\ spc \in {"setup", "wait", "return", "done"} => ctx[Shell] = NoCtx

BalanceInv ==
  Keeps(fdtab[Shell], ctx[Shell], Base) /\ BackupsHeld /\ OnePipeLeft

HasStd(e) == e[0] = Tty /\ e[1] = Tty /\ e[2] = Tty

LEMMA StdFds == {0, 1, 2} \subseteq Fd /\ NoFd \notin Fd /\ Tty # Closed
BY FdLimitAssumption DEF Fd, NoFd, Tty, Closed

LEMMA EntryStd ==
  ASSUME cmd \in Pipelines
  PROVE  /\ EntryTable \in Table(Entry) /\ HasStd(EntryTable)
         /\ Base \in Table(Entry) /\ HasStd(Base)
<1>1. EntryTable \in Table(Entry) /\ HasStd(EntryTable)
  BY EntryTableType, StdFds DEF EntryTable, HasStd
<1>2. /\ CloseAll(EntryTable, ExitCloses) \in Table(Entry)
      /\ HasStd(CloseAll(EntryTable, ExitCloses))
  <2>1. CloseAll(EntryTable, ExitCloses) \in Table(Entry)
    BY <1>1, CloseAllTable, EntryFacts
  <2>2. \A f \in {0, 1, 2} : CloseAll(EntryTable, ExitCloses)[f] = EntryTable[f]
    BY StdFds DEF CloseAll, ExitCloses
  <2> QED
    BY <1>1, <2>1, <2>2 DEF HasStd
<1> QED
  BY <1>1, <1>2 DEF Base

LEMMA EntryStays ==
  ASSUME [Next]_vars
  PROVE  EntryTable' = EntryTable /\ cmd' = cmd /\ fd_in' = fd_in
<1>1. cmd' = cmd /\ fd_in' = fd_in
  BY DEF Next, ShellStep, SetupPipeline, ExitBeforeLast, ExitLast, ExitRefused, CreatePipe,
         PipeFails, Fork, ForkFails, GiveUpCommand, ExecuteParentProcess, Cleanup,
         WaitForChild, Return, Interrupt, Over, vars,
         StageStep, StageStart, RedirectsPass, RedirectFails, InputKept, InputFromPipe,
         InputFromRedirect, InputRedirectFails, OutputDupFails, OutputReady, OutputToFile,
         OutputFileFails, NotFound, Exec, NoWord, EndOfInput, WriteElsewhere, Finish, Read,
         Write, BrokenPipe, Transfer, Die, Continue, Moves
<1> QED
  BY <1>1 DEF EntryTable, IsHeredoc

\* Recovering undoes the set-up, whatever part of it was done.
LEMMA RecoveredKeeps ==
  ASSUME NEW t \in Table(Entry), NEW c \in Ctx, NEW e \in Table(Entry), HasStd(e),
         Keeps(t, c, e)
  PROVE  Recovered(t, c) = e
<1> DEFINE u == CloseAll(t, PipeFds(c))
<1>1. u \in Table(Entry)
  BY CloseAllTable, EntryFacts
<1>2. /\ \A f \in Fd : f \notin Backups(c) => u[f] = e[f]
      /\ \A f \in Fd : f \in Backups(c) => e[f] = Closed /\ u[f] \in {Tty, Closed}
  BY DEF Keeps, CloseAll, Own
<1>3. Recovered(t, c) = Restore(u, c)
  BY DEF Recovered
<1> HIDE DEF u
<1>4. \A b \in Backups(c), g \in {0, 1, 2} : Dup2(u, b, g) = u
  <2> SUFFICES ASSUME NEW b \in Backups(c), NEW g \in {0, 1, 2}, IsOpen(u, b)
               PROVE  [u EXCEPT ![g] = u[b]] = u
    BY DEF Dup2
  <2>1. u[b] = Tty
    BY <1>2 DEF IsOpen
  <2>2. g \in Fd /\ e[g] = Tty
    BY StdFds DEF HasStd
  <2>3. u[g] = Tty
    BY <1>2, <2>2, StdFds
  <2> QED
    BY <1>1, <2>1, <2>2, <2>3 DEF Table
<1>5. Restore(u, c) = CloseAll(u, Backups(c))
  BY <1>4 DEF Restore, Backups
<1>6. CloseAll(u, Backups(c)) = e
  BY <1>1, <1>2 DEF CloseAll, Table
<1> QED
  BY <1>3, <1>5, <1>6

LEMMA KeepsNothing ==
  ASSUME NEW t \in Table(Entry), NEW e \in Table(Entry)
  PROVE  Keeps(t, NoCtx, e) <=> t = e
BY StdFds DEF Keeps, NoCtx, Own, Backups, PipeFds, Table

\* Table t is e but for the numbers in S, which now show the terminal.
Shows(t, e, S) ==
  /\ t \in Table(Entry)
  /\ \A f \in Fd : f \notin S => t[f] = e[f]
  /\ \A f \in Fd : f \in S => e[f] = Closed /\ t[f] = Tty

\* dup takes a number that was free, and nothing else changes.
LEMMA DupShows ==
  ASSUME NEW e \in Table(Entry), HasStd(e), NEW x \in {0, 1, 2},
         NEW t, NEW S, Shows(t, e, S)
  PROVE  /\ Dup(t, x).fd \in Fd \cup {NoFd}
         /\ Shows(Dup(t, x).tab, e, S \cup {Dup(t, x).fd})
<1> DEFINE d == Dup(t, x)
<1>1. x \in Fd /\ t[x] = Tty /\ t \in Table(Entry)
  BY StdFds DEF HasStd, Shows
<1>2. d = Alloc(t, Tty)
  BY <1>1, StdFds DEF Dup, IsOpen
<1>3. d.tab \in Table(Entry) /\ d.fd \in Fd \cup {NoFd}
  BY <1>1, DupTable
<1>4. CASE d = [fd |-> NoFd, tab |-> t]
  BY <1>3, <1>4, StdFds DEF Shows
<1>5. ASSUME NEW g \in Fd, t[g] = Closed, d = [fd |-> g, tab |-> [t EXCEPT ![g] = Tty]]
      PROVE  Shows(d.tab, e, S \cup {d.fd})
  <2>1. e[g] = Closed
    BY <1>5, StdFds DEF Shows
  <2>2. d.fd = g /\ \A f \in Fd : d.tab[f] = IF f = g THEN Tty ELSE t[f]
    BY <1>1, <1>5 DEF Table
  <2> HIDE DEF d
  <2> QED
    BY <1>3, <2>1, <2>2 DEF Shows
<1> QED
  BY <1>2, <1>3, <1>4, <1>5, AllocEffect

LEMMA BaseWhileRunning ==
  ASSUME TypeInv, JobInv
  PROVE  /\ spc \in {"setup", "launch", "fork", "parent"} => Base = EntryTable /\ ~exit_requested
         /\ fdtab[Shell] \in Table(Entry) /\ ctx[Shell] \in Ctx
         /\ EntryTable \in Table(Entry) /\ HasStd(EntryTable)
         /\ Base \in Table(Entry) /\ HasStd(Base)
BY UpdateTypes, EntryStd DEF Base, JobInv, ExitEndsLaunching, TypeInv, TypeOK

LEMMA StageKeepsShell ==
  ASSUME TypeInv, NEW p \in Stage, StageStep(p)
  PROVE  /\ fdtab'[Shell] = fdtab[Shell] /\ ctx'[Shell] = ctx[Shell]
         /\ \A r \in Stage : r # p => fdtab'[r] = fdtab[r] /\ ctx'[r] = ctx[r]
                                    /\ cpc'[r] = cpc[r]
         /\ UNCHANGED shellVars
<1>1. PICK t \in Table(Entry), pc \in Alive \cup {"zombie"} : Moves(p, t, pc)
  BY StageEffect DEF Effect
<1>2. ctx' = ctx \/ ForgetPrev(p)
  BY DEF StageStep, StageStart, RedirectsPass, RedirectFails, InputKept, InputFromPipe,
      InputFromRedirect, InputRedirectFails, OutputDupFails, OutputReady, OutputToFile,
      OutputFileFails, NotFound, Exec, NoWord, EndOfInput, WriteElsewhere, Finish, Read,
      Write, BrokenPipe, Transfer, Die
<1> QED
  BY <1>1, <1>2, StageProc DEF Moves, ForgetPrev, TypeInv, TypeOK

LEMMA InitBalance == Init => BalanceInv
<1> SUFFICES ASSUME Init PROVE BalanceInv
  OBVIOUS
<1>1. /\ fdtab[Shell] = EntryTable /\ ctx[Shell] = NoCtx /\ spc = "setup"
      /\ Base = EntryTable /\ cmd \in Pipelines
  BY StageProc DEF Init, Base
<1>2. EntryTable \in Table(Entry)
  BY <1>1, EntryTableType
<1>3. Keeps(fdtab[Shell], ctx[Shell], Base)
  BY <1>1, <1>2, KeepsNothing
<1>4. BackupsHeld
  BY <1>1, StdFds DEF BackupsHeld, Backups, NoCtx
<1> QED
  BY <1>1, <1>3, <1>4 DEF BalanceInv, OnePipeLeft

LEMMA SetupBalance ==
  TypeInv /\ JobInv /\ BalanceInv /\ SetupPipeline => BalanceInv'
<1> SUFFICES ASSUME TypeInv, JobInv, BalanceInv, SetupPipeline PROVE BalanceInv'
  OBVIOUS
<1>1. /\ fdtab[Shell] = EntryTable /\ EntryTable \in Table(Entry) /\ HasStd(EntryTable)
      /\ Base = EntryTable /\ ~exit_requested
  BY BaseWhileRunning, KeepsNothing DEF SetupPipeline, BalanceInv, OnePipeLeft
<1>2. PICK i \in {Dup(fdtab[Shell], 0)} : \E o \in {Dup(i.tab, 1)} :
             \E e \in {Dup(o.tab, 2)} :
               /\ ShellTable(e.tab)
               /\ ShellCtx([NoCtx EXCEPT !.bin = i.fd, !.bout = o.fd, !.berr = e.fd])
  BY DEF SetupPipeline
<1>3. PICK o \in {Dup(i.tab, 1)} : \E e \in {Dup(o.tab, 2)} :
               /\ ShellTable(e.tab)
               /\ ShellCtx([NoCtx EXCEPT !.bin = i.fd, !.bout = o.fd, !.berr = e.fd])
  BY <1>2
<1>4. PICK e \in {Dup(o.tab, 2)} :
               /\ ShellTable(e.tab)
               /\ ShellCtx([NoCtx EXCEPT !.bin = i.fd, !.bout = o.fd, !.berr = e.fd])
  BY <1>3
<1>5. Shows(fdtab[Shell], EntryTable, {})
  BY <1>1 DEF Shows
<1>6. Shows(i.tab, EntryTable, {} \cup {i.fd})
  BY <1>1, <1>5, DupShows
<1>7. Shows(o.tab, EntryTable, ({} \cup {i.fd}) \cup {o.fd})
  BY <1>1, <1>6, DupShows
<1>8. Shows(e.tab, EntryTable, (({} \cup {i.fd}) \cup {o.fd}) \cup {e.fd})
  BY <1>1, <1>7, DupShows
<1> DEFINE c == [NoCtx EXCEPT !.bin = i.fd, !.bout = o.fd, !.berr = e.fd]
<1>9. /\ Backups(c) = (({} \cup {i.fd}) \cup {o.fd}) \cup {e.fd}
      /\ PipeFds(c) = {NoFd} /\ c.p0 = c.prev /\ c.p1 = NoFd
  BY DEF NoCtx, Backups, PipeFds
<1>10. fdtab'[Shell] = e.tab /\ ctx'[Shell] = c
  BY <1>4, StageProc DEF ShellTable, ShellCtx, TypeInv, TypeOK
<1>11. EntryTable' = EntryTable /\ Base' = EntryTable
  BY <1>1 DEF SetupPipeline, EntryTable, IsHeredoc, Base
<1> HIDE DEF c
<1>12. Keeps(e.tab, c, EntryTable)
  BY <1>8, <1>9, StdFds DEF Keeps, Own, Shows
<1>13. \A f \in Fd : f \in Backups(c) => e.tab[f] = Tty
  BY <1>8, <1>9 DEF Shows
<1>14. OnePipeLeft'
  BY <1>9, <1>10, StdFds DEF SetupPipeline, OnePipeLeft
<1> QED
  BY <1>10, <1>11, <1>12, <1>13, <1>14 DEF BalanceInv, BackupsHeld

LEMMA ShellUpdates ==
  ASSUME TypeInv
  PROVE  /\ \A t : ShellTable(t) => fdtab'[Shell] = t /\ \A p \in Stage : fdtab'[p] = fdtab[p]
         /\ \A c : ShellCtx(c) => ctx'[Shell] = c /\ \A p \in Stage : ctx'[p] = ctx[p]
BY StageProc DEF ShellTable, ShellCtx, TypeInv, TypeOK

LEMMA ForgottenIsNoCtx ==
  ASSUME NEW c \in Ctx
  PROVE  Forgotten(c) = NoCtx
<1>1. /\ Forgotten(c) \in Ctx
      /\ Forgotten(c).prev = NoFd /\ Forgotten(c).p0 = NoFd /\ Forgotten(c).p1 = NoFd
      /\ Forgotten(c).bin = NoFd /\ Forgotten(c).bout = NoFd /\ Forgotten(c).berr = NoFd
  BY ContextTypes DEF Ctx, Forgotten, ForgetBackups, ForgetPipes
<1> QED
  BY <1>1 DEF Ctx, NoCtx

\* Nothing of a pipeline is left to undo.
LEMMA CleanBalance ==
  ASSUME TypeInv, fdtab'[Shell] = Base', ctx'[Shell] = NoCtx, Base' \in Table(Entry)
  PROVE  BalanceInv'
<1>1. Keeps(fdtab'[Shell], ctx'[Shell], Base')
  BY KeepsNothing
<1>2. BackupsHeld' /\ OnePipeLeft'
  BY StdFds DEF BackupsHeld, Backups, OnePipeLeft, NoCtx
<1> QED
  BY <1>1, <1>2 DEF BalanceInv

LEMMA ExitBalance ==
  TypeInv /\ JobInv /\ BalanceInv /\ (ExitBeforeLast \/ ExitLast \/ ExitRefused)
    => BalanceInv'
<1> SUFFICES ASSUME TypeInv, JobInv, BalanceInv, ExitBeforeLast \/ ExitLast \/ ExitRefused
             PROVE  BalanceInv'
  OBVIOUS
<1>1. /\ spc = "launch" /\ spc' = "cleanup" /\ ctx' = ctx /\ cur' = cur /\ cur \in Stage
      /\ EntryTable' = EntryTable
  BY DEF ExitBeforeLast, ExitLast, ExitRefused, AtExit, EntryTable, IsHeredoc, TypeInv, AtStage
<1>2. Base = EntryTable /\ ~exit_requested /\ Keeps(fdtab[Shell], ctx[Shell], EntryTable)
  BY <1>1, BaseWhileRunning DEF BalanceInv
<1>3. OnePipeLeft'
  BY <1>1 DEF OnePipeLeft
<1>4. CASE ExitBeforeLast
  <2>1. Base' = EntryTable /\ exit_requested' /\ fdtab' = fdtab
    BY <1>1, <1>4 DEF ExitBeforeLast, HasNext, Base, Stage
  <2> QED
    BY <1>1, <1>2, <1>3, <2>1 DEF BalanceInv, BackupsHeld
<1>5. CASE ExitLast
  <2>1. cur = N
    BY <1>1, <1>5, PipelineAssumption DEF ExitLast, HasNext, Stage
  <2>2. Base' = CloseAll(EntryTable, ExitCloses) /\ exit_requested'
    BY <1>1, <1>5, <2>1 DEF ExitLast, Base
  <2>3. fdtab'[Shell] = CloseAll(fdtab[Shell], ExitCloses)
    BY <1>5, ShellUpdates DEF ExitLast
  <2>4. Keeps(CloseAll(fdtab[Shell], ExitCloses), ctx[Shell], CloseAll(EntryTable, ExitCloses))
    BY <1>2 DEF Keeps, CloseAll
  <2> QED
    BY <1>1, <1>3, <2>2, <2>3, <2>4 DEF BalanceInv, BackupsHeld
<1>6. CASE ExitRefused
  <2>1. Base' = EntryTable /\ exit_requested' = exit_requested /\ fdtab' = fdtab
    BY <1>1, <1>2, <1>6 DEF ExitRefused, Base
  <2> QED
    BY <1>1, <1>2, <1>3, <2>1 DEF BalanceInv, BackupsHeld
<1> QED
  BY <1>4, <1>5, <1>6

LEMMA GiveUpBalance ==
  ASSUME TypeInv, JobInv, BalanceInv,
         Cleanup \/ (GiveUpCommand /\ spc \in {"launch", "fork"})
  PROVE  BalanceInv'
<1>1. /\ fdtab'[Shell] = Recovered(fdtab[Shell], ctx[Shell])
      /\ ctx'[Shell] = Forgotten(ctx[Shell])
  BY ShellUpdates DEF Cleanup, GiveUpCommand
<1>2. fdtab'[Shell] = Base /\ ctx'[Shell] = NoCtx /\ Base \in Table(Entry)
  BY <1>1, BaseWhileRunning, RecoveredKeeps, ForgottenIsNoCtx DEF BalanceInv
<1>3. Base' = Base
  <2>1. EntryTable' = EntryTable /\ exit_requested' = exit_requested
    BY DEF Cleanup, GiveUpCommand, EntryTable, IsHeredoc
  <2>2. CASE Cleanup
    BY <2>1, <2>2 DEF Cleanup, Base
  <2>3. CASE spc \in {"launch", "fork"}
    BY <2>1, <2>3, BaseWhileRunning DEF Base
  <2> QED
    BY <2>2, <2>3
<1> QED
  BY <1>2, <1>3, CleanBalance

LEMMA CreatePipeBalance ==
  TypeInv /\ JobInv /\ BalanceInv /\ CreatePipe => BalanceInv'
<1> SUFFICES ASSUME TypeInv, JobInv, BalanceInv, CreatePipe PROVE BalanceInv'
  OBVIOUS
<1> DEFINE t == fdtab[Shell]
           c == ctx[Shell]
<1>1. /\ spc = "launch" /\ spc' = "fork" /\ Base = EntryTable /\ ~exit_requested
      /\ t \in Table(Entry) /\ c \in Ctx
  BY BaseWhileRunning DEF CreatePipe, AtCommand
<1>2. PICK r \in {Alloc(t, Rd(cur))} : \E w \in {Alloc(r.tab, Wr(cur))} :
               /\ w.fd # NoFd
               /\ ShellTable(w.tab)
               /\ ShellCtx([c EXCEPT !.p0 = r.fd, !.p1 = w.fd])
  BY DEF CreatePipe
<1>3. PICK w \in {Alloc(r.tab, Wr(cur))} :
               /\ w.fd # NoFd
               /\ ShellTable(w.tab)
               /\ ShellCtx([c EXCEPT !.p0 = r.fd, !.p1 = w.fd])
  BY <1>2
<1>4. PICK g \in Fd : /\ r.tab[g] = Closed
                      /\ w = [fd |-> g, tab |-> [r.tab EXCEPT ![g] = Wr(cur)]]
  BY <1>3, AllocEffect
<1>5. PICK f \in Fd : t[f] = Closed /\ r = [fd |-> f, tab |-> [t EXCEPT ![f] = Rd(cur)]]
  <2>1. r # [fd |-> NoFd, tab |-> t] \/ FreeFds(t) # {}
    BY <1>4, <1>1 DEF FreeFds
  <2> QED
    BY <1>2, <2>1, AllocEffect
<1>6. t[g] = Closed /\ f # g
  BY <1>1, <1>4, <1>5 DEF Rd, Closed, Table
<1> DEFINE d == [c EXCEPT !.p0 = f, !.p1 = g]
           u == [t EXCEPT ![f] = Rd(cur), ![g] = Wr(cur)]
<1>7. fdtab'[Shell] = u /\ ctx'[Shell] = d
  BY <1>3, <1>4, <1>5, ShellUpdates
<1>8. /\ Backups(d) = Backups(c) /\ PipeFds(d) = {c.prev, f, g}
      /\ PipeFds(c) \subseteq {c.prev, c.p1}
  BY <1>1 DEF BalanceInv, OnePipeLeft, Backups, PipeFds, Ctx
<1>9. /\ \A x \in Fd : x \in Backups(c) => t[x] = Tty
      /\ c.p1 \in Fd => t[c.p1] = Closed
      /\ Keeps(t, c, EntryTable)
  BY <1>1 DEF BalanceInv, BackupsHeld, OnePipeLeft
<1>10. \A x \in Fd : u[x] = IF x = f THEN Rd(cur) ELSE IF x = g THEN Wr(cur) ELSE t[x]
  BY <1>1, <1>6 DEF Table
<1>11. f \notin Backups(c) /\ g \notin Backups(c)
  BY <1>5, <1>6, <1>9, StdFds
<1>12. EntryTable[f] = Closed /\ EntryTable[g] = Closed
  BY <1>5, <1>6, <1>9 DEF Keeps
<1>13. Base' = EntryTable /\ ~exit_requested'
  BY <1>1 DEF CreatePipe, Base, EntryTable, IsHeredoc
<1> HIDE DEF t, c, d, u
<1>14. Keeps(u, d, EntryTable)
  <2>1. ASSUME NEW x \in Fd, x \notin Own(d)
        PROVE  u[x] = EntryTable[x]
    <3>1. x # f /\ x # g /\ x \notin Backups(c) /\ x # c.prev
      BY <2>1, <1>8 DEF Own
    <3>2. CASE x \notin Own(c)
      BY <1>9, <1>10, <3>1, <3>2 DEF Keeps
    <3>3. CASE x \in Own(c)
      <4>1. x = c.p1
        BY <3>1, <3>3, <1>8 DEF Own
      <4> QED
        BY <1>9, <1>10, <3>1, <3>3, <4>1 DEF Keeps
    <3> QED
      BY <3>2, <3>3
  <2>2. ASSUME NEW x \in Fd, x \in Own(d)
        PROVE  EntryTable[x] = Closed
    <3>1. x = f \/ x = g \/ x \in Backups(c) \/ x = c.prev
      BY <2>2, <1>8 DEF Own
    <3>2. c.prev \in PipeFds(c)
      BY DEF PipeFds
    <3> QED
      BY <1>9, <1>12, <3>1, <3>2 DEF Keeps, Own
  <2>3. ASSUME NEW x \in Fd, x \in Backups(d)
        PROVE  u[x] \in {Tty, Closed} /\ x \notin PipeFds(d)
    <3>1. c.prev \in PipeFds(c)
      BY DEF PipeFds
    <3>2. x \in Backups(c) /\ x # c.prev
      BY <2>3, <1>8, <1>9, <3>1 DEF Keeps
    <3> QED
      BY <1>8, <1>9, <1>10, <1>11, <3>2
  <2> QED
    BY <2>1, <2>2, <2>3 DEF Keeps
<1>15. \A x \in Fd : x \in Backups(d) => u[x] = Tty
  BY <1>8, <1>9, <1>10, <1>11
<1>16. OnePipeLeft'
  BY <1>1 DEF OnePipeLeft
<1> QED
  BY <1>7, <1>13, <1>14, <1>15, <1>16 DEF BalanceInv, BackupsHeld

LEMMA ParentBalance ==
  TypeInv /\ JobInv /\ BalanceInv /\ ExecuteParentProcess => BalanceInv'
<1> SUFFICES ASSUME TypeInv, JobInv, BalanceInv, ExecuteParentProcess PROVE BalanceInv'
  OBVIOUS
<1> DEFINE old == ctx[Shell]
           t == CloseAll(fdtab[Shell], ParentFds(old))
           c == [old EXCEPT !.prev = IF HasNext(cur) THEN old.p0 ELSE NoFd]
<1>1. /\ Base = EntryTable /\ ~exit_requested /\ old \in Ctx
      /\ EntryTable' = EntryTable /\ ~exit_requested'
  BY BaseWhileRunning DEF ExecuteParentProcess, EntryTable, IsHeredoc
<1>2. ShellTable(t) /\ ShellCtx(c) /\ NextCommand
  BY <1>1 DEF ExecuteParentProcess
<1>3. fdtab'[Shell] = t /\ ctx'[Shell] = c /\ Base' = EntryTable
  BY <1>1, <1>2, ShellUpdates DEF Base
<1>4. /\ Backups(c) = Backups(old)
      /\ PipeFds(old) \subseteq PipeFds(c) \cup ParentFds(old)
      /\ PipeFds(c) \subseteq PipeFds(old) \cup {NoFd}
      /\ ParentFds(old) \subseteq PipeFds(old)
  BY <1>1 DEF Backups, PipeFds, ParentFds, Ctx
<1>5. Keeps(fdtab[Shell], old, EntryTable)
  BY <1>1 DEF BalanceInv
<1>6. \A f \in Fd : t[f] = IF f \in ParentFds(old) THEN Closed ELSE fdtab[Shell][f]
  BY DEF CloseAll
<1>7. /\ HasNext(cur) => c.prev = c.p0 /\ c.p1 \in ParentFds(old)
      /\ spc' = IF HasNext(cur) THEN "launch" ELSE "cleanup"
  BY <1>1, <1>2 DEF NextCommand, ParentFds, Ctx
<1> HIDE DEF t, c
<1>8. Keeps(t, c, EntryTable)
  BY <1>4, <1>5, <1>6, StdFds DEF Keeps, Own
<1>9. BackupsHeld'
  BY <1>1, <1>3, <1>4, <1>5, <1>6 DEF BackupsHeld, BalanceInv, Keeps
<1>10. OnePipeLeft'
  BY <1>3, <1>6, <1>7 DEF OnePipeLeft
<1> QED
  BY <1>3, <1>8, <1>9, <1>10 DEF BalanceInv

LEMMA NextBalance == TypeInv /\ JobInv /\ BalanceInv /\ [Next]_vars => BalanceInv'
<1> SUFFICES ASSUME TypeInv, JobInv, BalanceInv, [Next]_vars PROVE BalanceInv'
  OBVIOUS
<1>1. EntryTable' = EntryTable
  BY EntryStays
<1>2. CASE /\ fdtab'[Shell] = fdtab[Shell] /\ ctx'[Shell] = ctx[Shell]
           /\ exit_requested' = exit_requested /\ cur' = cur
           /\ \/ spc' = spc
              \/ spc' = "parent" \/ (spc \in {"wait", "return"} /\ spc' = "done")
  BY <1>1, <1>2 DEF BalanceInv, BackupsHeld, OnePipeLeft, Base
<1>3. CASE Fork \/ WaitForChild \/ Return \/ UNCHANGED vars
  <2>1. Fork => cur \in Stage
    BY DEF Fork, ReadyToFork, AtCommand, TypeInv, AtStage
  <2> QED
    BY <1>2, <1>3, <2>1, StageProc
    DEF Fork, WaitForChild, Return, vars, shellVars, TypeInv, TypeOK
<1>4. CASE \E p \in Stage : StageStep(p)
  BY <1>2, <1>4, StageKeepsShell DEF shellVars
<1>5. CASE Interrupt
  BY <1>2, <1>5, StageProc DEF Interrupt, Interruptible, shellVars
<1>6. PipeFails \/ ForkFails => GiveUpCommand /\ spc \in {"launch", "fork"}
  BY DEF PipeFails, ForkFails, ReadyToFork, AtCommand
<1> QED
  BY <1>3, <1>4, <1>5, <1>6, SetupBalance, ExitBalance, GiveUpBalance, CreatePipeBalance,
     ParentBalance
  DEF Next, ShellStep, Over

\* Whatever fails on the way, the shell returns from a pipeline with the
\* descriptors it had before: no pipe end and no backup is left open, every
\* heredoc is, and the standard descriptors are the terminal.
THEOREM DescriptorsStayBalanced == Spec => []DescriptorsBalanced
<1>1. Spec => [](TypeInv /\ JobInv /\ BalanceInv)
  BY InitType, NextType, InitJob, NextJob, InitBalance, NextBalance, PTL DEF Spec
<1>2. TypeInv /\ JobInv /\ BalanceInv => DescriptorsBalanced
  <2> SUFFICES ASSUME TypeInv, JobInv, BalanceInv, spc \in {"wait", "return", "done"}
               PROVE  fdtab[Shell] = Base
    BY DEF DescriptorsBalanced, Base
  <2>1. ctx[Shell] = NoCtx /\ Keeps(fdtab[Shell], ctx[Shell], Base)
    BY DEF BalanceInv, OnePipeLeft
  <2> QED
    BY <2>1, BaseWhileRunning, KeepsNothing
<1> QED
  BY <1>1, <1>2, PTL

-----------------------------------------------------------------------------
(* Heredocs.  Each is open on a number of its own, and the invariant above   *)
(* says that no close hits it before the stage has read it.                  *)

LEMMA HeredocNumbers ==
  ASSUME NEW c, NEW p \in Stage, NEW q \in Stage, p < q,
         c[p].in = "heredoc", c[q].in = "heredoc"
  PROVE  HeredocFd(c, p) < HeredocFd(c, q)
<1> DEFINE P == {r \in 1 .. p - 1 : c[r].in = "heredoc"}
           Q == {r \in 1 .. q - 1 : c[r].in = "heredoc"}
<1>1. p \in Nat /\ q \in Nat /\ p \in 1 .. q - 1
  BY PipelineAssumption DEF Stage
<1>2. \A r \in Nat : IsFiniteSet(1 .. r - 1)
  <2> SUFFICES ASSUME NEW r \in Nat PROVE IsFiniteSet(1 .. r - 1)
    OBVIOUS
  <2> QED
    BY FS_Interval
<1>3. IsFiniteSet(P) /\ IsFiniteSet(Q)
  BY <1>1, <1>2, FS_Subset
<1>4. p \notin P /\ P \cup {p} \subseteq Q
  BY <1>1
<1>5. Cardinality(P \cup {p}) = Cardinality(P) + 1 /\ Cardinality(P) \in Nat
  BY <1>3, <1>4, FS_AddElement, FS_CardinalityType
<1>6. Cardinality(P \cup {p}) <= Cardinality(Q) /\ Cardinality(Q) \in Nat
  BY <1>3, <1>4, FS_Subset, FS_CardinalityType
<1> HIDE DEF P, Q
<1>7. HeredocFd(c, p) = 3 + Cardinality(P) /\ HeredocFd(c, q) = 3 + Cardinality(Q)
  BY DEF HeredocFd, P, Q
<1> QED
  BY <1>5, <1>6, <1>7

\* What is on a number when the pipeline is entered.
HeredocOpen ==
  \A p \in Stage : cmd[p].in = "heredoc" =>
    fd_in[p] \in Fd /\ EntryTable[fd_in[p]] = File(p)

LEMMA InitHeredocs == Init => HeredocOpen
<1> SUFFICES ASSUME Init, NEW p \in Stage, cmd[p].in = "heredoc"
             PROVE  fd_in[p] \in Fd /\ EntryTable[fd_in[p]] = File(p)
  BY DEF HeredocOpen
<1>1. /\ cmd \in Pipelines
      /\ \A q \in Stage : fd_in[q] = HeredocFd(cmd, q)
  BY DEF Init
<1>2. fd_in[p] \in Fd
  BY <1>1, HeredocsOpen
<1>3. fd_in[p] >= 3
  <2> DEFINE P == {r \in 1 .. p - 1 : cmd[r].in = "heredoc"}
  <2>1. IsFiniteSet(1 .. p - 1)
    BY FS_Interval, PipelineAssumption DEF Stage
  <2>2. Cardinality(P) \in Nat
    BY <2>1, FS_Subset, FS_CardinalityType
  <2> HIDE DEF P
  <2>3. HeredocFd(cmd, p) = 3 + Cardinality(P)
    BY DEF HeredocFd, P
  <2> QED
    BY <1>1, <2>2, <2>3
<1>4. \A q \in Stage : IsHeredoc(q, fd_in[p]) => q = p
  <2> SUFFICES ASSUME NEW q \in Stage, IsHeredoc(q, fd_in[p]), q # p PROVE FALSE
    OBVIOUS
  <2>1. cmd[q].in = "heredoc" /\ HeredocFd(cmd, q) = HeredocFd(cmd, p)
    BY <1>1 DEF IsHeredoc
  <2>2. p < q \/ q < p
    BY PipelineAssumption DEF Stage
  <2>3. HeredocFd(cmd, p) \in Nat
    BY HeredocFdType
  <2> QED
    BY <2>1, <2>2, <2>3, HeredocNumbers
<1>5. IsHeredoc(p, fd_in[p])
  BY DEF IsHeredoc
<1>6. (CHOOSE q \in Stage : IsHeredoc(q, fd_in[p])) = p
  BY <1>4, <1>5
<1>7. ~(fd_in[p] < 3)
  BY <1>2, <1>3 DEF Fd
<1> QED
  BY <1>2, <1>5, <1>6, <1>7 DEF EntryTable

LEMMA EntryHolds ==
  ASSUME NEW f \in Fd
  PROVE  \/ EntryTable[f] \in {Tty, Closed}
         \/ \E p \in Stage : EntryTable[f] = File(p)
BY DEF EntryTable

-----------------------------------------------------------------------------
(* Read ends.  Where they are is told by the numbers the context records:    *)
(* prev holds the end the current command reads from, p0 and p1 the two ends *)
(* of the pipe after it once that is made; until then p0 and p1 are stale.   *)

FromPrev(t, c, p) == c.prev # NoFd => p > 1 /\ t[c.prev] = Rd(p - 1)

Made(t, c, p) == c.p0 \in Fd /\ t[c.p0] = Rd(p) /\ c.p1 \in Fd /\ t[c.p1] = Wr(p)

Stale(t, c) == c.p0 = c.prev /\ (c.p1 \in Fd => t[c.p1] = Closed)

Wires(t, c, p) == FromPrev(t, c, p) /\ IF HasNext(p) THEN Made(t, c, p) ELSE Stale(t, c)

ShellPipes ==
  /\ spc = "launch" => /\ FromPrev(fdtab[Shell], ctx[Shell], cur)
                       /\ Stale(fdtab[Shell], ctx[Shell])
  /\ spc \in {"fork", "parent"} => Wires(fdtab[Shell], ctx[Shell], cur)
  /\ spc = "cleanup" => \A q \in Stage : Holds(Shell, Rd(q)) => cur = q + 1

\* A child that has not wired its input still has the table it was forked with.
Unwired == {"start", "redirect", "input"}

FreshStages ==
  \A p \in Stage : cpc[p] \in Unwired =>
    /\ Keeps(fdtab[p], ctx[p], EntryTable)
    /\ Wires(fdtab[p], ctx[p], p)

\* One that has not wired its output holds its own read end once.
HalfWired ==
  \A p \in Stage : cpc[p] = "output" =>
    /\ HasNext(p) => ctx[p].p0 \in Fd \ 0 .. 2 /\ ctx[p].p1 # ctx[p].p0
    /\ \A f \in Fd : fdtab[p][f] = Rd(p) => HasNext(p) /\ f = ctx[p].p0

ReadsHeld ==
  \A p \in Stage, q \in Stage :
    Holds(p, Rd(q)) => p = q + 1 \/ (p = q /\ cpc[q] \in Setting)

PipeInv == ShellPipes /\ FreshStages /\ HalfWired /\ ReadsHeld

LEMMA EndsDiffer ==
  \A q \in Stage :
    /\ Rd(q) # Closed /\ Rd(q) # Tty /\ Wr(q) # Closed /\ Wr(q) # Tty
    /\ \A p : /\ Rd(q) # File(p) /\ Rd(q) # Wr(p) /\ Wr(q) # File(p)
              /\ Rd(q) = Rd(p) => q = p
              /\ Wr(q) = Wr(p) => q = p
BY DEF Wr, Closed, Tty, File, Rd

\* The read ends of a table are where its context says.
LEMMA ReadPlaces ==
  ASSUME NEW t, NEW c, NEW p, Keeps(t, c, EntryTable), FromPrev(t, c, p),
         NEW f \in Fd, NEW q \in Stage, t[f] = Rd(q)
  PROVE  /\ Stale(t, c) => q = p - 1 /\ f = c.prev
         /\ Made(t, c, p) => (q = p /\ f = c.p0) \/ (q = p - 1 /\ f = c.prev)
<1>1. f \in Own(c)
  BY EntryHolds, EndsDiffer DEF Keeps
<1>2. f \notin Backups(c)
  BY EndsDiffer DEF Keeps
<1>3. f \in PipeFds(c)
  BY <1>1, <1>2 DEF Own
<1>4. f = c.prev => q = p - 1
  BY EndsDiffer, StdFds DEF FromPrev
<1>5. CASE f = c.p0
  BY <1>4, <1>5, EndsDiffer DEF Stale, Made
<1>6. CASE f = c.p1
  BY <1>6, EndsDiffer DEF Stale, Made
<1> QED
  BY <1>3, <1>4, <1>5, <1>6 DEF PipeFds

LEMMA NoReadOnEntry ==
  ASSUME NEW f \in Fd, NEW q \in Stage
  PROVE  EntryTable[f] # Rd(q) /\ Base[f] # Rd(q)
BY EntryHolds, EndsDiffer DEF Base, CloseAll

LEMMA InitPipes == Init => PipeInv
<1> SUFFICES ASSUME Init PROVE PipeInv
  OBVIOUS
<1>1. /\ spc = "setup" /\ \A p \in Stage : cpc[p] = "none" /\ fdtab[p] = AllClosed
  BY StageProc DEF Init
<1>2. \A f \in Fd, q \in Stage : AllClosed[f] # Rd(q)
  BY EndsDiffer DEF AllClosed
<1> QED
  BY <1>1, <1>2
  DEF PipeInv, ShellPipes, FreshStages, HalfWired, ReadsHeld, Unwired, Holds

\* A step of the shell that forks nothing leaves the stages alone.
StagesStay ==
  /\ \A p \in Stage : fdtab'[p] = fdtab[p] /\ ctx'[p] = ctx[p]
  /\ cpc' = cpc

LEMMA StagesStayPipes ==
  ASSUME PipeInv, StagesStay, EntryTable' = EntryTable
  PROVE  FreshStages' /\ HalfWired' /\ ReadsHeld'
BY DEF PipeInv, StagesStay, FreshStages, HalfWired, ReadsHeld, Unwired, Holds, HasNext

LEMMA SetupPipes ==
  TypeInv /\ JobInv /\ PipeInv /\ SetupPipeline => ShellPipes' /\ StagesStay
<1> SUFFICES ASSUME TypeInv, SetupPipeline PROVE ShellPipes' /\ StagesStay
  OBVIOUS
<1>1. PICK a \in {Dup(fdtab[Shell], 0)} : \E o \in {Dup(a.tab, 1)} :
             \E e \in {Dup(o.tab, 2)} :
               /\ ShellTable(e.tab)
               /\ ShellCtx([NoCtx EXCEPT !.bin = a.fd, !.bout = o.fd, !.berr = e.fd])
  BY DEF SetupPipeline
<1>2. PICK o, e : /\ ShellTable(e.tab)
                  /\ ShellCtx([NoCtx EXCEPT !.bin = a.fd, !.bout = o.fd, !.berr = e.fd])
  BY <1>1
<1> DEFINE c == [NoCtx EXCEPT !.bin = a.fd, !.bout = o.fd, !.berr = e.fd]
<1>3. c.prev = NoFd /\ c.p0 = NoFd /\ c.p1 = NoFd
  BY DEF NoCtx
<1>4. ctx'[Shell] = c /\ StagesStay
  BY <1>2, ShellUpdates DEF SetupPipeline, StagesStay, childVars
<1> HIDE DEF c
<1> QED
  BY <1>3, <1>4, StdFds DEF SetupPipeline, ShellPipes, FromPrev, Stale

LEMMA ExitPipes ==
  TypeInv /\ JobInv /\ BalanceInv /\ PipeInv
    /\ (ExitBeforeLast \/ ExitLast \/ ExitRefused) => ShellPipes' /\ StagesStay
<1> SUFFICES ASSUME TypeInv, JobInv, BalanceInv, PipeInv,
                    ExitBeforeLast \/ ExitLast \/ ExitRefused
             PROVE  ShellPipes' /\ StagesStay
  OBVIOUS
<1>1. /\ spc = "launch" /\ spc' = "cleanup" /\ cur' = cur
      /\ ctx' = ctx /\ cpc' = cpc /\ cur \in Stage
  BY DEF ExitBeforeLast, ExitLast, ExitRefused, AtExit, childVars, TypeInv, AtStage
<1>2. /\ \A p \in Stage : fdtab'[p] = fdtab[p]
      /\ \/ fdtab'[Shell] = fdtab[Shell]
         \/ fdtab'[Shell] = CloseAll(fdtab[Shell], ExitCloses)
  BY ShellUpdates DEF ExitBeforeLast, ExitLast, ExitRefused
<1>3. \A f \in Fd, q \in Stage : fdtab'[Shell][f] = Rd(q) => fdtab[Shell][f] = Rd(q)
  BY <1>2, EndsDiffer DEF CloseAll
<1>4. /\ Keeps(fdtab[Shell], ctx[Shell], EntryTable)
      /\ FromPrev(fdtab[Shell], ctx[Shell], cur) /\ Stale(fdtab[Shell], ctx[Shell])
  BY <1>1, BaseWhileRunning DEF BalanceInv, PipeInv, ShellPipes
<1>5. \A f \in Fd, q \in Stage : fdtab[Shell][f] = Rd(q) => q = cur - 1
  BY <1>4, ReadPlaces
<1> QED
  BY <1>1, <1>2, <1>3, <1>5, PipelineAssumption DEF ShellPipes, Holds, StagesStay, Stage

LEMMA CleanPipes ==
  ASSUME TypeInv, JobInv, BalanceInv, PipeInv,
         Cleanup \/ (GiveUpCommand /\ spc \in {"launch", "fork"})
  PROVE  ShellPipes' /\ StagesStay
<1>1. /\ fdtab'[Shell] = Recovered(fdtab[Shell], ctx[Shell])
      /\ ctx'[Shell] = Forgotten(ctx[Shell]) /\ StagesStay
  BY ShellUpdates DEF Cleanup, GiveUpCommand, StagesStay, childVars
<1>2. fdtab'[Shell] = Base /\ ctx'[Shell] = NoCtx
  BY <1>1, BaseWhileRunning, RecoveredKeeps, ForgottenIsNoCtx DEF BalanceInv
<1>3. spc' \in {"launch", "cleanup", "wait", "return"}
  BY DEF Cleanup, GiveUpCommand, NextCommand
<1>4. \A q \in Stage : ~Holds(Shell, Rd(q))'
  BY <1>2, NoReadOnEntry DEF Holds
<1> QED
  BY <1>1, <1>2, <1>3, <1>4, StdFds DEF ShellPipes, FromPrev, Stale, NoCtx

LEMMA CreatePipePipes ==
  TypeInv /\ JobInv /\ BalanceInv /\ PipeInv /\ CreatePipe => ShellPipes' /\ StagesStay
<1> SUFFICES ASSUME TypeInv, JobInv, BalanceInv, PipeInv, CreatePipe
             PROVE  ShellPipes' /\ StagesStay
  OBVIOUS
<1> DEFINE t == fdtab[Shell]
           c == ctx[Shell]
<1>1. /\ spc = "launch" /\ spc' = "fork" /\ cur' = cur /\ HasNext(cur) /\ cur \in Stage
      /\ t \in Table(Entry) /\ c \in Ctx /\ FromPrev(t, c, cur)
  BY BaseWhileRunning DEF CreatePipe, AtCommand, PipeInv, ShellPipes, TypeInv, AtStage
<1>2. PICK r \in {Alloc(t, Rd(cur))} : \E w \in {Alloc(r.tab, Wr(cur))} :
               /\ w.fd # NoFd
               /\ ShellTable(w.tab)
               /\ ShellCtx([c EXCEPT !.p0 = r.fd, !.p1 = w.fd])
  BY DEF CreatePipe
<1>3. PICK w \in {Alloc(r.tab, Wr(cur))} :
               /\ w.fd # NoFd
               /\ ShellTable(w.tab)
               /\ ShellCtx([c EXCEPT !.p0 = r.fd, !.p1 = w.fd])
  BY <1>2
<1>4. PICK g \in Fd : /\ r.tab[g] = Closed
                      /\ w = [fd |-> g, tab |-> [r.tab EXCEPT ![g] = Wr(cur)]]
  BY <1>3, AllocEffect
<1>5. PICK f \in Fd : t[f] = Closed /\ r = [fd |-> f, tab |-> [t EXCEPT ![f] = Rd(cur)]]
  <2>1. FreeFds(t) # {} \/ r # [fd |-> NoFd, tab |-> t]
    BY <1>4 DEF FreeFds
  <2> QED
    BY <1>2, <2>1, AllocEffect
<1> DEFINE d == [c EXCEPT !.p0 = f, !.p1 = g]
           u == [t EXCEPT ![f] = Rd(cur), ![g] = Wr(cur)]
<1>6. /\ fdtab'[Shell] = u /\ ctx'[Shell] = d /\ StagesStay
  BY <1>3, <1>4, <1>5, ShellUpdates DEF CreatePipe, StagesStay, childVars
<1>7. f # g /\ t[g] = Closed
  BY <1>1, <1>4, <1>5, EndsDiffer DEF Table
<1>8. u[f] = Rd(cur) /\ u[g] = Wr(cur) /\ \A x \in Fd : t[x] # Closed => u[x] = t[x]
  BY <1>1, <1>5, <1>7 DEF Table
<1>9. d.prev = c.prev /\ d.p0 = f /\ d.p1 = g
  BY <1>1 DEF Ctx
<1>10. d.prev # NoFd => cur > 1 /\ u[d.prev] = Rd(cur - 1)
  <2> SUFFICES ASSUME c.prev # NoFd PROVE cur > 1 /\ u[c.prev] = Rd(cur - 1)
    BY <1>9
  <2>1. c.prev \in Fd
    BY <1>1 DEF Ctx
  <2>2. cur > 1 /\ t[c.prev] = Rd(cur - 1)
    BY <1>1 DEF FromPrev
  <2>3. cur - 1 \in Stage
    BY <1>1, <2>2, PipelineAssumption DEF Stage
  <2> HIDE DEF t, c, d, u
  <2>4. t[c.prev] # Closed
    BY <2>2, <2>3, EndsDiffer
  <2> QED
    BY <1>8, <2>1, <2>2, <2>4
<1> HIDE DEF t, c, d, u
<1> QED
  BY <1>1, <1>6, <1>8, <1>9, <1>10 DEF ShellPipes, FromPrev, Made, Wires, HasNext

LEMMA ParentPipes ==
  TypeInv /\ JobInv /\ BalanceInv /\ PipeInv /\ ExecuteParentProcess
    => ShellPipes' /\ StagesStay
<1> SUFFICES ASSUME TypeInv, JobInv, BalanceInv, PipeInv, ExecuteParentProcess
             PROVE  ShellPipes' /\ StagesStay
  OBVIOUS
<1> DEFINE old == ctx[Shell]
           t == CloseAll(fdtab[Shell], ParentFds(old))
           c == [old EXCEPT !.prev = IF HasNext(cur) THEN old.p0 ELSE NoFd]
<1>1. /\ ~exit_requested /\ old \in Ctx /\ cur \in Stage
      /\ Keeps(fdtab[Shell], old, EntryTable)
      /\ Wires(fdtab[Shell], old, cur)
  BY BaseWhileRunning
  DEF ExecuteParentProcess, BalanceInv, PipeInv, ShellPipes, TypeInv, AtStage
<1>2. ShellTable(t) /\ ShellCtx(c) /\ NextCommand
  BY <1>1 DEF ExecuteParentProcess
<1>3. fdtab'[Shell] = t /\ ctx'[Shell] = c /\ StagesStay
  BY <1>2, ShellUpdates DEF ExecuteParentProcess, StagesStay, childVars
<1>4. \A f \in Fd : t[f] = IF f \in ParentFds(old) THEN Closed ELSE fdtab[Shell][f]
  BY DEF CloseAll
<1>5. CASE HasNext(cur)
  <2>1. /\ c.prev = old.p0 /\ c.p0 = old.p0 /\ c.p1 = old.p1
        /\ ParentFds(old) = {old.prev, old.p1}
        /\ spc' = "launch" /\ cur' = cur + 1
    BY <1>1, <1>2, <1>5 DEF Ctx, ParentFds, NextCommand
  <2>2. /\ old.p0 \in Fd /\ fdtab[Shell][old.p0] = Rd(cur)
        /\ old.p1 \in Fd /\ fdtab[Shell][old.p1] = Wr(cur)
        /\ old.prev # NoFd => fdtab[Shell][old.prev] = Rd(cur - 1)
    BY <1>1, <1>5 DEF Wires, Made, FromPrev
  <2>3. old.p0 \notin ParentFds(old)
    <3>1. old.p0 # old.p1
      BY <1>1, <2>2, EndsDiffer
    <3>2. old.p0 # old.prev
      <4>1. Rd(cur) # Rd(cur - 1)
        BY <1>1, EndsDiffer, PipelineAssumption DEF Stage
      <4> QED
        BY <2>2, <4>1, StdFds
    <3> QED
      BY <2>1, <3>1, <3>2
  <2>4. t[c.prev] = Rd(cur) /\ t[c.p1] = Closed
    BY <1>4, <2>1, <2>2, <2>3
  <2>5. cur' > 1 /\ cur' - 1 = cur
    BY <1>1, <2>1, PipelineAssumption DEF Stage
  <2>6. Rd(cur' - 1) = Rd(cur)
    BY <2>5
  <2> HIDE DEF t, c
  <2>7. FromPrev(t, c, cur') /\ Stale(t, c)
    BY <2>1, <2>4, <2>5, <2>6 DEF FromPrev, Stale
  <2> QED
    BY <1>3, <2>1, <2>7 DEF ShellPipes
<1>6. CASE ~HasNext(cur)
  <2>1. spc' = "cleanup"
    BY <1>2, <1>6 DEF NextCommand
  <2>2. \A f \in Fd, q \in Stage : fdtab[Shell][f] = Rd(q) => f = old.prev
    BY <1>1, <1>6, ReadPlaces DEF Wires
  <2>3. \A f \in Fd, q \in Stage : t[f] # Rd(q)
    BY <1>4, <2>2, EndsDiffer DEF ParentFds
  <2> QED
    BY <1>3, <2>1, <2>3 DEF ShellPipes, Holds
<1> QED
  BY <1>3, <1>5, <1>6

LEMMA ForkPipes ==
  TypeInv /\ JobInv /\ BalanceInv /\ PipeInv /\ Fork => PipeInv'
<1> SUFFICES ASSUME TypeInv, JobInv, BalanceInv, PipeInv, Fork PROVE PipeInv'
  OBVIOUS
<1>1. /\ cur \in Stage /\ cur' = cur /\ spc' = "parent"
      /\ Keeps(fdtab[Shell], ctx[Shell], EntryTable)
  BY BaseWhileRunning
  DEF Fork, ReadyToFork, AtCommand, TypeInv, AtStage, BalanceInv
<1>2. /\ fdtab'[Shell] = fdtab[Shell] /\ fdtab'[cur] = fdtab[Shell]
      /\ ctx'[Shell] = ctx[Shell] /\ ctx'[cur] = ctx[Shell] /\ cpc'[cur] = "start"
      /\ \A p \in Stage : p # cur => /\ fdtab'[p] = fdtab[p] /\ ctx'[p] = ctx[p]
                                    /\ cpc'[p] = cpc[p]
      /\ EntryTable' = EntryTable
  BY <1>1, StageProc DEF Fork, TypeInv, TypeOK, EntryTable, IsHeredoc
<1>3. Wires(fdtab[Shell], ctx[Shell], cur)
  BY DEF Fork, ReadyToFork, AtCommand, PipeInv, ShellPipes, Wires
<1>4. Wires(fdtab[Shell], ctx[Shell], cur)'
  BY <1>1, <1>2, <1>3 DEF Wires, FromPrev, Made, Stale, HasNext
<1>5. ShellPipes'
  BY <1>1, <1>4 DEF ShellPipes
<1>6. FreshStages'
  BY <1>1, <1>2, <1>3 DEF PipeInv, FreshStages, Unwired, Wires, HasNext
<1>7. HalfWired'
  BY <1>1, <1>2 DEF PipeInv, HalfWired, HasNext
<1>8. \A f \in Fd, q \in Stage : fdtab[Shell][f] = Rd(q) => q = cur \/ q = cur - 1
  BY <1>1, <1>3, ReadPlaces DEF Wires
<1>9. ReadsHeld'
  BY <1>1, <1>2, <1>8, PipelineAssumption
  DEF PipeInv, ReadsHeld, Holds, Setting, Stage
<1> QED
  BY <1>5, <1>6, <1>7, <1>9 DEF PipeInv

\* The numbers at which table t may hold the read end of command p.
ReadOnlyAt(t, p, S) == \A f \in Fd : t[f] = Rd(p) => f \in S

OwnRead(c, p) == IF HasNext(p) THEN {c.p0} ELSE {}

LEMMA DupRead ==
  ASSUME NEW t \in Table(Entry), NEW p \in Stage, NEW S, ReadOnlyAt(t, p, S),
         NEW x \in Fd, x \notin S
  PROVE  ReadOnlyAt(Dup(t, x).tab, p, S)
<1>1. t[x] # Rd(p)
  BY DEF ReadOnlyAt
<1>2. CASE Dup(t, x).tab = t
  BY <1>2
<1>3. ASSUME NEW f \in Fd, Dup(t, x) = [fd |-> f, tab |-> [t EXCEPT ![f] = t[x]]]
      PROVE  ReadOnlyAt(Dup(t, x).tab, p, S)
  BY <1>1, <1>3 DEF ReadOnlyAt, Table
<1> QED
  BY <1>2, <1>3, AllocEffect DEF Dup

LEMMA Dup2Read ==
  ASSUME NEW t \in Table(Entry), NEW p \in Stage, NEW S, ReadOnlyAt(t, p, S),
         NEW x, NEW g, x \in Fd => t[x] # Rd(p)
  PROVE  ReadOnlyAt(Dup2(t, x, g), p, S)
BY DEF ReadOnlyAt, Dup2, IsOpen, Table

LEMMA CloseRead ==
  ASSUME NEW t \in Table(Entry), NEW p \in Stage, NEW S, ReadOnlyAt(t, p, S), NEW F
  PROVE  /\ ReadOnlyAt(CloseAll(t, F), p, S)
         /\ S \subseteq F => ReadOnlyAt(CloseAll(t, F), p, {})
BY EndsDiffer DEF ReadOnlyAt, CloseAll

LEMMA AllocFileRead ==
  ASSUME NEW t \in Table(Entry), NEW p \in Stage, NEW S, ReadOnlyAt(t, p, S)
  PROVE  LET a == Alloc(t, File(p))
         IN  /\ a.tab \in Table(Entry) /\ ReadOnlyAt(a.tab, p, S)
             /\ a.fd \in Fd => a.tab[a.fd] = File(p)
<1> DEFINE a == Alloc(t, File(p))
<1>1. a.tab \in Table(Entry)
  BY AllocTable, EntryFacts
<1>2. CASE a = [fd |-> NoFd, tab |-> t]
  BY <1>1, <1>2, StdFds
<1>3. ASSUME NEW f \in Fd, a = [fd |-> f, tab |-> [t EXCEPT ![f] = File(p)]]
      PROVE  ReadOnlyAt(a.tab, p, S) /\ a.tab[a.fd] = File(p)
  BY <1>3, EndsDiffer DEF ReadOnlyAt, Table
<1> QED
  BY <1>1, <1>2, <1>3, AllocEffect

\* What is known of a stage that has not wired its input.
LEMMA FreshFacts ==
  ASSUME TypeInv, PipeInv, NEW p \in Stage, cpc[p] \in Unwired
  PROVE  /\ ReadOnlyAt(fdtab[p], p, OwnRead(ctx[p], p))
         /\ {0, 1, 2, ctx[p].prev} \cap OwnRead(ctx[p], p) = {}
         /\ HasNext(p) => ctx[p].p0 \in Fd \ 0 .. 2 /\ ctx[p].p1 # ctx[p].p0
         /\ \A f \in Fd : EntryTable[f] # Closed => f \notin OwnRead(ctx[p], p)
<1> DEFINE t == fdtab[p]
           c == ctx[p]
<1>1. Keeps(t, c, EntryTable) /\ FromPrev(t, c, p)
      /\ IF HasNext(p) THEN Made(t, c, p) ELSE Stale(t, c)
  BY DEF PipeInv, FreshStages, Wires
<1>2. p # p - 1
  BY PipelineAssumption DEF Stage
<1>3. HasStd(EntryTable)
  BY EntryStd DEF TypeInv, TypeOK
<1> HIDE DEF t, c
<1>4. ReadOnlyAt(t, p, OwnRead(c, p))
  BY <1>1, <1>2, ReadPlaces DEF ReadOnlyAt, OwnRead
<1>5. ASSUME HasNext(p)
      PROVE  /\ c.p0 \in Fd /\ EntryTable[c.p0] = Closed
             /\ c.p1 # c.p0 /\ c.prev # c.p0
  <2>1. c.p0 \in Fd /\ t[c.p0] = Rd(p) /\ t[c.p1] = Wr(p)
    BY <1>1, <1>5 DEF Made
  <2>2. EntryTable[c.p0] = Closed
    BY <1>1, <2>1 DEF Keeps, Own, PipeFds
  <2>3. c.p1 # c.p0
    BY <2>1, EndsDiffer
  <2>4. Rd(p) # Rd(p - 1)
    BY <1>2, EndsDiffer
  <2>5. c.prev # c.p0
    BY <1>1, <2>1, <2>4, StdFds DEF FromPrev
  <2> QED
    BY <2>1, <2>2, <2>3, <2>5
<1>6. ASSUME HasNext(p) PROVE c.p0 \notin {0, 1, 2}
  BY <1>3, <1>5, <1>6, StdFds DEF HasStd
<1> QED
  BY <1>4, <1>5, <1>6 DEF OwnRead, t, c

\* Where a step leaves the stage that takes it.
StageWired(p) ==
  /\ cpc[p] \in Unwired => /\ Keeps(fdtab[p], ctx[p], EntryTable)
                           /\ Wires(fdtab[p], ctx[p], p)
  /\ cpc[p] = "output" => /\ HasNext(p) => ctx[p].p0 \in Fd \ 0 .. 2 /\ ctx[p].p1 # ctx[p].p0
                          /\ ReadOnlyAt(fdtab[p], p, OwnRead(ctx[p], p))
  /\ cpc[p] \notin Setting => ReadOnlyAt(fdtab[p], p, {})

LEMMA StartWired ==
  ASSUME TypeInv, PipeInv, NEW p \in Stage,
         StageStart(p) \/ RedirectsPass(p) \/ RedirectFails(p)
  PROVE  StageWired(p)'
<1>1. EntryTable' = EntryTable
  BY DEF StageStart, RedirectsPass, RedirectFails, Continue, Die, Moves, EntryTable, IsHeredoc
<1>2. CASE StageStart(p)
  <2> DEFINE t == fdtab[p]
             c == ctx[p]
             u == CloseAll(t, Backups(c))
  <2>1. fdtab'[p] = u /\ ctx'[p] = c /\ cpc'[p] = "redirect"
    BY <1>2, StageProc DEF StageStart, Continue, Moves, TypeInv, TypeOK
  <2>2. Keeps(t, c, EntryTable) /\ Wires(t, c, p) /\ c \in Ctx
    BY <1>2, StageTypes DEF StageStart, PipeInv, FreshStages, Unwired
  <2>3. Keeps(u, c, EntryTable)
    BY <2>2 DEF Keeps, CloseAll, Own
  <2>4. \A f \in Fd : f \in PipeFds(c) => u[f] = t[f]
    BY <2>2 DEF Keeps, CloseAll
  <2> HIDE DEF t, c, u
  <2>5. Wires(u, c, p)
    BY <2>2, <2>4 DEF Wires, FromPrev, Made, Stale, PipeFds, Ctx
  <2> QED
    BY <1>1, <2>1, <2>3, <2>5 DEF StageWired, Setting, Unwired, Wires, HasNext
<1>3. CASE RedirectsPass(p)
  <2>1. fdtab'[p] = fdtab[p] /\ ctx'[p] = ctx[p] /\ cpc'[p] = "input" /\ cpc[p] \in Unwired
    BY <1>3, StageProc DEF RedirectsPass, Continue, Moves, Unwired, TypeInv, TypeOK
  <2> QED
    BY <1>1, <2>1
    DEF PipeInv, FreshStages, StageWired, Setting, Unwired, Wires, HasNext
<1>4. CASE RedirectFails(p)
  <2>1. fdtab'[p] = AllClosed /\ cpc'[p] = "zombie"
    BY <1>4, StageProc DEF RedirectFails, Die, Moves, TypeInv, TypeOK
  <2> QED
    BY <2>1, EndsDiffer DEF StageWired, Setting, Unwired, ReadOnlyAt, AllClosed
<1> QED
  BY <1>2, <1>3, <1>4

LEMMA InputWired ==
  ASSUME TypeInv, HeredocOpen, PipeInv, NEW p \in Stage,
         \/ InputKept(p) \/ InputFromPipe(p)
         \/ InputFromRedirect(p) \/ InputRedirectFails(p)
  PROVE  StageWired(p)'
<1> DEFINE t == fdtab[p]
           c == ctx[p]
           S == OwnRead(c, p)
<1>0. cpc[p] \in Unwired /\ t \in Table(Entry) /\ c \in Ctx
  BY StageTypes
  DEF InputKept, InputFromPipe, InputFromRedirect, InputRedirectFails, Unwired
<1>1. /\ ReadOnlyAt(t, p, S) /\ 0 \notin S /\ c.prev \notin S
      /\ HasNext(p) => c.p0 \in Fd \ 0 .. 2 /\ c.p1 # c.p0
      /\ \A f \in Fd : EntryTable[f] # Closed => f \notin S
  BY <1>0, FreshFacts
<1>2. 0 \in Fd /\ ReadOnlyAt(Dup(t, 0).tab, p, S) /\ Dup(t, 0).tab \in Table(Entry)
  BY <1>0, <1>1, StdFds, DupRead, DupTable
<1>3. ctx' = ctx \/ ForgetPrev(p)
  BY DEF InputKept, InputFromPipe, InputFromRedirect, InputRedirectFails
<1>4. /\ ctx'[p].p0 = c.p0 /\ ctx'[p].p1 = c.p1
      /\ OwnRead(ctx'[p], p) = S
  BY <1>0, <1>3, StageProc DEF ForgetPrev, OwnRead, Ctx, TypeInv, TypeOK
<1>5. ASSUME NEW u, Continue(p, u, "output"), ReadOnlyAt(u, p, S)
      PROVE  StageWired(p)'
  <2>1. fdtab'[p] = u /\ cpc'[p] = "output"
    BY <1>5, StageProc DEF Continue, Moves, TypeInv, TypeOK
  <2> HIDE DEF t, c, S
  <2> QED
    BY <1>1, <1>4, <1>5, <2>1 DEF StageWired, Unwired, Setting, HasNext, OwnRead
<1> HIDE DEF t, c, S
<1>6. CASE InputKept(p)
  BY <1>1, <1>5, <1>6 DEF InputKept, t
<1>7. CASE InputFromPipe(p)
  <2>1. PICK b \in {Dup(t, 0)} :
          Continue(p, IF b.fd # NoFd
                      THEN CloseAll(Dup2(b.tab, c.prev, 0), {c.prev})
                      ELSE CloseAll(t, PipesOf(p)),
                   "output")
    BY <1>7 DEF InputFromPipe, t, c
  <2> DEFINE d == Dup2(b.tab, c.prev, 0)
  <2>2. d \in Table(Entry) /\ ReadOnlyAt(d, p, S)
    <3>1. c.prev \in Fd => b.tab[c.prev] # Rd(p)
      BY <1>1, <1>2 DEF ReadOnlyAt
    <3> QED
      BY <1>2, <3>1, Dup2Table, Dup2Read
  <2> HIDE DEF d
  <2>3. ReadOnlyAt(CloseAll(d, {c.prev}), p, S) /\ ReadOnlyAt(CloseAll(t, PipesOf(p)), p, S)
    BY <1>0, <1>1, <2>2, CloseRead
  <2> QED
    BY <1>5, <2>1, <2>3 DEF d
<1>8. CASE InputFromRedirect(p)
  <2>1. PICK b \in {Dup(t, 0)} :
          \E f \in {IF FileIn(p) THEN Alloc(b.tab, File(p))
                                 ELSE [fd |-> fd_in[p], tab |-> b.tab]} :
            Continue(p, CloseAll(Dup2(f.tab, f.fd, 0), {f.fd}), "output")
    BY <1>8 DEF InputFromRedirect, t
  <2>2. PICK f \in {IF FileIn(p) THEN Alloc(b.tab, File(p))
                                 ELSE [fd |-> fd_in[p], tab |-> b.tab]} :
            Continue(p, CloseAll(Dup2(f.tab, f.fd, 0), {f.fd}), "output")
    BY <2>1
  <2>3. /\ f.tab \in Table(Entry) /\ ReadOnlyAt(f.tab, p, S)
        /\ f.fd \in Fd => f.tab[f.fd] # Rd(p)
    <3>1. CASE FileIn(p)
      BY <1>2, <2>2, <3>1, AllocFileRead, EndsDiffer
    <3>2. CASE ~FileIn(p)
      <4>1. cmd[p].in = "heredoc"
        <5>1. cmd[p] \in Command
          BY PipelineAssumption DEF TypeInv, TypeOK
        <5> QED
          BY <1>8, <3>2, <5>1 DEF InputFromRedirect, FileIn, Command
      <4>2. fd_in[p] \in Fd /\ fd_in[p] \notin S
        <5>1. fd_in[p] \in Fd /\ EntryTable[fd_in[p]] = File(p)
          BY <4>1 DEF HeredocOpen
        <5>2. File(p) # Closed
          BY DEF File, Closed
        <5> QED
          BY <1>1, <5>1, <5>2
      <4> QED
        BY <1>2, <2>2, <3>2, <4>2 DEF ReadOnlyAt
    <3> QED
      BY <3>1, <3>2
  <2> DEFINE d == Dup2(f.tab, f.fd, 0)
  <2>4. d \in Table(Entry) /\ ReadOnlyAt(d, p, S)
    BY <2>3, Dup2Table, Dup2Read
  <2> HIDE DEF d
  <2>5. ReadOnlyAt(CloseAll(d, {f.fd}), p, S)
    BY <2>4, CloseRead
  <2> QED
    BY <1>5, <2>2, <2>5 DEF d
<1>9. CASE InputRedirectFails(p)
  <2>1. ReadOnlyAt(CloseAll(t, PipesOf(p)), p, S)
    BY <1>0, <1>1, CloseRead
  <2> QED
    BY <1>5, <1>9, <2>1 DEF InputRedirectFails, t
<1> QED
  BY <1>6, <1>7, <1>8, <1>9

\* A stage that died or runs its program holds no end of the pipe it writes to
\* but the write end.
LEMMA NotSettingWired ==
  ASSUME TypeInv, NEW p \in Stage, NEW u, NEW pc, pc \notin Setting,
         Moves(p, u, pc), ReadOnlyAt(u, p, {})
  PROVE  StageWired(p)'
<1>1. fdtab'[p] = u /\ cpc'[p] = pc
  BY StageProc DEF Moves, TypeInv, TypeOK
<1> QED
  BY <1>1 DEF StageWired, Setting, Unwired

LEMMA DieWired ==
  ASSUME TypeInv, NEW p \in Stage, NEW c, Die(p, c)
  PROVE  StageWired(p)'
<1>1. ReadOnlyAt(AllClosed, p, {})
  BY EndsDiffer DEF ReadOnlyAt, AllClosed
<1> QED
  BY <1>1, NotSettingWired DEF Die, Setting

LEMMA AfterPipeRead ==
  ASSUME TypeInv, PipeInv, NEW p \in Stage, cpc[p] = "output"
  PROVE  ReadOnlyAt(AfterPipe(p), p, {})
<1> DEFINE t == fdtab[p]
           c == ctx[p]
           S == OwnRead(c, p)
           b == Dup(t, 1)
           ends == {c.p0, c.p1}
<1>1. /\ HasNext(p) => c.p0 \in Fd \ 0 .. 2 /\ c.p1 # c.p0
      /\ ReadOnlyAt(t, p, S) /\ t \in Table(Entry)
  BY StageTypes DEF PipeInv, HalfWired, ReadOnlyAt, OwnRead
<1>2. CASE ~HasNext(p)
  BY <1>1, <1>2 DEF AfterPipe, OwnRead
<1>3. CASE HasNext(p)
  <2>1. 1 \notin S /\ S \subseteq ends
    BY <1>1, <1>3 DEF OwnRead
  <2>2. b.tab \in Table(Entry) /\ ReadOnlyAt(b.tab, p, S)
    BY <1>1, <2>1, StdFds, DupRead, DupTable
  <2>3. c.p1 \in Fd => b.tab[c.p1] # Rd(p)
    BY <1>1, <1>3, <2>2 DEF ReadOnlyAt, OwnRead
  <2> DEFINE d == Dup2(b.tab, c.p1, 1)
  <2> HIDE DEF t, S, b
  <2>4. d \in Table(Entry) /\ ReadOnlyAt(d, p, S)
    BY <2>2, <2>3, Dup2Table, Dup2Read
  <2> HIDE DEF d, ends
  <2>5. /\ ReadOnlyAt(CloseAll(d, ends), p, {})
        /\ ReadOnlyAt(CloseAll(b.tab, ends \cup {b.fd}), p, {})
    BY <2>1, <2>2, <2>4, CloseRead
  <2>6. AfterPipe(p) = IF IsOpen(b.tab, c.p1) THEN CloseAll(d, ends)
                       ELSE CloseAll(b.tab, ends \cup {b.fd})
    BY <1>3 DEF AfterPipe, b, d, ends, t
  <2> QED
    BY <2>5, <2>6
<1> QED
  BY <1>2, <1>3

LEMMA OutputWired ==
  ASSUME TypeInv, PipeInv, NEW p \in Stage,
         OutputDupFails(p) \/ OutputReady(p) \/ OutputToFile(p) \/ OutputFileFails(p)
  PROVE  StageWired(p)'
<1>0. /\ cpc[p] = "output" /\ "exec" \notin Setting
      /\ AfterPipe(p) \in Table(Entry) /\ ReadOnlyAt(AfterPipe(p), p, {})
  BY AfterPipeRead, AfterPipeTable
  DEF OutputDupFails, OutputReady, OutputToFile, OutputFileFails, CanSetOutput, Setting
<1>1. CASE OutputDupFails(p)
  BY <1>1, DieWired DEF OutputDupFails
<1>2. CASE OutputReady(p) \/ OutputFileFails(p)
  BY <1>0, <1>2, NotSettingWired DEF OutputReady, OutputFileFails, Continue
<1>3. CASE OutputToFile(p)
  <2>1. PICK b \in {Dup(AfterPipe(p), 1)} : \E f \in {Alloc(b.tab, File(p))} :
          Continue(p, CloseAll(Dup2(f.tab, f.fd, 1), {f.fd}), "exec")
    BY <1>3 DEF OutputToFile
  <2>2. PICK f \in {Alloc(b.tab, File(p))} :
          Continue(p, CloseAll(Dup2(f.tab, f.fd, 1), {f.fd}), "exec")
    BY <2>1
  <2> DEFINE d == Dup2(f.tab, f.fd, 1)
  <2>3. b.tab \in Table(Entry) /\ ReadOnlyAt(b.tab, p, {})
    BY <1>0, DupTable, DupRead, StdFds
  <2>4. f.tab \in Table(Entry) /\ ReadOnlyAt(f.tab, p, {})
    BY <2>3, AllocFileRead
  <2>5. d \in Table(Entry) /\ ReadOnlyAt(d, p, {})
    <3>1. \A x \in Fd : f.tab[x] # Rd(p)
      BY <2>4 DEF ReadOnlyAt
    <3> QED
      BY <2>4, <3>1, Dup2Table, Dup2Read
  <2> HIDE DEF d
  <2>6. ReadOnlyAt(CloseAll(d, {f.fd}), p, {})
    BY <2>5, CloseRead
  <2>7. Moves(p, CloseAll(d, {f.fd}), "exec")
    BY <2>2 DEF Continue, d
  <2> QED
    BY <1>0, <2>6, <2>7, NotSettingWired
<1> QED
  BY <1>1, <1>2, <1>3

LEMMA ProgramWired ==
  ASSUME TypeInv, PipeInv, NEW p \in Stage,
         \/ NotFound(p) \/ Exec(p) \/ NoWord(p)
         \/ EndOfInput(p) \/ WriteElsewhere(p) \/ Finish(p)
         \/ \E q \in Stage : Read(p, q) \/ Write(p, q) \/ BrokenPipe(p, q)
  PROVE  StageWired(p)'
<1>1. cpc[p] \in {"exec", "read", "write", "finish"}
  BY DEF NotFound, Exec, NoWord, EndOfInput, WriteElsewhere, Finish, Read, Reads, Write,
         Writes, BrokenPipe
<1>2. ReadOnlyAt(fdtab[p], p, {})
  BY <1>1, PipelineAssumption DEF PipeInv, ReadsHeld, ReadOnlyAt, Holds, Setting, Stage
<1>3. \/ \E c : Die(p, c)
      \/ \E pc \in {"read", "write", "finish"} : Moves(p, fdtab[p], pc)
  BY DEF NotFound, Exec, NoWord, EndOfInput, WriteElsewhere, Finish, Read, Write,
         BrokenPipe, Transfer, Continue, AfterWrite
<1> QED
  BY <1>2, <1>3, DieWired, NotSettingWired DEF Setting

LEMMA StagePipes ==
  TypeInv /\ HeredocOpen /\ PipeInv /\ (\E p \in Stage : StageStep(p)) => PipeInv'
<1> SUFFICES ASSUME TypeInv, HeredocOpen, PipeInv, NEW p \in Stage, StageStep(p)
             PROVE  PipeInv'
  OBVIOUS
<1>1. StageWired(p)'
  BY StartWired, InputWired, OutputWired, ProgramWired DEF StageStep
<1>2. /\ fdtab'[Shell] = fdtab[Shell] /\ ctx'[Shell] = ctx[Shell]
      /\ \A r \in Stage : r # p => fdtab'[r] = fdtab[r] /\ ctx'[r] = ctx[r]
                                 /\ cpc'[r] = cpc[r]
      /\ spc' = spc /\ cur' = cur
  BY StageKeepsShell DEF shellVars
<1>3. EntryTable' = EntryTable
  BY EntryStays DEF Next
<1>4. ShellPipes'
  BY <1>2 DEF PipeInv, ShellPipes, Wires, FromPrev, Made, Stale, HasNext, Holds
<1>5. FreshStages'
  BY <1>1, <1>2, <1>3 DEF PipeInv, FreshStages, StageWired, Wires, HasNext
<1>6. HalfWired'
  BY <1>1, <1>2 DEF PipeInv, HalfWired, StageWired, HasNext, ReadOnlyAt, OwnRead
<1>7. \A q \in Stage : Rd(q) \in Contents(fdtab'[p]) => Rd(q) \in Contents(fdtab[p])
  <2>1. PICK t \in Table(Entry), pc \in Alive \cup {"zombie"} :
          /\ Moves(p, t, pc)
          /\ Contents(t) \subseteq Contents(fdtab[p]) \cup {Closed, File(p)}
    BY StageEffect DEF Effect
  <2>2. fdtab'[p] = t
    BY <2>1, StageProc DEF Moves, TypeInv, TypeOK
  <2> QED
    BY <2>1, <2>2, EndsDiffer
<1>8. cpc'[p] \notin Setting => ~Holds(p, Rd(p))'
  BY <1>1 DEF StageWired, ReadOnlyAt, Holds
<1>9. ReadsHeld'
  BY <1>2, <1>7, <1>8 DEF PipeInv, ReadsHeld, Holds, Contents
<1> QED
  BY <1>4, <1>5, <1>6, <1>9 DEF PipeInv

LEMMA InterruptPipes == TypeInv /\ PipeInv /\ Interrupt => PipeInv'
<1> SUFFICES ASSUME TypeInv, PipeInv, Interrupt PROVE PipeInv'
  OBVIOUS
<1>1. /\ fdtab'[Shell] = fdtab[Shell] /\ ctx' = ctx /\ spc' = spc /\ cur' = cur
      /\ \A p \in Stage : \/ fdtab'[p] = AllClosed /\ cpc'[p] = "zombie"
                          \/ fdtab'[p] = fdtab[p] /\ cpc'[p] = cpc[p]
      /\ EntryTable' = EntryTable
  BY StageProc DEF Interrupt, Interruptible, shellVars, EntryTable, IsHeredoc
<1>2. \A f \in Fd, q \in Stage : AllClosed[f] # Rd(q)
  BY EndsDiffer DEF AllClosed
<1>3. ShellPipes'
  BY <1>1 DEF PipeInv, ShellPipes, Wires, FromPrev, Made, Stale, HasNext, Holds
<1>4. FreshStages'
  BY <1>1 DEF PipeInv, FreshStages, Wires, HasNext, Unwired
<1>5. HalfWired'
  BY <1>1 DEF PipeInv, HalfWired, HasNext
<1>6. ReadsHeld'
  BY <1>1, <1>2 DEF PipeInv, ReadsHeld, Holds
<1> QED
  BY <1>3, <1>4, <1>5, <1>6 DEF PipeInv

LEMMA NextPipes ==
  TypeInv /\ JobInv /\ BalanceInv /\ HeredocOpen /\ PipeInv /\ [Next]_vars
    => HeredocOpen' /\ PipeInv'
<1> SUFFICES ASSUME TypeInv, JobInv, BalanceInv, HeredocOpen, PipeInv, [Next]_vars
             PROVE  HeredocOpen' /\ PipeInv'
  OBVIOUS
<1>1. EntryTable' = EntryTable /\ cmd' = cmd /\ fd_in' = fd_in
  BY EntryStays
<1>2. HeredocOpen'
  BY <1>1 DEF HeredocOpen
<1>3. StagesStay /\ ShellPipes' => PipeInv'
  BY <1>1, StagesStayPipes DEF PipeInv
<1>4. CASE WaitForChild \/ Return \/ UNCHANGED vars
  <2>1. /\ fdtab' = fdtab /\ ctx' = ctx /\ cur' = cur
        /\ spc' = spc \/ spc' = "done"
        /\ cpc' = cpc \/ \E p \in Stage : /\ cpc[p] = "zombie"
                                          /\ cpc' = [cpc EXCEPT ![p] = "reaped"]
    BY <1>4, AwaitedIsStage DEF WaitForChild, Return, vars, shellVars, childVars
  <2>2. \A p \in Stage : cpc'[p] = cpc[p] \/ (cpc[p] = "zombie" /\ cpc'[p] = "reaped")
    BY <2>1 DEF TypeInv, TypeOK
  <2>3. ShellPipes'
    BY <2>1 DEF PipeInv, ShellPipes, Wires, FromPrev, Made, Stale, HasNext, Holds
  <2>4. FreshStages' /\ HalfWired' /\ ReadsHeld'
    BY <1>1, <2>1, <2>2
    DEF PipeInv, FreshStages, HalfWired, ReadsHeld, Unwired, Setting, Holds, Wires, HasNext
  <2> QED
    BY <1>2, <2>3, <2>4 DEF PipeInv
<1>5. PipeFails \/ ForkFails => GiveUpCommand /\ spc \in {"launch", "fork"}
  BY DEF PipeFails, ForkFails, ReadyToFork, AtCommand
<1>6. ShellStep => PipeInv'
  BY <1>3, <1>4, <1>5, SetupPipes, ExitPipes, CleanPipes, CreatePipePipes, ForkPipes,
     ParentPipes
  DEF ShellStep
<1> QED
  BY <1>2, <1>4, <1>6, StagePipes, InterruptPipes DEF Next, Over

LEMMA PipelineInvariant ==
  Spec => [](TypeInv /\ JobInv /\ BalanceInv /\ HeredocOpen /\ PipeInv)
<1>1. Init => TypeInv /\ JobInv /\ BalanceInv /\ HeredocOpen /\ PipeInv
  BY InitType, InitJob, InitBalance, InitHeredocs, InitPipes
<1>2. TypeInv /\ JobInv /\ BalanceInv /\ HeredocOpen /\ PipeInv /\ [Next]_vars
        => (TypeInv /\ JobInv /\ BalanceInv /\ HeredocOpen /\ PipeInv)'
  BY NextType, NextJob, NextBalance, NextPipes
<1> QED
  BY <1>1, <1>2, PTL DEF Spec

\* A heredoc stays open in the shell while the pipeline runs, and in the
\* command that reads it until it does: none of the closes of recorded, and by
\* then stale, numbers hits it, whatever fails on the way.
THEOREM HeredocsReachTheirStages == Spec => []HeredocReachesStage
<1>1. TypeInv /\ JobInv /\ BalanceInv /\ HeredocOpen /\ PipeInv => HeredocReachesStage
  <2> SUFFICES ASSUME TypeInv, JobInv, BalanceInv, HeredocOpen, PipeInv,
                      NEW p \in Stage, cmd[p].in = "heredoc"
               PROVE  /\ ~exit_requested => fdtab[Shell][fd_in[p]] = File(p)
                      /\ cpc[p] \in Unwired => fdtab[p][fd_in[p]] = File(p)
    BY DEF HeredocReachesStage, Unwired
  <2>1. fd_in[p] \in Fd /\ EntryTable[fd_in[p]] = File(p) /\ File(p) # Closed
    BY DEF HeredocOpen, File, Closed
  <2>2. ~exit_requested => Keeps(fdtab[Shell], ctx[Shell], EntryTable)
    BY DEF BalanceInv, Base
  <2>3. cpc[p] \in Unwired => Keeps(fdtab[p], ctx[p], EntryTable)
    BY DEF PipeInv, FreshStages
  <2> QED
    BY <2>1, <2>2, <2>3 DEF Keeps
<1> QED
  BY <1>1, PipelineInvariant, PTL

\* The read end of a pipe is never left open anywhere but in its reader and,
\* for as long as they need it, in its writer and in the shell: so a writer
\* whose reader is gone is told, whatever failed before.
THEOREM ReadEndsStayConfined == Spec => []ReadEndsConfined
<1>1. TypeInv /\ JobInv /\ BalanceInv /\ PipeInv => ReadEndsConfined
  <2> SUFFICES ASSUME TypeInv, JobInv, BalanceInv, PipeInv,
                      NEW q \in Stage, NEW p \in Proc, Holds(p, Rd(q))
               PROVE  \/ p = q + 1
                      \/ p = q /\ cpc[q] \in Setting
                      \/ /\ p = Shell
                         /\ \/ cur = q /\ spc \in {"fork", "parent"}
                            \/ cur = q + 1 /\ spc \in {"launch", "fork", "parent", "cleanup"}
    BY DEF ReadEndsConfined
  <2>1. CASE p \in Stage
    BY <2>1 DEF PipeInv, ReadsHeld
  <2>2. CASE p = Shell
    <3>1. PICK f \in Fd : fdtab[Shell][f] = Rd(q)
      BY <2>2 DEF Holds
    <3>2. CASE spc \in {"launch", "fork", "parent"}
      <4>1. Keeps(fdtab[Shell], ctx[Shell], EntryTable)
        BY <3>2, BaseWhileRunning DEF BalanceInv
      <4>2. spc = "launch" => q = cur - 1
        BY <3>1, <4>1, ReadPlaces DEF PipeInv, ShellPipes
      <4>3. spc \in {"fork", "parent"} => q = cur \/ q = cur - 1
        BY <3>1, <4>1, ReadPlaces DEF PipeInv, ShellPipes, Wires
      <4>4. cur \in Nat /\ q \in Nat
        BY PipelineAssumption DEF TypeInv, TypeOK, Stage
      <4> QED
        BY <2>2, <3>2, <4>2, <4>3, <4>4
    <3>3. CASE spc = "cleanup"
      BY <2>2, <3>3 DEF PipeInv, ShellPipes
    <3>4. CASE spc \in {"setup", "wait", "return", "done"}
      <4>1. ctx[Shell] = NoCtx /\ Keeps(fdtab[Shell], ctx[Shell], Base)
        BY <3>4 DEF BalanceInv, OnePipeLeft
      <4>2. fdtab[Shell] = Base
        BY <4>1, BaseWhileRunning, KeepsNothing
      <4> QED
        BY <3>1, <4>2, NoReadOnEntry
    <3> QED
      BY <3>2, <3>3, <3>4 DEF TypeInv, TypeOK, ShellPc
  <2>3. p = Shell \/ p \in Stage
    BY PipelineAssumption DEF Proc, Stage, Shell
  <2> QED
    BY <2>1, <2>2, <2>3
<1> QED
  BY <1>1, PipelineInvariant, PTL

-----------------------------------------------------------------------------
(* Wiring.  While a command sets itself up, prev says whether there is a      *)
(* command before it that feeds it; and a descriptor is free for the dup()    *)
(* of its input, when there are enough for the heredocs and one pipe each     *)
(* side.                                                                      *)

EnoughFds == FdLimit >= N + 7

\* What feeds command p, once it is about to be launched.
Source(p) == IF p > 1 /\ Launched(p - 1) THEN Rd(p - 1) ELSE Tty

Fed(c, d) == c.prev = NoFd <=> d = Tty

\* Standard input is what it will be; the same for standard output.
InputDone(t, k, d, p) ==
  /\ k.in = "heredoc" => t[0] = File(p)
  /\ k.in = "file" => t[0] \in {File(p), Tty}
  /\ k.in = "pipe" => t[0] = d

OutputDone(t, k, p) ==
  k.in # "file" /\ k.out = "pipe" => t[1] = IF HasNext(p) THEN Wr(p) ELSE Tty

\* Standard output is still the terminal, and the pipe is there to replace it.
OutputAhead(t, c, k, p) ==
  /\ t[1] = Tty
  /\ HasNext(p) => /\ c.p0 \in Fd \ 0 .. 2 /\ c.p1 \in Fd \ 0 .. 2
                   /\ k.in # "file" => t[c.p1] = Wr(p)

NoBackups(t, c) == \A f \in Fd : f \in Backups(c) => t[f] = Closed

Running == {"exec", "read", "write"}

StageInv(p) ==
  /\ cpc[p] \in Unwired => Fed(ctx[p], Source(p))
  /\ cpc[p] \in {"redirect", "input"} => NoBackups(fdtab[p], ctx[p])
  /\ cpc[p] = "output" => /\ InputDone(fdtab[p], cmd[p], Source(p), p)
                          /\ OutputAhead(fdtab[p], ctx[p], cmd[p], p)
  /\ cpc[p] \in Running => /\ InputDone(fdtab[p], cmd[p], Source(p), p)
                           /\ OutputDone(fdtab[p], cmd[p], p)

HeredocsLow == \A p \in Stage : cmd[p].in = "heredoc" => fd_in[p] <= N + 2

ShellFed ==
  /\ spc = "setup" => cur = 1
  /\ spc \in {"launch", "fork", "parent"} => Fed(ctx[Shell], Source(cur))
  /\ spc = "parent" => Launched(cur)

WireInv == HeredocsLow /\ ShellFed /\ \A p \in Stage : StageInv(p)

LEMMA InitWire == Init => WireInv
<1> SUFFICES ASSUME Init PROVE WireInv
  OBVIOUS
<1>1. ShellFed /\ \A p \in Stage : StageInv(p)
  BY DEF Init, ShellFed, StageInv, Unwired, Running
<1>2. ASSUME NEW p \in Stage, cmd[p].in = "heredoc"
      PROVE  fd_in[p] <= N + 2
  <2> DEFINE P == {r \in 1 .. p - 1 : cmd[r].in = "heredoc"}
  <2>1. p \in Nat /\ p <= N /\ p >= 1
    BY PipelineAssumption DEF Stage
  <2>2. IsFiniteSet(1 .. p - 1) /\ Cardinality(1 .. p - 1) = p - 1
    <3>1. Cardinality(1 .. p - 1) = IF 1 > p - 1 THEN 0 ELSE (p - 1) - 1 + 1
      BY <2>1, FS_Interval
    <3> QED
      BY <2>1, <3>1, FS_Interval
  <2>3. Cardinality(P) \in Nat /\ Cardinality(P) <= p - 1
    <3>1. P \subseteq 1 .. p - 1
      OBVIOUS
    <3> HIDE DEF P
    <3> QED
      BY <2>2, <3>1, FS_Subset, FS_CardinalityType
  <2> HIDE DEF P
  <2>4. fd_in[p] = 3 + Cardinality(P)
    BY <1>2 DEF Init, HeredocFd, P
  <2> QED
    BY <2>1, <2>3, <2>4, PipelineAssumption
<1> QED
  BY <1>1, <1>2 DEF WireInv, HeredocsLow

\* Only a fork launches a command, and only the current one.
LEMMA LaunchedStays ==
  ASSUME TypeInv, JobInv, [Next]_vars
  PROVE  /\ ~Fork => \A p \in Stage : Launched(p)' <=> Launched(p)
         /\ Fork => /\ cur \in Stage /\ ~Launched(cur)
                    /\ \A p \in Stage \ {cur} : Launched(p)' <=> Launched(p)
<1> USE DEF Launched
<1>1. CASE ShellStep /\ ~Fork /\ ~WaitForChild
  <2>1. cpc' = cpc
    BY <1>1 DEF ShellStep, SetupPipeline, ExitBeforeLast, ExitLast, ExitRefused, CreatePipe,
         PipeFails, ForkFails, GiveUpCommand, ExecuteParentProcess, Cleanup, Return, childVars
  <2> QED
    BY <1>1, <2>1 DEF Fork
<1>2. CASE Fork
  <2>1. cur \in Stage /\ cpc[cur] = "none"
    BY <1>2, PipelineAssumption
    DEF Fork, ReadyToFork, AtCommand, TypeInv, AtStage, JobInv, FutureUnforked, Stage
  <2>2. cpc' = [cpc EXCEPT ![cur] = "start"]
    BY <1>2 DEF Fork
  <2> QED
    BY <1>2, <2>1, <2>2 DEF TypeInv, TypeOK
<1>3. CASE WaitForChild
  <2>1. \E p \in Stage : cpc[p] = "zombie" /\ cpc' = [cpc EXCEPT ![p] = "reaped"]
    BY <1>3, AwaitedIsStage DEF WaitForChild
  <2>2. ~Fork
    BY <1>3 DEF WaitForChild, Fork, ReadyToFork, AtCommand
  <2> QED
    BY <2>1, <2>2 DEF TypeInv, TypeOK
<1>4. ASSUME NEW p \in Stage, StageStep(p), ~Fork
      PROVE  \A q \in Stage : Launched(q)' <=> Launched(q)
  BY <1>4, StageProgresses DEF StageProgress, Alive, TypeInv, TypeOK
<1>5. CASE Interrupt /\ ~Fork
  BY <1>5 DEF Interrupt, Interruptible, TypeInv, TypeOK, Fork
<1>6. CASE UNCHANGED vars /\ ~Fork
  BY <1>6 DEF vars, childVars, shellVars
<1>7. CASE \E p \in Stage : StageStep(p)
  BY <1>2, <1>4, <1>7
<1> QED
  BY <1>1, <1>2, <1>3, <1>5, <1>6, <1>7 DEF Next, Over

\* So what feeds a command that is launched, or about to be, stays.
LEMMA SourceStays ==
  ASSUME TypeInv, JobInv, [Next]_vars, NEW p \in Stage,
         Launched(p) \/ p = cur \/ ~Fork
  PROVE  Source(p)' = Source(p)
<1>1. p > 1 => p - 1 \in Stage
  BY PipelineAssumption DEF Stage
<1>2. CASE ~Fork
  BY <1>1, <1>2, LaunchedStays DEF Source
<1>3. CASE Fork
  <2>1. p <= cur
    BY <1>3, PipelineAssumption
    DEF Fork, ReadyToFork, AtCommand, JobInv, FutureUnforked, Launched, Stage, TypeInv,
        AtStage
  <2>2. p > 1 => p - 1 # cur
    BY <1>3, <2>1, PipelineAssumption, LaunchedStays DEF Stage
  <2> QED
    BY <1>1, <1>3, <2>2, LaunchedStays DEF Source
<1> QED
  BY <1>2, <1>3

\* What a step that leaves stage p alone keeps of it.
LEMMA StageInvStays ==
  ASSUME TypeInv, JobInv, [Next]_vars, NEW p \in Stage, StageInv(p),
         fdtab'[p] = fdtab[p], ctx'[p] = ctx[p], cpc'[p] = cpc[p]
  PROVE  StageInv(p)'
<1>1. cmd' = cmd
  BY EntryStays
<1>2. cpc[p] \in Unwired \cup {"output"} \cup Running => Source(p)' = Source(p)
  BY SourceStays DEF Unwired, Running, Launched
<1> QED
  BY <1>1, <1>2 DEF StageInv

LEMMA ShellStaysFed ==
  TypeInv /\ JobInv /\ PipeInv /\ ShellFed /\ [Next]_vars => ShellFed'
<1> SUFFICES ASSUME TypeInv, JobInv, PipeInv, ShellFed, [Next]_vars PROVE ShellFed'
  OBVIOUS
<1>1. spc \in {"setup", "launch", "fork", "parent"} => cur \in Stage
  BY DEF TypeInv, AtStage
<1>2. spc \in {"launch", "fork"} => ~Launched(cur)
  BY <1>1, PipelineAssumption DEF JobInv, FutureUnforked, Launched, Stage
<1>3. CASE UNCHANGED <<spc, cur>> /\ ctx'[Shell] = ctx[Shell] /\ ~Fork
  <2>1. cur \in Stage => Source(cur)' = Source(cur) /\ (Launched(cur)' <=> Launched(cur))
    BY <1>3, SourceStays, LaunchedStays DEF Source
  <2> QED
    BY <1>1, <1>3, <2>1 DEF ShellFed
<1>4. CASE SetupPipeline
  <2>1. ctx'[Shell].prev = NoFd
    <3>1. PICK a, o, e : ShellCtx([NoCtx EXCEPT !.bin = a, !.bout = o, !.berr = e])
      BY <1>4 DEF SetupPipeline
    <3> DEFINE d == [NoCtx EXCEPT !.bin = a, !.bout = o, !.berr = e]
    <3>2. d.prev = NoFd
      BY DEF NoCtx
    <3> HIDE DEF d
    <3>3. ShellCtx(d)
      BY <3>1 DEF d
    <3> QED
      BY <3>2, <3>3, ShellUpdates
  <2>2. cur' = 1 /\ spc' = "launch"
    BY <1>4 DEF SetupPipeline, ShellFed
  <2> QED
    BY <2>1, <2>2 DEF ShellFed, Fed, Source
<1>5. CASE CreatePipe
  <2>1. ctx'[Shell].prev = ctx[Shell].prev
    <3>1. PICK f, g : ShellCtx([ctx[Shell] EXCEPT !.p0 = f, !.p1 = g])
      BY <1>5 DEF CreatePipe
    <3> DEFINE d == [ctx[Shell] EXCEPT !.p0 = f, !.p1 = g]
    <3>2. d.prev = ctx[Shell].prev
      BY UpdateTypes DEF Ctx
    <3> HIDE DEF d
    <3>3. ShellCtx(d)
      BY <3>1 DEF d
    <3> QED
      BY <3>2, <3>3, ShellUpdates
  <2>2. cur' = cur /\ spc = "launch" /\ spc' = "fork" /\ ~Fork
    BY <1>5 DEF CreatePipe, AtCommand, Fork
  <2>3. Source(cur)' = Source(cur)
    BY <1>1, <2>2, SourceStays DEF Source
  <2> QED
    BY <2>1, <2>2, <2>3 DEF ShellFed, Fed
<1>6. CASE GiveUpCommand /\ spc \in {"launch", "fork"}
  <2>1. ctx'[Shell].prev = NoFd
    BY <1>6, ShellUpdates, UpdateTypes, ForgottenIsNoCtx DEF GiveUpCommand, NoCtx
  <2>2. spc' \in {"launch", "cleanup"} /\ cur' = cur + 1 /\ cpc' = cpc
    BY <1>6 DEF GiveUpCommand, NextCommand, childVars
  <2>3. Source(cur)' = Tty
    <3>1. cur' - 1 = cur
      BY <1>1, <1>6, <2>2, PipelineAssumption DEF Stage
    <3>2. cpc'[cur' - 1] = "none"
      BY <1>2, <1>6, <2>2, <3>1 DEF Launched
    <3> QED
      BY <3>2 DEF Source, Launched
  <2> QED
    BY <2>1, <2>2, <2>3 DEF ShellFed, Fed
<1>7. CASE Fork
  <2>1. /\ spc' = "parent" /\ cur' = cur /\ cpc' = [cpc EXCEPT ![cur] = "start"]
        /\ ctx'[Shell] = ctx[Shell] /\ spc \in {"launch", "fork"} /\ cur \in Stage
    BY <1>1, <1>7, StageProc DEF Fork, ReadyToFork, AtCommand, TypeInv, TypeOK
  <2>2. Source(cur)' = Source(cur)
    BY <2>1, SourceStays DEF Source
  <2>3. Launched(cur)'
    BY <2>1 DEF Launched, TypeInv, TypeOK
  <2> QED
    BY <2>1, <2>2, <2>3 DEF ShellFed
<1>8. CASE ExecuteParentProcess
  <2>1. spc = "parent" /\ cur \in Stage /\ Launched(cur) /\ cpc' = cpc
    BY <1>1, <1>8 DEF ExecuteParentProcess, ShellFed, childVars
  <2>2. CASE exit_requested \/ ~HasNext(cur)
    BY <1>8, <2>2 DEF ExecuteParentProcess, NextCommand, ShellFed
  <2>3. CASE ~exit_requested /\ HasNext(cur)
    <3>1. /\ ShellCtx([ctx[Shell] EXCEPT !.prev = ctx[Shell].p0])
          /\ spc' = "launch" /\ cur' = cur + 1
      BY <1>8, <2>3 DEF ExecuteParentProcess, NextCommand
    <3>2. ctx'[Shell].prev # NoFd
      BY <2>1, <2>3, <3>1, ShellUpdates, UpdateTypes, StdFds
      DEF PipeInv, ShellPipes, Wires, Made, Ctx
    <3>3. cur' > 1 /\ cur' - 1 = cur
      BY <2>1, <3>1, PipelineAssumption DEF Stage
    <3>4. Source(cur)' # Tty
      BY <2>1, <3>3, EndsDiffer DEF Source, Launched
    <3> QED
      BY <3>1, <3>2, <3>4 DEF ShellFed, Fed
  <2> QED
    BY <2>2, <2>3
<1>9. CASE ExitBeforeLast \/ ExitLast \/ ExitRefused \/ Cleanup \/ Return
  BY <1>9 DEF ExitBeforeLast, ExitLast, ExitRefused, Cleanup, Return, ShellFed
<1>10. CASE WaitForChild \/ Interrupt \/ UNCHANGED vars
  <2>1. UNCHANGED <<spc, cur>> /\ ctx' = ctx
    BY <1>10 DEF WaitForChild, Interrupt, vars, shellVars
  <2> QED
    BY <1>3, <1>7, <2>1
<1>11. CASE \E p \in Stage : StageStep(p)
  <2>1. UNCHANGED <<spc, cur>> /\ ctx'[Shell] = ctx[Shell]
    BY <1>11, StageKeepsShell DEF shellVars
  <2> QED
    BY <1>3, <1>7, <2>1
<1>12. PipeFails \/ ForkFails => GiveUpCommand /\ spc \in {"launch", "fork"}
  BY DEF PipeFails, ForkFails, ReadyToFork, AtCommand
<1> QED
  BY <1>4, <1>5, <1>6, <1>7, <1>8, <1>9, <1>10, <1>11, <1>12 DEF Next, ShellStep, Over

\* A stage that has not wired its input has the terminal on its standard
\* descriptors, its pipes above them, and its heredoc apart from both.
LEMMA UnwiredTable ==
  ASSUME TypeInv, HeredocOpen, PipeInv, NEW p \in Stage, cpc[p] \in Unwired
  PROVE  /\ fdtab[p][0] = Tty /\ fdtab[p][1] = Tty
         /\ {0, 1, 2} \cap PipeFds(ctx[p]) = {}
         /\ ctx[p].prev # NoFd => ctx[p].prev \in Fd /\ fdtab[p][ctx[p].prev] = Rd(p - 1)
         /\ HasNext(p) => /\ ctx[p].p0 \in Fd \ 0 .. 2 /\ ctx[p].p1 \in Fd \ 0 .. 2
                          /\ fdtab[p][ctx[p].p1] = Wr(p)
         /\ cmd[p].in = "heredoc" => /\ fd_in[p] \in Fd /\ fdtab[p][fd_in[p]] = File(p)
                                     /\ fd_in[p] \notin PipeFds(ctx[p])
<1> DEFINE t == fdtab[p]
           c == ctx[p]
<1>1. Keeps(t, c, EntryTable) /\ Wires(t, c, p) /\ c \in Ctx
  BY StageTypes DEF PipeInv, FreshStages
<1>2. HasStd(EntryTable)
  BY EntryStd DEF TypeInv, TypeOK
<1>3. cmd[p].in = "heredoc" => fd_in[p] \in Fd /\ EntryTable[fd_in[p]] = File(p)
  BY DEF HeredocOpen
<1>4. File(p) # Closed
  BY DEF File, Closed
<1> HIDE DEF t, c
<1>5. \A f \in Fd : EntryTable[f] # Closed => t[f] = EntryTable[f] /\ f \notin PipeFds(c)
  BY <1>1 DEF Keeps, Own
<1>6. t[0] = Tty /\ t[1] = Tty /\ 0 \notin PipeFds(c) /\ 1 \notin PipeFds(c) /\ 2 \notin PipeFds(c)
  BY <1>2, <1>5, StdFds DEF HasStd
<1>7. c.prev # NoFd => c.prev \in Fd /\ t[c.prev] = Rd(p - 1)
  BY <1>1 DEF Wires, FromPrev, Ctx
<1>8. HasNext(p) => /\ c.p0 \in Fd \ 0 .. 2 /\ c.p1 \in Fd \ 0 .. 2
                    /\ t[c.p1] = Wr(p)
  BY <1>1, <1>6 DEF Wires, Made, PipeFds, Fd
<1>9. cmd[p].in = "heredoc" => t[fd_in[p]] = File(p) /\ fd_in[p] \notin PipeFds(c)
  BY <1>3, <1>4, <1>5
<1> QED
  BY <1>3, <1>6, <1>7, <1>8, <1>9 DEF t, c

\* Of the four numbers above every heredoc at most three are pipe ends.
LEMMA InputCanDup ==
  ASSUME EnoughFds, TypeInv, PipeInv, WireInv, NEW p \in Stage, cpc[p] = "input"
  PROVE  FreeFds(fdtab[p]) # {}
<1> DEFINE t == fdtab[p]
           c == ctx[p]
           Spare == N + 3 .. N + 6
<1>1. N \in Nat /\ Spare \subseteq Fd /\ \A f \in Spare : f > N + 2 /\ f > 2
  BY PipelineAssumption, FdLimitAssumption DEF EnoughFds, Fd
<1>2. Keeps(t, c, EntryTable) /\ NoBackups(t, c)
  BY DEF PipeInv, FreshStages, Unwired, WireInv, StageInv
<1>3. \A f \in Spare, q \in Stage : ~IsHeredoc(q, f)
  BY <1>1 DEF WireInv, HeredocsLow, IsHeredoc
<1>4. \A f \in Spare : EntryTable[f] = Closed
  BY <1>1, <1>3 DEF EntryTable
<1>5. \A f \in Spare : f \notin PipeFds(c) => t[f] = Closed
  BY <1>1, <1>2, <1>4 DEF Keeps, NoBackups, Own
<1>6. \E f \in Spare : f \notin {c.prev, c.p0, c.p1}
  <2>1. {N + 3, N + 4, N + 5, N + 6} \subseteq Spare
    BY <1>1
  <2>2. \A x, y, z : \E f \in {N + 3, N + 4, N + 5, N + 6} : f # x /\ f # y /\ f # z
    BY <1>1
  <2> QED
    BY <2>1, <2>2
<1> QED
  BY <1>1, <1>5, <1>6 DEF FreeFds, PipeFds

LEMMA StartInv ==
  ASSUME TypeInv, JobInv, PipeInv, WireInv, [Next]_vars, NEW p \in Stage,
         StageStart(p) \/ RedirectsPass(p) \/ RedirectFails(p)
  PROVE  StageInv(p)'
<1>1. Source(p)' = Source(p)
  BY SourceStays DEF StageStart, RedirectsPass, RedirectFails, Launched
<1>2. StageInv(p)
  BY DEF WireInv
<1>3. CASE StageStart(p)
  <2>1. /\ fdtab'[p] = CloseAll(fdtab[p], Backups(ctx[p])) /\ ctx'[p] = ctx[p]
        /\ cpc'[p] = "redirect" /\ cpc[p] = "start"
    BY <1>3, StageProc DEF StageStart, Continue, Moves, TypeInv, TypeOK
  <2>2. NoBackups(fdtab'[p], ctx'[p])
    BY <2>1 DEF NoBackups, CloseAll
  <2> QED
    BY <1>1, <1>2, <2>1, <2>2 DEF StageInv, Unwired, Running
<1>4. CASE RedirectsPass(p)
  <2>1. /\ fdtab'[p] = fdtab[p] /\ ctx'[p] = ctx[p]
        /\ cpc'[p] = "input" /\ cpc[p] = "redirect"
    BY <1>4, StageProc DEF RedirectsPass, Continue, Moves, TypeInv, TypeOK
  <2> QED
    BY <1>1, <1>2, <2>1 DEF StageInv, Unwired, Running
<1>5. CASE RedirectFails(p)
  <2>1. cpc'[p] = "zombie"
    BY <1>5 DEF RedirectFails, Die, Moves, TypeInv, TypeOK
  <2> QED
    BY <2>1 DEF StageInv, Unwired, Running
<1> QED
  BY <1>3, <1>4, <1>5

\* Whatever wires the input leaves the stage ready to wire its output.
LEMMA InputLeaves ==
  ASSUME TypeInv, JobInv, [Next]_vars, NEW p \in Stage, Launched(p),
         NEW u, Continue(p, u, "output"), ctx' = ctx \/ ForgetPrev(p),
         InputDone(u, cmd[p], Source(p), p), OutputAhead(u, ctx[p], cmd[p], p)
  PROVE  StageInv(p)'
<1>1. Source(p)' = Source(p) /\ cmd' = cmd
  BY SourceStays, EntryStays
<1>2. fdtab'[p] = u /\ cpc'[p] = "output"
  BY StageProc DEF Continue, Moves, TypeInv, TypeOK
<1>3. ctx'[p].p0 = ctx[p].p0 /\ ctx'[p].p1 = ctx[p].p1
  BY StageTypes DEF ForgetPrev, Ctx
<1>4. OutputAhead(u, ctx'[p], cmd[p], p)
  BY <1>3 DEF OutputAhead
<1> QED
  BY <1>1, <1>2, <1>4 DEF StageInv, Unwired, Running

LEMMA InputInv ==
  ASSUME EnoughFds, TypeInv, JobInv, HeredocOpen, PipeInv, WireInv, [Next]_vars,
         NEW p \in Stage,
         InputKept(p) \/ InputFromPipe(p) \/ InputFromRedirect(p) \/ InputRedirectFails(p)
  PROVE  StageInv(p)'
<1> DEFINE t == fdtab[p]
           c == ctx[p]
           b == Dup(t, 0)
<1>0. cpc[p] = "input" /\ cpc[p] \in Unwired /\ Launched(p)
  BY DEF InputKept, InputFromPipe, InputFromRedirect, InputRedirectFails, Unwired, Launched
<1>1. /\ t \in Table(Entry) /\ c \in Ctx /\ t[0] = Tty /\ t[1] = Tty
      /\ {0, 1, 2} \cap PipeFds(c) = {}
      /\ c.prev # NoFd => c.prev \in Fd /\ t[c.prev] = Rd(p - 1)
      /\ HasNext(p) => /\ c.p0 \in Fd \ 0 .. 2 /\ c.p1 \in Fd \ 0 .. 2
                       /\ t[c.p1] = Wr(p)
      /\ cmd[p].in = "heredoc" => /\ fd_in[p] \in Fd /\ t[fd_in[p]] = File(p)
                                  /\ fd_in[p] \notin PipeFds(c)
  BY <1>0, StageTypes, UnwiredTable
<1>2. Fed(c, Source(p)) /\ (c.prev # NoFd => Source(p) = Rd(p - 1))
  BY <1>0 DEF WireInv, StageInv, Source, Fed
<1>3. FreeFds(t) # {}
  BY <1>0, InputCanDup
<1>4. /\ b.fd \in Fd /\ b.tab \in Table(Entry) /\ b.fd # NoFd
      /\ \A x \in Fd : t[x] # Closed => b.tab[x] = t[x]
  BY <1>1, <1>3, StdFds, DupSucceeds, DupKeepsOpen, DupTable
<1>5. Rd(p - 1) # Closed /\ Wr(p) # Closed /\ File(p) # Closed /\ Tty # Closed
      /\ Rd(p - 1) # Wr(p) /\ File(p) # Tty /\ File(p) # Wr(p)
  BY DEF Rd, Wr, File, Tty, Closed
<1>6. /\ b.tab[0] = Tty /\ b.tab[1] = Tty
      /\ c.prev # NoFd => b.tab[c.prev] = Rd(p - 1)
      /\ HasNext(p) => b.tab[c.p1] = Wr(p)
      /\ cmd[p].in = "heredoc" => b.tab[fd_in[p]] = File(p)
  BY <1>1, <1>4, <1>5, StdFds
<1> HIDE DEF t, c, b
<1>7. CASE InputKept(p)
  <2>1. /\ InputDone(t, cmd[p], Source(p), p) /\ OutputAhead(t, c, cmd[p], p)
    BY <1>1, <1>2, <1>7 DEF InputKept, InputDone, OutputAhead, Fed, c
  <2> QED
    BY <1>0, <1>7, <2>1, InputLeaves DEF InputKept, t, c
<1>8. CASE InputFromPipe(p)
  <2> DEFINE d == Dup2(b.tab, c.prev, 0)
             u == CloseAll(d, {c.prev})
  <2>1. c.prev # NoFd /\ cmd[p].in = "pipe"
    BY <1>8 DEF InputFromPipe, c
  <2>2. Continue(p, u, "output") /\ ForgetPrev(p)
    BY <1>4, <1>8 DEF InputFromPipe, b, c, t
  <2>3. d = [b.tab EXCEPT ![0] = Rd(p - 1)]
    BY <1>1, <1>5, <1>6, <2>1 DEF Dup2, IsOpen
  <2>4. d[0] = Rd(p - 1) /\ \A x \in Fd : x # 0 => d[x] = b.tab[x]
    BY <1>4, <2>3, StdFds DEF Table
  <2>5. c.prev \notin {0, 1}
    BY <1>1 DEF PipeFds
  <2> HIDE DEF d
  <2>6. \A x \in Fd : x # c.prev => u[x] = d[x]
    BY DEF CloseAll
  <2> HIDE DEF u
  <2>7. u[0] = Rd(p - 1) /\ u[1] = Tty
    BY <1>6, <2>4, <2>5, <2>6, StdFds
  <2>8. HasNext(p) => u[c.p1] = Wr(p)
    BY <1>1, <1>5, <1>6, <2>1, <2>4, <2>6
  <2>9. InputDone(u, cmd[p], Source(p), p) /\ OutputAhead(u, c, cmd[p], p)
    BY <1>1, <1>2, <2>1, <2>7, <2>8 DEF InputDone, OutputAhead
  <2> QED
    BY <1>0, <2>2, <2>9, InputLeaves DEF c
<1>9. CASE InputFromRedirect(p) /\ FileIn(p)
  <2> DEFINE f == Alloc(b.tab, File(p))
             d == Dup2(f.tab, f.fd, 0)
             u == CloseAll(d, {f.fd})
  <2>1. f.fd # NoFd /\ Continue(p, u, "output") /\ ctx' = ctx /\ cmd[p].in = "file"
    BY <1>9 DEF InputFromRedirect, FileIn, b, t
  <2>2. /\ f.fd \in Fd /\ f.tab \in Table(Entry) /\ f.tab[f.fd] = File(p)
        /\ f.fd # 0 /\ f.fd # 1 /\ f.tab[1] = Tty
    <3>1. /\ f.tab \in Table(Entry) /\ f.fd \in Fd \cup {NoFd}
          /\ f.fd \in Fd => f.tab[f.fd] = File(p)
      <4>1. ReadOnlyAt(b.tab, p, Fd)
        BY DEF ReadOnlyAt
      <4> QED
        BY <1>4, <4>1, AllocFileRead, AllocTable
    <3>2. f.fd # 0 /\ f.fd # 1 /\ f.tab[1] = Tty
      BY <1>4, <1>5, <1>6, StdFds, AllocKeepsOpen
    <3> QED
      BY <2>1, <3>1, <3>2
  <2> HIDE DEF f
  <2>3. d = [f.tab EXCEPT ![0] = File(p)]
    BY <1>5, <2>2 DEF Dup2, IsOpen
  <2>4. d[0] = File(p) /\ d[1] = Tty
    BY <2>2, <2>3, StdFds DEF Table
  <2> HIDE DEF d
  <2>5. u[0] = File(p) /\ u[1] = Tty
    BY <2>2, <2>4, StdFds DEF CloseAll
  <2> HIDE DEF u
  <2>6. InputDone(u, cmd[p], Source(p), p) /\ OutputAhead(u, c, cmd[p], p)
    BY <1>1, <2>1, <2>5 DEF InputDone, OutputAhead
  <2> QED
    BY <1>0, <2>1, <2>6, InputLeaves DEF c
<1>10. CASE InputFromRedirect(p) /\ ~FileIn(p)
  <2> DEFINE x == fd_in[p]
             d == Dup2(b.tab, x, 0)
             u == CloseAll(d, {x})
  <2>1. cmd[p].in = "heredoc"
    <3>1. cmd[p] \in Command
      BY PipelineAssumption DEF TypeInv, TypeOK
    <3> QED
      BY <1>10, <3>1 DEF InputFromRedirect, FileIn, Command
  <2>2. Continue(p, u, "output") /\ ctx' = ctx
    BY <1>10 DEF InputFromRedirect, b, t
  <2>3. x \in Fd /\ b.tab[x] = File(p) /\ x # 0 /\ x # 1
        /\ (HasNext(p) => x # c.p1 /\ c.p1 # 0 /\ c.p1 \in Fd)
    BY <1>1, <1>5, <1>6, <2>1
  <2> HIDE DEF x
  <2>4. d = [b.tab EXCEPT ![0] = File(p)]
    BY <1>5, <2>3 DEF Dup2, IsOpen
  <2>5. d[0] = File(p) /\ d[1] = Tty /\ (HasNext(p) => d[c.p1] = Wr(p))
    BY <1>4, <1>6, <2>3, <2>4, StdFds DEF Table
  <2> HIDE DEF d
  <2>6. u[0] = File(p) /\ u[1] = Tty /\ (HasNext(p) => u[c.p1] = Wr(p))
    BY <2>3, <2>5, StdFds DEF CloseAll
  <2> HIDE DEF u
  <2>7. InputDone(u, cmd[p], Source(p), p) /\ OutputAhead(u, c, cmd[p], p)
    BY <1>1, <2>1, <2>6 DEF InputDone, OutputAhead
  <2> QED
    BY <1>0, <2>2, <2>7, InputLeaves DEF c
<1>11. CASE InputRedirectFails(p)
  <2> DEFINE u == CloseAll(t, PipesOf(p))
  <2>1. cmd[p].in = "file" /\ Continue(p, u, "output") /\ ForgetPrev(p)
    BY <1>3, <1>11 DEF InputRedirectFails, FileIn, t
  <2>2. {0, 1} \cap PipesOf(p) = {}
    BY <1>1 DEF PipesOf, PipeFds, c
  <2>3. u[0] = Tty /\ u[1] = Tty
    BY <1>1, <2>2, StdFds DEF CloseAll
  <2> HIDE DEF u
  <2>4. InputDone(u, cmd[p], Source(p), p) /\ OutputAhead(u, c, cmd[p], p)
    BY <1>1, <2>1, <2>3 DEF InputDone, OutputAhead
  <2> QED
    BY <1>0, <2>1, <2>4, InputLeaves DEF c
<1> QED
  BY <1>7, <1>8, <1>9, <1>10, <1>11

\* The pipe on standard output, and standard input left as it is.
LEMMA AfterPipeDone ==
  ASSUME TypeInv, NEW p \in Stage, CanSetOutput(p), fdtab[p][0] # Closed,
         OutputAhead(fdtab[p], ctx[p], cmd[p], p)
  PROVE  /\ AfterPipe(p)[0] = fdtab[p][0]
         /\ cmd[p].in # "file" => AfterPipe(p)[1] = IF HasNext(p) THEN Wr(p) ELSE Tty
<1> DEFINE t == fdtab[p]
           c == ctx[p]
           b == Dup(t, 1)
           ends == {c.p0, c.p1}
           d == Dup2(b.tab, c.p1, 1)
<1>1. t \in Table(Entry) /\ t[1] = Tty /\ t[0] # Closed
  BY StageTypes DEF OutputAhead
<1>2. CASE ~HasNext(p)
  BY <1>1, <1>2 DEF AfterPipe
<1>3. CASE HasNext(p)
  <2>1. FreeFds(t) # {}
    BY <1>3 DEF CanSetOutput
  <2>2. /\ c.p0 \in Fd \ 0 .. 2 /\ c.p1 \in Fd \ 0 .. 2
        /\ cmd[p].in # "file" => t[c.p1] = Wr(p)
    BY <1>3 DEF OutputAhead
  <2>3. Wr(p) # Closed /\ Tty # Closed
    BY DEF Wr, Tty, Closed
  <2>4. /\ b.fd \in Fd /\ b.tab \in Table(Entry) /\ b.fd # 0
        /\ \A x \in Fd : t[x] # Closed => b.tab[x] = t[x]
    <3>1. b.fd \in Fd
      BY <1>1, <2>1, <2>3, StdFds, DupSucceeds
    <3>2. \A x \in Fd : t[x] # Closed => b.tab[x] = t[x] /\ b.fd # x
      BY <1>1, DupKeepsOpen
    <3>3. b.tab \in Table(Entry)
      BY <1>1, DupTable
    <3> HIDE DEF b, t
    <3> QED
      BY <1>1, <3>1, <3>2, <3>3, StdFds
  <2> HIDE DEF t, b, c
  <2>5. b.tab[0] = t[0] /\ (cmd[p].in # "file" => b.tab[c.p1] = Wr(p))
    BY <1>1, <2>2, <2>3, <2>4, StdFds
  <2>6. AfterPipe(p) = IF IsOpen(b.tab, c.p1) THEN CloseAll(d, ends)
                       ELSE CloseAll(b.tab, ends \cup {b.fd})
    BY <1>3 DEF AfterPipe, b, c, t
  <2>7. CASE IsOpen(b.tab, c.p1)
    <3>1. d = [b.tab EXCEPT ![1] = b.tab[c.p1]]
      BY <2>7 DEF Dup2
    <3>2. d[0] = t[0] /\ (cmd[p].in # "file" => d[1] = Wr(p))
      BY <2>4, <2>5, <3>1, StdFds DEF Table
    <3> HIDE DEF d
    <3>3. AfterPipe(p)[0] = d[0] /\ AfterPipe(p)[1] = d[1]
      BY <2>2, <2>6, <2>7, StdFds DEF CloseAll
    <3> QED
      BY <1>3, <3>2, <3>3 DEF t
  <2>8. CASE ~IsOpen(b.tab, c.p1)
    <3>1. cmd[p].in = "file"
      BY <2>2, <2>3, <2>5, <2>8 DEF IsOpen
    <3>2. AfterPipe(p)[0] = b.tab[0]
      BY <2>2, <2>4, <2>6, <2>8, StdFds DEF CloseAll
    <3> QED
      BY <2>5, <3>1, <3>2 DEF t
  <2> QED
    BY <2>7, <2>8
<1> QED
  BY <1>2, <1>3

\* A stage that ends up in its program, or dies.
LEMMA RunningLeaves ==
  ASSUME TypeInv, JobInv, [Next]_vars, NEW p \in Stage, Launched(p),
         NEW u, NEW pc \in Running \cup {"finish"}, Moves(p, u, pc),
         InputDone(u, cmd[p], Source(p), p), OutputDone(u, cmd[p], p)
  PROVE  StageInv(p)'
<1>1. Source(p)' = Source(p) /\ cmd' = cmd
  BY SourceStays, EntryStays
<1>2. fdtab'[p] = u /\ cpc'[p] = pc
  BY StageProc DEF Moves, TypeInv, TypeOK
<1>3. OutputDone(u, cmd'[p], p)
  BY <1>1
<1> QED
  BY <1>1, <1>2, <1>3 DEF StageInv, Unwired, Running

LEMMA DieLeaves ==
  ASSUME TypeInv, NEW p \in Stage, NEW c, Die(p, c)
  PROVE  StageInv(p)'
<1>1. cpc'[p] = "zombie"
  BY DEF Die, Moves, TypeInv, TypeOK
<1> QED
  BY <1>1 DEF StageInv, Unwired, Running

LEMMA OutputInv ==
  ASSUME TypeInv, JobInv, WireInv, [Next]_vars, NEW p \in Stage,
         OutputDupFails(p) \/ OutputReady(p) \/ OutputToFile(p) \/ OutputFileFails(p)
  PROVE  StageInv(p)'
<1> DEFINE a == AfterPipe(p)
<1>0. cpc[p] = "output" /\ Launched(p)
  BY DEF OutputDupFails, OutputReady, OutputToFile, OutputFileFails, CanSetOutput, Launched
<1>1. InputDone(fdtab[p], cmd[p], Source(p), p) /\ OutputAhead(fdtab[p], ctx[p], cmd[p], p)
  BY <1>0 DEF WireInv, StageInv
<1>2. fdtab[p][0] # Closed
  <2>1. cmd[p].in \in {"pipe", "file", "heredoc"}
    <3>1. cmd[p] \in Command
      BY PipelineAssumption DEF TypeInv, TypeOK
    <3> QED
      BY <3>1 DEF Command
  <2>2. Source(p) # Closed /\ File(p) # Closed /\ Tty # Closed
    BY DEF Source, Rd, File, Tty, Closed
  <2> QED
    BY <1>1, <2>1, <2>2 DEF InputDone
<1>3. CanSetOutput(p) =>
        /\ a[0] = fdtab[p][0] /\ a \in Table(Entry)
        /\ cmd[p].in # "file" => a[1] = IF HasNext(p) THEN Wr(p) ELSE Tty
  BY <1>1, <1>2, AfterPipeDone, AfterPipeTable
<1> HIDE DEF a
<1>4. CanSetOutput(p) => InputDone(a, cmd[p], Source(p), p) /\ OutputDone(a, cmd[p], p)
  BY <1>1, <1>3 DEF InputDone, OutputDone
<1>5. CASE OutputDupFails(p)
  BY <1>5, DieLeaves DEF OutputDupFails
<1>6. CASE OutputReady(p) \/ OutputFileFails(p)
  <2>1. CanSetOutput(p) /\ Moves(p, a, "exec") /\ "exec" \in Running
    BY <1>6 DEF OutputReady, OutputFileFails, Continue, Running, a
  <2> QED
    BY <1>0, <1>4, <2>1, RunningLeaves
<1>7. CASE OutputToFile(p)
  <2> DEFINE b == Dup(a, 1)
             f == Alloc(b.tab, File(p))
             d == Dup2(f.tab, f.fd, 1)
             u == CloseAll(d, {f.fd})
  <2>1. /\ CanSetOutput(p) /\ Moves(p, u, "exec") /\ "exec" \in Running
        /\ cmd[p].out = "file"
    BY <1>7 DEF OutputToFile, Continue, Running, FileOut, a
  <2>2. b.tab \in Table(Entry) /\ b.tab[0] = fdtab[p][0]
    BY <1>2, <1>3, <2>1, StdFds, DupKeepsOpen, DupTable
  <2> HIDE DEF b
  <2>3. f.tab \in Table(Entry) /\ f.tab[0] = fdtab[p][0] /\ f.fd # 0
    <3>1. File(p) \in Entry
      BY EntryFacts
    <3>2. f.tab \in Table(Entry)
      BY <2>2, <3>1, AllocTable
    <3>3. f.tab[0] = b.tab[0] /\ f.fd # 0
      BY <1>2, <2>2, StdFds, AllocKeepsOpen
    <3> QED
      BY <2>2, <3>2, <3>3
  <2> HIDE DEF f
  <2>4. d[0] = fdtab[p][0]
    BY <2>3, StdFds DEF Dup2, Table
  <2> HIDE DEF d
  <2>5. u[0] = fdtab[p][0]
    BY <2>3, <2>4, StdFds DEF CloseAll
  <2> HIDE DEF u
  <2>6. InputDone(u, cmd[p], Source(p), p) /\ OutputDone(u, cmd[p], p)
    BY <1>1, <2>1, <2>5 DEF InputDone, OutputDone
  <2> QED
    BY <1>0, <2>1, <2>6, RunningLeaves
<1> QED
  BY <1>5, <1>6, <1>7

LEMMA ProgramInv ==
  ASSUME TypeInv, JobInv, WireInv, [Next]_vars, NEW p \in Stage,
         \/ NotFound(p) \/ Exec(p) \/ NoWord(p)
         \/ EndOfInput(p) \/ WriteElsewhere(p) \/ Finish(p)
         \/ \E q \in Stage : Read(p, q) \/ Write(p, q) \/ BrokenPipe(p, q)
  PROVE  StageInv(p)'
<1>1. cpc[p] \in Running \/ Finish(p)
  BY DEF NotFound, Exec, NoWord, EndOfInput, WriteElsewhere, Read, Reads, Write,
         Writes, BrokenPipe, Running
<1>2. cpc[p] \in Running =>
        /\ InputDone(fdtab[p], cmd[p], Source(p), p) /\ OutputDone(fdtab[p], cmd[p], p)
        /\ Launched(p)
  BY DEF WireInv, StageInv, Running, Launched
<1>3. \/ \E c : Die(p, c)
      \/ \E pc \in Running \cup {"finish"} : Moves(p, fdtab[p], pc) /\ ~Finish(p)
  BY DEF NotFound, Exec, NoWord, EndOfInput, WriteElsewhere, Finish, Read, Reads, Write,
         Writes, BrokenPipe, Transfer, Continue, AfterWrite, Running
<1> QED
  BY <1>1, <1>2, <1>3, DieLeaves, RunningLeaves

LEMMA NextWire ==
  ASSUME EnoughFds
  PROVE  TypeInv /\ JobInv /\ HeredocOpen /\ PipeInv /\ WireInv /\ [Next]_vars => WireInv'
<1> SUFFICES ASSUME TypeInv, JobInv, HeredocOpen, PipeInv, WireInv, [Next]_vars
             PROVE  WireInv'
  OBVIOUS
<1>1. HeredocsLow'
  BY EntryStays DEF WireInv, HeredocsLow
<1>2. ShellFed'
  BY ShellStaysFed DEF WireInv
<1>3. ASSUME NEW p \in Stage, cpc'[p] \in {"zombie", "reaped"} PROVE StageInv(p)'
  BY <1>3 DEF StageInv, Unwired, Running
<1>4. ASSUME NEW p \in Stage PROVE StageInv(p)'
  <2> USE DEF WireInv
  <2>1. CASE StageStep(p)
    BY <2>1, StartInv, InputInv, OutputInv, ProgramInv DEF StageStep
  <2>2. CASE \E r \in Stage \ {p} : StageStep(r)
    <3>1. fdtab'[p] = fdtab[p] /\ ctx'[p] = ctx[p] /\ cpc'[p] = cpc[p]
      BY <2>2, StageKeepsShell
    <3> QED
      BY <3>1, StageInvStays
  <2>3. CASE Interrupt
    <3>1. ctx' = ctx
      BY <2>3 DEF Interrupt
    <3>2. \/ cpc'[p] = "zombie"
          \/ fdtab'[p] = fdtab[p] /\ cpc'[p] = cpc[p]
      BY <2>3, StageProc DEF Interrupt, TypeInv, TypeOK
    <3> QED
      BY <1>3, <3>1, <3>2, StageInvStays
  <2>4. CASE Fork
    <3>1. CASE p = cur
      <4>1. /\ ctx'[p] = ctx[Shell] /\ cpc'[p] = "start"
            /\ spc \in {"launch", "fork"}
        BY <2>4, <3>1, StageProc DEF Fork, ReadyToFork, AtCommand, TypeInv, TypeOK
      <4>2. Source(p)' = Source(p)
        BY <3>1, SourceStays
      <4>3. Fed(ctx[Shell], Source(p))
        BY <3>1, <4>1 DEF ShellFed
      <4> QED
        BY <4>1, <4>2, <4>3 DEF StageInv, Running
    <3>2. CASE p # cur
      <4>1. fdtab'[p] = fdtab[p] /\ ctx'[p] = ctx[p] /\ cpc'[p] = cpc[p]
        BY <2>4, <3>2, StageProc DEF Fork, TypeInv, TypeOK
      <4> QED
        BY <4>1, StageInvStays
    <3> QED
      BY <3>1, <3>2
  <2>5. CASE WaitForChild
    <3>1. fdtab'[p] = fdtab[p] /\ ctx'[p] = ctx[p]
      BY <2>5 DEF WaitForChild
    <3>2. cpc'[p] = cpc[p] \/ cpc'[p] = "reaped"
      BY <2>5, AwaitedIsStage DEF WaitForChild, TypeInv, TypeOK
    <3> QED
      BY <1>3, <3>1, <3>2, StageInvStays
  <2>6. CASE \/ SetupPipeline \/ ExitBeforeLast \/ ExitLast \/ ExitRefused
             \/ CreatePipe \/ PipeFails \/ ForkFails \/ ExecuteParentProcess
             \/ Cleanup \/ Return
    <3>1. cpc' = cpc
      BY <2>6 DEF SetupPipeline, ExitBeforeLast, ExitLast, ExitRefused, CreatePipe,
        PipeFails, ForkFails, GiveUpCommand, ExecuteParentProcess, Cleanup, Return, childVars
    <3>2. (fdtab' = fdtab \/ \E t : ShellTable(t)) /\ (ctx' = ctx \/ \E c : ShellCtx(c))
      BY <2>6 DEF SetupPipeline, ExitBeforeLast, ExitLast, ExitRefused, CreatePipe,
        PipeFails, ForkFails, GiveUpCommand, ExecuteParentProcess, Cleanup, Return
    <3>3. fdtab'[p] = fdtab[p] /\ ctx'[p] = ctx[p]
      BY <3>2, ShellUpdates
    <3> QED
      BY <3>1, <3>3, StageInvStays
  <2>7. CASE UNCHANGED vars
    BY <2>7, StageInvStays DEF vars, childVars
  <2> QED
    BY <2>1, <2>2, <2>3, <2>4, <2>5, <2>6, <2>7 DEF Next, ShellStep, Over
<1> QED
  BY <1>1, <1>2, <1>4 DEF WireInv

\* With a descriptor to spare for each command's heredoc and its two pipes, a
\* program runs with its neighbours' pipes, its heredoc or its file on its
\* standard descriptors: whatever pipe(), fork() and open() did in between.
THEOREM StagesRunWired ==
  ASSUME FdLimit >= N + 7
  PROVE  Spec => []Wired
<1>1. EnoughFds
  BY DEF EnoughFds
<1>2. Init => WireInv
  BY InitWire
<1>3. TypeInv /\ JobInv /\ HeredocOpen /\ PipeInv /\ WireInv /\ [Next]_vars => WireInv'
  BY <1>1, NextWire
<1>4. WireInv => Wired
  <2> SUFFICES ASSUME WireInv, NEW p \in Stage, cpc[p] \in Running
               PROVE  /\ cmd[p].in = "heredoc" => fdtab[p][0] = File(p)
                      /\ cmd[p].in = "file" => fdtab[p][0] \in {File(p), Tty}
                      /\ cmd[p].in = "pipe" /\ p > 1 =>
                           fdtab[p][0] = IF Launched(p - 1) THEN Rd(p - 1) ELSE Tty
                      /\ cmd[p].in # "file" /\ cmd[p].out = "pipe" =>
                           fdtab[p][1] = IF HasNext(p) THEN Wr(p) ELSE Tty
    BY DEF Wired, Running
  <2> QED
    BY DEF WireInv, StageInv, InputDone, OutputDone, Source
<1> QED
  BY <1>2, <1>3, <1>4, PipelineInvariant, PTL DEF Spec

-----------------------------------------------------------------------------
(* The exit status.  A child is on record for every command only if none of  *)
(* them failed to be set up: so far each of pids is then the command of that *)
(* number, and nothing has taken the one status the latch lets through.      *)

InOrder == \A k \in 1 .. Len(pids) : pids[k] = k

AllSoFar ==
  spc \in {"setup", "launch", "fork", "parent"} =>
    /\ Len(pids) < cur
    /\ Len(pids) = cur - 1 => InOrder /\ ~env[Shell].exit

LastDecides ==
  spc \in {"cleanup", "wait", "return", "done"} /\ Len(pids) = N =>
    /\ InOrder /\ last_pid = N /\ ~exit_requested
    /\ waited < N => ~env[Shell].exit
    /\ waited = N /\ code[N] # Signalled => env[Shell].exit_status = code[N]
    /\ spc = "done" => waited = N

StatusInv == AllSoFar /\ LastDecides

LEMMA PidsType ==
  ASSUME TypeInv, JobInv
  PROVE  /\ pids \in Seq(Stage) /\ Len(pids) \in Nat
         /\ cur \in Nat /\ N \in Nat /\ N \in Stage /\ waited \in Nat /\ waited <= Len(pids)
         /\ spc \in {"setup", "launch", "fork", "parent"} => cur >= 1 /\ cur <= N
BY LenProperties, PipelineAssumption
DEF TypeInv, TypeOK, AtStage, JobInv, ChildrenOnRecord, Stage

LEMMA InitStatus == Init /\ ~env[Shell].exit => StatusInv
<1> SUFFICES ASSUME Init, ~env[Shell].exit PROVE StatusInv
  OBVIOUS
<1>1. Len(pids) = 0
  BY EmptySeq DEF Init
<1> QED
  BY <1>1 DEF Init, StatusInv, AllSoFar, LastDecides, InOrder

\* The status of the last child counts once that child has been reaped.
LEMMA StatusStays ==
  ASSUME TypeInv, JobInv, StatusInv, env'[Shell] = env[Shell], UNCHANGED shellVars,
         cpc[N] = "reaped" => code'[N] = code[N]
  PROVE  StatusInv'
<1>1. AllSoFar'
  BY DEF StatusInv, AllSoFar, InOrder, shellVars
<1>2. InOrder /\ Len(pids) = N /\ waited = N => cpc[N] = "reaped"
  <2> SUFFICES ASSUME InOrder, Len(pids) = N, waited = N PROVE cpc[N] = "reaped"
    OBVIOUS
  <2>1. N \in 1 .. Len(pids) /\ N <= waited
    BY PidsType DEF Stage
  <2>2. pids[N] = N
    BY <2>1 DEF InOrder
  <2> QED
    BY <2>1, <2>2 DEF JobInv, ChildrenOnRecord
<1>3. LastDecides'
  BY <1>2 DEF StatusInv, LastDecides, InOrder, shellVars
<1> QED
  BY <1>1, <1>3 DEF StatusInv

LEMMA StageStatus ==
  TypeInv /\ JobInv /\ StatusInv /\ (\E p \in Stage : StageStep(p)) => StatusInv'
<1> SUFFICES ASSUME TypeInv, JobInv, StatusInv, NEW p \in Stage, StageStep(p)
             PROVE  StatusInv'
  OBVIOUS
<1>1. UNCHANGED shellVars /\ cpc[p] \in Alive
  BY StageProgresses DEF StageProgress
<1>2. env' = env \/ ChildFails(p)
  BY DEF StageStep, StageStart, RedirectsPass, RedirectFails, InputKept, InputFromPipe,
      InputFromRedirect, InputRedirectFails, OutputDupFails, OutputReady, OutputToFile,
      OutputFileFails, NotFound, Exec, NoWord, EndOfInput, WriteElsewhere, Finish, Read,
      Write, BrokenPipe, Transfer, Die
<1>3. env'[Shell] = env[Shell]
  BY <1>2, StageProc DEF ChildFails, TypeInv, TypeOK
<1>4. code' = code \/ \E c : code' = [code EXCEPT ![p] = c]
  BY DEF StageStep, StageStart, RedirectsPass, RedirectFails, InputKept, InputFromPipe,
      InputFromRedirect, InputRedirectFails, OutputDupFails, OutputReady, OutputToFile,
      OutputFileFails, NotFound, Exec, NoWord, EndOfInput, WriteElsewhere, Finish, Read,
      Write, BrokenPipe, Transfer, Die, Continue
<1>5. cpc[N] = "reaped" => N # p
  BY <1>1 DEF Alive
<1>6. cpc[N] = "reaped" => code'[N] = code[N]
  BY <1>4, <1>5, PidsType DEF TypeInv, TypeOK
<1> QED
  BY <1>1, <1>3, <1>6, StatusStays

LEMMA InterruptStatus == TypeInv /\ JobInv /\ StatusInv /\ Interrupt => StatusInv'
<1> SUFFICES ASSUME TypeInv, JobInv, StatusInv, Interrupt PROVE StatusInv'
  OBVIOUS
<1>1. env' = env /\ UNCHANGED shellVars
  BY DEF Interrupt
<1>2. cpc[N] = "reaped" => code'[N] = code[N]
  BY PidsType DEF Interrupt, Interruptible, Exited
<1> QED
  BY <1>1, <1>2, StatusStays

\* A command given up, or an exit, leaves fewer children than commands.
LEMMA GiveUpStatus ==
  TypeInv /\ JobInv /\ StatusInv
    /\ (ExitBeforeLast \/ ExitLast \/ ExitRefused
          \/ (GiveUpCommand /\ spc \in {"launch", "fork"}))
      => StatusInv'
<1> SUFFICES ASSUME TypeInv, JobInv, StatusInv,
                    \/ ExitBeforeLast \/ ExitLast \/ ExitRefused
                    \/ GiveUpCommand /\ spc \in {"launch", "fork"}
             PROVE  StatusInv'
  OBVIOUS
<1>1. /\ spc \in {"launch", "fork"} /\ pids' = pids
      /\ \/ spc' = "cleanup"
         \/ spc' = "launch" /\ cur' = cur + 1
  BY DEF ExitBeforeLast, ExitLast, ExitRefused, AtExit, GiveUpCommand, NextCommand
<1>2. Len(pids') < cur /\ cur <= N /\ cur \in Nat /\ N \in Nat /\ Len(pids) \in Nat
  BY <1>1, PidsType DEF StatusInv, AllSoFar
<1> QED
  BY <1>1, <1>2 DEF StatusInv, AllSoFar, LastDecides

LEMMA ParentStatus ==
  TypeInv /\ JobInv /\ StatusInv /\ ExecuteParentProcess => StatusInv'
<1> SUFFICES ASSUME TypeInv, JobInv, StatusInv, ExecuteParentProcess PROVE StatusInv'
  OBVIOUS
<1>1. /\ spc = "parent" /\ ~exit_requested /\ pids' = Append(pids, cur)
      /\ cur \in Stage
      /\ last_pid' = IF HasNext(cur) THEN last_pid ELSE cur
      /\ cur' = cur + 1 /\ spc' = IF HasNext(cur) THEN "launch" ELSE "cleanup"
      /\ env' = env /\ exit_requested' = exit_requested /\ waited' = waited
  BY DEF ExecuteParentProcess, JobInv, ExitEndsLaunching, NextCommand, TypeInv, AtStage
<1>2. /\ Len(pids) < cur /\ (Len(pids) = cur - 1 => InOrder /\ ~env[Shell].exit)
      /\ cur <= N /\ cur \in Nat /\ N \in Nat /\ Len(pids) \in Nat
      /\ waited <= Len(pids) /\ waited \in Nat
  BY <1>1, PidsType DEF StatusInv, AllSoFar
<1>3. Len(pids') = Len(pids) + 1
      /\ \A k \in 1 .. Len(pids') : pids'[k] = IF k <= Len(pids) THEN pids[k] ELSE cur
  <2>1. pids \in Seq(Stage)
    BY PidsType
  <2> QED
    BY <1>1, <1>2, <2>1, AppendProperties
<1>4. Len(pids) = cur - 1 => InOrder'
  BY <1>2, <1>3 DEF InOrder
<1>5. AllSoFar'
  BY <1>1, <1>2, <1>3, <1>4 DEF AllSoFar
<1>6. LastDecides'
  BY <1>1, <1>2, <1>3, <1>4 DEF LastDecides, HasNext
<1> QED
  BY <1>5, <1>6 DEF StatusInv

LEMMA WaitStatus == TypeInv /\ JobInv /\ StatusInv /\ WaitForChild => StatusInv'
<1> SUFFICES ASSUME TypeInv, JobInv, StatusInv, WaitForChild PROVE StatusInv'
  OBVIOUS
<1> DEFINE p == pids[waited + 1]
<1>1. /\ spc = "wait" /\ spc' = spc /\ waited < Len(pids) /\ waited' = waited + 1
      /\ UNCHANGED <<pids, last_pid, exit_requested, code>>
      /\ IF p = last_pid /\ code[p] # Signalled THEN Report(code[p]) ELSE env' = env
  BY DEF WaitForChild
<1>2. AllSoFar'
  BY <1>1 DEF AllSoFar
<1>3. ASSUME Len(pids) = N PROVE LastDecides'
  <2>1. /\ InOrder /\ last_pid = N /\ ~exit_requested /\ ~env[Shell].exit
        /\ p = waited + 1 /\ waited < N /\ waited \in Nat /\ N \in Nat
    BY <1>1, <1>3, PidsType DEF StatusInv, LastDecides, InOrder
  <2> HIDE DEF p
  <2>2. InOrder'
    BY <1>1, <2>1 DEF InOrder
  <2>3. CASE p = N /\ code[N] # Signalled
    <3>1. Report(code[N])
      BY <1>1, <2>1, <2>3
    <3>2. env'[Shell].exit_status = code[N]
      BY <2>1, <3>1, StageProc DEF Report, ExitStatus, TypeInv, TypeOK
    <3> QED
      BY <1>1, <2>1, <2>2, <2>3, <3>2 DEF LastDecides
  <2>4. CASE ~(p = N /\ code[N] # Signalled)
    <3>1. env' = env
      BY <1>1, <2>1, <2>4
    <3> QED
      BY <1>1, <2>1, <2>2, <2>4, <3>1 DEF LastDecides
  <2> QED
    BY <2>3, <2>4
<1> QED
  BY <1>1, <1>2, <1>3 DEF StatusInv, LastDecides

LEMMA NextStatus == TypeInv /\ JobInv /\ StatusInv /\ [Next]_vars => StatusInv'
<1> SUFFICES ASSUME TypeInv, JobInv, StatusInv, [Next]_vars PROVE StatusInv'
  OBVIOUS
<1>1. CASE SetupPipeline \/ CreatePipe \/ Fork
  <2>1. /\ spc \in {"setup", "launch", "fork"} /\ spc' \in {"launch", "fork", "parent"}
        /\ UNCHANGED <<cur, pids>>
    BY <1>1 DEF SetupPipeline, CreatePipe, Fork, ReadyToFork, AtCommand
  <2>2. env'[Shell] = env[Shell]
    BY <1>1, StageProc DEF SetupPipeline, CreatePipe, Fork, ReadyToFork, AtCommand,
       TypeInv, TypeOK, AtStage
  <2> QED
    BY <2>1, <2>2 DEF StatusInv, AllSoFar, LastDecides, InOrder
<1>2. CASE Cleanup
  BY <1>2 DEF Cleanup, childVars, StatusInv, AllSoFar, LastDecides, InOrder
<1>3. CASE Return
  <2>1. /\ spc' = "done" /\ UNCHANGED <<env, exit_requested, pids, last_pid, waited, code>>
        /\ spc \in {"return", "wait"}
        /\ exit_requested \/ waited = Len(pids)
    BY <1>3 DEF Return, childVars, JobInv, ExitEndsLaunching
  <2> QED
    BY <2>1 DEF StatusInv, AllSoFar, LastDecides, InOrder
<1>4. CASE UNCHANGED vars
  BY <1>4, StatusStays DEF vars, childVars
<1>5. PipeFails \/ ForkFails => GiveUpCommand /\ spc \in {"launch", "fork"}
  BY DEF PipeFails, ForkFails, ReadyToFork, AtCommand
<1> QED
  BY <1>1, <1>2, <1>3, <1>4, <1>5, StageStatus, InterruptStatus, GiveUpStatus, ParentStatus,
     WaitStatus
  DEF Next, ShellStep, Over

\* $? is the exit code of the last command whenever every command was forked
\* and no error was pending: no failure of another command, no order in which
\* the children end and no interrupt of the others changes it.
THEOREM StatusIsOfLast == Spec => StatusOfLast
<1> DEFINE P == spc = "done" /\ Len(pids) = N /\ code[N] # Signalled =>
                  env[Shell].exit_status = code[N]
<1>1. StatusInv => P
  BY DEF StatusInv, LastDecides
<1>2. Init /\ ~env[Shell].exit => StatusInv
  BY InitStatus
<1>3. TypeInv /\ JobInv /\ StatusInv /\ [Next]_vars => StatusInv'
  BY NextStatus
<1>4. StatusOfLast <=> (~env[Shell].exit => []P)
  BY DEF StatusOfLast
<1> HIDE DEF P
<1> QED
  BY <1>1, <1>2, <1>3, <1>4, PipelineInvariant, PTL DEF Spec

=============================================================================
