-------------------------- MODULE DescriptorsProofs --------------------------
(***************************************************************************)
(* Facts about the operators of Descriptors, for every FdLimit.  Contents  *)
(* is the set of what a table has open: no operation but Alloc puts        *)
(* anything new into a table, which is what most of the proofs about       *)
(* pipelines come down to.                                                 *)
(***************************************************************************)
EXTENDS Descriptors, WellFoundedInduction, TLAPS

Table(S)    == [Fd -> S]
Contents(t) == {t[f] : f \in Fd}

\* LowestFree is defined when a number is free, and it is free.
LEMMA LowestFreeIsFree ==
  ASSUME NEW t, FreeFds(t) # {}
  PROVE  LowestFree(t) \in FreeFds(t)
<1>1. FreeFds(t) \subseteq Nat
  BY FdLimitAssumption DEF FreeFds, Fd
<1> DEFINE Less == {ss \in Nat \X Nat : ss[1] < ss[2]}
<1>2. IsWellFoundedOn(Less, Nat)
  BY Zenon, NatLessThanWellFounded DEF OpToRel
<1>3. PICK x \in FreeFds(t) : \A y \in FreeFds(t) : ~(<<y, x>> \in Less)
  BY <1>1, <1>2, WFMin, Zenon
<1>4. ASSUME NEW y \in FreeFds(t) PROVE x <= y
  <2>1. x \in Nat /\ y \in Nat
    BY <1>1
  <2>2. ~(y < x)
    BY <1>3, <2>1
  <2> QED
    BY <2>1, <2>2
<1> QED
  BY <1>4 DEF LowestFree

\* Alloc fails and changes nothing, or takes a free number.
LEMMA AllocEffect ==
  ASSUME NEW t, NEW d
  PROVE  \/ FreeFds(t) = {} /\ Alloc(t, d) = [fd |-> NoFd, tab |-> t]
         \/ \E f \in Fd : /\ t[f] = Closed
                          /\ Alloc(t, d) = [fd |-> f, tab |-> [t EXCEPT ![f] = d]]
<1>1. CASE FreeFds(t) = {}
  BY <1>1 DEF Alloc
<1>2. CASE FreeFds(t) # {}
  <2>1. LowestFree(t) \in Fd /\ t[LowestFree(t)] = Closed
    BY <1>2, LowestFreeIsFree DEF FreeFds
  <2> QED
    BY <1>2, <2>1 DEF Alloc
<1> QED
  BY <1>1, <1>2

\* The result of Alloc is a table again, with at most d as something new.
LEMMA AllocTable ==
  ASSUME NEW S, NEW t \in Table(S), NEW d
  PROVE  /\ d \in S => Alloc(t, d).tab \in Table(S)
         /\ Alloc(t, d).fd \in Fd \cup {NoFd}
         /\ Contents(Alloc(t, d).tab) \subseteq Contents(t) \cup {d}
<1>1. CASE Alloc(t, d) = [fd |-> NoFd, tab |-> t]
  BY <1>1 DEF Contents
<1>2. ASSUME NEW f \in Fd, Alloc(t, d) = [fd |-> f, tab |-> [t EXCEPT ![f] = d]]
      PROVE  /\ d \in S => Alloc(t, d).tab \in Table(S)
             /\ Alloc(t, d).fd \in Fd \cup {NoFd}
             /\ Contents(Alloc(t, d).tab) \subseteq Contents(t) \cup {d}
  BY <1>2 DEF Table, Contents
<1> QED
  BY <1>1, <1>2, AllocEffect

\* dup, dup2 and close put nothing new into a table.
LEMMA DupTable ==
  ASSUME NEW S, NEW t \in Table(S), NEW f
  PROVE  /\ Dup(t, f).tab \in Table(S)
         /\ Dup(t, f).fd \in Fd \cup {NoFd}
         /\ Contents(Dup(t, f).tab) \subseteq Contents(t)
<1>1. CASE IsOpen(t, f)
  <2>1. t[f] \in S /\ t[f] \in Contents(t)
    BY <1>1 DEF IsOpen, Table, Contents
  <2> QED
    BY <1>1, <2>1, AllocTable DEF Dup
<1>2. CASE ~IsOpen(t, f)
  BY <1>2 DEF Dup
<1> QED
  BY <1>1, <1>2

LEMMA Dup2Table ==
  ASSUME NEW S, NEW t \in Table(S), NEW f, NEW g
  PROVE  /\ Dup2(t, f, g) \in Table(S)
         /\ Contents(Dup2(t, f, g)) \subseteq Contents(t)
BY DEF Dup2, IsOpen, Table, Contents

LEMMA CloseAllTable ==
  ASSUME NEW S, Closed \in S, NEW t \in Table(S), NEW F
  PROVE  /\ CloseAll(t, F) \in Table(S)
         /\ Contents(CloseAll(t, F)) \subseteq Contents(t) \cup {Closed}
BY DEF CloseAll, Table, Contents

\* A new descriptor disturbs none that is open.
LEMMA AllocKeepsOpen ==
  ASSUME NEW S, NEW t \in Table(S), NEW d, NEW x \in Fd, t[x] # Closed
  PROVE  Alloc(t, d).tab[x] = t[x] /\ Alloc(t, d).fd # x
<1>1. NoFd # x
  BY FdLimitAssumption DEF Fd, NoFd
<1>2. CASE Alloc(t, d) = [fd |-> NoFd, tab |-> t]
  BY <1>1, <1>2
<1>3. ASSUME NEW f \in Fd, t[f] = Closed,
             Alloc(t, d) = [fd |-> f, tab |-> [t EXCEPT ![f] = d]]
      PROVE  Alloc(t, d).tab[x] = t[x] /\ Alloc(t, d).fd # x
  BY <1>3 DEF Table
<1> QED
  BY <1>2, <1>3, AllocEffect

LEMMA DupKeepsOpen ==
  ASSUME NEW S, NEW t \in Table(S), NEW f, NEW x \in Fd, t[x] # Closed
  PROVE  Dup(t, f).tab[x] = t[x] /\ Dup(t, f).fd # x
<1>1. NoFd # x
  BY FdLimitAssumption DEF Fd, NoFd
<1> QED
  BY <1>1, AllocKeepsOpen DEF Dup

\* With a number to spare, dup of an open descriptor succeeds.
LEMMA DupSucceeds ==
  ASSUME NEW t, NEW f \in Fd, t[f] # Closed, FreeFds(t) # {}
  PROVE  Dup(t, f).fd \in Fd
<1>1. Dup(t, f) = Alloc(t, t[f])
  BY DEF Dup, IsOpen
<1> QED
  BY <1>1, AllocEffect

=============================================================================
