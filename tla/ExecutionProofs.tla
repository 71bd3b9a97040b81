--------------------------- MODULE ExecutionProofs ---------------------------
(***************************************************************************)
(* Proofs about carrying out one command, for every set of places, every   *)
(* PATH, every argument of exit and any number of changes by others.       *)
(***************************************************************************)
EXTENDS ExecutionProperties, SequenceTheorems, WellFoundedInduction, TLAPS

-----------------------------------------------------------------------------
(* Folds.  FoldLeft is a function defined by recursion over the subsets of    *)
(* the positions; these lemmas say that it takes one element after the other. *)

LEMMA LeastElement ==
  ASSUME NEW T \in SUBSET Nat, T # {}
  PROVE  \E x \in T : \A y \in T : x <= y
<1>1. IsWellFoundedOn(OpToRel(<, Nat), Nat)
  BY ONLY NatLessThanWellFounded, Zenon
<1>2. \E x \in T : \A y \in T : ~ (<<y, x>> \in OpToRel(<, Nat))
  BY <1>1, WFMin, Zenon
<1>3. PICK x \in T : \A y \in T : ~ (<<y, x>> \in OpToRel(<, Nat))
  BY <1>2, Zenon
<1>4. \A y \in T : ~ (y < x)
  BY <1>3 DEF OpToRel
<1> QED
  BY <1>4

\* What holds of 0 and passes from each number to the next holds up to n.
LEMMA UpTo ==
  ASSUME NEW n \in Nat, NEW T, 0 \in T, \A k \in 0 .. n - 1 : k \in T => k + 1 \in T
  PROVE  \A k \in 0 .. n : k \in T
<1> SUFFICES ASSUME ~(\A k \in 0 .. n : k \in T) PROVE FALSE
  OBVIOUS
<1> DEFINE Out == {k \in 0 .. n : k \notin T}
<1>1. Out \in SUBSET Nat /\ Out # {}
  OBVIOUS
<1>2. PICK k \in Out : \A j \in Out : k <= j
  BY <1>1, LeastElement
<1>3. k \in 1 .. n
  BY <1>2
<1>4. k - 1 \in T
  BY <1>2, <1>3
<1> QED
  BY <1>2, <1>3, <1>4

LEMMA MaxIs ==
  ASSUME NEW k \in Nat, NEW s \in SUBSET (1 .. k), k \in s
  PROVE  Max(s) = k
<1> DEFINE P(x) == x \in s /\ \A y \in s : x >= y
<1>1. P(k)
  OBVIOUS
<1>2. \A x : P(x) => x = k
  OBVIOUS
<1>3. Max(s) = CHOOSE x : P(x)
  BY Zenon DEF Max
<1> HIDE DEF P
<1>4. P(Max(s))
  BY <1>1, <1>3, Zenon
<1> QED
  BY <1>2, <1>4, Zenon

\* step[x, d] for the value x so far and the element d.
Folds(g, n, b, step, a) ==
  \A s \in SUBSET (1 .. n) :
    g[s] = IF s = {} THEN b ELSE step[g[s \ {Max(s)}], a[Max(s)]]

LEMMA FoldExists ==
  ASSUME NEW V, NEW E, NEW n \in Nat, NEW a \in [1 .. n -> E], NEW b \in V,
         NEW step \in [V \X E -> V]
  PROVE  \E g \in [SUBSET (1 .. n) -> V] : Folds(g, n, b, step, a)
<1> DEFINE T == {k \in 0 .. n : \E g \in [SUBSET (1 .. k) -> V] : Folds(g, k, b, step, a)}
<1>1. 0 \in T
  <2> DEFINE g == [s \in SUBSET (1 .. 0) |-> b]
  <2>1. g \in [SUBSET (1 .. 0) -> V]
    OBVIOUS
  <2>2. \A s \in SUBSET (1 .. 0) : s = {}
    OBVIOUS
  <2>3. Folds(g, 0, b, step, a)
    BY <2>2 DEF Folds
  <2> QED
    BY <2>1, <2>3
<1>2. ASSUME NEW k \in 0 .. n - 1, k \in T
      PROVE  k + 1 \in T
  <2>1. PICK g \in [SUBSET (1 .. k) -> V] : Folds(g, k, b, step, a)
    BY <1>2
  <2> DEFINE m == k + 1
             h == [s \in SUBSET (1 .. m) |->
                     IF m \in s THEN step[g[s \ {m}], a[m]] ELSE g[s]]
  <2>2. m \in 1 .. n /\ m \in Nat /\ k \in Nat
    BY <1>2
  <2>3. \A s \in SUBSET (1 .. m) : /\ m \notin s => s \in SUBSET (1 .. k)
                                   /\ s \ {m} \in SUBSET (1 .. k)
    BY <2>2
  <2>4. h \in [SUBSET (1 .. m) -> V]
    BY <2>1, <2>2, <2>3
  <2>5. ASSUME NEW s \in SUBSET (1 .. m)
        PROVE  h[s] = IF s = {} THEN b ELSE step[h[s \ {Max(s)}], a[Max(s)]]
    <3>1. CASE m \in s
      <4>1. Max(s) = m
        BY <2>2, <3>1, MaxIs
      <4>2. h[s \ {m}] = g[s \ {m}]
        BY <2>3
      <4> QED
        BY <3>1, <4>1, <4>2
    <3>2. CASE m \notin s
      <4>1. s \in SUBSET (1 .. k) /\ h[s] = g[s]
        BY <2>3, <3>2
      <4>2. s \ {Max(s)} \in SUBSET (1 .. m) /\ m \notin s \ {Max(s)}
        BY <3>2
      <4>3. h[s \ {Max(s)}] = g[s \ {Max(s)}]
        BY <4>2
      <4> QED
        BY <2>1, <4>1, <4>3 DEF Folds
    <3> QED
      BY <3>1, <3>2
  <2> HIDE DEF h
  <2>6. Folds(h, m, b, step, a)
    BY <2>5 DEF Folds
  <2> QED
    BY <2>2, <2>4, <2>6
<1> HIDE DEF T
<1>3. \A k \in 0 .. n : k \in T
  BY <1>1, <1>2, UpTo, Zenon
<1>4. n \in 0 .. n
  OBVIOUS
<1>5. n \in T
  BY <1>3, <1>4, Zenon
<1> QED
  BY <1>5, Zenon DEF T

-----------------------------------------------------------------------------
(* The argument of exit.  Mod(a) is what ft_atoi has read before the sign.   *)

DigitOf == 0 .. 9

Mod(a) == FoldLeft(LAMBDA sum, d : (sum * 10 + d) % 256, 0, a.digits)

LEMMA ArgumentIs ==
  ASSUME NEW a \in Argument
  PROVE  /\ a.digits \in Seq(DigitOf) /\ a.sign \in {"none", "plus", "minus"}
         /\ a.junk \in BOOLEAN /\ Len(a.digits) \in Nat
         /\ \A k \in 1 .. Len(a.digits) : a.digits[k] \in DigitOf
<1>1. /\ a.digits \in Seq(DigitOf) /\ a.sign \in {"none", "plus", "minus"}
      /\ a.junk \in BOOLEAN
  BY DEF Argument, DigitOf
<1> QED
  BY <1>1, LenProperties, ElementOfSeq

\* A set of positions has a greatest one.
LEMMA MaxIn ==
  ASSUME NEW n \in Nat, NEW s \in SUBSET (1 .. n), s # {}
  PROVE  Max(s) \in s /\ \A y \in s : Max(s) >= y
<1> DEFINE U == {n - k : k \in s}
           P(x) == x \in s /\ \A y \in s : x >= y
<1>1. U \in SUBSET Nat /\ U # {}
  <2>1. \A k \in s : n - k \in Nat
    OBVIOUS
  <2> QED
    BY <2>1
<1>2. PICK u \in U : \A v \in U : u <= v
  BY <1>1, LeastElement
<1>3. PICK k \in s : u = n - k
  BY <1>2
<1>4. \A y \in s : n - y \in U
  OBVIOUS
<1>5. P(k)
  BY <1>2, <1>3, <1>4
<1>6. Max(s) = CHOOSE x : P(x)
  BY Zenon DEF Max
<1> HIDE DEF P
<1>7. P(Max(s))
  BY <1>5, <1>6, Zenon
<1> QED
  BY <1>7, Zenon DEF P

\* What ft_atoi has read of the number after each digit.
LEMMA ModSteps ==
  ASSUME NEW a \in Argument
  PROVE  \E h \in [0 .. Len(a.digits) -> Nat] :
           /\ h[0] = 0 /\ h[Len(a.digits)] = Mod(a)
           /\ \A k \in 1 .. Len(a.digits) : h[k] = (h[k - 1] * 10 + a.digits[k]) % 256
<1> DEFINE d == a.digits
           n == Len(d)
           step == [x \in Nat \X DigitOf |-> (x[1] * 10 + x[2]) % 256]
           b == 0
           e(w, s) == IF s = {} THEN b ELSE (w[s \ {Max(s)}] * 10 + d[Max(s)]) % 256
           All == SUBSET (1 .. n)
           P(iter) == iter = [s \in All |-> e(iter, s)]
           f == CHOOSE iter : P(iter)
<1>1. n \in Nat /\ DOMAIN d = 1 .. n /\ d \in [1 .. n -> DigitOf]
  BY ArgumentIs, LenProperties
<1>2. b \in Nat /\ step \in [Nat \X DigitOf -> Nat]
  BY DEF DigitOf
<1>3. Mod(a) = f[1 .. n]
  <2>1. Mod(a) = (CHOOSE iter : iter = [s \in SUBSET DOMAIN d |->
                                IF s = {} THEN b
                                ELSE (iter[s \ {Max(s)}] * 10 + d[Max(s)]) % 256])[DOMAIN d]
    BY DEF Mod, FoldLeft, MapThenFoldSet
  <2> QED
    BY <1>1, <2>1
<1>4. PICK g \in [SUBSET (1 .. n) -> Nat] : Folds(g, n, b, step, d)
  <2> HIDE DEF n, d, step, b
  <2> QED
    BY <1>1, <1>2, FoldExists
<1>5. \A s \in SUBSET (1 .. n) : s # {} =>
        /\ Max(s) \in 1 .. n /\ d[Max(s)] \in DigitOf /\ s \ {Max(s)} \in SUBSET (1 .. n)
  <2> HIDE DEF n, d
  <2> QED
    BY <1>1, MaxIn
<1>6. \A s \in SUBSET (1 .. n) : s # {} =>
        g[s] = (g[s \ {Max(s)}] * 10 + d[Max(s)]) % 256
  <2> SUFFICES ASSUME NEW s \in SUBSET (1 .. n), s # {}
               PROVE  g[s] = (g[s \ {Max(s)}] * 10 + d[Max(s)]) % 256
    OBVIOUS
  <2> DEFINE x == g[s \ {Max(s)}]
             y == d[Max(s)]
  <2>1. g[s] = step[x, y]
    BY <1>4, Zenon DEF Folds
  <2>2. x \in Nat /\ y \in DigitOf
    <3> HIDE DEF n, d
    <3> QED
      BY <1>4, <1>5
  <2> HIDE DEF x, y
  <2>3. step[x, y] = (x * 10 + y) % 256
    BY <2>2
  <2> QED
    BY <2>1, <2>3 DEF x, y
<1>7. g[{}] = b
  BY <1>4, Zenon DEF Folds
<1>8. P(g)
  <2>1. \A s \in All : g[s] = e(g, s)
    BY <1>6, <1>7
  <2>2. g = [s \in All |-> g[s]]
    BY <1>4
  <2> HIDE DEF e, All
  <2>3. [s \in All |-> g[s]] = [s \in All |-> e(g, s)]
    BY <2>1, Zenon
  <2> QED
    BY <2>2, <2>3, Zenon
<1>9. P(f)
  <2> HIDE DEF P
  <2> QED
    BY <1>8
<1> DEFINE h == [k \in 0 .. n |-> f[1 .. k]]
           T == {k \in 0 .. n : f[1 .. k] \in Nat}
<1>10. f[1 .. 0] = b
  <2>1. 1 .. 0 = {} /\ {} \in All
    OBVIOUS
  <2> HIDE DEF f, All
  <2>2. f[1 .. 0] = e(f, {})
    BY <1>9, <2>1
  <2> QED
    BY <2>2
<1>11. \A k \in 1 .. n : f[1 .. k] = (f[1 .. k - 1] * 10 + d[k]) % 256
  <2> SUFFICES ASSUME NEW k \in 1 .. n PROVE f[1 .. k] = (f[1 .. k - 1] * 10 + d[k]) % 256
    OBVIOUS
  <2> DEFINE s == 1 .. k
  <2>1. s \in SUBSET (1 .. n) /\ k \in s /\ k \in Nat
    BY <1>1
  <2>2. Max(s) = k /\ s \ {k} = 1 .. k - 1 /\ s # {}
    BY <2>1, MaxIs
  <2> HIDE DEF f, s, n, d, b
  <2>3. f[s] = e(f, s)
    <3> HIDE DEF e
    <3> QED
      BY <1>9, <2>1
  <2> QED
    BY <2>2, <2>3, Zenon DEF s
<1>12. h \in [0 .. n -> Nat]
  <2>1. 0 \in T
    BY <1>1, <1>2, <1>10
  <2>2. ASSUME NEW k \in 0 .. n - 1, k \in T
        PROVE  k + 1 \in T
    <3> HIDE DEF f, n, d
    <3>1. k + 1 \in 1 .. n /\ (k + 1) - 1 = k
      BY <1>1
    <3>2. d[k + 1] \in DigitOf /\ f[1 .. k] \in Nat
      BY <1>1, <2>2, <3>1
    <3>3. f[1 .. k + 1] = (f[1 .. k] * 10 + d[k + 1]) % 256
      BY <1>11, <3>1
    <3>4. f[1 .. k + 1] \in Nat
      <4> DEFINE x == f[1 .. k]
                 y == d[k + 1]
      <4> HIDE DEF x, y
      <4>1. x \in Nat /\ y \in DigitOf => (x * 10 + y) % 256 \in Nat
        BY DEF DigitOf
      <4> QED
        BY <3>2, <3>3, <4>1 DEF x, y
    <3> QED
      BY <1>1, <3>1, <3>4
  <2> HIDE DEF T, n
  <2>3. \A k \in 0 .. n : k \in T
    BY <1>1, <2>1, <2>2, UpTo, Zenon
  <2> QED
    BY <2>3 DEF T
<1>13. h[0] = b /\ h[n] = f[1 .. n]
  BY <1>1, <1>10
<1>14. \A k \in 1 .. n : h[k] = (h[k - 1] * 10 + d[k]) % 256
  <2>1. \A k \in 1 .. n : k \in 0 .. n /\ k - 1 \in 0 .. n
    BY <1>1
  <2> HIDE DEF f, n, d
  <2>2. \A k \in 1 .. n : h[k] = f[1 .. k] /\ h[k - 1] = f[1 .. k - 1]
    BY <2>1
  <2> QED
    BY <1>11, <2>2
<1> HIDE DEF f, P, step, e, h
<1> QED
  BY <1>3, <1>12, <1>13, <1>14

\* What the digits so far are worth.
LEMMA ValueSteps ==
  ASSUME NEW a \in Argument
  PROVE  \E h \in [0 .. Len(a.digits) -> Nat] :
           /\ h[0] = 0 /\ h[Len(a.digits)] = Value(a)
           /\ \A k \in 1 .. Len(a.digits) : h[k] = h[k - 1] * 10 + a.digits[k]
<1> DEFINE d == a.digits
           n == Len(d)
           step == [x \in Nat \X DigitOf |-> x[1] * 10 + x[2]]
           b == 0
           e(w, s) == IF s = {} THEN b ELSE w[s \ {Max(s)}] * 10 + d[Max(s)]
           All == SUBSET (1 .. n)
           P(iter) == iter = [s \in All |-> e(iter, s)]
           f == CHOOSE iter : P(iter)
<1>1. n \in Nat /\ DOMAIN d = 1 .. n /\ d \in [1 .. n -> DigitOf]
  BY ArgumentIs, LenProperties
<1>2. b \in Nat /\ step \in [Nat \X DigitOf -> Nat]
  BY DEF DigitOf
<1>3. Value(a) = f[1 .. n]
  <2>1. Value(a) = (CHOOSE iter : iter = [s \in SUBSET DOMAIN d |->
                                IF s = {} THEN b
                                ELSE iter[s \ {Max(s)}] * 10 + d[Max(s)]])[DOMAIN d]
    BY DEF Value, FoldLeft, MapThenFoldSet
  <2> QED
    BY <1>1, <2>1
<1>4. PICK g \in [SUBSET (1 .. n) -> Nat] : Folds(g, n, b, step, d)
  <2> HIDE DEF n, d, step, b
  <2> QED
    BY <1>1, <1>2, FoldExists
<1>5. \A s \in SUBSET (1 .. n) : s # {} =>
        /\ Max(s) \in 1 .. n /\ d[Max(s)] \in DigitOf /\ s \ {Max(s)} \in SUBSET (1 .. n)
  <2> HIDE DEF n, d
  <2> QED
    BY <1>1, MaxIn
<1>6. \A s \in SUBSET (1 .. n) : s # {} =>
        g[s] = g[s \ {Max(s)}] * 10 + d[Max(s)]
  <2> SUFFICES ASSUME NEW s \in SUBSET (1 .. n), s # {}
               PROVE  g[s] = g[s \ {Max(s)}] * 10 + d[Max(s)]
    OBVIOUS
  <2> DEFINE x == g[s \ {Max(s)}]
             y == d[Max(s)]
  <2>1. g[s] = step[x, y]
    BY <1>4, Zenon DEF Folds
  <2>2. x \in Nat /\ y \in DigitOf
    <3> HIDE DEF n, d
    <3> QED
      BY <1>4, <1>5
  <2> HIDE DEF x, y
  <2>3. step[x, y] = x * 10 + y
    BY <2>2
  <2> QED
    BY <2>1, <2>3 DEF x, y
<1>7. g[{}] = b
  BY <1>4, Zenon DEF Folds
<1>8. P(g)
  <2>1. \A s \in All : g[s] = e(g, s)
    BY <1>6, <1>7
  <2>2. g = [s \in All |-> g[s]]
    BY <1>4
  <2> HIDE DEF e, All
  <2>3. [s \in All |-> g[s]] = [s \in All |-> e(g, s)]
    BY <2>1, Zenon
  <2> QED
    BY <2>2, <2>3, Zenon
<1>9. P(f)
  <2> HIDE DEF P
  <2> QED
    BY <1>8
<1> DEFINE h == [k \in 0 .. n |-> f[1 .. k]]
           T == {k \in 0 .. n : f[1 .. k] \in Nat}
<1>10. f[1 .. 0] = b
  <2>1. 1 .. 0 = {} /\ {} \in All
    OBVIOUS
  <2> HIDE DEF f, All
  <2>2. f[1 .. 0] = e(f, {})
    BY <1>9, <2>1
  <2> QED
    BY <2>2
<1>11. \A k \in 1 .. n : f[1 .. k] = f[1 .. k - 1] * 10 + d[k]
  <2> SUFFICES ASSUME NEW k \in 1 .. n PROVE f[1 .. k] = f[1 .. k - 1] * 10 + d[k]
    OBVIOUS
  <2> DEFINE s == 1 .. k
  <2>1. s \in SUBSET (1 .. n) /\ k \in s /\ k \in Nat
    BY <1>1
  <2>2. Max(s) = k /\ s \ {k} = 1 .. k - 1 /\ s # {}
    BY <2>1, MaxIs
  <2> HIDE DEF f, s, n, d, b
  <2>3. f[s] = e(f, s)
    <3> HIDE DEF e
    <3> QED
      BY <1>9, <2>1
  <2> QED
    BY <2>2, <2>3, Zenon DEF s
<1>12. h \in [0 .. n -> Nat]
  <2>1. 0 \in T
    BY <1>1, <1>2, <1>10
  <2>2. ASSUME NEW k \in 0 .. n - 1, k \in T
        PROVE  k + 1 \in T
    <3> HIDE DEF f, n, d
    <3>1. k + 1 \in 1 .. n /\ (k + 1) - 1 = k
      BY <1>1
    <3>2. d[k + 1] \in DigitOf /\ f[1 .. k] \in Nat
      BY <1>1, <2>2, <3>1
    <3>3. f[1 .. k + 1] = f[1 .. k] * 10 + d[k + 1]
      BY <1>11, <3>1
    <3>4. f[1 .. k + 1] \in Nat
      <4> DEFINE x == f[1 .. k]
                 y == d[k + 1]
      <4> HIDE DEF x, y
      <4>1. x \in Nat /\ y \in DigitOf => x * 10 + y \in Nat
        BY DEF DigitOf
      <4> QED
        BY <3>2, <3>3, <4>1 DEF x, y
    <3> QED
      BY <1>1, <3>1, <3>4
  <2> HIDE DEF T, n
  <2>3. \A k \in 0 .. n : k \in T
    BY <1>1, <2>1, <2>2, UpTo, Zenon
  <2> QED
    BY <2>3 DEF T
<1>13. h[0] = b /\ h[n] = f[1 .. n]
  BY <1>1, <1>10
<1>14. \A k \in 1 .. n : h[k] = h[k - 1] * 10 + d[k]
  <2>1. \A k \in 1 .. n : k \in 0 .. n /\ k - 1 \in 0 .. n
    BY <1>1
  <2> HIDE DEF f, n, d
  <2>2. \A k \in 1 .. n : h[k] = f[1 .. k] /\ h[k - 1] = f[1 .. k - 1]
    BY <2>1
  <2> QED
    BY <1>11, <2>2
<1> HIDE DEF f, P, step, e, h
<1> QED
  BY <1>3, <1>12, <1>13, <1>14

\* The sum of the characters so far.
LEMMA CharSumSteps ==
  ASSUME NEW a \in Argument
  PROVE  \E h \in [0 .. Len(a.digits) -> Nat] :
           /\ h[0] = (IF a.sign = "plus" THEN 43 ELSE 0) /\ h[Len(a.digits)] = CharSum(a)
           /\ \A k \in 1 .. Len(a.digits) : h[k] = h[k - 1] + 48 + a.digits[k]
<1> DEFINE d == a.digits
           n == Len(d)
           step == [x \in Nat \X DigitOf |-> x[1] + 48 + x[2]]
           b == (IF a.sign = "plus" THEN 43 ELSE 0)
           e(w, s) == IF s = {} THEN b ELSE w[s \ {Max(s)}] + 48 + d[Max(s)]
           All == SUBSET (1 .. n)
           P(iter) == iter = [s \in All |-> e(iter, s)]
           f == CHOOSE iter : P(iter)
<1>1. n \in Nat /\ DOMAIN d = 1 .. n /\ d \in [1 .. n -> DigitOf]
  BY ArgumentIs, LenProperties
<1>2. b \in Nat /\ step \in [Nat \X DigitOf -> Nat]
  BY DEF DigitOf
<1>3. CharSum(a) = f[1 .. n]
  <2>1. CharSum(a) = (CHOOSE iter : iter = [s \in SUBSET DOMAIN d |->
                                IF s = {} THEN b
                                ELSE iter[s \ {Max(s)}] + 48 + d[Max(s)]])[DOMAIN d]
    BY DEF CharSum, FoldLeft, MapThenFoldSet
  <2> QED
    BY <1>1, <2>1
<1>4. PICK g \in [SUBSET (1 .. n) -> Nat] : Folds(g, n, b, step, d)
  <2> HIDE DEF n, d, step, b
  <2> QED
    BY <1>1, <1>2, FoldExists
<1>5. \A s \in SUBSET (1 .. n) : s # {} =>
        /\ Max(s) \in 1 .. n /\ d[Max(s)] \in DigitOf /\ s \ {Max(s)} \in SUBSET (1 .. n)
  <2> HIDE DEF n, d
  <2> QED
    BY <1>1, MaxIn
<1>6. \A s \in SUBSET (1 .. n) : s # {} =>
        g[s] = g[s \ {Max(s)}] + 48 + d[Max(s)]
  <2> SUFFICES ASSUME NEW s \in SUBSET (1 .. n), s # {}
               PROVE  g[s] = g[s \ {Max(s)}] + 48 + d[Max(s)]
    OBVIOUS
  <2> DEFINE x == g[s \ {Max(s)}]
             y == d[Max(s)]
  <2>1. g[s] = step[x, y]
    BY <1>4, Zenon DEF Folds
  <2>2. x \in Nat /\ y \in DigitOf
    <3> HIDE DEF n, d
    <3> QED
      BY <1>4, <1>5
  <2> HIDE DEF x, y
  <2>3. step[x, y] = x + 48 + y
    BY <2>2
  <2> QED
    BY <2>1, <2>3 DEF x, y
<1>7. g[{}] = b
  BY <1>4, Zenon DEF Folds
<1>8. P(g)
  <2>1. \A s \in All : g[s] = e(g, s)
    BY <1>6, <1>7
  <2>2. g = [s \in All |-> g[s]]
    BY <1>4
  <2> HIDE DEF e, All
  <2>3. [s \in All |-> g[s]] = [s \in All |-> e(g, s)]
    BY <2>1, Zenon
  <2> QED
    BY <2>2, <2>3, Zenon
<1>9. P(f)
  <2> HIDE DEF P
  <2> QED
    BY <1>8
<1> DEFINE h == [k \in 0 .. n |-> f[1 .. k]]
           T == {k \in 0 .. n : f[1 .. k] \in Nat}
<1>10. f[1 .. 0] = b
  <2>1. 1 .. 0 = {} /\ {} \in All
    OBVIOUS
  <2> HIDE DEF f, All
  <2>2. f[1 .. 0] = e(f, {})
    BY <1>9, <2>1
  <2> QED
    BY <2>2
<1>11. \A k \in 1 .. n : f[1 .. k] = f[1 .. k - 1] + 48 + d[k]
  <2> SUFFICES ASSUME NEW k \in 1 .. n PROVE f[1 .. k] = f[1 .. k - 1] + 48 + d[k]
    OBVIOUS
  <2> DEFINE s == 1 .. k
  <2>1. s \in SUBSET (1 .. n) /\ k \in s /\ k \in Nat
    BY <1>1
  <2>2. Max(s) = k /\ s \ {k} = 1 .. k - 1 /\ s # {}
    BY <2>1, MaxIs
  <2> HIDE DEF f, s, n, d, b
  <2>3. f[s] = e(f, s)
    <3> HIDE DEF e
    <3> QED
      BY <1>9, <2>1
  <2> QED
    BY <2>2, <2>3, Zenon DEF s
<1>12. h \in [0 .. n -> Nat]
  <2>1. 0 \in T
    BY <1>1, <1>2, <1>10
  <2>2. ASSUME NEW k \in 0 .. n - 1, k \in T
        PROVE  k + 1 \in T
    <3> HIDE DEF f, n, d
    <3>1. k + 1 \in 1 .. n /\ (k + 1) - 1 = k
      BY <1>1
    <3>2. d[k + 1] \in DigitOf /\ f[1 .. k] \in Nat
      BY <1>1, <2>2, <3>1
    <3>3. f[1 .. k + 1] = f[1 .. k] + 48 + d[k + 1]
      BY <1>11, <3>1
    <3>4. f[1 .. k + 1] \in Nat
      <4> DEFINE x == f[1 .. k]
                 y == d[k + 1]
      <4> HIDE DEF x, y
      <4>1. x \in Nat /\ y \in DigitOf => x + 48 + y \in Nat
        BY DEF DigitOf
      <4> QED
        BY <3>2, <3>3, <4>1 DEF x, y
    <3> QED
      BY <1>1, <3>1, <3>4
  <2> HIDE DEF T, n
  <2>3. \A k \in 0 .. n : k \in T
    BY <1>1, <2>1, <2>2, UpTo, Zenon
  <2> QED
    BY <2>3 DEF T
<1>13. h[0] = b /\ h[n] = f[1 .. n]
  BY <1>1, <1>10
<1>14. \A k \in 1 .. n : h[k] = h[k - 1] + 48 + d[k]
  <2>1. \A k \in 1 .. n : k \in 0 .. n /\ k - 1 \in 0 .. n
    BY <1>1
  <2> HIDE DEF f, n, d
  <2>2. \A k \in 1 .. n : h[k] = f[1 .. k] /\ h[k - 1] = f[1 .. k - 1]
    BY <2>1
  <2> QED
    BY <1>11, <2>2
<1> HIDE DEF f, P, step, e, h
<1> QED
  BY <1>3, <1>12, <1>13, <1>14

LEMMA ModShift ==
  ASSUME NEW q \in Nat, NEW x \in Nat
  PROVE  (256 * q + x) % 256 = x % 256
OBVIOUS

\* ft_atoi keeps the last eight bits of what the digits are worth.
LEMMA ModIsValue ==
  ASSUME NEW a \in Argument
  PROVE  Value(a) \in Nat /\ Mod(a) = Value(a) % 256
<1> DEFINE n == Len(a.digits)
<1>1. n \in Nat
  BY ArgumentIs
<1>2. PICK h \in [0 .. n -> Nat] :
        /\ h[0] = 0 /\ h[n] = Mod(a)
        /\ \A k \in 1 .. n : h[k] = (h[k - 1] * 10 + a.digits[k]) % 256
  BY ModSteps
<1>3. PICK g \in [0 .. n -> Nat] :
        /\ g[0] = 0 /\ g[n] = Value(a)
        /\ \A k \in 1 .. n : g[k] = g[k - 1] * 10 + a.digits[k]
  BY ValueSteps
<1> DEFINE T == {k \in 0 .. n : h[k] = g[k] % 256}
<1>4. 0 \in T
  BY <1>1, <1>2, <1>3
<1>5. ASSUME NEW k \in 0 .. n - 1, k \in T
      PROVE  k + 1 \in T
  <2> DEFINE x == g[k]
             y == a.digits[k + 1]
             m == h[k]
  <2>1. k + 1 \in 1 .. n /\ (k + 1) - 1 = k /\ k \in 0 .. n /\ k + 1 \in 0 .. n
    BY <1>1
  <2>2. x \in Nat /\ m \in Nat /\ y \in DigitOf /\ m = x % 256
    BY <1>2, <1>3, <1>5, <2>1, ArgumentIs
  <2>3. h[k + 1] = (m * 10 + y) % 256 /\ g[k + 1] = x * 10 + y
    BY <1>2, <1>3, <2>1
  <2> HIDE DEF x, y, m
  <2>4. (m * 10 + y) % 256 = (x * 10 + y) % 256
    <3>1. x = 256 * (x \div 256) + m /\ x \div 256 \in Nat
      BY <2>2
    <3> DEFINE q == x \div 256
    <3>2. x * 10 + y = 256 * (10 * q) + (m * 10 + y)
      <4> HIDE DEF q
      <4>1. x = 256 * q + m /\ q \in Nat
        BY <3>1 DEF q
      <4> QED
        BY <2>2, <4>1 DEF DigitOf
    <3> HIDE DEF q
    <3>3. m * 10 + y \in Nat /\ 10 * q \in Nat
      BY <2>2, <3>1 DEF q, DigitOf
    <3> QED
      BY <3>2, <3>3, ModShift
  <2> QED
    BY <2>1, <2>3, <2>4
<1> HIDE DEF T, n
<1>6. \A k \in 0 .. n : k \in T
  BY <1>1, <1>4, <1>5, UpTo, Zenon
<1> QED
  BY <1>1, <1>2, <1>3, <1>6 DEF T

\* A digit counts 48 to 57, and a plus 43.
LEMMA CharSumBounds ==
  ASSUME NEW a \in Argument
  PROVE  /\ CharSum(a) \in Nat
         /\ 48 * Len(a.digits) <= CharSum(a)
         /\ CharSum(a) <= 43 + 57 * Len(a.digits)
<1> DEFINE n == Len(a.digits)
<1>1. n \in Nat
  BY ArgumentIs
<1>2. PICK h \in [0 .. n -> Nat] :
        /\ h[0] = (IF a.sign = "plus" THEN 43 ELSE 0) /\ h[n] = CharSum(a)
        /\ \A k \in 1 .. n : h[k] = h[k - 1] + 48 + a.digits[k]
  BY CharSumSteps
<1> DEFINE T == {k \in 0 .. n : 48 * k <= h[k] /\ h[k] <= 43 + 57 * k}
<1>3. 0 \in T
  BY <1>1, <1>2
<1>4. ASSUME NEW k \in 0 .. n - 1, k \in T
      PROVE  k + 1 \in T
  <2> DEFINE x == h[k]
             y == a.digits[k + 1]
  <2>1. k + 1 \in 1 .. n /\ (k + 1) - 1 = k /\ k \in 0 .. n /\ k + 1 \in 0 .. n
    BY <1>1
  <2>2. x \in Nat /\ y \in DigitOf
    BY <1>2, <2>1, ArgumentIs
  <2>3. h[k + 1] = x + 48 + y
    BY <1>2, <2>1
  <2>4. 48 * k <= x /\ x <= 43 + 57 * k
    BY <1>4
  <2> HIDE DEF x, y
  <2>5. 48 * (k + 1) <= x + 48 + y /\ x + 48 + y <= 43 + 57 * (k + 1)
    BY <2>2, <2>4, <1>1 DEF DigitOf
  <2> QED
    BY <2>1, <2>3, <2>5
<1> HIDE DEF T, n
<1>5. \A k \in 0 .. n : k \in T
  BY <1>1, <1>3, <1>4, UpTo, Zenon
<1> QED
  BY <1>1, <1>2, <1>5 DEF T, n

LEMMA AtoiIs ==
  ASSUME NEW a \in Argument
  PROVE  /\ Atoi(a) \in 0 .. 255
         /\ (Atoi(a) - IF a.sign = "minus" THEN -Value(a) ELSE Value(a)) % 256 = 0
<1> DEFINE v == Value(a)
           m == Mod(a)
<1>1. Atoi(a) = IF a.sign = "minus" THEN (256 - m) % 256 ELSE m
  BY DEF Atoi, Mod
<1>2. v \in Nat /\ m = v % 256
  BY ModIsValue
<1> HIDE DEF v, m
<1>3. PICK q \in Nat : v = 256 * q + m /\ m \in 0 .. 255
  <2>1. v \div 256 \in Nat /\ v = 256 * (v \div 256) + m /\ m \in 0 .. 255
    BY <1>2
  <2> QED
    BY <2>1
<1>4. CASE a.sign # "minus"
  <2>1. Atoi(a) - v = 256 * (-q) + 0 /\ Atoi(a) = m
    BY <1>1, <1>3, <1>4
  <2>2. (256 * (-q) + 0) % 256 = 0
    BY <1>3
  <2> QED
    BY <1>3, <1>4, <2>1, <2>2 DEF v
<1>5. CASE a.sign = "minus" /\ m = 0
  <2>1. Atoi(a) = 0 /\ Atoi(a) + v = 256 * q + 0
    BY <1>1, <1>3, <1>5
  <2>2. (256 * q + 0) % 256 = 0
    BY <1>3
  <2>3. Atoi(a) - (-v) = 256 * q + 0
    BY <1>3, <2>1
  <2> QED
    BY <1>3, <1>5, <2>1, <2>2, <2>3 DEF v
<1>6. CASE a.sign = "minus" /\ m # 0
  <2>1. Atoi(a) = 256 - m
    BY <1>1, <1>3, <1>6
  <2>2. Atoi(a) - (-v) = 256 * (q + 1)
    BY <1>3, <2>1
  <2>3. (256 * (q + 1)) % 256 = 0
    BY <1>3
  <2> QED
    BY <1>3, <1>6, <2>1, <2>2, <2>3 DEF v
<1> QED
  BY <1>3, <1>4, <1>5, <1>6

LEMMA ExitArgIs ==
  ASSUME NEW a \in Argument
  PROVE  /\ ExitArg(a) \in Codes
         /\ ~a.junk /\ Digits(a) <= 9 =>
              (ExitArg(a) - IF a.sign = "minus" THEN -Value(a) ELSE Value(a)) % 256 = 0
         /\ a.junk \/ Digits(a) > 20 => ExitArg(a) = 2
         /\ ~a.junk /\ Digits(a) <= 16 => ~TooLong(a)
<1>1. Digits(a) \in Nat /\ a.junk \in BOOLEAN
  BY ArgumentIs DEF Digits
<1>2. Digits(a) <= 16 => ~TooLong(a)
  BY <1>1, CharSumBounds DEF TooLong, Digits
<1>3. Digits(a) > 20 => TooLong(a)
  BY <1>1, CharSumBounds DEF TooLong, Digits
<1>4. ExitArg(a) = IF a.junk \/ TooLong(a) THEN 2 ELSE Atoi(a)
  BY DEF ExitArg, Numeric
<1>5. ExitArg(a) \in Codes
  BY <1>4, AtoiIs, ExecutionAssumption
<1>6. ~a.junk /\ Digits(a) <= 9 =>
        (ExitArg(a) - IF a.sign = "minus" THEN -Value(a) ELSE Value(a)) % 256 = 0
  <2>1. ~a.junk /\ Digits(a) <= 9 => ExitArg(a) = Atoi(a)
    BY <1>1, <1>2, <1>4
  <2> QED
    BY <2>1, AtoiIs
<1> QED
  BY <1>2, <1>3, <1>4, <1>5, <1>6

-----------------------------------------------------------------------------
(* The inductive invariant.  f is what was at each place when the command   *)
(* began; nothing is said of it at a place of w, which other processes have *)
(* changed.                                                                 *)

Undisturbed == path \notin touched

\* No place before the n-th has something executable.
NoneBefore(c, f, n, w) ==
  \A m \in 1 .. n - 1 :
    m <= Len(c.places) /\ c.places[m] \notin w => f[c.places[m]] \notin Executable

\* p is where get_cmd_path found c.
FoundAt(c, f, n, p, w) ==
  \/ c.name = "slash" /\ p = c.place
  \/ /\ c.name = "search" /\ c.path /\ n \in 1 .. Len(c.places) /\ p = c.places[n]
     /\ p \notin w => f[p] \in Executable
     /\ NoneBefore(c, f, n, w)

\* get_cmd_path found nothing.
FoundNowhere(c, f, w) ==
  /\ c.name = "search"
  /\ c.path => NoneBefore(c, f, Len(c.places) + 1, w)

\* The status that a command that was not executed deserves.
Deserves126(c, f, p) ==
  \/ c.name = "slash" /\ p = c.place /\ f[p] \in {"dir", "data"}
  \/ p # Nowhere /\ f[p] = "dir"

Checks == {"check_dir", "check_stat", "check_access"}

\* Where nobody has changed anything, it is as it was.
TreeInv == \A p \in Places \ touched : tree[p] = first[p]

\* Where the search stands, and what it found.
SearchInv ==
  /\ pc = "start" => i = 1 /\ path = Nowhere
  /\ pc = "search" =>
       /\ cmd.name = "search" /\ cmd.path /\ i \in 1 .. Len(cmd.places) + 1
       /\ path = Nowhere
       /\ NoneBefore(cmd, first, i, touched)
  /\ pc \in {"execve", "running", "failed"} \cup Checks => path # Nowhere
  /\ path # Nowhere => FoundAt(cmd, first, i, path, touched)
  /\ pc \in {"not_found", "cleanup", "done"} /\ cmd.name # "exit" /\ path = Nowhere =>
       FoundNowhere(cmd, first, touched)
  /\ cmd.name = "exit" => pc \in {"start", "done"} /\ path = Nowhere

\* What was executed.
ImageInv ==
  /\ pc \notin {"running", "done"} => image = Nowhere
  /\ image # Nowhere => image = path
  /\ pc = "running" => image = path
  /\ pc \in {"running", "done"} /\ image # Nowhere /\ Undisturbed => first[path] = "program"
  /\ pc \in Checks \cup {"failed", "not_found", "cleanup"} /\ path # Nowhere /\ Undisturbed =>
       first[path] # "program"
  /\ pc = "done" /\ image = Nowhere /\ path # Nowhere /\ Undisturbed =>
       first[path] # "program"

\* The status of a command that was not executed.
StatusInv ==
  /\ entry.exit => env = entry
  /\ pc \in {"start", "search", "execve", "running"} \cup Checks => env = entry
  /\ pc = "check_stat" /\ Undisturbed => first[path] # "dir"
  /\ pc = "check_access" /\ Undisturbed => first[path] \notin {"dir", "absent"}
  /\ pc = "not_found" /\ ~entry.exit => env = entry /\ path = Nowhere
  /\ pc \in {"failed", "cleanup", "done"} /\ cmd.name # "exit" /\ image = Nowhere =>
       /\ ~entry.exit => env.exit_status \in {126, 127}
       /\ ~entry.exit /\ Undisturbed =>
            (env.exit_status = 126 <=> Deserves126(cmd, first, path))
  /\ pc = "done" /\ cmd.name # "exit" /\ image = Nowhere => code = env.exit_status

\* exit has reported what it decided.
ExitInv ==
  cmd.name = "exit" =>
    /\ pc = "start" => ~exit_requested
    /\ pc = "done" => (exit_requested <=> Len(cmd.args) < 2)
    /\ pc = "done" /\ ~entry.exit /\ Len(cmd.args) = 1 =>
         env.exit_status = ExitArg(cmd.args[1])

IInv == TypeOK /\ TreeInv /\ SearchInv /\ ImageInv /\ StatusInv /\ ExitInv

-----------------------------------------------------------------------------
(* Commands and reports *)

LEMMA CommandIs ==
  ASSUME NEW c \in Command
  PROVE  /\ c.name \in {"exit", "slash", "search"}
         /\ c.name = "exit" => c.args \in Seq(Argument)
         /\ c.name = "slash" => c.place \in Places
         /\ c.name = "search" =>
              /\ c.path \in BOOLEAN /\ c.places \in Seq(Places) /\ Len(c.places) \in Nat
              /\ \A n \in 1 .. Len(c.places) : c.places[n] \in Places
<1>1. /\ c.name \in {"exit", "slash", "search"}
      /\ c.name = "exit" => c.args \in Seq(Argument)
      /\ c.name = "slash" => c.place \in Places
      /\ c.name = "search" => c.path \in BOOLEAN /\ c.places \in Seq(Places)
  BY DEF Command
<1>2. c.name = "search" =>
        /\ Len(c.places) \in Nat
        /\ \A n \in 1 .. Len(c.places) : c.places[n] \in Places
  BY <1>1, LenProperties, ElementOfSeq
<1> QED
  BY <1>1, <1>2

\* exit_status keeps the first status.
LEMMA ReportIs ==
  ASSUME env \in Env, NEW c \in Codes, Report(c)
  PROVE  /\ env' \in Env
         /\ env.exit => env' = env
         /\ ~env.exit => env'.exit_status = c
BY DEF Report, ExitStatus, Env

LEMMA SomeCodes == {0, 1, 2, 126, 127} \subseteq Codes
BY ExecutionAssumption

-----------------------------------------------------------------------------
(* The invariant holds at the start and is kept by every step. *)

LEMMA InitEstablishes == Init => IInv
<1> SUFFICES ASSUME Init PROVE IInv
  OBVIOUS
<1>1. PICK s \in Starts : cmd = s.cmd /\ tree = s.tree /\ first = tree /\ entry = s.env
                            /\ env = entry
  BY DEF Init
<1>2. s.cmd \in Command /\ s.tree \in [Places -> Node] /\ s.env \in Env
  BY ExecutionAssumption
<1>3. cmd \in Command /\ tree \in [Places -> Node] /\ first = tree /\ entry \in Env
        /\ env = entry
  BY <1>1, <1>2
<1>4. TypeOK
  <2>1. /\ pc = "start" /\ i = 1 /\ path = Nowhere /\ image = Nowhere
        /\ exit_requested = FALSE /\ code = NoCode /\ changes = 0 /\ touched = {}
    BY DEF Init
  <2>2. 0 \in 0 .. MaxChanges /\ 1 \in Nat \ {0}
    BY ExecutionAssumption
  <2> QED
    BY <1>3, <2>1, <2>2 DEF TypeOK
<1>5. pc = "start" /\ i = 1 /\ path = Nowhere /\ image = Nowhere /\ ~exit_requested
  BY DEF Init
<1>6. TreeInv
  BY <1>3 DEF TreeInv, Undisturbed
<1>7. SearchInv
  BY <1>5 DEF SearchInv, Checks, Undisturbed
<1>8. ImageInv
  BY <1>5 DEF ImageInv, Checks, Undisturbed
<1>9. StatusInv
  BY <1>3, <1>5 DEF StatusInv, Checks, Undisturbed
<1>10. ExitInv
  BY <1>5 DEF ExitInv
<1> QED
  BY <1>4, <1>6, <1>7, <1>8, <1>9, <1>10 DEF IInv

\* A step of exit.
LEMMA ExitKeeps ==
  ASSUME IInv, Exit
  PROVE  IInv'
<1> USE DEF IInv
<1>1. cmd.args \in Seq(Argument) /\ Len(cmd.args) \in Nat
        /\ \A k \in 1 .. Len(cmd.args) : cmd.args[k] \in Argument
  BY CommandIs, LenProperties, ElementOfSeq DEF Exit, TypeOK
<1>2. env \in Env /\ env = entry /\ exit_requested = FALSE
  BY DEF Exit, TypeOK, StatusInv, ExitInv, Undisturbed
<1> DEFINE Reports(c) == /\ c \in Codes /\ Report(c)
                         /\ Len(cmd.args) = 1 => c = ExitArg(cmd.args[1])
                         /\ exit_requested' = (Len(cmd.args) < 2)
<1>3. \E c : Reports(c)
  <2>1. CASE Len(cmd.args) = 0
    <3>1. /\ Report(0) /\ exit_requested' = TRUE
          /\ Len(cmd.args) # 1 /\ (Len(cmd.args) < 2) = TRUE
      BY <1>1, <2>1 DEF Exit
    <3>2. Reports(0)
      BY <3>1, SomeCodes
    <3> QED
      BY <3>2
  <2>2. CASE Len(cmd.args) = 1
    <3>1. ExitArg(cmd.args[1]) \in Codes
      BY <1>1, <2>2, ExitArgIs
    <3>2. /\ Report(ExitArg(cmd.args[1])) /\ exit_requested' = TRUE
          /\ (Len(cmd.args) < 2) = TRUE
      BY <1>1, <2>2 DEF Exit
    <3>3. Reports(ExitArg(cmd.args[1]))
      BY <3>1, <3>2
    <3> QED
      BY <3>3
  <2>3. CASE Len(cmd.args) > 1
    <3>1. TooManyArgs(cmd.args[1]) \in Codes
      BY SomeCodes DEF TooManyArgs
    <3>2. /\ Report(TooManyArgs(cmd.args[1])) /\ exit_requested' = exit_requested
          /\ Len(cmd.args) # 1 /\ (Len(cmd.args) < 2) = FALSE
      BY <1>1, <2>3 DEF Exit
    <3>3. Reports(TooManyArgs(cmd.args[1]))
      BY <1>2, <3>1, <3>2
    <3> QED
      BY <3>3
  <2> HIDE DEF Reports
  <2>4. Len(cmd.args) = 0 \/ Len(cmd.args) = 1 \/ Len(cmd.args) > 1
    <3>1. \A n \in Nat : n = 0 \/ n = 1 \/ n > 1
      OBVIOUS
    <3> QED
      BY <1>1, <3>1, Zenon
  <2> QED
    BY <2>1, <2>2, <2>3, <2>4, Zenon
<1>4. PICK c : Reports(c)
  BY <1>3
<1>5. env' \in Env /\ (env.exit => env' = env) /\ (~env.exit => env'.exit_status = c)
  BY <1>2, <1>4, ReportIs
<1>6. /\ pc = "start" /\ cmd.name = "exit" /\ pc' = "done"
      /\ UNCHANGED <<cmd, tree, first, entry, changes, touched, i, path, image, code>>
  BY DEF Exit, Moves
<1>7. TypeOK'
  BY <1>5, <1>4, <1>6 DEF TypeOK
<1>8. TreeInv'
  BY <1>6 DEF TreeInv, Undisturbed
<1>9. SearchInv'
  BY <1>6 DEF SearchInv, Checks, Undisturbed
<1>10. ImageInv'
  BY <1>6 DEF ImageInv, SearchInv, Checks, Undisturbed
<1>11. StatusInv'
  BY <1>2, <1>5, <1>6 DEF StatusInv, Checks, Undisturbed
<1>12. ExitInv'
  BY <1>2, <1>5, <1>6, <1>4 DEF ExitInv, TypeOK, Env
<1> QED
  BY <1>7, <1>8, <1>9, <1>10, <1>11, <1>12

\* A step of the child: it leaves the command, the files and the latch as they
\* were found.
LEMMA ChildKeeps ==
  ASSUME IInv, NEW next, ChildMoves(next), cmd.name # "exit"
  PROVE  /\ TreeInv' /\ ExitInv'
         /\ UNCHANGED <<cmd, tree, first, entry, changes, touched, exit_requested>> /\ pc' = next
BY DEF IInv, ChildMoves, Moves, TreeInv, ExitInv, Undisturbed

LEMMA GetCmdPathKeeps ==
  ASSUME IInv, GetCmdPath
  PROVE  IInv'
<1> USE DEF IInv
<1>1. cmd.name # "exit" /\ pc = "start" /\ \E next : ChildMoves(next)
  BY DEF GetCmdPath
<1>2. TreeInv' /\ ExitInv' /\ UNCHANGED <<cmd, tree, first, entry, changes, touched, exit_requested>>
  BY <1>1, ChildKeeps
<1>3. UNCHANGED <<i, image, env, code>> /\ i = 1 /\ path = Nowhere
  BY <1>1 DEF GetCmdPath, SearchInv, Undisturbed
<1>4. CASE cmd.name = "slash" /\ path' = cmd.place /\ pc' = "execve"
  <2>1. path' \in Places /\ path' # Nowhere
    BY <1>4, CommandIs, ExecutionAssumption DEF TypeOK
  <2>2. TypeOK'
    BY <1>2, <1>3, <1>4, <2>1 DEF TypeOK
  <2>3. SearchInv'
    BY <1>2, <1>3, <1>4, <2>1 DEF SearchInv, FoundAt, Checks, Undisturbed
  <2>4. ImageInv'
    BY <1>1, <1>2, <1>3, <1>4 DEF ImageInv, Checks, Undisturbed
  <2>5. StatusInv'
    BY <1>1, <1>2, <1>3, <1>4 DEF StatusInv, Checks, Undisturbed
  <2> QED
    BY <1>2, <2>2, <2>3, <2>4, <2>5
<1>5. CASE cmd.name = "search" /\ cmd.path /\ pc' = "search" /\ UNCHANGED path
  <2>1. NoneBefore(cmd, first, 1, touched) /\ Len(cmd.places) \in Nat
    BY <1>5, CommandIs DEF NoneBefore, TypeOK
  <2>2. TypeOK'
    BY <1>2, <1>3, <1>5 DEF TypeOK
  <2>3. SearchInv'
    BY <1>2, <1>3, <1>5, <2>1 DEF SearchInv, Checks, Undisturbed
  <2>4. ImageInv'
    BY <1>1, <1>2, <1>3, <1>5 DEF ImageInv, Checks, Undisturbed
  <2>5. StatusInv'
    BY <1>1, <1>2, <1>3, <1>5 DEF StatusInv, Checks, Undisturbed
  <2> QED
    BY <1>2, <2>2, <2>3, <2>4, <2>5
<1>6. CASE cmd.name = "search" /\ ~cmd.path /\ pc' = "not_found" /\ UNCHANGED path
  <2>2. TypeOK'
    BY <1>2, <1>3, <1>6 DEF TypeOK
  <2>3. SearchInv'
    BY <1>2, <1>3, <1>6 DEF SearchInv, FoundNowhere, Checks, Undisturbed
  <2>4. ImageInv'
    BY <1>1, <1>2, <1>3, <1>6 DEF ImageInv, Checks, Undisturbed
  <2>5. StatusInv'
    BY <1>1, <1>2, <1>3, <1>6 DEF StatusInv, Checks, Undisturbed
  <2> QED
    BY <1>2, <2>2, <2>3, <2>4, <2>5
<1> QED
  BY <1>4, <1>5, <1>6 DEF GetCmdPath, ChildMoves, Moves

LEMMA FindPathKeeps ==
  ASSUME IInv, FindPath
  PROVE  IInv'
<1> USE DEF IInv
<1>1. /\ cmd.name = "search" /\ cmd.path /\ i \in 1 .. Len(cmd.places) + 1
      /\ path = Nowhere /\ pc = "search"
      /\ NoneBefore(cmd, first, i, touched)
      /\ \A p \in Places \ touched : tree[p] = first[p]
  BY DEF FindPath, SearchInv, TreeInv, Undisturbed
<1>2. TreeInv' /\ ExitInv' /\ UNCHANGED <<cmd, tree, first, entry, changes, touched, exit_requested>>
  <2>1. \E next : ChildMoves(next)
    BY DEF FindPath
  <2> QED
    BY <1>1, <2>1, ChildKeeps
<1>3. UNCHANGED <<image, env, code>>
  BY DEF FindPath
<1>4. /\ Len(cmd.places) \in Nat
      /\ \A n \in 1 .. Len(cmd.places) : cmd.places[n] \in Places
  BY <1>1, CommandIs DEF TypeOK
<1>5. CASE /\ i <= Len(cmd.places) /\ tree[cmd.places[i]] \in Executable
           /\ path' = cmd.places[i] /\ pc' = "execve" /\ UNCHANGED i
  <2>1. i \in 1 .. Len(cmd.places) /\ path' \in Places /\ path' # Nowhere
    BY <1>1, <1>4, <1>5, ExecutionAssumption
  <2>2. TypeOK'
    BY <1>2, <1>3, <1>5, <2>1 DEF TypeOK
  <2>3. FoundAt(cmd, first, i, path', touched)
    BY <1>1, <1>5, <2>1 DEF FoundAt
  <2>4. SearchInv'
    BY <1>1, <1>2, <1>5, <2>1, <2>3 DEF SearchInv, Checks, Undisturbed
  <2>5. ImageInv'
    BY <1>1, <1>2, <1>3, <1>5 DEF ImageInv, Checks, Undisturbed
  <2>6. StatusInv'
    BY <1>1, <1>2, <1>3, <1>5 DEF StatusInv, Checks, Undisturbed
  <2> QED
    BY <1>2, <2>2, <2>4, <2>5, <2>6
<1>6. CASE /\ i <= Len(cmd.places) /\ tree[cmd.places[i]] \notin Executable
           /\ i' = i + 1 /\ pc' = "search" /\ UNCHANGED path
  <2>1. i \in 1 .. Len(cmd.places) /\ i + 1 \in 1 .. Len(cmd.places) + 1
    BY <1>1, <1>4, <1>6
  <2>2. TypeOK'
    BY <1>2, <1>3, <1>6 DEF TypeOK
  <2>3. NoneBefore(cmd, first, i + 1, touched)
    <3> SUFFICES ASSUME NEW m \in 1 .. i, cmd.places[m] \notin touched
                 PROVE  first[cmd.places[m]] \notin Executable
      BY <1>4, <2>1 DEF NoneBefore
    <3>1. CASE m = i
      BY <1>1, <1>4, <1>6, <2>1, <3>1
    <3>2. CASE m # i
      BY <1>1, <1>4, <2>1, <3>2 DEF NoneBefore
    <3> QED
      BY <3>1, <3>2
  <2>4. SearchInv'
    BY <1>1, <1>2, <1>6, <2>1, <2>3 DEF SearchInv, Checks, Undisturbed
  <2>5. ImageInv'
    BY <1>1, <1>2, <1>3, <1>6 DEF ImageInv, Checks, Undisturbed
  <2>6. StatusInv'
    BY <1>1, <1>2, <1>3, <1>6 DEF StatusInv, Checks, Undisturbed
  <2> QED
    BY <1>2, <2>2, <2>4, <2>5, <2>6
<1>7. CASE i > Len(cmd.places) /\ pc' = "not_found" /\ UNCHANGED <<i, path>>
  <2>1. i = Len(cmd.places) + 1
    BY <1>1, <1>4, <1>7
  <2>2. TypeOK'
    BY <1>2, <1>3, <1>7 DEF TypeOK
  <2>3. FoundNowhere(cmd, first, touched)
    BY <1>1, <2>1 DEF FoundNowhere
  <2>4. SearchInv'
    BY <1>1, <1>2, <1>7, <2>3 DEF SearchInv, Checks, Undisturbed
  <2>5. ImageInv'
    BY <1>1, <1>2, <1>3, <1>7 DEF ImageInv, Checks, Undisturbed
  <2>6. StatusInv'
    BY <1>1, <1>2, <1>3, <1>7 DEF StatusInv, Checks, Undisturbed
  <2> QED
    BY <1>2, <2>2, <2>4, <2>5, <2>6
<1> QED
  BY <1>5, <1>6, <1>7 DEF FindPath, ChildMoves, Moves

LEMMA ExecveKeeps ==
  ASSUME IInv, Execve
  PROVE  IInv'
<1> USE DEF IInv
<1>1. /\ pc = "execve" /\ cmd.name # "exit" /\ path # Nowhere /\ path \in Places
      /\ image = Nowhere
      /\ Undisturbed => tree[path] = first[path]
  BY DEF Execve, SearchInv, ImageInv, TreeInv, TypeOK, Undisturbed
<1>2. TreeInv' /\ ExitInv' /\ UNCHANGED <<cmd, tree, first, entry, changes, touched, exit_requested>>
  <2>1. \E next : ChildMoves(next)
    BY DEF Execve
  <2> QED
    BY <1>1, <2>1, ChildKeeps
<1>3. UNCHANGED <<i, path, env, code>>
  BY DEF Execve
<1>4. CASE tree[path] = "program" /\ image' = path /\ pc' = "running"
  <2>1. TypeOK'
    BY <1>1, <1>2, <1>3, <1>4 DEF TypeOK
  <2>2. SearchInv'
    BY <1>1, <1>2, <1>3, <1>4 DEF SearchInv, Checks, Undisturbed
  <2>3. ImageInv'
    BY <1>1, <1>2, <1>3, <1>4 DEF ImageInv, Checks, Undisturbed
  <2>4. StatusInv'
    BY <1>1, <1>2, <1>3, <1>4 DEF StatusInv, Checks, Undisturbed
  <2> QED
    BY <1>2, <2>1, <2>2, <2>3, <2>4
<1>5. CASE tree[path] # "program" /\ pc' = "check_dir" /\ UNCHANGED image
  <2>1. TypeOK'
    BY <1>1, <1>2, <1>3, <1>5 DEF TypeOK
  <2>2. SearchInv'
    BY <1>1, <1>2, <1>3, <1>5 DEF SearchInv, Checks, Undisturbed
  <2>3. ImageInv'
    BY <1>1, <1>2, <1>3, <1>5 DEF ImageInv, Checks, Undisturbed
  <2>4. StatusInv'
    BY <1>1, <1>2, <1>3, <1>5 DEF StatusInv, Checks, Undisturbed
  <2> QED
    BY <1>2, <2>1, <2>2, <2>3, <2>4
<1> QED
  BY <1>4, <1>5 DEF Execve, ChildMoves, Moves

\* What a check leaves, whether it reports or passes on to the next one.
LEMMA CheckKeeps ==
  ASSUME IInv, pc \in Checks, NEW next, ChildMoves(next), UNCHANGED <<i, path, image, code>>,
         env' \in Env, next \in Checks \cup {"failed"}
  PROVE  /\ TypeOK' /\ TreeInv' /\ SearchInv' /\ ImageInv' /\ ExitInv'
         /\ UNCHANGED <<cmd, tree, first, entry, changes, touched, path, image, code>>
         /\ pc' = next
         /\ cmd.name # "exit" /\ image = Nowhere /\ path \in Places /\ path # Nowhere
         /\ FoundAt(cmd, first, i, path, touched) /\ env = entry
         /\ Undisturbed => tree[path] = first[path] /\ first[path] \in Node \ {"program"}
<1> USE DEF IInv
<1>1. /\ cmd.name # "exit" /\ path # Nowhere /\ path \in Places /\ image = Nowhere
      /\ FoundAt(cmd, first, i, path, touched) /\ env = entry
  BY DEF SearchInv, ImageInv, StatusInv, TypeOK, Checks, Undisturbed
<1>2. TreeInv' /\ ExitInv' /\ UNCHANGED <<cmd, tree, first, entry, changes, touched, exit_requested>>
        /\ pc' = next
  BY <1>1, ChildKeeps
<1>3. Undisturbed => tree[path] = first[path] /\ first[path] \in Node \ {"program"}
  BY <1>1 DEF TreeInv, ImageInv, TypeOK, Checks, Undisturbed
<1>4. TypeOK'
  BY <1>2 DEF TypeOK, Checks
<1>5. SearchInv'
  BY <1>1, <1>2 DEF SearchInv, Checks, Undisturbed
<1>6. ImageInv'
  BY <1>1, <1>2, <1>3 DEF ImageInv, Checks, Undisturbed
<1> QED
  BY <1>1, <1>2, <1>3, <1>4, <1>5, <1>6

\* The status that the last check has made up.
LEMMA CheckReports ==
  ASSUME env \in Env, entry = env, NEW c \in {126, 127}, Report(c), UNCHANGED entry,
         pc' = "failed", cmd' = cmd, path' = path, first' = first, touched' = touched,
         ~entry.exit /\ Undisturbed => (c = 126 <=> Deserves126(cmd, first, path))
  PROVE  StatusInv' /\ env' \in Env
<1>1. /\ env' \in Env
      /\ env.exit => env' = env
      /\ ~env.exit => env'.exit_status = c
  BY SomeCodes, ReportIs
<1>2. entry'.exit => env' = entry'
  BY <1>1
<1>3. ~entry'.exit => env'.exit_status \in {126, 127}
  BY <1>1
<1>4. ~entry'.exit /\ Undisturbed' =>
        (env'.exit_status = 126 <=> Deserves126(cmd', first', path'))
  BY <1>1 DEF Undisturbed
<1> QED
  BY <1>1, <1>2, <1>3, <1>4 DEF StatusInv, Checks, Undisturbed

LEMMA CheckDirKeeps ==
  ASSUME IInv, CheckDir
  PROVE  IInv'
<1>1. pc = "check_dir" /\ UNCHANGED <<i, path, image, code>>
  BY DEF CheckDir
<1>2. CASE tree[path] = "dir" /\ Report(126) /\ ChildMoves("failed")
  <2>1. env' \in Env
    BY <1>2, SomeCodes, ReportIs DEF IInv, TypeOK
  <2>2. /\ TypeOK' /\ TreeInv' /\ SearchInv' /\ ImageInv' /\ ExitInv'
        /\ UNCHANGED <<cmd, tree, first, entry, changes, touched, path>> /\ pc' = "failed"
        /\ path # Nowhere /\ env = entry
        /\ Undisturbed => tree[path] = first[path]
    BY <1>1, <1>2, <2>1, CheckKeeps DEF Checks
  <2>3. Undisturbed => Deserves126(cmd, first, path)
    BY <1>2, <2>2 DEF Deserves126
  <2>4. StatusInv'
    BY <1>2, <2>2, <2>3, CheckReports DEF IInv, TypeOK
  <2> QED
    BY <2>2, <2>4 DEF IInv
<1>3. CASE tree[path] # "dir" /\ ChildMoves("check_stat") /\ UNCHANGED env
  <2>1. env' \in Env
    BY <1>3 DEF IInv, TypeOK
  <2>2. /\ TypeOK' /\ TreeInv' /\ SearchInv' /\ ImageInv' /\ ExitInv'
        /\ UNCHANGED <<cmd, tree, first, entry, changes, touched, path>> /\ pc' = "check_stat"
        /\ env = entry
        /\ Undisturbed => tree[path] = first[path]
    BY <1>1, <1>3, <2>1, CheckKeeps DEF Checks
  <2>3. StatusInv'
    BY <1>3, <2>2 DEF StatusInv, Checks, Undisturbed
  <2> QED
    BY <2>2, <2>3 DEF IInv
<1> QED
  BY <1>2, <1>3 DEF CheckDir

LEMMA CheckStatKeeps ==
  ASSUME IInv, CheckStat
  PROVE  IInv'
<1>1. /\ pc = "check_stat" /\ UNCHANGED <<i, path, image, code>>
      /\ Undisturbed => first[path] # "dir"
  BY DEF CheckStat, IInv, StatusInv, Undisturbed
<1>2. CASE tree[path] = "absent" /\ Report(127) /\ ChildMoves("failed")
  <2>1. env' \in Env
    BY <1>2, SomeCodes, ReportIs DEF IInv, TypeOK
  <2>2. /\ TypeOK' /\ TreeInv' /\ SearchInv' /\ ImageInv' /\ ExitInv'
        /\ UNCHANGED <<cmd, tree, first, entry, changes, touched, path>> /\ pc' = "failed"
        /\ path # Nowhere /\ env = entry
        /\ FoundAt(cmd, first, i, path, touched)
        /\ Undisturbed => tree[path] = first[path]
    BY <1>1, <1>2, <2>1, CheckKeeps DEF Checks
  <2>3. Undisturbed => ~Deserves126(cmd, first, path)
    BY <1>2, <2>2 DEF Deserves126, FoundAt
  <2>4. StatusInv'
    BY <1>2, <2>2, <2>3, CheckReports DEF IInv, TypeOK
  <2> QED
    BY <2>2, <2>4 DEF IInv
<1>3. CASE tree[path] # "absent" /\ ChildMoves("check_access") /\ UNCHANGED env
  <2>1. env' \in Env
    BY <1>3 DEF IInv, TypeOK
  <2>2. /\ TypeOK' /\ TreeInv' /\ SearchInv' /\ ImageInv' /\ ExitInv'
        /\ UNCHANGED <<cmd, tree, first, entry, changes, touched, path>> /\ pc' = "check_access"
        /\ env = entry
        /\ Undisturbed => tree[path] = first[path]
    BY <1>1, <1>3, <2>1, CheckKeeps DEF Checks
  <2>3. StatusInv'
    BY <1>1, <1>3, <2>2 DEF StatusInv, Checks, Undisturbed
  <2> QED
    BY <2>2, <2>3 DEF IInv
<1> QED
  BY <1>2, <1>3 DEF CheckStat

LEMMA CheckAccessKeeps ==
  ASSUME IInv, CheckAccess
  PROVE  IInv'
<1> DEFINE c == IF tree[path] \in Executable THEN 127 ELSE 126
<1>1. /\ pc = "check_access" /\ UNCHANGED <<i, path, image, code>>
      /\ Undisturbed => first[path] \notin {"dir", "absent"}
      /\ Report(c) /\ ChildMoves("failed")
  BY DEF CheckAccess, IInv, StatusInv, Undisturbed
<1>2. env' \in Env
  BY <1>1, SomeCodes, ReportIs DEF IInv, TypeOK
<1>3. /\ TypeOK' /\ TreeInv' /\ SearchInv' /\ ImageInv' /\ ExitInv'
      /\ UNCHANGED <<cmd, tree, first, entry, changes, touched, path>> /\ pc' = "failed"
      /\ path # Nowhere /\ env = entry
      /\ FoundAt(cmd, first, i, path, touched)
      /\ Undisturbed => tree[path] = first[path] /\ first[path] \in Node \ {"program"}
  BY <1>1, <1>2, CheckKeeps DEF Checks
<1>4. Undisturbed => (c = 126 <=> Deserves126(cmd, first, path))
  BY <1>1, <1>3 DEF Deserves126, FoundAt, Node, Executable, Undisturbed
<1>5. c \in {126, 127} /\ env \in Env
  BY DEF IInv, TypeOK
<1>6. StatusInv'
  <2> HIDE DEF c
  <2> QED
    BY <1>1, <1>3, <1>4, <1>5, CheckReports
<1> QED
  BY <1>3, <1>6 DEF IInv

LEMMA FailedKeeps ==
  ASSUME IInv, Failed
  PROVE  IInv'
<1> USE DEF IInv
<1>1. /\ pc = "failed" /\ cmd.name # "exit" /\ path # Nowhere /\ image = Nowhere
      /\ UNCHANGED <<i, path, image, env, code>> /\ env \in Env /\ entry \in Env
  BY DEF Failed, SearchInv, ImageInv, TypeOK, Undisturbed
<1>2. TreeInv' /\ ExitInv' /\ UNCHANGED <<cmd, tree, first, entry, changes, touched, exit_requested>>
        /\ pc' = IF env.exit_status # 0 THEN "cleanup" ELSE "not_found"
  BY <1>1, ChildKeeps DEF Failed
<1>3. ~entry.exit => pc' = "cleanup"
  BY <1>1, <1>2 DEF StatusInv, Undisturbed
<1>4. TypeOK'
  BY <1>1, <1>2 DEF TypeOK
<1>5. SearchInv'
  BY <1>1, <1>2 DEF SearchInv, Checks, Undisturbed
<1>6. ImageInv'
  BY <1>1, <1>2 DEF ImageInv, Checks, Undisturbed
<1>7. StatusInv'
  BY <1>1, <1>2, <1>3 DEF StatusInv, Checks, Undisturbed
<1> QED
  BY <1>2, <1>4, <1>5, <1>6, <1>7

LEMMA NotFoundKeeps ==
  ASSUME IInv, NotFound
  PROVE  IInv'
<1> USE DEF IInv
<1>1. /\ pc = "not_found" /\ cmd.name # "exit" /\ image = Nowhere
      /\ UNCHANGED <<i, path, image, code>> /\ env \in Env /\ entry \in Env /\ Report(127)
      /\ ~entry.exit => env = entry /\ path = Nowhere
      /\ path = Nowhere => FoundNowhere(cmd, first, touched)
  BY DEF NotFound, SearchInv, ImageInv, StatusInv, TypeOK, Undisturbed
<1>2. TreeInv' /\ ExitInv' /\ UNCHANGED <<cmd, tree, first, entry, changes, touched, exit_requested>>
        /\ pc' = "cleanup"
  BY <1>1, ChildKeeps DEF NotFound
<1>3. /\ env' \in Env
      /\ env.exit => env' = env
      /\ ~env.exit => env'.exit_status = 127
  BY <1>1, SomeCodes, ReportIs
<1>4. TypeOK'
  BY <1>1, <1>2, <1>3 DEF TypeOK
<1>5. SearchInv'
  BY <1>1, <1>2 DEF SearchInv, Checks, Undisturbed
<1>6. ImageInv'
  BY <1>1, <1>2 DEF ImageInv, Checks, Undisturbed
<1>7. StatusInv'
  <2>1. entry'.exit => env' = entry'
    BY <1>2, <1>3 DEF StatusInv, Undisturbed
  <2>2. ~entry.exit => env'.exit_status = 127 /\ ~Deserves126(cmd, first, path)
    BY <1>1, <1>3 DEF Deserves126, FoundNowhere
  <2> QED
    BY <1>1, <1>2, <2>1, <2>2 DEF StatusInv, Checks, Undisturbed
<1> QED
  BY <1>2, <1>4, <1>5, <1>6, <1>7

LEMMA CleanupKeeps ==
  ASSUME IInv, Cleanup
  PROVE  IInv'
<1> USE DEF IInv
<1>1. /\ pc = "cleanup" /\ cmd.name # "exit" /\ image = Nowhere
      /\ UNCHANGED <<i, path, image, env>> /\ env \in Env /\ code' = env.exit_status
  BY DEF Cleanup, SearchInv, ImageInv, TypeOK, Undisturbed
<1>2. TreeInv' /\ ExitInv' /\ UNCHANGED <<cmd, tree, first, entry, changes, touched, exit_requested>>
        /\ pc' = "done"
  BY <1>1, ChildKeeps DEF Cleanup
<1>3. TypeOK'
  BY <1>1, <1>2 DEF TypeOK, Env
<1>4. SearchInv'
  BY <1>1, <1>2 DEF SearchInv, Checks, Undisturbed
<1>5. ImageInv'
  BY <1>1, <1>2 DEF ImageInv, Checks, Undisturbed
<1>6. StatusInv'
  BY <1>1, <1>2 DEF StatusInv, Checks, Undisturbed
<1> QED
  BY <1>2, <1>3, <1>4, <1>5, <1>6

LEMMA ProgramKeeps ==
  ASSUME IInv, Program
  PROVE  IInv'
<1> USE DEF IInv
<1>1. /\ pc = "running" /\ cmd.name # "exit" /\ image = path /\ path # Nowhere
      /\ UNCHANGED <<i, path, image, env>> /\ code' = OwnCode
  BY DEF Program, SearchInv, ImageInv, TypeOK, Undisturbed
<1>2. TreeInv' /\ ExitInv' /\ UNCHANGED <<cmd, tree, first, entry, changes, touched, exit_requested>>
        /\ pc' = "done"
  BY <1>1, ChildKeeps DEF Program
<1>3. TypeOK'
  BY <1>1, <1>2 DEF TypeOK
<1>4. SearchInv'
  BY <1>1, <1>2 DEF SearchInv, Checks, Undisturbed
<1>5. ImageInv'
  BY <1>1, <1>2 DEF ImageInv, Checks, Undisturbed
<1>6. StatusInv'
  BY <1>1, <1>2 DEF StatusInv, Checks, Undisturbed
<1> QED
  BY <1>2, <1>3, <1>4, <1>5, <1>6

\* Nothing is promised of a place that another process has changed.
LEMMA ChangeKeeps ==
  ASSUME IInv, Change
  PROVE  IInv'
<1> USE DEF IInv
<1>1. /\ UNCHANGED <<pc, cmd, first, i, path, image, entry, env, exit_requested, code>>
      /\ changes' = changes + 1 /\ changes < MaxChanges /\ changes \in 0 .. MaxChanges
  BY DEF Change, TypeOK
<1>2. changes' \in 0 .. MaxChanges
  BY <1>1, ExecutionAssumption
<1>3. PICK p \in Places, node \in Node :
        tree' = [tree EXCEPT ![p] = node] /\ touched' = touched \cup {p}
  BY DEF Change
<1>4. touched \subseteq touched' /\ (Undisturbed' => Undisturbed)
  BY <1>1, <1>3 DEF Undisturbed
<1>5. TypeOK'
  BY <1>1, <1>2, <1>3 DEF TypeOK
<1>6. TreeInv'
  BY <1>1, <1>3 DEF TreeInv, TypeOK
<1>7. ASSUME NEW n, NoneBefore(cmd, first, n, touched)
      PROVE  NoneBefore(cmd, first, n, touched')
  BY <1>4, <1>7 DEF NoneBefore
<1>8. SearchInv'
  <2>1. path # Nowhere => FoundAt(cmd, first, i, path, touched')
    BY <1>4, <1>7 DEF SearchInv, FoundAt
  <2>2. FoundNowhere(cmd, first, touched) => FoundNowhere(cmd, first, touched')
    BY <1>7 DEF FoundNowhere
  <2> QED
    BY <1>1, <1>7, <2>1, <2>2 DEF SearchInv, Checks
<1>9. ImageInv'
  BY <1>1, <1>4 DEF ImageInv, Checks
<1>10. StatusInv'
  BY <1>1, <1>4 DEF StatusInv, Checks
<1>11. ExitInv'
  BY <1>1 DEF ExitInv
<1> QED
  BY <1>5, <1>6, <1>8, <1>9, <1>10, <1>11

LEMMA NextKeeps == IInv /\ [Next]_vars => IInv'
<1> SUFFICES ASSUME IInv, [Next]_vars PROVE IInv'
  OBVIOUS
<1>1. CASE UNCHANGED vars
  BY <1>1 DEF vars, IInv, TypeOK, TreeInv, SearchInv, ImageInv, StatusInv, ExitInv, Undisturbed
<1> QED
  BY <1>1, ExitKeeps, GetCmdPathKeeps, FindPathKeeps, ExecveKeeps, CheckDirKeeps,
     CheckStatKeeps, CheckAccessKeeps, FailedKeeps, NotFoundKeeps, CleanupKeeps,
     ProgramKeeps, ChangeKeeps DEF Next

LEMMA Invariance == Spec => []IInv
BY InitEstablishes, NextKeeps, PTL DEF Spec

-----------------------------------------------------------------------------
(* What the invariant gives *)

(***************************************************************************)
(* Carrying out a command keeps every variable within its type: no status  *)
(* outside eight bits, whatever the argument of exit (execute_builtin1,    *)
(* ft_exit), and no path but one of the command's (get_cmd_path).          *)
(***************************************************************************)
THEOREM TypeCorrect == Spec => []TypeOK
BY Invariance, PTL DEF IInv

LEMMA CandidatesAre ==
  ASSUME TypeOK, cmd.name # "exit"
  PROVE  /\ Candidates \in Seq(Places) /\ Len(Candidates) \in Nat
         /\ DOMAIN Candidates = 1 .. Len(Candidates)
         /\ Range(Candidates) = {Candidates[n] : n \in 1 .. Len(Candidates)}
         /\ cmd.name = "slash" => Candidates = <<cmd.place>> /\ Range(Candidates) = {cmd.place}
         /\ cmd.name = "search" => Candidates = IF cmd.path THEN cmd.places ELSE <<>>
<1>1. cmd.name \in {"slash", "search"} /\ (cmd.name = "slash" => cmd.place \in Places)
      /\ (cmd.name = "search" => cmd.places \in Seq(Places))
  BY CommandIs DEF TypeOK
<1>2. /\ cmd.name = "slash" => Candidates = <<cmd.place>>
      /\ cmd.name = "search" => Candidates = IF cmd.path THEN cmd.places ELSE <<>>
  BY DEF Candidates
<1>3. Candidates \in Seq(Places)
  <2>1. <<>> \in Seq(Places)
    BY EmptySeq
  <2>2. cmd.name = "slash" => <<cmd.place>> \in Seq(Places)
    BY <1>1
  <2> QED
    BY <1>1, <1>2, <2>1, <2>2
<1>4. Len(Candidates) \in Nat /\ DOMAIN Candidates = 1 .. Len(Candidates)
  BY <1>3, LenProperties
<1>5. Range(Candidates) = {Candidates[n] : n \in 1 .. Len(Candidates)}
  BY <1>4 DEF Range
<1>6. cmd.name = "slash" => Range(Candidates) = {cmd.place}
  <2> SUFFICES ASSUME cmd.name = "slash" PROVE Range(Candidates) = {cmd.place}
    OBVIOUS
  <2>1. Range(<<cmd.place>>) = {cmd.place}
    BY DEF Range
  <2> QED
    BY <1>2, <2>1
<1> QED
  BY <1>2, <1>3, <1>4, <1>5, <1>6

\* What a search that is over has found.
LEMMA SearchIs ==
  ASSUME IInv, pc \in {"running", "done"}, cmd.name = "search"
  PROVE  /\ Candidates = IF cmd.path THEN cmd.places ELSE <<>>
         /\ path # Nowhere => /\ i \in DOMAIN Candidates /\ path = Candidates[i]
                              /\ path \notin touched => first[path] \in Executable
                              /\ \A m \in 1 .. i - 1 :
                                   Runnable(Candidates[m]) => Candidates[m] \in touched
         /\ path = Nowhere => \A m \in DOMAIN Candidates :
                                Runnable(Candidates[m]) => Candidates[m] \in touched
<1>1. /\ Candidates = IF cmd.path THEN cmd.places ELSE <<>>
      /\ Len(Candidates) \in Nat /\ DOMAIN Candidates = 1 .. Len(Candidates)
  BY CandidatesAre DEF IInv
<1>2. path # Nowhere => FoundAt(cmd, first, i, path, touched)
  BY DEF IInv, SearchInv
<1>3. path = Nowhere => FoundNowhere(cmd, first, touched)
  BY DEF IInv, SearchInv
<1>4. ASSUME path # Nowhere
      PROVE  /\ i \in DOMAIN Candidates /\ path = Candidates[i]
             /\ path \notin touched => first[path] \in Executable
             /\ \A m \in 1 .. i - 1 : Runnable(Candidates[m]) => Candidates[m] \in touched
  <2>1. /\ cmd.path /\ i \in 1 .. Len(cmd.places) /\ path = cmd.places[i]
        /\ path \notin touched => first[path] \in Executable
        /\ NoneBefore(cmd, first, i, touched)
    BY <1>2, <1>4 DEF FoundAt
  <2>2. Candidates = cmd.places
    BY <1>1, <2>1
  <2> QED
    BY <1>1, <2>1, <2>2 DEF NoneBefore, Runnable
<1>5. ASSUME path = Nowhere, NEW m \in DOMAIN Candidates, Runnable(Candidates[m])
      PROVE  Candidates[m] \in touched
  <2>1. cmd.path
    <3>1. 1 .. 0 = {} /\ Len(<<>>) = 0
      OBVIOUS
    <3>2. ~cmd.path => Candidates = <<>>
      BY <1>1
    <3> QED
      BY <1>1, <1>5, <3>1, <3>2
  <2>2. Candidates = cmd.places /\ NoneBefore(cmd, first, Len(cmd.places) + 1, touched)
    BY <1>1, <1>3, <1>5, <2>1 DEF FoundNowhere
  <2> QED
    BY <1>1, <1>5, <2>2 DEF NoneBefore, Runnable
<1> QED
  BY <1>1, <1>4, <1>5

(***************************************************************************)
(* find_path and execve: the program that runs is at the first of the      *)
(* places of PATH that has something executable, and it runs whenever that *)
(* is a program, whatever other processes do to other places.              *)
(***************************************************************************)
THEOREM FirstExecutableRuns == Spec => []FirstExecutable
<1>1. ASSUME IInv, pc \in {"running", "done"}, cmd.name = "search",
             NEW n \in DOMAIN Candidates, Runnable(Candidates[n]), Candidates[n] \notin touched,
             \A m \in 1 .. n - 1 : ~Runnable(Candidates[m]) /\ Candidates[m] \notin touched
      PROVE  image = IF first[Candidates[n]] = "program" THEN Candidates[n] ELSE Nowhere
  <2>1. Len(Candidates) \in Nat /\ DOMAIN Candidates = 1 .. Len(Candidates)
    BY <1>1, CandidatesAre DEF IInv
  <2>2. path # Nowhere
    BY <1>1, SearchIs
  <2>3. /\ i \in DOMAIN Candidates /\ path = Candidates[i]
        /\ path \notin touched => first[path] \in Executable
        /\ \A m \in 1 .. i - 1 : Runnable(Candidates[m]) => Candidates[m] \in touched
    BY <1>1, <2>2, SearchIs
  <2>4. i = n
    <3>1. i < n => FALSE
      BY <1>1, <2>1, <2>3 DEF Runnable
    <3>2. n < i => FALSE
      BY <1>1, <2>1, <2>3
    <3> QED
      BY <2>1, <2>3, <3>1, <3>2
  <2> QED
    BY <1>1, <2>2, <2>3, <2>4 DEF IInv, ImageInv, Undisturbed
<1>2. ASSUME IInv, pc \in {"running", "done"}, cmd.name = "search", image # Nowhere
      PROVE  /\ first[image] = "program" \/ image \in touched
             /\ \E n \in DOMAIN Candidates :
                  /\ Candidates[n] = image
                  /\ \A m \in 1 .. n - 1 : Runnable(Candidates[m]) => Candidates[m] \in touched
  <2>1. image = path
    BY <1>2 DEF IInv, ImageInv
  <2> QED
    BY <1>2, <2>1, SearchIs DEF IInv, ImageInv, Undisturbed
<1>3. IInv => FirstExecutable
  BY <1>1, <1>2 DEF FirstExecutable
<1> QED
  BY <1>3, Invariance, PTL

(***************************************************************************)
(* execute_external and check_execve_errors: a child that started no       *)
(* program ends with 126 or 127 whatever other processes change between    *)
(* the search, execve and the checks, and with the one that the files call *)
(* for when its places are left alone, but for the two cases of Untold; a  *)
(* status that was pending stays.                                          *)
(***************************************************************************)
THEOREM FailuresAreTold == Spec => []FailureCode
<1>1. ASSUME IInv, pc = "done", cmd.name # "exit", image = Nowhere
      PROVE  /\ code = IF entry.exit THEN entry.exit_status ELSE env.exit_status
             /\ ~entry.exit => code \in {126, 127}
  BY <1>1 DEF IInv, StatusInv
<1>2. ASSUME IInv, pc = "done", cmd.name # "exit", image = Nowhere, ~entry.exit,
             Range(Candidates) \cap touched = {}, ~Untold
      PROVE  /\ code = 126 <=> path # Nowhere /\ first[path] \in Unusable
             /\ code = 127 <=> \/ \A p \in Range(Candidates) : first[p] = "absent"
                               \/ path # Nowhere /\ first[path] = "script"
  <2>1. /\ Range(Candidates) = {Candidates[n] : n \in 1 .. Len(Candidates)}
        /\ DOMAIN Candidates = 1 .. Len(Candidates)
        /\ Candidates \in Seq(Places)
        /\ cmd.name = "slash" => Range(Candidates) = {cmd.place}
    BY <1>2, CandidatesAre DEF IInv
  <2>2. code \in {126, 127} /\ code = env.exit_status /\ cmd.name \in {"slash", "search"}
    BY <1>2, CommandIs DEF IInv, StatusInv, TypeOK
  <2>3. CASE path # Nowhere
    <3>1. path \in Range(Candidates)
      <4>1. CASE cmd.name = "slash"
        <5>1. path = cmd.place
          BY <1>2, <2>3, <4>1 DEF IInv, SearchInv, FoundAt
        <5> QED
          BY <2>1, <4>1, <5>1
      <4>2. CASE cmd.name = "search"
        BY <1>2, <2>1, <2>3, <4>2, SearchIs
      <4> QED
        BY <2>2, <4>1, <4>2
    <3>2. Undisturbed
      BY <1>2, <3>1 DEF Undisturbed
    <3>3. first[path] \in Node \ {"program", "locked"}
      BY <1>2, <2>3, <3>2 DEF IInv, ImageInv, TypeOK, Untold
    <3>4. code = 126 <=> Deserves126(cmd, first, path)
      BY <1>2, <2>2, <3>2 DEF IInv, StatusInv
    <3>5. CASE cmd.name = "slash"
      <4>1. path = cmd.place
        BY <1>2, <2>3, <3>5 DEF IInv, SearchInv, FoundAt
      <4>2. code = 126 <=> first[path] \in {"dir", "data"}
        BY <2>3, <3>4, <3>5, <4>1 DEF Deserves126
      <4>3. (\A p \in Range(Candidates) : first[p] = "absent") <=> first[path] = "absent"
        BY <2>1, <3>5, <4>1
      <4> QED
        BY <2>2, <2>3, <3>3, <4>2, <4>3 DEF Unusable, Node
    <3>6. CASE cmd.name = "search"
      <4>1. first[path] \in Executable
        BY <1>2, <2>3, <3>2, <3>6, SearchIs DEF Undisturbed
      <4>2. code = 126 <=> first[path] = "dir"
        BY <2>3, <3>4, <3>6 DEF Deserves126
      <4> QED
        BY <2>2, <2>3, <3>1, <3>3, <4>1, <4>2 DEF Unusable, Node, Executable
    <3> QED
      BY <2>2, <3>5, <3>6
  <2>4. CASE path = Nowhere
    <3>1. cmd.name = "search" /\ FoundNowhere(cmd, first, touched)
      BY <1>2, <2>4 DEF IInv, SearchInv, FoundNowhere
    <3>2. Undisturbed
      BY <2>4, ExecutionAssumption, <1>2 DEF Undisturbed, IInv, TypeOK
    <3>3. ~(code = 126)
      BY <1>2, <2>2, <2>4, <3>1, <3>2 DEF IInv, StatusInv, Deserves126
    <3>4. ASSUME NEW p \in Range(Candidates) PROVE first[p] = "absent"
      <4>1. PICK n \in 1 .. Len(Candidates) : p = Candidates[n]
        BY <2>1
      <4>2. ~Runnable(p)
        BY <1>2, <2>1, <2>4, <3>1, <4>1, SearchIs
      <4>3. first[p] # "data"
        BY <1>2, <2>4, <3>1 DEF Untold
      <4>4. p \in Places
        BY <2>1, <4>1, ElementOfSeq
      <4> QED
        BY <1>2, <4>2, <4>3, <4>4 DEF IInv, TypeOK, Runnable, Node, Executable
    <3> QED
      BY <2>2, <2>4, <3>3, <3>4
  <2> QED
    BY <2>3, <2>4
<1>3. IInv => FailureCode
  BY <1>1, <1>2 DEF FailureCode
<1> QED
  BY <1>3, Invariance, PTL

(***************************************************************************)
(* ft_exit, handle_exit_arg and ft_atoi: exit leaves with its number       *)
(* modulo 256 when that has one to nine digits, with 2 for more than 20    *)
(* digits or other characters, refuses none of up to 16 digits, and stays  *)
(* when it has two arguments.                                              *)
(***************************************************************************)
THEOREM ExitTellsItsNumber == Spec => []ExitMeansItsNumber
<1>1. IInv => ExitMeansItsNumber
  <2> SUFFICES ASSUME IInv, pc = "done", cmd.name = "exit"
               PROVE  /\ exit_requested <=> Len(cmd.args) < 2
                      /\ \A a \in Range(cmd.args) : Len(cmd.args) = 1 /\ ~entry.exit =>
                           /\ ~a.junk /\ Digits(a) \in 1 .. 9 =>
                                (env.exit_status
                                   - IF a.sign = "minus" THEN -Value(a) ELSE Value(a)) % 256 = 0
                           /\ a.junk \/ Digits(a) > 20 => env.exit_status = 2
                           /\ ~a.junk /\ Digits(a) <= 16 => ~TooLong(a)
    BY DEF ExitMeansItsNumber
  <2>1. exit_requested <=> Len(cmd.args) < 2
    BY DEF IInv, ExitInv
  <2>2. ASSUME NEW a \in Range(cmd.args), Len(cmd.args) = 1, ~entry.exit
        PROVE  a \in Argument /\ env.exit_status = ExitArg(a)
    <3>1. cmd.args \in Seq(Argument)
      BY CommandIs DEF IInv, TypeOK
    <3>2. a = cmd.args[1] /\ cmd.args[1] \in Argument
      BY <2>2, <3>1, LenProperties, ElementOfSeq DEF Range
    <3> QED
      BY <2>2, <3>2 DEF IInv, ExitInv
  <2> QED
    BY <2>1, <2>2, ExitArgIs
<1> QED
  BY <1>1, Invariance, PTL

=============================================================================
