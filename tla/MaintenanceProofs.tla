-------------------------- MODULE MaintenanceProofs --------------------------
(* Proofs for MCMaintenance, for any memories, families, quotes, bounds and  *)
(* parts that move: the router quotes exactly what is stored, nothing is     *)
(* purged before its time, and the profile lists stored facts in order and   *)
(* forgets none that it has room for.                                        *)
EXTENDS MCMaintenance, FiniteSetTheorems, WellFoundedInduction, TLAPS

-----------------------------------------------------------------------------
(* Folds.  A fold is a recursive function of the initial segments of its     *)
(* sequence; here is what it goes through.                                   *)

\* Induction up to n, of membership in a set.
LEMMA UpTo ==
  ASSUME NEW n \in Nat, NEW S, 0 \in S, \A k \in 1..n : k - 1 \in S => k \in S
  PROVE  \A k \in 0..n : k \in S
<1> DEFINE T == (0..n) \ S
<1>1. SUFFICES ASSUME T # {} PROVE FALSE
  OBVIOUS
<1>2. T \subseteq Nat
  OBVIOUS
<1>3. PICK k \in T : \A j \in T : ~(<<j, k>> \in OpToRel(<, Nat))
  <2> HIDE DEF T
  <2>. QED  BY <1>1, <1>2, WFMin, NatLessThanWellFounded
<1>4. \A j \in T : ~(j < k)
  BY <1>2, <1>3 DEF OpToRel
<1>5. k # 0 /\ k \in 1..n
  OBVIOUS
<1>6. k - 1 \in S
  BY <1>4, <1>5
<1>. QED  BY <1>5, <1>6

\* The last of an initial segment, and the maximum of a set, that folds take first.
LEMMA MaxTop ==
  ASSUME NEW k \in Nat, NEW s \in SUBSET (1..k), k \in s
  PROVE  Max(s) = k
<1> DEFINE Top(x) == x \in s /\ \A y \in s : x >= y
<1>1. Max(s) = CHOOSE x : Top(x)
  BY DEF Max
<1>2. \A x \in s : x \in Nat /\ k >= x
  OBVIOUS
<1>3. Top(k)
  BY <1>2
<1>4. ASSUME NEW x, Top(x) PROVE x = k
  <2>1. x \in Nat /\ k >= x /\ x >= k
    BY <1>2, <1>4
  <2>. QED  BY <2>1
<1> HIDE DEF Top
<1>. QED  BY <1>1, <1>3, <1>4

LEMMA Initial ==
  ASSUME NEW n \in Nat, NEW k \in 1..n
  PROVE  /\ Max(1..k) = k /\ (1..k) \ {k} = 1..(k - 1)
         /\ 1..k \in SUBSET (1..n) /\ 1..k # {}
<1>1. (1..k) \ {k} = 1..(k - 1)
  OBVIOUS
<1>2. 1..k \in SUBSET (1..n) /\ 1..k # {}
  OBVIOUS
<1>3. k \in Nat /\ 1..k \in SUBSET (1..k) /\ k \in 1..k
  OBVIOUS
<1>4. Max(1..k) = k
  BY <1>3, MaxTop
<1>. QED  BY <1>1, <1>2, <1>4

LEMMA MaxIn ==
  ASSUME NEW n \in Nat, NEW s \in SUBSET (1..n), s # {}
  PROVE  Max(s) \in s
<1> DEFINE Good == {k \in 0..n : \A t \in SUBSET (1..k) : t # {} => \E x \in t : \A y \in t : x >= y}
<1>1. 0 \in Good
  <2>1. 1..0 = {}
    OBVIOUS
  <2>2. \A t \in SUBSET (1..0) : t # {} => \E x \in t : \A y \in t : x >= y
    BY <2>1
  <2>. QED  BY <2>2
<1>2. ASSUME NEW k \in 1..n, k - 1 \in Good PROVE k \in Good
  <2>1. ASSUME NEW t \in SUBSET (1..k), t # {} PROVE \E x \in t : \A y \in t : x >= y
    <3>1. CASE k \in t
      BY <3>1
    <3>2. CASE k \notin t
      <4>1. t \in SUBSET (1..(k - 1))
        BY <3>2
      <4>. QED  BY <1>2, <2>1, <4>1
    <3>. QED  BY <3>1, <3>2
  <2>. QED  BY <2>1
<1> HIDE DEF Good
<1>3. n \in Good
  BY <1>1, <1>2, UpTo
<1>4. \E x \in s : \A y \in s : x >= y
  BY <1>3 DEF Good
<1>. QED  BY <1>4 DEF Max

\* The function that a fold of n elements is defined by, step[i][v] being what
\* the element at i makes of v.
IsFold(n, base, step, g) ==
  g = [s \in SUBSET (1..n) |-> IF s = {} THEN base ELSE step[Max(s)][g[s \ {Max(s)}]]]

LEMMA FoldExists ==
  ASSUME NEW n \in Nat, NEW X, NEW base \in X, NEW step \in [1..n -> [X -> X]]
  PROVE  \E g \in [SUBSET (1..n) -> X] : IsFold(n, base, step, g)
<1> DEFINE Good == {k \in 0..n : \E g \in [SUBSET (1..k) -> X] : IsFold(k, base, step, g)}
<1>1. 0 \in Good
  <2> DEFINE g == [s \in SUBSET (1..0) |-> base]
  <2>1. 1..0 = {}
    OBVIOUS
  <2>2. IsFold(0, base, step, g)
    BY <2>1 DEF IsFold
  <2>3. g \in [SUBSET (1..0) -> X]
    OBVIOUS
  <2>. QED  BY <2>2, <2>3
<1>2. ASSUME NEW k \in 1..n, k - 1 \in Good PROVE k \in Good
  <2>1. PICK g \in [SUBSET (1..(k - 1)) -> X] : IsFold(k - 1, base, step, g)
    BY <1>2
  <2> DEFINE h == [s \in SUBSET (1..k) |-> IF k \in s THEN step[k][g[s \ {k}]] ELSE g[s]]
  <2>2. ASSUME NEW s \in SUBSET (1..k)
        PROVE  h[s] = IF s = {} THEN base ELSE step[Max(s)][h[s \ {Max(s)}]]
    <3>1. CASE k \in s
      <4>1. Max(s) = k
        BY <3>1, MaxTop
      <4>2. s \ {k} \in SUBSET (1..k) /\ k \notin s \ {k}
        OBVIOUS
      <4>3. h[s \ {k}] = g[s \ {k}]
        BY <4>2
      <4>. QED  BY <3>1, <4>1, <4>3
    <3>2. CASE k \notin s
      <4>1. s \in SUBSET (1..(k - 1)) /\ h[s] = g[s]
        BY <3>2
      <4>2. g[s] = IF s = {} THEN base ELSE step[Max(s)][g[s \ {Max(s)}]]
        BY <2>1, <4>1 DEF IsFold
      <4>3. s \ {Max(s)} \in SUBSET (1..k) /\ k \notin s \ {Max(s)}
        BY <3>2
      <4>4. h[s \ {Max(s)}] = g[s \ {Max(s)}]
        BY <4>3
      <4>. QED  BY <4>1, <4>2, <4>4
    <3>. QED  BY <3>1, <3>2
  <2>3. IsFold(k, base, step, h)
    <3> HIDE DEF h
    <3>1. h = [s \in SUBSET (1..k) |-> h[s]]
      BY DEF h
    <3>. QED  BY <2>2, <3>1 DEF IsFold
  <2>4. ASSUME NEW s \in SUBSET (1..k) PROVE h[s] \in X
    <3>1. CASE k \in s
      <4>1. s \ {k} \in SUBSET (1..(k - 1))
        OBVIOUS
      <4>. QED  BY <2>1, <3>1, <4>1
    <3>2. CASE k \notin s
      <4>1. s \in SUBSET (1..(k - 1))
        BY <3>2
      <4>. QED  BY <2>1, <3>2, <4>1
    <3>. QED  BY <3>1, <3>2
  <2>5. h \in [SUBSET (1..k) -> X]
    BY <2>4
  <2> HIDE DEF h
  <2>. QED  BY <2>3, <2>5
<1> HIDE DEF Good
<1>3. \A k \in 0..n : k \in Good
  BY <1>1, <1>2, UpTo
<1>4. n \in Good
  BY <1>3
<1>. QED  BY <1>4 DEF Good

\* What merging a batch goes through, record by record.
Merging(h, base, said, ms) ==
  /\ h[0] = base
  /\ \A k \in 1..Len(ms) : h[k] = MergedOnto(h[k - 1], said[ms[k]])
  /\ MergedAll(base, said, ms) = h[Len(ms)]
MergesIn(X, said, S) == \A v \in X, m \in S : MergedOnto(v, said[m]) \in X

LEMMA MergedSteps ==
  ASSUME NEW S, NEW ms \in Seq(S), NEW said, NEW X, NEW base \in X, MergesIn(X, said, S)
  PROVE  \E h \in [0..Len(ms) -> X] : Merging(h, base, said, ms)
<1> DEFINE n == Len(ms)
           step == [i \in 1..n |-> [v \in X |-> MergedOnto(v, said[ms[i]])]]
           Is(g) == g = [s \in SUBSET (1..n) |->
                           IF s = {} THEN base ELSE MergedOnto(g[s \ {Max(s)}], said[ms[Max(s)]])]
           f == CHOOSE g : Is(g)
           h == [k \in 0..n |-> f[1..k]]
<1>1. n \in Nat /\ DOMAIN ms = 1..n
  OBVIOUS
<1>2. MergedAll(base, said, ms) = f[1..n]
  BY <1>1 DEF MergedAll, FoldLeft, MapThenFoldSet
<1>3. \E g : Is(g)
  <2>1. \A i \in 1..n : ms[i] \in S
    OBVIOUS
  <2>2. step \in [1..n -> [X -> X]]
    BY <2>1 DEF MergesIn
  <2>3. PICK g \in [SUBSET (1..n) -> X] : IsFold(n, base, step, g)
    <3> HIDE DEF step, n
    <3>. QED  BY <1>1, <2>2, FoldExists
  <2>4. ASSUME NEW s \in SUBSET (1..n), s # {}
        PROVE  step[Max(s)][g[s \ {Max(s)}]] = MergedOnto(g[s \ {Max(s)}], said[ms[Max(s)]])
    <3>1. Max(s) \in s
      BY <1>1, <2>4, MaxIn
    <3>2. Max(s) \in 1..n /\ s \ {Max(s)} \in SUBSET (1..n)
      BY <3>1
    <3>. QED  BY <2>3, <3>2
  <2>5. Is(g)
    <3> HIDE DEF step, n
    <3>. QED  BY <2>3, <2>4 DEF IsFold
  <2> HIDE DEF Is
  <2>. QED  BY <2>5
<1>4. Is(f)
  <2> HIDE DEF Is
  <2>. QED  BY <1>3
<1> HIDE DEF f
<1>5. h[0] = base
  <2>1. 1..0 = {}
    OBVIOUS
  <2>. QED  BY <1>1, <1>4, <2>1
<1>6. ASSUME NEW k \in 1..n PROVE h[k] = MergedOnto(h[k - 1], said[ms[k]])
  <2>1. /\ Max(1..k) = k /\ (1..k) \ {k} = 1..(k - 1)
        /\ 1..k \in SUBSET (1..n) /\ 1..k # {}
    BY <1>1, Initial
  <2>2. f[1..k] = MergedOnto(f[1..(k - 1)], said[ms[k]])
    BY <1>4, <2>1
  <2>3. k \in 0..n /\ k - 1 \in 0..n
    BY <1>1
  <2>. QED  BY <2>2, <2>3
<1>7. \A k \in 0..n : h[k] \in X
  <2> DEFINE Good == {k \in 0..n : h[k] \in X}
  <2>1. 0 \in Good
    BY <1>1, <1>5
  <2>2. ASSUME NEW k \in 1..n, k - 1 \in Good PROVE k \in Good
    <3>1. ms[k] \in S
      OBVIOUS
    <3> HIDE DEF h
    <3>. QED  BY <1>6, <2>2, <3>1 DEF MergesIn
  <2> HIDE DEF Good
  <2>3. \A k \in 0..n : k \in Good
    BY <1>1, <2>1, <2>2, UpTo
  <2>. QED  BY <2>3 DEF Good
<1>8. h \in [0..n -> X]
  BY <1>7
<1>9. MergedAll(base, said, ms) = h[n]
  BY <1>1, <1>2
<1> HIDE DEF h
<1>. QED  BY <1>5, <1>6, <1>8, <1>9 DEF Merging

-----------------------------------------------------------------------------
(* ORDER BY memory_id.                                                       *)

LEMMA HasGreatest ==
  ASSUME NEW S, IsFiniteSet(S), S \subseteq Nat, S # {}
  PROVE  \E x \in S : \A y \in S : x >= y
<1> DEFINE N == Cardinality(S)
           Good == {k \in 0..N : \A t \in SUBSET S : Cardinality(t) = k /\ t # {} =>
                                    \E x \in t : \A y \in t : x >= y}
<1>1. N \in Nat
  BY FS_CardinalityType
<1>2. 0 \in Good
  <2>1. ASSUME NEW t \in SUBSET S, Cardinality(t) = 0 PROVE t = {}
    BY <2>1, FS_Subset, FS_EmptySet
  <2>2. \A t \in SUBSET S : Cardinality(t) = 0 /\ t # {} => \E x \in t : \A y \in t : x >= y
    BY <2>1
  <2>. QED  BY <1>1, <2>2
<1>3. ASSUME NEW k \in 1..N, k - 1 \in Good PROVE k \in Good
  <2>1. ASSUME NEW t \in SUBSET S, Cardinality(t) = k PROVE \E x \in t : \A y \in t : x >= y
    <3>1. IsFiniteSet(t) /\ t # {}
      <4>1. IsFiniteSet(t)
        BY FS_Subset
      <4>2. Cardinality(t) # 0
        BY <2>1
      <4>. QED  BY <4>1, <4>2, FS_EmptySet
    <3>2. PICK x \in t : TRUE
      BY <3>1
    <3> DEFINE u == t \ {x}
    <3>3. u \in SUBSET S /\ Cardinality(u) = k - 1
      BY <2>1, <3>1, <3>2, FS_RemoveElement
    <3>4. CASE u = {}
      <4>1. t = {x} /\ x \in Nat
        BY <3>2, <3>4
      <4>. QED  BY <4>1
    <3>5. CASE u # {}
      <4>1. PICK z \in u : \A y \in u : z >= y
        BY <1>3, <3>3, <3>5
      <4>2. \A y \in t : y \in Nat /\ (y = x \/ y \in u)
        OBVIOUS
      <4>3. CASE x >= z
        <5>1. \A y \in t : x >= y
          BY <3>2, <4>1, <4>2, <4>3
        <5>. QED  BY <5>1
      <4>4. CASE ~(x >= z)
        <5>1. \A y \in t : z >= y
          BY <3>2, <4>1, <4>2, <4>4
        <5>. QED  BY <5>1
      <4>. QED  BY <4>3, <4>4
    <3>. QED  BY <3>4, <3>5
  <2>. QED  BY <2>1
<1> HIDE DEF Good, N
<1>4. N \in Good
  BY <1>1, <1>2, <1>3, UpTo
<1>. QED  BY <1>4 DEF Good, N

\* Every finite set of numbers can be put in order.
InOrder(q) == \A i, j \in DOMAIN q : i < j => q[i] < q[j]

LEMMA CanBeOrdered ==
  ASSUME NEW S, IsFiniteSet(S), S \subseteq Nat
  PROVE  \E q \in [1..Cardinality(S) -> S] : InOrder(q)
<1> DEFINE N == Cardinality(S)
           Good == {k \in 0..N : \A t \in SUBSET S : Cardinality(t) = k =>
                                    \E q \in [1..k -> t] : InOrder(q)}
<1>1. N \in Nat
  BY FS_CardinalityType
<1>2. 0 \in Good
  <2>1. ASSUME NEW t \in SUBSET S PROVE \E q \in [1..0 -> t] : InOrder(q)
    <3>1. 1..0 = {}
      OBVIOUS
    <3>2. [i \in 1..0 |-> 0] \in [1..0 -> t] /\ InOrder([i \in 1..0 |-> 0])
      BY <3>1 DEF InOrder
    <3>. QED  BY <3>2
  <2>. QED  BY <1>1, <2>1
<1>3. ASSUME NEW k \in 1..N, k - 1 \in Good PROVE k \in Good
  <2>1. ASSUME NEW t \in SUBSET S, Cardinality(t) = k PROVE \E q \in [1..k -> t] : InOrder(q)
    <3>1. IsFiniteSet(t) /\ t # {}
      <4>1. IsFiniteSet(t)
        BY FS_Subset
      <4>2. Cardinality(t) # 0
        BY <2>1
      <4>. QED  BY <4>1, <4>2, FS_EmptySet
    <3>2. PICK x \in t : \A y \in t : x >= y
      BY <3>1, HasGreatest
    <3> DEFINE u == t \ {x}
    <3>3. u \in SUBSET S /\ Cardinality(u) = k - 1
      BY <2>1, <3>1, <3>2, FS_RemoveElement
    <3>4. PICK r \in [1..(k - 1) -> u] : InOrder(r)
      BY <1>3, <3>3
    <3> DEFINE q == [i \in 1..k |-> IF i = k THEN x ELSE r[i]]
    <3>5. q \in [1..k -> t]
      OBVIOUS
    <3>6. ASSUME NEW i \in 1..k, NEW j \in 1..k, i < j PROVE q[i] < q[j]
      <4>1. i \in 1..(k - 1) /\ r[i] \in u
        BY <3>6
      <4>2. CASE j = k
        <5>1. r[i] <= x /\ r[i] # x /\ x \in Nat /\ r[i] \in Nat
          BY <3>2, <4>1
        <5>. QED  BY <4>1, <4>2, <5>1
      <4>3. CASE j # k
        <5>1. j \in 1..(k - 1)
          BY <4>3
        <5>. QED  BY <3>4, <3>6, <4>1, <4>3, <5>1 DEF InOrder
      <4>. QED  BY <4>2, <4>3
    <3> HIDE DEF q
    <3>7. InOrder(q)
      BY <3>5, <3>6 DEF InOrder
    <3>. QED  BY <3>5, <3>7
  <2>. QED  BY <2>1
<1> HIDE DEF Good
<1>4. N \in Good
  <2> HIDE DEF N
  <2>. QED  BY <1>1, <1>2, <1>3, UpTo
<1>. QED  BY <1>4 DEF Good

LEMMA AscendingIsOrder ==
  ASSUME NEW S, IsFiniteSet(S), S \subseteq Nat
  PROVE  /\ Ascending(S) \in [1..Cardinality(S) -> S]
         /\ InOrder(Ascending(S))
<1>1. Ascending(S) = CHOOSE q \in [1..Cardinality(S) -> S] : InOrder(q)
  BY DEF Ascending, InOrder
<1>2. \E q \in [1..Cardinality(S) -> S] : InOrder(q)
  BY CanBeOrdered
<1>. QED  BY <1>1, <1>2

LEMMA AscendingLists ==
  ASSUME NEW S, IsFiniteSet(S), S \subseteq Nat
  PROVE  Ascending(S) \in Seq(S) /\ ToSet(Ascending(S)) = S
<1> DEFINE n == Cardinality(S)  q == Ascending(S)
<1>1. n \in Nat /\ q \in [1..n -> S] /\ InOrder(q)
  BY FS_CardinalityType, AscendingIsOrder
<1>2. IsFiniteSet(1..n) /\ Cardinality(1..n) = n
  BY <1>1, FS_Interval
<1>3. q \in Injection(1..n, S)
  <2>1. ASSUME NEW i \in 1..n, NEW j \in 1..n, q[i] = q[j] PROVE i = j
    <3>1. q[i] \in Nat /\ i \in Nat /\ j \in Nat
      <4>1. q[i] \in S
        BY <1>1
      <4>2. q[i] \in Nat
        BY <4>1, Zenon
      <4>3. i \in Nat /\ j \in Nat
        BY <1>1
      <4>. QED  BY <4>2, <4>3
    <3>2. ~(i < j) /\ ~(j < i)
      BY <1>1, <2>1, <3>1 DEF InOrder
    <3>. QED  BY <3>1, <3>2
  <2>. QED  BY <1>1, <2>1 DEF Injection, IsInjective
<1>4. q \in Surjection(1..n, S)
  BY <1>2, <1>3, FS_Injection
<1> HIDE DEF q, n
<1>5. q \in Seq(S)
  <2>1. q = [i \in 1..n |-> q[i]] /\ \A i \in 1..n : q[i] \in S
    BY <1>1
  <2>2. [i \in 1..n |-> q[i]] \in Seq(S)
    BY <1>1, <2>1
  <2>. QED  BY <2>1, <2>2
<1>6. ToSet(q) = S
  BY <1>1, <1>4 DEF ToSet, Surjection
<1>. QED  BY <1>5, <1>6 DEF q

-----------------------------------------------------------------------------
(* The router.                                                               *)

IsFragment(rec, m) == \E quote \in Quote : rec = Fragment(m, quote)

Foci(f, D) == {f[m].focus : m \in D} \cup {NoFocus}

\* rec is what a record says that is merged from f's fragments of the memories D.
Tells(rec, f, D) ==
  /\ rec \in Record \cup {NoRecord}
  /\ rec.sources = D
  /\ rec.parts = UNION {f[m].parts : m \in D}
  /\ rec.focus \in Foci(f, D)
  /\ rec # NoRecord => rec.text.parts = rec.parts /\ rec.text.focus \in Foci(f, D)

LEMMA FragmentShape ==
  ASSUME NEW m \in Memory, NEW rec, IsFragment(rec, m)
  PROVE  /\ rec \in Record /\ rec # NoRecord
         /\ rec.sources = {m}
         /\ rec.text.parts = rec.parts /\ rec.text.focus = rec.focus
<1>1. PICK quote \in Quote : rec = Fragment(m, quote)
  BY DEF IsFragment
<1>2. /\ rec.sources = {m} /\ rec.parts = quote.parts /\ rec.focus = quote.focus
      /\ rec.text = quote
  BY <1>1 DEF Fragment
<1>3. rec \in Record
  BY <1>1 DEF Fragment, Record, Quote
<1>4. rec # NoRecord
  BY <1>2 DEF NoRecord
<1>. QED  BY <1>2, <1>3, <1>4

LEMMA NothingTold ==
  ASSUME NEW f
  PROVE  Tells(NoRecord, f, {})
BY DEF Tells, NoRecord, Foci

LEMMA NoSource ==
  ASSUME NEW rec, NEW f, NEW D, Tells(rec, f, D)
  PROVE  rec = NoRecord <=> D = {}
BY DEF Tells, Record, NoRecord

LEMMA MergeTells ==
  ASSUME NEW f, NEW D \in SUBSET Memory, NEW rec, Tells(rec, f, D),
         NEW m \in Memory, IsFragment(f[m], m)
  PROVE  Tells(MergedOnto(rec, f[m]), f, D \cup {m})
<1>0. /\ f[m] \in Record /\ f[m] # NoRecord /\ f[m].sources = {m}
      /\ f[m].text.parts = f[m].parts /\ f[m].text.focus = f[m].focus
  BY FragmentShape
<1>1. CASE rec = NoRecord
  <2>1. D = {} /\ MergedOnto(rec, f[m]) = f[m]
    BY <1>1, NoSource DEF MergedOnto
  <2>2. Tells(f[m], f, {m})
    BY <1>0 DEF Tells, Foci
  <2>. QED  BY <2>1, <2>2
<1>2. CASE rec # NoRecord
  <2> DEFINE new == Merged(rec, f[m])  E == D \cup {m}
  <2>1. /\ rec \in Record /\ rec.sources = D /\ rec.parts = UNION {f[n].parts : n \in D}
        /\ rec.focus \in Foci(f, D)
    BY <1>2 DEF Tells
  <2>2. /\ new.parts = rec.parts \cup f[m].parts /\ new.sources = E
        /\ new.focus = IF f[m].focus = NoFocus THEN rec.focus ELSE f[m].focus
        /\ new.text.parts = new.parts /\ new.text.focus = rec.focus
    BY <1>0, <2>1 DEF Merged
  <2>3. Foci(f, D) \subseteq Foci(f, E) /\ f[m].focus \in Foci(f, E)
    BY DEF Foci
  <2>4. new \in Record
    <3>1. /\ rec.parts \subseteq Part /\ f[m].parts \subseteq Part
          /\ rec.focus \in Focus /\ f[m].focus \in Focus
      BY <1>0, <2>1 DEF Record
    <3>2. E \in (SUBSET Memory) \ {{}}
      OBVIOUS
    <3>. QED  BY <1>0, <2>1, <3>1, <3>2 DEF Merged, Record, Quote
  <2>5. new.parts = UNION {f[n].parts : n \in E}
    BY <2>1, <2>2
  <2> HIDE DEF new, E
  <2>6. Tells(new, f, E)
    BY <2>1, <2>2, <2>3, <2>4, <2>5 DEF Tells
  <2>. QED  BY <1>2, <2>6 DEF MergedOnto, new, E
<1>. QED  BY <1>1, <1>2

LEMMA BatchTells ==
  ASSUME NEW f, NEW D \in SUBSET Memory, NEW base, Tells(base, f, D),
         NEW S \in SUBSET Memory, NEW ms \in Seq(S), NEW said,
         \A m \in S : IsFragment(f[m], m) /\ said[m] = f[m]
  PROVE  Tells(MergedAll(base, said, ms), f, D \cup ToSet(ms))
<1> DEFINE X == Record \cup {NoRecord}
           n == Len(ms)
           Met(k) == D \cup {ms[i] : i \in 1..k}
<1>0. n \in Nat /\ DOMAIN ms = 1..n /\ \A i \in 1..n : ms[i] \in S
  OBVIOUS
<1>1. base \in X
  BY DEF Tells
<1>2. MergesIn(X, said, S)
  <2>1. SUFFICES ASSUME NEW v \in X, NEW m \in S PROVE MergedOnto(v, said[m]) \in X
    BY DEF MergesIn
  <2>2. said[m] \in Record
    BY FragmentShape
  <2>3. CASE v = NoRecord
    BY <2>2, <2>3 DEF MergedOnto
  <2>4. CASE v # NoRecord
    <3>1. v \in Record
      BY <2>4
    <3>2. Merged(v, said[m]) \in Record
      BY <2>2, <3>1 DEF Merged, Record, Quote
    <3>. QED  BY <2>4, <3>2 DEF MergedOnto
  <2>. QED  BY <2>3, <2>4
<1>3. PICK h \in [0..n -> X] : Merging(h, base, said, ms)
  <2> HIDE DEF X
  <2>. QED  BY <1>1, <1>2, MergedSteps
<1> DEFINE Good == {k \in 0..n : Tells(h[k], f, Met(k))}
<1>4. 0 \in Good
  <2>1. Met(0) = D
    <3>1. 1..0 = {}
      OBVIOUS
    <3>. QED  BY <3>1
  <2>2. h[0] = base
    BY <1>3 DEF Merging
  <2>3. Tells(h[0], f, Met(0))
    BY <2>1, <2>2
  <2>. QED  BY <1>0, <2>3
<1>5. ASSUME NEW k \in 1..n, k - 1 \in Good PROVE k \in Good
  <2>1. ms[k] \in S /\ said[ms[k]] = f[ms[k]] /\ IsFragment(f[ms[k]], ms[k])
    BY <1>0
  <2>2. Met(k - 1) \in SUBSET Memory
    BY <1>0
  <2>3. Tells(h[k - 1], f, Met(k - 1))
    BY <1>5
  <2>4. Met(k) = Met(k - 1) \cup {ms[k]}
    <3>1. 1..k = 1..(k - 1) \cup {k}
      OBVIOUS
    <3>. QED  BY <3>1
  <2>5. h[k] = MergedOnto(h[k - 1], f[ms[k]])
    BY <1>3, <2>1 DEF Merging
  <2> HIDE DEF Met
  <2>6. Tells(h[k], f, Met(k - 1) \cup {ms[k]})
    BY <2>1, <2>2, <2>3, <2>5, MergeTells
  <2>. QED  BY <2>4, <2>6
<1>6. n \in Good
  <2> HIDE DEF Good, n
  <2>1. \A k \in 1..n : k - 1 \in Good => k \in Good
    BY <1>5
  <2>2. \A k \in 0..n : k \in Good
    BY <1>0, <1>4, <2>1, UpTo
  <2>. QED  BY <1>0, <2>2
<1>7. Met(n) = D \cup ToSet(ms)
  BY <1>0 DEF ToSet
<1>. QED  BY <1>3, <1>6, <1>7 DEF Merging

LEMMA TellsAgain ==
  ASSUME NEW rec, NEW f, NEW g, NEW D, Tells(rec, f, D), \A m \in D : g[m] = f[m]
  PROVE  Tells(rec, g, D)
<1>1. {g[m].focus : m \in D} = {f[m].focus : m \in D}
  OBVIOUS
<1>2. {g[m].parts : m \in D} = {f[m].parts : m \in D}
  OBVIOUS
<1>. QED  BY <1>1, <1>2 DEF Tells, Foci

\* Folding the fragments anew tells what they say.
LEMMA RebuiltTells ==
  ASSUME NEW f, \A m \in Fragmented(f) : IsFragment(f[m], m)
  PROVE  Tells(Rebuilt(f), f, Fragmented(f))
<1> DEFINE D == Fragmented(f)  ms == Ascending(D)  rec == MergedAll(NoRecord, f, ms)
<1>1. D \in SUBSET Memory /\ IsFiniteSet(D) /\ D \subseteq Nat
  BY SessionRouterAssumption, FS_Subset DEF Fragmented
<1>2. ms \in Seq(D) /\ ToSet(ms) = D
  <2> HIDE DEF D
  <2>. QED  BY <1>1, AscendingLists
<1>3. Tells(rec, f, D)
  <2> HIDE DEF D, ms
  <2>1. \A m \in D : IsFragment(f[m], m) /\ f[m] = f[m]
    BY DEF D
  <2>2. {} \in SUBSET Memory /\ {} \cup ToSet(ms) = D
    BY <1>2
  <2>3. Tells(NoRecord, f, {}) /\ ms \in Seq(D)
    BY <1>2, NothingTold
  <2>4. Tells(rec, f, {} \cup ToSet(ms))
    BY <1>1, <2>1, <2>2, <2>3, BatchTells
  <2>. QED  BY <2>2, <2>4
<1> HIDE DEF D, rec
<1>4. CASE rec = NoRecord
  <2>1. Rebuilt(f) = rec
    BY <1>4 DEF Rebuilt, rec, D
  <2>. QED  BY <1>3, <2>1 DEF D
<1>5. CASE rec # NoRecord
  <2> DEFINE new == [rec EXCEPT !.text = TextOf(rec)]
  <2>1. Rebuilt(f) = new
    BY <1>5 DEF Rebuilt, rec, D
  <2>2. rec \in Record
    BY <1>3, <1>5 DEF Tells
  <2>3. /\ new.parts = rec.parts /\ new.focus = rec.focus /\ new.sources = rec.sources
        /\ new.text = [parts |-> rec.parts, focus |-> rec.focus]
    BY <2>2 DEF Record, TextOf
  <2>4. new \in Record
    BY <2>2 DEF Record, Quote, TextOf
  <2> HIDE DEF new
  <2>5. Tells(new, f, D)
    BY <1>3, <2>3, <2>4 DEF Tells
  <2>. QED  BY <2>1, <2>5 DEF D
<1>. QED  BY <1>4, <1>5

-----------------------------------------------------------------------------
(* What holds of the router between transactions.                            *)

Repairs == [stage: {"idle", "router", "write", "finish"},
            rows: SUBSET Memory, text: Quote \cup {NoText}]

\* The record tells all fragments and nothing else, both documents have its text,
\* and so does a repair that is about to write one.
RouterFits ==
  /\ fragments \in [Memory -> Record \cup {NoRecord}]
  /\ \A m \in Fragmented(fragments) : IsFragment(fragments[m], m)
  /\ Tells(record, fragments, Fragmented(fragments))
  /\ RouterDocsAgree
  /\ unindexed \in SUBSET Memory
  /\ repair \in Repairs
  /\ repair.stage = "write" => repair.text = record.text

LEMMA TextTyped ==
  ASSUME NEW rec \in Record \cup {NoRecord}
  PROVE  rec.text \in Quote \cup {NoText}
BY DEF Record, NoRecord

LEMMA RouterHolds ==
  ASSUME RouterFits
  PROVE  RouterTypeOK /\ RouterOfFragments /\ RouterDocsAgree
<1> DEFINE D == Fragmented(fragments)
<1>1. record \in Record \cup {NoRecord} /\ record.text \in Quote \cup {NoText}
  BY TextTyped DEF RouterFits, Tells
<1>2. RouterTypeOK
  BY <1>1 DEF RouterFits, RouterTypeOK, RouterDocsAgree, Repairs
<1>3. \A m \in Memory \ D : fragments[m] = NoRecord
  BY DEF Fragmented
<1>4. UNION {fragments[m].parts : m \in D} = UNION {fragments[m].parts : m \in Memory}
  BY <1>3 DEF Fragmented, NoRecord
<1>5. Foci(fragments, D) \subseteq {fragments[m].focus : m \in Memory} \cup {NoFocus}
  BY DEF Fragmented, Foci
<1>6. Tells(record, fragments, D)
  BY DEF RouterFits
<1> HIDE DEF D
<1>7. record.sources = D /\ record.parts = UNION {fragments[m].parts : m \in Memory}
  BY <1>4, <1>6 DEF Tells
<1>8. record # NoRecord =>
        /\ record.text.parts = record.parts
        /\ record.text.focus \in {fragments[m].focus : m \in Memory} \cup {NoFocus}
  BY <1>5, <1>6 DEF Tells
<1>. QED  BY <1>2, <1>7, <1>8 DEF RouterOfFragments, RouterFits, D

LEMMA RouterStart ==
  ASSUME RouterInit
  PROVE  RouterFits /\ Fragmented(fragments) = {}
<1>1. Fragmented(fragments) = {}
  BY DEF RouterInit, Fragmented
<1>2. fragments \in [Memory -> Record \cup {NoRecord}]
  BY DEF RouterInit
<1>3. repair \in Repairs /\ repair.stage # "write"
  BY DEF RouterInit, NotRepairing, Repairs
<1>4. record = NoRecord /\ RouterDocsAgree
  BY DEF RouterInit, RouterDocsAgree, NoRecord
<1>. QED  BY <1>1, <1>2, <1>3, <1>4, NothingTold DEF RouterFits, RouterInit

\* The rows of the router as a record has them.
LEMMA RouterWritten ==
  ASSUME NEW rec, WriteRouter(rec)
  PROVE  record' = rec /\ RouterDocsAgree'
BY DEF WriteRouter, RouterDocsAgree

\* commit_ingest: a memory that has a fragment is sent again with the same one.
LEMMA MergeStep ==
  ASSUME RouterFits, NEW S \in SUBSET Memory, NEW ms \in Seq(S), ToSet(ms) = S, NEW said,
         \A m \in S : IsFragment(said[m], m) /\ fragments[m] \in {NoRecord, said[m]},
         repair.stage # "write", MergeBatch(ms, said)
  PROVE  RouterFits' /\ Fragmented(fragments') = Fragmented(fragments) \cup S
<1> DEFINE D == Fragmented(fragments)  f == fragments'
           rec == MergedAll(record, said, ms)
<1>1. /\ f = [m \in Memory |-> IF m \in S THEN said[m] ELSE fragments[m]]
      /\ WriteRouter(rec) /\ unindexed' = unindexed \cup S /\ repair' = repair
  BY DEF MergeBatch
<1>2. D \in SUBSET Memory /\ \A m \in D : fragments[m] # NoRecord
  BY DEF Fragmented
<1>3. \A m \in S : f[m] = said[m] /\ IsFragment(f[m], m)
  BY <1>1
<1>4. \A m \in S : f[m] \in Record /\ f[m] # NoRecord
  BY <1>3, FragmentShape
<1>5. \A m \in D : f[m] = fragments[m]
  BY <1>1, <1>2
<1>6. Fragmented(f) = D \cup S
  BY <1>1, <1>4, <1>5 DEF Fragmented
<1>7. f \in [Memory -> Record \cup {NoRecord}]
  BY <1>1, <1>3, <1>4 DEF RouterFits
<1>8. Tells(rec, f, D \cup S)
  <2>1. Tells(record, f, D)
    BY <1>5, TellsAgain DEF RouterFits
  <2> HIDE DEF D, f
  <2>2. \A m \in S : IsFragment(f[m], m) /\ said[m] = f[m]
    BY <1>3
  <2>3. Tells(rec, f, D \cup ToSet(ms))
    BY <1>2, <2>1, <2>2, BatchTells
  <2>. QED  BY <2>3
<1>9. \A m \in D \cup S : IsFragment(f[m], m)
  BY <1>3, <1>5 DEF RouterFits
<1>10. record' = rec /\ RouterDocsAgree'
  BY <1>1, RouterWritten
<1>11. unindexed' \in SUBSET Memory /\ repair' \in Repairs /\ repair'.stage # "write"
  BY <1>1 DEF RouterFits
<1> HIDE DEF D, rec
<1>. QED  BY <1>6, <1>7, <1>8, <1>9, <1>10, <1>11 DEF RouterFits, D

\* delete_observation.
LEMMA DeleteStep ==
  ASSUME RouterFits, NEW E \in SUBSET Memory, repair.stage # "write", DeleteFromRouter(E)
  PROVE  RouterFits' /\ Fragmented(fragments') = Fragmented(fragments) \ E
<1> DEFINE D == Fragmented(fragments)  f == fragments'
<1>1. /\ f = [m \in Memory |-> IF m \in E THEN NoRecord ELSE fragments[m]]
      /\ unindexed' = unindexed \ E /\ repair' = repair
  BY DEF DeleteFromRouter, Remaining
<1>2. Fragmented(f) = D \ E
  BY <1>1 DEF Fragmented
<1>3. f \in [Memory -> Record \cup {NoRecord}]
  BY <1>1 DEF RouterFits
<1>4. \A m \in D \ E : f[m] = fragments[m] /\ IsFragment(f[m], m)
  BY <1>1 DEF RouterFits, Fragmented
<1>5. unindexed' \in SUBSET Memory /\ repair' \in Repairs /\ repair'.stage # "write"
  BY <1>1 DEF RouterFits
<1>6. Tells(record', f, D \ E) /\ RouterDocsAgree'
  <2>1. CASE (record.sources \cup D) \cap E = {}
    <3>1. UNCHANGED <<record, lane, doc>>
      BY <2>1 DEF DeleteFromRouter
    <3>2. D \ E = D
      BY <2>1
    <3>3. Tells(record, f, D)
      BY <1>4, <3>2, TellsAgain DEF RouterFits
    <3>. QED  BY <3>1, <3>2, <3>3 DEF RouterFits, RouterDocsAgree
  <2>2. CASE (record.sources \cup D) \cap E # {}
    <3>1. WriteRouter(Rebuilt(f))
      BY <2>2 DEF DeleteFromRouter
    <3>2. record' = Rebuilt(f) /\ RouterDocsAgree'
      BY <3>1, RouterWritten
    <3> HIDE DEF f
    <3>3. Tells(Rebuilt(f), f, Fragmented(f))
      BY <1>2, <1>4, RebuiltTells
    <3>. QED  BY <1>2, <3>2, <3>3
  <2>. QED  BY <2>1, <2>2
<1> HIDE DEF D
<1>. QED  BY <1>2, <1>3, <1>4, <1>5, <1>6 DEF RouterFits, D

\* Indexing and repair, which write a text of the record or none.
LEMMA RepairStep ==
  ASSUME RouterFits,
         RepairRows \/ RepairGoesOn \/ RepairStops \/ \E m \in Memory : MarkIndexed(m)
  PROVE  RouterFits' /\ fragments' = fragments
<1>1. record.text \in Quote \cup {NoText}
  BY TextTyped DEF RouterFits, Tells
<1>2. fragments' = fragments /\ record' = record /\ lane' = lane
  BY DEF RepairRows, RepairGoesOn, RepairRouter, RepairWrite, RepairFinish, RepairStops,
         MarkIndexed
<1>3. /\ unindexed' \in SUBSET Memory /\ repair' \in Repairs /\ doc' = record.text
      /\ repair'.stage = "write" => repair'.text = record.text
  <2> USE DEF RouterFits, RouterDocsAgree, Repairs, NotRepairing
  <2>1. CASE RepairRows
    BY <2>1 DEF RepairRows
  <2>2. CASE RepairRouter
    BY <1>1, <2>2 DEF RepairRouter
  <2>3. CASE RepairWrite
    BY <2>3 DEF RepairWrite
  <2>4. CASE RepairFinish
    BY <2>4 DEF RepairFinish
  <2>5. CASE RepairStops
    BY <2>5 DEF RepairStops
  <2>6. CASE \E m \in Memory : MarkIndexed(m)
    BY <2>6 DEF MarkIndexed
  <2>. QED  BY <2>1, <2>2, <2>3, <2>4, <2>5, <2>6 DEF RepairGoesOn
<1>. QED  BY <1>2, <1>3 DEF RouterFits, RouterDocsAgree

LEMMA RouterStays ==
  ASSUME RouterFits, UNCHANGED routerVars
  PROVE  RouterFits' /\ fragments' = fragments
BY DEF routerVars, RouterFits, RouterDocsAgree

-----------------------------------------------------------------------------
(* Expiry.                                                                   *)

\* What is stored is what the router quotes; what is derived from a memory is not
\* stored without it; and what the tick has listed and is stored had expired when it
\* started.
ExpiryFits ==
  /\ clock \in Day /\ stores \in 0..MaxStore /\ fails \in 0..MaxFail
  /\ expires \in [Memory -> Nat \cup {NoRow}]
  /\ purge \in [stage: {"idle", "list", "purge"}, now: Day, todo: SUBSET Memory]
  /\ Fragmented(fragments) = Stored
  /\ \A m \in Memory \ Stored : Derived[m] \cap Stored = {}
  /\ purge.now <= clock
  /\ \A m \in purge.todo \cap Stored : expires[m] <= purge.now

RetentionInv == RouterFits /\ ExpiryFits

LEMMA ExpiryTyped ==
  ASSUME clock \in Nat, NEW p
  PROVE  Expiry(p) \in Nat
<1> DEFINE d == Days(ClassOf(p.signals), p.signals.inferred)
<1>1. d \in Nat
  BY DEF Days, NoExpiry
<1> HIDE DEF d
<1>2. NoExpiry \in Nat /\ clock + d \in Nat
  BY <1>1 DEF NoExpiry
<1>. QED  BY <1>2 DEF Expiry, ExpiresAt, d

LEMMA Families ==
  ASSUME NEW m \in Memory
  PROVE  WithDerived(m) \in SUBSET Memory /\ Derived[m] \in SUBSET Memory /\ m \in WithDerived(m)
BY SessionRouterAssumption DEF WithDerived

\* What extends an id that goes, goes.
LEMMA FamilyGoes ==
  ASSUME NEW m \in Memory, NEW n \in WithDerived(m)
  PROVE  Derived[n] \subseteq WithDerived(m)
BY SessionRouterAssumption DEF WithDerived

\* An id that a memory of a family extends is in the family, or its client sent
\* one that extends it.
LEMMA FamilyOwn ==
  ASSUME NEW s \in Source, NEW n \in Memory \ WithDerived(s)
  PROVE  Derived[n] \cap WithDerived(s) = {}
<1>1. s \in Memory /\ s \notin Derived[n]
  BY RetentionAssumption
<1>2. n # s /\ n \notin Derived[s]
  BY DEF WithDerived
<1>3. Derived[n] \cap Derived[s] = {}
  BY <1>1, <1>2, SessionRouterAssumption
<1>. QED  BY <1>1, <1>3 DEF WithDerived

LEMMA RetentionStart == Init => RetentionInv
<1> SUFFICES ASSUME Init PROVE RetentionInv
  OBVIOUS
<1>1. RouterFits /\ Fragmented(fragments) = {}
  BY RouterStart DEF Init
<1>2. Stored = {}
  BY DEF Init, Stored
<1>3. expires \in [Memory -> Nat \cup {NoRow}]
  BY DEF Init
<1>4. /\ purge \in [stage: {"idle", "list", "purge"}, now: Day, todo: SUBSET Memory]
      /\ purge.now <= clock /\ purge.todo = {}
  BY RetentionAssumption DEF Init, IdleTick
<1>5. clock \in Day /\ stores \in 0..MaxStore /\ fails \in 0..MaxFail
  BY RetentionAssumption DEF Init
<1>. QED  BY <1>1, <1>2, <1>3, <1>4, <1>5 DEF RetentionInv, ExpiryFits

\* A deletion of m, by a client or by the tick, which may take m off its list.
LEMMA EraseStep ==
  ASSUME RetentionInv, ~RepairsOverlap, NEW m \in Memory, Erase(m)
  PROVE  /\ RouterFits'
         /\ expires' \in [Memory -> Nat \cup {NoRow}]
         /\ Stored' = Stored \ WithDerived(m)
         /\ \A n \in Stored' : expires'[n] = expires[n]
         /\ Fragmented(fragments)' = Stored'
         /\ \A n \in Memory \ Stored' : Derived[n] \cap Stored' = {}
<1> DEFINE E == WithDerived(m)
<1>0. /\ expires \in [Memory -> Nat \cup {NoRow}]
      /\ Fragmented(fragments) = Stored
      /\ \A n \in Memory \ Stored : Derived[n] \cap Stored = {}
  BY DEF RetentionInv, ExpiryFits
<1>1. E \in SUBSET Memory
  BY Families
<1>2. expires' = [n \in Memory |-> IF n \in E THEN NoRow ELSE expires[n]]
  BY DEF Erase, Erased
<1>3. RouterFits' /\ Fragmented(fragments') = Fragmented(fragments) \ E
  <2>1. repair.stage # "write" /\ DeleteFromRouter(E)
    BY DEF Erase, RouterFree
  <2> HIDE DEF E
  <2>. QED  BY <1>1, <2>1, DeleteStep DEF RetentionInv
<1>4. expires' \in [Memory -> Nat \cup {NoRow}]
  BY <1>0, <1>2
<1>5. Stored' = Stored \ E
  BY <1>2 DEF Stored
<1>6. \A n \in Stored' : expires'[n] = expires[n]
  BY <1>2, <1>5 DEF Stored
<1>7. ASSUME NEW n \in Memory \ Stored' PROVE Derived[n] \cap Stored' = {}
  <2>1. CASE n \in E
    BY <1>5, <2>1, FamilyGoes
  <2>2. CASE n \notin E
    <3>1. n \in Memory \ Stored
      BY <1>5, <2>2
    <3>. QED  BY <1>0, <1>5, <3>1
  <2>. QED  BY <2>1, <2>2
<1> HIDE DEF E
<1>8. Fragmented(fragments)' = Stored'
  BY <1>0, <1>3, <1>5
<1>. QED  BY <1>3, <1>4, <1>5, <1>6, <1>7, <1>8 DEF E

LEMMA StoreStep ==
  ASSUME RetentionInv, ~RepairsOverlap, ~RestoresOverlap, Store
  PROVE  RetentionInv'
<1>0. /\ expires \in [Memory -> Nat \cup {NoRow}]
      /\ Fragmented(fragments) = Stored
      /\ \A n \in Memory \ Stored : Derived[n] \cap Stored = {}
      /\ clock \in Nat
  BY RetentionAssumption DEF RetentionInv, ExpiryFits
<1>1. PICK s \in Source : \E p \in [WithDerived(s) -> UNION {Says[m] : m \in WithDerived(s)}] :
        /\ \A m \in WithDerived(s) : p[m] \in Says[m] /\ Sendable(m, p[m])
        /\ WithDerived(s) \cap purge.todo = {}
        /\ MergeBatch(<<s>> \o Ascending(Derived[s]),
                      [m \in WithDerived(s) |-> Fragment(m, p[m].quote)])
        /\ expires' = [m \in Memory |-> IF m \in WithDerived(s) THEN Expiry(p[m])
                                        ELSE expires[m]]
  BY DEF Store
<1>2. PICK p \in [WithDerived(s) -> UNION {Says[m] : m \in WithDerived(s)}] :
        /\ \A m \in WithDerived(s) : p[m] \in Says[m] /\ Sendable(m, p[m])
        /\ WithDerived(s) \cap purge.todo = {}
        /\ MergeBatch(<<s>> \o Ascending(Derived[s]),
                      [m \in WithDerived(s) |-> Fragment(m, p[m].quote)])
        /\ expires' = [m \in Memory |-> IF m \in WithDerived(s) THEN Expiry(p[m])
                                        ELSE expires[m]]
  BY <1>1
<1> DEFINE E == WithDerived(s)  ms == <<s>> \o Ascending(Derived[s])
           said == [m \in E |-> Fragment(m, p[m].quote)]
<1>3. s \in Memory /\ E \in SUBSET Memory
  BY RetentionAssumption, Families
<1>4. ms \in Seq(E) /\ ToSet(ms) = E
  <2> DEFINE q == Ascending(Derived[s])
  <2>1. Derived[s] \in SUBSET Memory /\ IsFiniteSet(Derived[s]) /\ Derived[s] \subseteq Nat
    BY <1>3, Families, SessionRouterAssumption, FS_Subset
  <2>2. q \in Seq(Derived[s]) /\ ToSet(q) = Derived[s]
    <3>1. \A S : S = Derived[s] => Ascending(S) \in Seq(S) /\ ToSet(Ascending(S)) = S
      BY <2>1, AscendingLists
    <3>. QED  BY <3>1
  <2>3. E = {s} \cup Derived[s]
    BY DEF WithDerived
  <2> HIDE DEF q, E
  <2>4. q \in Seq(E) /\ <<s>> \in Seq(E)
    BY <2>2, <2>3
  <2>5. <<s>> \o q \in Seq(E)
    BY <2>4
  <2>6. ToSet(<<s>> \o q) = {s} \cup ToSet(q)
    <3>1. /\ Len(<<s>> \o q) = Len(q) + 1 /\ Len(q) \in Nat
          /\ (<<s>> \o q)[1] = s
          /\ \A i \in 1..Len(q) : (<<s>> \o q)[i + 1] = q[i]
      BY <2>4
    <3>2. DOMAIN q = 1..Len(q) /\ DOMAIN (<<s>> \o q) = 1..(Len(q) + 1)
      BY <2>4, <2>5, <3>1
    <3>3. \A i \in 1..(Len(q) + 1) : i = 1 \/ (i - 1 \in 1..Len(q) /\ (i - 1) + 1 = i)
      BY <3>1
    <3>4. \A i \in 1..(Len(q) + 1) : (<<s>> \o q)[i] \in {s} \cup {q[j] : j \in 1..Len(q)}
      BY <3>1, <3>3
    <3>5. 1 \in 1..(Len(q) + 1) /\ \A i \in 1..Len(q) : i + 1 \in 1..(Len(q) + 1)
      BY <3>1
    <3>6. {s} \cup {q[j] : j \in 1..Len(q)} \subseteq {(<<s>> \o q)[i] : i \in 1..(Len(q) + 1)}
      <4>1. s \in {(<<s>> \o q)[i] : i \in 1..(Len(q) + 1)}
        BY <3>1, <3>5
      <4>2. ASSUME NEW j \in 1..Len(q) PROVE q[j] \in {(<<s>> \o q)[i] : i \in 1..(Len(q) + 1)}
        <5>1. q[j] = (<<s>> \o q)[j + 1] /\ j + 1 \in 1..(Len(q) + 1)
          BY <3>1, <3>5
        <5>. QED  BY <5>1
      <4>. QED  BY <4>1, <4>2
    <3>. QED  BY <3>2, <3>4, <3>6 DEF ToSet
  <2>. QED  BY <2>2, <2>3, <2>5, <2>6 DEF q
<1>5. \A m \in E : IsFragment(said[m], m) /\ fragments[m] \in {NoRecord, said[m]}
  <2>1. ASSUME NEW m \in E PROVE p[m].quote \in Quote
    BY <1>2, <1>3, RetentionAssumption
  <2>. QED  BY <1>2, <2>1 DEF IsFragment, Sendable
<1>6. RouterFits' /\ Fragmented(fragments') = Fragmented(fragments) \cup E
  <2>1. repair.stage # "write" /\ MergeBatch(ms, said)
    BY <1>2 DEF Store, RouterFree
  <2> HIDE DEF E, ms, said
  <2>. QED  BY <1>3, <1>4, <1>5, <2>1, MergeStep DEF RetentionInv
<1>7. expires' = [m \in Memory |-> IF m \in E THEN Expiry(p[m]) ELSE expires[m]]
  BY <1>2
<1>8. \A m \in E : Expiry(p[m]) \in Nat
  BY <1>0, ExpiryTyped
<1> HIDE DEF E
<1>9. expires' \in [Memory -> Nat \cup {NoRow}]
  BY <1>0, <1>7, <1>8
<1>10. Stored' = Stored \cup E
  BY <1>3, <1>7, <1>8 DEF Stored, NoRow
<1>11. ASSUME NEW n \in Memory \ Stored' PROVE Derived[n] \cap Stored' = {}
  <2>1. n \in Memory \ Stored /\ n \in Memory \ E
    BY <1>10
  <2>2. Derived[n] \cap E = {}
    BY <2>1, FamilyOwn DEF E
  <2>. QED  BY <1>0, <1>10, <2>1, <2>2
<1>12. stores' \in 0..MaxStore /\ UNCHANGED <<clock, purge, fails>>
  BY RetentionAssumption DEF Store, RetentionInv, ExpiryFits
<1>13. \A m \in purge.todo \cap Stored' : expires'[m] <= purge.now
  <2>1. purge.todo \in SUBSET Memory /\ \A m \in purge.todo \cap Stored : expires[m] <= purge.now
    BY DEF RetentionInv, ExpiryFits
  <2>2. E \cap purge.todo = {}
    BY <1>2 DEF E
  <2>. QED  BY <1>7, <1>10, <2>1, <2>2
<1>14. Fragmented(fragments)' = Stored'
  BY <1>0, <1>6, <1>10
<1>15. clock \in Day /\ fails \in 0..MaxFail /\ purge.now <= clock
       /\ purge \in [stage: {"idle", "list", "purge"}, now: Day, todo: SUBSET Memory]
  BY DEF RetentionInv, ExpiryFits
<1>. QED  BY <1>6, <1>9, <1>11, <1>12, <1>13, <1>14, <1>15 DEF RetentionInv, ExpiryFits

LEMMA TickSteps ==
  ASSUME RetentionInv, StartTick \/ PurgeList
  PROVE  RetentionInv' /\ Stored' = Stored
<1>1. RouterFits' /\ fragments' = fragments
  BY RouterStays DEF RetentionInv, StartTick, PurgeList
<1>2. UNCHANGED <<clock, expires, stores, fails>> /\ Stored' = Stored
  BY DEF StartTick, PurgeList, Stored
<1>3. /\ expires \in [Memory -> Nat \cup {NoRow}] /\ clock \in Day
      /\ purge \in [stage: {"idle", "list", "purge"}, now: Day, todo: SUBSET Memory]
      /\ purge.now <= clock
  BY DEF RetentionInv, ExpiryFits
<1>4. 0 <= clock /\ clock <= clock
  BY <1>3, RetentionAssumption
<1>5. CASE purge' = IdleTick
  <2>1. /\ purge' \in [stage: {"idle", "list", "purge"}, now: Day, todo: SUBSET Memory]
        /\ purge'.now <= clock /\ purge'.todo = {}
    BY <1>4, <1>5, RetentionAssumption DEF IdleTick
  <2>. QED  BY <1>1, <1>2, <2>1 DEF RetentionInv, ExpiryFits, Fragmented
<1>6. CASE StartTick
  <2>1. /\ purge' \in [stage: {"idle", "list", "purge"}, now: Day, todo: SUBSET Memory]
        /\ purge'.now <= clock /\ purge'.todo = {}
    BY <1>3, <1>4, <1>6 DEF StartTick, IdleTick
  <2>. QED  BY <1>1, <1>2, <2>1 DEF RetentionInv, ExpiryFits, Fragmented
<1>7. CASE PurgeList /\ purge' # IdleTick
  <2>1. PICK S \in SUBSET Expired(purge.now) : purge' = [purge EXCEPT !.stage = "purge", !.todo = S]
    BY <1>7 DEF PurgeList
  <2>2. S \in SUBSET Memory /\ \A m \in S : expires[m] <= purge.now
    BY <2>1 DEF Expired, Stored
  <2>3. /\ purge' \in [stage: {"idle", "list", "purge"}, now: Day, todo: SUBSET Memory]
        /\ purge'.now = purge.now /\ purge'.todo = S
    BY <1>3, <2>1, <2>2
  <2>. QED  BY <1>1, <1>2, <1>3, <2>2, <2>3 DEF RetentionInv, ExpiryFits, Fragmented
<1>. QED  BY <1>5, <1>6, <1>7

\* The tick erases one of its list, and what it takes had expired, or is derived
\* from a memory that had.
LEMMA PurgeStep ==
  ASSUME RetentionInv, ~RepairsOverlap, PurgeOne
  PROVE  /\ RetentionInv'
         /\ \A m \in Stored \ Stored' :
              \E p \in Stored : m \in WithDerived(p) /\ expires[p] <= clock
<1>1. PICK n \in purge.todo : /\ Erase(n)
                              /\ purge' = IF purge.todo = {n} THEN IdleTick
                                          ELSE [purge EXCEPT !.todo = @ \ {n}]
  BY DEF PurgeOne
<1>2. /\ clock \in Day /\ clock \in Nat /\ purge.now <= clock /\ purge.now \in Nat
      /\ purge \in [stage: {"idle", "list", "purge"}, now: Day, todo: SUBSET Memory]
      /\ \A m \in purge.todo \cap Stored : expires[m] <= purge.now
      /\ expires \in [Memory -> Nat \cup {NoRow}]
      /\ \A m \in Memory \ Stored : Derived[m] \cap Stored = {}
  BY RetentionAssumption DEF RetentionInv, ExpiryFits
<1>3. n \in Memory
  BY <1>1, <1>2
<1>4. /\ RouterFits'
      /\ expires' \in [Memory -> Nat \cup {NoRow}]
      /\ Stored' = Stored \ WithDerived(n)
      /\ \A m \in Stored' : expires'[m] = expires[m]
      /\ Fragmented(fragments)' = Stored'
      /\ \A m \in Memory \ Stored' : Derived[m] \cap Stored' = {}
  BY <1>1, <1>3, EraseStep
<1>5. UNCHANGED <<clock, stores, fails>> /\ stores \in 0..MaxStore /\ fails \in 0..MaxFail
  BY DEF PurgeOne, RetentionInv, ExpiryFits
<1>6. /\ purge' \in [stage: {"idle", "list", "purge"}, now: Day, todo: SUBSET Memory]
      /\ purge'.now <= clock
      /\ purge'.todo \subseteq purge.todo /\ (purge'.todo = {} \/ purge'.now = purge.now)
  <2>1. CASE purge.todo = {n}
    BY <1>1, <1>2, <2>1, RetentionAssumption DEF IdleTick
  <2>2. CASE purge.todo # {n}
    BY <1>1, <1>2, <2>2
  <2>. QED  BY <2>1, <2>2
<1>7. \A m \in purge'.todo \cap Stored' : expires'[m] <= purge'.now
  BY <1>2, <1>4, <1>6
<1>8. RetentionInv'
  BY <1>2, <1>4, <1>5, <1>6, <1>7 DEF RetentionInv, ExpiryFits
<1>9. ASSUME NEW m \in Stored \ Stored'
      PROVE  \E p \in Stored : m \in WithDerived(p) /\ expires[p] <= clock
  <2>1. m \in WithDerived(n)
    BY <1>4, <1>9
  <2>2. n \in Stored
    BY <1>2, <1>3, <1>9, <2>1 DEF WithDerived
  <2>3. expires[n] \in Nat /\ expires[n] <= purge.now
    BY <1>1, <1>2, <2>2 DEF Stored
  <2>. QED  BY <1>2, <2>1, <2>2, <2>3
<1>. QED  BY <1>8, <1>9

LEMMA DeletionStep ==
  ASSUME RetentionInv, ~RepairsOverlap, Delete
  PROVE  RetentionInv'
<1>1. PICK n \in Stored : Erase(n)
  BY DEF Delete
<1>2. n \in Memory
  BY DEF Stored
<1>3. /\ RouterFits'
      /\ expires' \in [Memory -> Nat \cup {NoRow}]
      /\ Stored' = Stored \ WithDerived(n)
      /\ \A m \in Stored' : expires'[m] = expires[m]
      /\ Fragmented(fragments)' = Stored'
      /\ \A m \in Memory \ Stored' : Derived[m] \cap Stored' = {}
  BY <1>1, <1>2, EraseStep
<1>4. UNCHANGED <<clock, purge, stores, fails>>
  BY DEF Delete
<1>. QED  BY <1>3, <1>4 DEF RetentionInv, ExpiryFits

LEMMA FailStep ==
  ASSUME RetentionInv, Fail
  PROVE  RetentionInv' /\ Stored' = Stored
<1>1. UNCHANGED <<clock, expires, stores>> /\ Stored' = Stored
  BY DEF Fail, Stored
<1>2. fails' \in 0..MaxFail
  BY RetentionAssumption DEF Fail, RetentionInv, ExpiryFits
<1>3. RouterFits' /\ fragments' = fragments
  <2>1. CASE RepairStops
    BY <2>1, RepairStep DEF RetentionInv
  <2>2. CASE UNCHANGED routerVars
    BY <2>2, RouterStays DEF RetentionInv
  <2>. QED  BY <2>1, <2>2 DEF Fail
<1>4. purge' \in {purge, IdleTick}
  BY DEF Fail
<1>5. /\ purge' \in [stage: {"idle", "list", "purge"}, now: Day, todo: SUBSET Memory]
      /\ purge'.now <= clock
      /\ \A m \in purge'.todo \cap Stored : expires[m] <= purge'.now
  <2>1. clock \in Nat
    BY RetentionAssumption DEF RetentionInv, ExpiryFits
  <2>2. CASE purge' = purge
    BY <2>2 DEF RetentionInv, ExpiryFits
  <2>3. CASE purge' = IdleTick
    BY <2>1, <2>3, RetentionAssumption DEF IdleTick
  <2>. QED  BY <1>4, <2>2, <2>3
<1>. QED  BY <1>1, <1>2, <1>3, <1>5 DEF RetentionInv, ExpiryFits, Fragmented

LEMMA AdvanceStep ==
  ASSUME RetentionInv, Advance
  PROVE  RetentionInv' /\ purge' = purge
<1>1. RouterFits' /\ fragments' = fragments
  BY RouterStays DEF RetentionInv, Advance
<1>2. UNCHANGED <<expires, purge, stores, fails>> /\ Stored' = Stored
  BY DEF Advance, Stored
<1>3. clock' \in Day /\ clock < clock'
  BY DEF Advance
<1>4. purge.now \in Nat /\ clock \in Nat /\ clock' \in Nat /\ purge.now <= clock
  BY <1>3, RetentionAssumption DEF RetentionInv, ExpiryFits
<1>5. purge'.now <= clock'
  BY <1>2, <1>3, <1>4
<1>. QED  BY <1>1, <1>2, <1>3, <1>5 DEF RetentionInv, ExpiryFits, Fragmented

LEMMA IndexSteps ==
  ASSUME RetentionInv, Index \/ Repair
  PROVE  RetentionInv' /\ purge' = purge
<1>1. RouterFits' /\ fragments' = fragments
  BY RepairStep DEF RetentionInv, Index, Repair
<1>2. UNCHANGED <<clock, expires, purge, stores, fails>> /\ Stored' = Stored
  BY DEF Index, Repair, Stored
<1>. QED  BY <1>1, <1>2 DEF RetentionInv, ExpiryFits, Fragmented

\* The premises of the run: no router changes under a repair that holds a text, and
\* what the tick has listed is not stored anew before it is purged.
LEMMA RetentionStep ==
  ASSUME RetentionInv, ~RepairsOverlap, ~RestoresOverlap, Next
  PROVE  RetentionInv'
<1>1. CASE Store
  BY <1>1, StoreStep
<1>2. CASE PurgeOne
  BY <1>2, PurgeStep
<1>3. CASE Delete
  BY <1>3, DeletionStep
<1>4. CASE StartTick \/ PurgeList
  BY <1>4, TickSteps
<1>5. CASE Fail
  BY <1>5, FailStep
<1>6. CASE Advance
  BY <1>6, AdvanceStep
<1>7. CASE Index \/ Repair
  BY <1>7, IndexSteps
<1>. QED  BY <1>1, <1>2, <1>3, <1>4, <1>5, <1>6, <1>7 DEF Next

LEMMA RetentionStays ==
  ASSUME RetentionInv, UNCHANGED vars
  PROVE  RetentionInv'
<1>1. RouterFits' /\ fragments' = fragments
  BY RouterStays DEF RetentionInv, vars
<1>2. UNCHANGED <<clock, expires, purge, stores, fails>> /\ Stored' = Stored
  BY DEF vars, Stored
<1>. QED  BY <1>1, <1>2 DEF RetentionInv, ExpiryFits, Fragmented

\* A step that changes the tick and erases something is the tick's.
LEMMA OnlyPurgeErases ==
  ASSUME RetentionInv, ~RepairsOverlap, Next, purge' # purge
  PROVE  \A m \in Stored \ Stored' :
           \E p \in Stored : m \in WithDerived(p) /\ expires[p] <= clock
<1>1. CASE PurgeOne
  BY <1>1, PurgeStep
<1>2. CASE StartTick \/ PurgeList
  BY <1>2, TickSteps
<1>3. CASE Fail
  BY <1>3, FailStep
<1>4. CASE Store \/ Delete \/ Advance \/ Index \/ Repair
  BY <1>4 DEF Store, Delete, Advance, Index, Repair
<1>. QED  BY <1>1, <1>2, <1>3, <1>4 DEF Next

-----------------------------------------------------------------------------
(* The profile.                                                              *)

\* A profile in order: each memory once, the newest first.
Ranked(q) ==
  \A i, j \in DOMAIN q : i < j => q[i].mem # q[j].mem /\ q[i].ts >= q[j].ts
Elements(q) == {q[i] : i \in DOMAIN q}

\* f is in q, needs not be, or has no place there.
Kept(q, f) ==
  \/ f.text = Blank \/ \E i \in DOMAIN q : q[i].mem = f.mem
  \/ Len(q) = Places /\ \A i \in DOMAIN q : q[i].ts >= f.ts

\* What retain goes through, fact by fact.
Retained(q, e, m) == IF e.mem = m THEN q ELSE Append(q, e)
Retaining(h, q, m) ==
  /\ h[0] = <<>>
  /\ \A k \in 1..Len(q) : h[k] = Retained(h[k - 1], q[k], m)
  /\ C!ProfileWithout(q, m) = h[Len(q)]

LEMMA RetainedSteps ==
  ASSUME NEW S, NEW q \in Seq(S), NEW m
  PROVE  \E h \in [0..Len(q) -> Seq(S)] : Retaining(h, q, m)
<1> DEFINE n == Len(q)
           X == Seq(S)
           step == [i \in 1..n |-> [v \in X |-> Retained(v, q[i], m)]]
           Is(g) == g = [s \in SUBSET (1..n) |->
                           IF s = {} THEN <<>> ELSE Retained(g[s \ {Max(s)}], q[Max(s)], m)]
           f == CHOOSE g : Is(g)
           h == [k \in 0..n |-> f[1..k]]
<1>1. n \in Nat /\ DOMAIN q = 1..n /\ <<>> \in X
  OBVIOUS
<1>2. C!ProfileWithout(q, m) = f[1..n]
  <2>1. \A s : C!Max(s) = Max(s)
    BY DEF C!Max, Max
  <2>. QED  BY <1>1, <2>1 DEF C!ProfileWithout, C!FoldLeft, C!MapThenFoldSet, Retained
<1>3. \E g : Is(g)
  <2>1. \A i \in 1..n : q[i] \in S
    OBVIOUS
  <2>2. step \in [1..n -> [X -> X]]
    BY <2>1 DEF Retained
  <2>3. PICK g \in [SUBSET (1..n) -> X] : IsFold(n, <<>>, step, g)
    <3> HIDE DEF step, n, X
    <3>. QED  BY <1>1, <2>2, FoldExists
  <2>4. ASSUME NEW s \in SUBSET (1..n), s # {}
        PROVE  step[Max(s)][g[s \ {Max(s)}]] = Retained(g[s \ {Max(s)}], q[Max(s)], m)
    <3>1. Max(s) \in s
      BY <1>1, <2>4, MaxIn
    <3>2. Max(s) \in 1..n /\ s \ {Max(s)} \in SUBSET (1..n)
      BY <3>1
    <3> HIDE DEF X
    <3>. QED  BY <2>3, <3>2
  <2>5. Is(g)
    <3> HIDE DEF step, n
    <3>. QED  BY <2>3, <2>4 DEF IsFold
  <2> HIDE DEF Is
  <2>. QED  BY <2>5
<1>4. Is(f)
  <2> HIDE DEF Is
  <2>. QED  BY <1>3
<1> HIDE DEF f
<1>5. h[0] = <<>>
  <2>1. 1..0 = {}
    OBVIOUS
  <2>. QED  BY <1>1, <1>4, <2>1
<1>6. ASSUME NEW k \in 1..n PROVE h[k] = Retained(h[k - 1], q[k], m)
  <2>1. /\ Max(1..k) = k /\ (1..k) \ {k} = 1..(k - 1)
        /\ 1..k \in SUBSET (1..n) /\ 1..k # {}
    BY <1>1, Initial
  <2>2. f[1..k] = Retained(f[1..(k - 1)], q[k], m)
    BY <1>4, <2>1
  <2>3. k \in 0..n /\ k - 1 \in 0..n
    BY <1>1
  <2>. QED  BY <2>2, <2>3
<1>7. \A k \in 0..n : h[k] \in X
  <2> DEFINE Good == {k \in 0..n : h[k] \in X}
  <2> HIDE DEF h
  <2>1. 0 \in Good
    <3>1. h[0] \in X
      BY <1>1, <1>5
    <3> HIDE DEF X
    <3>. QED  BY <1>1, <3>1
  <2>2. ASSUME NEW k \in 1..n, k - 1 \in Good PROVE k \in Good
    <3>1. q[k] \in S /\ h[k - 1] \in X
      BY <2>2
    <3>2. Retained(h[k - 1], q[k], m) \in X
      <4>1. ASSUME NEW v \in X, NEW e \in S PROVE Retained(v, e, m) \in X
        BY DEF Retained
      <4>. QED  BY <3>1, <4>1
    <3> HIDE DEF X
    <3>. QED  BY <1>6, <3>2
  <2> HIDE DEF Good
  <2>3. \A k \in 0..n : k \in Good
    BY <1>1, <2>1, <2>2, UpTo
  <2>. QED  BY <2>3 DEF Good
<1>8. h \in [0..n -> X]
  BY <1>7
<1>9. C!ProfileWithout(q, m) = h[n]
  BY <1>1, <1>2
<1> HIDE DEF h
<1>. QED  BY <1>5, <1>6, <1>8, <1>9 DEF Retaining

\* Without m, what is left is in order as before.
LEMMA WithoutOne ==
  ASSUME NEW S, NEW q \in Seq(S), Ranked(q), NEW m
  PROVE  LET r == C!ProfileWithout(q, m)
         IN  /\ r \in Seq(S) /\ Len(r) <= Len(q) /\ Ranked(r)
             /\ Elements(r) = {e \in Elements(q) : e.mem # m}
<1> DEFINE n == Len(q)
           Upto(k) == {q[i] : i \in {j \in 1..k : q[j].mem # m}}
           Right(k, v) == /\ v \in Seq(S) /\ Len(v) <= k /\ Ranked(v)
                          /\ Elements(v) = Upto(k)
<1>1. n \in Nat /\ DOMAIN q = 1..n /\ \A i \in 1..n : q[i] \in S
  OBVIOUS
<1>2. PICK h \in [0..n -> Seq(S)] : Retaining(h, q, m)
  BY RetainedSteps
<1> DEFINE Good == {k \in 0..n : Right(k, h[k])}
<1>3. 0 \in Good
  <2>1. h[0] = <<>> /\ 0 \in 0..n
    BY <1>1, <1>2 DEF Retaining
  <2>2. Upto(0) = {}
    OBVIOUS
  <2>3. <<>> \in Seq(S) /\ Len(<<>>) = 0 /\ DOMAIN <<>> = {}
    OBVIOUS
  <2>4. Ranked(<<>>) /\ Elements(<<>>) = {}
    BY <2>3 DEF Ranked, Elements
  <2> HIDE DEF Upto
  <2>. QED  BY <2>1, <2>2, <2>3, <2>4
<1>4. ASSUME NEW k \in 1..n, k - 1 \in Good PROVE k \in Good
  <2> DEFINE v == h[k - 1]  e == q[k]
  <2>1. v \in Seq(S) /\ Len(v) <= k - 1 /\ Ranked(v) /\ Elements(v) = Upto(k - 1) /\ e \in S
    BY <1>1, <1>4
  <2>2. h[k] = Retained(v, e, m)
    BY <1>2 DEF Retaining
  <2>3. {j \in 1..k : q[j].mem # m} =
          {j \in 1..(k - 1) : q[j].mem # m} \cup (IF e.mem = m THEN {} ELSE {k})
    <3>1. 1..k = 1..(k - 1) \cup {k}
      OBVIOUS
    <3>. QED  BY <3>1
  <2>4. CASE e.mem = m
    <3>1. h[k] = v /\ Upto(k) = Upto(k - 1)
      BY <2>2, <2>3, <2>4 DEF Retained
    <3> HIDE DEF Upto, v
    <3>. QED  BY <1>1, <2>1, <3>1
  <2>5. CASE e.mem # m
    <3> DEFINE w == Append(v, e)  l == Len(v)
    <3>1. h[k] = w /\ Upto(k) = Upto(k - 1) \cup {e}
      BY <2>2, <2>3, <2>5 DEF Retained
    <3> HIDE DEF v
    <3>2. /\ w \in Seq(S) /\ l \in Nat /\ Len(w) = l + 1 /\ w[l + 1] = e
          /\ \A i \in 1..l : w[i] = v[i]
          /\ DOMAIN v = 1..l /\ DOMAIN w = 1..(l + 1)
      BY <2>1
    <3> HIDE DEF w, l, e
    <3>3. Elements(w) = Elements(v) \cup {e}
      <4>1. 1..(l + 1) = 1..l \cup {l + 1}
        BY <3>2
      <4>. QED  BY <3>2, <4>1 DEF Elements
    <3>4. \A i \in 1..l : \E j \in 1..(k - 1) : v[i] = q[j]
      BY <2>1, <3>2 DEF Elements
    <3>5. \A i \in 1..l : v[i].mem # e.mem /\ v[i].ts >= e.ts
      <4>1. \A j \in 1..(k - 1) : j \in DOMAIN q /\ k \in DOMAIN q /\ j < k
        BY <1>1
      <4>2. \A j \in 1..(k - 1) : q[j].mem # e.mem /\ q[j].ts >= e.ts
        BY <4>1 DEF Ranked, e
      <4>. QED  BY <3>4, <4>2
    <3>6. Ranked(w)
      <4>1. ASSUME NEW i \in 1..(l + 1), NEW j \in 1..(l + 1), i < j
            PROVE  w[i].mem # w[j].mem /\ w[i].ts >= w[j].ts
        <5>1. i \in 1..l /\ w[i] = v[i]
          BY <3>2, <4>1
        <5>2. CASE j = l + 1
          BY <3>2, <3>5, <5>1, <5>2
        <5>3. CASE j # l + 1
          <6>1. j \in 1..l /\ w[j] = v[j]
            BY <3>2, <5>3
          <6>. QED  BY <2>1, <3>2, <4>1, <5>1, <6>1 DEF Ranked
        <5>. QED  BY <5>2, <5>3
      <4>. QED  BY <3>2, <4>1 DEF Ranked
    <3>7. Len(w) <= k
      BY <2>1, <3>2 DEF l
    <3> HIDE DEF Upto
    <3>. QED  BY <1>1, <2>1, <3>1, <3>2, <3>3, <3>6, <3>7
  <2>. QED  BY <2>4, <2>5
<1>5. n \in Good
  <2> HIDE DEF Good, n
  <2>1. \A k \in 1..n : k - 1 \in Good => k \in Good
    BY <1>4
  <2>2. \A k \in 0..n : k \in Good
    BY <1>1, <1>3, <2>1, UpTo
  <2>. QED  BY <1>1, <2>2
<1>6. C!ProfileWithout(q, m) = h[n]
  BY <1>2 DEF Retaining
<1>7. Upto(n) = {e \in Elements(q) : e.mem # m}
  BY <1>1 DEF Elements
<1> HIDE DEF Upto
<1>. QED  BY <1>5, <1>6, <1>7

\* r is q with e after k elements.
With(r, q, k, e) ==
  \A i \in 1..(Len(q) + 1) :
    r[i] = IF i <= k THEN q[i] ELSE IF i = k + 1 THEN e ELSE q[i - 1]

LEMMA InsertedAt ==
  ASSUME NEW S, NEW q \in Seq(S), NEW e \in S, NEW k \in 0..Len(q)
  PROVE  LET r == C!InsertAt(q, k + 1, e)
         IN  r \in Seq(S) /\ Len(r) = Len(q) + 1 /\ With(r, q, k, e)
<1> DEFINE n == Len(q)  a == SubSeq(q, 1, k)  b == SubSeq(q, k + 1, n)  c == a \o <<e>>
<1>1. n \in Nat /\ k \in Nat /\ k <= n
  OBVIOUS
<1>2. /\ a \in Seq(S) /\ Len(a) = k /\ \A i \in 1..k : a[i] = q[i]
      /\ b \in Seq(S) /\ Len(b) = n - k /\ \A i \in 1..(n - k) : b[i] = q[i + k]
  <2>1. a \in Seq(S) /\ Len(a) = k /\ \A i \in 1..k : a[i] = q[i]
    OBVIOUS
  <2>2. b \in Seq(S) /\ Len(b) = n - k
    BY <1>1
  <2>3. \A i \in 1..(n - k) : b[i] = q[i + k]
    BY <1>1
  <2>. QED  BY <2>1, <2>2, <2>3
<1>3. C!InsertAt(q, k + 1, e) = c \o b
  <2>1. (k + 1) - 1 = k
    BY <1>1
  <2>. QED  BY <2>1 DEF C!InsertAt
<1> HIDE DEF a, b, n
<1>4. c \in Seq(S) /\ Len(c) = k + 1 /\ \A i \in 1..(k + 1) : c[i] = IF i <= k THEN q[i] ELSE e
  <2>1. c \in Seq(S) /\ Len(c) = k + 1
    BY <1>1, <1>2
  <2>2. ASSUME NEW i \in 1..(k + 1) PROVE c[i] = IF i <= k THEN q[i] ELSE e
    <3>1. CASE i <= k
      <4>1. i \in 1..k /\ c[i] = a[i]
        BY <1>1, <1>2, <3>1
      <4>. QED  BY <1>2, <3>1, <4>1
    <3>2. CASE ~(i <= k)
      <4>1. i = k + 1 /\ c[k + 1] = e
        BY <1>1, <1>2, <3>2
      <4>. QED  BY <3>2, <4>1
    <3>. QED  BY <3>1, <3>2
  <2>. QED  BY <2>1, <2>2
<1> HIDE DEF c
<1>5. c \o b \in Seq(S) /\ Len(c \o b) = n + 1
  <2>1. c \o b \in Seq(S) /\ Len(c \o b) = Len(c) + Len(b)
    <3>1. c \in Seq(S) /\ b \in Seq(S)
      BY <1>2, <1>4
    <3>. QED  BY <3>1
  <2>2. Len(c) + Len(b) = n + 1
    BY <1>1, <1>2, <1>4
  <2>. QED  BY <2>1, <2>2
<1>6. ASSUME NEW i \in 1..(n + 1)
      PROVE  (c \o b)[i] = IF i <= k THEN q[i] ELSE IF i = k + 1 THEN e ELSE q[i - 1]
  <2>1. CASE i <= k + 1
    <3>1. (c \o b)[i] = c[i] /\ i \in 1..(k + 1)
      BY <1>1, <1>2, <1>4, <2>1
    <3>. QED  BY <1>1, <1>4, <3>1
  <2>2. CASE i > k + 1
    <3>1. (c \o b)[i] = b[i - (k + 1)] /\ i - (k + 1) \in 1..(n - k)
      BY <1>1, <1>2, <1>4, <2>2
    <3>2. (i - (k + 1)) + k = i - 1
      BY <1>1
    <3>. QED  BY <1>1, <1>2, <2>2, <3>1, <3>2
  <2>3. i <= k + 1 \/ i > k + 1
    BY <1>1
  <2>. QED  BY <2>1, <2>2, <2>3
<1> DEFINE r == C!InsertAt(q, k + 1, e)
<1>7. r \in Seq(S) /\ Len(r) = Len(q) + 1
  BY <1>3, <1>5 DEF n
<1>8. With(r, q, k, e)
  BY <1>3, <1>6 DEF n, With
<1> HIDE DEF r
<1>. QED  BY <1>7, <1>8 DEF r

LEMMA SameCount == \A S : C!Cardinality(S) = Cardinality(S)
BY DEF C!Cardinality, Cardinality

LEMMA Downward ==
  ASSUME NEW n \in Nat, NEW A \in SUBSET (1..n), \A i \in A : \A j \in 1..i : j \in A
  PROVE  Cardinality(A) \in 0..n /\ A = 1..Cardinality(A)
<1>1. IsFiniteSet(A) /\ A \subseteq Nat
  <2>1. IsFiniteSet(1..n)
    BY FS_Interval
  <2>2. IsFiniteSet(A)
    BY <2>1, FS_Subset
  <2>3. A \subseteq Nat
    OBVIOUS
  <2>. QED  BY <2>2, <2>3
<1>2. CASE A = {}
  <2>1. Cardinality(A) = 0
    BY <1>2, FS_EmptySet
  <2>. QED  BY <1>2, <2>1
<1>3. CASE A # {}
  <2>1. PICK x \in A : \A y \in A : x >= y
    BY <1>1, <1>3, HasGreatest
  <2>2. x \in 1..n
    OBVIOUS
  <2>3. A = 1..x
    <3>1. \A y \in A : y \in 1..x
      BY <2>1
    <3>. QED  BY <2>1, <3>1
  <2>4. Cardinality(1..x) = x
    BY <2>2, FS_Interval
  <2>. QED  BY <2>2, <2>3, <2>4
<1>. QED  BY <1>2, <1>3

LEMMA FactShape ==
  ASSUME NEW f \in C!Fact
  PROVE  f.ts \in Nat /\ f.mem \in Entry
BY ProfileAssumption DEF C!Parameters, C!Fact

\* What is as recent as f comes first.
LEMMA RecentFirst ==
  ASSUME NEW q \in Seq(C!Fact), Ranked(q), NEW f \in C!Fact
  PROVE  /\ C!Recent(q, f) \in 0..Len(q)
         /\ \A i \in 1..Len(q) : i <= C!Recent(q, f) <=> q[i].ts >= f.ts
<1> DEFINE n == Len(q)  A == {i \in 1..n : q[i].ts >= f.ts}
<1>1. n \in Nat /\ DOMAIN q = 1..n /\ \A i \in 1..n : q[i] \in C!Fact
  OBVIOUS
<1>2. f.ts \in Nat /\ \A i \in 1..n : q[i].ts \in Nat
  BY <1>1, FactShape
<1>3. C!Recent(q, f) = Cardinality(A)
  BY <1>1, SameCount DEF C!Recent
<1>4. ASSUME NEW i \in A, NEW j \in 1..i PROVE j \in A
  <2>1. i \in 1..n /\ j \in 1..n /\ (j = i \/ j < i)
    BY <1>1
  <2>2. q[j].ts >= q[i].ts
    BY <1>1, <1>2, <2>1 DEF Ranked
  <2>3. q[i].ts >= f.ts
    OBVIOUS
  <2>. QED  BY <1>2, <2>1, <2>2, <2>3
<1>5. Cardinality(A) \in 0..n /\ A = 1..Cardinality(A)
  <2>1. A \in SUBSET (1..n)
    OBVIOUS
  <2> HIDE DEF A, n
  <2>. QED  BY <1>1, <1>4, <2>1, Downward
<1>6. \A i \in 1..n : i <= Cardinality(A) <=> i \in A
  <2>1. Cardinality(A) \in Nat
    BY <1>1, <1>5
  <2> DEFINE c == Cardinality(A)
  <2> HIDE DEF c
  <2>2. c \in Nat /\ A = 1..c
    BY <1>5, <2>1 DEF c
  <2>3. \A i \in 1..n : i \in 1..c <=> i <= c
    BY <1>1, <2>2
  <2>. QED  BY <2>2, <2>3 DEF c
<1>7. \A i \in 1..n : i \in A <=> q[i].ts >= f.ts
  OBVIOUS
<1> HIDE DEF A
<1>. QED  BY <1>3, <1>5, <1>6, <1>7

\* Folding a fact in keeps the order and loses nobody who has a place.
LEMMA FoldedIn ==
  ASSUME NEW S \in SUBSET C!Fact, \A x, y \in S : x.mem = y.mem => x = y,
         NEW q \in Seq(C!Fact), Ranked(q), Len(q) <= Places, Elements(q) \subseteq S,
         NEW f \in S
  PROVE  LET r == C!Folded(q, f)
         IN  /\ r \in Seq(C!Fact) /\ Len(r) <= Places /\ Ranked(r) /\ Elements(r) \subseteq S
             /\ Kept(r, f) /\ \A g \in S : Kept(q, g) => Kept(r, g)
<1>1. CASE f.text = Blank \/ C!Listing(q, f.mem)
  BY <1>1 DEF C!Folded, C!Listing, Kept
<1>2. CASE ~(f.text = Blank \/ C!Listing(q, f.mem))
  <2> DEFINE l == Len(q)  k == C!Recent(q, f)  t == C!Placed(q, f)  r == C!Cut(t)
             n == IF l + 1 < Places THEN l + 1 ELSE Places
  <2>1. /\ l \in Nat /\ DOMAIN q = 1..l /\ f \in C!Fact /\ Places \in Nat \ {0}
        /\ l <= Places /\ \A i \in 1..l : q[i] \in S
    <3>1. \A i \in 1..l : q[i] \in S
      BY DEF Elements
    <3>. QED  BY <3>1, ProfileAssumption DEF C!Parameters
  <2> HIDE DEF l
  <2>2. k \in 0..l /\ \A i \in 1..l : i <= k <=> q[i].ts >= f.ts
    BY <2>1, RecentFirst DEF l
  <2>3. /\ t \in Seq(C!Fact) /\ Len(t) = l + 1 /\ DOMAIN t = 1..(l + 1)
        /\ \A i \in 1..(l + 1) :
             t[i] = IF i <= k THEN q[i] ELSE IF i = k + 1 THEN f ELSE q[i - 1]
    <3>1. t = C!InsertAt(q, k + 1, f)
      BY DEF C!Placed
    <3> HIDE DEF k, t
    <3>2. t \in Seq(C!Fact) /\ Len(t) = l + 1 /\ With(t, q, k, f)
      BY <2>1, <2>2, <3>1, InsertedAt DEF l
    <3>3. DOMAIN t = 1..(l + 1)
      BY <3>2
    <3>. QED  BY <3>2, <3>3 DEF With, l
  <2> HIDE DEF k, t
  <2>4. n \in Nat /\ n <= l + 1 /\ n <= Places /\ (n < l + 1 => n = Places /\ n = l)
    <3>1. CASE l + 1 < Places
      BY <2>1, <3>1
    <3>2. CASE ~(l + 1 < Places)
      <4>1. n = Places /\ Places <= l + 1
        BY <2>1, <3>2
      <4>. QED  BY <2>1, <4>1
    <3>. QED  BY <3>1, <3>2
  <2>5. /\ r \in Seq(C!Fact) /\ Len(r) = n /\ DOMAIN r = 1..n
        /\ \A i \in 1..n : r[i] = t[i]
    <3>1. r = SubSeq(t, 1, n)
      BY <2>3 DEF C!Cut
    <3> HIDE DEF r, n
    <3>. QED  BY <2>3, <2>4, <3>1
  <2>6. C!Folded(q, f) = r
    BY <1>2 DEF C!Folded, t
  <2> HIDE DEF r, n
  <2>7. f.ts \in Nat /\ \A x \in S : x.ts \in Nat
    BY FactShape
  <2>8. \A i \in 1..l : q[i].mem # f.mem
    BY <1>2, <2>1 DEF C!Listing
  <2>9. \A i \in 1..(l + 1) : t[i] \in S
    BY <2>1, <2>2, <2>3
  <2>10. ASSUME NEW i \in 1..(l + 1), NEW j \in 1..(l + 1), i < j
         PROVE  t[i].mem # t[j].mem /\ t[i].ts >= t[j].ts
    <3>1. CASE j <= k
      <4>1. t[i] = q[i] /\ t[j] = q[j] /\ i \in 1..l /\ j \in 1..l
        BY <2>1, <2>2, <2>3, <2>10, <3>1
      <4>. QED  BY <2>1, <2>10, <4>1 DEF Ranked
    <3>2. CASE j = k + 1
      <4>1. t[i] = q[i] /\ t[j] = f /\ i \in 1..l /\ i <= k
        BY <2>1, <2>2, <2>3, <2>10, <3>2
      <4>. QED  BY <2>2, <2>8, <4>1
    <3>3. CASE i = k + 1
      <4>1. t[i] = f /\ t[j] = q[j - 1] /\ j - 1 \in 1..l /\ ~(j - 1 <= k)
        BY <2>1, <2>2, <2>3, <2>10, <3>3
      <4>2. ~(q[j - 1].ts >= f.ts) /\ q[j - 1].ts \in Nat
        BY <2>1, <2>2, <2>7, <4>1
      <4>. QED  BY <2>7, <2>8, <4>1, <4>2
    <3>4. CASE i <= k /\ j > k + 1
      <4>1. t[i] = q[i] /\ t[j] = q[j - 1] /\ i \in 1..l /\ j - 1 \in 1..l /\ i < j - 1
        BY <2>1, <2>2, <2>3, <2>10, <3>4
      <4>. QED  BY <2>1, <4>1 DEF Ranked
    <3>5. CASE i > k + 1
      <4>1. /\ t[i] = q[i - 1] /\ t[j] = q[j - 1] /\ i - 1 \in 1..l /\ j - 1 \in 1..l
            /\ i - 1 < j - 1
        BY <2>1, <2>2, <2>3, <2>10, <3>5
      <4>. QED  BY <2>1, <4>1 DEF Ranked
    <3>6. j <= k \/ j = k + 1 \/ i = k + 1 \/ (i <= k /\ j > k + 1) \/ i > k + 1
      BY <2>1, <2>2
    <3>. QED  BY <3>1, <3>2, <3>3, <3>4, <3>5, <3>6
  <2>11. ASSUME NEW i \in 1..n PROVE i \in 1..(l + 1)
    <3>1. i <= n /\ n <= l + 1 /\ i \in Nat /\ l + 1 \in Nat /\ i >= 1
      BY <2>1, <2>4
    <3>. QED  BY <2>1, <2>4, <3>1
  <2>12. Ranked(r)
    BY <2>5, <2>10, <2>11 DEF Ranked
  <2>13. Elements(r) \subseteq S
    BY <2>5, <2>9, <2>11 DEF Elements
  \* What falls off the end leaves a full profile of what is as recent.
  <2>14. ASSUME NEW i \in 1..(l + 1) PROVE Kept(r, t[i])
    <3>1. CASE i <= n
      <4>1. i \in 1..n
        BY <2>4, <3>1
      <4>. QED  BY <2>5, <4>1 DEF Kept
    <3>2. CASE ~(i <= n)
      <4>1. n = Places /\ i = l + 1 /\ \A j \in 1..n : j < i
        BY <2>1, <2>4, <3>2
      <4>2. \A j \in 1..n : r[j].ts >= t[i].ts
        BY <2>5, <2>10, <2>11, <4>1
      <4>. QED  BY <2>5, <4>1, <4>2 DEF Kept
    <3>. QED  BY <3>1, <3>2
  <2>15. Kept(r, f)
    <3>1. k + 1 \in 1..(l + 1) /\ t[k + 1] = f
      BY <2>1, <2>2, <2>3
    <3>. QED  BY <2>14, <3>1
  <2>16. ASSUME NEW g \in S, Kept(q, g) PROVE Kept(r, g)
    <3>1. CASE g.text = Blank
      BY <3>1 DEF Kept
    <3>2. CASE \E i \in 1..l : q[i].mem = g.mem
      <4>1. PICK i \in 1..l : q[i].mem = g.mem
        BY <3>2
      <4>2. q[i] = g
        BY <2>1, <4>1
      <4>3. PICK j \in 1..(l + 1) : t[j] = q[i]
        <5>1. CASE i <= k
          <6>1. i \in 1..(l + 1) /\ t[i] = q[i]
            BY <2>1, <2>3, <5>1
          <6>. QED  BY <6>1
        <5>2. CASE ~(i <= k)
          <6>1. i + 1 \in 1..(l + 1) /\ t[i + 1] = q[(i + 1) - 1] /\ (i + 1) - 1 = i
            BY <2>1, <2>2, <2>3, <5>2
          <6>. QED  BY <6>1
        <5>. QED  BY <5>1, <5>2
      <4>. QED  BY <2>14, <4>2, <4>3
    <3>3. CASE l = Places /\ \A i \in 1..l : q[i].ts >= g.ts
      <4>1. n = Places /\ n = l
        BY <2>1, <2>4, <3>3 DEF n
      <4>2. ASSUME NEW i \in 1..n PROVE r[i].ts >= g.ts
        <5>1. r[i] = t[i] /\ i \in 1..l /\ i \in 1..(l + 1)
          BY <2>5, <2>11, <4>1
        <5>2. CASE i <= k
          BY <2>3, <3>3, <5>1, <5>2
        <5>3. CASE i = k + 1
          <6>1. r[i] = f /\ ~(q[i].ts >= f.ts) /\ q[i].ts >= g.ts /\ q[i].ts \in Nat
            BY <2>1, <2>2, <2>3, <2>7, <3>3, <5>1, <5>3
          <6>. QED  BY <2>7, <6>1
        <5>4. CASE i > k + 1
          <6>1. r[i] = q[i - 1] /\ i - 1 \in 1..l
            BY <2>1, <2>2, <2>3, <5>1, <5>4
          <6>. QED  BY <3>3, <6>1
        <5>5. i <= k \/ i = k + 1 \/ i > k + 1
          BY <2>2
        <5>. QED  BY <5>2, <5>3, <5>4, <5>5
      <4>. QED  BY <2>5, <4>1, <4>2 DEF Kept
    <3>. QED  BY <2>1, <2>16, <3>1, <3>2, <3>3 DEF Kept
  <2>17. Len(r) <= Places
    BY <2>4, <2>5
  <2>. QED  BY <2>5, <2>6, <2>12, <2>13, <2>15, <2>16, <2>17
<1>. QED  BY <1>1, <1>2

\* What is in the queue, in the profile or at work is stored, and what is at work
\* without being in the queue's care any more has its place in the profile.
ProfileFits ==
  /\ C!TypeOK
  /\ queue \subseteq stored
  /\ Elements(profile) \subseteq stored /\ Ranked(profile)
  /\ \A p \in C!Process :
       /\ proc[p].todo \subseteq stored /\ proc[p].now \subseteq stored
       /\ \A f \in proc[p].now : Kept(profile, f)

Records == [todo: SUBSET C!Fact, now: SUBSET C!Fact]

LEMMA ProfileStart ==
  ASSUME C!Init
  PROVE  ProfileFits
<1>1. /\ stored = {} /\ queue = {} /\ profile = <<>>
      /\ ingests = 0 /\ errors = 0 /\ crashes = 0
      /\ proc = [p \in C!Process |-> C!Idle]
  BY DEF C!Init
<1>2. C!Idle \in Records /\ C!Idle.todo = {} /\ C!Idle.now = {}
  BY DEF C!Idle, Records
<1>3. proc \in [C!Process -> Records]
  BY <1>1, <1>2
<1>4. profile \in Seq(C!Fact) /\ Len(profile) <= Places
  BY <1>1, ProfileAssumption DEF C!Parameters
<1>5. Elements(profile) = {} /\ Ranked(profile)
  BY <1>1 DEF Elements, Ranked
<1>6. C!TypeOK
  BY <1>1, <1>3, <1>4, ProfileAssumption DEF C!TypeOK, C!Parameters, Records
<1>7. \A p \in C!Process : proc[p].todo = {} /\ proc[p].now = {}
  BY <1>1, <1>2
<1>. QED  BY <1>1, <1>5, <1>6, <1>7 DEF ProfileFits

LEMMA Shapes ==
  ASSUME ProfileFits
  PROVE  /\ stored \in SUBSET C!Fact /\ queue \in SUBSET C!Fact
         /\ profile \in Seq(C!Fact) /\ Len(profile) <= Places
         /\ proc \in [C!Process -> Records]
         /\ \A x, y \in stored : x.mem = y.mem => x = y
         /\ \A x, y \in queue : x.mem = y.mem => x = y
BY DEF ProfileFits, C!TypeOK, Records

\* The commit of a memory: of a stored one, the same again.
LEMMA IngestStep ==
  ASSUME ProfileFits, NEW f \in C!Fact, C!Ingest(f)
  PROVE  /\ ProfileFits' /\ profile' = profile
         /\ stored' = stored \cup {f} /\ queue' = queue \cup {f}
<1>1. \A g \in stored : g.mem = f.mem => g = f
  BY DEF C!Ingest, C!Ingestable
<1>2. stored' = stored \cup {f}
  BY <1>1 DEF C!Ingest, C!Replaced, C!OfOthers
<1>3. queue' = queue \cup {f}
  BY <1>1 DEF C!Ingest, C!Replaced, C!OfOthers, ProfileFits
<1>4. \A x, y \in stored' : x.mem = y.mem => x = y
  BY <1>1, <1>2, Shapes
<1>5. \A x, y \in queue' : x.mem = y.mem => x = y
  BY <1>2, <1>3, <1>4 DEF ProfileFits
<1>6. /\ proc' \in [C!Process -> Records]
      /\ \A p \in C!Process : /\ proc'[p].todo \subseteq stored' /\ proc'[p].now \subseteq stored'
                              /\ \A g \in proc'[p].now : Kept(profile, g)
  <2>1. CASE UNCHANGED proc
    BY <1>2, <2>1, Shapes DEF ProfileFits
  <2>2. CASE \E w \in Worker : proc' = [proc EXCEPT ![w].todo = {f}]
    <3>1. PICK w \in Worker : proc' = [proc EXCEPT ![w].todo = {f}]
      BY <2>2
    <3>2. w \in C!Process /\ proc \in [C!Process -> Records]
      BY Shapes DEF C!Process
    <3>3. proc[w] \in Records /\ [proc[w] EXCEPT !.todo = {f}] \in Records
      BY <3>2 DEF Records
    <3>4. proc' = [proc EXCEPT ![w] = [proc[w] EXCEPT !.todo = {f}]]
      BY <3>1, <3>2
    <3>5. proc' \in [C!Process -> Records]
      BY <3>2, <3>3, <3>4
    <3>6. /\ proc'[w].todo = {f} /\ proc'[w].now = proc[w].now
          /\ \A p \in C!Process : p # w => proc'[p] = proc[p]
      BY <3>2, <3>3, <3>4 DEF Records
    <3>. QED  BY <1>2, <3>2, <3>5, <3>6 DEF ProfileFits
  <2>. QED  BY <2>1, <2>2 DEF C!Ingest
<1>7. profile' = profile /\ UNCHANGED <<errors, crashes>>
  BY DEF C!Ingest
<1>8. ingests' \in 0..MaxIngest
  BY ProfileAssumption DEF C!Ingest, ProfileFits, C!TypeOK, C!Parameters
<1>9. stored' \in SUBSET C!Fact /\ queue' \in SUBSET C!Fact
  BY <1>2, <1>3, Shapes
<1>10. C!TypeOK'
  BY <1>4, <1>5, <1>6, <1>7, <1>8, <1>9 DEF ProfileFits, C!TypeOK, Records
<1>11. Elements(profile') = Elements(profile) /\ Ranked(profile')
  BY <1>7 DEF ProfileFits
<1>12. Elements(profile') \subseteq stored' /\ queue' \subseteq stored'
  BY <1>2, <1>3, <1>11 DEF ProfileFits
<1>13. \A p \in C!Process : \A g \in proc'[p].now : Kept(profile', g)
  BY <1>6, <1>7
<1>. QED  BY <1>2, <1>3, <1>6, <1>7, <1>10, <1>11, <1>12, <1>13 DEF ProfileFits

LEMMA DeletedStep ==
  ASSUME ProfileFits, ~DeletesOverlap, NEW m \in Entry, C!Delete(m)
  PROVE  ProfileFits' /\ ~(stored \subseteq stored')
<1>1. /\ stored' = {x \in stored : x.mem # m} /\ queue' = {x \in queue : x.mem # m}
      /\ profile' = C!ProfileWithout(profile, m)
      /\ UNCHANGED <<proc, ingests, errors, crashes>>
  BY DEF C!Delete, C!OfOthers
<1>2. \A p \in C!Process : proc[p].todo = {} /\ proc[p].now = {}
  BY DEF C!Delete, C!Working, C!Idle
<1>3. /\ profile' \in Seq(C!Fact) /\ Len(profile') <= Len(profile) /\ Ranked(profile')
      /\ Elements(profile') = {e \in Elements(profile) : e.mem # m}
  <2>1. \A q : profile = q /\ q \in Seq(C!Fact) /\ Ranked(q) =>
                 LET r == C!ProfileWithout(q, m)
                 IN  /\ r \in Seq(C!Fact) /\ Len(r) <= Len(q) /\ Ranked(r)
                     /\ Elements(r) = {e \in Elements(q) : e.mem # m}
    BY WithoutOne
  <2>. QED  BY <1>1, <2>1, Shapes DEF ProfileFits
<1>4. Len(profile') <= Places
  <2>1. Len(profile) \in Nat /\ Len(profile') \in Nat /\ Len(profile) <= Places /\ Places \in Nat
    BY <1>3, Shapes, ProfileAssumption DEF C!Parameters
  <2>. QED  BY <1>3, <2>1
<1>5. C!TypeOK'
  BY <1>1, <1>3, <1>4 DEF ProfileFits, C!TypeOK
<1>6. Elements(profile') \subseteq stored' /\ queue' \subseteq stored'
  BY <1>1, <1>3 DEF ProfileFits
<1>7. ~(stored \subseteq stored')
  BY <1>1 DEF C!Delete, C!IdsOf
<1>. QED  BY <1>1, <1>2, <1>3, <1>5, <1>6, <1>7 DEF ProfileFits

\* Every fact that has its place keeps it, and the one that is folded in gets one.
LEMMA UpdateStep ==
  ASSUME ProfileFits, NEW p \in C!Process, C!UpdateProfile(p)
  PROVE  /\ ProfileFits' /\ UNCHANGED <<stored, queue>>
         /\ \A g \in stored : Kept(profile, g) => Kept(profile', g)
<1>1. PICK f \in C!Earliest(proc[p].todo) :
        /\ profile' = C!Folded(profile, f)
        /\ proc' = [proc EXCEPT ![p] = [todo |-> proc[p].todo \ {f}, now |-> {f}]]
  BY DEF C!UpdateProfile
<1>2. UNCHANGED <<stored, queue, ingests, errors, crashes>>
  BY DEF C!UpdateProfile
<1>3. f \in stored /\ f \in C!Fact
  BY <1>1, Shapes DEF C!Earliest, ProfileFits
<1>4. /\ profile' \in Seq(C!Fact) /\ Len(profile') <= Places /\ Ranked(profile')
      /\ Elements(profile') \subseteq stored
      /\ Kept(profile', f) /\ \A g \in stored : Kept(profile, g) => Kept(profile', g)
  <2>1. \A S, q : /\ S = stored /\ S \in SUBSET C!Fact /\ \A x, y \in S : x.mem = y.mem => x = y
                  /\ q = profile /\ q \in Seq(C!Fact) /\ Ranked(q) /\ Len(q) <= Places
                  /\ Elements(q) \subseteq S /\ f \in S
                  => LET r == C!Folded(q, f)
                     IN  /\ r \in Seq(C!Fact) /\ Len(r) <= Places /\ Ranked(r)
                         /\ Elements(r) \subseteq S
                         /\ Kept(r, f) /\ \A g \in S : Kept(q, g) => Kept(r, g)
    BY FoldedIn
  <2>. QED  BY <1>1, <1>3, <2>1, Shapes DEF ProfileFits
<1>5. /\ proc' \in [C!Process -> Records]
      /\ proc'[p].todo \subseteq stored /\ proc'[p].now = {f}
      /\ \A w \in C!Process : w # p => proc'[w] = proc[w]
  <2>1. proc \in [C!Process -> Records]
    BY Shapes
  <2>2. proc[p].todo \in SUBSET C!Fact
    BY <2>1 DEF Records
  <2>3. [todo |-> proc[p].todo \ {f}, now |-> {f}] \in Records
    BY <1>3, <2>2 DEF Records
  <2>. QED  BY <1>1, <2>1, <2>3 DEF ProfileFits
<1>6. C!TypeOK'
  BY <1>2, <1>4, <1>5 DEF ProfileFits, C!TypeOK, Records
<1>7. \A w \in C!Process : /\ proc'[w].todo \subseteq stored /\ proc'[w].now \subseteq stored
                           /\ \A g \in proc'[w].now : Kept(profile', g)
  <2>1. ASSUME NEW w \in C!Process, w # p
        PROVE  /\ proc'[w].todo \subseteq stored /\ proc'[w].now \subseteq stored
               /\ \A g \in proc'[w].now : Kept(profile', g)
    BY <1>4, <1>5, <2>1 DEF ProfileFits
  <2>. QED  BY <1>3, <1>4, <1>5, <2>1
<1>. QED  BY <1>2, <1>4, <1>6, <1>7 DEF ProfileFits

\* A task leaves the queue when its fact has its place.
LEMMA CompleteStep ==
  ASSUME ProfileFits, NEW p \in C!Process, C!CompleteTask(p)
  PROVE  /\ ProfileFits' /\ UNCHANGED <<stored, profile>>
         /\ \A g \in queue : g \in queue' \/ Kept(profile, g)
<1>1. PICK f \in proc[p].now : queue' = C!OfOthers(queue, f.mem)
                               /\ proc' = [proc EXCEPT ![p].now = {}]
  BY DEF C!CompleteTask
<1>2. UNCHANGED <<stored, profile, ingests, errors, crashes>>
  BY DEF C!CompleteTask
<1>3. f \in stored /\ Kept(profile, f)
  BY DEF ProfileFits
<1>4. queue' = {x \in queue : x.mem # f.mem}
  BY <1>1 DEF C!OfOthers
<1>5. \A g \in queue : g \in queue' \/ g = f
  BY <1>3, <1>4, Shapes DEF ProfileFits
<1>6. /\ proc' \in [C!Process -> Records]
      /\ \A w \in C!Process : proc'[w].todo = proc[w].todo /\ proc'[w].now \subseteq proc[w].now
  <2>1. proc \in [C!Process -> Records] /\ proc[p] \in Records
    BY Shapes
  <2>2. proc' = [proc EXCEPT ![p] = [proc[p] EXCEPT !.now = {}]]
    BY <1>1, <2>1
  <2>3. /\ [proc[p] EXCEPT !.now = {}] \in Records
        /\ [proc[p] EXCEPT !.now = {}].todo = proc[p].todo
        /\ [proc[p] EXCEPT !.now = {}].now = {}
    BY <2>1 DEF Records
  <2>. QED  BY <2>1, <2>2, <2>3
<1>7. C!TypeOK'
  BY <1>2, <1>4, <1>6 DEF ProfileFits, C!TypeOK, Records
<1>. QED  BY <1>2, <1>3, <1>4, <1>5, <1>6, <1>7 DEF ProfileFits

LEMMA TaskSteps ==
  ASSUME ProfileFits,
         C!StartTick \/ C!Crash \/ \E p \in C!Process : C!ConsolidationFails(p)
  PROVE  ProfileFits' /\ UNCHANGED <<stored, queue, profile>>
<1>1. UNCHANGED <<stored, queue, profile, ingests>>
  BY DEF C!StartTick, C!Crash, C!ConsolidationFails
<1>2. errors' \in 0..MaxError /\ crashes' \in 0..MaxCrash
  <2>1. MaxError \in Nat /\ MaxCrash \in Nat /\ errors \in 0..MaxError /\ crashes \in 0..MaxCrash
    BY ProfileAssumption DEF C!Parameters, ProfileFits, C!TypeOK
  <2>2. /\ errors' = errors \/ (errors < MaxError /\ errors' = errors + 1)
        /\ crashes' = crashes \/ (crashes < MaxCrash /\ crashes' = crashes + 1)
    BY DEF C!StartTick, C!Crash, C!ConsolidationFails
  <2>. QED  BY <2>1, <2>2
<1>3. C!Idle \in Records /\ C!Idle.todo = {} /\ C!Idle.now = {}
  BY DEF C!Idle, Records
<1>4. /\ proc' \in [C!Process -> Records]
      /\ \A w \in C!Process : proc'[w].todo \subseteq stored /\ proc'[w].now \subseteq proc[w].now
  <2>1. proc \in [C!Process -> Records] /\ queue \subseteq stored /\ queue \in SUBSET C!Fact
        /\ \A w \in C!Process : proc[w].todo \subseteq stored
    BY Shapes DEF ProfileFits
  <2>2. CASE C!StartTick
    <3>1. Tick \in C!Process /\ proc[Tick] \in Records
      BY <2>1 DEF C!Process
    <3>2. proc' = [proc EXCEPT ![Tick] = [proc[Tick] EXCEPT !.todo = queue]]
      BY <2>1, <2>2, <3>1 DEF C!StartTick, C!Pending
    <3>3. /\ [proc[Tick] EXCEPT !.todo = queue] \in Records
          /\ [proc[Tick] EXCEPT !.todo = queue].todo = queue
          /\ [proc[Tick] EXCEPT !.todo = queue].now = proc[Tick].now
      BY <2>1, <3>1 DEF Records
    <3>. QED  BY <2>1, <3>1, <3>2, <3>3
  <2>3. CASE C!Crash
    <3>1. proc' = [w \in C!Process |-> C!Idle]
      BY <2>3 DEF C!Crash
    <3>. QED  BY <1>3, <3>1
  <2>4. CASE \E p \in C!Process : C!ConsolidationFails(p)
    <3>1. PICK p \in C!Process : proc' = [proc EXCEPT ![p] = C!Idle]
      BY <2>4 DEF C!ConsolidationFails, C!AfterError
    <3>. QED  BY <1>3, <2>1, <3>1
  <2>. QED  BY <2>2, <2>3, <2>4
<1>5. C!TypeOK'
  BY <1>1, <1>2, <1>4 DEF ProfileFits, C!TypeOK, Records
<1>. QED  BY <1>1, <1>4, <1>5 DEF ProfileFits

LEMMA ProfileStep ==
  ASSUME ProfileFits, ~DeletesOverlap, C!Next
  PROVE  ProfileFits'
<1>1. CASE \E f \in C!Fact : C!Ingest(f)
  BY <1>1, IngestStep
<1>2. CASE \E m \in Entry : C!Delete(m)
  BY <1>2, DeletedStep
<1>3. CASE \E p \in C!Process : C!UpdateProfile(p)
  BY <1>3, UpdateStep
<1>4. CASE \E p \in C!Process : C!CompleteTask(p)
  BY <1>4, CompleteStep
<1>5. CASE C!StartTick \/ C!Crash \/ \E p \in C!Process : C!ConsolidationFails(p)
  BY <1>5, TaskSteps
<1>. QED  BY <1>1, <1>2, <1>3, <1>4, <1>5 DEF C!Next, C!Step

LEMMA AccountedIsKept ==
  \A f : C!AccountedFor(f) <=> f \in queue \/ Kept(profile, f)
BY DEF C!AccountedFor, Kept, C!IdsOf, C!Listed

\* A fact that was accounted for is after any step but a deletion, and a new one is.
LEMMA NobodyLost ==
  ASSUME ProfileFits, C!Next, stored \subseteq stored', ~DeletesOverlap,
         NEW f \in stored', f \in stored => C!AccountedFor(f)
  PROVE  C!AccountedFor(f)'
<1>1. SUFFICES f \in queue' \/ Kept(profile', f)
  BY AccountedIsKept DEF C!AccountedFor, Kept, C!IdsOf, C!Listed
<1>2. f \in stored => f \in queue \/ Kept(profile, f)
  BY AccountedIsKept
<1>3. CASE \E g \in C!Fact : C!Ingest(g)
  BY <1>2, <1>3, IngestStep
<1>4. CASE \E m \in Entry : C!Delete(m)
  BY <1>4, DeletedStep
<1>5. CASE \E p \in C!Process : C!UpdateProfile(p)
  BY <1>2, <1>5, UpdateStep
<1>6. CASE \E p \in C!Process : C!CompleteTask(p)
  BY <1>2, <1>6, CompleteStep
<1>7. CASE C!StartTick \/ C!Crash \/ \E p \in C!Process : C!ConsolidationFails(p)
  BY <1>2, <1>7, TaskSteps
<1>. QED  BY <1>3, <1>4, <1>5, <1>6, <1>7 DEF C!Next, C!Step

-----------------------------------------------------------------------------
(* The parts together: a step is one part's and leaves the others.           *)

LEMMA RetentionMoves ==
  ASSUME RetentionInv, ~RepairsOverlap, ~RestoresOverlap, [MCNext]_allvars
  PROVE  RetentionInv'
<1>1. CASE Next
  BY <1>1, RetentionStep
<1>2. CASE UNCHANGED vars
  BY <1>2, RetentionStays
<1>. QED  BY <1>1, <1>2 DEF MCNext, OfExpiry, OfProfile, OfBatch, allvars

LEMMA ProfileMoves ==
  ASSUME ProfileFits, ~DeletesOverlap, [MCNext]_allvars
  PROVE  ProfileFits'
<1>1. CASE C!Next
  BY <1>1, ProfileStep
<1>2. CASE UNCHANGED consolidation
  BY <1>2 DEF consolidation, ProfileFits, C!TypeOK
<1>. QED  BY <1>1, <1>2 DEF MCNext, OfExpiry, OfProfile, OfBatch, allvars

LEMMA RetentionInvariant ==
  ASSUME ~RepairsOverlap, ~RestoresOverlap
  PROVE  MCSpec => []RetentionInv
<1>1. MCInit => RetentionInv
  BY RetentionStart DEF MCInit
<1>2. RetentionInv /\ [MCNext]_allvars => RetentionInv'
  BY RetentionMoves
<1>. QED  BY <1>1, <1>2, PTL DEF MCSpec

LEMMA ProfileInvariant ==
  ASSUME ~DeletesOverlap
  PROVE  MCSpec => []ProfileFits
<1>1. MCInit => ProfileFits
  BY ProfileStart DEF MCInit
<1>2. ProfileFits /\ [MCNext]_allvars => ProfileFits'
  BY ProfileMoves
<1>. QED  BY <1>1, <1>2, PTL DEF MCSpec

\* deleted_memory_leaves_no_text_anywhere, in the router: its record and its two
\* full-text documents quote the stored memories, all of them and nothing else,
\* whatever commit_ingest merges and delete_observation folds anew.
THEOREM RouterAlways ==
  ~RepairsOverlap /\ ~RestoresOverlap => (MCSpec => []RouterOfTheStored)
<1> SUFFICES ASSUME ~RepairsOverlap, ~RestoresOverlap PROVE MCSpec => []RouterOfTheStored
  OBVIOUS
<1>1. RetentionInv => RouterOfTheStored
  BY RouterHolds DEF RetentionInv, ExpiryFits, RouterOfTheStored, RouterOfStored
<1>. QED  BY <1>1, RetentionInvariant, PTL

\* purge_expired_memories erases what has expired and what is derived from it,
\* nothing else, whatever clients store and delete while it is at work.
THEOREM NothingPurgedEarly ==
  ~RepairsOverlap /\ ~RestoresOverlap => (MCSpec => KeptUntilDue)
<1> SUFFICES ASSUME ~RepairsOverlap, ~RestoresOverlap PROVE MCSpec => KeptUntilDue
  OBVIOUS
<1>1. RetentionInv /\ [MCNext]_allvars =>
        [purge' # purge =>
           \A m \in Stored \ Stored' :
             \E p \in Stored : m \in WithDerived(p) /\ expires[p] <= clock]_vars
  <2>1. SUFFICES ASSUME RetentionInv, [MCNext]_allvars, ~(UNCHANGED vars), purge' # purge
                 PROVE  \A m \in Stored \ Stored' :
                          \E p \in Stored : m \in WithDerived(p) /\ expires[p] <= clock
    OBVIOUS
  <2>2. Next
    BY <2>1 DEF MCNext, OfExpiry, OfProfile, OfBatch, allvars
  <2>. QED  BY <2>1, <2>2, OnlyPurgeErases
<1>. QED  BY <1>1, RetentionInvariant, PTL DEF MCSpec, KeptUntilDue

\* The tables of the router, the retention and the profile hold what their code
\* writes: a profile stays within MAX_PROFILE_FACTS, a router record is never
\* without a source.
THEOREM TypesStay ==
  ~RepairsOverlap /\ ~RestoresOverlap /\ ~DeletesOverlap => (MCSpec => []Types)
<1> SUFFICES ASSUME ~RepairsOverlap, ~RestoresOverlap, ~DeletesOverlap PROVE MCSpec => []Types
  OBVIOUS
<1>1. RetentionInv => TypeOK
  BY RouterHolds DEF RetentionInv, ExpiryFits, TypeOK
<1>2. ProfileFits => C!TypeOK
  BY DEF ProfileFits
<1>. QED  BY <1>1, <1>2, RetentionInvariant, ProfileInvariant, PTL DEF Types

\* update_core_profile_heuristic and remove_deleted_from_core_profiles: the profile
\* quotes stored memories, each once, the newest first, though tasks are done twice.
THEOREM ProfileAlways == ~DeletesOverlap => (MCSpec => []ProfileOfStored)
<1> SUFFICES ASSUME ~DeletesOverlap PROVE MCSpec => []ProfileOfStored
  OBVIOUS
<1>1. ProfileFits => ProfileOfStored
  <2>1. SUFFICES ASSUME ProfileFits PROVE ProfileOfStored
    OBVIOUS
  <2>2. C!ProfileOfStored
    BY <2>1 DEF ProfileFits, Elements, C!ProfileOfStored, C!IdsOf, C!Listed
  <2>3. C!ListedOnce
    BY <2>1 DEF ProfileFits, Ranked, C!ListedOnce
  <2>. QED  BY <2>2, <2>3 DEF ProfileOfStored
<1>. QED  BY <1>1, ProfileInvariant, PTL

\* A stored fact is in the queue or has its place in the profile, or there is none
\* for it, after every error and crash: complete_consolidation_task only deletes
\* what update_core_profile_heuristic has folded in.
THEOREM NobodyForgotten == ~DeletesOverlap => (MCSpec => NoFactLost)
<1> SUFFICES ASSUME ~DeletesOverlap PROVE MCSpec => NoFactLost
  OBVIOUS
<1>1. ProfileFits /\ [MCNext]_allvars =>
        [stored \subseteq stored' =>
           \A f \in stored' : (f \in stored => C!AccountedFor(f)) => C!AccountedFor(f)']_(C!vars)
  <2>1. SUFFICES ASSUME ProfileFits, [MCNext]_allvars, ~(UNCHANGED C!vars),
                        stored \subseteq stored', NEW f \in stored',
                        f \in stored => C!AccountedFor(f)
                 PROVE  C!AccountedFor(f)'
    OBVIOUS
  <2>2. C!Next
    BY <2>1 DEF MCNext, OfExpiry, OfProfile, OfBatch, allvars, consolidation, C!vars
  <2>. QED  BY <2>1, <2>2, NobodyLost
<1>. QED  BY <1>1, ProfileInvariant, PTL DEF MCSpec, NoFactLost, C!NoFactLost

=============================================================================
