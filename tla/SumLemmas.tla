----------------------------- MODULE SumLemmas -----------------------------
(***************************************************************************)
(* Sums of integer functions over finite sets: how a sum changes with one  *)
(* entry, and how sums compare.  SumFunctionOnSet folds over the set by a  *)
(* CHOOSE; the lemmas unfold it through the table of partial sums over the *)
(* subsets, by well-founded induction on strict inclusion.                 *)
(***************************************************************************)
EXTENDS Integers, FiniteSets, Functions, FiniteSetTheorems,
        WellFoundedInduction, TLAPS

Pick(T) == CHOOSE x \in T : TRUE

\* g is the table of partial sums of f over the subsets of S.
IsTable(g, f, S) ==
  g = [T \in SUBSET S |-> IF T = {} THEN 0 ELSE f[Pick(T)] + g[T \ {Pick(T)}]]

Table(f, S) == CHOOSE g : IsTable(g, f, S)

\* The community modules' sum is the last entry of the table of partial sums.
LEMMA SumIsTable ==
  ASSUME NEW f, NEW S
  PROVE  SumFunctionOnSet(f, S) = Table(f, S)[S]
BY DEF SumFunctionOnSet, FoldFunctionOnSet, MapThenFoldSet, Table, IsTable, Pick

\* A set of finite sets that is not empty has a member none of whose proper
\* subsets is in it: the induction principle of this module.
LEMMA SmallestSubset ==
  ASSUME NEW S, IsFiniteSet(S), NEW Bad \in SUBSET (SUBSET S), Bad # {}
  PROVE  \E T \in Bad : \A U \in Bad : ~(U \subseteq T /\ U # T)
<1>1. Bad \subseteq FiniteSubsetsOf(S)
  BY FS_Subset DEF FiniteSubsetsOf
<1>2. IsWellFoundedOn(StrictSubsetOrdering(S), FiniteSubsetsOf(S))
  BY FS_StrictSubsetOrderingWellFounded
<1>3. PICK T \in Bad : \A U \in Bad : ~(<<U, T>> \in StrictSubsetOrdering(S))
  <2> DEFINE R == StrictSubsetOrdering(S)
             F == FiniteSubsetsOf(S)
  <2>1. IsWellFoundedOn(R, F) /\ Bad \subseteq F
    BY <1>1, <1>2
  <2> HIDE DEF R, F
  <2>2. \E x \in Bad : \A y \in Bad : ~(<<y, x>> \in R)
    BY <2>1, WFMin
  <2> QED BY <2>2 DEF R
<1> QED BY <1>3 DEF StrictSubsetOrdering

\* The least number principle, for a set of numbers.
LEMMA LeastNat ==
  ASSUME NEW B \in SUBSET Nat, B # {}
  PROVE  \E m \in B : \A k \in B : m <= k
<1> DEFINE R == OpToRel(<, Nat)
<1>1. \A x, y \in Nat : x < y => <<x, y>> \in R
  BY DEF OpToRel
<1>2. IsWellFoundedOn(R, Nat)
  BY NatLessThanWellFounded
<1> HIDE DEF R
<1>3. PICK m \in B : \A k \in B : ~(<<k, m>> \in R)
  BY <1>2, WFMin
<1>4. \A k \in B : m <= k
  <2> SUFFICES ASSUME NEW k \in B, ~(m <= k) PROVE FALSE
    OBVIOUS
  <2>1. k \in Nat /\ m \in Nat /\ k < m
    OBVIOUS
  <2> QED BY <2>1, <1>1, <1>3
<1> QED BY <1>4

\* The table of partial sums exists, and is unique and integer valued.
LEMMA TableExists ==
  ASSUME NEW S, IsFiniteSet(S), NEW f \in [S -> Int]
  PROVE  \E g \in [SUBSET S -> Int] : IsTable(g, f, S)
<1> DEFINE Sub(n) == {T \in SUBSET S : Cardinality(T) <= n}
           Ok(n) == \E g \in [Sub(n) -> Int] : \A T \in Sub(n) :
                      g[T] = IF T = {} THEN 0 ELSE f[Pick(T)] + g[T \ {Pick(T)}]
<1>1. \A T \in SUBSET S : /\ IsFiniteSet(T) /\ Cardinality(T) \in Nat
                          /\ Cardinality(T) <= Cardinality(S)
                          /\ (Cardinality(T) = 0 <=> T = {})
  BY FS_Subset, FS_CardinalityType, FS_EmptySet
<1>2. \A T \in SUBSET S : T # {} => /\ Pick(T) \in T /\ Pick(T) \in S
                                    /\ T \ {Pick(T)} \in SUBSET S
                                    /\ Cardinality(T \ {Pick(T)}) = Cardinality(T) - 1
  BY <1>1, FS_RemoveElement DEF Pick
<1>3. Ok(0)
  <2>1. \A T \in Sub(0) : T = {}
    BY <1>1
  <2>2. [T \in Sub(0) |-> 0] \in [Sub(0) -> Int]
    OBVIOUS
  <2> QED BY <2>1, <2>2
<1>4. ASSUME NEW n \in Nat, Ok(n) PROVE Ok(n + 1)
  <2>1. PICK g \in [Sub(n) -> Int] : \A T \in Sub(n) :
              g[T] = IF T = {} THEN 0 ELSE f[Pick(T)] + g[T \ {Pick(T)}]
    BY <1>4
  <2> DEFINE h == [T \in Sub(n + 1) |->
                     IF T = {} THEN 0 ELSE f[Pick(T)] + g[T \ {Pick(T)}]]
  <2>2. \A T \in Sub(n + 1) : T # {} => T \ {Pick(T)} \in Sub(n)
    BY <1>1, <1>2
  <2>3. h \in [Sub(n + 1) -> Int]
    BY <2>2, <1>2
  <2>4. \A T \in Sub(n) : T \in Sub(n + 1) /\ h[T] = g[T]
    <3> SUFFICES ASSUME NEW T \in Sub(n) PROVE T \in Sub(n + 1) /\ h[T] = g[T]
      OBVIOUS
    <3>1. T \in Sub(n + 1)
      BY <1>1
    <3>2. h[T] = IF T = {} THEN 0 ELSE f[Pick(T)] + g[T \ {Pick(T)}]
      BY <3>1
    <3> QED BY <3>1, <3>2, <2>1
  <2>5. \A T \in Sub(n + 1) :
           h[T] = IF T = {} THEN 0 ELSE f[Pick(T)] + h[T \ {Pick(T)}]
    BY <2>2, <2>4
  <2> HIDE DEF h, Sub
  <2> QED BY <2>3, <2>5
<1>5. \A n \in Nat : Ok(n)
  <2> SUFFICES ASSUME NEW n \in Nat, ~Ok(n) PROVE FALSE
    OBVIOUS
  <2> DEFINE B == {k \in Nat : ~Ok(k)}
  <2> HIDE DEF Ok
  <2>1. PICK m \in B : \A k \in B : m <= k
    BY LeastNat
  <2>2. m # 0
    BY <1>3
  <2>3. m - 1 \in Nat /\ m - 1 \notin B
    BY <2>1, <2>2
  <2> QED BY <2>3, <1>4
<1>6. Cardinality(S) \in Nat /\ Sub(Cardinality(S)) = SUBSET S
  BY <1>1, FS_CardinalityType
<1>7. PICK g \in [Sub(Cardinality(S)) -> Int] : \A T \in Sub(Cardinality(S)) :
         g[T] = IF T = {} THEN 0 ELSE f[Pick(T)] + g[T \ {Pick(T)}]
  BY <1>5, <1>6
<1>8. g \in [SUBSET S -> Int] /\ \A T \in SUBSET S :
         g[T] = IF T = {} THEN 0 ELSE f[Pick(T)] + g[T \ {Pick(T)}]
  BY <1>6, <1>7
<1> QED BY <1>8 DEF IsTable

\* What such a table satisfies, in the form the proofs below use.
TableRec(g, f, S) ==
  /\ g[{}] = 0
  /\ \A T \in SUBSET S : T # {} =>
       /\ Pick(T) \in T
       /\ T \ {Pick(T)} \in SUBSET S
       /\ g[T] = f[Pick(T)] + g[T \ {Pick(T)}]

\* The table of partial sums satisfies its recursive equation.
LEMMA TableDef ==
  ASSUME NEW S, IsFiniteSet(S), NEW f \in [S -> Int]
  PROVE  TableRec(Table(f, S), f, S)
<1> DEFINE g == Table(f, S)
<1>1. IsTable(g, f, S)
  BY TableExists DEF Table
<1> HIDE DEF g
<1>2. \A T \in SUBSET S : T # {} => Pick(T) \in T
  BY DEF Pick
<1>3. \A T \in SUBSET S :
        g[T] = IF T = {} THEN 0 ELSE f[Pick(T)] + g[T \ {Pick(T)}]
  BY <1>1 DEF IsTable
<1>4. TableRec(g, f, S)
  BY <1>2, <1>3 DEF TableRec
<1> QED BY <1>4 DEF g

\* Induction on the subsets of S: a set of subsets that holds the empty set, and
\* T whenever it holds T without its picked member, holds them all.
LEMMA SubsetInduction ==
  ASSUME NEW S, IsFiniteSet(S), NEW Good \in SUBSET (SUBSET S), {} \in Good,
         \A T \in SUBSET S : T # {} /\ T \ {Pick(T)} \in Good => T \in Good
  PROVE  Good = SUBSET S
<1> DEFINE Bad == (SUBSET S) \ Good
<1> SUFFICES ASSUME Bad # {} PROVE FALSE
  OBVIOUS
<1>0. Bad \in SUBSET (SUBSET S)
  OBVIOUS
<1> HIDE DEF Bad
<1>1. PICK T \in Bad : \A U \in Bad : ~(U \subseteq T /\ U # T)
  BY <1>0, SmallestSubset
<1>2. T \in SUBSET S /\ T \notin Good /\ T # {}
  BY <1>1 DEF Bad
<1>3. Pick(T) \in T
  BY <1>2 DEF Pick
<1>4. T \ {Pick(T)} \in SUBSET S /\ T \ {Pick(T)} \notin Bad
  BY <1>1, <1>2, <1>3
<1> QED BY <1>2, <1>4 DEF Bad

\* Partial sums of integers are integers.
LEMMA TableType ==
  ASSUME NEW S, IsFiniteSet(S), NEW f \in [S -> Int]
  PROVE  \A T \in SUBSET S : Table(f, S)[T] \in Int
<1> DEFINE g == Table(f, S)
           Good == {T \in SUBSET S : g[T] \in Int}
<1>0. TableRec(g, f, S)
  BY TableDef
<1> HIDE DEF g
<1>1. {} \in Good
  BY <1>0 DEF TableRec
<1>2. ASSUME NEW T \in SUBSET S, T # {}, T \ {Pick(T)} \in Good
      PROVE  T \in Good
  <2>1. /\ Pick(T) \in S /\ g[T \ {Pick(T)}] \in Int
        /\ g[T] = f[Pick(T)] + g[T \ {Pick(T)}]
    BY <1>0, <1>2 DEF TableRec
  <2>2. f[Pick(T)] \in Int
    BY <2>1
  <2> QED BY <2>1, <2>2
<1>3. Good \in SUBSET (SUBSET S)
  OBVIOUS
<1>4. Good = SUBSET S
  <2> HIDE DEF Good
  <2> QED BY <1>1, <1>2, <1>3, SubsetInduction
<1>5. \A T \in SUBSET S : g[T] \in Int
  BY <1>4
<1> QED BY <1>5 DEF g

\* A sum of integers over a finite set is an integer.
LEMMA SumType ==
  ASSUME NEW S, IsFiniteSet(S), NEW f \in [S -> Int]
  PROVE  SumFunctionOnSet(f, S) \in Int
BY SumIsTable, TableType

\* Changing one summand changes the sum by the same amount.
LEMMA SumUpdate ==
  ASSUME NEW S, IsFiniteSet(S), NEW f \in [S -> Int], NEW e \in [S -> Int],
         NEW a \in S, \A x \in S : x # a => e[x] = f[x]
  PROVE  SumFunctionOnSet(e, S) = SumFunctionOnSet(f, S) + (e[a] - f[a])
<1> DEFINE g == Table(f, S)
           h == Table(e, S)
           d == e[a] - f[a]
           Good == {T \in SUBSET S : h[T] = g[T] + (IF a \in T THEN d ELSE 0)}
<1>0. d \in Int /\ \A x \in S : e[x] \in Int /\ f[x] \in Int
                              /\ e[x] = f[x] + (IF x = a THEN d ELSE 0)
  OBVIOUS
<1>1. \A T \in SUBSET S : g[T] \in Int /\ h[T] \in Int
  BY TableType
<1>2. TableRec(g, f, S) /\ TableRec(h, e, S)
  BY TableDef
<1>4. g[S] = SumFunctionOnSet(f, S) /\ h[S] = SumFunctionOnSet(e, S)
  BY SumIsTable
<1> HIDE DEF g, h, d
<1>5. {} \in Good
  BY <1>2 DEF TableRec
<1>6. ASSUME NEW T \in SUBSET S, T # {}, T \ {Pick(T)} \in Good
      PROVE  T \in Good
  <2> DEFINE x == Pick(T)
             U == T \ {x}
  <2>1. h[U] = g[U] + (IF a \in U THEN d ELSE 0)
    BY <1>6
  <2>2. x \in T /\ x \in S /\ U \in SUBSET S
        /\ g[T] = f[x] + g[U] /\ h[T] = e[x] + h[U]
    BY <1>2, <1>6 DEF TableRec
  <2>3. a \in T <=> (a \in U \/ x = a)
    BY <2>2
  <2>4. ~(a \in U /\ x = a)
    OBVIOUS
  <2>5. e[x] = f[x] + (IF x = a THEN d ELSE 0) /\ f[x] \in Int /\ g[U] \in Int
    BY <1>0, <1>1, <2>2
  <2> HIDE DEF x, U
  <2>6. h[T] = g[T] + (IF a \in T THEN d ELSE 0)
    BY <2>1, <2>2, <2>3, <2>4, <2>5, <1>0
  <2> QED BY <2>6
<1>7. Good \in SUBSET (SUBSET S)
  OBVIOUS
<1>8. Good = SUBSET S
  <2> HIDE DEF Good
  <2> QED BY <1>5, <1>6, <1>7, SubsetInduction
<1>9. S \in Good
  BY <1>8
<1>10. h[S] = g[S] + d
  BY <1>9
<1> QED BY <1>4, <1>10 DEF d

\* Sums are linear: the shape of an index step, which adds to every entry of f
\* the same multiple of the entry of w.
LEMMA SumLinear ==
  ASSUME NEW S, IsFiniteSet(S), NEW f \in [S -> Int], NEW w \in [S -> Int],
         NEW e \in [S -> Int], NEW d \in Int,
         \A x \in S : e[x] = f[x] + w[x] * d
  PROVE  SumFunctionOnSet(e, S) = SumFunctionOnSet(f, S) + SumFunctionOnSet(w, S) * d
<1> DEFINE g == Table(f, S)
           h == Table(e, S)
           k == Table(w, S)
           Good == {T \in SUBSET S : h[T] = g[T] + k[T] * d}
<1>1. \A T \in SUBSET S : g[T] \in Int /\ h[T] \in Int /\ k[T] \in Int
  BY TableType
<1>2. TableRec(g, f, S) /\ TableRec(h, e, S) /\ TableRec(k, w, S)
  BY TableDef
<1>4. /\ g[S] = SumFunctionOnSet(f, S) /\ h[S] = SumFunctionOnSet(e, S)
      /\ k[S] = SumFunctionOnSet(w, S)
  BY SumIsTable
<1> HIDE DEF g, h, k
<1>5. {} \in Good
  BY <1>2 DEF TableRec
<1>6. ASSUME NEW T \in SUBSET S, T # {}, T \ {Pick(T)} \in Good
      PROVE  T \in Good
  <2> DEFINE x == Pick(T)
             U == T \ {x}
  <2>1. h[U] = g[U] + k[U] * d
    BY <1>6
  <2>2. /\ x \in S /\ U \in SUBSET S
        /\ g[T] = f[x] + g[U] /\ h[T] = e[x] + h[U] /\ k[T] = w[x] + k[U]
    BY <1>2, <1>6 DEF TableRec
  <2>3. /\ e[x] = f[x] + w[x] * d
        /\ f[x] \in Int /\ w[x] \in Int /\ g[U] \in Int /\ k[U] \in Int
    BY <1>1, <2>2
  <2> HIDE DEF x, U
  <2>4. (w[x] + k[U]) * d = w[x] * d + k[U] * d
    BY <2>3
  <2>5. w[x] * d \in Int /\ k[U] * d \in Int
    BY <2>3
  <2>6. h[T] = g[T] + k[T] * d
    BY <2>1, <2>2, <2>3, <2>4, <2>5
  <2> QED BY <2>6
<1>7. Good \in SUBSET (SUBSET S)
  OBVIOUS
<1>8. Good = SUBSET S
  <2> HIDE DEF Good
  <2> QED BY <1>5, <1>6, <1>7, SubsetInduction
<1>9. S \in Good
  BY <1>8
<1> QED BY <1>4, <1>9

\* Sums are monotone.
LEMMA SumMonotone ==
  ASSUME NEW S, IsFiniteSet(S), NEW f \in [S -> Int], NEW e \in [S -> Int],
         \A x \in S : f[x] <= e[x]
  PROVE  SumFunctionOnSet(f, S) <= SumFunctionOnSet(e, S)
<1> DEFINE g == Table(f, S)
           h == Table(e, S)
           Good == {T \in SUBSET S : g[T] <= h[T]}
<1>1. \A T \in SUBSET S : g[T] \in Int /\ h[T] \in Int
  BY TableType
<1>2. TableRec(g, f, S) /\ TableRec(h, e, S)
  BY TableDef
<1>4. g[S] = SumFunctionOnSet(f, S) /\ h[S] = SumFunctionOnSet(e, S)
  BY SumIsTable
<1> HIDE DEF g, h
<1>5. {} \in Good
  BY <1>2 DEF TableRec
<1>6. ASSUME NEW T \in SUBSET S, T # {}, T \ {Pick(T)} \in Good
      PROVE  T \in Good
  <2> DEFINE x == Pick(T)
             U == T \ {x}
  <2>1. g[U] <= h[U]
    BY <1>6
  <2>2. x \in S /\ U \in SUBSET S /\ g[T] = f[x] + g[U] /\ h[T] = e[x] + h[U]
    BY <1>2, <1>6 DEF TableRec
  <2>3. /\ f[x] <= e[x] /\ f[x] \in Int /\ e[x] \in Int
        /\ g[U] \in Int /\ h[U] \in Int
    BY <1>1, <2>2
  <2> HIDE DEF x, U
  <2>4. g[T] <= h[T]
    BY <2>1, <2>2, <2>3
  <2> QED BY <2>4
<1>7. Good \in SUBSET (SUBSET S)
  OBVIOUS
<1>8. Good = SUBSET S
  <2> HIDE DEF Good
  <2> QED BY <1>5, <1>6, <1>7, SubsetInduction
<1>9. S \in Good
  BY <1>8
<1> QED BY <1>4, <1>9

\* The sum of the zero function.
LEMMA SumZero ==
  ASSUME NEW S, IsFiniteSet(S), NEW f \in [S -> Int], \A x \in S : f[x] = 0
  PROVE  SumFunctionOnSet(f, S) = 0
<1> DEFINE s == SumFunctionOnSet(f, S)
<1>1. \A x \in S : f[x] = f[x] + f[x] * 1
  OBVIOUS
<1>2. s = s + s * 1
  BY <1>1, SumLinear
<1>3. s \in Int
  BY SumType
<1> HIDE DEF s
<1>4. s = 0
  BY <1>2, <1>3
<1> QED BY <1>4 DEF s

\* Of summands that are not negative, none exceeds the sum.
LEMMA SumMember ==
  ASSUME NEW S, IsFiniteSet(S), NEW f \in [S -> Int], NEW a \in S,
         \A x \in S : f[x] >= 0
  PROVE  f[a] <= SumFunctionOnSet(f, S)
<1> DEFINE z == [x \in S |-> 0]
           e == [z EXCEPT ![a] = f[a]]
<1>1. /\ z \in [S -> Int] /\ e \in [S -> Int] /\ f[a] \in Int /\ z[a] = 0
      /\ \A x \in S : z[x] = 0
      /\ e[a] = f[a] /\ \A x \in S : x # a => e[x] = z[x]
  OBVIOUS
<1> HIDE DEF z, e
<1>2. SumFunctionOnSet(z, S) = 0
  BY <1>1, SumZero
<1>3. SumFunctionOnSet(e, S) = SumFunctionOnSet(z, S) + (e[a] - z[a])
  BY <1>1, SumUpdate
<1>4. \A x \in S : e[x] <= f[x]
  BY <1>1
<1>5. SumFunctionOnSet(e, S) <= SumFunctionOnSet(f, S)
  BY <1>1, <1>4, SumMonotone
<1>6. SumFunctionOnSet(e, S) = f[a]
  BY <1>1, <1>2, <1>3
<1> QED BY <1>5, <1>6

-----------------------------------------------------------------------------
(* Quotients and products *)

\* Euclid: quotient and remainder of an integer, as \div and % compute them.
LEMMA DivMod ==
  ASSUME NEW x \in Int, NEW m \in Nat, m > 0
  PROVE  /\ x \div m \in Int /\ x % m \in Int
         /\ x = m * (x \div m) + (x % m)
         /\ 0 <= x % m /\ x % m < m
OBVIOUS

\* The quotient is the only multiple of m that reaches x within one step.
LEMMA DivUnique ==
  ASSUME NEW x \in Int, NEW m \in Nat, m > 0, NEW q \in Int,
         m * q <= x, x < m * q + m
  PROVE  x \div m = q
<1> DEFINE p == x \div m
<1>1. p \in Int /\ m * p <= x /\ x < m * p + m
  BY DivMod
<1> HIDE DEF p
<1>2. ~(p >= q + 1)
  <2> SUFFICES ASSUME p >= q + 1 PROVE FALSE
    OBVIOUS
  <2>1. m * p >= m * (q + 1)
    BY <1>1
  <2>2. m * (q + 1) = m * q + m
    OBVIOUS
  <2> QED BY <1>1, <2>1, <2>2
<1>3. ~(q >= p + 1)
  <2> SUFFICES ASSUME q >= p + 1 PROVE FALSE
    OBVIOUS
  <2>1. m * q >= m * (p + 1)
    BY <1>1
  <2>2. m * (p + 1) = m * p + m
    BY <1>1
  <2> QED BY <1>1, <2>1, <2>2
<1> QED BY <1>1, <1>2, <1>3 DEF p

\* Whole units below x are within its quotient (a whole reward is payable).
LEMMA DivMono ==
  ASSUME NEW x \in Int, NEW m \in Nat, m > 0, NEW q \in Int, m * q <= x
  PROVE  q <= x \div m
<1> DEFINE p == x \div m
<1>1. p \in Int /\ m * p <= x /\ x < m * p + m
  BY DivMod
<1> HIDE DEF p
<1>2. ~(q >= p + 1)
  <2> SUFFICES ASSUME q >= p + 1 PROVE FALSE
    OBVIOUS
  <2>1. m * q >= m * (p + 1)
    BY <1>1
  <2>2. m * (p + 1) = m * p + m
    BY <1>1
  <2> QED BY <1>1, <2>1, <2>2
<1> QED BY <1>1, <1>2 DEF p

\* Whole units within the quotient are below x (a payable reward is accrued).
LEMMA DivBound ==
  ASSUME NEW x \in Int, NEW m \in Nat, m > 0, NEW q \in Int, q <= x \div m
  PROVE  m * q <= x
<1> DEFINE p == x \div m
<1>1. p \in Int /\ m * p <= x /\ q <= p
  BY DivMod
<1> HIDE DEF p
<1>2. m * q <= m * p
  BY <1>1
<1>3. m * q \in Int /\ m * p \in Int
  BY <1>1
<1> QED BY <1>1, <1>2, <1>3

\* A positive factor cancels from an inequality.
LEMMA CancelLeq ==
  ASSUME NEW x \in Int, NEW y \in Int, NEW m \in Nat, m > 0, m * x <= m * y
  PROVE  x <= y
<1> SUFFICES ASSUME x >= y + 1 PROVE FALSE
  OBVIOUS
<1>1. m * x >= m * (y + 1)
  OBVIOUS
<1>2. m * (y + 1) = m * y + m
  OBVIOUS
<1> QED BY <1>1, <1>2

\* Multiplication distributes over addition, in the form the provers lack.
LEMMA Distribute ==
  ASSUME NEW x \in Int, NEW y \in Int, NEW z \in Int
  PROVE  (x + y) * z = x * z + y * z
OBVIOUS

\* Products are monotone in each factor that is not negative.
LEMMA TimesMono ==
  ASSUME NEW x \in Int, NEW y \in Int, NEW z \in Nat, x <= y
  PROVE  x * z <= y * z /\ z * x <= z * y
OBVIOUS

\* Squares are ordered as their roots.
LEMMA RootLeq ==
  ASSUME NEW x \in Nat, NEW y \in Nat, x * x <= y * y
  PROVE  x <= y
<1> SUFFICES ASSUME x >= y + 1 PROVE FALSE
  OBVIOUS
<1>1. x * x >= (y + 1) * (y + 1)
  OBVIOUS
<1>2. (y + 1) * (y + 1) = y * y + y + y + 1
  OBVIOUS
<1> QED BY <1>1, <1>2

\* A quotient that is too small for x is below it (a fraction is rounded down).
LEMMA DivLess ==
  ASSUME NEW x \in Int, NEW m \in Nat, m > 0, NEW q \in Int, x < m * q
  PROVE  x \div m < q
<1> DEFINE p == x \div m
<1>1. p \in Int /\ m * p <= x
  BY DivMod
<1> HIDE DEF p
<1>2. ~(q <= p)
  <2> SUFFICES ASSUME q <= p PROVE FALSE
    OBVIOUS
  <2>1. m * q <= m * p
    BY <1>1, TimesMono
  <2>2. m * q \in Int /\ m * p \in Int
    BY <1>1
  <2> QED BY <1>1, <2>1, <2>2
<1> QED BY <1>1, <1>2 DEF p

\* The quotient of x is within whatever bounds x after scaling.
LEMMA DivLeq ==
  ASSUME NEW x \in Int, NEW m \in Nat, m > 0, NEW q \in Int, x <= m * q
  PROVE  x \div m <= q
<1> DEFINE p == x \div m
<1>1. p \in Int /\ m * p <= x
  BY DivMod
<1> HIDE DEF p
<1>2. m * p <= m * q
  <2>1. m * q \in Int /\ m * p \in Int
    BY <1>1
  <2> QED BY <1>1, <2>1
<1>3. p <= q
  BY <1>1, <1>2, CancelLeq
<1> QED BY <1>3 DEF p

\* The quotient of a natural number is one.
LEMMA DivNat ==
  ASSUME NEW x \in Nat, NEW m \in Nat, m > 0
  PROVE  x \div m \in Nat
<1>1. m * 0 <= x
  OBVIOUS
<1>2. 0 <= x \div m /\ x \div m \in Int
  BY <1>1, DivMono, DivMod
<1> QED BY <1>2

\* Every natural number has an integer square root.
LEMMA FloorSqrt ==
  ASSUME NEW n \in Nat
  PROVE  \E r \in 0 .. n : r * r <= n /\ n < (r + 1) * (r + 1)
<1> DEFINE B == {k \in Nat : n < (k + 1) * (k + 1)}
<1>1. n \in B
  <2>1. (n + 1) * (n + 1) = n * n + n + n + 1 /\ n * n \in Nat
    OBVIOUS
  <2>2. n < (n + 1) * (n + 1)
    BY <2>1
  <2> QED BY <2>2
<1>2. PICK r \in B : \A k \in B : r <= k
  BY <1>1, LeastNat
<1>3. r \in Nat /\ n < (r + 1) * (r + 1) /\ r <= n
  BY <1>1, <1>2
<1>4. r * r <= n
  <2>1. CASE r = 0
    <3>1. r * r = 0
      BY <2>1
    <3> QED BY <3>1
  <2>2. CASE r > 0
    <3> DEFINE k == r - 1
    <3>1. k \in Nat /\ k + 1 = r /\ ~(r <= k)
      BY <1>3, <2>2
    <3>2. k \notin B
      BY <1>2, <3>1
    <3>3. ~(n < (k + 1) * (k + 1))
      BY <3>1, <3>2
    <3>4. ~(n < r * r)
      BY <3>1, <3>3
    <3> QED BY <1>3, <3>4
  <2> QED BY <1>3, <2>1, <2>2
<1> QED BY <1>3, <1>4

\* A swap's output stays below the reserve, and the product of the reserves,
\* with what is priced of the input on the other side, does not fall.
LEMMA OutputBound ==
  ASSUME NEW x \in Nat, x > 0, NEW y \in Nat, NEW p \in Nat
  PROVE  LET b == (y * p) \div (x + p) IN
         /\ b \in Nat /\ b <= y /\ (y > 0 => b < y)
         /\ b * x <= p * (y - b)
         /\ x * y <= (x + p) * (y - b)
<1> DEFINE d == x + p
           b == (y * p) \div d
<1>1. d \in Nat /\ d > 0 /\ y * p \in Nat /\ d = x + p
  OBVIOUS
<1> HIDE DEF d
<1>2. b \in Nat /\ d * b <= y * p
  <2>1. b \in Nat
    BY <1>1, DivNat
  <2>2. d * b <= y * p
    BY <1>1, DivMod
  <2> QED BY <2>1, <2>2
<1> HIDE DEF b
<1>3. d * b = x * b + p * b /\ x * b \in Nat /\ p * b \in Nat
  BY <1>1, <1>2, Distribute
<1>4. x * y \in Nat /\ y * p = p * y /\ p * y \in Nat
  OBVIOUS
<1>5. b <= y
  <2>1. d * y = x * y + p * y
    BY <1>1, Distribute
  <2>2. d * b <= d * y
    BY <1>1, <1>2, <1>4, <2>1
  <2> QED BY <1>1, <1>2, <2>2, CancelLeq
<1>6. ASSUME y > 0 PROVE b < y
  <2> SUFFICES ASSUME b = y PROVE FALSE
    BY <1>2, <1>5
  <2>1. x * y > 0
    BY <1>6
  <2>2. d * y = x * y + p * y
    BY <1>1, Distribute
  <2>3. d * y <= p * y
    BY <1>2, <1>4
  <2> QED BY <1>4, <2>1, <2>2, <2>3
<1>7. b * x <= p * (y - b)
  <2>1. p * (y - b) = p * y - p * b
    BY <1>2
  <2>2. b * x = x * b
    BY <1>2
  <2> QED BY <1>2, <1>3, <1>4, <2>1, <2>2
<1>8. x * y <= d * (y - b)
  <2>1. d * (y - b) = d * y - d * b
    BY <1>1, <1>2
  <2>2. d * y = x * y + p * y
    BY <1>1, Distribute
  <2>3. d * b \in Nat
    BY <1>1, <1>2
  <2> QED BY <1>2, <1>4, <2>1, <2>2, <2>3
<1> QED BY <1>2, <1>5, <1>6, <1>7, <1>8 DEF b, d

\* The same of an output that is priced on a part p of the input, with the
\* whole input joining the reserve.
LEMMA OutputKeepsProduct ==
  ASSUME NEW x \in Nat, x > 0, NEW y \in Nat, NEW input \in Nat, NEW p \in Nat, p <= input
  PROVE  LET b == (y * p) \div (x + p) IN
         /\ b \in Nat /\ b <= y /\ (y > 0 => b < y)
         /\ b * x <= input * (y - b)
         /\ x * y <= (x + input) * (y - b)
<1> DEFINE b == (y * p) \div (x + p)
<1>3. /\ b \in Nat /\ b <= y /\ (y > 0 => b < y)
      /\ b * x <= p * (y - b)
      /\ x * y <= (x + p) * (y - b)
  BY OutputBound
<1> HIDE DEF b
<1> DEFINE c == y - b
<1>4. c \in Nat
  BY <1>3
<1>5. b * x <= p * c /\ x * y <= (x + p) * c
  BY <1>3
<1> HIDE DEF c
<1>6. p * c <= input * c /\ (x + p) * c <= (x + input) * c
  <2>1. p * c <= input * c
    BY <1>4, TimesMono
  <2>2. x + p <= x + input /\ x + p \in Int /\ x + input \in Int
    OBVIOUS
  <2>3. (x + p) * c <= (x + input) * c
    BY <2>2, <1>4, TimesMono
  <2> QED BY <2>1, <2>3
<1>7. b * x \in Int /\ x * y \in Int /\ p * c \in Int /\ input * c \in Int
      /\ (x + p) * c \in Int /\ (x + input) * c \in Int
  BY <1>3, <1>4
<1>8. b * x <= input * c /\ x * y <= (x + input) * c
  BY <1>5, <1>6, <1>7
<1> QED BY <1>3, <1>8 DEF b, c

\* A division rounded up is the smallest multiple of d that reaches n.
LEMMA Ceiling ==
  ASSUME NEW n \in Nat, NEW d \in Nat, d > 0
  PROVE  LET c == IF n = 0 THEN 0 ELSE (n - 1) \div d + 1 IN
         /\ c \in Nat /\ n <= c * d
         /\ \A m \in Nat : n <= m * d => c <= m
<1> DEFINE c == IF n = 0 THEN 0 ELSE (n - 1) \div d + 1
<1>1. CASE n = 0
  <2>1. c = 0
    BY <1>1
  <2>2. 0 * d = 0
    OBVIOUS
  <2> HIDE DEF c
  <2> QED BY <1>1, <2>1, <2>2 DEF c
<1>2. CASE n # 0
  <2> DEFINE q == (n - 1) \div d
  <2>1. c = q + 1
    BY <1>2
  <2>2. n - 1 \in Nat /\ n - 1 \in Int
    BY <1>2
  <2>3. q \in Nat /\ n - 1 < d * q + d
    <3>1. q \in Nat
      BY <2>2, DivNat
    <3>2. n - 1 = d * q + ((n - 1) % d) /\ (n - 1) % d < d /\ (n - 1) % d \in Int
      BY <2>2, DivMod
    <3>3. d * q \in Int
      BY <3>1
    <3> QED BY <3>1, <3>2, <3>3
  <2>4. \A m \in Nat : n <= m * d => q < m
    <3> SUFFICES ASSUME NEW m \in Nat, n <= m * d PROVE q < m
      OBVIOUS
    <3>1. n - 1 < d * m
      <4>1. m * d = d * m /\ d * m \in Int
        OBVIOUS
      <4> QED BY <4>1
    <3> QED BY <2>2, <3>1, DivLess
  <2> HIDE DEF q, c
  <2>5. n <= c * d
    <3>1. (q + 1) * d = d * q + d /\ d * q \in Int
      BY <2>3
    <3> QED BY <2>1, <2>3, <3>1
  <2>6. \A m \in Nat : n <= m * d => c <= m
    BY <2>1, <2>3, <2>4
  <2> QED BY <2>1, <2>3, <2>5, <2>6 DEF c
<1> QED BY <1>1, <1>2

\* s of t parts of x, rounded down: within x, in proportion or less, and all
\* of it only for all parts.
LEMMA ShareOfReserve ==
  ASSUME NEW x \in Nat, NEW t \in Nat, NEW s \in Nat, t > 0, s <= t
  PROVE  LET w == IF s = t THEN x ELSE (s * x) \div t IN
         /\ w \in Nat /\ w <= x /\ w * t <= s * x
         /\ (s = t => w = x)
         /\ (s < t /\ x > 0 => w < x)
<1> DEFINE w == IF s = t THEN x ELSE (s * x) \div t
<1>1. CASE s = t
  <2>1. w = x
    BY <1>1
  <2>2. x * t = s * x /\ x * t \in Int
    BY <1>1
  <2> HIDE DEF w
  <2>3. w * t <= s * x
    BY <2>1, <2>2
  <2> QED BY <1>1, <2>1, <2>3 DEF w
<1>2. CASE s < t
  <2>1. w = (s * x) \div t
    BY <1>2
  <2>2. s * x \in Nat /\ t * x \in Nat /\ s * x <= t * x
    BY <1>2, TimesMono
  <2>3. w \in Nat /\ t * w <= s * x /\ w <= x
    BY <2>1, <2>2, DivNat, DivMod, DivLeq
  <2>4. ASSUME x > 0 PROVE w < x
    <3>1. s * x < t * x
      BY <1>2, <2>4
    <3> QED BY <2>1, <2>2, <3>1, DivLess
  <2> HIDE DEF w
  <2>5. w * t = t * w
    BY <2>3
  <2> QED BY <1>2, <2>3, <2>4, <2>5 DEF w
<1> QED BY <1>1, <1>2
=============================================================================
