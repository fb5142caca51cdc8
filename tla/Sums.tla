-------------------------------- MODULE Sums --------------------------------
(***************************************************************************)
(* Lemmas about sums over finite sets, for the ledgers of money and stock. *)
(* SumFunction and MapThenSumSet of the community modules fold a recursive *)
(* function over the subsets of a set; here its equation is shown to have  *)
(* a solution, whose values do not depend on the order in which elements   *)
(* are taken.  The inductions are over the sizes of sets, by the least     *)
(* element of a set of naturals.                                           *)
(***************************************************************************)
EXTENDS Integers, Functions, FiniteSetTheorems, WellFoundedInduction, TLAPS


Pick(s) == CHOOSE x \in s : TRUE

\* The equation of the fold under SumFunction, on the subsets in D.
IsFold(f, D, it) ==
    it = [s \in D |-> IF s = {} THEN 0 ELSE f[Pick(s)] + it[s \ {Pick(s)}]]

Integral(f, S) == \A x \in S : f[x] \in Int

\* What such a fold is: a sum, whatever the order in which elements are taken.
IsSum(f, S, it) ==
    /\ it[{}] = 0
    /\ \A s \in SUBSET S : it[s] \in Int
    /\ \A s \in SUBSET S : \A x \in s : it[s] = f[x] + it[s \ {x}]

\* acc is the running sum of f's values on S, up to n.
RunningSum(f, S, n, acc) ==
    /\ acc \in [0 .. n -> Int]
    /\ acc[0] = 0
    /\ \A m \in 1 .. n : acc[m] = acc[m - 1] + (IF m \in S THEN f[m] ELSE 0)

\* A set of naturals that is not empty has a least element.
LEMMA LeastNatural ==
    ASSUME NEW T, T \subseteq Nat, T # {}
    PROVE  \E x \in T : \A y \in T : x <= y
<1> DEFINE R == OpToRel(<, Nat)
<1>1. \E x \in T : \A y \in T : <<y, x>> \notin R
  BY NatLessThanWellFounded, WFMin, Zenon
<1>2. \A x, y \in Nat : <<y, x>> \notin R => x <= y
  BY DEF OpToRel
<1> QED  BY <1>1, <1>2

\* A set that contains 0 and with each number of 0 .. n the next contains them
\* all: induction without a predicate as a parameter.
LEMMA Inductive ==
    ASSUME NEW n \in Nat, NEW G, 0 \in G,
           \A m \in 1 .. n : m - 1 \in G => m \in G
    PROVE  0 .. n \subseteq G
<1> DEFINE B == (0 .. n) \ G
<1> SUFFICES ASSUME B # {}  PROVE FALSE
  OBVIOUS
<1>1. PICK b \in B : \A y \in B : b <= y
  <2>1. B \subseteq Nat
    OBVIOUS
  <2> HIDE DEF B
  <2> QED  BY <2>1, LeastNatural
<1>2. b \in 1 .. n /\ b - 1 \in 0 .. n /\ b - 1 \notin B
  BY <1>1
<1> QED  BY <1>2

\* The element that a fold takes from a set leaves a smaller set.
LEMMA PickShrinks ==
    ASSUME NEW S, IsFiniteSet(S), NEW s \in SUBSET S, s # {}
    PROVE  /\ Pick(s) \in s
           /\ s \ {Pick(s)} \in SUBSET S
           /\ Cardinality(s) \in 1 .. Cardinality(S)
           /\ Cardinality(s \ {Pick(s)}) = Cardinality(s) - 1
<1>1. Pick(s) \in s
  BY DEF Pick
<1>2. IsFiniteSet(s) /\ Cardinality(s) <= Cardinality(S)
  BY FS_Subset
<1>3. Cardinality(s) \in Nat /\ Cardinality(S) \in Nat /\ Cardinality(s) # 0
  BY <1>2, FS_CardinalityType, FS_EmptySet
<1>4. Cardinality(s \ {Pick(s)}) = Cardinality(s) - 1
  BY <1>1, <1>2, FS_RemoveElement
<1> QED  BY <1>1, <1>2, <1>3, <1>4

\* The cardinalities of the subsets.
LEMMA SubsetCardinality ==
    ASSUME NEW S, IsFiniteSet(S), NEW s \in SUBSET S
    PROVE  /\ Cardinality(S) \in Nat
           /\ Cardinality(s) \in 0 .. Cardinality(S)
           /\ Cardinality(s) = 0 <=> s = {}
<1>1. IsFiniteSet(s) /\ Cardinality(s) <= Cardinality(S)
  BY FS_Subset
<1>2. Cardinality(s) \in Nat /\ Cardinality(S) \in Nat
  BY <1>1, FS_CardinalityType
<1>3. Cardinality(s) = 0 <=> s = {}
  BY <1>1, FS_EmptySet
<1> QED  BY <1>1, <1>2, <1>3

\* The equation has a solution.
LEMMA FoldExists ==
    ASSUME NEW S, IsFiniteSet(S), NEW f
    PROVE  \E it : IsFold(f, SUBSET S, it)
<1> DEFINE n == Cardinality(S)
           Small(m) == {s \in SUBSET S : Cardinality(s) <= m}
           G == {m \in 0 .. n : \E it : IsFold(f, Small(m), it)}
<1>1. n \in Nat
  BY FS_CardinalityType
<1>2. 0 \in G
  <2>1. \A s \in Small(0) : s = {}
    <3> SUFFICES ASSUME NEW s \in Small(0)  PROVE s = {}
      OBVIOUS
    <3> QED  BY SubsetCardinality
  <2> DEFINE it == [s \in Small(0) |-> 0]
  <2>2. IsFold(f, Small(0), it)
    BY <2>1 DEF IsFold
  <2>3. \E jt : IsFold(f, Small(0), jt)
    BY <2>2
  <2>4. 0 \in 0 .. n
    BY <1>1
  <2> QED  BY <2>3, <2>4
<1>3. \A m \in 1 .. n : m - 1 \in G => m \in G
  <2> SUFFICES ASSUME NEW m \in 1 .. n, m - 1 \in G  PROVE m \in G
    OBVIOUS
  <2>1. PICK old : IsFold(f, Small(m - 1), old)
    OBVIOUS
  <2> DEFINE val(s) == IF s = {} THEN 0 ELSE f[Pick(s)] + old[s \ {Pick(s)}]
             new == [s \in Small(m) |-> val(s)]
  <2>2. \A s \in Small(m - 1) : s \in Small(m) /\ old[s] = val(s)
    <3> SUFFICES ASSUME NEW s \in Small(m - 1)  PROVE s \in Small(m) /\ old[s] = val(s)
      OBVIOUS
    <3>1. old[s] = val(s)
      BY <2>1 DEF IsFold
    <3>2. IsFiniteSet(s)
      BY FS_Subset
    <3>3. Cardinality(s) \in Nat
      BY <3>2, FS_CardinalityType
    <3>4. Cardinality(s) <= m
      BY <3>3, <1>1
    <3> QED  BY <3>1, <3>4
  <2>3. \A s \in Small(m) : s # {} => s \ {Pick(s)} \in Small(m - 1)
    BY PickShrinks, <1>1
  <2>4. \A s \in Small(m) : s # {} => new[s \ {Pick(s)}] = old[s \ {Pick(s)}]
    BY <2>2, <2>3
  <2> HIDE DEF Small
  <2>5. \A s \in Small(m) : val(s) = IF s = {} THEN 0 ELSE f[Pick(s)] + new[s \ {Pick(s)}]
    BY <2>4
  <2>6. new = [s \in Small(m) |-> IF s = {} THEN 0 ELSE f[Pick(s)] + new[s \ {Pick(s)}]]
    BY <2>5
  <2>7. IsFold(f, Small(m), new)
    BY <2>6 DEF IsFold
  <2> QED  BY <1>1, <2>7
<1>4. n \in G
  <2> HIDE DEF G
  <2> QED  BY <1>1, <1>2, <1>3, Inductive
<1>5. Small(n) = SUBSET S
  BY FS_Subset
<1> QED  BY <1>4, <1>5

\* Two solutions agree when they fold the same values.
LEMMA FoldUnique ==
    ASSUME NEW S, IsFiniteSet(S), NEW f, NEW g, \A x \in S : f[x] = g[x],
           NEW it, NEW jt, IsFold(f, SUBSET S, it), IsFold(g, SUBSET S, jt)
    PROVE  \A s \in SUBSET S : it[s] = jt[s]
<1> DEFINE n == Cardinality(S)
           G == {m \in 0 .. n : \A s \in SUBSET S : Cardinality(s) = m => it[s] = jt[s]}
<1>1. n \in Nat
  BY FS_CardinalityType
<1>2. \A s \in SUBSET S :
        /\ it[s] = IF s = {} THEN 0 ELSE f[Pick(s)] + it[s \ {Pick(s)}]
        /\ jt[s] = IF s = {} THEN 0 ELSE g[Pick(s)] + jt[s \ {Pick(s)}]
  BY DEF IsFold
<1>3. 0 \in G
  <2>1. \A s \in SUBSET S : Cardinality(s) = 0 => s = {}
    BY SubsetCardinality
  <2>2. 0 \in 0 .. n
    BY <1>1
  <2> QED  BY <1>2, <2>1, <2>2
<1>4. \A m \in 1 .. n : m - 1 \in G => m \in G
  <2> SUFFICES ASSUME NEW m \in 1 .. n, m - 1 \in G,
                      NEW s \in SUBSET S, Cardinality(s) = m
               PROVE  it[s] = jt[s]
    OBVIOUS
  <2>1. s # {}
    BY SubsetCardinality
  <2>2. Pick(s) \in S /\ it[s \ {Pick(s)}] = jt[s \ {Pick(s)}]
    BY <2>1, PickShrinks
  <2> QED  BY <1>2, <2>1, <2>2
<1>5. 0 .. n \subseteq G
  <2> HIDE DEF G
  <2> QED  BY <1>1, <1>3, <1>4, Inductive
<1>6. \A s \in SUBSET S : Cardinality(s) \in 0 .. n
  BY FS_Subset, FS_CardinalityType
<1> QED  BY <1>5, <1>6

\* A solution's values are integers.
LEMMA FoldTyped ==
    ASSUME NEW S, IsFiniteSet(S), NEW f, Integral(f, S),
           NEW it, IsFold(f, SUBSET S, it)
    PROVE  \A s \in SUBSET S : it[s] \in Int
<1> DEFINE n == Cardinality(S)
           G == {m \in 0 .. n : \A s \in SUBSET S : Cardinality(s) = m => it[s] \in Int}
<1>1. n \in Nat
  BY FS_CardinalityType
<1>2. \A s \in SUBSET S :
        it[s] = IF s = {} THEN 0 ELSE f[Pick(s)] + it[s \ {Pick(s)}]
  BY DEF IsFold
<1>3. 0 \in G
  <2>1. \A s \in SUBSET S : Cardinality(s) = 0 => s = {}
    BY SubsetCardinality
  <2>2. 0 \in 0 .. n
    BY <1>1
  <2>3. it[{}] = 0
    BY <1>2
  <2>4. ASSUME NEW s \in SUBSET S, Cardinality(s) = 0  PROVE it[s] \in Int
    <3>1. s = {}
      BY <2>1, <2>4
    <3> QED  BY <3>1, <2>3
  <2> QED  BY <2>2, <2>4
<1>4. \A m \in 1 .. n : m - 1 \in G => m \in G
  <2> SUFFICES ASSUME NEW m \in 1 .. n, m - 1 \in G,
                      NEW s \in SUBSET S, Cardinality(s) = m
               PROVE  it[s] \in Int
    OBVIOUS
  <2>1. s # {}
    BY SubsetCardinality
  <2>2. f[Pick(s)] \in Int /\ it[s \ {Pick(s)}] \in Int
    BY <2>1, PickShrinks DEF Integral
  <2>3. it[s] = f[Pick(s)] + it[s \ {Pick(s)}]
    BY <1>2, <2>1
  <2> QED  BY <2>2, <2>3
<1>5. 0 .. n \subseteq G
  <2> HIDE DEF G
  <2> QED  BY <1>1, <1>3, <1>4, Inductive
<1> QED  BY <1>5, SubsetCardinality

\* What a solution says of a set does not depend on the element taken first.
LEMMA FoldRemoves ==
    ASSUME NEW S, IsFiniteSet(S), NEW f, Integral(f, S),
           NEW it, IsFold(f, SUBSET S, it)
    PROVE  IsSum(f, S, it)
<1> DEFINE n == Cardinality(S)
           Good(s) == \A x \in s : it[s] = f[x] + it[s \ {x}]
           G == {m \in 0 .. n : \A s \in SUBSET S : Cardinality(s) = m => Good(s)}
<1>1. n \in Nat
  BY FS_CardinalityType
<1>0. \A s \in SUBSET S : it[s] \in Int
  BY FoldTyped
<1>2. \A s \in SUBSET S :
        it[s] = IF s = {} THEN 0 ELSE f[Pick(s)] + it[s \ {Pick(s)}]
  BY DEF IsFold
<1>3. 0 \in G
  <2>1. \A s \in SUBSET S : Cardinality(s) = 0 => s = {}
    BY SubsetCardinality
  <2>2. 0 \in 0 .. n
    BY <1>1
  <2> QED  BY <1>2, <2>1, <2>2
<1>4. \A m \in 1 .. n : m - 1 \in G => m \in G
  <2> SUFFICES ASSUME NEW m \in 1 .. n, m - 1 \in G,
                      NEW s \in SUBSET S, Cardinality(s) = m
               PROVE  Good(s)
    <3>1. \A m \in 1 .. n : m \in 0 .. n
      BY <1>1
    <3> HIDE DEF Good
    <3> QED  BY <3>1, Zenon
  <2> DEFINE y == Pick(s)
  <2>1. s # {}
    BY SubsetCardinality
  <2>2. y \in s /\ s \ {y} \in SUBSET S /\ Cardinality(s \ {y}) = m - 1
    BY <2>1, PickShrinks
  <2>3. Good(s \ {y})
    BY <2>2
  <2>4. it[s] = f[y] + it[s \ {y}]
    BY <1>2, <2>1
  <2>5. f[y] \in Int
    BY <2>2 DEF Integral
  <2>6. ASSUME NEW x \in s  PROVE it[s] = f[x] + it[s \ {x}]
    <3>1. CASE x = y
      BY <3>1, <2>4
    <3>2. CASE x # y
      <4> DEFINE rest == s \ {x}
      <4>1. IsFiniteSet(s)
        BY FS_Subset
      <4>2. rest \in SUBSET S /\ Cardinality(rest) = m - 1
        BY <4>1, FS_RemoveElement
      <4>3. Good(rest)
        BY <4>2
      <4>4. it[rest] = f[y] + it[rest \ {y}]
        BY <4>3, <3>2, <2>2
      <4>5. it[s \ {y}] = f[x] + it[(s \ {y}) \ {x}]
        BY <2>3, <3>2
      <4>6. (s \ {y}) \ {x} = rest \ {y}
        OBVIOUS
      <4>7. f[x] \in Int /\ it[rest] \in Int /\ it[s \ {y}] \in Int
        BY <1>0, <4>2, <2>2 DEF Integral
      <4>8. it[(s \ {y}) \ {x}] = it[rest \ {y}]
        BY <4>6
      <4> SUFFICES it[s] = f[x] + it[rest]
        OBVIOUS
      <4> HIDE DEF y, rest
      <4>9. it[rest \ {y}] \in Int
        <5>1. rest \ {y} \in SUBSET S
          BY <4>2
        <5> QED  BY <5>1, <1>0
      <4> QED  BY <2>4, <2>5, <4>4, <4>5, <4>7, <4>8, <4>9
    <3> QED  BY <3>1, <3>2
  <2> QED  BY <2>6
<1>5. 0 .. n \subseteq G
  <2> HIDE DEF G
  <2> QED  BY <1>1, <1>3, <1>4, Inductive
<1>6. \A s \in SUBSET S : Cardinality(s) \in 0 .. n
  BY SubsetCardinality
<1>7. \A s \in SUBSET S : Good(s)
  BY <1>5, <1>6
<1> QED  BY <1>0, <1>2, <1>7 DEF IsSum

\* A set of numbers up to n is finite.
LEMMA NumbersFinite ==
    ASSUME NEW n \in Nat, NEW S \in SUBSET (1 .. n)
    PROVE  IsFiniteSet(S)
<1>1. 1 \in Int /\ n \in Int
  OBVIOUS
<1>2. IsFiniteSet(1 .. n)
  BY <1>1, FS_Interval
<1> QED  BY <1>2, FS_Subset

\* The sum over a set of numbers is a running sum over the numbers up to n.
LEMMA Accumulates ==
    ASSUME NEW n \in Nat, NEW S \in SUBSET (1 .. n), NEW f, Integral(f, S),
           NEW it, IsFold(f, SUBSET S, it)
    PROVE  \E acc : RunningSum(f, S, n, acc) /\ acc[n] = it[S]
<1> DEFINE upTo(m) == {x \in S : x <= m}
           acc == [m \in 0 .. n |-> it[upTo(m)]]
<1>1. IsFiniteSet(S)
  BY NumbersFinite
<1>2. IsSum(f, S, it)
  BY <1>1, FoldRemoves
<1>3. acc \in [0 .. n -> Int]
  BY <1>2 DEF IsSum
<1>4. \A x \in S : x \in Int /\ 1 <= x /\ x <= n
  OBVIOUS
<1>5. upTo(0) = {} /\ upTo(n) = S
  <2>1. \A x \in S : ~(x <= 0) /\ x <= n
    BY <1>4
  <2> QED  BY <2>1, Zenon
<1>6. ASSUME NEW m \in 1 .. n
      PROVE  acc[m] = acc[m - 1] + (IF m \in S THEN f[m] ELSE 0)
  <2>1. acc[m] = it[upTo(m)] /\ acc[m - 1] = it[upTo(m - 1)]
    <3>1. m \in 0 .. n /\ m - 1 \in 0 .. n
      OBVIOUS
    <3> HIDE DEF upTo
    <3> QED  BY <3>1
  <2>2. \A x : x \in upTo(m) <=> x \in upTo(m - 1) \/ (x = m /\ m \in S)
    <3>1. \A x \in S : x <= m <=> x <= m - 1 \/ x = m
      BY <1>4
    <3>2. m <= m
      OBVIOUS
    <3> QED  BY <3>1, <3>2, Zenon
  <2>3. upTo(m) \in SUBSET S /\ upTo(m - 1) \in SUBSET S /\ m \notin upTo(m - 1)
    OBVIOUS
  <2>4. it[upTo(m - 1)] \in Int
    BY <1>2, <2>3 DEF IsSum
  <2> HIDE DEF upTo, acc
  <2>5. CASE m \in S
    <3>1. m \in upTo(m) /\ upTo(m) \ {m} = upTo(m - 1)
      BY <2>2, <2>3, <2>5
    <3>2. it[upTo(m)] = f[m] + it[upTo(m) \ {m}]
      BY <3>1, <2>3, <1>2 DEF IsSum
    <3>3. f[m] \in Int
      BY <2>5 DEF Integral
    <3>4. it[upTo(m)] = f[m] + it[upTo(m - 1)]
      BY <3>1, <3>2
    <3>5. \A x, y \in Int : x + y = y + x
      OBVIOUS
    <3> QED  BY <2>1, <2>4, <2>5, <3>3, <3>4, <3>5, Zenon
  <2>6. CASE m \notin S
    <3>1. upTo(m) = upTo(m - 1)
      BY <2>2, <2>6
    <3> QED  BY <2>1, <2>4, <2>6, <3>1
  <2> QED  BY <2>5, <2>6
<1>7. acc[0] = 0 /\ acc[n] = it[S]
  <2>1. 0 \in 0 .. n /\ n \in 0 .. n
    OBVIOUS
  <2>2. acc[0] = it[upTo(0)] /\ acc[n] = it[upTo(n)]
    <3> HIDE DEF upTo
    <3> QED  BY <2>1
  <2>3. it[{}] = 0
    BY <1>2 DEF IsSum
  <2> QED  BY <1>5, <2>2, <2>3, Zenon
<1>8. RunningSum(f, S, n, acc)
  <2> HIDE DEF acc
  <2> QED  BY <1>3, <1>6, <1>7 DEF RunningSum
<1> QED  BY <1>7, <1>8

\* A sum over a function is such a fold over its domain.
LEMMA SumFolds ==
    ASSUME NEW S, IsFiniteSet(S), NEW f \in [S -> Int]
    PROVE  \E it : IsFold(f, SUBSET S, it) /\ SumFunction(f) = it[S]
<1> DEFINE it == CHOOSE jt : IsFold(f, SUBSET S, jt)
<1>1. IsFold(f, SUBSET S, it)
  BY FoldExists
<1>2. SumFunctionOnSet(f, S) = it[S]
  BY DEF IsFold, Pick, SumFunctionOnSet, FoldFunctionOnSet, MapThenFoldSet
<1>3. SumFunction(f) = SumFunctionOnSet(f, S)
  <2>1. DOMAIN f = S
    OBVIOUS
  <2> QED  BY <2>1 DEF SumFunction
<1> HIDE DEF it
<1> QED  BY <1>1, <1>2, <1>3

\* One more entry adds its value to the sum.
LEMMA SumGrows ==
    ASSUME NEW S, IsFiniteSet(S), NEW x, x \notin S,
           NEW f \in [S -> Int], NEW g \in [S \cup {x} -> Int],
           \A y \in S : g[y] = f[y]
    PROVE  SumFunction(g) = SumFunction(f) + g[x]
<1> DEFINE T == S \cup {x}
<1>1. IsFiniteSet(T)
  BY FS_AddElement
<1>2. PICK it : IsFold(f, SUBSET S, it) /\ SumFunction(f) = it[S]
  BY SumFolds
<1>3. PICK jt : IsFold(g, SUBSET T, jt) /\ SumFunction(g) = jt[T]
  BY <1>1, SumFolds
<1>4. Integral(g, T)
  BY DEF Integral
<1>5. IsSum(g, T, jt)
  BY <1>1, <1>3, <1>4, FoldRemoves
<1>6. jt[T] = g[x] + jt[S]
  <2>1. x \in T /\ T \in SUBSET T /\ T \ {x} = S
    OBVIOUS
  <2>2. jt[T] = g[x] + jt[T \ {x}]
    BY <1>5, <2>1 DEF IsSum
  <2> QED  BY <2>1, <2>2
<1>7. it[S] = jt[S]
  <2> DEFINE rt == [s \in SUBSET S |-> jt[s]]
  <2>1. \A s \in SUBSET S : jt[s] = IF s = {} THEN 0 ELSE g[Pick(s)] + jt[s \ {Pick(s)}]
    BY <1>3 DEF IsFold
  <2>2. \A s \in SUBSET S : s # {} => jt[s \ {Pick(s)}] = rt[s \ {Pick(s)}]
    OBVIOUS
  <2>3. \A s \in SUBSET S : jt[s] = IF s = {} THEN 0 ELSE g[Pick(s)] + rt[s \ {Pick(s)}]
    BY <2>1, <2>2
  <2>4. rt = [s \in SUBSET S |-> IF s = {} THEN 0 ELSE g[Pick(s)] + rt[s \ {Pick(s)}]]
    BY <2>3
  <2>5. IsFold(g, SUBSET S, rt) /\ rt[S] = jt[S]
    BY <2>4 DEF IsFold
  <2> HIDE DEF rt
  <2>6. it[S] = rt[S]
    BY <1>2, <2>5, FoldUnique
  <2> QED  BY <2>5, <2>6
<1>8. jt[S] \in Int /\ g[x] \in Int
  <2>1. S \in SUBSET T
    OBVIOUS
  <2> QED  BY <1>4, <1>5, <2>1 DEF IsSum, Integral
<1>9. jt[T] = jt[S] + g[x]
  BY <1>6, <1>8
<1> QED  BY <1>2, <1>3, <1>7, <1>9

\* The sum of a function's values is a running sum.
LEMMA SumAccumulates ==
    ASSUME NEW n \in Nat, NEW S \in SUBSET (1 .. n), NEW f \in [S -> Int]
    PROVE  \E acc : RunningSum(f, S, n, acc) /\ acc[n] = SumFunction(f)
<1>1. IsFiniteSet(S)
  BY NumbersFinite
<1>2. PICK it : IsFold(f, SUBSET S, it) /\ SumFunction(f) = it[S]
  BY <1>1, SumFolds
<1>3. Integral(f, S)
  BY DEF Integral
<1>4. PICK acc : RunningSum(f, S, n, acc) /\ acc[n] = it[S]
  BY <1>2, <1>3, Accumulates
<1> QED  BY <1>2, <1>4

\* Running sums whose increments differ by those of d differ by what d gains.
LEMMA RunningDifference ==
    ASSUME NEW n \in Nat, NEW F \in [0 .. n -> Int], NEW G \in [0 .. n -> Int],
           NEW d \in [0 .. n -> Int], F[0] = G[0],
           \A m \in 1 .. n : (G[m] - G[m - 1]) - (F[m] - F[m - 1]) = d[m] - d[m - 1]
    PROVE  G[n] - F[n] = d[n] - d[0]
<1> DEFINE Holds == {m \in 0 .. n : G[m] - F[m] = d[m] - d[0]}
<1>1. 0 \in Holds
  OBVIOUS
<1>2. \A m \in 1 .. n : m - 1 \in Holds => m \in Holds
  <2> SUFFICES ASSUME NEW m \in 1 .. n, m - 1 \in Holds  PROVE m \in Holds
    OBVIOUS
  <2>1. m \in 0 .. n /\ m - 1 \in 0 .. n
    OBVIOUS
  <2>2. /\ F[m] \in Int /\ F[m - 1] \in Int /\ G[m] \in Int /\ G[m - 1] \in Int
        /\ d[m] \in Int /\ d[m - 1] \in Int /\ d[0] \in Int
    BY <2>1
  <2>3. G[m - 1] - F[m - 1] = d[m - 1] - d[0]
    OBVIOUS
  <2>4. (G[m] - G[m - 1]) - (F[m] - F[m - 1]) = d[m] - d[m - 1]
    OBVIOUS
  <2>5. G[m] - F[m] = d[m] - d[0]
    <3> DEFINE fm == F[m]
               fl == F[m - 1]
               gm == G[m]
               gl == G[m - 1]
               dm == d[m]
               dl == d[m - 1]
               dz == d[0]
    <3>1. /\ fm \in Int /\ fl \in Int /\ gm \in Int /\ gl \in Int
          /\ dm \in Int /\ dl \in Int /\ dz \in Int
      BY <2>2
    <3>2. gl - fl = dl - dz /\ (gm - gl) - (fm - fl) = dm - dl
      BY <2>3, <2>4
    <3> SUFFICES gm - fm = dm - dz
      OBVIOUS
    <3> HIDE DEF fm, fl, gm, gl, dm, dl, dz
    <3> QED  BY <3>1, <3>2
  <2> QED  BY <2>1, <2>5
<1>3. n \in Holds
  <2>1. n \in 0 .. n
    OBVIOUS
  <2> HIDE DEF Holds
  <2> QED  BY <1>1, <1>2, <2>1, Inductive
<1> QED  BY <1>3

\* From f to g the values change by the increments of d, as those of k from h,
\* or at c only.
MoveBy(f, g, d, n) == \A m \in 1 .. n : g[m] - f[m] = d[m] - d[m - 1]
MoveAlike(f, g, h, k, n) ==
    /\ f \in [1 .. n -> Int] /\ g \in [1 .. n -> Int]
    /\ h \in [1 .. n -> Int] /\ k \in [1 .. n -> Int]
    /\ \A m \in 1 .. n : g[m] - f[m] = k[m] - h[m]
MoveAt(f, g, c, n) == \A m \in 1 .. n : m # c => g[m] = f[m]

\* Values that change by the increments of d change the sum by what d gains.
LEMMA SumMoves ==
    ASSUME NEW n \in Nat, NEW f \in [1 .. n -> Int], NEW g \in [1 .. n -> Int],
           NEW d \in [0 .. n -> Int], MoveBy(f, g, d, n)
    PROVE  /\ SumFunction(f) \in Int /\ SumFunction(g) \in Int
           /\ SumFunction(g) - SumFunction(f) = d[n] - d[0]
<1>1. PICK F : RunningSum(f, 1 .. n, n, F) /\ F[n] = SumFunction(f)
  BY SumAccumulates
<1>2. PICK G : RunningSum(g, 1 .. n, n, G) /\ G[n] = SumFunction(g)
  BY SumAccumulates
<1>3. /\ F \in [0 .. n -> Int] /\ F[0] = 0 /\ G \in [0 .. n -> Int] /\ G[0] = 0
      /\ \A m \in 1 .. n : F[m] = F[m - 1] + f[m] /\ G[m] = G[m - 1] + g[m]
  BY <1>1, <1>2 DEF RunningSum
<1>4. ASSUME NEW m \in 1 .. n
      PROVE  (G[m] - G[m - 1]) - (F[m] - F[m - 1]) = d[m] - d[m - 1]
  <2>1. m - 1 \in 0 .. n /\ F[m - 1] \in Int /\ G[m - 1] \in Int
    BY <1>3
  <2>2. F[m] = F[m - 1] + f[m] /\ G[m] = G[m - 1] + g[m] /\ f[m] \in Int /\ g[m] \in Int
    BY <1>3
  <2>3. \A a, b : a \in Int /\ b \in Int => (a + b) - a = b
    OBVIOUS
  <2>4. (F[m - 1] + f[m]) - F[m - 1] = f[m]
    BY <2>1, <2>2, <2>3, Zenon
  <2>5. (G[m - 1] + g[m]) - G[m - 1] = g[m]
    BY <2>1, <2>2, <2>3, Zenon
  <2> QED  BY <2>2, <2>4, <2>5 DEF MoveBy
<1>5. G[n] - F[n] = d[n] - d[0]
  <2>1. F[0] = G[0]
    BY <1>3
  <2>2. \A m \in 1 .. n : (G[m] - G[m - 1]) - (F[m] - F[m - 1]) = d[m] - d[m - 1]
    BY <1>4
  <2> QED  BY <1>3, <2>1, <2>2, RunningDifference, Zenon
<1>6. F[n] \in Int /\ G[n] \in Int
  BY <1>3
<1> QED  BY <1>1, <1>2, <1>5, <1>6

\* The sum of integers is one.
LEMMA SumTyped ==
    ASSUME NEW n \in Nat, NEW f \in [1 .. n -> Int]
    PROVE  SumFunction(f) \in Int
<1> DEFINE d == [m \in 0 .. n |-> 0]
<1>1. d \in [0 .. n -> Int] /\ MoveBy(f, f, d, n)
  BY DEF MoveBy
<1> HIDE DEF d
<1> QED  BY <1>1, SumMoves

\* Two sums whose values change alike change alike.
LEMMA SumsMoveAlike ==
    ASSUME NEW n \in Nat, NEW f, NEW g, NEW h, NEW k, MoveAlike(f, g, h, k, n)
    PROVE  SumFunction(g) - SumFunction(f) = SumFunction(k) - SumFunction(h)
<1> DEFINE e == [m \in 1 .. n |-> g[m] - f[m]]
<1>0. /\ f \in [1 .. n -> Int] /\ g \in [1 .. n -> Int]
      /\ h \in [1 .. n -> Int] /\ k \in [1 .. n -> Int]
  BY DEF MoveAlike
<1>1. e \in [1 .. n -> Int]
  BY <1>0
<1>2. PICK d : RunningSum(e, 1 .. n, n, d)
  <2> HIDE DEF e
  <2> QED  BY <1>1, SumAccumulates
<1>3. d \in [0 .. n -> Int] /\ \A m \in 1 .. n : d[m] = d[m - 1] + e[m]
  BY <1>2 DEF RunningSum
<1>4. \A m \in 1 .. n : e[m] = d[m] - d[m - 1]
  <2> SUFFICES ASSUME NEW m \in 1 .. n  PROVE e[m] = d[m] - d[m - 1]
    OBVIOUS
  <2>1. m - 1 \in 0 .. n /\ d[m - 1] \in Int /\ e[m] \in Int
    BY <1>1, <1>3
  <2> HIDE DEF e
  <2> QED  BY <1>3, <2>1
<1>5. MoveBy(f, g, d, n) /\ MoveBy(h, k, d, n)
  BY <1>4 DEF MoveBy, MoveAlike
<1>6. SumFunction(g) - SumFunction(f) = d[n] - d[0]
  BY <1>0, <1>3, <1>5, SumMoves
<1>7. SumFunction(k) - SumFunction(h) = d[n] - d[0]
  BY <1>0, <1>3, <1>5, SumMoves
<1> QED  BY <1>6, <1>7

\* One value that changes changes the sum by as much.
LEMMA SumUpdates ==
    ASSUME NEW n \in Nat, NEW f \in [1 .. n -> Int], NEW g \in [1 .. n -> Int],
           NEW c \in 1 .. n, MoveAt(f, g, c, n)
    PROVE  SumFunction(g) - SumFunction(f) = g[c] - f[c]
<1> DEFINE d == [m \in 0 .. n |-> IF m < c THEN 0 ELSE g[c] - f[c]]
<1>1. d \in [0 .. n -> Int] /\ d[n] - d[0] = g[c] - f[c]
  OBVIOUS
<1>2. ASSUME NEW m \in 1 .. n  PROVE g[m] - f[m] = d[m] - d[m - 1]
  <2>1. /\ d[m] = IF m < c THEN 0 ELSE g[c] - f[c]
        /\ d[m - 1] = IF m - 1 < c THEN 0 ELSE g[c] - f[c]
    OBVIOUS
  <2>2. g[m] \in Int /\ f[m] \in Int /\ g[c] \in Int /\ f[c] \in Int
    OBVIOUS
  <2>3. m # c => g[m] - f[m] = 0
    BY <2>2 DEF MoveAt
  <2> HIDE DEF d
  <2>4. CASE m = c
    BY <2>1, <2>2, <2>4
  <2>5. CASE m < c
    BY <2>1, <2>2, <2>3, <2>5
  <2>6. CASE m > c
    BY <2>1, <2>2, <2>3, <2>6
  <2> QED  BY <2>4, <2>5, <2>6
<1>3. MoveBy(f, g, d, n)
  BY <1>2 DEF MoveBy
<1> HIDE DEF d
<1> QED  BY <1>1, <1>3, SumMoves
=============================================================================
