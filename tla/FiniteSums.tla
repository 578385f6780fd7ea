----------------------------- MODULE FiniteSums -----------------------------
(***************************************************************************)
(* Sums over finite sets, as the audit equations of the ledger use them,   *)
(* and what can be said of them for every finite set: a sum does not       *)
(* depend on the order of the summands, and an element can be taken out,   *)
(* put in or revalued.  The sum is the community modules' recursive one;   *)
(* that the recursion is well founded, and every fact after it, is proved  *)
(* by induction on the natural numbers in the form "a set of naturals that *)
(* has zero and is closed under successor is Nat", which rests on the well *)
(* foundedness of < alone.                                                 *)
(***************************************************************************)
EXTENDS Integers, FiniteSets, FiniteSetsExt, FiniteSetTheorems, WellFoundedInduction, TLAPS

\* The sum of the values v[x] for x in S.
SumOver(v, S) == MapThenSumSet(LAMBDA x : v[x], S)

-----------------------------------------------------------------------------
(* Induction.                                                              *)

\* < on the naturals is a well-founded relation.
LEMMA LessThanRelation ==
  \E R : IsWellFoundedOn(R, Nat) /\ \A x, y \in Nat : x < y => <<x, y>> \in R
<1>1. IsWellFoundedOn(OpToRel(<, Nat), Nat)
  BY NatLessThanWellFounded
<1>2. \A x, y \in Nat : x < y => <<x, y>> \in OpToRel(<, Nat)
  BY DEF OpToRel
<1>. QED BY <1>1, <1>2, Zenon

\* Every nonempty set of naturals has a least element.
LEMMA LeastNat ==
  ASSUME NEW T, T \subseteq Nat, T # {}
  PROVE  \E n \in T : \A m \in T : n <= m
<1>1. PICK R : IsWellFoundedOn(R, Nat) /\ \A x, y \in Nat : x < y => <<x, y>> \in R
  BY LessThanRelation
<1>2. IsWellFoundedOn(R, Nat)
  BY <1>1
<1>3. \E x \in T : \A y \in T : ~ (<<y, x>> \in R)
  BY <1>2, WFMin, Zenon
<1>4. PICK x \in T : \A y \in T : ~ (<<y, x>> \in R)
  BY <1>3
<1>5. ASSUME NEW y \in T PROVE x <= y
  <2>1. x \in Nat /\ y \in Nat
    OBVIOUS
  <2>2. ~(y < x)
    BY <1>1, <1>4, <2>1
  <2>. QED BY <2>1, <2>2
<1>. QED BY <1>5

\* A set of naturals that has zero and is closed under successor is Nat.
LEMMA UpSet ==
  ASSUME NEW T, T \subseteq Nat, 0 \in T, \A n \in T : n + 1 \in T
  PROVE  T = Nat
<1> SUFFICES ASSUME Nat \ T # {} PROVE FALSE
  OBVIOUS
<1>1. PICK n \in Nat \ T : \A m \in Nat \ T : n <= m
  BY LeastNat
<1>2. n - 1 \in T
  BY <1>1
<1>. QED BY <1>1, <1>2

-----------------------------------------------------------------------------
(* The recursion behind the sum.                                           *)

Pick(s) == CHOOSE x \in s : TRUE

\* One unfolding of the sum of v over s, f standing for the smaller sums.
Unfolded(f, v, s) == IF s = {} THEN 0 ELSE v[Pick(s)] + f[s \ {Pick(s)}]

\* f is the sum of v over the subsets of S.
IsSum(f, v, S) == f = [s \in SUBSET S |-> Unfolded(f, v, s)]

LEMMA SumIsRecursive ==
  ASSUME NEW v, NEW S
  PROVE  SumOver(v, S) = (CHOOSE f : IsSum(f, v, S))[S]
<1>1. SumOver(v, S) =
        (CHOOSE f : f = [s \in SUBSET S |->
           IF s = {} THEN 0
           ELSE v[CHOOSE x \in s : TRUE] + f[s \ {CHOOSE x \in s : TRUE}]])[S]
  BY Zenon DEF SumOver, MapThenSumSet, MapThenFoldSet
<1>. QED BY <1>1, Zenon DEF IsSum, Unfolded, Pick

LEMMA PickIn ==
  ASSUME NEW s, s # {}
  PROVE  Pick(s) \in s
BY DEF Pick

\* The finite subsets of a finite set, and their sizes.
LEMMA SubsetSizes ==
  ASSUME NEW S, IsFiniteSet(S), NEW s \in SUBSET S
  PROVE  /\ IsFiniteSet(s)
         /\ Cardinality(s) \in Nat
         /\ Cardinality(s) = 0 <=> s = {}
         /\ \A x \in s : s \ {x} \in SUBSET S /\ Cardinality(s \ {x}) = Cardinality(s) - 1
<1>1. IsFiniteSet(s)
  BY FS_Subset
<1>2. Cardinality(s) \in Nat /\ (Cardinality(s) = 0 <=> s = {})
  BY <1>1, FS_CardinalityType, FS_EmptySet
<1>3. ASSUME NEW x \in s PROVE Cardinality(s \ {x}) = Cardinality(s) - 1
  BY <1>1, FS_RemoveElement
<1>. QED BY <1>1, <1>2, <1>3

\* The recursion has a solution.
LEMMA SumExists ==
  ASSUME NEW S, IsFiniteSet(S), NEW v, \A x \in S : v[x] \in Int
  PROVE  \E f : IsSum(f, v, S)
<1> DEFINE Upto(n, f) ==
      /\ f \in [SUBSET S -> Int]
      /\ \A s \in SUBSET S : Cardinality(s) <= n => f[s] = Unfolded(f, v, s)
<1> DEFINE T == {n \in Nat : \E f : Upto(n, f)}
<1>1. 0 \in T
  <2> DEFINE f == [s \in SUBSET S |-> 0]
  <2>1. ASSUME NEW s \in SUBSET S, Cardinality(s) <= 0 PROVE f[s] = Unfolded(f, v, s)
    <3>1. s = {}
      BY <2>1, SubsetSizes
    <3>. QED BY <3>1 DEF Unfolded
  <2>2. Upto(0, f)
    BY <2>1
  <2>. QED BY <2>2
<1>2. ASSUME NEW n \in T PROVE n + 1 \in T
  <2>1. PICK f : Upto(n, f)
    OBVIOUS
  <2> DEFINE g == [s \in SUBSET S |-> IF Cardinality(s) <= n THEN f[s] ELSE Unfolded(f, v, s)]
  <2>2. ASSUME NEW s \in SUBSET S PROVE Unfolded(f, v, s) \in Int
    <3>1. CASE s = {}
      BY <3>1 DEF Unfolded
    <3>2. CASE s # {}
      <4>1. Pick(s) \in S /\ s \ {Pick(s)} \in SUBSET S
        BY <3>2, PickIn
      <4>2. v[Pick(s)] \in Int /\ f[s \ {Pick(s)}] \in Int
        BY <2>1, <4>1
      <4>. QED BY <3>2, <4>2 DEF Unfolded
    <3>. QED BY <3>1, <3>2
  <2>3. g \in [SUBSET S -> Int]
    BY <2>1, <2>2
  <2>4. ASSUME NEW s \in SUBSET S, Cardinality(s) <= n + 1 PROVE g[s] = Unfolded(g, v, s)
    <3>1. g[s] = Unfolded(f, v, s)
      BY <2>1
    <3>2. CASE s = {}
      BY <3>1, <3>2 DEF Unfolded
    <3>3. CASE s # {}
      <4>1. Pick(s) \in s
        BY <3>3, PickIn
      <4>2. Cardinality(s) \in Nat /\ s \ {Pick(s)} \in SUBSET S
            /\ Cardinality(s \ {Pick(s)}) = Cardinality(s) - 1
        BY <4>1, SubsetSizes
      <4>3. Cardinality(s \ {Pick(s)}) <= n
        BY <2>4, <4>2
      <4>4. g[s \ {Pick(s)}] = f[s \ {Pick(s)}]
        BY <4>2, <4>3
      <4>. QED BY <3>1, <3>3, <4>4 DEF Unfolded
    <3>. QED BY <3>2, <3>3
  <2> HIDE DEF g
  <2>. QED BY <2>3, <2>4
<1>3. T = Nat
  <2> HIDE DEF T
  <2>1. T \subseteq Nat
    BY DEF T
  <2>. QED BY <1>1, <1>2, <2>1, UpSet
<1>4. Cardinality(S) \in T
  BY <1>3, FS_CardinalityType
<1>5. PICK f : Upto(Cardinality(S), f)
  BY <1>4
<1>6. ASSUME NEW s \in SUBSET S PROVE Cardinality(s) <= Cardinality(S)
  BY FS_Subset
<1>7. f = [s \in SUBSET S |-> f[s]]
  BY <1>5
<1>8. \A s \in SUBSET S : f[s] = Unfolded(f, v, s)
  BY <1>5, <1>6
<1>9. f = [s \in SUBSET S |-> Unfolded(f, v, s)]
  BY <1>7, <1>8
<1>. QED BY <1>9 DEF IsSum

\* Two solutions agree, and are integers, where their summands agree.
LEMMA SumsAgree ==
  ASSUME NEW S, NEW R, NEW U, IsFiniteSet(U), U \subseteq S, U \subseteq R,
         NEW v, NEW w, \A x \in U : v[x] \in Int /\ v[x] = w[x],
         NEW f, NEW g, IsSum(f, v, S), IsSum(g, w, R)
  PROVE  f[U] = g[U] /\ f[U] \in Int
<1> DEFINE Ok(s) == f[s] = g[s] /\ f[s] \in Int
<1> DEFINE T == {n \in Nat : \A s \in SUBSET U : Cardinality(s) <= n => Ok(s)}
<1>1. ASSUME NEW s \in SUBSET U
      PROVE  f[s] = Unfolded(f, v, s) /\ g[s] = Unfolded(g, w, s)
  BY DEF IsSum
<1>2. 0 \in T
  <2>1. ASSUME NEW s \in SUBSET U, Cardinality(s) <= 0 PROVE Ok(s)
    <3>1. s = {}
      BY <2>1, SubsetSizes
    <3>. QED BY <1>1, <3>1 DEF Unfolded
  <2> HIDE DEF Ok
  <2>. QED BY <2>1
<1>3. ASSUME NEW n \in T PROVE n + 1 \in T
  <2>1. ASSUME NEW s \in SUBSET U, Cardinality(s) <= n + 1 PROVE Ok(s)
    <3>1. CASE s = {}
      BY <1>1, <3>1 DEF Unfolded
    <3>2. CASE s # {}
      <4>1. Pick(s) \in s
        BY <3>2, PickIn
      <4>2. Cardinality(s) \in Nat /\ s \ {Pick(s)} \in SUBSET U
            /\ Cardinality(s \ {Pick(s)}) = Cardinality(s) - 1
        BY <4>1, SubsetSizes
      <4>3. Ok(s \ {Pick(s)})
        BY <2>1, <4>2
      <4>4. v[Pick(s)] = w[Pick(s)] /\ v[Pick(s)] \in Int
        BY <4>1
      <4>5. f[s] = v[Pick(s)] + f[s \ {Pick(s)}] /\ g[s] = w[Pick(s)] + g[s \ {Pick(s)}]
        BY <1>1, <3>2 DEF Unfolded
      <4>. QED BY <4>3, <4>4, <4>5
    <3>. QED BY <3>1, <3>2
  <2> HIDE DEF Ok
  <2>. QED BY <2>1
<1>4. T = Nat
  <2> HIDE DEF T
  <2>1. T \subseteq Nat
    BY DEF T
  <2>. QED BY <1>2, <1>3, <2>1, UpSet
<1>5. Cardinality(U) \in T
  BY <1>4, FS_CardinalityType
<1>. QED BY <1>5, FS_CardinalityType

-----------------------------------------------------------------------------
(* What a sum is.                                                          *)

\* The sum over S is the value at S of a solution of the recursion.
LEMMA SumSolution ==
  ASSUME NEW S, IsFiniteSet(S), NEW v, \A x \in S : v[x] \in Int
  PROVE  \E f : IsSum(f, v, S) /\ SumOver(v, S) = f[S]
<1> DEFINE f == CHOOSE f : IsSum(f, v, S)
<1>1. IsSum(f, v, S)
  BY SumExists
<1>2. SumOver(v, S) = f[S]
  BY SumIsRecursive
<1>. QED BY <1>1, <1>2

\* A sum of integers is an integer, and depends on the summands in S alone.
LEMMA SumCongruent ==
  ASSUME NEW S, IsFiniteSet(S), NEW v, NEW w, \A x \in S : v[x] \in Int /\ v[x] = w[x]
  PROVE  SumOver(v, S) = SumOver(w, S) /\ SumOver(v, S) \in Int
<1>1. PICK f : IsSum(f, v, S) /\ SumOver(v, S) = f[S]
  BY SumSolution
<1>2. PICK g : IsSum(g, w, S) /\ SumOver(w, S) = g[S]
  BY SumSolution
<1>3. f[S] = g[S] /\ f[S] \in Int
  BY <1>1, <1>2, SumsAgree
<1>. QED BY <1>1, <1>2, <1>3

\* The sum over no elements.
LEMMA SumEmpty ==
  ASSUME NEW v
  PROVE  SumOver(v, {}) = 0
<1>1. IsFiniteSet({})
  BY FS_EmptySet
<1>2. PICK f : IsSum(f, v, {}) /\ SumOver(v, {}) = f[{}]
  BY <1>1, SumSolution
<1>3. f[{}] = Unfolded(f, v, {})
  BY <1>2 DEF IsSum
<1>. QED BY <1>2, <1>3 DEF Unfolded

\* The sum takes out the element it picks.
LEMMA SumPick ==
  ASSUME NEW S, IsFiniteSet(S), S # {}, NEW v, \A x \in S : v[x] \in Int
  PROVE  SumOver(v, S) = v[Pick(S)] + SumOver(v, S \ {Pick(S)})
<1> DEFINE U == S \ {Pick(S)}
<1>1. PICK f : IsSum(f, v, S) /\ SumOver(v, S) = f[S]
  BY SumSolution
<1>2. IsFiniteSet(U) /\ U \subseteq S
  BY FS_Subset
<1>3. PICK g : IsSum(g, v, U) /\ SumOver(v, U) = g[U]
  BY <1>2, SumSolution
<1>4. f[U] = g[U]
  <2> HIDE DEF U
  <2>. QED BY <1>1, <1>2, <1>3, SumsAgree
<1>5. f[S] = Unfolded(f, v, S)
  BY <1>1 DEF IsSum
<1>. QED BY <1>1, <1>3, <1>4, <1>5 DEF Unfolded

\* The sum takes out any element.
LEMMA SumRemove ==
  ASSUME NEW S, IsFiniteSet(S), NEW v, \A x \in S : v[x] \in Int, NEW y \in S
  PROVE  SumOver(v, S) = v[y] + SumOver(v, S \ {y})
<1> DEFINE Ok(s) == \A x \in s : SumOver(v, s) = v[x] + SumOver(v, s \ {x})
<1> DEFINE T == {n \in Nat : \A s \in SUBSET S : Cardinality(s) <= n => Ok(s)}
<1>1. 0 \in T
  <2>1. ASSUME NEW s \in SUBSET S, Cardinality(s) <= 0 PROVE Ok(s)
    <3>1. s = {}
      BY <2>1, SubsetSizes
    <3>. QED BY <3>1
  <2>. QED BY <2>1
<1>2. ASSUME NEW n \in T PROVE n + 1 \in T
  <2>1. ASSUME NEW s \in SUBSET S, Cardinality(s) <= n + 1, NEW x \in s
        PROVE  SumOver(v, s) = v[x] + SumOver(v, s \ {x})
    <3> DEFINE p == Pick(s)
    <3>1. IsFiniteSet(s) /\ \A z \in s : v[z] \in Int
      BY FS_Subset
    <3>2. p \in s /\ SumOver(v, s) = v[p] + SumOver(v, s \ {p})
      BY <3>1, PickIn, SumPick
    <3>3. CASE x = p
      BY <3>2, <3>3
    <3>4. CASE x # p
      <4>1. \A z \in s : Cardinality(s \ {z}) <= n /\ s \ {z} \in SUBSET S
        BY <2>1, SubsetSizes
      <4>2. Ok(s \ {p}) /\ Ok(s \ {x})
        BY <3>2, <4>1
      <4>3. SumOver(v, s \ {p}) = v[x] + SumOver(v, (s \ {p}) \ {x})
        BY <3>4, <4>2
      <4>4. SumOver(v, s \ {x}) = v[p] + SumOver(v, (s \ {x}) \ {p})
        BY <3>2, <3>4, <4>2
      <4>5. SumOver(v, s \ {x}) = v[p] + SumOver(v, (s \ {p}) \ {x})
        <5>1. (s \ {p}) \ {x} = (s \ {x}) \ {p}
          OBVIOUS
        <5>. QED BY <4>4, <5>1, Zenon
      <4>6. PICK rest : rest = SumOver(v, (s \ {p}) \ {x})
        OBVIOUS
      <4>7. rest \in Int
        <5>1. IsFiniteSet((s \ {p}) \ {x})
          BY <3>1, FS_Subset
        <5>2. \A z \in (s \ {p}) \ {x} : v[z] \in Int /\ v[z] = v[z]
          BY <3>1
        <5>. QED BY <4>6, <5>1, <5>2, SumCongruent
      <4>8. SumOver(v, s \ {p}) = v[x] + rest /\ SumOver(v, s \ {x}) = v[p] + rest
        BY <4>3, <4>5, <4>6, Zenon
      <4>9. v[x] \in Int /\ v[p] \in Int
        BY <2>1, <3>1, <3>2
      <4> HIDE DEF p
      <4>. QED BY <3>2, <4>7, <4>8, <4>9
    <3>. QED BY <3>3, <3>4
  <2>2. ASSUME NEW s \in SUBSET S, Cardinality(s) <= n + 1 PROVE Ok(s)
    BY <2>1, <2>2
  <2> HIDE DEF Ok
  <2>. QED BY <2>2
<1>3. T = Nat
  <2> HIDE DEF T
  <2>1. T \subseteq Nat
    BY DEF T
  <2>. QED BY <1>1, <1>2, <2>1, UpSet
<1>4. Cardinality(S) \in T
  BY <1>3, FS_CardinalityType
<1>5. Ok(S)
  BY <1>4, FS_CardinalityType
<1>. QED BY <1>5

\* A sum that gains an element: the set S has y and R is S without it.
LEMMA SumGains ==
  ASSUME NEW R, IsFiniteSet(R), NEW y, y \notin R,
         NEW v, NEW w, \A x \in R : w[x] \in Int /\ w[x] = v[x], v[y] \in Int
  PROVE  SumOver(v, R \cup {y}) = SumOver(w, R) + v[y]
<1>1. IsFiniteSet(R \cup {y})
  BY FS_AddElement
<1>2. (R \cup {y}) \ {y} = R
  OBVIOUS
<1>3. SumOver(v, R \cup {y}) = v[y] + SumOver(v, R)
  <2>1. SumOver(v, R \cup {y}) = v[y] + SumOver(v, (R \cup {y}) \ {y})
    BY <1>1, SumRemove
  <2>. QED BY <1>2, <2>1, Zenon
<1>4. SumOver(w, R) = SumOver(v, R) /\ SumOver(w, R) \in Int
  BY SumCongruent
<1>. QED BY <1>3, <1>4

\* A sum of which one summand changes.
LEMMA SumChanges ==
  ASSUME NEW S, IsFiniteSet(S), NEW y \in S, NEW v, NEW w, \A x \in S : v[x] \in Int,
         w[y] \in Int, \A x \in S \ {y} : w[x] = v[x]
  PROVE  SumOver(w, S) = SumOver(v, S) + (w[y] - v[y])
<1>1. \A x \in S : w[x] \in Int
  OBVIOUS
<1>2. SumOver(v, S) = v[y] + SumOver(v, S \ {y}) /\ SumOver(w, S) = w[y] + SumOver(w, S \ {y})
  BY <1>1, SumRemove
<1>3. IsFiniteSet(S \ {y})
  BY FS_Subset
<1>4. \A x \in S \ {y} : v[x] \in Int /\ v[x] = w[x]
  OBVIOUS
<1>5. SumOver(v, S \ {y}) = SumOver(w, S \ {y}) /\ SumOver(v, S \ {y}) \in Int
  BY <1>3, <1>4, SumCongruent
<1>6. PICK rest : rest = SumOver(v, S \ {y})
  OBVIOUS
<1>7. SumOver(v, S) = v[y] + rest /\ SumOver(w, S) = w[y] + rest /\ rest \in Int
  BY <1>2, <1>5, <1>6, Zenon
<1>. QED BY <1>7

\* A sum of which no summand is larger is no larger.
LEMMA SumLeq ==
  ASSUME NEW S, IsFiniteSet(S), NEW v, NEW w,
         \A x \in S : v[x] \in Int /\ w[x] \in Int /\ v[x] <= w[x]
  PROVE  SumOver(v, S) <= SumOver(w, S)
<1> DEFINE Ok(s) == SumOver(v, s) <= SumOver(w, s)
<1> DEFINE T == {n \in Nat : \A s \in SUBSET S : Cardinality(s) <= n => Ok(s)}
<1>0. \A s \in SUBSET S : s = {} => Ok(s)
  BY SumEmpty
<1>1. 0 \in T
  <2>1. ASSUME NEW s \in SUBSET S, Cardinality(s) <= 0 PROVE s = {}
    BY <2>1, SubsetSizes
  <2> HIDE DEF Ok
  <2>. QED BY <1>0, <2>1
<1>2. ASSUME NEW n \in T PROVE n + 1 \in T
  <2>1. ASSUME NEW s \in SUBSET S, Cardinality(s) <= n + 1, s # {} PROVE Ok(s)
    <3>1. IsFiniteSet(s) /\ \A x \in s : v[x] \in Int /\ w[x] \in Int /\ v[x] <= w[x]
      BY FS_Subset
    <3>2. PICK y : y = Pick(s)
      OBVIOUS
    <3>3. y \in s
      BY <2>1, <3>2, PickIn
    <3>4. SumOver(v, s) = v[y] + SumOver(v, s \ {y}) /\ SumOver(w, s) = w[y] + SumOver(w, s \ {y})
      BY <3>1, <3>3, SumRemove
    <3>5. Cardinality(s \ {y}) <= n /\ s \ {y} \in SUBSET S
      BY <2>1, <3>3, SubsetSizes
    <3>6. Ok(s \ {y})
      <4> HIDE DEF Ok
      <4>. QED BY <3>5
    <3>7. SumOver(v, s \ {y}) \in Int /\ SumOver(w, s \ {y}) \in Int
      <4>1. IsFiniteSet(s \ {y})
        BY <3>1, FS_Subset
      <4>2. \A x \in s \ {y} : v[x] \in Int /\ v[x] = v[x] /\ w[x] \in Int /\ w[x] = w[x]
        BY <3>1
      <4>. QED BY <4>1, <4>2, SumCongruent
    <3>8. PICK p, q : p = SumOver(v, s \ {y}) /\ q = SumOver(w, s \ {y})
      OBVIOUS
    <3>9. SumOver(v, s) = v[y] + p /\ SumOver(w, s) = w[y] + q /\ p \in Int /\ q \in Int /\ p <= q
      BY <3>4, <3>6, <3>7, <3>8, Zenon
    <3>. QED BY <3>1, <3>3, <3>9
  <2> HIDE DEF Ok
  <2>2. ASSUME NEW s \in SUBSET S, Cardinality(s) <= n + 1 PROVE Ok(s)
    BY <1>0, <2>1, <2>2
  <2>. QED BY <2>2
<1>3. T = Nat
  <2> HIDE DEF T
  <2>1. T \subseteq Nat
    BY DEF T
  <2>. QED BY <1>1, <1>2, <2>1, UpSet
<1>4. Cardinality(S) \in T
  BY <1>3, FS_CardinalityType
<1>. QED BY <1>4, FS_CardinalityType

\* The first n entries of a row of pairs gain what a says, the rest stays.
Gained(v, S, r, a, n) ==
  [x \in S |-> IF x \in {r} \X (1..n) THEN v[x] + a[x[2]] ELSE v[x]]

LEMMA SumRow ==
  ASSUME NEW S, IsFiniteSet(S), NEW v, \A x \in S : v[x] \in Int,
         NEW r, NEW m \in Nat, {r} \X (1..m) \subseteq S, NEW a, \A n \in 1..m : a[n] \in Int
  PROVE  SumOver(Gained(v, S, r, a, m), S) = SumOver(v, S) + SumOver(a, 1..m)
<1> DEFINE Ok(n) == SumOver(Gained(v, S, r, a, n), S) = SumOver(v, S) + SumOver(a, 1..n)
<1> DEFINE T == {n \in Nat : n <= m => Ok(n)}
<1>0. SumOver(v, S) \in Int
  BY SumCongruent
<1>1. 0 \in T
  <2>1. PICK w : w = Gained(v, S, r, a, 0)
    OBVIOUS
  <2>2. \A x \in S : v[x] \in Int /\ v[x] = w[x]
    BY <2>1 DEF Gained
  <2>3. SumOver(v, S) = SumOver(w, S)
    BY <2>2, SumCongruent
  <2>4. 1..0 = {}
    OBVIOUS
  <2>5. SumOver(a, 1..0) = 0
    BY <2>4, SumEmpty, Zenon
  <2>6. SumOver(Gained(v, S, r, a, 0), S) = SumOver(v, S)
    BY <2>1, <2>3, Zenon
  <2>. QED BY <1>0, <2>5, <2>6
<1>2. ASSUME NEW n \in T PROVE n + 1 \in T
  <2>0. n \in Nat
    OBVIOUS
  <2> SUFFICES ASSUME n + 1 <= m PROVE Ok(n + 1)
    BY <2>0
  <2>1. Ok(n)
    BY <2>0
  <2>2. PICK w, u, y : w = Gained(v, S, r, a, n) /\ u = Gained(v, S, r, a, n + 1) /\ y = <<r, n + 1>>
    OBVIOUS
  <2>3. y \in S /\ y \in {r} \X (1..n + 1) /\ y \notin {r} \X (1..n) /\ y[2] = n + 1
    BY <2>0, <2>2
  <2>4. a[n + 1] \in Int /\ \A k \in 1..n : a[k] \in Int
    BY <2>0
  <2>5. w[y] = v[y] /\ u[y] = v[y] + a[n + 1]
    BY <2>2, <2>3 DEF Gained
  <2>6. \A x \in S : x \in {r} \X (1..n) => w[x] = v[x] + a[x[2]] /\ x[2] \in 1..n
    BY <2>2 DEF Gained
  <2>7. \A x \in S : x \notin {r} \X (1..n) => w[x] = v[x]
    BY <2>2 DEF Gained
  <2>8. \A x \in S : w[x] \in Int
    <3> SUFFICES ASSUME NEW x \in S PROVE w[x] \in Int
      OBVIOUS
    <3>1. CASE x \in {r} \X (1..n)
      <4>1. a[x[2]] \in Int /\ v[x] \in Int
        BY <2>4, <2>6, <3>1
      <4>. QED BY <2>6, <3>1, <4>1
    <3>2. CASE x \notin {r} \X (1..n)
      BY <2>7, <3>2
    <3>. QED BY <3>1, <3>2
  <2>9. ASSUME NEW x \in S \ {y} PROVE u[x] = w[x]
    <3>1. x \in {r} \X (1..n + 1) <=> x \in {r} \X (1..n)
      BY <2>0, <2>2
    <3>. QED BY <2>2, <3>1 DEF Gained
  <2>10. SumOver(u, S) = SumOver(w, S) + (u[y] - w[y])
    <3>1. u[y] \in Int
      BY <2>3, <2>4, <2>5
    <3>. QED BY <2>3, <2>8, <2>9, <3>1, SumChanges
  <2>11. SumOver(a, 1..n + 1) = SumOver(a, 1..n) + a[n + 1]
    <3>1. PICK R, k : R = 1..n /\ k = n + 1
      OBVIOUS
    <3>2. IsFiniteSet(R) /\ k \notin R
      BY <2>0, <3>1, FS_Interval
    <3>3. a[k] \in Int /\ \A j \in R : a[j] \in Int /\ a[j] = a[j]
      BY <2>4, <3>1
    <3>4. SumOver(a, R \cup {k}) = SumOver(a, R) + a[k]
      BY <3>2, <3>3, SumGains
    <3>5. R \cup {k} = 1..n + 1
      BY <2>0, <3>1
    <3>. QED BY <3>1, <3>4, <3>5, Zenon
  <2>12. SumOver(a, 1..n) \in Int
    <3>1. IsFiniteSet(1..n)
      BY <2>0, FS_Interval
    <3>. QED BY <2>4, <3>1, SumCongruent
  <2>13. PICK p, q, t, z : p = SumOver(w, S) /\ q = SumOver(u, S) /\ t = SumOver(v, S) /\ z = SumOver(a, 1..n)
    OBVIOUS
  <2>14. p = t + z
    BY <2>1, <2>2, <2>13, Zenon
  <2>15. q = p + (u[y] - w[y]) /\ SumOver(a, 1..n + 1) = z + a[n + 1]
    BY <2>10, <2>11, <2>13, Zenon
  <2>16. t \in Int /\ z \in Int
    BY <1>0, <2>12, <2>13
  <2>17. q = t + (z + a[n + 1])
    BY <2>3, <2>4, <2>5, <2>14, <2>15, <2>16
  <2>18. SumOver(Gained(v, S, r, a, n + 1), S) = SumOver(v, S) + (z + a[n + 1])
    BY <2>2, <2>13, <2>17, Zenon
  <2>. QED BY <2>15, <2>18, Zenon
<1>3. T = Nat
  <2> HIDE DEF T
  <2>1. T \subseteq Nat
    BY DEF T
  <2>. QED BY <1>1, <1>2, <2>1, UpSet
<1>4. m \in T
  BY <1>3
<1>. QED BY <1>4

\* A sum of zeros.
LEMMA SumOfZeros ==
  ASSUME NEW S, IsFiniteSet(S), NEW v, \A x \in S : v[x] \in Int /\ v[x] = 0
  PROVE  SumOver(v, S) = 0
<1> DEFINE T == {n \in Nat : \A s \in SUBSET S : Cardinality(s) <= n => SumOver(v, s) = 0}
<1>1. 0 \in T
  <2>1. ASSUME NEW s \in SUBSET S, Cardinality(s) <= 0 PROVE SumOver(v, s) = 0
    <3>1. s = {}
      BY <2>1, SubsetSizes
    <3>. QED BY <3>1, SumEmpty
  <2>. QED BY <2>1
<1>2. ASSUME NEW n \in T PROVE n + 1 \in T
  <2>1. ASSUME NEW s \in SUBSET S, Cardinality(s) <= n + 1 PROVE SumOver(v, s) = 0
    <3>1. CASE s = {}
      BY <3>1, SumEmpty
    <3>2. CASE s # {}
      <4>1. PICK y : y \in s
        BY <3>2
      <4>2. IsFiniteSet(s) /\ \A x \in s : v[x] \in Int
        BY FS_Subset
      <4>3. SumOver(v, s) = v[y] + SumOver(v, s \ {y})
        BY <4>1, <4>2, SumRemove
      <4>4. Cardinality(s \ {y}) <= n /\ s \ {y} \in SUBSET S
        BY <2>1, <4>1, SubsetSizes
      <4>5. SumOver(v, s \ {y}) = 0 /\ v[y] = 0
        BY <4>1, <4>4
      <4>. QED BY <4>3, <4>5
    <3>. QED BY <3>1, <3>2
  <2>. QED BY <2>1
<1>3. T = Nat
  <2> HIDE DEF T
  <2>1. T \subseteq Nat
    BY DEF T
  <2>. QED BY <1>1, <1>2, <2>1, UpSet
<1>4. Cardinality(S) \in T
  BY <1>3, FS_CardinalityType
<1>. QED BY <1>4, FS_CardinalityType

\* A part of a sum of naturals is no larger than the sum.
LEMMA SumPart ==
  ASSUME NEW S, IsFiniteSet(S), NEW U, U \subseteq S, NEW v, \A x \in S : v[x] \in Nat
  PROVE  SumOver(v, U) <= SumOver(v, S)
<1> DEFINE Ok(s) == U \subseteq s => SumOver(v, U) <= SumOver(v, s)
           T == {n \in Nat : \A s \in SUBSET S : Cardinality(s) <= n => Ok(s)}
<1>0. ASSUME NEW s \in SUBSET S PROVE SumOver(v, s) \in Int
  <2>1. IsFiniteSet(s) /\ \A x \in s : v[x] \in Int /\ v[x] = v[x]
    BY FS_Subset
  <2>. QED BY <2>1, SumCongruent
<1>1. 0 \in T
  <2>1. ASSUME NEW s \in SUBSET S, Cardinality(s) <= 0, U \subseteq s PROVE SumOver(v, U) <= SumOver(v, s)
    <3>1. s = {} /\ U = {}
      BY <2>1, SubsetSizes
    <3>2. PICK p : p = SumOver(v, s)
      OBVIOUS
    <3>3. p \in Int /\ SumOver(v, U) = p
      BY <1>0, <3>1, <3>2
    <3>. QED BY <3>2, <3>3
  <2>. QED BY <2>1
<1>2. ASSUME NEW n \in T PROVE n + 1 \in T
  <2>1. ASSUME NEW s \in SUBSET S, Cardinality(s) <= n + 1, U \subseteq s PROVE SumOver(v, U) <= SumOver(v, s)
    <3>1. CASE s = U
      <4>1. PICK p : p = SumOver(v, s)
        OBVIOUS
      <4>2. p \in Int /\ SumOver(v, U) = p
        BY <1>0, <3>1, <4>1
      <4>. QED BY <4>1, <4>2
    <3>2. CASE s # U
      <4>1. PICK y \in s : y \notin U
        BY <2>1, <3>2
      <4>2. IsFiniteSet(s) /\ \A x \in s : v[x] \in Int
        BY FS_Subset
      <4>3. SumOver(v, s) = v[y] + SumOver(v, s \ {y})
        BY <4>1, <4>2, SumRemove
      <4>4. Cardinality(s \ {y}) <= n /\ s \ {y} \in SUBSET S /\ U \subseteq s \ {y}
        BY <2>1, <4>1, SubsetSizes
      <4>5. SumOver(v, U) <= SumOver(v, s \ {y})
        BY <4>4
      <4>6. PICK p, q : p = SumOver(v, U) /\ q = SumOver(v, s \ {y})
        OBVIOUS
      <4>7. p \in Int /\ q \in Int /\ v[y] \in Nat /\ p <= q /\ SumOver(v, s) = v[y] + q
        BY <1>0, <4>1, <4>3, <4>4, <4>5, <4>6, Zenon
      <4>. QED BY <4>6, <4>7
    <3>. QED BY <3>1, <3>2
  <2>. QED BY <2>1
<1>3. T = Nat
  <2> HIDE DEF T
  <2>1. T \subseteq Nat
    BY DEF T
  <2>. QED BY <1>1, <1>2, <2>1, UpSet
<1>. QED BY <1>3, FS_CardinalityType

\* What is not zero counts alone.
LEMMA SumOfPart ==
  ASSUME NEW S, IsFiniteSet(S), NEW U, U \subseteq S, NEW v, \A x \in S : v[x] \in Int,
         \A x \in S \ U : v[x] = 0
  PROVE  SumOver(v, S) = SumOver(v, U)
<1> DEFINE Ok(s) == U \subseteq s => SumOver(v, s) = SumOver(v, U)
           T == {n \in Nat : \A s \in SUBSET S : Cardinality(s) <= n => Ok(s)}
<1>0. ASSUME NEW s \in SUBSET S PROVE SumOver(v, s) \in Int
  <2>1. IsFiniteSet(s) /\ \A x \in s : v[x] \in Int /\ v[x] = v[x]
    BY FS_Subset
  <2>. QED BY <2>1, SumCongruent
<1>1. 0 \in T
  <2>1. ASSUME NEW s \in SUBSET S, Cardinality(s) <= 0, U \subseteq s PROVE SumOver(v, s) = SumOver(v, U)
    <3>1. s = {} /\ U = {}
      BY <2>1, SubsetSizes
    <3>2. PICK p : p = SumOver(v, s)
      OBVIOUS
    <3>3. p \in Int /\ SumOver(v, U) = p
      BY <1>0, <3>1, <3>2
    <3>. QED BY <3>2, <3>3
  <2>. QED BY <2>1
<1>2. ASSUME NEW n \in T PROVE n + 1 \in T
  <2>1. ASSUME NEW s \in SUBSET S, Cardinality(s) <= n + 1, U \subseteq s PROVE SumOver(v, s) = SumOver(v, U)
    <3>1. CASE s = U
      <4>1. PICK p : p = SumOver(v, s)
        OBVIOUS
      <4>2. p \in Int /\ SumOver(v, U) = p
        BY <1>0, <3>1, <4>1
      <4>. QED BY <4>1, <4>2
    <3>2. CASE s # U
      <4>1. PICK y \in s : y \notin U
        BY <2>1, <3>2
      <4>2. IsFiniteSet(s) /\ \A x \in s : v[x] \in Int
        BY FS_Subset
      <4>3. SumOver(v, s) = v[y] + SumOver(v, s \ {y})
        BY <4>1, <4>2, SumRemove
      <4>4. Cardinality(s \ {y}) <= n /\ s \ {y} \in SUBSET S /\ U \subseteq s \ {y}
        BY <2>1, <4>1, SubsetSizes
      <4>5. SumOver(v, s \ {y}) = SumOver(v, U)
        BY <4>4
      <4>6. PICK p, q : p = SumOver(v, U) /\ q = SumOver(v, s \ {y})
        OBVIOUS
      <4>7. p \in Int /\ q \in Int /\ v[y] = 0 /\ p = q /\ SumOver(v, s) = v[y] + q
        BY <1>0, <4>1, <4>3, <4>4, <4>5, <4>6, Zenon
      <4>. QED BY <4>6, <4>7
    <3>. QED BY <3>1, <3>2
  <2>. QED BY <2>1
<1>3. T = Nat
  <2> HIDE DEF T
  <2>1. T \subseteq Nat
    BY DEF T
  <2>. QED BY <1>1, <1>2, <2>1, UpSet
<1>. QED BY <1>3, FS_CardinalityType
=============================================================================
