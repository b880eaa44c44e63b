----------------------------- MODULE FoldTheorems -----------------------------
(***************************************************************************)
(* Induction over data, by a smallest counterexample: every recursive      *)
(* function over the subsets of a finite set exists, and what the folds of *)
(* the community modules compute follows from its steps.  The proofs about *)
(* the request log (sums) and the reader of documents (FoldLeft) use it.   *)
(***************************************************************************)
EXTENDS Integers, Sequences, FiniteSets, Functions, FiniteSetsExt, SequencesExt,
        FiniteSetTheorems, WellFoundedInduction, NaturalsInduction, TLAPS

(* A set of natural numbers has a least element.                           *)
LEMMA Least ==
    ASSUME NEW T \in SUBSET Nat, T # {}
    PROVE  \E n \in T : \A m \in T : n <= m
<1>1. \E n \in T : \A m \in T : ~(<<m, n>> \in OpToRel(<, Nat))
  BY NatLessThanWellFounded, WFMin, Zenon
<1>2. \A m, n \in Nat : m < n => <<m, n>> \in OpToRel(<, Nat)
  BY Zenon DEF OpToRel
<1>3. PICK n \in T : \A m \in T : ~(m < n)
  BY <1>1, <1>2
<1>4. \A m \in T : n <= m
  BY <1>3
<1> QED
  BY <1>4

(* Induction over the natural numbers.                                     *)
LEMMA Inductive ==
    ASSUME NEW T \in SUBSET Nat, 0 \in T, \A n \in T : n + 1 \in T
    PROVE  T = Nat
<1> SUFFICES ASSUME Nat \ T # {} PROVE FALSE
  OBVIOUS
<1>1. PICK n \in Nat \ T : \A m \in Nat \ T : n <= m
  <2> DEFINE U == Nat \ T
  <2>1. U \in SUBSET Nat /\ U # {}
    OBVIOUS
  <2> HIDE DEF U
  <2>2. \E n \in U : \A m \in U : n <= m
    BY <2>1, Least
  <2> QED
    BY <2>2 DEF U
<1>2. n # 0 /\ n - 1 \in Nat
  BY <1>1
<1>3. n - 1 \in T
  BY <1>1, <1>2
<1>4. n - 1 + 1 \in T
  BY <1>3
<1> QED
  BY <1>1, <1>2, <1>4

(* Induction up to a bound.                                                *)
LEMMA UpTo ==
    ASSUME NEW N \in Nat, NEW T \in SUBSET (0..N), 0 \in T,
           \A n \in 1..N : n - 1 \in T => n \in T
    PROVE  N \in T
<1> DEFINE U == {n \in Nat : n <= N => n \in T}
<1>1. U \in SUBSET Nat /\ 0 \in U
  OBVIOUS
<1>2. ASSUME NEW n \in U PROVE n + 1 \in U
  <2>1. CASE n + 1 <= N
    <3>1. n + 1 \in 1..N /\ (n + 1) - 1 = n /\ n \in T
      BY <1>2, <2>1
    <3> QED
      BY <3>1
  <2>2. CASE ~(n + 1 <= N)
    BY <1>2, <2>2
  <2> QED
    BY <2>1, <2>2
<1> HIDE DEF U
<1>3. U = Nat
  BY <1>1, <1>2, Inductive
<1> QED
  BY <1>3 DEF U

(* A non-empty set of numbers up to N has a greatest, which Max names.     *)
LEMMA Greatest ==
    ASSUME NEW N \in Nat, NEW T \in SUBSET (0..N), T # {}
    PROVE  /\ Max(T) \in T
           /\ \A x \in T : x <= Max(T)
<1> DEFINE U == {N - x : x \in T}
<1>1. U \in SUBSET Nat /\ U # {}
  <2>1. \A x \in T : N - x \in Nat
    OBVIOUS
  <2> QED
    BY <2>1, Zenon
<1>2. PICK u \in U : \A v \in U : u <= v
  <2> HIDE DEF U
  <2> QED
    BY <1>1, Least
<1>3. PICK m \in T : \A x \in T : N - m <= N - x
  BY <1>2
<1>4. \A x \in T : m >= x
  BY <1>3
<1>5. \E x \in T : \A y \in T : x >= y
  BY <1>4
<1>6. Max(T) \in T /\ \A y \in T : Max(T) >= y
  BY <1>5, Zenon DEF Max
<1> QED
  BY <1>6

-----------------------------------------------------------------------------
(* g is the function that the recursion over picked elements defines.      *)
Recurs(g, S, base, step, pick) ==
    \A s \in SUBSET S :
        g[s] = IF s = {} THEN base ELSE step[<<pick[s], g[s \ {pick[s]}]>>]

(* A recursion over the subsets of a finite set defines a function.        *)
LEMMA FixedPoint ==
    ASSUME NEW S, IsFiniteSet(S), NEW V, NEW base \in V, NEW step \in [S \X V -> V],
           NEW pick, \A s \in SUBSET S : s # {} => pick[s] \in s
    PROVE  \E g \in [SUBSET S -> V] : Recurs(g, S, base, step, pick)
<1> DEFINE D(n) == {s \in SUBSET S : Cardinality(s) <= n}
           Is(g, n) == \A s \in D(n) :
              g[s] = IF s = {} THEN base ELSE step[<<pick[s], g[s \ {pick[s]}]>>]
           T == {n \in Nat : \E g \in [D(n) -> V] : Is(g, n)}
<1>1. \A s \in SUBSET S : IsFiniteSet(s) /\ Cardinality(s) \in Nat
  BY FS_Subset, FS_CardinalityType
<1>2. \A s \in SUBSET S : s # {} => Cardinality(s \ {pick[s]}) = Cardinality(s) - 1
  BY <1>1, FS_RemoveElement
<1>3. \A s \in SUBSET S : Cardinality(s) = 0 <=> s = {}
  BY <1>1, FS_EmptySet
<1>4. 0 \in T
  <2>1. D(0) = {{}}
    BY <1>1, <1>3
  <2>2. [s \in D(0) |-> base] \in [D(0) -> V]
    OBVIOUS
  <2>3. Is([s \in D(0) |-> base], 0)
    BY <2>1
  <2> QED
    BY <2>2, <2>3
<1>5. ASSUME NEW n \in T PROVE n + 1 \in T
  <2>1. n \in Nat /\ n + 1 \in Nat
    OBVIOUS
  <2>2. PICK g \in [D(n) -> V] : Is(g, n)
    BY Zenon
  <2> DEFINE value(s) == IF s = {} THEN base ELSE step[<<pick[s], g[s \ {pick[s]}]>>]
             h == [s \in D(n + 1) |-> value(s)]
  <2>3. \A s \in D(n + 1) : s # {} => s \ {pick[s]} \in D(n)
    BY <1>1, <1>2, <2>1
  <2>4. \A s \in D(n) : s \in D(n + 1)
    BY <1>1, <2>1
  <2>5. \A s \in D(n + 1) : value(s) \in V
    <3> SUFFICES ASSUME NEW s \in D(n + 1), s # {}
                 PROVE  step[<<pick[s], g[s \ {pick[s]}]>>] \in V
      OBVIOUS
    <3>1. pick[s] \in S /\ g[s \ {pick[s]}] \in V
      BY <2>2, <2>3
    <3> QED
      BY <3>1
  <2>6. h \in [D(n + 1) -> V]
    BY <2>5
  <2>7. \A s \in D(n) : h[s] = g[s]
    BY <2>2, <2>4
  <2>8. Is(h, n + 1)
    BY <2>3, <2>7, Zenon
  <2> QED
    BY <2>1, <2>6, <2>8, Zenon
<1>6. T = Nat
  <2>1. T \in SUBSET Nat
    OBVIOUS
  <2> HIDE DEF T
  <2> QED
    BY <1>4, <1>5, <2>1, Inductive
<1>7. Cardinality(S) \in T
  BY <1>6, FS_CardinalityType
<1>8. D(Cardinality(S)) = SUBSET S
  <2>1. \A s \in SUBSET S : Cardinality(s) <= Cardinality(S)
    BY FS_Subset
  <2> QED
    BY <2>1
<1>9. PICK g \in [D(Cardinality(S)) -> V] : Is(g, Cardinality(S))
  BY <1>7, Zenon
<1> QED
  BY <1>8, <1>9, Zenon DEF Recurs

(* Induction over the subsets of a finite set.                             *)
LEMMA SubsetInduction ==
    ASSUME NEW S, IsFiniteSet(S), NEW T \in SUBSET SUBSET S,
           \A s \in SUBSET S : (\A x \in s : s \ {x} \in T) => s \in T
    PROVE  T = SUBSET S
<1> DEFINE B == {n \in Nat : \E s \in (SUBSET S) \ T : Cardinality(s) = n}
<1>1. \A s \in SUBSET S : IsFiniteSet(s) /\ Cardinality(s) \in Nat
  BY FS_Subset, FS_CardinalityType
<1> SUFFICES ASSUME B # {} PROVE FALSE
  <2>1. B = {} => (SUBSET S) \ T = {}
    BY <1>1
  <2> QED
    BY <2>1
<1>2. PICK n \in B : \A m \in B : n <= m
  <2>1. B \in SUBSET Nat
    OBVIOUS
  <2> HIDE DEF B
  <2> QED
    BY <2>1, Least
<1>3. PICK s \in (SUBSET S) \ T : Cardinality(s) = n
  OBVIOUS
<1>4. PICK x \in s : s \ {x} \notin T
  BY <1>3
<1>5. s \ {x} \in SUBSET S /\ Cardinality(s \ {x}) = n - 1
  BY <1>1, <1>3, <1>4, FS_RemoveElement
<1>6. n - 1 \in B
  BY <1>1, <1>4, <1>5
<1> QED
  BY <1>2, <1>6

-----------------------------------------------------------------------------
(* The recursion SumFunction is defined by.                                *)
Adds(h, f) ==
    h = [s \in SUBSET DOMAIN f |->
            IF s = {} THEN 0
            ELSE f[CHOOSE x \in s : TRUE] + h[s \ {CHOOSE x \in s : TRUE}]]

(* SumFunction is what any function says that satisfies its recursion.     *)
LEMMA SumIs ==
    ASSUME NEW f, NEW g, Adds(g, f)
    PROVE  \E h : Adds(h, f) /\ SumFunction(f) = h[DOMAIN f]
BY Zenon DEF Adds, SumFunction, SumFunctionOnSet, FoldFunctionOnSet, MapThenFoldSet

(* The element a sum takes next from a set.                                *)
Pick(S) == [s \in (SUBSET S) \ {{}} |-> CHOOSE x \in s : TRUE]

(* h holds the sums of f over the subsets of S.                            *)
PartSums(h, f, S) ==
    /\ h \in [SUBSET S -> Int]
    /\ h[{}] = 0
    /\ \A s \in (SUBSET S) \ {{}} : h[s] = f[Pick(S)[s]] + h[s \ {Pick(S)[s]}]
    /\ SumFunction(f) = h[S]

(* What is picked is an element.                                           *)
LEMMA Picks ==
    ASSUME NEW S
    PROVE  \A s \in (SUBSET S) \ {{}} : /\ Pick(S)[s] \in s /\ Pick(S)[s] \in S
                                        /\ Pick(S)[s] = CHOOSE x \in s : TRUE
BY DEF Pick

(* A sum over a finite set is made of partial sums.                        *)
LEMMA SumSteps ==
    ASSUME NEW S, IsFiniteSet(S), NEW f \in [S -> Int]
    PROVE  \E h : PartSums(h, f, S)
<1> DEFINE step == [p \in S \X Int |-> f[p[1]] + p[2]]
           pick == Pick(S)
<1>1. step \in [S \X Int -> Int] /\ \A x \in S, k \in Int : step[<<x, k>>] = f[x] + k
  OBVIOUS
<1>2. \A s \in SUBSET S : s # {} => pick[s] \in s /\ pick[s] \in S
  BY Picks
<1>3. PICK g \in [SUBSET S -> Int] : Recurs(g, S, 0, step, pick)
  <2>1. 0 \in Int /\ (\A s \in SUBSET S : s # {} => pick[s] \in s) /\ step \in [S \X Int -> Int]
    BY <1>1, <1>2
  <2> HIDE DEF step, pick
  <2> QED
    BY <2>1, FixedPoint
<1> HIDE DEF step
<1>4. \A s \in SUBSET S : g[s] = IF s = {} THEN 0 ELSE f[pick[s]] + g[s \ {pick[s]}]
  <2> SUFFICES ASSUME NEW s \in SUBSET S, s # {}
               PROVE  g[s] = f[pick[s]] + g[s \ {pick[s]}]
    BY <1>3 DEF Recurs
  <2>1. g[s] = step[<<pick[s], g[s \ {pick[s]}]>>]
    BY <1>3 DEF Recurs
  <2>2. pick[s] \in S /\ g[s \ {pick[s]}] \in Int
    BY <1>2, <1>3
  <2> HIDE DEF pick
  <2> QED
    BY <1>1, <2>1, <2>2
<1>5. Adds(g, f)
  <2>1. \A s \in SUBSET S : s # {} => pick[s] = CHOOSE x \in s : TRUE
    BY Picks
  <2> HIDE DEF pick
  <2>2. g = [s \in SUBSET S |-> g[s]] /\ DOMAIN f = S
    BY <1>3
  <2>3. \A s \in SUBSET S : g[s] = IF s = {} THEN 0
           ELSE f[CHOOSE x \in s : TRUE] + g[s \ {CHOOSE x \in s : TRUE}]
    BY <1>4, <2>1, Zenon
  <2> QED
    BY <2>2, <2>3, Zenon DEF Adds
<1>6. PICK h : Adds(h, f) /\ SumFunction(f) = h[S]
  <2>1. DOMAIN f = S
    OBVIOUS
  <2> QED
    BY <1>5, <2>1, SumIs, Zenon
<1>7. \A s \in SUBSET S : h[s] = IF s = {} THEN 0 ELSE f[pick[s]] + h[s \ {pick[s]}]
  <2>1. DOMAIN f = S
    OBVIOUS
  <2>2. \A s \in SUBSET S : s # {} => pick[s] = CHOOSE x \in s : TRUE
    BY Picks
  <2> HIDE DEF pick
  <2> QED
    BY <1>6, <2>1, <2>2, Zenon DEF Adds
<1>8. \A s \in SUBSET S : h[s] = g[s]
  <2> DEFINE T == {s \in SUBSET S : h[s] = g[s]}
  <2>1. ASSUME NEW s \in SUBSET S, \A x \in s : s \ {x} \in T PROVE s \in T
    <3>1. CASE s = {}
      BY <1>4, <1>7, <3>1
    <3>2. CASE s # {}
      <4>1. s \ {pick[s]} \in T
        BY <1>2, <2>1, <3>2
      <4> QED
        BY <1>4, <1>7, <3>2, <4>1
    <3> QED
      BY <3>1, <3>2
  <2>2. T \in SUBSET SUBSET S
    OBVIOUS
  <2> HIDE DEF T
  <2>3. T = SUBSET S
    BY <2>1, <2>2, SubsetInduction
  <2> QED
    BY <2>3 DEF T
<1>9. h \in [SUBSET S -> Int]
  <2>1. h = [s \in SUBSET S |-> h[s]]
    <3>1. DOMAIN f = S
      OBVIOUS
    <3> QED
      BY <1>6, <3>1, Zenon DEF Adds
  <2>2. \A s \in SUBSET S : h[s] \in Int
    BY <1>3, <1>8
  <2> QED
    BY <2>1, <2>2, Zenon
<1>10. h[{}] = 0 /\ \A s \in (SUBSET S) \ {{}} : h[s] = f[Pick(S)[s]] + h[s \ {Pick(S)[s]}]
  BY <1>7
<1> QED
  BY <1>6, <1>9, <1>10, Zenon DEF PartSums

(* A sum of integers is an integer.                                        *)
LEMMA SumType ==
    ASSUME NEW S, IsFiniteSet(S), NEW f \in [S -> Int]
    PROVE  SumFunction(f) \in Int
<1>1. PICK h : PartSums(h, f, S)
  BY SumSteps
<1> QED
  BY <1>1 DEF PartSums

(* The sum of a sum.                                                       *)
LEMMA SumPlus ==
    ASSUME NEW S, IsFiniteSet(S), NEW f \in [S -> Int], NEW g \in [S -> Int],
           NEW k \in [S -> Int], \A x \in S : k[x] = f[x] + g[x]
    PROVE  SumFunction(k) = SumFunction(f) + SumFunction(g)
<1>1. PICK u : PartSums(u, f, S)
  BY SumSteps
<1>2. PICK v : PartSums(v, g, S)
  BY SumSteps
<1>3. PICK w : PartSums(w, k, S)
  BY SumSteps
<1> DEFINE T == {s \in SUBSET S : w[s] = u[s] + v[s]}
<1>4. ASSUME NEW s \in SUBSET S, \A x \in s : s \ {x} \in T PROVE s \in T
  <2>1. CASE s = {}
    BY <1>1, <1>2, <1>3, <2>1 DEF PartSums
  <2>2. CASE s # {}
    <3>1. PICK x \in s : x = Pick(S)[s] /\ x \in S
      BY <2>2, Picks
    <3>2. /\ u[s] = f[x] + u[s \ {x}]
          /\ v[s] = g[x] + v[s \ {x}]
          /\ w[s] = k[x] + w[s \ {x}]
      BY <1>1, <1>2, <1>3, <2>2, <3>1 DEF PartSums
    <3>3. w[s \ {x}] = u[s \ {x}] + v[s \ {x}]
      BY <1>4
    <3>4. u[s \ {x}] \in Int /\ v[s \ {x}] \in Int
      BY <1>1, <1>2 DEF PartSums
    <3> QED
      BY <3>1, <3>2, <3>3, <3>4
  <2> QED
    BY <2>1, <2>2
<1>5. T \in SUBSET SUBSET S
  OBVIOUS
<1> HIDE DEF T
<1>6. T = SUBSET S
  BY <1>4, <1>5, SubsetInduction
<1> QED
  BY <1>1, <1>2, <1>3, <1>6 DEF T, PartSums

(* A sum with one term that counts.                                        *)
LEMMA SumOne ==
    ASSUME NEW S, IsFiniteSet(S), NEW a \in S, NEW k \in [S -> Int],
           \A x \in S : x # a => k[x] = 0
    PROVE  SumFunction(k) = k[a]
<1>1. PICK w : PartSums(w, k, S)
  BY SumSteps
<1> DEFINE T == {s \in SUBSET S : w[s] = IF a \in s THEN k[a] ELSE 0}
<1>2. ASSUME NEW s \in SUBSET S, \A x \in s : s \ {x} \in T PROVE s \in T
  <2>1. CASE s = {}
    BY <1>1, <2>1 DEF PartSums
  <2>2. CASE s # {}
    <3>1. PICK x \in s : x = Pick(S)[s] /\ x \in S
      BY <2>2, Picks
    <3>2. w[s] = k[x] + w[s \ {x}]
      BY <1>1, <2>2, <3>1 DEF PartSums
    <3>3. w[s \ {x}] = IF a \in s \ {x} THEN k[a] ELSE 0
      BY <1>2
    <3>4. k[a] \in Int
      OBVIOUS
    <3> QED
      BY <3>1, <3>2, <3>3, <3>4
  <2> QED
    BY <2>1, <2>2
<1>3. T \in SUBSET SUBSET S
  OBVIOUS
<1> HIDE DEF T
<1>4. T = SUBSET S
  BY <1>2, <1>3, SubsetInduction
<1> QED
  BY <1>1, <1>4 DEF T, PartSums

(* A sum of zeros.                                                         *)
LEMMA SumZero ==
    ASSUME NEW S, IsFiniteSet(S), NEW z \in [S -> Int], \A x \in S : z[x] = 0
    PROVE  SumFunction(z) = 0
<1>1. SumFunction(z) = SumFunction(z) + SumFunction(z)
  <2>1. \A x \in S : z[x] = z[x] + z[x]
    OBVIOUS
  <2> QED
    BY <2>1, SumPlus
<1> QED
  BY <1>1, SumType

(* g differs from f at a only.                                             *)
OnlyAt(a, f, g, S) == \A x \in S : x # a => g[x] = f[x]

(* A sum of which one term changes.                                        *)
LEMMA SumChange ==
    ASSUME NEW S, IsFiniteSet(S), NEW f \in [S -> Int], NEW g \in [S -> Int], NEW a \in S,
           OnlyAt(a, f, g, S)
    PROVE  SumFunction(g) = SumFunction(f) + (g[a] - f[a])
<1> DEFINE k == [x \in S |-> g[x] - f[x]]
<1>1. k \in [S -> Int] /\ k[a] = g[a] - f[a] /\ \A x \in S : x # a => k[x] = 0
  BY DEF OnlyAt
<1>4. k \in [S -> Int] /\ \A x \in S : g[x] = f[x] + k[x]
  OBVIOUS
<1> HIDE DEF k
<1>2. SumFunction(k) = k[a]
  BY <1>1, SumOne
<1>3. SumFunction(g) = SumFunction(f) + SumFunction(k)
  BY <1>4, SumPlus
<1> QED
  BY <1>1, <1>2, <1>3
=============================================================================
