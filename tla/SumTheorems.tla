---------------------------- MODULE SumTheorems -----------------------------
(***************************************************************************)
(* Facts about the sums the models are built from: MapThenSumSet over a    *)
(* finite set, and FoldSeq with an addition.  Both are iterated over a set *)
(* by a recursive function on its subsets; the lemmas show that this       *)
(* function exists, and what it computes, by minimal counterexamples: a    *)
(* set of natural numbers that is not empty has a least element.           *)
(***************************************************************************)
EXTENDS Integers, SequencesExt, FiniteSetTheorems, WellFoundedInduction, TLAPS

(* The least-number principle, for a set in place of a predicate.          *)
LEMMA LeastNumber ==
  ASSUME NEW T \in SUBSET Nat, T # {}
  PROVE  \E m \in T : \A k \in T : m <= k
<1>. DEFINE R == OpToRel(<, Nat)
<1>1. IsWellFoundedOn(R, Nat)
  BY NatLessThanWellFounded
<1>2. PICK x \in T : \A y \in T : ~ (<<y, x>> \in R)
  <2>. HIDE DEF R
  <2>. QED  BY <1>1, WFMin
<1>3. \A y \in T : <<y, x>> \in Nat \X Nat
  OBVIOUS
<1>4. \A y \in T : ~ (y < x)
  BY <1>2, <1>3 DEF OpToRel
<1>. QED
  BY <1>4

Pick(s) == CHOOSE x \in s : TRUE

(* g sums the weights w over every subset of S.                            *)
SumsUp(g, w, S) ==
  g = [s \in SUBSET S |-> IF s = {} THEN 0 ELSE w[Pick(s)] + g[s \ {Pick(s)}]]

Weights(w, S) == \A x \in S : w[x] \in Int

(* As long as subsets are small, there is such a function.                 *)
SumsUpTo(g, w, S, n) ==
  /\ g = [s \in SUBSET S |-> g[s]]
  /\ \A s \in SUBSET S : Cardinality(s) <= n =>
       g[s] = IF s = {} THEN 0 ELSE w[Pick(s)] + g[s \ {Pick(s)}]

LEMMA SumExists ==
  ASSUME NEW S, IsFiniteSet(S), NEW w
  PROVE  \E g : SumsUp(g, w, S)
<1>. DEFINE Missing == {n \in Nat : ~ \E g : SumsUpTo(g, w, S, n)}
<1>1. \A s \in SUBSET S : /\ IsFiniteSet(s) /\ Cardinality(s) \in Nat
                          /\ Cardinality(s) <= Cardinality(S)
  BY FS_Subset, FS_CardinalityType
<1>2. \A s \in SUBSET S : s # {} =>
        /\ Pick(s) \in s /\ s \ {Pick(s)} \in SUBSET S
        /\ Cardinality(s \ {Pick(s)}) = Cardinality(s) - 1
  BY <1>1, FS_RemoveElement DEF Pick
<1>3. Missing = {}
  <2>. SUFFICES ASSUME Missing # {} PROVE FALSE
    OBVIOUS
  <2>1. PICK n \in Missing : \A k \in Missing : n <= k
    BY LeastNumber
  <2>2. CASE n = 0
    <3>. DEFINE g == [s \in SUBSET S |-> 0]
    <3>1. \A s \in SUBSET S : Cardinality(s) <= 0 => s = {}
      BY <1>1, FS_EmptySet
    <3>2. SumsUpTo(g, w, S, 0)
      BY <3>1 DEF SumsUpTo
    <3>. QED  BY <2>2, <3>2
  <2>3. CASE n # 0
    <3>1. n - 1 \in Nat /\ n - 1 \notin Missing
      BY <2>1, <2>3
    <3>2. PICK h : SumsUpTo(h, w, S, n - 1)
      BY <3>1
    <3>. DEFINE g == [s \in SUBSET S |->
                        IF s = {} THEN 0 ELSE w[Pick(s)] + h[s \ {Pick(s)}]]
    <3>3. \A s \in SUBSET S : Cardinality(s) <= n - 1 => g[s] = h[s]
      BY <3>2 DEF SumsUpTo
    <3>4. ASSUME NEW s \in SUBSET S, Cardinality(s) <= n
          PROVE  g[s] = IF s = {} THEN 0 ELSE w[Pick(s)] + g[s \ {Pick(s)}]
      <4>1. CASE s = {}
        BY <4>1
      <4>2. CASE s # {}
        <5>1. s \ {Pick(s)} \in SUBSET S /\ Cardinality(s \ {Pick(s)}) <= n - 1
          BY <4>2, <3>4, <1>1, <1>2, <3>1
        <5>2. g[s \ {Pick(s)}] = h[s \ {Pick(s)}]
          BY <5>1, <3>3
        <5>. QED  BY <4>2, <5>2
      <4>. QED  BY <4>1, <4>2
    <3>5. SumsUpTo(g, w, S, n)
      <4>1. g = [s \in SUBSET S |-> g[s]]
        OBVIOUS
      <4>. HIDE DEF g
      <4>. QED  BY <4>1, <3>4 DEF SumsUpTo
    <3>. QED  BY <3>5
  <2>. QED  BY <2>2, <2>3
<1>4. Cardinality(S) \in Nat /\ Cardinality(S) \notin Missing
  BY <1>3, FS_CardinalityType
<1>5. PICK g : SumsUpTo(g, w, S, Cardinality(S))
  BY <1>4
<1>6. SumsUp(g, w, S)
  <2>1. \A s \in SUBSET S :
          g[s] = IF s = {} THEN 0 ELSE w[Pick(s)] + g[s \ {Pick(s)}]
    BY <1>1, <1>5 DEF SumsUpTo
  <2>2. g = [s \in SUBSET S |-> g[s]]
    BY <1>5 DEF SumsUpTo
  <2>. QED  BY <2>1, <2>2 DEF SumsUp
<1>. QED
  BY <1>6

(* Summing functions with the same weights agree.                          *)
LEMMA SumsAgree ==
  ASSUME NEW S, NEW w, NEW g, SumsUp(g, w, S),
         NEW T, NEW v, NEW h, SumsUp(h, v, T),
         NEW U, U \subseteq S, U \subseteq T, IsFiniteSet(U),
         \A x \in U : w[x] = v[x]
  PROVE  g[U] = h[U]
<1>. DEFINE Differ == {Cardinality(s) : s \in {s \in SUBSET U : g[s] # h[s]}}
<1>1. \A s \in SUBSET U : IsFiniteSet(s) /\ Cardinality(s) \in Nat
  BY FS_Subset, FS_CardinalityType
<1>2. Differ = {}
  <2>. SUFFICES ASSUME Differ # {} PROVE FALSE
    OBVIOUS
  <2>1. PICK n \in Differ : \A k \in Differ : n <= k
    <3>1. Differ \in SUBSET Nat
      BY <1>1
    <3>. HIDE DEF Differ
    <3>. QED  BY <3>1, LeastNumber
  <2>2. PICK s \in SUBSET U : g[s] # h[s] /\ Cardinality(s) = n
    BY <2>1
  <2>3. s # {}
    <3>1. {} \in SUBSET S /\ {} \in SUBSET T
      OBVIOUS
    <3>2. g[{}] = 0 /\ h[{}] = 0
      BY <3>1 DEF SumsUp
    <3>. QED  BY <2>2, <3>2
  <2>. DEFINE p == Pick(s)
              r == s \ {p}
  <2>4. /\ p \in s /\ r \in SUBSET U
        /\ Cardinality(r) = Cardinality(s) - 1
    BY <2>3, <1>1, FS_RemoveElement DEF Pick
  <2>5. g[r] = h[r]
    <3>1. Cardinality(r) < n
      BY <2>2, <2>4, <1>1
    <3>2. Cardinality(r) \in Nat /\ n \in Nat
      BY <2>2, <2>4, <1>1
    <3>3. Cardinality(r) \notin Differ
      BY <2>1, <3>1, <3>2, <1>1
    <3>. QED  BY <2>4, <3>3
  <2>6. s \in SUBSET S /\ s \in SUBSET T
    OBVIOUS
  <2>7. g[s] = w[p] + g[r] /\ h[s] = v[p] + h[r]
    BY <2>3, <2>6 DEF SumsUp
  <2>8. w[p] = v[p]
    BY <2>4
  <2>. QED  BY <2>2, <2>5, <2>7, <2>8
<1>. QED
  BY <1>2

LEMMA SumIsInt ==
  ASSUME NEW S, IsFiniteSet(S), NEW w, Weights(w, S), NEW g, SumsUp(g, w, S)
  PROVE  \A T \in SUBSET S : g[T] \in Int
<1>. DEFINE Bad == {T \in SUBSET S : g[T] \notin Int}
            Sizes == {Cardinality(T) : T \in Bad}
<1>1. \A T \in SUBSET S : IsFiniteSet(T) /\ Cardinality(T) \in Nat
  BY FS_Subset, FS_CardinalityType
<1>. SUFFICES ASSUME Sizes # {} PROVE FALSE
  OBVIOUS
<1>2. PICK n \in Sizes : \A k \in Sizes : n <= k
  <2>1. Sizes \in SUBSET Nat
    BY <1>1
  <2>. HIDE DEF Sizes
  <2>. QED  BY <2>1, LeastNumber
<1>3. PICK T \in Bad : Cardinality(T) = n
  BY <1>2
<1>4. g[T] = IF T = {} THEN 0 ELSE w[Pick(T)] + g[T \ {Pick(T)}]
  BY DEF SumsUp
<1>5. T # {}
  BY <1>4
<1>. DEFINE p == Pick(T)
<1>6. p \in T /\ w[p] \in Int
  BY <1>5 DEF Pick, Weights
<1>. HIDE DEF p
<1>7. T \ {p} \in SUBSET S /\ Cardinality(T \ {p}) = n - 1 /\ n \in Nat
  BY <1>1, <1>3, <1>6, FS_RemoveElement
<1>8. n - 1 \notin Sizes
  BY <1>2, <1>7
<1>9. g[T \ {p}] \in Int
  BY <1>7, <1>8
<1>. QED
  BY <1>4, <1>5, <1>6, <1>9 DEF p

(* Any element may be taken out first.                                     *)
LEMMA SumTakesOut ==
  ASSUME NEW S, IsFiniteSet(S), NEW w, Weights(w, S), NEW g, SumsUp(g, w, S)
  PROVE  \A T \in SUBSET S : \A x \in T : g[T] = w[x] + g[T \ {x}]
<1>. DEFINE Fine(T) == \A x \in T : g[T] = w[x] + g[T \ {x}]
            Bad == {T \in SUBSET S : ~ Fine(T)}
            Sizes == {Cardinality(T) : T \in Bad}
<1>1. \A T \in SUBSET S : IsFiniteSet(T) /\ Cardinality(T) \in Nat
  BY FS_Subset, FS_CardinalityType
<1>. SUFFICES ASSUME Sizes # {} PROVE FALSE
  OBVIOUS
<1>2. PICK n \in Sizes : \A k \in Sizes : n <= k
  <2>1. Sizes \in SUBSET Nat
    BY <1>1
  <2>. HIDE DEF Sizes
  <2>. QED  BY <2>1, LeastNumber
<1>3. PICK T \in Bad : Cardinality(T) = n
  BY <1>2
<1>4. PICK x \in T : g[T] # w[x] + g[T \ {x}]
  BY <1>3
<1>. DEFINE p == Pick(T)
<1>5. p \in T /\ g[T] = w[p] + g[T \ {p}]
  BY <1>4 DEF Pick, SumsUp
<1>. HIDE DEF p
<1>6. p # x
  BY <1>4, <1>5
<1>7. ASSUME NEW y \in T
      PROVE  Fine(T \ {y})
  <2>1. T \ {y} \in SUBSET S /\ Cardinality(T \ {y}) = n - 1 /\ n \in Nat
    BY <1>1, <1>3, FS_RemoveElement
  <2>2. n - 1 \notin Sizes
    BY <1>2, <2>1
  <2>. HIDE DEF Fine
  <2>. QED  BY <2>1, <2>2
<1>8. g[T \ {p}] = w[x] + g[(T \ {p}) \ {x}]
  BY <1>5, <1>6, <1>7
<1>9. g[T \ {x}] = w[p] + g[(T \ {p}) \ {x}]
  <2>1. (T \ {p}) \ {x} = (T \ {x}) \ {p}
    OBVIOUS
  <2>. QED  BY <1>5, <1>6, <1>7, <2>1
<1>10. w[p] \in Int /\ w[x] \in Int /\ g[(T \ {p}) \ {x}] \in Int
  <2>1. (T \ {p}) \ {x} \in SUBSET S
    OBVIOUS
  <2>. QED  BY <1>5, <2>1, SumIsInt DEF Weights
<1>. QED
  BY <1>4, <1>5, <1>8, <1>9, <1>10

-----------------------------------------------------------------------------
(* The sum of the weights of S.                                            *)
Total(w, S) == MapThenSumSet(LAMBDA x : w[x], S)

LEMMA TotalFunction ==
  ASSUME NEW S, IsFiniteSet(S), NEW w
  PROVE  \E g : SumsUp(g, w, S) /\ \A T \in SUBSET S : g[T] = Total(w, T)
<1>. DEFINE Iter(T) == CHOOSE g : SumsUp(g, w, T)
<1>1. \A T : Total(w, T) = Iter(T)[T]
  BY DEF Total, MapThenSumSet, MapThenFoldSet, SumsUp, Pick
<1>2. \A T \in SUBSET S : IsFiniteSet(T)
  BY FS_Subset
<1>3. \A T \in SUBSET S : SumsUp(Iter(T), w, T)
  BY <1>2, SumExists
<1>. HIDE DEF Iter
<1>4. \A T \in SUBSET S : Iter(S)[T] = Iter(T)[T]
  BY <1>2, <1>3, SumsAgree
<1>. QED
  BY <1>1, <1>3, <1>4

LEMMA TotalOfNone == \A w : Total(w, {}) = 0
<1>. TAKE w
<1>1. PICK g : SumsUp(g, w, {}) /\ g[{}] = Total(w, {})
  BY FS_EmptySet, TotalFunction
<1>. QED
  BY <1>1 DEF SumsUp

LEMMA TotalType ==
  ASSUME NEW S, IsFiniteSet(S), NEW w, Weights(w, S)
  PROVE  Total(w, S) \in Int
<1>1. PICK g : SumsUp(g, w, S) /\ \A T \in SUBSET S : g[T] = Total(w, T)
  BY TotalFunction
<1>. QED
  BY <1>1, SumIsInt

LEMMA TotalWithout ==
  ASSUME NEW S, IsFiniteSet(S), NEW w, Weights(w, S), NEW x \in S
  PROVE  Total(w, S \ {x}) = Total(w, S) - w[x]
<1>1. PICK g : SumsUp(g, w, S) /\ \A T \in SUBSET S : g[T] = Total(w, T)
  BY TotalFunction
<1>2. g[S] = w[x] + g[S \ {x}]
  BY <1>1, SumTakesOut
<1>3. g[S \ {x}] \in Int /\ w[x] \in Int
  BY <1>1, SumIsInt DEF Weights
<1>. QED
  BY <1>1, <1>2, <1>3

LEMMA TotalWith ==
  ASSUME NEW S, IsFiniteSet(S), NEW w, NEW x, x \notin S, Weights(w, S \union {x})
  PROVE  Total(w, S \union {x}) = Total(w, S) + w[x]
<1>1. IsFiniteSet(S \union {x}) /\ (S \union {x}) \ {x} = S
  BY FS_AddElement
<1>2. /\ Total(w, S) = Total(w, S \union {x}) - w[x]
      /\ Total(w, S \union {x}) \in Int /\ w[x] \in Int
  BY <1>1, TotalWithout, TotalType DEF Weights
<1>. QED
  BY <1>2

(* Only the weights on S matter.                                           *)
LEMMA TotalCongruent ==
  ASSUME NEW S, IsFiniteSet(S), NEW w, NEW v, \A x \in S : w[x] = v[x]
  PROVE  Total(w, S) = Total(v, S)
<1>1. PICK g : SumsUp(g, w, S) /\ g[S] = Total(w, S)
  BY TotalFunction
<1>2. PICK h : SumsUp(h, v, S) /\ h[S] = Total(v, S)
  BY TotalFunction
<1>. QED
  BY <1>1, <1>2, SumsAgree
-----------------------------------------------------------------------------
(* Induction over the subsets of a finite set, for a set of subsets in     *)
(* place of a predicate.                                                   *)
LEMMA SubsetInduction ==
  ASSUME NEW S, IsFiniteSet(S), NEW Good, {} \in Good,
         \A T \in SUBSET S : \A x \in S \ T : T \in Good => T \union {x} \in Good
  PROVE  S \in Good
<1>. DEFINE Bad == {T \in SUBSET S : T \notin Good}
            Counts == {Cardinality(T) : T \in Bad}
<1>1. \A T \in SUBSET S : IsFiniteSet(T) /\ Cardinality(T) \in Nat
  BY FS_Subset, FS_CardinalityType
<1>. SUFFICES ASSUME Counts # {} PROVE FALSE
  OBVIOUS
<1>2. PICK n \in Counts : \A k \in Counts : n <= k
  <2>1. Counts \in SUBSET Nat
    BY <1>1
  <2>. HIDE DEF Counts
  <2>. QED  BY <2>1, LeastNumber
<1>3. PICK T \in Bad : Cardinality(T) = n
  BY <1>2
<1>4. PICK x \in T : TRUE
  BY <1>3
<1>5. T \ {x} \in SUBSET S /\ Cardinality(T \ {x}) = n - 1 /\ n \in Nat
  BY <1>1, <1>3, FS_RemoveElement
<1>6. n - 1 \notin Counts
  BY <1>2, <1>5
<1>7. T \ {x} \in Good
  BY <1>5, <1>6
<1>8. x \in S \ (T \ {x}) /\ (T \ {x}) \union {x} = T
  BY <1>3, <1>4
<1>. QED
  BY <1>3, <1>5, <1>7, <1>8

LEMMA TotalNat ==
  ASSUME NEW S, IsFiniteSet(S), NEW w, \A x \in S : w[x] \in Nat
  PROVE  Total(w, S) \in Nat
<1>. DEFINE Good == {T \in SUBSET S : Total(w, T) \in Nat}
<1>1. {} \in Good
  BY TotalOfNone
<1>2. ASSUME NEW T \in SUBSET S, NEW x \in S \ T, T \in Good
      PROVE  T \union {x} \in Good
  <2>1. IsFiniteSet(T) /\ x \notin T /\ Weights(w, T \union {x}) /\ w[x] \in Nat
    BY FS_Subset DEF Weights
  <2>2. Total(w, T \union {x}) = Total(w, T) + w[x]
    BY <2>1, TotalWith
  <2>. QED  BY <1>2, <2>1, <2>2
<1>3. S \in Good
  <2>. HIDE DEF Good
  <2>. QED  BY <1>1, <1>2, SubsetInduction
<1>. QED
  BY <1>3

(* What is taken away.                                                     *)
LEMMA TotalSplit ==
  ASSUME NEW S, IsFiniteSet(S), NEW w, Weights(w, S), NEW T \in SUBSET S
  PROVE  Total(w, S \ T) = Total(w, S) - Total(w, T)
<1>. DEFINE Good == {U \in SUBSET T : Total(w, S \ U) = Total(w, S) - Total(w, U)}
<1>0. IsFiniteSet(T) /\ Total(w, S) \in Int
  BY FS_Subset, TotalType
<1>1. {} \in Good
  <2>1. S \ {} = S
    OBVIOUS
  <2>. QED  BY <1>0, <2>1, TotalOfNone
<1>2. ASSUME NEW U \in SUBSET T, NEW x \in T \ U, U \in Good
      PROVE  U \union {x} \in Good
  <2>1. IsFiniteSet(U) /\ IsFiniteSet(S \ U) /\ w[x] \in Int
    BY FS_Subset DEF Weights
  <2>2. Total(w, U \union {x}) = Total(w, U) + w[x] /\ Total(w, U) \in Int
    BY <2>1, TotalWith, TotalType DEF Weights
  <2>3. Total(w, (S \ U) \ {x}) = Total(w, S \ U) - w[x]
    BY <2>1, TotalWithout DEF Weights
  <2>4. (S \ U) \ {x} = S \ (U \union {x})
    OBVIOUS
  <2>5. Total(w, S \ U) = Total(w, S) - Total(w, U)
    BY <1>2
  <2>6. Total(w, S \ (U \union {x})) = Total(w, S) - Total(w, U \union {x})
    <3>. DEFINE a == Total(w, S)
                b == Total(w, U)
                c == w[x]
    <3>1. a \in Int /\ b \in Int /\ c \in Int
      BY <1>0, <2>1, <2>2
    <3>2. Total(w, S \ (U \union {x})) = (a - b) - c
      BY <2>3, <2>4, <2>5
    <3>3. Total(w, U \union {x}) = b + c
      BY <2>2
    <3>. HIDE DEF a, b, c
    <3>4. (a - b) - c = a - (b + c)
      BY <3>1
    <3>. QED  BY <3>2, <3>3, <3>4 DEF a
  <2>. QED  BY <2>6
<1>3. T \in Good
  <2>. HIDE DEF Good
  <2>. QED  BY <1>0, <1>1, <1>2, SubsetInduction
<1>. QED
  BY <1>3

LEMMA TotalMonotone ==
  ASSUME NEW S, IsFiniteSet(S), NEW w, \A x \in S : w[x] \in Nat, NEW T \in SUBSET S
  PROVE  Total(w, T) <= Total(w, S) /\ Total(w, T) \in Nat /\ Total(w, S) \in Nat
<1>1. IsFiniteSet(T) /\ IsFiniteSet(S \ T)
  BY FS_Subset
<1>2. Total(w, S) \in Nat /\ Total(w, T) \in Nat /\ Total(w, S \ T) \in Nat
  BY <1>1, TotalNat
<1>3. Total(w, S \ T) = Total(w, S) - Total(w, T)
  BY TotalSplit DEF Weights
<1>. QED
  BY <1>2, <1>3

(* Summing over an image under an injective f.                             *)
LEMMA TotalReindexed ==
  ASSUME NEW S, IsFiniteSet(S), NEW f, \A x, y \in S : f[x] = f[y] => x = y,
         NEW w, \A x \in S : w[f[x]] \in Int
  PROVE  Total(w, {f[x] : x \in S}) = Total([x \in S |-> w[f[x]]], S)
<1>. DEFINE v == [x \in S |-> w[f[x]]]
            Img(T) == {f[x] : x \in T}
            Good == {T \in SUBSET S :
                       IsFiniteSet(Img(T)) /\ Total(w, Img(T)) = Total(v, T)}
<1>1. {} \in Good
  <2>1. Img({}) = {}
    OBVIOUS
  <2>. QED  BY <2>1, TotalOfNone, FS_EmptySet
<1>2. ASSUME NEW T \in SUBSET S, NEW x \in S \ T, T \in Good
      PROVE  T \union {x} \in Good
  <2>. DEFINE I == Img(T)
              y == f[x]
  <2>1. IsFiniteSet(T) /\ IsFiniteSet(I) /\ x \notin T
    BY <1>2, FS_Subset
  <2>2. y \notin I /\ Img(T \union {x}) = I \union {y}
    OBVIOUS
  <2>3. Weights(w, I \union {y})
    BY DEF Weights
  <2>4. Weights(v, T \union {x}) /\ v[x] = w[y]
    BY DEF Weights
  <2>5. Total(w, I) = Total(v, T)
    BY <1>2
  <2>. HIDE DEF v, I, y
  <2>6. Total(w, I \union {y}) = Total(w, I) + w[y]
    BY <2>1, <2>2, <2>3, TotalWith
  <2>7. Total(v, T \union {x}) = Total(v, T) + v[x]
    BY <2>1, <2>4, TotalWith
  <2>8. IsFiniteSet(I \union {y})
    BY <2>1, FS_AddElement
  <2>9. Total(w, Img(T \union {x})) = Total(v, T \union {x}) /\ IsFiniteSet(Img(T \union {x}))
    <3>. HIDE DEF Img
    <3>. QED  BY <2>2, <2>4, <2>5, <2>6, <2>7, <2>8
  <2>. HIDE DEF Img
  <2>. QED  BY <2>9
<1>3. S \in Good
  <2>. HIDE DEF Good
  <2>. QED  BY <1>1, <1>2, SubsetInduction
<1>. QED
  BY <1>3
=============================================================================
